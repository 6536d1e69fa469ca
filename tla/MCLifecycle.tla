---------------------------- MODULE MCLifecycle ----------------------------
(***************************************************************************)
(* Instances of Lifecycle for TLC.                                         *)
(***************************************************************************)
EXTENDS Lifecycle

Text(name, t) ==
  [name |-> name, given |-> TRUE, parses |-> TRUE, text |-> t, number |-> 0]
Number(name, n) ==
  [name |-> name, given |-> TRUE, parses |-> TRUE, text |-> "", number |-> n]

Metered == <<Text("metering", "on"), Text("metering_url", "url")>>

\* A good block; one whose interval is bad; one mended further down; one whose
\* metering is on and reports nowhere; one whose metering is off for the word it
\* is switched on with; and two that do not parse.
LoadedFiles ==
  {Metered,
   Append(Metered, Number("metering_interval", 0)),
   Metered \o <<Number("metering_interval", -5), Number("metering_interval", 600)>>,
   <<Text("metering", "true")>>,
   <<Text("metering", "yes"), Text("metering_url", "url")>>,
   Append(Metered, Text("cache_ttl", "30m")),
   Append(Metered, Number("max_retries", -1))}
=============================================================================
