----------------------------- MODULE Caddyfile -----------------------------
(***************************************************************************)
(* What UnmarshalCaddyfile of secret_reverse_proxy.go makes of a block      *)
(* secret_reverse_proxy { ... } of a Caddyfile, from the defaults of         *)
(* config/proxy_config.go, and what Validate asks of the result.            *)
(*                                                                         *)
(* A block is a sequence of directives.  An argument, its environment        *)
(* variables expanded, is a text (where the code trims and lower-cases it,   *)
(* what comes of that) or, where the code parses one, a number (durations in *)
(* seconds).  BLOCK_URLS of the environment and the line of the block's      *)
(* name, where only cache_ttl is read, are left out.                         *)
(*                                                                         *)
(* Lifecycle loads what comes of it.                                       *)
(***************************************************************************)
EXTENDS Integers, Sequences, FiniteSetsExt

\* given: it has its argument; parses: ParseDuration, Atoi, ParseFloat, parseByteSize
\* or the list of legal words accept it.
Directives ==
  [name : STRING, given : BOOLEAN, parses : BOOLEAN, text : STRING, number : Int]

Switches == {"metering", "enable_metrics", "x402_enabled"}

Texts ==
  {"metering_url", "API_MASTER_KEY", "master_keys_file", "permit_file",
   "contract_address", "secret_chain_id", "secret_node", "metrics_path",
   "devportal_url", "devportal_service_key", "x402_topup_url"}

Words == {"token_counting_mode", "default_think"}

Numbers ==
  {"metering_interval", "max_body_size", "max_retries", "retry_backoff",
   "default_num_predict", "x402_min_balance_usd"}

Names == Switches \cup Texts \cup Words \cup Numbers

DefaultNumber(name) ==
  CASE name = "cache_ttl" -> 1800
    [] name = "metering_interval" -> 600
    [] name = "max_body_size" -> 10485760
    [] name = "max_retries" -> 3
    [] name = "retry_backoff" -> 300
    [] OTHER -> 0

DefaultText(name) ==
  CASE name = "master_keys_file" -> "master_keys.txt"
    [] name = "contract_address" -> "secret18x"
    [] name = "secret_chain_id" -> "secret-4"
    [] name = "secret_node" -> "rpc12"
    [] name = "metrics_path" -> "/metrics"
    [] name = "token_counting_mode" -> "accurate"
    [] OTHER -> ""

DefaultConfig ==
  [name \in Names \cup {"cache_ttl"} |->
     IF name \in Switches THEN FALSE
     ELSE IF name \in Numbers \cup {"cache_ttl"} THEN DefaultNumber(name)
     ELSE DefaultText(name)]

\* Any other name is unknown, cache_ttl too.
Accepted(d) ==
  /\ d.name \in Names
  /\ d.given
  /\ d.name \in Words \cup Numbers => d.parses
  /\ d.name = "max_retries" => d.number >= 0

\* "yes" switches on all but metering.
On(name) == {"on", "true", "1"} \cup (IF name = "metering" THEN {} ELSE {"yes"})

Value(d) ==
  IF d.name \in Switches THEN d.text \in On(d.name)
  ELSE IF d.name \in Numbers THEN d.number
  ELSE d.text

Mentions(file, name) == {i \in DOMAIN file : file[i].name = name}

\* Every setting is what its last directive says, and its default if there is none.
Configured(file) ==
  [name \in DOMAIN DefaultConfig |->
     IF Mentions(file, name) = {} THEN DefaultConfig[name]
                                  ELSE Value(file[Max(Mentions(file, name))])]

\* The first directive that is not accepted ends the parsing, and with it the load.
UnmarshalCaddyfile(files) ==
  {Configured(file) : file \in {f \in files : \A i \in DOMAIN f : Accepted(f[i])}}

Accepts(c) ==
  /\ c.contract_address # ""
  /\ c.cache_ttl > 0
  /\ c.metering => c.metering_url # "" /\ c.metering_interval > 0
  /\ c.x402_enabled => /\ c.devportal_url # "" /\ c.devportal_service_key # ""
                       /\ c.x402_min_balance_usd > 0
============================================================================
