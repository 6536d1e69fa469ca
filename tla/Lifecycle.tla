----------------------------- MODULE Lifecycle -----------------------------
(***************************************************************************)
(* Provision, Validate and Cleanup of secret_reverse_proxy.go as Caddy     *)
(* calls them when a configuration is loaded, replaced or taken down, with *)
(* the reporting loop each instance starts (token_reporter.go) and the     *)
(* requests still under way on an instance being replaced.                 *)
(*                                                                         *)
(* Load number g makes instance g of the middleware.  What a loop does     *)
(* with usage and reports is in UsageReporter; here only where it is       *)
(* matters, and whether it was told to stop.                               *)
(***************************************************************************)
EXTENDS Caddyfile

CONSTANTS
  Files,   \* the blocks an operator may write
  MaxLoads \* bound on how many are loaded

ASSUME FilesAssumption == Files \subseteq Seq(Directives)
ASSUME BoundsAssumption == MaxLoads \in Nat

\* What may be loaded.  Caddy makes no instance of a block it cannot parse.
Configs == UnmarshalCaddyfile(Files)

VARIABLES
  alive,    \* the process has not panicked
  stage,    \* stage[g]: what Caddy has done with the instance
  config,   \* config[g]
  running,  \* running[g]: the flag of the instance's ResilientReporter
  stopChan, \* stopChan[g]: "open" or "closed"
  loop,     \* loop[g]: where the goroutine of StartReportingLoop is
  acc       \* acc[g]: there is usage in the instance's accumulator

vars == <<alive, stage, config, running, stopChan, loop, acc>>

reporter == <<running, stopChan, loop, acc>>

\* "provisioned", "valid", "refused" and "retired": Caddy is at work on it.
Stages == {"new", "provisioned", "valid", "live", "refused", "retired", "stopping", "gone"}
Loops == {"none", "begun", "reports", "select", "usage", "ended"}

\* The configuration of an instance that is not there yet.
None == DefaultConfig

Gens == 1..MaxLoads

Idle == \A g \in Gens : stage[g] \in {"new", "live", "gone"}
Reporting(g) == loop[g] \notin {"none", "ended"}

Init ==
  /\ alive = TRUE
  /\ stage = [g \in Gens |-> "new"]
  /\ config = [g \in Gens |-> None]
  /\ running = [g \in Gens |-> FALSE]
  /\ stopChan = [g \in Gens |-> "open"]
  /\ loop = [g \in Gens |-> "none"]
  /\ acc = [g \in Gens |-> FALSE]

----------------------------------------------------------------------------
\* Caddy's calls.  It loads one configuration at a time.

MoveTo(g, from, to) == stage[g] = from /\ stage' = [stage EXCEPT ![g] = to]

\* Mutant: StartReportingLoop does not set the flag.
Provision_NoFlag(g) ==
  /\ Idle /\ MoveTo(g, "new", "provisioned")
  /\ \A h \in Gens : h < g => stage[h] # "new"
  /\ \E c \in Configs :
       /\ config' = [config EXCEPT ![g] = c]
       /\ loop' = [loop EXCEPT ![g] = IF c.metering THEN "begun" ELSE "none"]
  /\ UNCHANGED <<alive, running, stopChan, acc>>

\* With metering on, the flag is set and the goroutine started at once.
Provision(g) ==
  /\ Idle /\ MoveTo(g, "new", "provisioned")
  /\ \A h \in Gens : h < g => stage[h] # "new"
  /\ \E c \in Configs :
       /\ config' = [config EXCEPT ![g] = c]
       /\ running' = [running EXCEPT ![g] = c.metering]
       /\ loop' = [loop EXCEPT ![g] = IF c.metering THEN "begun" ELSE "none"]
  /\ UNCHANGED <<alive, stopChan, acc>>

Validate(g) ==
  /\ MoveTo(g, "provisioned", IF Accepts(config[g]) THEN "valid" ELSE "refused")
  /\ UNCHANGED <<alive, config, reporter>>

\* Another part of the configuration fails, or its server does not start.
LoadFails(g) ==
  /\ MoveTo(g, "valid", "refused")
  /\ UNCHANGED <<alive, config, reporter>>

\* The new instance serves and its predecessor, if any, is retired.
Activate(g) ==
  /\ stage[g] = "valid"
  /\ stage' = [h \in Gens |-> IF h = g THEN "live"
                              ELSE IF stage[h] = "live" THEN "retired" ELSE stage[h]]
  /\ UNCHANGED <<alive, config, reporter>>

\* The block is taken out of the configuration, or Caddy is told to stop.
Unload(g) ==
  /\ Idle /\ MoveTo(g, "live", "retired")
  /\ UNCHANGED <<alive, config, reporter>>

\* Mutant: the channel is set to nil where it should be closed.
Cleanup_NilChannel(g) ==
  /\ stage[g] \in {"refused", "retired"}
  /\ IF running[g]
     THEN /\ stage' = [stage EXCEPT ![g] = "stopping"]
          /\ stopChan' = [stopChan EXCEPT ![g] = "nil"]
     ELSE stage' = [stage EXCEPT ![g] = "gone"] /\ UNCHANGED stopChan
  /\ UNCHANGED <<alive, config, running, loop, acc>>

\* Mutant: the reporters share one channel.
Cleanup_OneChannel(g) ==
  /\ stage[g] \in {"refused", "retired"}
  /\ IF running[g]
     THEN /\ stage' = [stage EXCEPT ![g] = "stopping"]
          /\ stopChan' = [h \in Gens |-> "closed"]
     ELSE stage' = [stage EXCEPT ![g] = "gone"] /\ UNCHANGED stopChan
  /\ UNCHANGED <<alive, config, running, loop, acc>>

\* Stop closes the channel if the flag is set.  Cleanup closes quitChan before it,
\* which nobody reads, and empties the validator's cache (CleanupCache of
\* KeyValidator) after it.
Cleanup(g) ==
  /\ stage[g] \in {"refused", "retired"}
  /\ IF running[g]
     THEN /\ stage' = [stage EXCEPT ![g] = "stopping"]
          /\ stopChan' = [stopChan EXCEPT ![g] = "closed"]
     ELSE stage' = [stage EXCEPT ![g] = "gone"] /\ UNCHANGED stopChan
  /\ UNCHANGED <<alive, config, running, loop, acc>>

\* Stop waits for the loop to end, and for a second at most.
StopReturns(g) ==
  /\ MoveTo(g, "stopping", "gone")
  /\ UNCHANGED <<alive, config, reporter>>

----------------------------------------------------------------------------
\* The reporting loop.

Goto(g, from, to) == loop[g] = from /\ loop' = [loop EXCEPT ![g] = to]

\* NewTicker panics on an interval that is not positive, and nobody recovers.
NewTicker(g) ==
  /\ loop[g] = "begun"
  /\ IF config[g].metering_interval > 0
     THEN Goto(g, "begun", "reports") /\ UNCHANGED alive
     ELSE alive' = FALSE /\ UNCHANGED loop
  /\ UNCHANGED <<stage, config, running, stopChan, acc>>

\* retryFailedReports, on startup and after each tick.
RetryFailedReports(g) ==
  /\ Goto(g, "reports", "select")
  /\ UNCHANGED <<alive, stage, config, running, stopChan, acc>>

\* Mutant: the tick only retries what is on disk.
TickerFires_RetriesOnly(g) ==
  /\ Goto(g, "select", "reports")
  /\ UNCHANGED <<alive, stage, config, running, stopChan, acc>>

\* A select whose two channels are ready takes either.
TickerFires(g) ==
  /\ Goto(g, "select", "usage")
  /\ UNCHANGED <<alive, stage, config, running, stopChan, acc>>

ProcessCurrentUsage(g) ==
  /\ Goto(g, "usage", "reports")
  /\ acc' = [acc EXCEPT ![g] = FALSE]
  /\ UNCHANGED <<alive, stage, config, running, stopChan>>

\* The accumulator is left as it is.
ExitLoop(g) ==
  /\ stopChan[g] = "closed"
  /\ Goto(g, "select", "ended")
  /\ running' = [running EXCEPT ![g] = FALSE]
  /\ UNCHANGED <<alive, stage, config, stopChan, acc>>

----------------------------------------------------------------------------
\* Requests.

\* A request records its usage on the instance it came to.  (One that outlives even
\* the start of Cleanup records where nobody may look any more: see UsageReporter.)
Record(g) ==
  /\ stage[g] \in {"live", "retired"} /\ config[g].metering
  /\ acc' = [acc EXCEPT ![g] = TRUE]
  /\ UNCHANGED <<alive, stage, config, running, stopChan, loop>>

Caddy(g) ==
  \/ Validate(g) \/ LoadFails(g) \/ Activate(g)
  \/ Cleanup(g) \/ StopReturns(g)

Loop(g) ==
  \/ NewTicker(g) \/ RetryFailedReports(g)
  \/ TickerFires(g) \/ ProcessCurrentUsage(g) \/ ExitLoop(g)

Next ==
  /\ alive
  /\ \E g \in Gens :
       Provision(g) \/ Unload(g) \/ Caddy(g) \/ Loop(g) \/ Record(g)

Spec == Init /\ [][Next]_vars

\* Caddy goes on with what it has begun, the ticker fires again and again, and a
\* select that finds the channel closed time after time takes that case once.
Fairness ==
  \A g \in Gens : /\ WF_vars(alive /\ Caddy(g)) /\ WF_vars(alive /\ Loop(g))
                  /\ SF_vars(alive /\ ExitLoop(g))

FairSpec == Spec /\ Fairness

----------------------------------------------------------------------------
\* Properties.

\* Every variable has its type.
TypeOK ==
  /\ alive \in BOOLEAN
  /\ stage \in [Gens -> Stages]
  /\ config \in [Gens -> Configs \cup {None}]
  /\ running \in [Gens -> BOOLEAN]
  /\ stopChan \in [Gens -> {"open", "closed"}]
  /\ loop \in [Gens -> Loops]
  /\ acc \in [Gens -> BOOLEAN]

\* When Caddy is done with a load, the only loop nobody has told to stop is that
\* of the instance that serves: a refused or replaced instance leaves no loop
\* that reports for ever (Stop relies on the flag StartReportingLoop has set).
NoOrphanLoop ==
  Idle => \A g \in Gens : Reporting(g) /\ stopChan[g] = "open" => stage[g] = "live"

\* The instance that serves has its loop and nobody has told it to stop, whatever
\* other instances are being refused, retired or stopped meanwhile.
LiveIsMetered ==
  \A g \in Gens : stage[g] = "live" /\ config[g].metering =>
                    Reporting(g) /\ stopChan[g] = "open"

\* The loop of an instance Caddy has done with ends, however long it is in a
\* backoff when Stop gives up waiting for it.
LoopsEnd ==
  \A g \in Gens : (stage[g] = "gone" /\ alive) ~> (~Reporting(g) \/ ~alive)

\* Usage recorded on the instance that serves is flushed, or the instance is
\* replaced first (Cleanup does not flush).
UsageFlushed ==
  \A g \in Gens : (stage[g] = "live" /\ acc[g])
                    ~> (~acc[g] \/ stage[g] # "live" \/ ~alive)

\* secret_reverse_proxy.go:250 to 252 have Validate verify the configuration after
\* Provision and before requests are handled, and line 351 has it refuse a metering
\* interval that is not positive: such a load is refused, and the instance that serves
\* goes on.  Not so: the loop that Provision has started before panics on it.
RefusedNotFatal == (\E g \in Gens : stage[g] = "live") => alive
=============================================================================
