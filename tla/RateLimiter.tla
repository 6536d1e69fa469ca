---------------------------- MODULE RateLimiter ----------------------------
(***************************************************************************)
(* TokenRateLimiter (metering/token_rate_limiter.go): CheckRateLimit with  *)
(* an estimate before a request, RecordUsage with the actual tokens after  *)
(* it, any number of requests at a time, and the cleanup loop.  Each of    *)
(* the three holds the lock throughout.                                    *)
(***************************************************************************)
EXTENDS Integers, FiniteSets

CONSTANTS
  Requests,  \* the requests that may be under way at once
  Users,     \* the hashes of API keys
  Kinds,     \* the configured windows, numbered in the order they are checked
  Limit,     \* Limit[k]: tokens allowed in a window of kind k
  Duration,  \* Duration[k]: how long such a window lasts
  MaxTokens, \* the most tokens of one request, estimated or actual
  MaxClock   \* bound on the time modelled

ASSUME SetsAssumption == IsFiniteSet(Requests) /\ Kinds \subseteq Nat /\ Kinds # {}
ASSUME LimitsAssumption ==
  /\ Limit \in [Kinds -> Nat] /\ Duration \in [Kinds -> Nat \ {0}]
  /\ MaxTokens \in Nat /\ MaxClock \in Nat

VARIABLES
  clock,
  known,   \* known[u]: the user has an entry in windows
  windows, \* windows[u][k]: tokensUsed and resetTime, or NoWindow
  pc,      \* pc[q]: "idle", or "running" once its check has passed
  who,     \* who[q]: its user
  peak     \* history: the most requests of a user that were running at once

vars == <<clock, known, windows, pc, who, peak>>

Tokens == 0..MaxTokens
NoWindow == [used |-> 0, reset |-> -1]

Init ==
  /\ clock = 0
  /\ known = [u \in Users |-> FALSE]
  /\ windows = [u \in Users |-> [k \in Kinds |-> NoWindow]]
  /\ pc = [q \in Requests |-> "idle"]
  /\ who \in [Requests -> Users]
  /\ peak = [u \in Users |-> 0]

Running(u) == {q \in Requests : pc[q] = "running" /\ who[q] = u}

\* There is no window, or now.After(window.ResetTime).
Expired(w) == clock > w.reset

\* What checkWindow finds or makes.
Opened(u, k) ==
  IF Expired(windows[u][k]) THEN [used |-> 0, reset |-> clock + Duration[k]]
                            ELSE windows[u][k]

Exceeds(u, k, n) == Opened(u, k).used + n > Limit[k]

\* Mutant: the estimate is compared and what is used is not.
Refusing_Estimate(u, n) == {k \in Kinds : n > Limit[k]}

Refusing(u, n) == {k \in Kinds : Exceeds(u, k, n)}

CheckPasses(q, u, n) ==
  /\ pc[q] = "idle"
  /\ Refusing(u, n) = {}
  /\ pc' = [pc EXCEPT ![q] = "running"]
  /\ who' = [who EXCEPT ![q] = u]
  /\ known' = [known EXCEPT ![u] = TRUE]
  /\ windows' = [windows EXCEPT ![u] = [k \in Kinds |-> Opened(u, k)]]
  /\ peak' = [peak EXCEPT ![u] = IF @ > Cardinality(Running(u)) THEN @
                                    ELSE Cardinality(Running(u)) + 1]
  /\ UNCHANGED clock

\* The windows after the one that refuses are not looked at.
CheckRefuses(q, u, n) ==
  /\ pc[q] = "idle"
  /\ Refusing(u, n) # {}
  /\ known' = [known EXCEPT ![u] = TRUE]
  /\ windows' = [windows EXCEPT ![u] =
       [k \in Kinds |-> IF \E j \in Refusing(u, n) : j < k THEN @[k] ELSE Opened(u, k)]]
  /\ UNCHANGED <<clock, pc, who, peak>>

\* Mutant: what is left is counted down.
Updated_CountsDown(u, k, n) == [Opened(u, k) EXCEPT !.used = @ - n]

\* updateWindow.
Updated(u, k, n) == [Opened(u, k) EXCEPT !.used = @ + n]

RecordUsage(q, n) ==
  /\ pc[q] = "running"
  /\ pc' = [pc EXCEPT ![q] = "idle"]
  /\ windows' = IF known[who[q]]
                THEN [windows EXCEPT ![who[q]] = [k \in Kinds |-> Updated(who[q], k, n)]]
                ELSE windows
  /\ UNCHANGED <<clock, known, who, peak>>

\* The request fails: nothing is recorded.
Abandon(q) ==
  /\ pc[q] = "running"
  /\ pc' = [pc EXCEPT ![q] = "idle"]
  /\ UNCHANGED <<clock, known, windows, who, peak>>

\* Mutant: a user is removed as soon as one window has run out.
Cleanup_Any ==
  LET InForce(u, k) == clock < windows[u][k].reset
      Stays(u) == \A k \in Kinds : InForce(u, k)
  IN /\ windows' = [u \in Users |-> [k \in Kinds |->
                      IF Stays(u) THEN windows[u][k] ELSE NoWindow]]
     /\ known' = [u \in Users |-> known[u] /\ Stays(u)]
     /\ UNCHANGED <<clock, pc, who, peak>>

\* CleanupExpiredWindows: a window that is not before its reset time goes, and with
\* its last window the user.
Cleanup ==
  LET InForce(u, k) == clock < windows[u][k].reset
  IN /\ windows' = [u \in Users |-> [k \in Kinds |->
                      IF InForce(u, k) THEN windows[u][k] ELSE NoWindow]]
     /\ known' = [u \in Users |-> known[u] /\ \E k \in Kinds : InForce(u, k)]
     /\ UNCHANGED <<clock, pc, who, peak>>

Tick ==
  /\ clock < MaxClock
  /\ clock' = clock + 1
  /\ UNCHANGED <<known, windows, pc, who, peak>>

Next ==
  \/ \E q \in Requests, n \in Tokens :
       \/ \E u \in Users : CheckPasses(q, u, n) \/ CheckRefuses(q, u, n)
       \/ RecordUsage(q, n)
  \/ \E q \in Requests : Abandon(q)
  \/ Cleanup \/ Tick

Spec == Init /\ [][Next]_vars

----------------------------------------------------------------------------
\* Properties.

\* Every variable has its type.
TypeOK ==
  /\ clock \in Nat
  /\ known \in [Users -> BOOLEAN]
  /\ windows \in [Users -> [Kinds -> [used : Nat, reset : Nat \cup {-1}]]]
  /\ pc \in [Requests -> {"idle", "running"}]
  /\ who \in [Requests -> Users]
  /\ peak \in [Users -> Nat]

\* A window is exceeded by no more than the requests of its user that were once
\* running at the same time can use: nothing is reserved between CheckRateLimit and
\* RecordUsage, and the estimate binds nobody, so no better bound exists.
OvershootBounded ==
  \A u \in Users, k \in Kinds :
    windows[u][k].used <= Limit[k] + MaxTokens * peak[u]

\* A window in force is neither forgotten nor moved nor lowered, whoever checks,
\* records or cleans up meanwhile: CleanupExpiredWindows takes no user with it who
\* still has one, and checkWindow and updateWindow replace none.
KeptInForce(u, k) ==
  clock < windows[u][k].reset =>
    /\ known'[u]
    /\ windows'[u][k].reset = windows[u][k].reset
    /\ windows'[u][k].used >= windows[u][k].used

WindowsKept == [][\A u \in Users, k \in Kinds : KeptInForce(u, k)]_vars
=============================================================================
