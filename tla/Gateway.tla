------------------------------ MODULE Gateway ------------------------------
(***************************************************************************)
(* The request pipeline of the middleware: ServeHTTP for users with an API *)
(* key and serveX402 for agents with a wallet, against one DevPortal that  *)
(* keeps the balances.  Requests run concurrently; each handler is cut at  *)
(* its calls out: key validation, balance, backend, usage report.          *)
(*                                                                         *)
(* KeyValidator models the validation and UsageReporter what becomes of    *)
(* the accumulator; here each is the set of its outcomes.                  *)
(***************************************************************************)
EXTENDS Integers, FiniteSets

CONSTANTS
  Requests,    \* the requests that may arrive, each served once
  Wallets,     \* agents, known by X-Agent-Address
  Keys,        \* users, known by API key
  MasterKeys,  \* those of them that are master keys
  Accounts,    \* the clients the portal knows
  X402Enabled, \* config.X402Enabled, with a portal client
  MinBalance,  \* x402MinBalance
  BackendStatuses, \* the statuses the backend may answer with
  MaxCost,     \* bound on the cost of one request
  Funds,       \* the possible initial balances
  MaxTopUps,   \* bound on top-ups of balances at the portal
  Nobody,      \* the sender of a request that has not arrived
  MaxPosts     \* bound on how often the reporter has a request charged

ASSUME ClientsAssumption ==
  Wallets \cap Keys = {} /\ MasterKeys \subseteq Keys
  /\ Accounts \subseteq Wallets \cup Keys /\ Wallets \subseteq Accounts
  /\ Nobody \notin Wallets \cup Keys
ASSUME AmountsAssumption ==
  MinBalance \in Nat /\ MaxCost \in Nat /\ Funds \subseteq Int
ASSUME StatusesAssumption == BackendStatuses \subseteq Nat \ {0}
ASSUME BoundsAssumption == MaxTopUps \in Nat /\ MaxPosts \in Nat
ASSUME X402Assumption == X402Enabled \in BOOLEAN
ASSUME RequestsAssumption == IsFiniteSet(Requests)

Clients == Wallets \cup Keys

VARIABLES
  pc,        \* pc[q]: where q's handler stands
  who,       \* who[q]: the client that sent q
  model,     \* model[q]: where the model is named: "request", "response", "none"
  blocked,   \* the requests whose URL matches a blocked pattern
  seen,      \* history: what the portal said of the balance when q asked
  status,    \* status[q]: the middleware's answer or the backend's, 0 before it
  served,    \* the requests the backend has produced a response for
  cost,      \* cost[q]: what the tokens of that response are worth
  acc,       \* requests in the token accumulator, for the reporter
  sending,   \* requests whose ReportUsage goroutine is under way
  charged,   \* charged[q]: how often the portal has charged q
  balance,   \* balance[c]: what the portal holds for c
  topUps,    \* how many top-ups have happened
  total, authorized, rejected, \* the metrics collector's counters
  peak       \* history: most requests of a wallet ever exposed at once

vars == <<pc, who, model, blocked, seen, status, served, cost, acc, sending,
          charged, balance, topUps, total, authorized, rejected, peak>>

request == <<who, model, blocked>>
result  == <<served, cost>>
billing == <<acc, sending>>
portal  == <<charged, balance, topUps>>
metrics == <<total, authorized, rejected>>

Named == {"request", "response", "none"}
Replies == {"none", "failed", "unknown", "short", "enough"}
PCs == {"new", "screen", "validate", "verify", "balance", "forward", "pass", "done"}

\* ServeHTTP has returned an error, and Caddy answers.
Broken == -1

Statuses == {0, Broken, 200, 400, 401, 402, 403, 503} \cup BackendStatuses

Init ==
  /\ pc = [q \in Requests |-> "new"]
  /\ who = [q \in Requests |-> Nobody]
  /\ model = [q \in Requests |-> "none"]
  /\ blocked = {}
  /\ seen = [q \in Requests |-> "none"]
  /\ status = [q \in Requests |-> 0]
  /\ served = {}
  /\ cost = [q \in Requests |-> 0]
  /\ acc = {} /\ sending = {}
  /\ charged = [q \in Requests |-> 0]
  /\ balance \in [Clients -> Funds]
  /\ topUps = 0
  /\ total = 0 /\ authorized = 0 /\ rejected = 0
  /\ peak = [w \in Wallets |-> 0]

----------------------------------------------------------------------------
\* Control.

Goto(q, from, to) == pc[q] = from /\ pc' = [pc EXCEPT ![q] = to]

Answer(q, from, s) == Goto(q, from, "done") /\ status' = [status EXCEPT ![q] = s]

\* next.ServeHTTP has returned nil: the backend has answered, and an answer of 4xx
\* or 5xx is one like any other.  The status is passed on and never looked at.
Relays(q, from) ==
  /\ \E s \in BackendStatuses : Answer(q, from, s)
  /\ served' = served \cup {q}

Sees(q, reply) == seen' = [seen EXCEPT ![q] = reply]

\* The requests of w that have passed the balance check and are not yet charged.
Exposed(w) == {q \in Requests : who[q] = w /\ (pc[q] = "forward" \/ q \in sending)}

\* The entry of ServeHTTP.  Without x402 the wallet's header means nothing; with
\* it, an agent's request leaves before the URL filter.
Arrive(q, c, m, b) ==
  /\ Goto(q, "new", IF c \in Wallets /\ X402Enabled THEN "verify" ELSE "screen")
  /\ who' = [who EXCEPT ![q] = c]
  /\ model' = [model EXCEPT ![q] = m]
  /\ blocked' = IF b THEN blocked \cup {q} ELSE blocked
  /\ total' = total + 1
  /\ UNCHANGED <<seen, status, result, billing, portal, authorized, rejected, peak>>

\* The metrics endpoint answers before any check.
ServeMetrics(q) ==
  /\ Answer(q, "new", 200)
  /\ total' = total + 1
  /\ UNCHANGED <<request, seen, result, billing, portal, authorized, rejected, peak>>

----------------------------------------------------------------------------
\* ServeHTTP, for a user with an API key.

Reject(q, from, s) ==
  /\ Answer(q, from, s)
  /\ rejected' = rejected + 1
  /\ UNCHANGED <<request, seen, result, billing, portal, total, authorized, peak>>

UrlBlocked(q) == q \in blocked /\ Reject(q, "screen", 403)

\* No Authorization header, or one of another form.
NoKey(q) == q \notin blocked /\ Reject(q, "screen", 401)

HasKey(q) ==
  /\ q \notin blocked
  /\ who[q] \in Keys
  /\ Goto(q, "screen", "validate")
  /\ UNCHANGED <<request, seen, status, result, billing, portal, metrics, peak>>

\* ValidateAPIKey says no, or fails.
KeyRefused(q) == Reject(q, "validate", 401)

\* Only a request whose body names a model has its balance checked.
KeyAccepted(q) ==
  /\ Goto(q, "validate",
          IF X402Enabled /\ model[q] = "request" THEN "balance" ELSE "forward")
  /\ authorized' = authorized + 1
  /\ UNCHANGED <<request, seen, status, result, billing, portal, total, rejected, peak>>

\* GetUserBalance fails, or answers -1 for a user it does not know: the request
\* passes.  So does one whose balance is negative.
UserMayPass(q) ==
  /\ who[q] \in Keys
  /\ Goto(q, "balance", "forward")
  /\ \/ Sees(q, "failed")
     \/ who[q] \notin Accounts /\ Sees(q, "unknown")
     \/ /\ who[q] \in Accounts /\ balance[who[q]] >= MinBalance
        /\ Sees(q, "enough")
     \/ /\ who[q] \in Accounts /\ balance[who[q]] < MinBalance /\ balance[who[q]] < 0
        /\ Sees(q, "short")
  /\ UNCHANGED <<request, status, result, billing, portal, metrics, peak>>

\* Mutant: an authorized request that lacks balance counts as rejected as well.
UserLacksBalance_Rejects(q) ==
  /\ who[q] \in Keys \cap Accounts
  /\ balance[who[q]] >= 0 /\ balance[who[q]] < MinBalance
  /\ Answer(q, "balance", 402) /\ Sees(q, "short")
  /\ rejected' = rejected + 1
  /\ UNCHANGED <<request, result, billing, portal, total, authorized, peak>>

UserLacksBalance(q) ==
  /\ who[q] \in Keys \cap Accounts
  /\ balance[who[q]] >= 0 /\ balance[who[q]] < MinBalance
  /\ Answer(q, "balance", 402) /\ Sees(q, "short")
  /\ UNCHANGED <<request, result, billing, portal, metrics, peak>>

\* Mutant: a response without a model is recorded too.
UserServed_AnyModel(q, k) ==
  /\ who[q] \in Keys
  /\ Relays(q, "forward")
  /\ cost' = [cost EXCEPT ![q] = k]
  /\ acc' = IF k > 0 THEN acc \cup {q} ELSE acc
  /\ UNCHANGED <<request, seen, sending, portal, metrics, peak>>

\* Mutant: the cached tokens are taken off a prompt that does not count them.
UserServed_Negative(q, k) ==
  /\ who[q] \in Keys
  /\ Relays(q, "forward")
  /\ cost' = [cost EXCEPT ![q] = 0 - k]
  /\ acc' = IF model[q] # "none" THEN acc \cup {q} ELSE acc
  /\ UNCHANGED <<request, seen, sending, portal, metrics, peak>>

\* The backend has answered: the tokens are recorded for the reporter, unless there
\* are none or not even the response names a model.
UserServed(q, k) ==
  /\ who[q] \in Keys
  /\ Relays(q, "forward")
  /\ cost' = [cost EXCEPT ![q] = k]
  /\ acc' = IF model[q] # "none" /\ k > 0 THEN acc \cup {q} ELSE acc
  /\ UNCHANGED <<request, seen, sending, portal, metrics, peak>>

----------------------------------------------------------------------------
\* serveX402, for an agent.

\* An unreadable body, a stale timestamp or a wrong signature.
VerifyFails(q) ==
  /\ \E s \in {400, 401} : Answer(q, "verify", s)
  /\ UNCHANGED <<request, seen, result, billing, portal, metrics, peak>>

\* A body that names no model goes straight to the backend.
Verified(q) ==
  /\ Goto(q, "verify", IF model[q] = "request" THEN "balance" ELSE "pass")
  /\ UNCHANGED <<request, seen, status, result, billing, portal, metrics, peak>>

PassThrough(q) ==
  /\ \/ Relays(q, "pass")
     \/ Answer(q, "pass", Broken) /\ served' \in {served, served \cup {q}}
  /\ UNCHANGED <<request, seen, cost, billing, portal, metrics, peak>>

\* Mutant: an agent passes when the portal fails, as a user does.
PortalDown_FailsOpen(q) ==
  /\ who[q] \in Wallets
  /\ Goto(q, "balance", "forward") /\ Sees(q, "failed")
  /\ UNCHANGED <<request, status, result, billing, portal, metrics, peak>>

\* GetBalance fails: the agent is refused.
PortalDown(q) ==
  /\ who[q] \in Wallets
  /\ Answer(q, "balance", 503) /\ Sees(q, "failed")
  /\ UNCHANGED <<request, result, billing, portal, metrics, peak>>

AgentLacksBalance(q) ==
  /\ who[q] \in Wallets
  /\ balance[who[q]] < MinBalance
  /\ Answer(q, "balance", 402) /\ Sees(q, "short")
  /\ UNCHANGED <<request, result, billing, portal, metrics, peak>>

\* Mutant: the minimum is missed by one.
AgentMayPass_OffByOne(q) ==
  /\ who[q] \in Wallets
  /\ balance[who[q]] >= MinBalance - 1
  /\ Goto(q, "balance", "forward") /\ Sees(q, "enough")
  /\ peak' = [peak EXCEPT ![who[q]] =
                LET n == Cardinality(Exposed(who[q]) \cup {q}) IN IF n > @ THEN n ELSE @]
  /\ UNCHANGED <<request, status, result, billing, portal, metrics>>

\* The balance is read, not reserved.
AgentMayPass(q) ==
  /\ who[q] \in Wallets
  /\ balance[who[q]] >= MinBalance
  /\ Goto(q, "balance", "forward") /\ Sees(q, "enough")
  /\ peak' = [peak EXCEPT ![who[q]] =
                LET n == Cardinality(Exposed(who[q]) \cup {q}) IN IF n > @ THEN n ELSE @]
  /\ UNCHANGED <<request, status, result, billing, portal, metrics>>

\* Mutant: the agent's usage goes to the accumulator as well.
AgentServed_Accumulates(q, k) ==
  /\ who[q] \in Wallets
  /\ Relays(q, "forward")
  /\ cost' = [cost EXCEPT ![q] = k]
  /\ sending' = sending \cup {q} /\ acc' = acc \cup {q}
  /\ authorized' = authorized + 1
  /\ UNCHANGED <<request, seen, portal, total, rejected, peak>>

\* The answer is out and the report is left to a goroutine; the accumulator is
\* not told.
AgentServed(q, k) ==
  /\ who[q] \in Wallets
  /\ Relays(q, "forward")
  /\ cost' = [cost EXCEPT ![q] = k]
  /\ sending' = sending \cup {q}
  /\ authorized' = authorized + 1
  /\ UNCHANGED <<request, seen, acc, portal, total, rejected, peak>>

\* next.ServeHTTP returns an error, perhaps after the backend has answered:
\* nothing is counted.
BackendFails(q) ==
  /\ Answer(q, "forward", Broken)
  /\ served' \in {served, served \cup {q}}
  /\ UNCHANGED <<request, seen, cost, billing, portal, metrics, peak>>

----------------------------------------------------------------------------
\* Reports, and the portal.

Charge(q) ==
  /\ charged' = [charged EXCEPT ![q] = @ + 1]
  /\ balance' = [balance EXCEPT ![who[q]] = @ - cost[q]]
  /\ topUps' = topUps

\* ReportUsage of one request, by its goroutine: it is tried once, and a failure
\* is only logged.  The portal may have charged a report whose answer is lost.
ReportApplied(q) ==
  /\ q \in sending
  /\ sending' = sending \ {q}
  /\ Charge(q)
  /\ UNCHANGED <<pc, request, seen, status, result, acc, metrics, peak>>

ReportLost(q) ==
  /\ q \in sending
  /\ sending' = sending \ {q}
  /\ UNCHANGED <<pc, request, seen, status, result, acc, portal, metrics, peak>>

\* The reporter has a request of the accumulator charged, once or, after a lost
\* answer, more often; or loses it.
ReporterPosts(q) ==
  /\ q \in acc
  /\ charged[q] < MaxPosts
  /\ Charge(q)
  /\ UNCHANGED <<pc, request, seen, status, result, billing, metrics, peak>>

ReporterDone(q) ==
  /\ q \in acc
  /\ acc' = acc \ {q}
  /\ UNCHANGED <<pc, request, seen, status, result, sending, portal, metrics, peak>>

TopUp(c) ==
  /\ topUps < MaxTopUps
  /\ topUps' = topUps + 1
  /\ balance' = [balance EXCEPT ![c] = @ + 1]
  /\ UNCHANGED <<pc, request, seen, status, result, billing, charged, metrics, peak>>

Handle(q) ==
  \/ UrlBlocked(q) \/ NoKey(q) \/ HasKey(q)
  \/ KeyRefused(q) \/ KeyAccepted(q)
  \/ UserMayPass(q) \/ UserLacksBalance(q)
  \/ VerifyFails(q) \/ Verified(q) \/ PassThrough(q)
  \/ PortalDown(q) \/ AgentLacksBalance(q) \/ AgentMayPass(q)
  \/ BackendFails(q)
  \/ \E k \in 0..MaxCost : UserServed(q, k) \/ AgentServed(q, k)

Next ==
  \/ \E q \in Requests :
       \/ ServeMetrics(q)
       \/ \E c \in Clients, m \in Named, b \in BOOLEAN : Arrive(q, c, m, b)
       \/ Handle(q)
       \/ ReportApplied(q) \/ ReportLost(q)
       \/ ReporterPosts(q) \/ ReporterDone(q)
  \/ \E c \in Accounts : TopUp(c)

Spec == Init /\ [][Next]_vars

----------------------------------------------------------------------------
\* Properties.

\* Every variable has its type.
TypeOK ==
  /\ pc \in [Requests -> PCs]
  /\ who \in [Requests -> Clients \cup {Nobody}]
  /\ model \in [Requests -> Named]
  /\ blocked \subseteq Requests
  /\ seen \in [Requests -> Replies]
  /\ status \in [Requests -> Statuses]
  /\ served \subseteq Requests
  /\ cost \in [Requests -> 0..MaxCost]
  /\ acc \subseteq Requests /\ sending \subseteq Requests
  /\ charged \in [Requests -> Nat]
  /\ balance \in [Clients -> Int]
  /\ topUps \in Nat /\ total \in Nat /\ authorized \in Nat /\ rejected \in Nat
  /\ peak \in [Wallets -> Nat]

\* An agent that was ever let through owes at most one request's cost, below the
\* minimum, for each of the requests that were once exposed together: the check
\* of serveX402 reserves nothing, so concurrency is what an overdraft depends on.
OverdraftBounded ==
  \A w \in Wallets :
    peak[w] > 0 => balance[w] >= MinBalance - MaxCost * peak[w]

\* An agent's request is charged once at the most: by the one report of its own, and
\* never through the accumulator as well ("would cause double-billing", the note at
\* the end of serveX402).  That it is charged at all is not claimed: ReportUsage is
\* tried once, and a failure is only logged.
OneBill ==
  \A q \in Requests : who[q] \in Wallets =>
    /\ q \notin acc
    /\ charged[q] <= 1
    /\ q \in sending => charged[q] = 0

\* Whatever is billed was answered by the backend, with whatever status, named a model
\* and was not cut short by an error; and what the URL filter blocks the backend never
\* sees, an agent's requests excepted, which leave before the filter.  A response may
\* also go unbilled: that is not excluded here.
BilledWasServed ==
  \A q \in Requests :
    /\ q \in acc \cup sending \/ charged[q] > 0 =>
         q \in served /\ status[q] \in BackendStatuses /\ model[q] # "none"
    /\ q \in blocked /\ q \in served => who[q] \in Wallets /\ X402Enabled

\* With x402, an agent's request that names a model reaches the backend only after the
\* portal said the balance is enough, a user's only after the portal was asked; and a
\* request that goes no further than a 402 or 503 named a model, and the portal said no
\* or failed.  Nothing is claimed of a master key: the documents let it pass unasked,
\* and ServeHTTP asks.
Gated ==
  \A q \in Requests :
    /\ X402Enabled /\ model[q] = "request" /\ q \in served =>
         IF who[q] \in Wallets THEN seen[q] = "enough"
         ELSE who[q] \in MasterKeys \/ seen[q] # "none"
    /\ status[q] \in {402, 503} /\ q \notin served =>
         model[q] = "request" /\ seen[q] \in {"short", "failed"}

\* A request is counted as authorized or as rejected, never as both.
CountedOnce == authorized + rejected <= total
=============================================================================
