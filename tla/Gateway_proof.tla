--------------------------- MODULE Gateway_proof ---------------------------
\* Theorems about Gateway and their proofs.
EXTENDS Gateway, FiniteSetTheorems, TLAPS

USE ClientsAssumption, AmountsAssumption, BoundsAssumption, X402Assumption,
    RequestsAssumption, StatusesAssumption DEF Clients

\* The requests of a wallet that are exposed are finitely many.
LEMMA ExposedFinite ==
  ASSUME NEW w
  PROVE  /\ IsFiniteSet(Exposed(w))
         /\ Cardinality(Exposed(w)) \in Nat
<1>1. Exposed(w) \in SUBSET Requests
  BY DEF Exposed
<1> QED
  BY <1>1, FS_Subset, FS_CardinalityType

\* A charge takes an amount off one balance.
LEMMA ChargeType ==
  ASSUME NEW S, NEW f \in [S -> Int], NEW x, NEW d \in Int
  PROVE  /\ [f EXCEPT ![x] = @ - d] \in [S -> Int]
         /\ \A y \in S : [f EXCEPT ![x] = @ - d][y] = IF y = x THEN f[y] - d ELSE f[y]
<1> DEFINE g == [f EXCEPT ![x] = @ - d]
<1>1. g = [y \in S |-> IF y = x THEN f[x] - d ELSE f[y]]
  OBVIOUS
<1>2. \A y \in S : g[y] = IF y = x THEN f[y] - d ELSE f[y]
  BY <1>1
<1>3. \A y \in S : g[y] \in Int
  BY <1>2
<1> QED
  BY <1>1, <1>2, <1>3

\* Every variable keeps its type, whatever the step.
LEMMA TypeStep ==
  ASSUME TypeOK, [Next]_vars
  PROVE  TypeOK'
<1> USE DEF TypeOK, PCs, Statuses, Replies, Named
<1> USE DEF Goto, Answer, Relays, Sees, request, result, billing, portal, metrics
<1>1. CASE UNCHANGED vars
  BY <1>1 DEF vars
<1>2. ASSUME NEW q \in Requests, ServeMetrics(q) PROVE TypeOK'
  BY <1>2 DEF ServeMetrics
<1>3. ASSUME NEW q \in Requests, NEW c \in Clients, NEW m \in Named, NEW b \in BOOLEAN,
             Arrive(q, c, m, b)
      PROVE  TypeOK'
  BY <1>3 DEF Arrive
<1>4. ASSUME NEW q \in Requests, NEW from, NEW s \in {401, 403}, Reject(q, from, s)
      PROVE  TypeOK'
  BY <1>4 DEF Reject
<1>5. ASSUME NEW q \in Requests, UrlBlocked(q) \/ NoKey(q) \/ KeyRefused(q) PROVE TypeOK'
  BY <1>5, <1>4 DEF UrlBlocked, NoKey, KeyRefused
<1>6. ASSUME NEW q \in Requests, HasKey(q) \/ Verified(q) PROVE TypeOK'
  BY <1>6 DEF HasKey, Verified
<1>7. ASSUME NEW q \in Requests, KeyAccepted(q) PROVE TypeOK'
  BY <1>7 DEF KeyAccepted
<1>8. ASSUME NEW q \in Requests, UserMayPass(q) PROVE TypeOK'
  BY <1>8 DEF UserMayPass
<1>9. ASSUME NEW q \in Requests, UserLacksBalance(q) \/ PortalDown(q) \/ AgentLacksBalance(q)
      PROVE  TypeOK'
  BY <1>9 DEF UserLacksBalance, PortalDown, AgentLacksBalance
<1>10. ASSUME NEW q \in Requests, VerifyFails(q) \/ PassThrough(q) \/ BackendFails(q)
       PROVE  TypeOK'
  BY <1>10 DEF VerifyFails, PassThrough, BackendFails
<1>11. ASSUME NEW q \in Requests, NEW k \in 0..MaxCost, UserServed(q, k) \/ AgentServed(q, k)
       PROVE  TypeOK'
  BY <1>11 DEF UserServed, AgentServed
<1>12. ASSUME NEW q \in Requests, AgentMayPass(q) PROVE TypeOK'
  <2> DEFINE n == Cardinality(Exposed(who[q]) \cup {q})
  <2>1. n \in Nat
    BY ExposedFinite, FS_AddElement, FS_CardinalityType
  <2>2. peak' \in [Wallets -> Nat]
    <3> HIDE DEF n
    <3>1. peak' = [peak EXCEPT ![who[q]] = IF n > @ THEN n ELSE @]
      BY <1>12 DEF AgentMayPass, n
    <3> QED
      BY <2>1, <3>1
  <2> QED
    BY <1>12, <2>2 DEF AgentMayPass
<1>13. ASSUME NEW q \in Requests, Charge(q)
       PROVE  charged' \in [Requests -> Nat] /\ balance' \in [Clients -> Int] /\ topUps' \in Nat
  <2>1. charged' \in [Requests -> Nat] /\ topUps' \in Nat
    BY <1>13 DEF Charge
  <2>2. cost[q] \in Int
    OBVIOUS
  <2>3. balance' \in [Clients -> Int]
    <3>1. balance \in [Clients -> Int]
      OBVIOUS
    <3>2. balance' = [balance EXCEPT ![who[q]] = @ - cost[q]]
      BY <1>13 DEF Charge
    <3> HIDE DEF TypeOK, Clients
    <3>3. [balance EXCEPT ![who[q]] = @ - cost[q]] \in [Clients -> Int]
      BY <2>2, <3>1, ChargeType, Zenon
    <3> QED
      BY <3>2, <3>3
  <2> QED
    BY <2>1, <2>3
<1>14. ASSUME NEW q \in Requests, ReportApplied(q) \/ ReporterPosts(q) PROVE TypeOK'
  <2>1. CASE ReportApplied(q)
    BY <2>1, <1>13 DEF ReportApplied
  <2>2. CASE ReporterPosts(q)
    BY <2>2, <1>13 DEF ReporterPosts
  <2> QED
    BY <1>14, <2>1, <2>2
<1>15. ASSUME NEW q \in Requests, ReportLost(q) \/ ReporterDone(q) PROVE TypeOK'
  BY <1>15 DEF ReportLost, ReporterDone
<1>16. ASSUME NEW c \in Accounts, TopUp(c) PROVE TypeOK'
  BY <1>16 DEF TopUp
<1>17. ASSUME NEW q \in Requests, Handle(q) PROVE TypeOK'
  <2> HIDE DEF TypeOK
  <2> QED
    BY <1>17, <1>5, <1>6, <1>7, <1>8, <1>9, <1>10, <1>11, <1>12 DEF Handle
<1> HIDE DEF TypeOK, Named
<1> QED
  BY <1>1, <1>2, <1>3, <1>14, <1>15, <1>16, <1>17 DEF Next

\* Every variable of the pipeline has its type, for any requests and clients.
THEOREM Typing == Spec => []TypeOK
<1>1. Init => TypeOK
  <2> SUFFICES ASSUME Init PROVE TypeOK
    OBVIOUS
  <2>1. balance \in [Clients -> Int]
    BY DEF Init
  <2> QED
    BY <2>1 DEF Init, TypeOK, PCs, Statuses, Replies, Named
<1> QED
  BY <1>1, TypeStep, PTL DEF Spec

----------------------------------------------------------------------------
\* What a request has behind it, by where its handler stands: the invariant from
\* which billing and gating follow.

Fresh(q) ==
  /\ status[q] = 0
  /\ q \notin served /\ q \notin acc /\ q \notin sending
  /\ charged[q] = 0

Cleared(q) == IF who[q] \in Wallets THEN seen[q] = "enough" ELSE seen[q] # "none"

Stage(q) ==
  /\ pc[q] # "done" => Fresh(q)
  /\ pc[q] = "validate" => who[q] \in Keys
  /\ pc[q] = "verify" => who[q] \in Wallets /\ X402Enabled
  /\ pc[q] \in {"validate", "balance", "forward", "pass"} /\ q \in blocked =>
       who[q] \in Wallets /\ X402Enabled
  /\ pc[q] = "pass" => model[q] # "request"
  /\ pc[q] = "balance" => model[q] = "request"
  /\ pc[q] = "forward" =>
       /\ who[q] \in Wallets => model[q] = "request"
       /\ X402Enabled /\ model[q] = "request" => Cleared(q)

Billed(q) == q \in acc \/ q \in sending \/ charged[q] > 0

\* OneBill, BilledWasServed and Gated, of one request.
Sound(q) ==
  /\ who[q] \in Wallets => /\ q \notin acc
                           /\ charged[q] <= 1
                           /\ q \in sending => charged[q] = 0
  /\ Billed(q) => q \in served /\ status[q] \in BackendStatuses /\ model[q] # "none"
  /\ q \in blocked /\ q \in served => who[q] \in Wallets /\ X402Enabled
  /\ X402Enabled /\ model[q] = "request" /\ q \in served => Cleared(q)
  /\ status[q] \in {402, 503} /\ q \notin served =>
       model[q] = "request" /\ seen[q] \in {"short", "failed"}

IInv == \A q \in Requests : Stage(q) /\ Sound(q)

\* What the invariant says of a request reads the state of that request alone.
SameRequest(q) ==
  /\ pc'[q] = pc[q] /\ who'[q] = who[q] /\ model'[q] = model[q] /\ seen'[q] = seen[q]
  /\ status'[q] = status[q] /\ charged'[q] = charged[q]
  /\ q \in served' <=> q \in served
  /\ q \in blocked' <=> q \in blocked
  /\ q \in acc' <=> q \in acc
  /\ q \in sending' <=> q \in sending

\* A step that leaves a request alone keeps what holds of it.
LEMMA FrameOne ==
  ASSUME NEW q, Stage(q), Sound(q), SameRequest(q)
  PROVE  Stage(q)' /\ Sound(q)'
  BY DEF SameRequest, Stage, Sound, Fresh, Cleared, Billed

\* A step of one request keeps the invariant when it keeps it of that request.
LEMMA FrameOthers ==
  ASSUME TypeOK, IInv, NEW q \in Requests,
         Stage(q)' /\ Sound(q)',
         \A p \in Requests \ {q} : SameRequest(p)
  PROVE  IInv'
  BY FrameOne DEF IInv

\* Every step of the pipeline keeps the invariant.
LEMMA IInvStep ==
  ASSUME TypeOK, IInv, [Next]_vars
  PROVE  IInv'
<1> USE DEF Goto, Answer, Relays, Sees, request, result, billing, portal, metrics
<1>0. \A q \in Requests : Stage(q) /\ Sound(q)
  BY DEF IInv
<1>1. CASE UNCHANGED vars
  <2>1. \A q \in Requests : SameRequest(q)
    BY <1>1 DEF vars, SameRequest
  <2> QED
    BY <1>0, <2>1, FrameOne DEF IInv
<1>2. ASSUME NEW c \in Accounts, TopUp(c) PROVE IInv'
  <2>1. \A q \in Requests : SameRequest(q)
    BY <1>2 DEF TopUp, SameRequest
  <2> QED
    BY <1>0, <2>1, FrameOne DEF IInv
<1>3. ASSUME NEW q \in Requests,
             \/ ServeMetrics(q)
             \/ \E c \in Clients, m \in Named, b \in BOOLEAN : Arrive(q, c, m, b)
             \/ Handle(q)
             \/ ReportApplied(q) \/ ReportLost(q) \/ ReporterPosts(q) \/ ReporterDone(q)
      PROVE  IInv'
  <2> USE DEF TypeOK
  <2>0. Stage(q) /\ Sound(q)
    BY <1>0
  <2>1. CASE ServeMetrics(q)
    <3>1. Stage(q)' /\ Sound(q)'
      BY <2>0, <2>1 DEF ServeMetrics, Stage, Sound, Fresh, Cleared, Billed
    <3>2. \A p \in Requests \ {q} : SameRequest(p)
      BY <2>1 DEF ServeMetrics, SameRequest
    <3> QED
      BY <3>1, <3>2, FrameOthers
  <2>2. CASE \E c \in Clients, m \in Named, b \in BOOLEAN : Arrive(q, c, m, b)
    <3>1. Stage(q)' /\ Sound(q)'
      BY <2>0, <2>2 DEF Arrive, Stage, Sound, Fresh, Cleared, Billed
    <3>2. \A p \in Requests \ {q} : SameRequest(p)
      BY <2>2 DEF Arrive, SameRequest
    <3> QED
      BY <3>1, <3>2, FrameOthers
  <2>3. CASE UrlBlocked(q) \/ NoKey(q) \/ KeyRefused(q)
    <3>1. Stage(q)' /\ Sound(q)'
      BY <2>0, <2>3 DEF UrlBlocked, NoKey, KeyRefused, Reject, Stage, Sound, Fresh, Cleared, Billed
    <3>2. \A p \in Requests \ {q} : SameRequest(p)
      BY <2>3 DEF UrlBlocked, NoKey, KeyRefused, Reject, SameRequest
    <3> QED
      BY <3>1, <3>2, FrameOthers
  <2>4. CASE HasKey(q)
    <3>1. Stage(q)' /\ Sound(q)'
      BY <2>0, <2>4 DEF HasKey, Stage, Sound, Fresh, Cleared, Billed
    <3>2. \A p \in Requests \ {q} : SameRequest(p)
      BY <2>4 DEF HasKey, SameRequest
    <3> QED
      BY <3>1, <3>2, FrameOthers
  <2>5. CASE KeyAccepted(q)
    <3>1. Stage(q)' /\ Sound(q)'
      BY <2>0, <2>5 DEF KeyAccepted, Stage, Sound, Fresh, Cleared, Billed
    <3>2. \A p \in Requests \ {q} : SameRequest(p)
      BY <2>5 DEF KeyAccepted, SameRequest
    <3> QED
      BY <3>1, <3>2, FrameOthers
  <2>6. CASE UserMayPass(q)
    <3>1. Stage(q)' /\ Sound(q)'
      BY <2>0, <2>6 DEF UserMayPass, Stage, Sound, Fresh, Cleared, Billed
    <3>2. \A p \in Requests \ {q} : SameRequest(p)
      BY <2>6 DEF UserMayPass, SameRequest
    <3> QED
      BY <3>1, <3>2, FrameOthers
  <2>7. CASE UserLacksBalance(q)
    <3>1. Stage(q)' /\ Sound(q)'
      BY <2>0, <2>7 DEF UserLacksBalance, Stage, Sound, Fresh, Cleared, Billed
    <3>2. \A p \in Requests \ {q} : SameRequest(p)
      BY <2>7 DEF UserLacksBalance, SameRequest
    <3> QED
      BY <3>1, <3>2, FrameOthers
  <2>8. CASE VerifyFails(q)
    <3>1. Stage(q)' /\ Sound(q)'
      BY <2>0, <2>8 DEF VerifyFails, Stage, Sound, Fresh, Cleared, Billed
    <3>2. \A p \in Requests \ {q} : SameRequest(p)
      BY <2>8 DEF VerifyFails, SameRequest
    <3> QED
      BY <3>1, <3>2, FrameOthers
  <2>9. CASE Verified(q)
    <3>1. Stage(q)' /\ Sound(q)'
      BY <2>0, <2>9 DEF Verified, Stage, Sound, Fresh, Cleared, Billed
    <3>2. \A p \in Requests \ {q} : SameRequest(p)
      BY <2>9 DEF Verified, SameRequest
    <3> QED
      BY <3>1, <3>2, FrameOthers
  <2>10. CASE PassThrough(q)
    <3>1. Stage(q)' /\ Sound(q)'
      BY <2>0, <2>10 DEF PassThrough, Broken, Stage, Sound, Fresh, Cleared, Billed
    <3>2. \A p \in Requests \ {q} : SameRequest(p)
      BY <2>10 DEF PassThrough, SameRequest
    <3> QED
      BY <3>1, <3>2, FrameOthers
  <2>11. CASE PortalDown(q) \/ AgentLacksBalance(q)
    <3>1. Stage(q)' /\ Sound(q)'
      BY <2>0, <2>11 DEF PortalDown, AgentLacksBalance, Stage, Sound, Fresh, Cleared, Billed
    <3>2. \A p \in Requests \ {q} : SameRequest(p)
      BY <2>11 DEF PortalDown, AgentLacksBalance, SameRequest
    <3> QED
      BY <3>1, <3>2, FrameOthers
  <2>12. CASE AgentMayPass(q)
    <3>1. Stage(q)' /\ Sound(q)'
      BY <2>0, <2>12 DEF AgentMayPass, Stage, Sound, Fresh, Cleared, Billed
    <3>2. \A p \in Requests \ {q} : SameRequest(p)
      BY <2>12 DEF AgentMayPass, SameRequest
    <3> QED
      BY <3>1, <3>2, FrameOthers
  <2>13. CASE BackendFails(q)
    <3>1. Stage(q)' /\ Sound(q)'
      BY <2>0, <2>13 DEF BackendFails, Broken, Stage, Sound, Fresh, Cleared, Billed
    <3>2. \A p \in Requests \ {q} : SameRequest(p)
      BY <2>13 DEF BackendFails, SameRequest
    <3> QED
      BY <3>1, <3>2, FrameOthers
  <2>14. CASE \E k \in 0..MaxCost : UserServed(q, k)
    <3>1. Stage(q)' /\ Sound(q)'
      BY <2>0, <2>14 DEF UserServed, Stage, Sound, Fresh, Cleared, Billed
    <3>2. \A p \in Requests \ {q} : SameRequest(p)
      BY <2>14 DEF UserServed, SameRequest
    <3> QED
      BY <3>1, <3>2, FrameOthers
  <2>15. CASE \E k \in 0..MaxCost : AgentServed(q, k)
    <3>1. Stage(q)' /\ Sound(q)'
      BY <2>0, <2>15 DEF AgentServed, Stage, Sound, Fresh, Cleared, Billed
    <3>2. \A p \in Requests \ {q} : SameRequest(p)
      BY <2>15 DEF AgentServed, SameRequest
    <3> QED
      BY <3>1, <3>2, FrameOthers
  <2>16. CASE ReportApplied(q) \/ ReportLost(q)
    <3>1. Stage(q)' /\ Sound(q)'
      BY <2>0, <2>16 DEF ReportApplied, ReportLost, Charge, Stage, Sound, Fresh, Cleared, Billed
    <3>2. \A p \in Requests \ {q} : SameRequest(p)
      BY <2>16 DEF ReportApplied, ReportLost, Charge, SameRequest
    <3> QED
      BY <3>1, <3>2, FrameOthers
  <2>17. CASE ReporterPosts(q) \/ ReporterDone(q)
    <3>1. Stage(q)' /\ Sound(q)'
      BY <2>0, <2>17 DEF ReporterPosts, ReporterDone, Charge, Stage, Sound, Fresh, Cleared, Billed
    <3>2. \A p \in Requests \ {q} : SameRequest(p)
      BY <2>17 DEF ReporterPosts, ReporterDone, Charge, SameRequest
    <3> QED
      BY <3>1, <3>2, FrameOthers
  <2> QED
    BY <1>3, <2>1, <2>2, <2>3, <2>4, <2>5, <2>6, <2>7, <2>8, <2>9, <2>10, <2>11, <2>12, <2>13, <2>14, <2>15, <2>16, <2>17 DEF Handle
<1> QED
  BY <1>1, <1>2, <1>3 DEF Next

\* The invariant holds in every reachable state.
LEMMA IInvAlways == Spec => [](TypeOK /\ IInv)
<1>1. Init => IInv
  BY DEF Init, IInv, Stage, Sound, Fresh, Cleared, Billed
<1>2. TypeOK /\ IInv /\ [Next]_vars => IInv'
  BY IInvStep
<1> QED
  BY <1>1, <1>2, Typing, PTL DEF Spec

\* An agent's request has one bill: serveX402 reports it once and keeps it out of
\* the accumulator, however many requests run at once.
THEOREM Billing == Spec => []OneBill
<1>1. IInv => OneBill
  BY DEF IInv, Sound, OneBill
<1> QED
  BY <1>1, IInvAlways, PTL

\* What is billed was answered by the backend, whatever its status, and named a model;
\* what the URL filter of ServeHTTP blocks never reaches the backend.
THEOREM Served == Spec => []BilledWasServed
<1>1. IInv => BilledWasServed
  BY DEF IInv, Sound, Billed, BilledWasServed
<1> QED
  BY <1>1, IInvAlways, PTL

\* The balance check of ServeHTTP and serveX402 stands before every request that names
\* a model, a master key's excepted, and refuses no other.
THEOREM Gating == Spec => []Gated
<1>1. IInv => Gated
  BY DEF IInv, Sound, Cleared, Gated
<1> QED
  BY <1>1, IInvAlways, PTL

----------------------------------------------------------------------------
\* What moves the portal's books.

\* The step charges c for a request of its own that the backend answered and that
\* named a model.
Debited(c) ==
  \E q \in Requests :
    /\ who[q] = c /\ q \in served /\ status[q] \in BackendStatuses /\ model[q] # "none"
    /\ charged'[q] = charged[q] + 1
    /\ balance'[c] = balance[c] - cost[q]

\* A charge debits the sender and nobody else.
LEMMA ChargeDebits ==
  ASSUME TypeOK, NEW q \in Requests, Charge(q), NEW c \in Clients,
         balance'[c] < balance[c],
         q \in served /\ status[q] \in BackendStatuses /\ model[q] # "none"
  PROVE  Debited(c)
<1>1. cost[q] \in Int /\ balance \in [Clients -> Int] /\ charged \in [Requests -> Nat]
  BY DEF TypeOK
<1>2. balance'[c] = IF c = who[q] THEN balance[c] - cost[q] ELSE balance[c]
  BY <1>1, ChargeType DEF Charge
<1>3. who[q] = c
  BY <1>1, <1>2
<1>4. charged'[q] = charged[q] + 1
  BY <1>1 DEF Charge
<1> QED
  BY <1>2, <1>3, <1>4 DEF Debited

\* A balance falls only when its owner is charged for a request of its own that the
\* backend answered: no report of ReportUsage or of the reporter debits another client,
\* a refused request or one that named no model.
THEOREM DebitsAreDue ==
  Spec => [][\A c \in Clients : balance'[c] < balance[c] => Debited(c)]_vars
<1>1. TypeOK /\ IInv /\ [Next]_vars =>
        [\A c \in Clients : balance'[c] < balance[c] => Debited(c)]_vars
  <2> SUFFICES ASSUME TypeOK, IInv, Next, NEW c \in Clients, balance'[c] < balance[c]
               PROVE  Debited(c)
    OBVIOUS
  <2>0. balance \in [Clients -> Int]
    BY DEF TypeOK
  <2>1. balance' # balance
    BY <2>0
  <2>2. ASSUME NEW d \in Accounts, TopUp(d) PROVE FALSE
    BY <2>0, <2>2 DEF TopUp
  <2>3. ASSUME NEW q \in Requests, ReportApplied(q) \/ ReporterPosts(q) PROVE Debited(c)
    <3>1. q \in served /\ status[q] \in BackendStatuses /\ model[q] # "none"
      BY <2>3 DEF IInv, Sound, Billed, ReportApplied, ReporterPosts
    <3>2. Charge(q)
      BY <2>3 DEF ReportApplied, ReporterPosts
    <3> QED
      BY <3>1, <3>2, ChargeDebits
  <2>4. ASSUME NEW q \in Requests, Handle(q) \/ ServeMetrics(q) PROVE FALSE
    BY <2>1, <2>4 DEF Handle, ServeMetrics, UrlBlocked, NoKey, HasKey, KeyRefused, Reject,
         KeyAccepted, UserMayPass, UserLacksBalance, VerifyFails, Verified, PassThrough,
         PortalDown, AgentLacksBalance, AgentMayPass, BackendFails, UserServed, AgentServed,
         portal
  <2>5. ASSUME NEW q \in Requests, NEW d \in Clients, NEW m \in Named, NEW b \in BOOLEAN,
               Arrive(q, d, m, b)
        PROVE  FALSE
    BY <2>1, <2>5 DEF Arrive, portal
  <2>6. ASSUME NEW q \in Requests, ReportLost(q) \/ ReporterDone(q) PROVE FALSE
    BY <2>1, <2>6 DEF ReportLost, ReporterDone, portal
  <2> QED
    BY <2>2, <2>3, <2>4, <2>5, <2>6 DEF Next
<1> QED
  BY <1>1, IInvAlways, PTL DEF Spec

----------------------------------------------------------------------------
\* The overdraft.  What an agent may still be charged counts as spent: then the
\* debt is bounded by the exposure the agent once had.

Debt(w) ==
  peak[w] > 0 =>
    balance[w] - MaxCost * Cardinality(Exposed(w)) >= MinBalance - MaxCost * peak[w]

\* Products grow with their factor.
LEMMA Mono ==
  ASSUME NEW a \in Nat, NEW m \in Nat, NEW n \in Nat, m <= n
  PROVE  a * m \in Nat /\ a * m <= a * n
<1>1. PICK d \in Nat : n = m + d
  <2>1. n - m \in Nat /\ n = m + (n - m)
    OBVIOUS
  <2> QED
    BY <2>1
<1>2. a * n = a * m + a * d /\ a * d \in Nat /\ a * m \in Nat
  BY <1>1
<1> QED
  BY <1>2

\* A step that exposes nothing more and takes nothing off the balance.
LEMMA DebtCalm ==
  ASSUME TypeOK, NEW w \in Wallets, Debt(w), balance'[w] \in Int,
         Exposed(w)' \subseteq Exposed(w), peak'[w] = peak[w], balance'[w] >= balance[w]
  PROVE  Debt(w)'
<1> DEFINE m == Cardinality(Exposed(w)')
           n == Cardinality(Exposed(w))
<1>1. IsFiniteSet(Exposed(w)) /\ n \in Nat
  BY ExposedFinite
<1>2. m \in Nat /\ m <= n
  BY <1>1, FS_Subset, FS_CardinalityType
<1>3. MaxCost * m <= MaxCost * n /\ MaxCost * m \in Nat /\ MaxCost * n \in Nat
  BY <1>1, <1>2, Mono
<1>4. balance[w] \in Int /\ peak[w] \in Nat
  BY DEF TypeOK
<1>5. MaxCost * peak[w] \in Nat
  BY <1>4, Mono
<1>6. Debt(w)' <=> (peak'[w] > 0 => balance'[w] - MaxCost * m >= MinBalance - MaxCost * peak'[w])
  BY DEF Debt
<1>7. Debt(w) <=> (peak[w] > 0 => balance[w] - MaxCost * n >= MinBalance - MaxCost * peak[w])
  BY DEF Debt
<1> HIDE DEF m, n
<1>8. ASSUME NEW x \in Nat, NEW y \in Nat, NEW z \in Nat, x <= y,
             balance[w] - y >= MinBalance - z
      PROVE  balance'[w] - x >= MinBalance - z
  BY <1>4, <1>8
<1>9. peak[w] > 0 => balance'[w] - MaxCost * m >= MinBalance - MaxCost * peak[w]
  BY <1>3, <1>5, <1>7, <1>8
<1> QED
  BY <1>6, <1>9

\* A request of w passes the check: w is exposed by one more, at a balance that
\* is enough.
LEMMA DebtPass ==
  ASSUME TypeOK, IInv, NEW q \in Requests, AgentMayPass(q)
  PROVE  Debt(who[q])'
<1> DEFINE w == who[q]
           n == Cardinality(Exposed(w) \cup {q})
<1>1. w \in Wallets /\ balance[w] \in Int /\ balance[w] >= MinBalance /\ balance' = balance
  BY DEF AgentMayPass, TypeOK, portal
<1>2. Exposed(w)' = Exposed(w) \cup {q}
  BY DEF AgentMayPass, Goto, Exposed, TypeOK, request, billing
<1>3. n \in Nat
  BY ExposedFinite, FS_AddElement, FS_CardinalityType
<1>4. peak'[w] = IF n > peak[w] THEN n ELSE peak[w]
  BY <1>1 DEF AgentMayPass, TypeOK
<1>5. peak[w] \in Nat /\ peak'[w] \in Nat /\ n <= peak'[w]
  <2>1. peak[w] \in Nat
    BY <1>1 DEF TypeOK
  <2> HIDE DEF n
  <2> QED
    BY <2>1, <1>3, <1>4
<1>6. MaxCost * n <= MaxCost * peak'[w] /\ MaxCost * n \in Nat /\ MaxCost * peak'[w] \in Nat
  BY <1>3, <1>5, Mono
<1>7. who'[q] = w
  BY DEF AgentMayPass, request
<1>8. Cardinality(Exposed(w)') = n
  BY <1>2
<1>9. ASSUME NEW x \in Nat, NEW y \in Nat, x <= y PROVE balance[w] - x >= MinBalance - y
  BY <1>1, <1>9
<1>10. balance[w] - MaxCost * n >= MinBalance - MaxCost * peak'[w]
  BY <1>6, <1>9
<1>11. Debt(who[q])' <=> (peak'[w] > 0 =>
         balance'[w] - MaxCost * Cardinality(Exposed(w)') >= MinBalance - MaxCost * peak'[w])
  BY <1>7 DEF Debt, Exposed
<1> QED
  BY <1>1, <1>8, <1>10, <1>11

\* An applied report: w is exposed by one less and pays at most one request's cost.
LEMMA DebtCharge ==
  ASSUME TypeOK, IInv, NEW w \in Wallets, Debt(w), NEW q \in Requests,
         ReportApplied(q), who[q] = w
  PROVE  Debt(w)'
<1> DEFINE n == Cardinality(Exposed(w))
<1>1. balance[w] \in Int /\ peak[w] \in Nat /\ cost[q] \in 0..MaxCost
  BY DEF TypeOK
<1>2. balance'[w] = balance[w] - cost[q] /\ peak' = peak
  <2>1. balance' = [balance EXCEPT ![who[q]] = @ - cost[q]] /\ peak' = peak
    BY DEF ReportApplied, Charge
  <2>2. balance \in [Clients -> Int] /\ w \in Clients /\ cost[q] \in Int
    BY <1>1 DEF TypeOK
  <2> QED
    BY <2>1, <2>2
<1>3. q \in Exposed(w) /\ Exposed(w)' = Exposed(w) \ {q}
  <2>1. pc[q] = "done"
    BY DEF ReportApplied, IInv, Stage, Fresh
  <2> QED
    BY <2>1 DEF ReportApplied, Exposed, request
<1>4. n \in Nat /\ n - 1 \in Nat /\ Cardinality(Exposed(w)') = n - 1
  <2>1. Cardinality(Exposed(w) \ {q}) = n - 1
    BY <1>3, ExposedFinite, FS_RemoveElement
  <2>2. IsFiniteSet(Exposed(w) \ {q})
    BY ExposedFinite, FS_RemoveElement
  <2>3. n - 1 \in Nat
    BY <2>1, <2>2, FS_CardinalityType
  <2> QED
    BY <1>3, <2>1, <2>3, ExposedFinite
<1>5. Debt(w)' <=> (peak'[w] > 0 =>
         balance'[w] - MaxCost * Cardinality(Exposed(w)') >= MinBalance - MaxCost * peak'[w])
  BY DEF Debt
<1>6. Debt(w) <=> (peak[w] > 0 => balance[w] - MaxCost * n >= MinBalance - MaxCost * peak[w])
  BY DEF Debt
<1> HIDE DEF n
<1>7. MaxCost * n = MaxCost * (n - 1) + MaxCost /\ MaxCost * (n - 1) \in Nat
  BY <1>4, Mono
<1>8. MaxCost * peak[w] \in Nat
  BY <1>1, Mono
<1>9. ASSUME NEW x \in Nat, NEW z \in Nat, balance[w] - (x + MaxCost) >= MinBalance - z
      PROVE  (balance[w] - cost[q]) - x >= MinBalance - z
  BY <1>1, <1>9
<1>10. peak[w] > 0 => (balance[w] - cost[q]) - MaxCost * (n - 1) >= MinBalance - MaxCost * peak[w]
  BY <1>6, <1>7, <1>8, <1>9
<1> QED
  BY <1>2, <1>4, <1>5, <1>10

\* Every other step is calm for w.
LEMMA DebtStep ==
  ASSUME TypeOK, IInv, TypeOK', [Next]_vars, NEW w \in Wallets, Debt(w)
  PROVE  Debt(w)'
<1> USE DEF Goto, Answer, Relays, Sees, request, result, billing, portal, metrics
<1>0. balance[w] \in Int /\ balance'[w] \in Int /\ \A q \in Requests : Stage(q) /\ Sound(q)
  BY DEF TypeOK, IInv
<1>1. CASE UNCHANGED vars
  BY <1>0, <1>1, DebtCalm DEF vars, Exposed
<1>2. ASSUME NEW c \in Accounts, TopUp(c) PROVE Debt(w)'
  <2>1. balance'[w] >= balance[w]
    BY <1>0, <1>2 DEF TopUp, TypeOK
  <2> QED
    BY <1>0, <1>2, <2>1, DebtCalm DEF TopUp, Exposed
<1>3. ASSUME NEW q \in Requests,
             \/ ServeMetrics(q)
             \/ \E c \in Clients, m \in Named, b \in BOOLEAN : Arrive(q, c, m, b)
             \/ Handle(q)
             \/ ReportApplied(q) \/ ReportLost(q) \/ ReporterPosts(q) \/ ReporterDone(q)
      PROVE  Debt(w)'
  <2>0. Stage(q) /\ Sound(q)
    BY <1>0
  <2>1. ASSUME peak'[w] = peak[w], balance' = balance, Exposed(w)' \subseteq Exposed(w)
        PROVE  Debt(w)'
    BY <1>0, <2>1, DebtCalm
  <2>2. CASE ServeMetrics(q)
    BY <2>0, <2>2, <2>1 DEF ServeMetrics, TypeOK, Exposed
  <2>3. CASE \E c \in Clients, m \in Named, b \in BOOLEAN : Arrive(q, c, m, b)
    BY <2>0, <2>3, <2>1 DEF Arrive, TypeOK, Stage, Fresh, Exposed
  <2>4. CASE UrlBlocked(q) \/ NoKey(q) \/ KeyRefused(q)
    BY <2>0, <2>4, <2>1 DEF UrlBlocked, NoKey, KeyRefused, Reject, TypeOK, Exposed
  <2>5. CASE HasKey(q) \/ Verified(q)
    BY <2>0, <2>5, <2>1 DEF HasKey, Verified, TypeOK, Exposed
  <2>6. CASE KeyAccepted(q)
    BY <2>0, <2>6, <2>1 DEF KeyAccepted, TypeOK, Stage, Exposed
  <2>7. CASE UserMayPass(q)
    BY <2>0, <2>7, <2>1 DEF UserMayPass, TypeOK, Exposed
  <2>8. CASE UserLacksBalance(q)
    BY <2>0, <2>8, <2>1 DEF UserLacksBalance, TypeOK, Exposed
  <2>9. CASE VerifyFails(q) \/ PassThrough(q)
    BY <2>0, <2>9, <2>1 DEF VerifyFails, PassThrough, TypeOK, Exposed
  <2>10. CASE PortalDown(q) \/ AgentLacksBalance(q)
    BY <2>0, <2>10, <2>1 DEF PortalDown, AgentLacksBalance, TypeOK, Exposed
  <2>11. CASE BackendFails(q)
    BY <2>0, <2>11, <2>1 DEF BackendFails, TypeOK, Exposed
  <2>12. CASE \E k \in 0..MaxCost : UserServed(q, k)
    BY <2>0, <2>12, <2>1 DEF UserServed, TypeOK, Exposed
  <2>13. CASE \E k \in 0..MaxCost : AgentServed(q, k)
    BY <2>0, <2>13, <2>1 DEF AgentServed, TypeOK, Exposed
  <2>14. CASE ReportLost(q) \/ ReporterDone(q)
    BY <2>0, <2>14, <2>1 DEF ReportLost, ReporterDone, TypeOK, Exposed
  <2>15. CASE AgentMayPass(q)
    <3>1. CASE who[q] = w
      <4>1. who'[q] = who[q]
        BY <2>15 DEF AgentMayPass
      <4> QED
        BY <2>15, <3>1, <4>1, DebtPass DEF Debt, Exposed
    <3>2. CASE who[q] # w
      BY <2>1, <2>15, <3>2 DEF AgentMayPass, TypeOK, Exposed
    <3> QED
      BY <3>1, <3>2
  <2>16. CASE ReportApplied(q) \/ ReporterPosts(q)
    <3>1. CASE ReportApplied(q) /\ who[q] = w
      BY <3>1, DebtCharge
    <3>2. CASE who[q] # w
      <4>1. balance'[w] = balance[w]
        BY <2>16, <3>2 DEF ReportApplied, ReporterPosts, Charge, TypeOK
      <4> QED
        BY <1>0, <2>16, <4>1, DebtCalm DEF ReportApplied, ReporterPosts, Exposed
    <3>3. ReporterPosts(q) => who[q] # w
      BY <2>0 DEF ReporterPosts, Sound
    <3> QED
      BY <2>16, <3>1, <3>2, <3>3
  <2> QED
    BY <1>3, <2>2, <2>3, <2>4, <2>5, <2>6, <2>7, <2>8, <2>9, <2>10, <2>11, <2>12, <2>13, <2>14, <2>15, <2>16 DEF Handle
<1> QED
  BY <1>1, <1>2, <1>3 DEF Next

\* The overdraft of an agent is bounded by the requests once exposed together, for
\* every minimum balance, cost and number of requests: what serveX402 guarantees
\* although it checks the balance without reserving any of it.
THEOREM Overdraft == Spec => []OverdraftBounded
<1> DEFINE D == \A w \in Wallets : Debt(w)
<1>1. Init => D
  BY DEF Init, Debt
<1>2. TypeOK /\ IInv /\ TypeOK' /\ D /\ [Next]_vars => D'
  <2> SUFFICES ASSUME TypeOK, IInv, TypeOK', D, [Next]_vars PROVE D'
    OBVIOUS
  <2> QED
    BY DebtStep
<1>3. TypeOK /\ D => OverdraftBounded
  <2> SUFFICES ASSUME TypeOK, D, NEW w \in Wallets, peak[w] > 0
               PROVE  balance[w] >= MinBalance - MaxCost * peak[w]
    BY DEF OverdraftBounded
  <2>1. balance[w] \in Int /\ peak[w] \in Nat
    BY DEF TypeOK
  <2>2. MaxCost * Cardinality(Exposed(w)) \in Nat /\ MaxCost * peak[w] \in Nat
    BY <2>1, ExposedFinite, Mono
  <2>3. balance[w] - MaxCost * Cardinality(Exposed(w)) >= MinBalance - MaxCost * peak[w]
    BY DEF Debt
  <2>4. ASSUME NEW x \in Nat, NEW z \in Nat, balance[w] - x >= MinBalance - z
        PROVE  balance[w] >= MinBalance - z
    BY <2>1, <2>4
  <2> QED
    BY <2>2, <2>3, <2>4
<1> HIDE DEF D
<1> QED
  BY <1>1, <1>2, <1>3, IInvAlways, PTL DEF Spec
----------------------------------------------------------------------------
\* The counters.  A request counts towards neither outcome before its key is
\* judged or, for an agent, before its answer is out: until then it is owed room.

Owed == {q \in Requests : \/ pc[q] \in {"screen", "validate"}
                          \/ pc[q] \in {"verify", "balance", "forward"} /\ who[q] \in Wallets}

Room == authorized + rejected + Cardinality(Owed) <= total

\* The requests owed room are finitely many, before and after a step.
LEMMA OwedFinite ==
  /\ IsFiniteSet(Owed) /\ Cardinality(Owed) \in Nat
  /\ IsFiniteSet(Owed') /\ Cardinality(Owed') \in Nat
<1>1. Owed \in SUBSET Requests /\ Owed' \in SUBSET Requests
  BY DEF Owed
<1> QED
  BY <1>1, FS_Subset, FS_CardinalityType

\* Room is arithmetic on the counters and on the number of requests owed room.
LEMMA RoomOf ==
  ASSUME TypeOK, TypeOK'
  PROVE  /\ total \in Nat /\ authorized \in Nat /\ rejected \in Nat
         /\ total' \in Nat /\ authorized' \in Nat /\ rejected' \in Nat
         /\ Cardinality(Owed) \in Nat /\ Cardinality(Owed') \in Nat
         /\ Room <=> authorized + rejected + Cardinality(Owed) <= total
         /\ Room' <=> authorized' + rejected' + Cardinality(Owed') <= total'
<1>1. Room' <=> authorized' + rejected' + Cardinality(Owed') <= total'
  BY DEF Room
<1>2. Room <=> authorized + rejected + Cardinality(Owed) <= total
  BY DEF Room
<1>3. Cardinality(Owed) \in Nat /\ Cardinality(Owed') \in Nat
  BY OwedFinite
<1> QED
  BY <1>1, <1>2, <1>3 DEF TypeOK

\* A step that counts nothing and lets no request in.
LEMMA RoomCalm ==
  ASSUME TypeOK, TypeOK', Room, Owed' \subseteq Owed,
         authorized' + rejected' = authorized + rejected, total' >= total
  PROVE  Room'
<1>1. Cardinality(Owed') <= Cardinality(Owed)
  BY OwedFinite, FS_Subset
<1> QED
  BY <1>1, RoomOf

\* A request enters and is counted in the total.
LEMMA RoomEnter ==
  ASSUME TypeOK, TypeOK', Room, NEW q, Owed' \subseteq Owed \cup {q},
         authorized' + rejected' = authorized + rejected, total' = total + 1
  PROVE  Room'
<1>1. IsFiniteSet(Owed \cup {q}) /\ Cardinality(Owed \cup {q}) <= Cardinality(Owed) + 1
  <2> DEFINE n == Cardinality(Owed)
             m == Cardinality(Owed \cup {q})
  <2>1. n \in Nat /\ IsFiniteSet(Owed)
    BY OwedFinite
  <2>2. IsFiniteSet(Owed \cup {q}) /\ m = IF q \in Owed THEN n ELSE n + 1
    BY <2>1, FS_AddElement
  <2> HIDE DEF n, m
  <2>3. m <= n + 1
    BY <2>1, <2>2
  <2> QED
    BY <2>2, <2>3 DEF n, m
<1>2. Cardinality(Owed') <= Cardinality(Owed) + 1
  <2>1. Cardinality(Owed') <= Cardinality(Owed \cup {q})
    BY <1>1, FS_Subset
  <2>2. Cardinality(Owed \cup {q}) \in Nat
    BY <1>1, FS_CardinalityType
  <2> QED
    BY <1>1, <2>1, <2>2, OwedFinite
<1> QED
  BY <1>2, RoomOf

\* A request that was owed room is counted and leaves.
LEMMA RoomCount ==
  ASSUME TypeOK, TypeOK', Room, NEW q \in Owed, Owed' \subseteq Owed \ {q},
         authorized' + rejected' = authorized + rejected + 1, total' = total
  PROVE  Room'
<1>1. IsFiniteSet(Owed \ {q}) /\ Cardinality(Owed \ {q}) = Cardinality(Owed) - 1
  BY OwedFinite, FS_RemoveElement
<1>2. Cardinality(Owed') <= Cardinality(Owed) - 1
  BY <1>1, OwedFinite, FS_Subset
<1> QED
  BY <1>2, RoomOf

\* Every step of the pipeline leaves room.
LEMMA RoomStep ==
  ASSUME TypeOK, IInv, TypeOK', Room, [Next]_vars
  PROVE  Room'
<1> USE DEF Goto, Answer, Relays, Sees, request, result, billing, portal, metrics
<1>0. \A q \in Requests : Stage(q)
  BY DEF IInv
<1>1. CASE UNCHANGED vars
  BY <1>1, RoomCalm DEF vars, Owed, TypeOK
<1>2. ASSUME NEW c \in Accounts, TopUp(c) PROVE Room'
  BY <1>2, RoomCalm DEF TopUp, Owed, TypeOK
<1>3. ASSUME NEW q \in Requests,
             \/ ServeMetrics(q)
             \/ \E c \in Clients, m \in Named, b \in BOOLEAN : Arrive(q, c, m, b)
             \/ Handle(q)
             \/ ReportApplied(q) \/ ReportLost(q) \/ ReporterPosts(q) \/ ReporterDone(q)
      PROVE  Room'
  <2>0. Stage(q) /\ pc \in [Requests -> PCs] /\ total \in Nat /\ authorized \in Nat /\ rejected \in Nat
    BY <1>0 DEF TypeOK
  <2>1. ASSUME UNCHANGED metrics, Owed' \subseteq Owed PROVE Room'
    BY <2>0, <2>1, RoomCalm
  <2>2. CASE ServeMetrics(q)
    <3>1. Owed' \subseteq Owed \cup {q}
      BY <2>0, <2>2 DEF ServeMetrics, Owed
    <3> QED
      BY <2>2, <3>1, RoomEnter DEF ServeMetrics
  <2>3. CASE \E c \in Clients, m \in Named, b \in BOOLEAN : Arrive(q, c, m, b)
    <3>1. Owed' \subseteq Owed \cup {q}
      BY <2>0, <2>3 DEF Arrive, Owed, TypeOK
    <3> QED
      BY <2>3, <3>1, RoomEnter DEF Arrive
  <2>4. CASE UrlBlocked(q) \/ NoKey(q) \/ KeyRefused(q)
    <3>1. q \in Owed /\ Owed' \subseteq Owed \ {q}
      BY <2>0, <2>4 DEF UrlBlocked, NoKey, KeyRefused, Reject, Owed
    <3>2. authorized' + rejected' = authorized + rejected + 1 /\ total' = total
      BY <2>0, <2>4 DEF UrlBlocked, NoKey, KeyRefused, Reject
    <3> QED
      BY <3>1, <3>2, RoomCount
  <2>5. CASE HasKey(q) \/ Verified(q)
    BY <2>0, <2>1, <2>5 DEF HasKey, Verified, Owed
  <2>6. CASE KeyAccepted(q)
    <3>1. q \in Owed /\ Owed' \subseteq Owed \ {q}
      BY <2>0, <2>6 DEF KeyAccepted, Owed, Stage
    <3>2. authorized' + rejected' = authorized + rejected + 1 /\ total' = total
      BY <2>0, <2>6 DEF KeyAccepted
    <3> QED
      BY <3>1, <3>2, RoomCount
  <2>7. CASE UserMayPass(q) \/ UserLacksBalance(q)
    BY <2>0, <2>1, <2>7 DEF UserMayPass, UserLacksBalance, Owed
  <2>8. CASE VerifyFails(q) \/ PassThrough(q) \/ BackendFails(q)
    BY <2>0, <2>1, <2>8 DEF VerifyFails, PassThrough, BackendFails, Owed
  <2>9. CASE PortalDown(q) \/ AgentLacksBalance(q) \/ AgentMayPass(q)
    BY <2>0, <2>1, <2>9 DEF PortalDown, AgentLacksBalance, AgentMayPass, Owed
  <2>10. CASE \E k \in 0..MaxCost : UserServed(q, k)
    BY <2>0, <2>1, <2>10 DEF UserServed, Owed
  <2>11. CASE \E k \in 0..MaxCost : AgentServed(q, k)
    <3>1. q \in Owed /\ Owed' \subseteq Owed \ {q}
      BY <2>0, <2>11 DEF AgentServed, Owed
    <3>2. authorized' + rejected' = authorized + rejected + 1 /\ total' = total
      BY <2>0, <2>11 DEF AgentServed
    <3> QED
      BY <3>1, <3>2, RoomCount
  <2>12. CASE ReportApplied(q) \/ ReportLost(q) \/ ReporterPosts(q) \/ ReporterDone(q)
    BY <2>1, <2>12 DEF ReportApplied, ReportLost, ReporterPosts, ReporterDone, Owed
  <2> QED
    BY <1>3, <2>2, <2>3, <2>4, <2>5, <2>6, <2>7, <2>8, <2>9, <2>10, <2>11, <2>12 DEF Handle
<1> QED
  BY <1>1, <1>2, <1>3 DEF Next

\* No request is counted as authorized and as rejected: the answers of ServeHTTP
\* after KeyAccepted, and those of serveX402 that refuse, count nothing.
THEOREM Counting == Spec => []CountedOnce
<1>1. Init => Room
  <2> SUFFICES ASSUME Init PROVE Room
    OBVIOUS
  <2>1. Owed = {}
    BY DEF Init, Owed
  <2> QED
    BY <2>1, FS_EmptySet DEF Init, Room
<1>2. TypeOK /\ IInv /\ TypeOK' /\ Room /\ [Next]_vars => Room'
  BY RoomStep
<1>3. TypeOK /\ Room => CountedOnce
  BY OwedFinite DEF TypeOK, Room, CountedOnce
<1> QED
  BY <1>1, <1>2, <1>3, IInvAlways, PTL DEF Spec
=============================================================================
