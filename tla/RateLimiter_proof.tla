------------------------- MODULE RateLimiter_proof -------------------------
\* Theorems about RateLimiter and their proofs.
EXTENDS RateLimiter, FiniteSetTheorems, TLAPS

USE SetsAssumption, LimitsAssumption

\* The tokens of a user that were used, as far as a window counts them, and that
\* the running requests may still use.
Debt ==
  \A u \in Users :
    /\ Cardinality(Running(u)) <= peak[u]
    /\ \A k \in Kinds :
         windows[u][k].used + MaxTokens * Cardinality(Running(u))
           <= Limit[k] + MaxTokens * peak[u]

LEMMA RunningFinite ==
  \A u \in Users : IsFiniteSet(Running(u)) /\ Cardinality(Running(u)) \in Nat
<1> TAKE u \in Users
<1>1. Running(u) \subseteq Requests
  BY DEF Running
<1> QED
  BY <1>1, FS_Subset, FS_CardinalityType

\* What a check or a record works on is a window, with nothing used if it is new.
LEMMA OpenedType ==
  ASSUME TypeOK, NEW u \in Users, NEW k \in Kinds
  PROVE  /\ Opened(u, k) \in [used : Nat, reset : Nat \cup {-1}]
         /\ Opened(u, k).used \in {0, windows[u][k].used}
         /\ ~Expired(windows[u][k]) => Opened(u, k) = windows[u][k]
  BY DEF TypeOK, Opened

\* A record adds to what is used.
LEMMA UpdatedType ==
  ASSUME TypeOK, NEW u \in Users, NEW k \in Kinds, NEW n \in Tokens
  PROVE  /\ Updated(u, k, n) \in [used : Nat, reset : Nat \cup {-1}]
         /\ Updated(u, k, n).used = Opened(u, k).used + n
         /\ Updated(u, k, n).reset = Opened(u, k).reset
<1> DEFINE o == Opened(u, k)
<1>1. o \in [used : Nat, reset : Nat \cup {-1}] /\ n \in Nat
  <2>1. Opened(u, k) \in [used : Nat, reset : Nat \cup {-1}]
    BY OpenedType, Zenon
  <2>2. n \in Nat
    BY DEF Tokens
  <2> QED
    BY <2>1, <2>2, Zenon
<1>2. Updated(u, k, n) = [o EXCEPT !.used = @ + n]
  BY DEF Updated
<1> HIDE DEF o
<1>3. /\ [o EXCEPT !.used = @ + n] \in [used : Nat, reset : Nat \cup {-1}]
      /\ [o EXCEPT !.used = @ + n].used = o.used + n
      /\ [o EXCEPT !.used = @ + n].reset = o.reset
  BY <1>1
<1> QED
  BY <1>2, <1>3 DEF o

\* Every variable keeps its type, whatever the step.
LEMMA TypeStep ==
  ASSUME TypeOK, [Next]_vars
  PROVE  TypeOK'
<1> USE DEF TypeOK
<1>1. CASE UNCHANGED vars
  BY <1>1 DEF vars
<1>2. ASSUME NEW q \in Requests, NEW u \in Users, NEW n \in Tokens, CheckPasses(q, u, n)
      PROVE  TypeOK'
  <2>1. \A k \in Kinds : Opened(u, k) \in [used : Nat, reset : Nat \cup {-1}]
    BY OpenedType
  <2>2. Cardinality(Running(u)) + 1 \in Nat
    BY RunningFinite
  <2> QED
    BY <1>2, <2>1, <2>2 DEF CheckPasses
<1>3. ASSUME NEW q \in Requests, NEW u \in Users, NEW n \in Tokens, CheckRefuses(q, u, n)
      PROVE  TypeOK'
  <2>1. \A k \in Kinds : Opened(u, k) \in [used : Nat, reset : Nat \cup {-1}]
    BY OpenedType
  <2> QED
    BY <1>3, <2>1 DEF CheckRefuses
<1>4. ASSUME NEW q \in Requests, NEW n \in Tokens, RecordUsage(q, n) PROVE TypeOK'
  <2>1. \A k \in Kinds : Updated(who[q], k, n) \in [used : Nat, reset : Nat \cup {-1}]
    BY UpdatedType
  <2> QED
    BY <1>4, <2>1 DEF RecordUsage
<1>5. ASSUME NEW q \in Requests, Abandon(q) PROVE TypeOK'
  BY <1>5 DEF Abandon
<1>6. CASE Cleanup
  BY <1>6 DEF Cleanup, NoWindow
<1>7. CASE Tick
  BY <1>7 DEF Tick
<1> QED
  BY <1>1, <1>2, <1>3, <1>4, <1>5, <1>6, <1>7 DEF Next

\* Every variable has its type, for any numbers of users, requests and windows.
THEOREM Typing == Spec => []TypeOK
<1>1. Init => TypeOK
  BY DEF Init, TypeOK, NoWindow
<1> QED
  BY <1>1, TypeStep, PTL DEF Spec

----------------------------------------------------------------------------
\* How far a limit is overshot.

\* Multiplication by MaxTokens, as far as it is needed.
LEMMA Times ==
  /\ MaxTokens \in Nat /\ MaxTokens * 0 = 0
  /\ \A a \in Nat : MaxTokens * a \in Nat /\ MaxTokens * (a + 1) = MaxTokens * a + MaxTokens
  /\ \A a, b \in Nat : a <= b => MaxTokens * a <= MaxTokens * b
  OBVIOUS

\* A step that leaves a user's requests alone and lowers its windows, if anything.
LEMMA DebtFrame ==
  ASSUME TypeOK, TypeOK', Debt, NEW u \in Users,
         Running(u)' = Running(u), peak'[u] = peak[u],
         \A k \in Kinds : windows'[u][k].used <= windows[u][k].used
  PROVE  /\ Cardinality(Running(u))' <= peak'[u]
         /\ \A k \in Kinds :
              windows'[u][k].used + MaxTokens * Cardinality(Running(u))'
                <= Limit[k] + MaxTokens * peak'[u]
<1> DEFINE n == Cardinality(Running(u))
<1>1. n \in Nat /\ Cardinality(Running(u))' = n
  BY RunningFinite
<1>2. MaxTokens * n \in Nat /\ MaxTokens * peak[u] \in Nat
  BY <1>1, Times DEF TypeOK
<1>3. n <= peak[u]
  BY DEF Debt
<1> SUFFICES ASSUME NEW k \in Kinds
             PROVE  windows'[u][k].used + MaxTokens * n <= Limit[k] + MaxTokens * peak[u]
  BY <1>1, <1>3
<1>4. windows[u][k].used + MaxTokens * n <= Limit[k] + MaxTokens * peak[u]
  BY DEF Debt
<1>5. windows[u][k].used \in Nat /\ windows'[u][k].used \in Nat /\ Limit[k] \in Nat
  BY DEF TypeOK
<1> QED
  BY <1>2, <1>4, <1>5

\* A request that passes finds every window below its limit.
LEMMA DebtPasses ==
  ASSUME TypeOK, TypeOK', Debt, NEW q \in Requests, NEW u \in Users, NEW n \in Tokens,
         CheckPasses(q, u, n)
  PROVE  Debt'
<1> DEFINE r == Cardinality(Running(u))
<1>0. r \in Nat /\ peak[u] \in Nat /\ n \in Nat /\ IsFiniteSet(Running(u))
  BY RunningFinite DEF TypeOK, Tokens
<1>1. Running(u)' = Running(u) \cup {q} /\ q \notin Running(u)
  BY DEF CheckPasses, Running, TypeOK
<1>2. Cardinality(Running(u))' = r + 1
  BY <1>0, <1>1, FS_AddElement
<1>3. peak'[u] \in Nat /\ r + 1 <= peak'[u]
  BY <1>0 DEF CheckPasses, TypeOK
<1>4. ASSUME NEW v \in Users, v # u
      PROVE  /\ Running(v)' = Running(v) /\ peak'[v] = peak[v]
             /\ windows'[v] = windows[v]
  BY <1>4 DEF CheckPasses, Running, TypeOK
<1>5. ASSUME NEW k \in Kinds
      PROVE  windows'[u][k].used + MaxTokens * Cardinality(Running(u))'
               <= Limit[k] + MaxTokens * peak'[u]
  <2>1. windows'[u][k] = Opened(u, k)
    BY DEF CheckPasses, TypeOK
  <2>2. ~(Opened(u, k).used + n > Limit[k])
    BY DEF CheckPasses, Refusing, Exceeds
  <2>3. Opened(u, k).used \in Nat /\ Limit[k] \in Nat
    BY OpenedType
  <2>4. windows'[u][k].used <= Limit[k]
    BY <1>0, <2>1, <2>2, <2>3
  <2>5. MaxTokens * (r + 1) <= MaxTokens * peak'[u]
    BY <1>0, <1>3, Times
  <2>6. MaxTokens * (r + 1) \in Nat /\ MaxTokens * peak'[u] \in Nat
    BY <1>0, <1>3, Times
  <2>7. windows'[u][k].used + MaxTokens * (r + 1) <= Limit[k] + MaxTokens * peak'[u]
    BY <2>1, <2>3, <2>4, <2>5, <2>6
  <2> QED
    BY <1>2, <2>7
<1>6. ASSUME NEW v \in Users, v # u
      PROVE  /\ Cardinality(Running(v))' <= peak'[v]
             /\ \A k \in Kinds :
                  windows'[v][k].used + MaxTokens * Cardinality(Running(v))'
                    <= Limit[k] + MaxTokens * peak'[v]
  <2>1. \A k \in Kinds : windows'[v][k].used <= windows[v][k].used
    BY <1>4, <1>6 DEF TypeOK
  <2> QED
    BY <1>4, <1>6, <2>1, DebtFrame
<1> QED
  BY <1>2, <1>3, <1>5, <1>6 DEF Debt

\* A request that records moves tokens from what is outstanding to what is used.
LEMMA DebtRecords ==
  ASSUME TypeOK, TypeOK', Debt, NEW q \in Requests, NEW n \in Tokens, RecordUsage(q, n),
         NEW u \in Users, u = who[q]
  PROVE  Debt'
<1> DEFINE r == Cardinality(Running(u))
<1>0. /\ u \in Users /\ r \in Nat /\ peak[u] \in Nat /\ n \in Nat /\ n <= MaxTokens
      /\ IsFiniteSet(Running(u))
  BY RunningFinite DEF TypeOK, Tokens
<1>1. Running(u)' = Running(u) \ {q} /\ q \in Running(u)
  BY DEF RecordUsage, Running, TypeOK
<1>2. Cardinality(Running(u))' = r - 1 /\ r - 1 \in Nat
  <2>1. Cardinality(Running(u) \ {q}) = r - 1
    BY <1>0, <1>1, FS_RemoveElement
  <2>2. Cardinality(Running(u) \ {q}) \in Nat
    BY <1>0, FS_RemoveElement, FS_CardinalityType
  <2> QED
    BY <1>1, <2>1, <2>2
<1>3. peak'[u] = peak[u] /\ r <= peak[u]
  BY <1>0 DEF RecordUsage, Debt
<1>4. ASSUME NEW v \in Users, v # u
      PROVE  /\ Running(v)' = Running(v) /\ peak'[v] = peak[v]
             /\ windows'[v] = windows[v]
  BY <1>4 DEF RecordUsage, Running, TypeOK
<1>5. ASSUME NEW k \in Kinds
      PROVE  windows'[u][k].used + MaxTokens * Cardinality(Running(u))'
               <= Limit[k] + MaxTokens * peak'[u]
  <2>1. windows'[u][k].used <= windows[u][k].used + n
    <3>1. CASE known[u]
      <4>1. windows'[u][k] = Updated(u, k, n)
        BY <1>0, <3>1 DEF RecordUsage, TypeOK
      <4>2. /\ Updated(u, k, n).used = Opened(u, k).used + n
            /\ Opened(u, k).used \in {0, windows[u][k].used}
        BY <1>0, UpdatedType, OpenedType
      <4>3. windows[u][k].used \in Nat
        BY <1>0 DEF TypeOK
      <4> QED
        BY <1>0, <4>1, <4>2, <4>3
    <3>2. CASE ~known[u]
      <4>1. windows'[u][k] = windows[u][k] /\ windows[u][k].used \in Nat
        BY <1>0, <3>2 DEF RecordUsage, TypeOK
      <4> QED
        BY <1>0, <4>1
    <3> QED
      BY <3>1, <3>2
  <2>2. windows[u][k].used + MaxTokens * r <= Limit[k] + MaxTokens * peak[u]
    BY <1>0 DEF Debt
  <2>3. MaxTokens * r = MaxTokens * (r - 1) + MaxTokens
    <3>1. MaxTokens * ((r - 1) + 1) = MaxTokens * (r - 1) + MaxTokens
      BY <1>2, Times
    <3>2. (r - 1) + 1 = r
      BY <1>0
    <3> QED
      BY <3>1, <3>2
  <2>4. /\ MaxTokens * (r - 1) \in Nat /\ MaxTokens * peak[u] \in Nat
        /\ windows[u][k].used \in Nat /\ windows'[u][k].used \in Nat /\ Limit[k] \in Nat
    BY <1>0, <1>2, Times DEF TypeOK
  <2>5. windows'[u][k].used + MaxTokens * (r - 1) <= Limit[k] + MaxTokens * peak[u]
    <3> DEFINE before == MaxTokens * r
               after == MaxTokens * (r - 1)
               most == MaxTokens * peak[u]
    <3>1. before = after + MaxTokens /\ after \in Nat /\ most \in Nat
      BY <2>3, <2>4
    <3>2. windows[u][k].used + before <= Limit[k] + most
      BY <2>2
    <3> HIDE DEF before, after, most
    <3>3. windows'[u][k].used + after <= Limit[k] + most
      BY <1>0, <2>1, <2>4, <3>1, <3>2
    <3> QED
      BY <3>3 DEF after, most
  <2> QED
    BY <1>2, <1>3, <2>5
<1>6. ASSUME NEW v \in Users, v # u
      PROVE  /\ Cardinality(Running(v))' <= peak'[v]
             /\ \A k \in Kinds :
                  windows'[v][k].used + MaxTokens * Cardinality(Running(v))'
                    <= Limit[k] + MaxTokens * peak'[v]
  <2>1. \A k \in Kinds : windows'[v][k].used <= windows[v][k].used
    BY <1>4, <1>6 DEF TypeOK
  <2> QED
    BY <1>4, <1>6, <2>1, DebtFrame
<1>7. Cardinality(Running(u))' <= peak'[u]
  BY <1>0, <1>2, <1>3
<1> QED
  BY <1>5, <1>6, <1>7 DEF Debt

\* So does one that is given up, without using anything.
LEMMA DebtAbandons ==
  ASSUME TypeOK, TypeOK', Debt, NEW q \in Requests, Abandon(q)
  PROVE  Debt'
<1> SUFFICES ASSUME NEW v \in Users
             PROVE  /\ Cardinality(Running(v))' <= peak'[v]
                    /\ \A k \in Kinds :
                         windows'[v][k].used + MaxTokens * Cardinality(Running(v))'
                           <= Limit[k] + MaxTokens * peak'[v]
  BY DEF Debt
<1> DEFINE r == Cardinality(Running(v))
<1>0. r \in Nat /\ peak[v] \in Nat /\ r <= peak[v] /\ IsFiniteSet(Running(v))
  BY RunningFinite DEF TypeOK, Debt
<1>1. peak' = peak /\ windows' = windows
  BY DEF Abandon
<1>2. CASE who[q] # v
  <2>1. Running(v)' = Running(v)
    BY <1>2 DEF Abandon, Running, TypeOK
  <2>2. \A k \in Kinds : windows'[v][k].used <= windows[v][k].used
    BY <1>1 DEF TypeOK
  <2> QED
    BY <1>1, <2>1, <2>2, DebtFrame
<1>3. CASE who[q] = v
  <2>1. Running(v)' \subseteq Running(v)
    BY DEF Abandon, Running, TypeOK
  <2>2. Cardinality(Running(v)') <= r /\ Cardinality(Running(v)') \in Nat
    BY <1>0, <2>1, FS_Subset, FS_CardinalityType
  <2> DEFINE s == Cardinality(Running(v)')
  <2>3. MaxTokens * s <= MaxTokens * r /\ MaxTokens * s \in Nat /\ MaxTokens * r \in Nat
    BY <1>0, <2>2, Times
  <2>4. MaxTokens * peak[v] \in Nat
    BY <1>0, Times
  <2>5. s <= peak[v]
    BY <1>0, <2>2
  <2> SUFFICES ASSUME NEW k \in Kinds
               PROVE  windows[v][k].used + MaxTokens * s <= Limit[k] + MaxTokens * peak[v]
    BY <1>1, <2>5
  <2>6. /\ windows[v][k].used + MaxTokens * r <= Limit[k] + MaxTokens * peak[v]
        /\ windows[v][k].used \in Nat /\ Limit[k] \in Nat
    BY DEF Debt, TypeOK
  <2> HIDE DEF r, s
  <2> QED
    BY <2>3, <2>4, <2>6
<1> QED
  BY <1>2, <1>3

\* A refused check, the cleanup and time open new windows or leave them.
LEMMA DebtStays ==
  ASSUME TypeOK, TypeOK', Debt,
         \/ UNCHANGED vars \/ Cleanup \/ Tick
         \/ \E q \in Requests, u \in Users, n \in Tokens : CheckRefuses(q, u, n)
  PROVE  Debt'
<1> SUFFICES ASSUME NEW v \in Users
             PROVE  /\ Running(v)' = Running(v) /\ peak'[v] = peak[v]
                    /\ \A k \in Kinds : windows'[v][k].used <= windows[v][k].used
  BY DebtFrame DEF Debt
<1>1. \A k \in Kinds : windows[v][k].used \in Nat
  BY DEF TypeOK
<1>2. CASE UNCHANGED vars \/ Tick
  <2>1. pc' = pc /\ who' = who /\ peak' = peak /\ windows' = windows
    BY <1>2 DEF vars, Tick
  <2> QED
    BY <1>1, <2>1 DEF Running
<1>3. CASE Cleanup
  <2>1. pc' = pc /\ who' = who /\ peak' = peak
    BY <1>3 DEF Cleanup
  <2>2. \A k \in Kinds : windows'[v][k] \in {windows[v][k], NoWindow}
    BY <1>3 DEF Cleanup
  <2> QED
    BY <1>1, <2>1, <2>2 DEF Running, NoWindow
<1>4. ASSUME NEW q \in Requests, NEW u \in Users, NEW n \in Tokens, CheckRefuses(q, u, n)
      PROVE  /\ Running(v)' = Running(v) /\ peak'[v] = peak[v]
             /\ \A k \in Kinds : windows'[v][k].used <= windows[v][k].used
  <2>1. Running(v)' = Running(v) /\ peak' = peak
    BY <1>4 DEF CheckRefuses, Running
  <2>2. CASE v # u
    BY <1>1, <1>4, <2>1, <2>2 DEF CheckRefuses, TypeOK
  <2>3. CASE v = u
    <3> SUFFICES ASSUME NEW k \in Kinds
                 PROVE  windows'[u][k].used <= windows[u][k].used
      BY <2>1, <2>3
    <3>1. windows'[u][k] = windows[u][k] \/ windows'[u][k] = Opened(u, k)
      BY <1>4 DEF CheckRefuses, TypeOK
    <3>2. Opened(u, k).used \in {0, windows[u][k].used}
      BY OpenedType
    <3> QED
      BY <1>1, <2>3, <3>1, <3>2
  <2> QED
    BY <2>2, <2>3
<1> QED
  BY <1>2, <1>3, <1>4

\* No window is exceeded by more than what was running at once can use.
THEOREM Overshoot == Spec => []OvershootBounded
<1>1. Init => Debt
  <2> SUFFICES ASSUME Init, NEW u \in Users
               PROVE  /\ Cardinality(Running(u)) <= peak[u]
                      /\ \A k \in Kinds :
                           windows[u][k].used + MaxTokens * Cardinality(Running(u))
                             <= Limit[k] + MaxTokens * peak[u]
    BY DEF Debt
  <2>1. Running(u) = {}
    BY DEF Init, Running
  <2>2. Cardinality(Running(u)) = 0
    BY <2>1, FS_EmptySet
  <2>3. peak[u] = 0 /\ \A k \in Kinds : windows[u][k].used = 0
    BY DEF Init, NoWindow
  <2> QED
    BY <2>2, <2>3, Times
<1>2. TypeOK /\ TypeOK' /\ Debt /\ [Next]_vars => Debt'
  <2> SUFFICES ASSUME TypeOK, TypeOK', Debt, [Next]_vars PROVE Debt'
    OBVIOUS
  <2>1. ASSUME NEW q \in Requests, NEW u \in Users, NEW n \in Tokens,
               CheckPasses(q, u, n)
        PROVE  Debt'
    BY <2>1, DebtPasses
  <2>2. ASSUME NEW q \in Requests, NEW n \in Tokens, RecordUsage(q, n) PROVE Debt'
    <3>1. PICK u \in Users : u = who[q]
      BY DEF TypeOK
    <3> QED
      BY <2>2, <3>1, DebtRecords
  <2>3. ASSUME NEW q \in Requests, Abandon(q) PROVE Debt'
    BY <2>3, DebtAbandons
  <2> QED
    BY <2>1, <2>2, <2>3, DebtStays DEF Next
<1>3. TypeOK /\ Debt => OvershootBounded
  <2> SUFFICES ASSUME TypeOK, Debt, NEW u \in Users, NEW k \in Kinds
               PROVE  windows[u][k].used <= Limit[k] + MaxTokens * peak[u]
    BY DEF OvershootBounded
  <2>1. MaxTokens * Cardinality(Running(u)) \in Nat /\ MaxTokens * peak[u] \in Nat
    BY RunningFinite, Times DEF TypeOK
  <2>2. windows[u][k].used + MaxTokens * Cardinality(Running(u))
          <= Limit[k] + MaxTokens * peak[u]
    BY DEF Debt
  <2>3. windows[u][k].used \in Nat /\ Limit[k] \in Nat
    BY DEF TypeOK
  <2> QED
    BY <2>1, <2>2, <2>3
<1> QED
  BY <1>1, <1>2, <1>3, Typing, PTL DEF Spec

----------------------------------------------------------------------------
\* A window in force is kept.

\* Whoever has a window in force has an entry.
KnownInForce == \A u \in Users, k \in Kinds : clock < windows[u][k].reset => known[u]

LEMMA KnownStep ==
  ASSUME TypeOK, KnownInForce, [Next]_vars
  PROVE  KnownInForce' /\ \A u \in Users, k \in Kinds : KeptInForce(u, k)
<1> SUFFICES ASSUME NEW u \in Users, NEW k \in Kinds
             PROVE  /\ clock' < windows'[u][k].reset => known'[u]
                    /\ KeptInForce(u, k)
  BY DEF KnownInForce
<1> USE DEF KeptInForce
<1>0. /\ clock < windows[u][k].reset => known[u]
      /\ windows[u][k] \in [used : Nat, reset : Nat \cup {-1}] /\ clock \in Nat
  BY DEF KnownInForce, TypeOK
<1>1. CASE UNCHANGED vars
  BY <1>0, <1>1 DEF vars
<1>2. ASSUME NEW q \in Requests, NEW v \in Users, NEW n \in Tokens,
             CheckPasses(q, v, n) \/ CheckRefuses(q, v, n)
      PROVE  /\ clock' < windows'[u][k].reset => known'[u]
             /\ KeptInForce(u, k)
  <2>1. clock' = clock /\ known' = [known EXCEPT ![v] = TRUE]
    BY <1>2 DEF CheckPasses, CheckRefuses
  <2>2. windows'[u][k] = windows[u][k] \/ (v = u /\ windows'[u][k] = Opened(u, k))
    BY <1>2 DEF CheckPasses, CheckRefuses, TypeOK
  <2>3. clock < windows[u][k].reset => Opened(u, k) = windows[u][k]
    BY <1>0 DEF Opened, Expired
  <2>4. windows'[u][k] # windows[u][k] => v = u
    BY <2>2
  <2> QED
    BY <1>0, <2>1, <2>2, <2>3 DEF TypeOK
<1>3. ASSUME NEW q \in Requests, NEW n \in Tokens, RecordUsage(q, n)
      PROVE  /\ clock' < windows'[u][k].reset => known'[u]
             /\ KeptInForce(u, k)
  <2>1. clock' = clock /\ known' = known
    BY <1>3 DEF RecordUsage
  <2>2. \/ windows'[u][k] = windows[u][k]
        \/ known[u] /\ windows'[u][k] = Updated(u, k, n)
    BY <1>3 DEF RecordUsage, TypeOK
  <2>3. clock < windows[u][k].reset => Opened(u, k) = windows[u][k]
    BY <1>0 DEF Opened, Expired
  <2>4. /\ Updated(u, k, n).used = Opened(u, k).used + n
        /\ Updated(u, k, n).reset = Opened(u, k).reset
    BY UpdatedType
  <2> QED
    BY <1>0, <2>1, <2>2, <2>3, <2>4 DEF Tokens
<1>4. ASSUME NEW q \in Requests, Abandon(q)
      PROVE  /\ clock' < windows'[u][k].reset => known'[u]
             /\ KeptInForce(u, k)
  BY <1>0, <1>4 DEF Abandon
<1>5. CASE Cleanup
  BY <1>0, <1>5 DEF Cleanup, NoWindow, TypeOK
<1>6. CASE Tick
  BY <1>0, <1>6 DEF Tick
<1> QED
  BY <1>1, <1>2, <1>3, <1>4, <1>5, <1>6 DEF Next

\* A window in force is neither forgotten nor moved nor lowered.
THEOREM Kept == Spec => WindowsKept
<1>1. Init => KnownInForce
  BY DEF Init, KnownInForce, NoWindow
<1>2. TypeOK /\ KnownInForce /\ [Next]_vars => KnownInForce'
  BY KnownStep
<1>3. TypeOK /\ KnownInForce /\ [Next]_vars
        => [\A u \in Users, k \in Kinds : KeptInForce(u, k)]_vars
  BY KnownStep
<1> QED
  BY <1>1, <1>2, <1>3, Typing, PTL DEF Spec, WindowsKept
=============================================================================
