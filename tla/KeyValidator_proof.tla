------------------------- MODULE KeyValidator_proof -------------------------
\* Theorems about KeyValidator and their proofs.
EXTENDS KeyValidator, TLAPS

USE KeysAssumption, TimeAssumption, CleanupsAssumption

\* An age stays below its cap.
LEMMA OlderType ==
  ASSUME NEW a \in 0..Cap
  PROVE  Older(a) \in 0..Cap
  BY DEF Older

\* A return from ValidateAPIKey keeps the types.
LEMMA ReturnType ==
  ASSUME TypeOK, NEW h \in Handlers, NEW from, NEW answer \in Verdicts, Return(h, from, answer)
  PROVE  TypeOK'
  BY DEF TypeOK, Return, Goto, PCs, world

\* Every variable keeps its type.
LEMMA TypeStep ==
  ASSUME TypeOK, [Next]_vars
  PROVE  TypeOK'
<1>1. CASE UNCHANGED vars
  BY <1>1 DEF vars, TypeOK
<1>2. ASSUME NEW h \in Handlers, NEW k \in Keys \cup {Blank}, Begin(h, k) PROVE TypeOK'
  <2>1. (k \in valid) \in BOOLEAN
    OBVIOUS
  <2> QED
    BY <1>2, <2>1 DEF Begin, Goto, TypeOK, PCs, world
<1>3. ASSUME NEW h \in Handlers,
             RefuseBlank(h) \/ AcceptConfigured(h) \/ MasterError(h) \/ AcceptMaster(h)
             \/ Hit(h) \/ UpdateFails(h) \/ Result(h)
      PROVE  TypeOK'
  <2> USE DEF Verdicts
  <2>1. CASE RefuseBlank(h) \/ AcceptConfigured(h)
    BY <2>1, ReturnType DEF RefuseBlank, AcceptConfigured
  <2>2. CASE MasterError(h) \/ AcceptMaster(h)
    BY <2>2, ReturnType DEF MasterError, AcceptMaster
  <2>3. CASE Hit(h) \/ UpdateFails(h)
    BY <2>3, ReturnType DEF Hit, UpdateFails
  <2>4. CASE Result(h)
    BY <2>4, ReturnType DEF Result
  <2> QED
    BY <1>3, <2>1, <2>2, <2>3, <2>4
<1>4. ASSUME NEW h \in Handlers, NotMaster(h) \/ Miss(h) PROVE TypeOK'
  BY <1>4 DEF NotMaster, Miss, Goto, TypeOK, PCs, world, call
<1>5. ASSUME NEW h \in Handlers, Answer(h) PROVE TypeOK'
  BY <1>5 DEF Answer, Goto, TypeOK, PCs, world
<1>6. ASSUME NEW h \in Handlers, Store(h) PROVE TypeOK'
  BY <1>6 DEF Store, Crossed, Goto, TypeOK, PCs, world
<1>7. ASSUME NEW h \in Handlers, Finish(h) PROVE TypeOK'
  BY <1>7 DEF Finish, Goto, TypeOK, PCs, world, Verdicts
<1>8. CASE CleanupCache
  BY <1>8 DEF CleanupCache, Crossed, TypeOK, world
<1>9. ASSUME NEW k \in Keys, AddKey(k) PROVE TypeOK'
  BY <1>9 DEF AddKey, TypeOK, call
<1>10. ASSUME NEW k \in Keys, RevokeKey(k) PROVE TypeOK'
  <2>1. listed' \in [Handlers -> BOOLEAN]
    BY <1>10 DEF RevokeKey, TypeOK
  <2> QED
    BY <1>10, <2>1 DEF RevokeKey, TypeOK
<1>11. CASE FileChanges
  BY <1>11 DEF FileChanges, TypeOK, call
<1>12. CASE Tick
  <2>1. gone' \in [Keys -> 0..Cap] /\ age' \in 0..Cap
    BY <1>12, OlderType DEF Tick, TypeOK
  <2>2. reqAge' \in [Handlers -> 0..Cap]
    BY <1>12, OlderType DEF Tick, TypeOK
  <2>3. replyAge' \in [Handlers -> 0..QueryTime]
    BY <1>12 DEF Tick, TypeOK
  <2> QED
    BY <1>12, <2>1, <2>2, <2>3 DEF Tick, TypeOK
<1> QED
  BY <1>1, <1>2, <1>3, <1>4, <1>5, <1>6, <1>7, <1>8, <1>9, <1>10, <1>11, <1>12
     DEF Next, Step

\* Every variable of the validator has its type, for any calls and keys.
THEOREM Typing == Spec => []TypeOK
<1>1. Init => TypeOK
  <2> SUFFICES ASSUME Init PROVE TypeOK
    OBVIOUS
  <2>1. gone \in [Keys -> 0..Cap]
    BY DEF Init
  <2> QED
    BY <2>1 DEF Init, TypeOK, PCs, Verdicts
<1> QED
  BY <1>1, TypeStep, PTL DEF Spec

----------------------------------------------------------------------------
\* Freshness.

\* Steps that leave the cache, the ages and the answers alone.
LEMMA FreshFrame ==
  ASSUME CacheFresh, valid' \subseteq valid, cache' = cache, age' = age, gone' = gone,
         \A h \in Handlers :
           /\ pc'[h] = "answered" =>
                pc[h] = "answered" /\ replyAge'[h] = replyAge[h] /\ reply'[h] = reply[h]
           /\ pc'[h] = "result" => pc[h] = "result" /\ reqAge'[h] = reqAge[h]
  PROVE  CacheFresh'
  BY DEF CacheFresh

\* Every step of the validator keeps the cache as fresh as its stamp says.
LEMMA FreshStep ==
  ASSUME TypeOK, CacheFresh, [Next]_vars
  PROVE  CacheFresh'
<1>0. /\ pc = [h \in Handlers |-> pc[h]] /\ reqAge = [h \in Handlers |-> reqAge[h]]
      /\ reply = [h \in Handlers |-> reply[h]] /\ replyAge = [h \in Handlers |-> replyAge[h]]
  BY DEF TypeOK
<1>1. CASE UNCHANGED vars
  BY <1>1, FreshFrame DEF vars
<1>2. ASSUME NEW h \in Handlers, NEW k \in Keys \cup {Blank}, Begin(h, k) PROVE CacheFresh'
  BY <1>0, <1>2, FreshFrame DEF Begin, Goto, world
<1>3. ASSUME NEW h \in Handlers,
             RefuseBlank(h) \/ AcceptConfigured(h) \/ MasterError(h) \/ AcceptMaster(h)
             \/ Hit(h) \/ UpdateFails(h) \/ Result(h)
      PROVE  CacheFresh'
  <2>1. PICK from, answer : Return(h, from, answer)
    BY <1>3 DEF RefuseBlank, AcceptConfigured, MasterError, AcceptMaster, Hit, UpdateFails, Result
  <2> QED
    BY <1>0, <2>1, FreshFrame DEF Return, Goto, world
<1>4. ASSUME NEW h \in Handlers, NotMaster(h) \/ Miss(h) PROVE CacheFresh'
  BY <1>0, <1>4, FreshFrame DEF NotMaster, Miss, Goto, world, call
<1>5. ASSUME NEW h \in Handlers, Answer(h) PROVE CacheFresh'
  BY <1>0, <1>5 DEF Answer, Goto, CacheFresh, world, TypeOK
<1>6. ASSUME NEW h \in Handlers, Store(h) PROVE CacheFresh'
  BY <1>0, <1>6 DEF Store, Goto, CacheFresh, world, TypeOK
<1>7. ASSUME NEW h \in Handlers, Finish(h) PROVE CacheFresh'
  BY <1>0, <1>7 DEF Finish, Goto, CacheFresh, world, TypeOK
<1>8. CASE CleanupCache
  BY <1>8 DEF CleanupCache, CacheFresh, world, call
<1>9. ASSUME NEW k \in Keys, AddKey(k) PROVE CacheFresh'
  BY <1>9 DEF AddKey, CacheFresh, call, TypeOK
<1>10. ASSUME NEW k \in Keys, RevokeKey(k) PROVE CacheFresh'
  BY <1>10, FreshFrame DEF RevokeKey
<1>11. CASE FileChanges
  BY <1>11, FreshFrame DEF FileChanges, call
<1>12. CASE Tick
  BY <1>12 DEF Tick, Asking, CacheFresh, TypeOK, Older
<1> QED
  BY <1>1, <1>2, <1>3, <1>4, <1>5, <1>6, <1>7, <1>8, <1>9, <1>10, <1>11, <1>12
     DEF Next, Step

\* However calls overlap, the cache holds only what was listed no longer ago
\* than its own age and the travel time of one answer.
THEOREM Freshness == Spec => []CacheFresh
<1>1. Init => CacheFresh
  BY DEF Init, CacheFresh
<1>2. TypeOK /\ CacheFresh /\ [Next]_vars => CacheFresh'
  BY FreshStep
<1> QED
  BY <1>1, <1>2, Typing, PTL DEF Spec

\* A key accepted on the contract's word was listed recently enough: within the
\* time to live of the cache, or since shortly before the call began.
THEOREM Acceptance == Spec => AcceptedWasListed
<1>1. ASSUME TypeOK, CacheFresh, [Next]_vars, NEW h \in Handlers, AcceptsFromContract(h)
      PROVE  gone[key[h]] <= QueryTime + (IF pc[h] = "lookup" THEN CacheTTL ELSE reqAge[h])
  <2>0. /\ pc = [g \in Handlers |-> pc[g]] /\ verdict = [g \in Handlers |-> verdict[g]]
    BY <1>1 DEF TypeOK
  <2>a. age \in Nat /\ reqAge[h] \in Nat /\ cache \subseteq Keys
    BY <1>1 DEF TypeOK
  <2>b. ASSUME NEW k \in Keys PROVE gone[k] \in Nat
    BY <1>1 DEF TypeOK
  <2>1. pc[h] \in {"lookup", "result"} /\ pc'[h] = "done" /\ verdict'[h] = "valid"
    BY <1>1 DEF AcceptsFromContract
  <2>2. Hit(h) \/ (pc[h] = "result" /\ Result(h))
    <3>1. PICK g \in Handlers : Step(g) \/ \E k \in Keys \cup {Blank} : Begin(g, k)
      BY <2>0, <2>1, <1>1 DEF Next, vars, CleanupCache, AddKey, RevokeKey, FileChanges, Tick, call
    <3>2. g = h
      BY <2>0, <2>1, <3>1 DEF Step, Begin, RefuseBlank, AcceptConfigured, MasterError, AcceptMaster,
            NotMaster, Hit, Miss, Answer, UpdateFails, Store, Result, Finish, Return, Goto
    <3> QED
      BY <2>0, <2>1, <3>1, <3>2 DEF Step, Begin, RefuseBlank, AcceptConfigured, MasterError,
            AcceptMaster, NotMaster, Hit, Miss, Answer, UpdateFails, Store, Result, Finish, Return, Goto
  <2>3. CASE Hit(h)
    <3>1. key[h] \in cache /\ age <= CacheTTL /\ pc[h] = "lookup"
      BY <2>0, <2>a, <2>3 DEF Hit, Stale, Return, Goto
    <3>2. gone[key[h]] <= age + QueryTime /\ gone[key[h]] \in Nat
      BY <2>a, <2>b, <3>1, <1>1 DEF CacheFresh
    <3> QED
      BY <2>a, <3>1, <3>2
  <2>4. CASE pc[h] = "result" /\ Result(h)
    <3>1. key[h] \in cache
      BY <2>0, <2>1, <2>4 DEF Result, Return
    <3>2. age <= reqAge[h]
      BY <2>4, <1>1 DEF CacheFresh
    <3>3. gone[key[h]] <= age + QueryTime /\ gone[key[h]] \in Nat
      BY <2>a, <2>b, <3>1, <1>1 DEF CacheFresh
    <3> QED
      BY <2>a, <2>4, <3>2, <3>3
  <2> QED
    BY <2>2, <2>3, <2>4
<1>2. TypeOK /\ CacheFresh /\ [Next]_vars =>
        [\A h \in Handlers : AcceptsFromContract(h) =>
           gone[key[h]] <= QueryTime + (IF pc[h] = "lookup" THEN CacheTTL ELSE reqAge[h])]_vars
  BY <1>1
<1> QED
  BY <1>2, Typing, Freshness, PTL DEF Spec, AcceptedWasListed

----------------------------------------------------------------------------
\* Refusals.

\* Between the contract's answer and the last lookup of a call that nobody crosses
\* nothing touches the cache, and a key listed throughout is in the answer.
Uncrossed(h) ==
  /\ listed[h] => key[h] \in valid
  /\ pc[h] = "answered" /\ listed[h] => key[h] \in reply[h]
  /\ pc[h] = "result" /\ listed[h] /\ ~crossed[h] => key[h] \in cache
  /\ verdict[h] = "invalid" => pc[h] = "done" /\ (listed[h] => crossed[h])
  /\ pc[h] = "idle" => verdict[h] = "none"

Refusals == \A h \in Handlers : Uncrossed(h)

\* A step that leaves a call, the contract's list and the cache alone.
LEMMA UncrossedFrame ==
  ASSUME NEW h, Uncrossed(h), valid' = valid, cache' = cache, pc'[h] = pc[h],
         key'[h] = key[h], listed'[h] = listed[h], reply'[h] = reply[h],
         verdict'[h] = verdict[h], crossed'[h] = crossed[h]
  PROVE  Uncrossed(h)'
  BY DEF Uncrossed

\* A call that takes part in a step keeps what is claimed of it, and so do the
\* others: those that the step crosses are marked.
LEMMA UncrossedStep ==
  ASSUME TypeOK, Refusals, [Next]_vars
  PROVE  Refusals'
<1> SUFFICES ASSUME NEW h0 \in Handlers PROVE Uncrossed(h0)'
  BY DEF Refusals
<1>u. Uncrossed(h0)
  BY DEF Refusals
<1>0. /\ pc = [h \in Handlers |-> pc[h]] /\ verdict = [h \in Handlers |-> verdict[h]]
      /\ key = [h \in Handlers |-> key[h]] /\ reply = [h \in Handlers |-> reply[h]]
      /\ listed = [h \in Handlers |-> listed[h]] /\ crossed = [h \in Handlers |-> crossed[h]]
      /\ listed[h0] \in BOOLEAN /\ crossed[h0] \in BOOLEAN
  BY DEF TypeOK
<1>1. CASE UNCHANGED vars
  BY <1>1, <1>u, UncrossedFrame DEF vars
<1>2. ASSUME NEW h \in Handlers, NEW k \in Keys \cup {Blank}, Begin(h, k) PROVE Uncrossed(h0)'
  BY <1>0, <1>u, <1>2 DEF Uncrossed, Begin, Goto, world
<1>3. ASSUME NEW h \in Handlers,
             RefuseBlank(h) \/ AcceptConfigured(h) \/ MasterError(h) \/ AcceptMaster(h)
             \/ Hit(h) \/ UpdateFails(h)
      PROVE  Uncrossed(h0)'
  <2>1. PICK from, answer : Return(h, from, answer) /\ answer # "invalid"
    BY <1>3 DEF RefuseBlank, AcceptConfigured, MasterError, AcceptMaster, Hit, UpdateFails
  <2> QED
    BY <1>0, <1>u, <2>1 DEF Uncrossed, Return, Goto, world
<1>4. ASSUME NEW h \in Handlers, Result(h) PROVE Uncrossed(h0)'
  BY <1>0, <1>u, <1>4 DEF Uncrossed, Result, Return, Goto, world
<1>5. ASSUME NEW h \in Handlers, NotMaster(h) \/ Miss(h) PROVE Uncrossed(h0)'
  BY <1>0, <1>u, <1>5 DEF Uncrossed, NotMaster, Miss, Goto, world, call
<1>6. ASSUME NEW h \in Handlers, Answer(h) PROVE Uncrossed(h0)'
  BY <1>0, <1>u, <1>6 DEF Uncrossed, Answer, Goto, world
<1>7. ASSUME NEW h \in Handlers, Store(h) PROVE Uncrossed(h0)'
  <2>1. crossed'[h0] <=> crossed[h0] \/ pc[h0] = "result"
    BY <1>7 DEF Store, Crossed
  <2> QED
    BY <1>0, <1>u, <1>7, <2>1 DEF Uncrossed, Store, Goto, world
<1>8. ASSUME NEW h \in Handlers, Finish(h) PROVE Uncrossed(h0)'
  BY <1>0, <1>u, <1>8 DEF Uncrossed, Finish, Goto, world
<1>9. CASE CleanupCache
  <2>1. crossed'[h0] <=> crossed[h0] \/ pc[h0] = "result"
    BY <1>9 DEF CleanupCache, Crossed
  <2> QED
    BY <1>u, <1>9, <2>1 DEF Uncrossed, CleanupCache, world
<1>10. ASSUME NEW k \in Keys, AddKey(k) PROVE Uncrossed(h0)'
  BY <1>u, <1>10 DEF Uncrossed, AddKey, call
<1>11. ASSUME NEW k \in Keys, RevokeKey(k) PROVE Uncrossed(h0)'
  <2>1. listed'[h0] <=> listed[h0] /\ key[h0] # k
    BY <1>0, <1>11 DEF RevokeKey
  <2> QED
    BY <1>u, <1>11, <2>1 DEF Uncrossed, RevokeKey
<1>12. CASE FileChanges
  BY <1>u, <1>12, UncrossedFrame DEF FileChanges, call
<1>13. CASE Tick
  BY <1>u, <1>13, UncrossedFrame DEF Tick
<1> QED
  BY <1>1, <1>2, <1>3, <1>4, <1>5, <1>6, <1>7, <1>8, <1>9, <1>10, <1>11, <1>12, <1>13
     DEF Next, Step

\* However calls overlap, a key that is refused without an error was missing from
\* the contract's list during the call, unless the call was crossed.
THEOREM Definitive == Spec => []UncrossedIsDefinitive
<1>1. Init => Refusals
  BY DEF Init, Refusals, Uncrossed
<1>2. TypeOK /\ Refusals /\ [Next]_vars => Refusals'
  BY UncrossedStep
<1>3. Refusals => UncrossedIsDefinitive
  BY DEF Refusals, Uncrossed, UncrossedIsDefinitive
<1> QED
  BY <1>1, <1>2, <1>3, Typing, PTL DEF Spec
=============================================================================
