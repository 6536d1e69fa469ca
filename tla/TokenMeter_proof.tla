-------------------------- MODULE TokenMeter_proof -------------------------
\* Theorems about TokenizerCache and TokenMeter and their proofs.
EXTENDS TokenMeter, FiniteSetTheorems, TLAPS

USE NoCallerAssumption, HandlersAssumption, ErrandsAssumption, UnknownAssumption,
    LengthsAssumption, UsagesAssumption

----------------------------------------------------------------------------
\* The lock and the cache.

\* Where a caller stands says what it has of the lock, and whoever got the write lock
\* is alone with it.
LockHeld ==
  /\ reading = {c \in Callers : pc[c] = "look"}
  /\ \A c \in Callers : pc[c] \in {"drain", "check", "load"} => writing = c
  /\ (\E c \in Callers : pc[c] \in {"check", "load"}) => reading = {}

\* What was loaded was loaded once, and nobody loads what is there.
LoadsKept ==
  /\ \A t \in Tokenizers : loads[t] = IF t \in loaded THEN 1 ELSE 0
  /\ \A c \in Callers : pc[c] = "load" => want[c] \notin loaded

CacheInv == CacheTypeOK /\ LockHeld /\ LoadsKept

\* A caller that works under the write lock is the only one that has anything of it.
LEMMA Alone ==
  ASSUME CacheTypeOK, LockHeld, NEW c \in Callers, pc[c] \in {"check", "load"},
         NEW d \in Callers, d # c
  PROVE  pc[d] \notin {"look", "drain", "check", "load"}
BY DEF LockHeld

\* What Unlock does to the lock.
LEMMA Unlocks ==
  ASSUME CacheTypeOK, LockHeld, NEW c \in Callers, pc[c] \in {"check", "load"},
         Unlock(c, "out")
  PROVE  /\ LockHeld'
         /\ pc' \in [Callers -> Places] /\ reading' \subseteq Callers
         /\ writing' = NoCaller
         /\ \A d \in Callers : pc'[d] \notin {"drain", "check", "load"}
<1> USE DEF Unlock, CacheTypeOK, Places
<1>1. /\ pc' \in [Callers -> Places] /\ reading' \subseteq Callers
      /\ writing' = NoCaller
  OBVIOUS
<1>2. \A d \in Callers : pc'[d] \notin {"drain", "check", "load"}
  BY Alone
<1>3. reading = {}
  BY DEF LockHeld
<1>4. reading' = {d \in Callers : pc'[d] = "look"}
  BY <1>3, Alone
<1> QED
  BY <1>1, <1>2, <1>4 DEF LockHeld

\* The cache keeps its types.
LEMMA CacheTypeStep ==
  ASSUME CacheInv, [CacheNext]_cacheVars
  PROVE  CacheTypeOK'
<1> USE DEF CacheInv
<1>0. CASE UNCHANGED cacheVars
  BY <1>0 DEF cacheVars, CacheTypeOK
<1>1. ASSUME NEW c \in Callers, CountPlainly(c) PROVE CacheTypeOK'
  BY <1>1 DEF CountPlainly, CacheTypeOK, Outcomes, lock
<1>2. ASSUME NEW c \in Callers, NEW op \in Tasks, NEW t \in Tokenizers, Call(c, op, t)
      PROVE  CacheTypeOK'
  BY <1>2 DEF Call, CacheTypeOK, Places, lock
<1>3. ASSUME NEW c \in Callers, Lock(c) PROVE CacheTypeOK'
  BY <1>3 DEF Lock, CacheTypeOK, Places
<1>4. ASSUME NEW c \in Callers, RLock(c) PROVE CacheTypeOK'
  BY <1>4 DEF RLock, CacheTypeOK, Places
<1>5. ASSUME NEW c \in Callers, Look(c) PROVE CacheTypeOK'
  BY <1>5 DEF Look, Answer, CacheTypeOK, Places, Outcomes
<1>6. ASSUME NEW c \in Callers, Drained(c) PROVE CacheTypeOK'
  BY <1>6 DEF Drained, CacheTypeOK, Places, lock
<1>7. ASSUME NEW c \in Callers, Check(c) PROVE CacheTypeOK'
  BY <1>7 DEF Check, Return, Unlock, Answer, CacheTypeOK, Places, Outcomes, lock
<1>8. ASSUME NEW c \in Callers, LoadFails(c) PROVE CacheTypeOK'
  BY <1>8 DEF LoadFails, Return, Unlock, Answer, CacheTypeOK, Places, Outcomes
<1>9. ASSUME NEW c \in Callers, Load(c) PROVE CacheTypeOK'
  BY <1>9 DEF Load, Return, Unlock, Answer, CacheTypeOK, Places, Outcomes
<1> QED
  BY <1>0, <1>1, <1>2, <1>3, <1>4, <1>5, <1>6, <1>7, <1>8, <1>9 DEF CacheNext, CacheStep

\* The lock stays held by those who stand where they hold it, and what is loaded is
\* loaded once.
LEMMA CacheStepKeeps ==
  ASSUME CacheInv, [CacheNext]_cacheVars
  PROVE  LockHeld' /\ LoadsKept'
<1> USE DEF CacheInv
<1>0. CASE UNCHANGED cacheVars
  BY <1>0 DEF cacheVars, LockHeld, LoadsKept
<1>1. ASSUME NEW c \in Callers, CountPlainly(c) PROVE LockHeld' /\ LoadsKept'
  BY <1>1 DEF CountPlainly, LockHeld, LoadsKept, lock
<1>2. ASSUME NEW c \in Callers, NEW op \in Tasks, NEW t \in Tokenizers, Call(c, op, t)
      PROVE  LockHeld' /\ LoadsKept'
  BY <1>2 DEF Call, CacheTypeOK, LockHeld, LoadsKept, lock
<1>3. ASSUME NEW c \in Callers, Lock(c) PROVE LockHeld' /\ LoadsKept'
  BY <1>3 DEF Lock, CacheTypeOK, LockHeld, LoadsKept
<1>4. ASSUME NEW c \in Callers, RLock(c) PROVE LockHeld' /\ LoadsKept'
  BY <1>4 DEF RLock, CacheTypeOK, LockHeld, LoadsKept
<1>5. ASSUME NEW c \in Callers, Look(c) PROVE LockHeld' /\ LoadsKept'
  BY <1>5 DEF Look, CacheTypeOK, LockHeld, LoadsKept
<1>6. ASSUME NEW c \in Callers, Drained(c) PROVE LockHeld' /\ LoadsKept'
  BY <1>6 DEF Drained, CacheTypeOK, LockHeld, LoadsKept, lock
<1>7. ASSUME NEW c \in Callers, Check(c) PROVE LockHeld' /\ LoadsKept'
  <2>1. CASE task[c] = "map" \/ want[c] \in loaded
    <3>1. Unlock(c, "out") /\ pc[c] \in {"check", "load"}
      BY <1>7, <2>1 DEF Check, Return
    <3> QED
      BY <1>7, <3>1, Unlocks DEF Check, LoadsKept
  <2>2. CASE ~(task[c] = "map" \/ want[c] \in loaded)
    BY <1>7, <2>2 DEF Check, CacheTypeOK, LockHeld, LoadsKept, lock
  <2> QED
    BY <2>1, <2>2
<1>8. ASSUME NEW c \in Callers, LoadFails(c) PROVE LockHeld' /\ LoadsKept'
  <2>1. Unlock(c, "out") /\ pc[c] \in {"check", "load"}
    BY <1>8 DEF LoadFails, Return
  <2> QED
    BY <1>8, <2>1, Unlocks DEF LoadFails, LoadsKept
<1>9. ASSUME NEW c \in Callers, Load(c) PROVE LockHeld' /\ LoadsKept'
  <2>1. Unlock(c, "out") /\ pc[c] \in {"check", "load"}
    BY <1>9 DEF Load, Return
  <2>2. want[c] \notin loaded
    BY <1>9 DEF Load, LoadsKept
  <2>3. LoadsKept'
    BY <1>9, <2>1, <2>2, Unlocks DEF Load, LoadsKept, CacheTypeOK
  <2> QED
    BY <2>1, <2>3, Unlocks
<1> QED
  BY <1>0, <1>1, <1>2, <1>3, <1>4, <1>5, <1>6, <1>7, <1>8, <1>9 DEF CacheNext, CacheStep

LEMMA CacheStarts == CacheInit => CacheInv
BY DEF CacheInit, CacheInv, CacheTypeOK, LockHeld, LoadsKept, Places, Tasks, Outcomes

LEMMA CacheInvStep == CacheInv /\ [CacheNext]_cacheVars => CacheInv'
BY CacheTypeStep, CacheStepKeeps DEF CacheInv

LEMMA InvLoadedOnce == CacheInv => LoadedOnce
<1> SUFFICES ASSUME CacheInv PROVE LoadedOnce
  OBVIOUS
<1>1. \A t \in Tokenizers : loads[t] <= 1
  BY DEF CacheInv, LoadsKept
<1>2. \A c, d \in Callers :
        pc[c] = "load" /\ d # c => pc[d] \notin {"look", "check", "load"}
  BY Alone DEF CacheInv
<1> QED
  BY <1>1, <1>2 DEF LoadedOnce

\* However many goroutines call the cache, and whatever they call, no tokenizer is
\* loaded twice, and nobody reads the maps while one is loaded.
THEOREM CacheLoadsOnce == CacheSpec => []LoadedOnce
<1>1. CacheSpec => []CacheInv
  BY CacheStarts, CacheInvStep, PTL DEF CacheSpec
<1> QED
  BY <1>1, InvLoadedOnce, PTL

----------------------------------------------------------------------------
\* Waiting for the lock.

\* A caller that can take its next step by itself.
Able(c) ==
  \/ pc[c] \in {"read", "look", "check", "load"}
  \/ pc[c] = "write" /\ writing = NoCaller
  \/ pc[c] = "drain" /\ reading = {}

\* Whoever cannot waits for a writer, and the writer waits for nobody or for readers
\* that wait for nobody: no wait is longer than that, and none comes back to itself.
NobodyStuck ==
  \A c \in Callers : pc[c] # "out" /\ ~Able(c) =>
    /\ writing \in Callers
    /\ Able(writing) \/ (reading # {} /\ \A d \in reading : Able(d) /\ d # c)

\* A writer is where it holds the lock or waits for it to drain, and there is one
\* while anybody is blocked: what Unlock must not forget.
WriterThere ==
  /\ writing # NoCaller => pc[writing] \in {"drain", "check", "load"}
  /\ \A c \in Callers : pc[c] = "blocked" => writing # NoCaller

LEMMA WriterThereStep ==
  ASSUME CacheInv, WriterThere, [CacheNext]_cacheVars
  PROVE  WriterThere'
<1> USE DEF CacheInv, CacheTypeOK
<1>0. CASE UNCHANGED cacheVars
  BY <1>0 DEF cacheVars, WriterThere
<1>1. ASSUME NEW c \in Callers, CountPlainly(c) PROVE WriterThere'
  BY <1>1 DEF CountPlainly, WriterThere, lock
<1>2. ASSUME NEW c \in Callers, NEW op \in Tasks, NEW t \in Tokenizers, Call(c, op, t)
      PROVE  WriterThere'
  BY <1>2 DEF Call, WriterThere, lock
<1>3. ASSUME NEW c \in Callers, Lock(c) PROVE WriterThere'
  BY <1>3 DEF Lock, WriterThere
<1>4. ASSUME NEW c \in Callers, RLock(c) PROVE WriterThere'
  BY <1>4 DEF RLock, WriterThere
<1>5. ASSUME NEW c \in Callers, Look(c) PROVE WriterThere'
  BY <1>5 DEF Look, WriterThere
<1>6. ASSUME NEW c \in Callers, Drained(c) PROVE WriterThere'
  BY <1>6 DEF Drained, WriterThere, lock
<1>7. ASSUME NEW c \in Callers, Unlock(c, "out") PROVE WriterThere'
  BY <1>7 DEF Unlock, WriterThere
<1>8. ASSUME NEW c \in Callers, Check(c) PROVE WriterThere'
  <2>1. CASE Unlock(c, "out")
    BY <1>7, <2>1
  <2>2. CASE pc' = [pc EXCEPT ![c] = "load"] /\ UNCHANGED lock
    BY <1>8, <2>2 DEF Check, WriterThere, lock
  <2> QED
    BY <1>8, <2>1, <2>2 DEF Check, Return
<1>9. ASSUME NEW c \in Callers, LoadFails(c) \/ Load(c) PROVE WriterThere'
  BY <1>7, <1>9 DEF LoadFails, Load, Return
<1> QED
  BY <1>0, <1>1, <1>2, <1>3, <1>4, <1>5, <1>6, <1>8, <1>9 DEF CacheNext, CacheStep

\* However many callers there are, the tokenizers' lock never leaves them waiting for
\* one another.
THEOREM CacheNeverStuck == CacheSpec => []NobodyStuck
<1>1. CacheInit => WriterThere
  BY DEF CacheInit, WriterThere
<1>2. CacheInv /\ WriterThere => NobodyStuck
  <2> SUFFICES ASSUME CacheInv, WriterThere, NEW c \in Callers, pc[c] # "out", ~Able(c)
               PROVE  /\ writing \in Callers
                      /\ \/ Able(writing)
                         \/ reading # {} /\ \A d \in reading : Able(d) /\ d # c
    BY DEF NobodyStuck
  <2>1. pc[c] \in {"blocked", "write", "drain"}
    BY DEF CacheInv, CacheTypeOK, Places, Able
  <2>2. writing \in Callers /\ pc[writing] \in {"drain", "check", "load"}
    <3>1. CASE pc[c] = "drain"
      BY <3>1 DEF CacheInv, LockHeld, WriterThere
    <3>2. CASE pc[c] \in {"blocked", "write"}
      BY <3>2 DEF CacheInv, CacheTypeOK, WriterThere, Able
    <3> QED
      BY <2>1, <3>1, <3>2
  <2>3. \A d \in reading : Able(d) /\ d # c
    BY <2>1 DEF CacheInv, LockHeld, Able
  <2> QED
    BY <2>2, <2>3 DEF Able
<1>3. CacheSpec => []CacheInv
  BY CacheStarts, CacheInvStep, PTL DEF CacheSpec
<1> QED
  BY <1>1, <1>2, <1>3, WriterThereStep, PTL DEF CacheSpec

----------------------------------------------------------------------------
\* The meter and the cache.

\* Every step of the meter is one of the cache or leaves the cache alone.
LEMMA MeterStepIsCacheStep == [Next]_vars => [CacheNext]_cacheVars
<1> SUFFICES ASSUME [Next]_vars PROVE [CacheNext]_cacheVars
  OBVIOUS
<1>0. CASE UNCHANGED vars
  BY <1>0 DEF vars
<1>1. ASSUME NEW h \in Handlers, NEW m \in Models \cup {Unknown}, CountTokensWithModel(h, m)
      PROVE  CacheNext
  BY <1>1 DEF CountTokensWithModel, CacheNext, Tasks
<1>2. ASSUME NEW h \in Handlers, NEW m \in Models \cup {Unknown}, NEW empty \in BOOLEAN,
             NEW counting, NEW done, countTokens(h, m, empty, counting, done)
      PROVE  [CacheNext]_cacheVars
  BY <1>1, <1>2 DEF countTokens
<1>3. ASSUME NEW h \in Handlers, NEW k \in Keys, NEW m \in Models \cup {Unknown},
             NEW empty \in BOOLEAN, Arrive(h, k, m, empty)
      PROVE  [CacheNext]_cacheVars
  BY <1>2, <1>3 DEF Arrive
<1>4. ASSUME NEW h \in Handlers, Serve(h) PROVE [CacheNext]_cacheVars
  <2>1. CASE Forward(h) \/ CountOutput(h) \/ Fail(h) \/ Record(h)
    BY <2>1 DEF Forward, CountOutput, Fail, Record
  <2>2. ASSUME NEW m \in Models \cup {Unknown}, NEW u \in Usages, AnswerWithUsage(h, m, u)
        PROVE  [CacheNext]_cacheVars
    BY <2>2 DEF AnswerWithUsage
  <2>3. ASSUME NEW m \in Models \cup {Unknown}, NEW empty \in BOOLEAN,
               AnswerWithText(h, m, empty)
        PROVE  [CacheNext]_cacheVars
    BY <1>2, <2>3 DEF AnswerWithText
  <2> QED
    BY <1>4, <2>1, <2>2, <2>3 DEF Serve
<1>5. ASSUME NEW c \in Callers \ Handlers, Background(c) PROVE [CacheNext]_cacheVars
  BY <1>5 DEF Background, CacheNext
<1>6. ASSUME NEW c \in Callers, Tokenize(c) \/ Acquire(c) PROVE [CacheNext]_cacheVars
  BY <1>6 DEF Tokenize, Acquire, CacheNext
<1>7. CASE FlushUsage \/ BuildRecords
  BY <1>7 DEF FlushUsage, BuildRecords
<1> QED
  BY <1>0, <1>3, <1>4, <1>5, <1>6, <1>7 DEF Next

\* Requests use the cache as CacheSpec lets anyone use it.
THEOREM MeterUsesCache == Spec => CacheSpec
<1>1. Init => CacheInit
  BY DEF Init
<1> QED
  BY <1>1, MeterStepIsCacheStep, PTL DEF Spec, CacheSpec

\* However many requests are served, no tokenizer is loaded twice.
THEOREM LoadsOnce == Spec => []LoadedOnce
BY MeterUsesCache, CacheLoadsOnce, PTL

\* However many requests are counted, the cache's lock never has them all waiting.
THEOREM MeterNeverStuck == Spec => []NobodyStuck
BY MeterUsesCache, CacheNeverStuck, PTL

----------------------------------------------------------------------------
\* Types.

StagesOK ==
  /\ at \in [Handlers -> Stages]
  /\ request \in [Handlers -> [key : Keys, model : Models \cup {Unknown}]]
  /\ tokens \in [Handlers -> Amount]
  /\ \A h \in Handlers : at[h] # "record" => tokens[h]["input"] >= 0
  /\ requests \in Nat

TalliesOK ==
  /\ heap \in Seq([Models -> Amount])
  /\ UsageOK(usage) /\ UsageOK(batch)
  /\ reported \in [Keys -> [Models -> Amount]]
  /\ served \in [Keys -> [Models -> Amount]]

\* A count is a number of tokens, whatever the tokenizer made of the content.
LEMMA CountedType == \A h \in Handlers : Counted(h) \subseteq Nat
<1> SUFFICES ASSUME NEW h \in Handlers, NEW n \in Counted(h) PROVE n \in Nat
  OBVIOUS
<1>1. PICK length \in Lengths : n \in {ValidateTokenCount(i, length) : i \in Counts(h, length)}
  BY DEF Counted
<1>2. length \in Nat
  OBVIOUS
<1>3. \A i \in fallbackCount(length) : i \in Nat
  BY <1>2 DEF fallbackCount
<1>4. \A i \in Encodings(length) : i \in Nat
  BY <1>2 DEF Encodings
<1>5. \A i \in Counts(h, length) : i \in Nat
  BY <1>3, <1>4 DEF Counts
<1> QED
  BY <1>1, <1>2, <1>5 DEF ValidateTokenCount

LEMMA TokensType ==
  ASSUME NEW i \in Int, NEW o \in Nat, NEW c \in Nat, i + c >= 0
  PROVE  Tokens(i, o, c) \in Amount
BY DEF Tokens, Amount, Parts

LEMMA AmountType ==
  /\ Zero \in Amount
  /\ NoModels \in [Models -> Amount]
  /\ \A a, b \in Amount : Plus(a, b) \in Amount
  /\ \A a \in Amount : Due(a) \in Amount
  /\ \A a \in Amount : /\ a["input"] \in Int /\ a["output"] \in Nat /\ a["cached"] \in Nat
                       /\ a["input"] + a["cached"] >= 0
BY DEF Zero, NoModels, Plus, Amount, Parts, Due

\* What a handler knows of its request keeps its type; only an answer's usage takes the
\* input below zero.
LEMMA StagesStep ==
  ASSUME StagesOK, [Next]_vars
  PROVE  StagesOK'
<1> USE DEF StagesOK
<1>a. ASSUME NEW h \in Handlers, Finish(h)
      PROVE  /\ at' \in [Handlers -> Stages]
             /\ request' \in [Handlers -> [key : Keys, model : Models \cup {Unknown}]]
             /\ tokens' \in [Handlers -> Amount]
             /\ \A i \in Handlers : at'[i] # "record" => tokens'[i]["input"] >= 0
  <2>1. request' \in [Handlers -> [key : Keys, model : Models \cup {Unknown}]]
    BY <1>a DEF Finish
  <2>2. at' \in [Handlers -> Stages] /\ tokens' \in [Handlers -> Amount]
    BY <1>a, AmountType DEF Finish, Stages
  <2>3. \A i \in Handlers : at'[i] # "record" => tokens'[i]["input"] >= 0
    BY <1>a DEF Finish, Zero, Parts
  <2> QED
    BY <2>1, <2>2, <2>3
<1>b. ASSUME NEW h \in Handlers, NEW m, NEW empty,
             \/ countTokens(h, m, empty, "input", "upstream")
             \/ countTokens(h, m, empty, "output", "record")
      PROVE  /\ at' \in [Handlers -> Stages]
             /\ \A i \in Handlers : at'[i] # "record" => i = h \/ at[i] # "record"
             /\ at'[h] # "record" => at'[h] \in {"input", "upstream", "output"}
  BY <1>b DEF countTokens, Stages
<1>0. CASE UNCHANGED vars
  BY <1>0 DEF vars, meterVars
<1>1. ASSUME NEW h \in Handlers, NEW k \in Keys, NEW m \in Models \cup {Unknown},
             NEW empty \in BOOLEAN, Arrive(h, k, m, empty)
      PROVE  StagesOK'
  BY <1>1, <1>b DEF Arrive
<1>2. ASSUME NEW h \in Handlers, Forward(h) PROVE StagesOK'
  <2>1. PICK n \in Counted(h) : tokens' = [tokens EXCEPT ![h] = Tokens(n, 0, 0)]
    BY <1>2 DEF Forward
  <2>2. n \in Nat /\ Tokens(n, 0, 0) \in Amount /\ Tokens(n, 0, 0)["input"] = n
    BY CountedType, TokensType DEF Tokens, Parts
  <2>3. at' = [at EXCEPT ![h] = "upstream"] /\ UNCHANGED <<request, requests>>
    BY <1>2 DEF Forward
  <2> QED
    BY <2>1, <2>2, <2>3 DEF Stages
<1>3. ASSUME NEW h \in Handlers, CountOutput(h) PROVE StagesOK'
  <2>1. tokens[h]["input"] \in Nat
    <3>1. tokens[h]["input"] \in Int /\ at[h] # "record"
      BY <1>3, AmountType DEF CountOutput
    <3> QED
      BY <3>1
  <2>2. tokens' \in [Handlers -> Amount]
    BY <1>3, <2>1, CountedType, TokensType DEF CountOutput
  <2>3. at' = [at EXCEPT ![h] = "record"] /\ UNCHANGED <<request, requests>>
    BY <1>3 DEF CountOutput
  <2>4. \A i \in Handlers : i # h => tokens'[i] = tokens[i]
    BY <1>3 DEF CountOutput
  <2> QED
    BY <2>2, <2>3, <2>4 DEF Stages
<1>4. ASSUME NEW h \in Handlers, Fail(h) PROVE StagesOK'
  BY <1>4, <1>a DEF Fail
<1>5. ASSUME NEW h \in Handlers, NEW m \in Models \cup {Unknown}, NEW u \in Usages,
             AnswerWithUsage(h, m, u)
      PROVE  StagesOK'
  <2>1. /\ u.prompt - u.cached \in Int /\ u.completion \in Nat /\ u.cached \in Nat
        /\ u.prompt - u.cached + u.cached >= 0
    OBVIOUS
  <2>2. tokens' \in [Handlers -> Amount]
    BY <1>5, <2>1, TokensType DEF AnswerWithUsage
  <2>3. at' \in [Handlers -> Stages] /\ requests' \in Nat
    BY <1>5 DEF AnswerWithUsage, Stages
  <2>4. request' \in [Handlers -> [key : Keys, model : Models \cup {Unknown}]]
    BY <1>5 DEF AnswerWithUsage
  <2>5. \A i \in Handlers : at'[i] # "record" => tokens'[i]["input"] >= 0
    BY <1>5 DEF AnswerWithUsage
  <2> QED
    BY <2>2, <2>3, <2>4, <2>5
<1>6. ASSUME NEW h \in Handlers, NEW m \in Models \cup {Unknown}, NEW empty \in BOOLEAN,
             AnswerWithText(h, m, empty)
      PROVE  StagesOK'
  BY <1>6, <1>b DEF AnswerWithText
<1>7. ASSUME NEW h \in Handlers, Record(h) PROVE StagesOK'
  BY <1>7, <1>a DEF Record
<1>8. ASSUME NEW c \in Callers, Background(c) \/ Tokenize(c) \/ Acquire(c)
      PROVE  StagesOK'
  BY <1>8 DEF Background, Tokenize, Acquire, meterVars
<1>9. CASE FlushUsage \/ BuildRecords
  BY <1>9 DEF FlushUsage, BuildRecords
<1> QED
  BY <1>0, <1>1, <1>2, <1>3, <1>4, <1>5, <1>6, <1>7, <1>8, <1>9 DEF Next, Serve

----------------------------------------------------------------------------
\* The tallies.

\* No two tallies, live or flushed, refer to the same map of models.  It is what the
\* shallow copy of FlushUsage depends on.
Unshared ==
  /\ \A j, k \in DOMAIN usage : j # k => usage[j].models # usage[k].models
  /\ \A j, k \in DOMAIN batch : j # k => batch[j].models # batch[k].models
  /\ \A j \in DOMAIN usage, k \in DOMAIN batch : usage[j].models # batch[k].models

TalliesInv == TalliesOK /\ Unshared /\ EveryTokenOnce

\* What is added for each key, model and kind of token: nothing, but to the one
\* recorded.
Gain(k, model, amount, j, m, x) == IF j = k /\ m = model THEN amount[x] ELSE 0

\* An amount is added to one model and no other.
LEMMA AddedTo ==
  ASSUME NEW models \in [Models -> Amount], NEW model \in Models, NEW amount \in Amount
  PROVE  /\ AddTo(models, model, amount) \in [Models -> Amount]
         /\ \A m \in Models, x \in Parts :
              AddTo(models, model, amount)[m][x]
                = models[m][x] + (IF m = model THEN amount[x] ELSE 0)
<1> DEFINE new == Plus(models[model], amount)
<1>1. new \in Amount
  BY AmountType
<1>2. \A x \in Parts : new[x] = models[model][x] + amount[x]
  BY DEF Plus
<1>3. AddTo(models, model, amount) = [models EXCEPT ![model] = new]
  BY DEF AddTo
<1> HIDE DEF new
<1>4. \A m \in Models, x \in Parts : models[m][x] \in Int
  BY DEF Amount
<1>5. ASSUME NEW m \in Models, NEW x \in Parts
      PROVE  [models EXCEPT ![model] = new][m][x]
               = models[m][x] + (IF m = model THEN amount[x] ELSE 0)
  <2>1. CASE m = model
    BY <1>2, <2>1
  <2>2. CASE m # model
    BY <1>4, <2>2
  <2> QED
    BY <2>1, <2>2
<1> QED
  BY <1>1, <1>3, <1>5

\* What the tallies hold is a number.
LEMMA InType ==
  ASSUME TalliesOK
  PROVE  \A j \in Keys, m \in Models, x \in Parts :
           In(usage, j, m, x) \in Int /\ In(batch, j, m, x) \in Int
<1> SUFFICES ASSUME NEW j \in Keys, NEW m \in Models, NEW x \in Parts
             PROVE  In(usage, j, m, x) \in Int /\ In(batch, j, m, x) \in Int
  OBVIOUS
<1>1. \A r \in 1 .. Len(heap) : heap[r] \in [Models -> Amount]
  BY DEF TalliesOK
<1>2. \A r \in 1 .. Len(heap) : heap[r][m][x] \in Int
  BY <1>1 DEF Amount
<1>3. /\ j \in DOMAIN usage => usage[j].models \in 1 .. Len(heap)
      /\ j \in DOMAIN batch => batch[j].models \in 1 .. Len(heap)
  BY DEF TalliesOK, UsageOK, Entries
<1> QED
  BY <1>2, <1>3 DEF In

\* A record adds to one model of one key, starts a map of its own for a new key, and
\* leaves what was flushed as it is.
LEMMA Recorded ==
  ASSUME TalliesOK, Unshared,
         NEW k \in Keys, NEW model \in Models, NEW amount \in Amount,
         RecordUsageWithModel(k, model, amount)
  PROVE  /\ heap' \in Seq([Models -> Amount])
         /\ Len(heap) <= Len(heap')
         /\ UsageOK(usage)'
         /\ \A j \in Keys, m \in Models, x \in Parts :
              In(usage, j, m, x)' = In(usage, j, m, x) + Gain(k, model, amount, j, m, x)
         /\ \A j \in DOMAIN batch : heap'[batch[j].models] = heap[batch[j].models]
         /\ \A i, j \in DOMAIN usage' : i # j => usage'[i].models # usage'[j].models
         /\ \A i \in DOMAIN usage', j \in DOMAIN batch : usage'[i].models # batch[j].models
<1>a. \A models \in [Models -> Amount] :
        /\ AddTo(models, model, amount) \in [Models -> Amount]
        /\ \A m \in Models, x \in Parts :
             AddTo(models, model, amount)[m][x]
               = models[m][x] + (IF m = model THEN amount[x] ELSE 0)
  BY AddedTo
<1> USE DEF TalliesOK, UsageOK, Entries
<1>0. /\ \A a, b \in Amount : Plus(a, b) \in Amount
      /\ \A a, b \in Amount, x \in Parts : Plus(a, b)[x] = a[x] + b[x]
      /\ \A a \in Amount, x \in Parts : a[x] \in Int
      /\ NoModels \in [Models -> Amount]
      /\ \A m \in Models, x \in Parts : NoModels[m][x] = 0
  BY AmountType DEF Plus, Amount, NoModels, Zero
<1>00. \A r \in 1 .. Len(heap) : heap[r] \in [Models -> Amount]
  OBVIOUS
<1>1. CASE k \in DOMAIN usage
  <2> DEFINE r == usage[k].models
             counts == AddTo(heap[r], model, amount)
  <2>1. r \in 1 .. Len(heap) /\ usage[k].total \in Amount
    BY <1>1
  <2>2. heap' = [heap EXCEPT ![r] = counts]
    BY <1>1 DEF RecordUsageWithModel
  <2>3. usage' = [usage EXCEPT ![k].total = Plus(@, amount)]
    BY <1>1 DEF RecordUsageWithModel
  <2>4. /\ counts \in [Models -> Amount]
        /\ \A m \in Models, x \in Parts :
             counts[m][x] = heap[r][m][x] + (IF m = model THEN amount[x] ELSE 0)
    <3>1. heap[r] \in [Models -> Amount]
      BY <1>00, <2>1, Zenon
    <3> QED
      BY <1>a, <3>1, Zenon
  <2>5. /\ DOMAIN usage' = DOMAIN usage
        /\ \A j \in DOMAIN usage : usage'[j].models = usage[j].models
        /\ \A j \in DOMAIN usage : usage'[j] \in Entries
    BY <1>0, <2>1, <2>3
  <2> HIDE DEF counts
  <2>6. /\ heap' \in Seq([Models -> Amount]) /\ Len(heap') = Len(heap)
        /\ heap'[r] = counts
        /\ \A q \in 1 .. Len(heap) : q # r => heap'[q] = heap[q]
    BY <2>1, <2>2, <2>4
  <2>7. ASSUME NEW j \in Keys, NEW m \in Models, NEW x \in Parts
        PROVE  In(usage, j, m, x)' = In(usage, j, m, x) + Gain(k, model, amount, j, m, x)
    <3>1. CASE j = k
      <4>1. heap'[usage'[k].models] = counts
        BY <1>1, <2>5, <2>6
      <4>2. In(usage, j, m, x)' = counts[m][x] /\ In(usage, j, m, x) = heap[r][m][x]
        BY <1>1, <2>5, <3>1, <4>1 DEF In
      <4>3. heap[r][m][x] \in Int
        <5>1. heap[r][m] \in Amount
          BY <1>00, <2>1
        <5> QED
          BY <1>0, <5>1, Zenon
      <4> HIDE DEF r
      <4> QED
        BY <2>4, <3>1, <4>2, <4>3 DEF Gain
    <3>2. CASE j # k /\ j \in DOMAIN usage
      <4>1. usage[j].models # r /\ usage[j].models \in 1 .. Len(heap)
        BY <1>1, <3>2 DEF Unshared
      <4>2. heap'[usage'[j].models] = heap[usage[j].models]
        BY <2>5, <2>6, <3>2, <4>1
      <4>3. heap[usage[j].models][m][x] \in Int
        BY <1>0, <1>00, <4>1
      <4> QED
        BY <2>5, <3>2, <4>2, <4>3 DEF In, Gain
    <3>3. CASE j # k /\ j \notin DOMAIN usage
      BY <2>5, <3>3 DEF In, Gain
    <3> QED
      BY <3>1, <3>2, <3>3
  <2>8. \A j \in DOMAIN batch : heap'[batch[j].models] = heap[batch[j].models]
    BY <1>1, <2>6 DEF Unshared
  <2> QED
    BY <2>5, <2>6, <2>7, <2>8 DEF Unshared
<1>2. CASE k \notin DOMAIN usage
  <2> DEFINE counts == [NoModels EXCEPT ![model] = amount]
  <2>1. heap' = Append(heap, counts)
    BY <1>2 DEF RecordUsageWithModel
  <2>2. usage' = [j \in DOMAIN usage \cup {k} |->
                    IF j = k THEN [total |-> amount, models |-> Len(heap) + 1] ELSE usage[j]]
    BY <1>2 DEF RecordUsageWithModel
  <2>3. /\ counts \in [Models -> Amount]
        /\ \A m \in Models, x \in Parts :
             counts[m][x] = IF m = model THEN amount[x] ELSE 0
    BY <1>0
  <2> HIDE DEF counts
  <2>4. /\ heap' \in Seq([Models -> Amount]) /\ Len(heap') = Len(heap) + 1
        /\ heap'[Len(heap) + 1] = counts
        /\ \A q \in 1 .. Len(heap) : heap'[q] = heap[q]
    BY <2>1, <2>3
  <2>5. /\ DOMAIN usage' = DOMAIN usage \cup {k}
        /\ usage'[k].models = Len(heap) + 1 /\ usage'[k] \in Entries
        /\ \A j \in DOMAIN usage : j # k /\ usage'[j] = usage[j]
    BY <1>2, <2>2
  <2>6. ASSUME NEW j \in Keys, NEW m \in Models, NEW x \in Parts
        PROVE  In(usage, j, m, x)' = In(usage, j, m, x) + Gain(k, model, amount, j, m, x)
    <3>1. CASE j = k
      <4>1. heap'[usage'[k].models] = counts
        BY <2>4, <2>5
      <4>2. In(usage, j, m, x)' = counts[m][x] /\ In(usage, j, m, x) = 0
        BY <1>2, <2>5, <3>1, <4>1 DEF In
      <4>3. amount[x] \in Int
        BY <1>0
      <4> QED
        BY <2>3, <3>1, <4>2, <4>3 DEF Gain
    <3>2. CASE j # k /\ j \in DOMAIN usage
      <4>1. usage[j].models \in 1 .. Len(heap)
        BY <3>2
      <4>2. heap'[usage'[j].models] = heap[usage[j].models]
        BY <2>4, <2>5, <3>2, <4>1
      <4>3. heap[usage[j].models][m][x] \in Int
        BY <1>0, <1>00, <4>1
      <4> QED
        BY <2>5, <3>2, <4>2, <4>3 DEF In, Gain
    <3>3. CASE j # k /\ j \notin DOMAIN usage
      BY <2>5, <3>3 DEF In, Gain
    <3> QED
      BY <3>1, <3>2, <3>3
  <2>7. \A j \in DOMAIN batch : heap'[batch[j].models] = heap[batch[j].models]
    BY <2>4
  <2>8. UsageOK(usage)'
    BY <2>4, <2>5
  <2> QED
    BY <2>4, <2>5, <2>6, <2>7, <2>8 DEF Unshared
<1> QED
  BY <1>1, <1>2

\* What keeps the tallies as they are keeps what is known of them.
LEMMA TalliesKept ==
  ASSUME TalliesInv, UNCHANGED <<tally, served>>
  PROVE  TalliesInv'
BY DEF TalliesInv, TalliesOK, UsageOK, Unshared, EveryTokenOnce, In, tally

\* The handler's last step puts in the accumulator what it adds to the history.
LEMMA RecordKeeps ==
  ASSUME StagesOK, TalliesInv, NEW h \in Handlers, Record(h)
  PROVE  TalliesInv'
<1> DEFINE k == request[h].key
           model == request[h].model
           amount == tokens[h]
           due == Due(amount)
<1>1. k \in Keys /\ model \in Models \cup {Unknown} /\ amount \in Amount
  BY DEF StagesOK
<1>2. CASE model = Unknown
  BY <1>2, TalliesKept DEF Record, tally
<1>3. CASE model # Unknown
  <2>1. /\ served' = [served EXCEPT ![k] = AddTo(@, model, due)]
        /\ UNCHANGED <<batch, reported>>
        /\ Billable(h) => RecordUsageWithModel(k, model, amount)
        /\ ~Billable(h) => UNCHANGED <<usage, heap>>
    BY <1>3 DEF Record
  <2>2. model \in Models
    BY <1>1, <1>3
  <2>3. /\ \A a, b \in Amount : Plus(a, b) \in Amount
        /\ \A a, b \in Amount, x \in Parts : Plus(a, b)[x] = a[x] + b[x]
        /\ \A a \in Amount, x \in Parts : a[x] \in Int
    <3>1. \A a \in Amount, x \in Parts : a[x] \in Int
      BY DEF Amount
    <3>2. \A a, b \in Amount, x \in Parts : Plus(a, b)[x] = a[x] + b[x]
      BY DEF Plus
    <3> QED
      BY <3>1, <3>2, AmountType
  <2>20. due \in Amount
    BY <1>1, AmountType
  <2> HIDE DEF k, model, amount, due
  <2>4. /\ served' \in [Keys -> [Models -> Amount]]
        /\ \A j \in Keys, m \in Models, x \in Parts :
             served'[j][m][x] = served[j][m][x] + Gain(k, model, due, j, m, x)
    <3> DEFINE new == AddTo(served[k], model, due)
    <3>1. served \in [Keys -> [Models -> Amount]]
      BY DEF TalliesInv, TalliesOK
    <3>2. /\ new \in [Models -> Amount]
          /\ \A m \in Models, x \in Parts :
               new[m][x] = served[k][m][x] + (IF m = model THEN due[x] ELSE 0)
      <4>1. served[k] \in [Models -> Amount]
        BY <1>1, <3>1
      <4>2. \A models \in [Models -> Amount] :
              /\ AddTo(models, model, due) \in [Models -> Amount]
              /\ \A m \in Models, x \in Parts :
                   AddTo(models, model, due)[m][x]
                     = models[m][x] + (IF m = model THEN due[x] ELSE 0)
        BY <2>2, <2>20, AddedTo
      <4> QED
        BY <4>1, <4>2, Zenon
    <3>3. served' = [served EXCEPT ![k] = new]
      BY <2>1
    <3> HIDE DEF new
    <3>4. served' \in [Keys -> [Models -> Amount]]
      BY <3>1, <3>2, <3>3
    <3>5. ASSUME NEW j \in Keys, NEW m \in Models, NEW x \in Parts
          PROVE  served'[j][m][x] = served[j][m][x] + Gain(k, model, due, j, m, x)
      <4>1. CASE j = k
        BY <3>1, <3>2, <3>3, <4>1 DEF Gain
      <4>2. CASE j # k
        <5>1. served'[j] = served[j] /\ served[j][m][x] \in Int
          BY <2>3, <3>1, <3>3, <4>2
        <5> QED
          BY <4>2, <5>1 DEF Gain
      <4> QED
        BY <4>1, <4>2
    <3> QED
      BY <3>4, <3>5
  <2>5. CASE Billable(h)
    <3>a. due = amount
      BY <1>1, <2>5, AmountType DEF Billable, Due, due, amount
    <3>0. /\ heap' \in Seq([Models -> Amount])
          /\ Len(heap) <= Len(heap')
          /\ UsageOK(usage)'
          /\ \A j \in Keys, m \in Models, x \in Parts :
               In(usage, j, m, x)' = In(usage, j, m, x) + Gain(k, model, amount, j, m, x)
          /\ \A j \in DOMAIN batch : heap'[batch[j].models] = heap[batch[j].models]
          /\ \A i, j \in DOMAIN usage' : i # j => usage'[i].models # usage'[j].models
          /\ \A i \in DOMAIN usage', j \in DOMAIN batch : usage'[i].models # batch[j].models
      BY <1>1, <2>1, <2>2, <2>5, Recorded DEF TalliesInv
    <3>1. TalliesOK'
      BY <2>1, <2>4, <3>0 DEF TalliesInv, TalliesOK, UsageOK, Entries
    <3>2. Unshared'
      BY <2>1, <3>0 DEF TalliesInv, Unshared
    <3>3. ASSUME NEW j \in Keys, NEW m \in Models, NEW x \in {"input", "output"}
          PROVE  served'[j][m][x]
                   = In(usage, j, m, x)' + In(batch, j, m, x)' + reported'[j][m][x]
      <4>1. x \in Parts
        BY DEF Parts
      <4>2. In(batch, j, m, x)' = In(batch, j, m, x)
        BY <2>1, <3>0 DEF In
      <4>3. served[j][m][x] = In(usage, j, m, x) + In(batch, j, m, x) + reported[j][m][x]
        BY DEF TalliesInv, EveryTokenOnce
      <4>4. /\ In(usage, j, m, x) \in Int /\ In(batch, j, m, x) \in Int
            /\ reported[j][m][x] \in Int /\ Gain(k, model, amount, j, m, x) \in Int
        <5>1. In(usage, j, m, x) \in Int /\ In(batch, j, m, x) \in Int
          BY <4>1, InType DEF TalliesInv
        <5>2. reported[j][m][x] \in Int
          BY <2>3, <4>1 DEF TalliesInv, TalliesOK
        <5>3. Gain(k, model, amount, j, m, x) \in Int
          BY <1>1, <2>3, <4>1 DEF Gain
        <5> QED
          BY <5>1, <5>2, <5>3
      <4>5. /\ served'[j][m][x] = served[j][m][x] + Gain(k, model, amount, j, m, x)
            /\ In(usage, j, m, x)' = In(usage, j, m, x) + Gain(k, model, amount, j, m, x)
            /\ reported' = reported
        BY <2>1, <2>4, <3>a, <3>0, <4>1
      <4> QED
        BY <4>2, <4>3, <4>4, <4>5
    <3> QED
      BY <3>1, <3>2, <3>3 DEF TalliesInv, EveryTokenOnce
  <2>6. CASE ~Billable(h)
    <3>1. due["input"] = 0 /\ due["output"] = 0
      BY <1>1, <2>6, AmountType DEF Billable, Due, Zero, Parts, due, amount
    <3>2. \A j \in Keys, m \in Models, x \in {"input", "output"} :
            served'[j][m][x] = served[j][m][x]
      <4> SUFFICES ASSUME NEW j \in Keys, NEW m \in Models, NEW x \in {"input", "output"}
                   PROVE  served'[j][m][x] = served[j][m][x]
        OBVIOUS
      <4>1. x \in Parts /\ Gain(k, model, due, j, m, x) = 0
        BY <3>1 DEF Parts, Gain
      <4>2. served[j][m][x] \in Int
        BY <2>3, <4>1 DEF TalliesInv, TalliesOK
      <4> QED
        BY <2>4, <4>1, <4>2
    <3>3. UNCHANGED <<usage, heap, batch, reported>>
      BY <2>1, <2>6
    <3> QED
      BY <2>4, <3>2, <3>3 DEF TalliesInv, TalliesOK, UsageOK, Unshared, EveryTokenOnce, In
  <2> QED
    BY <2>5, <2>6
<1> QED
  BY <1>2, <1>3

\* A flush hands the references over; building the records reads through them.
LEMMA FlushKeeps ==
  ASSUME TalliesInv, FlushUsage
  PROVE  TalliesInv'
<1>1. /\ batch' = usage /\ DOMAIN usage' = {} /\ DOMAIN batch = {}
      /\ UNCHANGED <<heap, reported, served>>
  BY DEF FlushUsage, NoUsage
<1>2. TalliesOK'
  BY <1>1 DEF TalliesInv, TalliesOK, UsageOK
<1>3. Unshared'
  BY <1>1 DEF TalliesInv, Unshared
<1>4. ASSUME NEW j \in Keys, NEW m \in Models, NEW x \in {"input", "output"}
      PROVE  served'[j][m][x]
               = In(usage, j, m, x)' + In(batch, j, m, x)' + reported'[j][m][x]
  <2>1. /\ In(batch, j, m, x)' = In(usage, j, m, x)
        /\ In(usage, j, m, x)' = 0 /\ In(batch, j, m, x) = 0
    BY <1>1 DEF In
  <2>2. In(usage, j, m, x) \in Int
    BY InType DEF TalliesInv, Parts
  <2>3. served[j][m][x] = In(usage, j, m, x) + In(batch, j, m, x) + reported[j][m][x]
    BY DEF TalliesInv, EveryTokenOnce
  <2> QED
    BY <1>1, <2>1, <2>2, <2>3
<1> QED
  BY <1>2, <1>3, <1>4 DEF TalliesInv, EveryTokenOnce

LEMMA BuildKeeps ==
  ASSUME TalliesInv, BuildRecords
  PROVE  TalliesInv'
<1> DEFINE new(k, m) == IF k \in DOMAIN batch
                          THEN Plus(reported[k][m], heap[batch[k].models][m])
                          ELSE reported[k][m]
<1>1. /\ DOMAIN batch' = {} /\ UNCHANGED <<usage, heap, served>>
      /\ reported' = [k \in Keys |-> [m \in Models |-> new(k, m)]]
  BY DEF BuildRecords, NoUsage
<1>2. \A k \in Keys, m \in Models :
        /\ reported[k][m] \in Amount
        /\ k \in DOMAIN batch => heap[batch[k].models][m] \in Amount
  BY DEF TalliesInv, TalliesOK, UsageOK, Entries
<1>3. \A k \in Keys, m \in Models : new(k, m) \in Amount
  BY <1>2, AmountType
<1>4. \A k \in Keys, m \in Models, x \in Parts :
        new(k, m)[x] = reported[k][m][x] + In(batch, k, m, x)
  <2> SUFFICES ASSUME NEW k \in Keys, NEW m \in Models, NEW x \in Parts
               PROVE  new(k, m)[x] = reported[k][m][x] + In(batch, k, m, x)
    OBVIOUS
  <2>1. CASE k \in DOMAIN batch
    BY <2>1 DEF In, Plus
  <2>2. CASE k \notin DOMAIN batch
    <3>1. reported[k][m][x] \in Int
      BY <1>2 DEF Amount
    <3> QED
      BY <2>2, <3>1 DEF In
  <2> QED
    BY <2>1, <2>2
<1> HIDE DEF new
<1>5. TalliesOK'
  BY <1>1, <1>3 DEF TalliesInv, TalliesOK, UsageOK
<1>6. Unshared'
  BY <1>1 DEF TalliesInv, Unshared
<1>7. ASSUME NEW j \in Keys, NEW m \in Models, NEW x \in {"input", "output"}
      PROVE  served'[j][m][x]
               = In(usage, j, m, x)' + In(batch, j, m, x)' + reported'[j][m][x]
  <2>0. x \in Parts
    BY DEF Parts
  <2>1. /\ In(usage, j, m, x)' = In(usage, j, m, x) /\ In(batch, j, m, x)' = 0
        /\ reported'[j][m][x] = reported[j][m][x] + In(batch, j, m, x)
    BY <1>1, <1>4, <2>0 DEF In
  <2>2. /\ In(usage, j, m, x) \in Int /\ In(batch, j, m, x) \in Int
        /\ reported[j][m][x] \in Int
    BY <1>2, <2>0, InType DEF TalliesInv, Amount
  <2>3. served[j][m][x] = In(usage, j, m, x) + In(batch, j, m, x) + reported[j][m][x]
    BY DEF TalliesInv, EveryTokenOnce
  <2> QED
    BY <1>1, <2>1, <2>2, <2>3
<1> QED
  BY <1>5, <1>6, <1>7 DEF TalliesInv, EveryTokenOnce

\* What every reachable state satisfies.
MeterInv == CacheInv /\ StagesOK /\ TalliesInv

LEMMA MeterStarts == Init => MeterInv
<1> SUFFICES ASSUME Init PROVE MeterInv
  OBVIOUS
<1>1. CacheInv
  BY CacheStarts DEF Init
<1>2. StagesOK
  <2>1. Zero["input"] = 0
    BY DEF Zero, Parts
  <2> QED
    BY <2>1, AmountType DEF Init, StagesOK, Stages
<1>3. /\ DOMAIN usage = {} /\ DOMAIN batch = {} /\ heap = <<>>
      /\ reported = [k \in Keys |-> NoModels] /\ served = reported
  BY DEF Init, NoUsage
<1>4. TalliesOK
  BY <1>3, AmountType DEF TalliesOK, UsageOK
<1>5. Unshared
  BY <1>3 DEF Unshared
<1>6. EveryTokenOnce
  BY <1>3 DEF EveryTokenOnce, In, NoModels, Zero, Parts
<1> QED
  BY <1>1, <1>2, <1>4, <1>5, <1>6 DEF MeterInv, TalliesInv

LEMMA TalliesStep ==
  ASSUME StagesOK, TalliesInv, [Next]_vars
  PROVE  TalliesInv'
<1>1. CASE \/ UNCHANGED vars
           \/ \E c \in Callers : Background(c) \/ Tokenize(c) \/ Acquire(c)
  BY <1>1, TalliesKept DEF vars, meterVars, tally, Background, Tokenize, Acquire
<1>2. ASSUME NEW h \in Handlers,
             \/ \E k \in Keys, m \in Models \cup {Unknown}, empty \in BOOLEAN :
                  Arrive(h, k, m, empty)
             \/ Forward(h) \/ CountOutput(h) \/ Fail(h)
             \/ \E m \in Models \cup {Unknown} :
                  \/ \E u \in Usages : AnswerWithUsage(h, m, u)
                  \/ \E empty \in BOOLEAN : AnswerWithText(h, m, empty)
      PROVE  TalliesInv'
  <2>1. UNCHANGED <<tally, served>>
    BY <1>2 DEF Arrive, Forward, CountOutput, Fail, AnswerWithUsage, AnswerWithText
  <2> QED
    BY <2>1, TalliesKept
<1>3. ASSUME NEW h \in Handlers, Record(h) PROVE TalliesInv'
  BY <1>3, RecordKeeps
<1>4. CASE FlushUsage \/ BuildRecords
  BY <1>4, FlushKeeps, BuildKeeps
<1> QED
  BY <1>1, <1>2, <1>3, <1>4 DEF Next, Serve

LEMMA MeterInvHolds == Spec => []MeterInv
<1>1. MeterInv /\ [Next]_vars => MeterInv'
  BY MeterStepIsCacheStep, CacheInvStep, StagesStep, TalliesStep DEF MeterInv
<1> QED
  BY <1>1, MeterStarts, PTL DEF Spec

\* Whatever counts backends report, cached beyond the prompt or not: every variable keeps
\* its type, and an input below zero is made up for by the cached tokens beside it.
THEOREM TokensTyped == Spec => []TypeOK
<1>1. MeterInv => TypeOK
  BY DEF MeterInv, CacheInv, StagesOK, TalliesInv, TalliesOK, TypeOK
<1> QED
  BY <1>1, MeterInvHolds, PTL

\* Whatever the number of requests, keys and models: every token counted is in one
\* place, in the accumulator, in the batch or in the records.
THEOREM TokensKept == Spec => []EveryTokenOnce
<1>1. MeterInv => EveryTokenOnce
  BY DEF MeterInv, TalliesInv
<1> QED
  BY <1>1, MeterInvHolds, PTL

----------------------------------------------------------------------------
\* The totals.

\* A total counts the tokens in the map of its key.  The set of models need not be
\* finite: only what was recorded is.
Total(entry) ==
  \A x \in Parts : LET units == Units(heap[entry.models], x)
                   IN  IsFiniteSet(units) /\ Size(entry.total, x) = Cardinality(units)

Totals == /\ \A k \in DOMAIN usage : Total(usage[k])
          /\ \A k \in DOMAIN batch : Total(batch[k])

\* The size of an amount counts something.
LEMMA SizeType == \A a \in Amount, x \in Parts : Size(a, x) \in Nat
BY DEF Size, Amount, Parts

\* The tokens of an amount added to one model come on top of those that were there.
LEMMA UnitsAdded ==
  ASSUME NEW models \in [Models -> Amount], NEW model \in Models, NEW amount \in Amount,
         NEW x \in Parts, IsFiniteSet(Units(models, x))
  PROVE  LET units == Units(AddTo(models, model, amount), x)
         IN  /\ IsFiniteSet(units)
             /\ Cardinality(units) = Cardinality(Units(models, x)) + Size(amount, x)
<1> DEFINE old == Units(models, x)
           units == Units(AddTo(models, model, amount), x)
           c == Size(models[model], x)
           a == Size(amount, x)
           new == {model} \X ((c + 1) .. (c + a))
<1>1. c \in Nat /\ a \in Nat
  BY SizeType
<1>2. \A m \in Models :
        Size(AddTo(models, model, amount)[m], x)
          = Size(models[m], x) + (IF m = model THEN a ELSE 0)
  <2>1. ASSUME NEW m \in Models, NEW y \in Parts
        PROVE  /\ models[m][y] \in Int /\ amount[y] \in Int
               /\ AddTo(models, model, amount)[m][y]
                    = models[m][y] + (IF m = model THEN amount[y] ELSE 0)
    <3>1. models[m] \in Amount
      OBVIOUS
    <3>2. models[m][y] \in Int /\ amount[y] \in Int
      BY <3>1 DEF Amount
    <3> QED
      BY <3>2, AddedTo
  <2> QED
    BY <2>1 DEF Size, Parts
<1>3. \A m \in Models : Size(models[m], x) \in Nat
  BY SizeType
<1>4. units = old \cup new
  <2>1. ASSUME NEW m \in Models
        PROVE  {m} \X (1 .. Size(AddTo(models, model, amount)[m], x))
                 = ({m} \X (1 .. Size(models[m], x))) \cup (IF m = model THEN new ELSE {})
    <3>1. CASE m = model
      <4>1. 1 .. (c + a) = (1 .. c) \cup ((c + 1) .. (c + a))
        BY <1>1
      <4>2. Size(AddTo(models, model, amount)[m], x) = c + a
        BY <1>2, <3>1
      <4> HIDE DEF c, a
      <4> QED
        BY <3>1, <4>1, <4>2 DEF c
    <3>2. CASE m # model
      <4>1. Size(AddTo(models, model, amount)[m], x) = Size(models[m], x)
        BY <1>2, <1>3, <3>2
      <4> QED
        BY <3>2, <4>1
    <3> QED
      BY <3>1, <3>2
  <2> HIDE DEF new
  <2> QED
    BY <2>1 DEF Units
<1>5. old \cap new = {}
  <2> SUFFICES ASSUME NEW u \in old, u \in new PROVE FALSE
    OBVIOUS
  <2>1. PICK m \in Models : u \in {m} \X (1 .. Size(models[m], x))
    BY DEF Units
  <2>2. u[1] = m /\ u[2] \in 1 .. Size(models[m], x) /\ u[1] = model /\ u[2] \in (c + 1) .. (c + a)
    BY <2>1
  <2> QED
    BY <1>1, <2>2
<1>6. IsFiniteSet(new) /\ Cardinality(new) = a
  <2>1. /\ IsFiniteSet((c + 1) .. (c + a))
        /\ Cardinality((c + 1) .. (c + a)) = a
    <3>1. c + 1 \in Int /\ c + a \in Int
      BY <1>1
    <3>2. /\ IsFiniteSet((c + 1) .. (c + a))
          /\ Cardinality((c + 1) .. (c + a))
               = IF c + 1 > c + a THEN 0 ELSE (c + a) - (c + 1) + 1
      BY <3>1, FS_Interval
    <3> HIDE DEF c, a
    <3> QED
      BY <1>1, <3>2
  <2>2. IsFiniteSet({model}) /\ Cardinality({model}) = 1
    BY FS_Singleton
  <2> HIDE DEF c, a
  <2>3. IsFiniteSet(new) /\ Cardinality(new) = 1 * a
    BY <2>1, <2>2, FS_Product
  <2> QED
    BY <1>1, <2>3
<1>7. Cardinality(old) \in Nat
  BY FS_CardinalityType
<1> HIDE DEF old, new, a
<1>8. IsFiniteSet(old)
  BY DEF old
<1>9. /\ IsFiniteSet(old \cup new)
      /\ Cardinality(old \cup new) = Cardinality(old) + a - Cardinality({})
  BY <1>5, <1>6, <1>8, FS_Union
<1>10. Cardinality({}) = 0
  BY FS_EmptySet
<1> QED
  BY <1>1, <1>4, <1>7, <1>9, <1>10 DEF old, a

\* A map of no tokens has none.
LEMMA NoUnits ==
  ASSUME NEW x \in Parts
  PROVE  IsFiniteSet(Units(NoModels, x)) /\ Cardinality(Units(NoModels, x)) = 0
<1>1. Units(NoModels, x) = {}
  BY DEF Units, NoModels, Zero, Size, Parts
<1> QED
  BY <1>1, FS_EmptySet

\* A record keeps the total of its key, and writes to the map of no other.
LEMMA RecordKeepsTotals ==
  ASSUME TalliesOK, Unshared, Totals,
         NEW k \in Keys, NEW model \in Models, NEW amount \in Amount,
         RecordUsageWithModel(k, model, amount), UNCHANGED batch
  PROVE  Totals'
<1> USE DEF TalliesOK, UsageOK, Entries
<1>1. \A r \in 1 .. Len(heap) : heap[r] \in [Models -> Amount]
  OBVIOUS
<1>2. \A a, b \in Amount, x \in Parts : Size(Plus(a, b), x) = Size(a, x) + Size(b, x)
  BY DEF Plus, Size, Amount, Parts
<1>3. ASSUME NEW entry \in Entries, entry.models <= Len(heap), Total(entry),
             heap'[entry.models] = heap[entry.models]
      PROVE  Total(entry)'
  BY <1>3 DEF Total
<1>4. CASE k \in DOMAIN usage
  <2> DEFINE r == usage[k].models
             counts == AddTo(heap[r], model, amount)
  <2>1. r \in 1 .. Len(heap) /\ usage[k].total \in Amount
    BY <1>4
  <2>2. heap' = [heap EXCEPT ![r] = counts]
    BY <1>4 DEF RecordUsageWithModel
  <2>3. usage' = [usage EXCEPT ![k].total = Plus(@, amount)]
    BY <1>4 DEF RecordUsageWithModel
  <2>4. /\ DOMAIN usage' = DOMAIN usage
        /\ usage'[k].models = r /\ usage'[k].total = Plus(usage[k].total, amount)
        /\ \A j \in DOMAIN usage : j # k => usage'[j] = usage[j]
    BY <1>4, <2>1, <2>3
  <2>5. /\ heap'[r] = counts
        /\ \A q \in 1 .. Len(heap) : q # r => heap'[q] = heap[q]
    BY <2>1, <2>2
  <2>6. ASSUME NEW x \in Parts
        PROVE  LET units == Units(counts, x)
               IN  IsFiniteSet(units) /\ Size(usage'[k].total, x) = Cardinality(units)
    <3>1. /\ IsFiniteSet(Units(heap[r], x))
          /\ Size(usage[k].total, x) = Cardinality(Units(heap[r], x))
      BY <1>4 DEF Totals, Total
    <3>2. heap[r] \in [Models -> Amount]
      BY <1>1, <2>1, Zenon
    <3>3. /\ IsFiniteSet(Units(counts, x))
          /\ Cardinality(Units(counts, x)) = Cardinality(Units(heap[r], x)) + Size(amount, x)
      <4> HIDE DEF r
      <4>1. \A models \in [Models -> Amount] : IsFiniteSet(Units(models, x)) =>
              /\ IsFiniteSet(Units(AddTo(models, model, amount), x))
              /\ Cardinality(Units(AddTo(models, model, amount), x))
                   = Cardinality(Units(models, x)) + Size(amount, x)
        BY UnitsAdded
      <4> QED
        BY <3>1, <3>2, <4>1, Zenon
    <3> HIDE DEF counts, r
    <3> QED
      BY <1>2, <2>1, <2>4, <3>1, <3>3
  <2> HIDE DEF counts
  <2>7. Total(usage[k])'
    BY <2>4, <2>5, <2>6 DEF Total
  <2>8. ASSUME NEW j \in DOMAIN usage, j # k PROVE Total(usage[j])'
    <3>1. usage[j] \in Entries /\ usage[j].models <= Len(heap) /\ usage[j].models # r
      BY <1>4, <2>8 DEF Unshared
    <3>2. heap'[usage[j].models] = heap[usage[j].models]
      BY <2>5, <3>1
    <3>3. Total(usage[j])
      BY DEF Totals
    <3> QED
      BY <1>3, <2>4, <2>8, <3>1, <3>2, <3>3 DEF Total
  <2>9. ASSUME NEW j \in DOMAIN batch PROVE Total(batch[j])'
    <3>1. batch[j] \in Entries /\ batch[j].models <= Len(heap) /\ batch[j].models # r
      BY <1>4, <2>9 DEF Unshared
    <3>2. heap'[batch[j].models] = heap[batch[j].models]
      BY <2>5, <3>1
    <3>3. Total(batch[j])
      BY DEF Totals
    <3> QED
      BY <1>3, <3>1, <3>2, <3>3 DEF Total
  <2> QED
    BY <2>4, <2>7, <2>8, <2>9 DEF Totals
<1>5. CASE k \notin DOMAIN usage
  <2> DEFINE counts == [NoModels EXCEPT ![model] = amount]
  <2>1. heap' = Append(heap, counts)
    BY <1>5 DEF RecordUsageWithModel
  <2>2. usage' = [j \in DOMAIN usage \cup {k} |->
                    IF j = k THEN [total |-> amount, models |-> Len(heap) + 1] ELSE usage[j]]
    BY <1>5 DEF RecordUsageWithModel
  <2>3. counts = AddTo(NoModels, model, amount)
    <3>1. Plus(Zero, amount) = amount
      BY DEF Plus, Zero, Amount
    <3>2. NoModels[model] = Zero
      BY DEF NoModels
    <3> QED
      BY <3>1, <3>2 DEF AddTo
  <2> HIDE DEF counts
  <2>4. /\ heap'[Len(heap) + 1] = counts
        /\ \A q \in 1 .. Len(heap) : heap'[q] = heap[q]
    BY <2>1
  <2>5. /\ DOMAIN usage' = DOMAIN usage \cup {k}
        /\ usage'[k] = [total |-> amount, models |-> Len(heap) + 1]
        /\ \A j \in DOMAIN usage : j # k /\ usage'[j] = usage[j]
    BY <1>5, <2>2
  <2>6. ASSUME NEW x \in Parts
        PROVE  LET units == Units(counts, x)
               IN  IsFiniteSet(units) /\ Size(amount, x) = Cardinality(units)
    <3>1. Size(amount, x) \in Nat
      BY SizeType
    <3>2. NoModels \in [Models -> Amount]
      BY AmountType
    <3>3. /\ IsFiniteSet(Units(counts, x))
          /\ Cardinality(Units(counts, x)) = Cardinality(Units(NoModels, x)) + Size(amount, x)
      BY <2>3, <3>2, NoUnits, UnitsAdded
    <3> QED
      BY <3>1, <3>3, NoUnits
  <2>7. Total(usage[k])'
    BY <2>4, <2>5, <2>6 DEF Total
  <2>8. ASSUME NEW j \in DOMAIN usage PROVE Total(usage[j])'
    <3>1. usage[j] \in Entries /\ usage[j].models <= Len(heap) /\ Total(usage[j])
      BY DEF Totals
    <3>2. heap'[usage[j].models] = heap[usage[j].models]
      BY <2>4, <3>1
    <3> QED
      BY <1>3, <2>5, <3>1, <3>2 DEF Total
  <2>9. ASSUME NEW j \in DOMAIN batch PROVE Total(batch[j])'
    <3>1. batch[j] \in Entries /\ batch[j].models <= Len(heap) /\ Total(batch[j])
      BY DEF Totals
    <3>2. heap'[batch[j].models] = heap[batch[j].models]
      BY <2>4, <3>1
    <3> QED
      BY <1>3, <3>1, <3>2 DEF Total
  <2> QED
    BY <2>5, <2>7, <2>8, <2>9 DEF Totals
<1> QED
  BY <1>4, <1>5

\* Every step keeps the totals: only a record writes to a map, and a flush hands over
\* the tallies with the maps they refer to.
LEMMA TotalsStep ==
  ASSUME MeterInv, Totals, [Next]_vars
  PROVE  Totals'
<1>1. CASE UNCHANGED <<usage, heap, batch>>
  BY <1>1 DEF Totals, Total
<1>2. ASSUME NEW h \in Handlers, Record(h) PROVE Totals'
  <2>1. \/ UNCHANGED <<usage, heap, batch>>
        \/ /\ request[h].model # Unknown /\ UNCHANGED batch
           /\ RecordUsageWithModel(request[h].key, request[h].model, tokens[h])
    BY <1>2 DEF Record
  <2>2. /\ request[h].key \in Keys /\ request[h].model \in Models \cup {Unknown}
        /\ tokens[h] \in Amount
    BY DEF MeterInv, StagesOK
  <2> QED
    BY <1>1, <2>1, <2>2, RecordKeepsTotals DEF MeterInv, TalliesInv
<1>3. CASE FlushUsage \/ BuildRecords
  BY <1>3 DEF FlushUsage, BuildRecords, NoUsage, Totals, Total
<1>4. \/ UNCHANGED <<usage, heap, batch>> \/ FlushUsage \/ BuildRecords
      \/ \E h \in Handlers : Record(h)
  BY DEF Next, vars, meterVars, tally, Background, Tokenize, Acquire, Serve, Arrive,
         Forward, CountOutput, Fail, AnswerWithUsage, AnswerWithText
<1> QED
  BY <1>1, <1>2, <1>3, <1>4

\* However many keys, models and requests: the totals that are reported are the sums of
\* what is reported per model, though a flush copies the totals and not the maps.
THEOREM TotalsAgree == Spec => []TalliesAgree
<1>1. Init => Totals
  BY DEF Init, NoUsage, Totals
<1>2. Totals => TalliesAgree
  BY DEF Totals, Total, TalliesAgree
<1> QED
  BY <1>1, <1>2, MeterInvHolds, TotalsStep, PTL DEF Spec
============================================================================
