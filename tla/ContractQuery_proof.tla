------------------------ MODULE ContractQuery_proof ------------------------
\* Theorems about ContractQuery and their proofs.
EXTENDS ContractQuery, FiniteSetTheorems, TLAPS

USE CallsAssumption, BoundsAssumption

\* Every variable keeps its type, whatever the step.
LEMMA TypeStep ==
  ASSUME TypeOK, [Next]_vars
  PROVE  TypeOK'
<1> USE DEF TypeOK, PCs, Outcomes, Goto, End, disk, failures
<1>1. CASE UNCHANGED vars
  BY <1>1 DEF vars
<1>2. ASSUME NEW q \in Calls, Begin(q) PROVE TypeOK'
  <2>1. Settled \in BOOLEAN
    BY DEF Settled, Creating
  <2> QED
    BY <1>2, <2>1 DEF Begin
<1>3. ASSUME NEW q \in Calls, FetchCodeHash(q) \/ NetworkFails(q) PROVE TypeOK'
  BY <1>3 DEF FetchCodeHash, NetworkFails
<1>4. ASSUME NEW q \in Calls, GeneratePair(q) PROVE TypeOK'
  BY <1>4 DEF GeneratePair
<1>5. ASSUME NEW q \in Calls, TruncateFile(q) PROVE TypeOK'
  BY <1>5 DEF TruncateFile, DiskFault
<1>6. ASSUME NEW q \in Calls, WriteFile(q) PROVE TypeOK'
  BY <1>6 DEF WriteFile, DiskFault
<1>7. ASSUME NEW q \in Calls, FindFile(q) \/ ReadFile(q) PROVE TypeOK'
  BY <1>7 DEF FindFile, ReadFile, DiskFault
<1>8. ASSUME NEW q \in Calls, Encrypt(q) \/ Send(q) \/ Decrypt(q) PROVE TypeOK'
  BY <1>8 DEF Encrypt, Send, Decrypt
<1>9. ASSUME NEW q \in Calls, Finish(q) PROVE TypeOK'
  BY <1>9 DEF Finish
<1>10. CASE Crash
  BY <1>10 DEF Crash
<1> QED
  BY <1>1, <1>2, <1>3, <1>4, <1>5, <1>6, <1>7, <1>8, <1>9, <1>10 DEF Next, Step

\* Every variable keeps its type.
THEOREM Typing == Spec => []TypeOK
<1>1. Init => TypeOK
  BY DEF Init, TypeOK, PCs, Outcomes
<1> QED
  BY <1>1, TypeStep, PTL DEF Spec

----------------------------------------------------------------------------
\* Calm queries.

\* A query that began in calm finds the pair unchanged wherever it stands, and
\* what it has in hand is that pair.
CalmCall(q) ==
  /\ calm[q] =>
       /\ Settled
       /\ pc[q] = "derive" => held[q] = pair
       /\ sealed[q] # 0 => sealed[q] = pair
       /\ outcome[q] \notin {"garbled", "nopair"}
  /\ pc[q] = "idle" => sealed[q] = 0 /\ outcome[q] = "none"

CalmInv == \A q \in Calls : CalmCall(q)

\* While a pair is on disk and nobody makes one, nobody begins to, and the pair
\* stays: a step of one query leaves the calm of all others alone.
LEMMA SettledStep ==
  ASSUME TypeOK, Settled, [Next]_vars
  PROVE  Settled' /\ pair' = pair
<1> USE DEF TypeOK, Settled, Creating, Goto, End, disk
<1>1. CASE UNCHANGED vars
  BY <1>1 DEF vars
<1>2. ASSUME NEW q \in Calls, Begin(q) \/ FetchCodeHash(q) \/ NetworkFails(q)
      PROVE  Settled' /\ pair' = pair
  BY <1>2 DEF Begin, FetchCodeHash, NetworkFails
<1>3. ASSUME NEW q \in Calls, GeneratePair(q) \/ TruncateFile(q) \/ WriteFile(q)
      PROVE  FALSE
  BY <1>3 DEF GeneratePair, TruncateFile, WriteFile
<1>4. ASSUME NEW q \in Calls, FindFile(q) \/ ReadFile(q)
      PROVE  Settled' /\ pair' = pair
  BY <1>4 DEF FindFile, ReadFile
<1>5. ASSUME NEW q \in Calls, Encrypt(q) \/ Send(q) \/ Decrypt(q) \/ Finish(q)
      PROVE  Settled' /\ pair' = pair
  BY <1>5 DEF Encrypt, Send, Decrypt, Finish
<1>6. CASE Crash
  BY <1>6 DEF Crash
<1> QED
  BY <1>1, <1>2, <1>3, <1>4, <1>5, <1>6 DEF Next, Step

\* A step that leaves a call alone keeps it calm.
LEMMA CalmFrame ==
  ASSUME TypeOK, [Next]_vars, NEW q \in Calls, CalmCall(q),
         pc'[q] = pc[q], held'[q] = held[q], sealed'[q] = sealed[q],
         outcome'[q] = outcome[q], calm'[q] = calm[q]
  PROVE  CalmCall(q)'
  BY SettledStep DEF CalmCall

\* A calm call's own step keeps it safe.
LEMMA CalmOwn ==
  ASSUME TypeOK, NEW q \in Calls, CalmCall(q), Begin(q) \/ Step(q)
  PROVE  CalmCall(q)'
<1>0. calm[q] => Settled' /\ pair' = pair
  BY SettledStep DEF CalmCall, Next
<1> USE DEF TypeOK, CalmCall, Goto, End, disk
<1>1. CASE Begin(q)
  <2>1. calm'[q] = Settled /\ pc'[q] = "hash" /\ sealed'[q] = 0 /\ outcome'[q] = "none"
    BY <1>1 DEF Begin
  <2>2. Settled => Settled'
    BY <1>1, SettledStep DEF Next
  <2> QED
    BY <2>1, <2>2
<1>2. CASE FetchCodeHash(q) \/ NetworkFails(q)
  BY <1>0, <1>2 DEF FetchCodeHash, NetworkFails
<1>3. CASE GeneratePair(q) \/ TruncateFile(q) \/ WriteFile(q)
  <2>1. ~calm[q]
    BY <1>3 DEF Settled, Creating, GeneratePair, TruncateFile, WriteFile
  <2> QED
    BY <1>3, <2>1 DEF GeneratePair, TruncateFile, WriteFile
<1>4. CASE FindFile(q)
  BY <1>0, <1>4 DEF FindFile
<1>5. CASE ReadFile(q)
  BY <1>0, <1>5 DEF ReadFile, Settled
<1>6. CASE Encrypt(q) \/ Send(q)
  BY <1>0, <1>6 DEF Encrypt, Send
<1>7. CASE Decrypt(q)
  <2>1. calm[q] => held[q] = pair /\ sealed[q] = pair
    BY <1>7 DEF Decrypt
  <2> QED
    BY <1>0, <1>7, <2>1 DEF Decrypt
<1>8. CASE Finish(q)
  BY <1>8 DEF Finish
<1> QED
  BY <1>1, <1>2, <1>3, <1>4, <1>5, <1>6, <1>7, <1>8 DEF Step

\* A call's step leaves the others' state alone.
LEMMA OthersKept ==
  ASSUME TypeOK, NEW p \in Calls, Begin(p) \/ Step(p), NEW q \in Calls, q # p
  PROVE  /\ pc'[q] = pc[q] /\ held'[q] = held[q] /\ sealed'[q] = sealed[q]
         /\ outcome'[q] = outcome[q] /\ calm'[q] = calm[q]
<1> USE DEF TypeOK, Goto, End
<1>1. CASE Begin(p) \/ FetchCodeHash(p) \/ NetworkFails(p)
  BY <1>1 DEF Begin, FetchCodeHash, NetworkFails
<1>2. CASE GeneratePair(p) \/ TruncateFile(p) \/ WriteFile(p)
  BY <1>2 DEF GeneratePair, TruncateFile, WriteFile
<1>3. CASE FindFile(p) \/ ReadFile(p)
  BY <1>3 DEF FindFile, ReadFile
<1>4. CASE Encrypt(p) \/ Send(p) \/ Decrypt(p) \/ Finish(p)
  BY <1>4 DEF Encrypt, Send, Decrypt, Finish
<1> QED
  BY <1>1, <1>2, <1>3, <1>4 DEF Step

\* Every step keeps calm queries safe.
LEMMA CalmStep ==
  ASSUME TypeOK, CalmInv, [Next]_vars
  PROVE  CalmInv'
<1> SUFFICES ASSUME NEW q \in Calls PROVE CalmCall(q)'
  BY DEF CalmInv
<1>0. CalmCall(q)
  BY DEF CalmInv
<1>1. CASE UNCHANGED vars
  BY <1>0, <1>1, CalmFrame DEF vars
<1>2. ASSUME NEW p \in Calls, Begin(p) \/ Step(p) PROVE CalmCall(q)'
  <2>1. CASE p = q
    BY <1>0, <1>2, <2>1, CalmOwn
  <2>2. CASE p # q
    BY <1>0, <1>2, <2>2, OthersKept, CalmFrame
  <2> QED
    BY <2>1, <2>2
<1>3. CASE Crash
  BY <1>3 DEF Crash, CalmCall
<1> QED
  BY <1>1, <1>2, <1>3 DEF Next

\* A query that begins once the pair is on disk never fails by the pair.
THEOREM Calm == Spec => []CalmIsSafe
<1>1. Init => CalmInv
  BY DEF Init, CalmInv, CalmCall
<1>2. CalmInv => CalmIsSafe
  BY DEF CalmInv, CalmCall, CalmIsSafe
<1> QED
  BY <1>1, <1>2, Typing, CalmStep, PTL DEF Spec

----------------------------------------------------------------------------
\* The torn file.

\* A file is left torn by a failure, or is about to be written.
THEOREM Torn == Spec => []TornByFailureOnly
<1>1. Init => TornByFailureOnly
  BY DEF Init, TornByFailureOnly
<1>2. TypeOK /\ TornByFailureOnly /\ [Next]_vars => TornByFailureOnly'
  <2> SUFFICES ASSUME TypeOK, TornByFailureOnly, [Next]_vars PROVE TornByFailureOnly'
    OBVIOUS
  <2> USE DEF TypeOK, TornByFailureOnly, Goto, End, disk, failures
  <2>1. CASE UNCHANGED vars
    BY <2>1 DEF vars
  <2>2. ASSUME NEW q \in Calls, Begin(q) \/ FetchCodeHash(q) \/ NetworkFails(q)
        PROVE  TornByFailureOnly'
    BY <2>2 DEF Begin, FetchCodeHash, NetworkFails
  <2>3. ASSUME NEW q \in Calls, GeneratePair(q) PROVE TornByFailureOnly'
    BY <2>3 DEF GeneratePair
  <2>4. ASSUME NEW q \in Calls, TruncateFile(q) PROVE TornByFailureOnly'
    BY <2>4 DEF TruncateFile, DiskFault
  <2>5. ASSUME NEW q \in Calls, WriteFile(q) PROVE TornByFailureOnly'
    BY <2>5 DEF WriteFile, DiskFault
  <2>6. ASSUME NEW q \in Calls, FindFile(q) \/ ReadFile(q) PROVE TornByFailureOnly'
    BY <2>6 DEF FindFile, ReadFile, DiskFault
  <2>7. ASSUME NEW q \in Calls, Encrypt(q) \/ Send(q) \/ Decrypt(q) \/ Finish(q)
        PROVE  TornByFailureOnly'
    BY <2>7 DEF Encrypt, Send, Decrypt, Finish
  <2>8. CASE Crash
    BY <2>8 DEF Crash
  <2> QED
    BY <2>1, <2>2, <2>3, <2>4, <2>5, <2>6, <2>7, <2>8 DEF Next, Step
<1> QED
  BY <1>1, <1>2, Typing, PTL DEF Spec

----------------------------------------------------------------------------
\* The number of pairs.

\* The calls that have a pair in memory and have not yet opened the file.
Makers == {q \in Calls : pc[q] = "create"}

C == Cardinality(Calls)

\* Before there is a file, every pair is in the hands of a maker or was lost by a
\* failure; afterwards no more are made.
Tally ==
  made <= faults + C * crashes + (IF file = "absent" THEN Cardinality(Makers) ELSE C)

\* The makers are some of the calls.
LEMMA MakersFinite ==
  /\ C \in Nat /\ C >= 1
  /\ IsFiniteSet(Makers) /\ Cardinality(Makers) \in Nat /\ Cardinality(Makers) <= C
<1>1. Makers \in SUBSET Calls
  BY DEF Makers
<1>2. IsFiniteSet(Makers) /\ Cardinality(Makers) <= Cardinality(Calls)
  BY <1>1, FS_Subset
<1>3. Cardinality(Calls) \in Nat /\ Cardinality(Makers) \in Nat
  BY <1>2, FS_CardinalityType
<1>4. Cardinality(Calls) # 0
  BY FS_EmptySet
<1> QED
  BY <1>2, <1>3, <1>4 DEF C

\* One more crash adds as many as there are calls.
LEMMA Times == ASSUME NEW a \in Nat, NEW b \in Nat
               PROVE  a * b \in Nat /\ a * (b + 1) = a * b + a
  OBVIOUS

\* More failures leave room for as many pairs.
LEMMA Weaken == ASSUME NEW m \in Nat, NEW f \in Nat, NEW c \in Nat, NEW k \in Nat,
                       NEW g \in Nat, m <= f + c + k, g >= f
                PROVE  m <= g + c + k
  OBVIOUS

\* Once there is a file it may be anything but absent, and no step makes a pair.
LEMMA TallyPresent ==
  ASSUME TypeOK, Tally, [Next]_vars, file # "absent"
  PROVE  Tally'
<1> USE DEF TypeOK, Goto, End, disk, failures
<1>1. CASE Crash
  <2>1. made <= faults + C * crashes + C
    BY DEF Tally
  <2>2. made' = made /\ faults' = faults /\ crashes' = crashes + 1 /\ file' = file
    BY <1>1 DEF Crash
  <2>3. C * (crashes + 1) = C * crashes + C /\ C \in Nat /\ C * crashes \in Nat
    BY MakersFinite, Times
  <2>4. made' <= faults' + C * crashes' + C
    BY <2>1, <2>2, <2>3
  <2> QED
    BY <2>2, <2>4 DEF Tally
<1>2. CASE ~Crash
  <2> DEFINE Still == /\ made' = made /\ crashes' = crashes /\ file' # "absent"
                      /\ faults' \in Nat /\ faults' >= faults
  <2>1. Still
    <3>1. CASE UNCHANGED vars
      BY <3>1 DEF vars
    <3>2. ASSUME NEW q \in Calls, Begin(q) \/ FetchCodeHash(q) \/ NetworkFails(q)
          PROVE  Still
      BY <3>2 DEF Begin, FetchCodeHash, NetworkFails
    <3>3. ASSUME NEW q \in Calls, GeneratePair(q) \/ TruncateFile(q) \/ WriteFile(q)
          PROVE  Still
      BY <3>3 DEF GeneratePair, TruncateFile, WriteFile, DiskFault
    <3>4. ASSUME NEW q \in Calls, FindFile(q) \/ ReadFile(q)
          PROVE  Still
      BY <3>4 DEF FindFile, ReadFile, DiskFault
    <3>5. ASSUME NEW q \in Calls, Encrypt(q) \/ Send(q) \/ Decrypt(q) \/ Finish(q)
          PROVE  Still
      BY <3>5 DEF Encrypt, Send, Decrypt, Finish
    <3> QED
      BY <1>2, <3>1, <3>2, <3>3, <3>4, <3>5 DEF Next, Step
  <2>2. C * crashes \in Nat /\ C \in Nat
    BY MakersFinite, Times
  <2>3. made <= faults + C * crashes + C
    BY DEF Tally
  <2>4. made <= faults' + C * crashes + C
    BY <2>1, <2>2, <2>3, Weaken
  <2>5. made' <= faults' + C * crashes' + C
    BY <2>1, <2>4
  <2> QED
    BY <2>1, <2>5 DEF Tally
<1> QED
  BY <1>1, <1>2

\* While there is no file a new maker is counted, one that fails or crashes is
\* counted as a failure, and the one that opens the file ends the making.
LEMMA TallyAbsent ==
  ASSUME TypeOK, Tally, [Next]_vars, file = "absent"
  PROVE  Tally'
<1> USE DEF TypeOK, Goto, End, disk, failures
<1> DEFINE n == Cardinality(Makers)
<1>0. /\ made <= faults + C * crashes + n
      /\ n \in Nat /\ C \in Nat /\ n <= C /\ C * crashes \in Nat
  BY MakersFinite, Times DEF Tally
<1>1. ASSUME made' = made, crashes' = crashes, file' = file, faults' = faults,
             Makers' = Makers
      PROVE  Tally'
  BY <1>0, <1>1 DEF Tally
<1>2. CASE UNCHANGED vars
  BY <1>1, <1>2 DEF vars, Makers
<1>3. ASSUME NEW q \in Calls, Begin(q) \/ FetchCodeHash(q) \/ NetworkFails(q)
      PROVE  Tally'
  <2>1. Makers' = Makers
    BY <1>3 DEF Begin, FetchCodeHash, NetworkFails, Makers
  <2> QED
    BY <1>1, <1>3, <2>1 DEF Begin, FetchCodeHash, NetworkFails
<1>4. ASSUME NEW q \in Calls, GeneratePair(q) PROVE Tally'
  <2>1. Makers' = Makers \cup {q} /\ q \notin Makers
    BY <1>4 DEF GeneratePair, Makers
  <2>2. Cardinality(Makers') = n + 1
    BY <2>1, MakersFinite, FS_AddElement
  <2>3. made' = made + 1 /\ file' = file /\ crashes' = crashes /\ faults' = faults
    BY <1>4 DEF GeneratePair
  <2> HIDE DEF n
  <2> QED
    BY <1>0, <2>2, <2>3 DEF Tally
<1>5. ASSUME NEW q \in Calls, TruncateFile(q) PROVE Tally'
  <2>1. CASE file' = "torn" /\ faults' = faults
    <3>1. made' = made /\ crashes' = crashes
      BY <1>5, <2>1 DEF TruncateFile, DiskFault
    <3> HIDE DEF n
    <3> QED
      BY <1>0, <2>1, <3>1 DEF Tally
  <2>2. CASE file' = file /\ faults' = faults + 1
    <3>1. made' = made /\ crashes' = crashes
      BY <1>5, <2>2 DEF TruncateFile, DiskFault
    <3>2. Makers' = Makers \ {q} /\ q \in Makers
      BY <1>5, <2>2 DEF TruncateFile, Makers
    <3>3. Cardinality(Makers') = n - 1
      BY <3>2, MakersFinite, FS_RemoveElement
    <3> HIDE DEF n
    <3> QED
      BY <1>0, <2>2, <3>1, <3>3 DEF Tally
  <2> QED
    BY <1>5, <2>1, <2>2 DEF TruncateFile, DiskFault
<1>6. ASSUME NEW q \in Calls, WriteFile(q) PROVE Tally'
  <2>1. Makers' = Makers
    BY <1>6 DEF WriteFile, Makers
  <2>2. made' = made /\ crashes' = crashes /\ faults' \in Nat /\ faults' >= faults
    BY <1>6 DEF WriteFile, DiskFault
  <2>3. Cardinality(Makers') = n
    BY <2>1
  <2> HIDE DEF n
  <2>4. made <= faults' + C * crashes + n
    BY <1>0, <2>2, Weaken
  <2>5. made <= faults + C * crashes + C
    BY <1>0, Weaken
  <2>6. made <= faults' + C * crashes + C
    BY <1>0, <2>2, <2>5, Weaken
  <2> QED
    BY <2>2, <2>3, <2>4, <2>6 DEF Tally
<1>7. ASSUME NEW q \in Calls, FindFile(q) PROVE Tally'
  BY <1>7 DEF FindFile
<1>8. ASSUME NEW q \in Calls, ReadFile(q) PROVE Tally'
  <2>1. Makers' = Makers
    BY <1>8 DEF ReadFile, Makers
  <2>2. made' = made /\ crashes' = crashes /\ faults' \in Nat /\ faults' >= faults
    BY <1>8 DEF ReadFile, DiskFault
  <2>3. Cardinality(Makers') = n
    BY <2>1
  <2> HIDE DEF n
  <2>4. made <= faults' + C * crashes + n
    BY <1>0, <2>2, Weaken
  <2>5. file' = "absent"
    BY <1>8 DEF ReadFile
  <2> QED
    BY <2>2, <2>3, <2>4, <2>5 DEF Tally
<1>9. ASSUME NEW q \in Calls, Encrypt(q) \/ Send(q) \/ Decrypt(q) \/ Finish(q)
      PROVE  Tally'
  <2>1. Makers' = Makers
    BY <1>9 DEF Encrypt, Send, Decrypt, Finish, Makers
  <2> QED
    BY <1>1, <1>9, <2>1 DEF Encrypt, Send, Decrypt, Finish
<1>10. CASE Crash
  <2>1. Makers' = {}
    BY <1>10 DEF Crash, Makers
  <2>2. Cardinality(Makers') = 0
    BY <2>1, FS_EmptySet
  <2>3. made' = made /\ crashes' = crashes + 1 /\ file' = file /\ faults' = faults
    BY <1>10 DEF Crash
  <2>4. C * (crashes + 1) = C * crashes + C
    BY MakersFinite, Times
  <2> HIDE DEF n
  <2> QED
    BY <1>0, <2>2, <2>3, <2>4 DEF Tally
<1> QED
  BY <1>2, <1>3, <1>4, <1>5, <1>6, <1>7, <1>8, <1>9, <1>10 DEF Next, Step

\* Pairs are made a bounded number of times.
THEOREM Bounded == Spec => []PairsBounded
<1>1. Init => Tally
  <2> SUFFICES ASSUME Init PROVE Tally
    OBVIOUS
  <2>1. C * 0 = 0 /\ C >= 1 /\ C \in Nat /\ Cardinality(Makers) \in Nat
    BY MakersFinite
  <2> QED
    BY <2>1 DEF Init, Tally
<1>2. TypeOK /\ Tally /\ [Next]_vars => Tally'
  BY TallyPresent, TallyAbsent
<1>3. TypeOK /\ Tally => PairsBounded
  <2> SUFFICES ASSUME TypeOK, Tally PROVE PairsBounded
    OBVIOUS
  <2>1. /\ made \in Nat /\ faults \in Nat /\ crashes \in Nat
        /\ C \in Nat /\ Cardinality(Makers) \in Nat /\ Cardinality(Makers) <= C
        /\ C * crashes \in Nat /\ C * (crashes + 1) = C * crashes + C
    BY MakersFinite, Times DEF TypeOK
  <2>2. 1 + crashes = crashes + 1
    BY <2>1
  <2>3. made <= faults + C * crashes + C
    BY <2>1 DEF Tally
  <2>4. made <= C * (1 + crashes) + faults
    BY <2>1, <2>2, <2>3
  <2> QED
    BY <2>4 DEF PairsBounded, C
<1> QED
  BY <1>1, <1>2, <1>3, Typing, PTL DEF Spec
=============================================================================
