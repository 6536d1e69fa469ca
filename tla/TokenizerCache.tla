--------------------------- MODULE TokenizerCache --------------------------
(***************************************************************************)
(* The cache of tokenizers of AccurateTokenizer (accurate_tokenizer.go) and *)
(* the lock that guards it.                                                *)
(*                                                                         *)
(* Every request that counts tokens looks its model's tokenizer up under    *)
(* the read lock; if it is not there, the tokenizer is fetched and loaded   *)
(* under the write lock, after a second look.  The HuggingFace and the      *)
(* SentencePiece tokenizers have a map each and the same procedure: a       *)
(* member of Tokenizers is a key of either.                                 *)
(*                                                                         *)
(* sync.RWMutex prefers writers: an RLock that finds a writer waiting or    *)
(* at work blocks, and Unlock lets every blocked reader in before the next  *)
(* writer.                                                                 *)
(***************************************************************************)
EXTENDS Naturals

CONSTANTS
  Callers,     \* the goroutines that use the tokenizer: requests, preloading
  Tokenizers,  \* the tokenizers that models are mapped to
  NoCaller     \* nobody holds the write lock

ASSUME NoCallerAssumption == NoCaller \notin Callers

VARIABLES
  pc,       \* pc[c]: where c stands in its call
  task,     \* task[c]: the operation it called
  want,     \* want[c]: the tokenizer it looks for
  outcome,  \* outcome[c]: what its last call to count came to
  reading,  \* the callers that hold the read lock
  writing,  \* the caller that holds the write lock or waits for readers to leave
  loaded,   \* hfTokenizers and spTokenizers
  loads     \* history: loads[t], how often t was loaded

cacheVars == <<pc, task, want, outcome, reading, writing, loaded, loads>>
lock      == <<reading, writing>>

\* "read" before RLock, "blocked" in RLock behind a writer, "look" under the read
\* lock, "write" before Lock, "drain" in Lock until the readers have left, "check"
\* and "load" under the write lock.
Places == {"out", "read", "blocked", "look", "write", "drain", "check", "load"}

\* CountTokens for a mapped model, by a request or by PreloadCommonModels, which
\* drops the count; GetCachedModels; SetCustomMapping.
Tasks == {"count", "preload", "list", "map"}
NoTask == "none"
Outcomes == {"tokenizer", "fallback"}

CacheInit ==
  /\ pc = [c \in Callers |-> "out"]
  /\ task = [c \in Callers |-> NoTask]
  /\ want \in [Callers -> Tokenizers]
  /\ outcome = [c \in Callers |-> "fallback"]
  /\ reading = {} /\ writing = NoCaller
  /\ loaded = {} /\ loads = [t \in Tokenizers |-> 0]

\* A model that is mapped to no tokenizer is counted without one.
CountPlainly(c) ==
  /\ pc[c] = "out"
  /\ outcome' = [outcome EXCEPT ![c] = "fallback"]
  /\ UNCHANGED <<pc, task, want, lock, loaded, loads>>

Call(c, op, t) ==
  /\ pc[c] = "out"
  /\ pc' = [pc EXCEPT ![c] = IF op = "map" THEN "write" ELSE "read"]
  /\ task' = [task EXCEPT ![c] = op]
  /\ want' = [want EXCEPT ![c] = t]
  /\ UNCHANGED <<outcome, lock, loaded, loads>>

RLock(c) ==
  /\ pc[c] = "read"
  /\ IF writing = NoCaller
       THEN /\ pc' = [pc EXCEPT ![c] = "look"]
            /\ reading' = reading \cup {c}
       ELSE /\ pc' = [pc EXCEPT ![c] = "blocked"]
            /\ UNCHANGED reading
  /\ UNCHANGED <<task, want, outcome, writing, loaded, loads>>

\* The call returns; only a request that counts looks at what came of it.
Answer(c, result) ==
  /\ task' = [task EXCEPT ![c] = NoTask]
  /\ outcome' = IF task[c] = "count" THEN [outcome EXCEPT ![c] = result] ELSE outcome

\* The first look, and RUnlock.
Look(c) ==
  /\ pc[c] = "look"
  /\ reading' = reading \ {c}
  /\ IF task[c] = "list" \/ want[c] \in loaded
       THEN /\ pc' = [pc EXCEPT ![c] = "out"]
            /\ Answer(c, "tokenizer")
       ELSE /\ pc' = [pc EXCEPT ![c] = "write"]
            /\ UNCHANGED <<task, outcome>>
  /\ UNCHANGED <<want, writing, loaded, loads>>

\* Lock first keeps other writers out, then new readers.
Lock(c) ==
  /\ pc[c] = "write" /\ writing = NoCaller
  /\ pc' = [pc EXCEPT ![c] = "drain"]
  /\ writing' = c
  /\ UNCHANGED <<task, want, outcome, reading, loaded, loads>>

\* Mutant: the second look is left out.
Drained_LooksOnce(c) ==
  /\ pc[c] = "drain" /\ reading = {}
  /\ pc' = [pc EXCEPT ![c] = IF task[c] = "map" THEN "check" ELSE "load"]
  /\ UNCHANGED <<task, want, outcome, lock, loaded, loads>>

Drained(c) ==
  /\ pc[c] = "drain" /\ reading = {}
  /\ pc' = [pc EXCEPT ![c] = "check"]
  /\ UNCHANGED <<task, want, outcome, lock, loaded, loads>>

\* Unlock, and where the caller goes from there.
Unlock(c, place) ==
  /\ writing' = NoCaller
  /\ reading' = reading \cup {d \in Callers : pc[d] = "blocked"}
  /\ pc' = [d \in Callers |-> IF d = c THEN place ELSE IF pc[d] = "blocked" THEN "look" ELSE pc[d]]

\* The deferred Unlock, and the return.
Return(c, result) == Unlock(c, "out") /\ Answer(c, result)

\* The second look; SetCustomMapping writes the map of models here, which no lock
\* guards where CountTokens reads it.
Check(c) ==
  /\ pc[c] = "check"
  /\ IF task[c] = "map" \/ want[c] \in loaded
       THEN Return(c, "tokenizer")
       ELSE /\ pc' = [pc EXCEPT ![c] = "load"]
            /\ UNCHANGED <<task, outcome, lock>>
  /\ UNCHANGED <<want, loaded, loads>>

\* Mutant: what cannot be loaded is tried again at once.
LoadFails_TriesAgain(c) ==
  /\ pc[c] = "load"
  /\ Unlock(c, "read")
  /\ UNCHANGED <<task, want, outcome, loaded, loads>>

\* The file cannot be fetched or read.  Nothing is remembered of it: the next
\* call tries again.
LoadFails(c) ==
  /\ pc[c] = "load"
  /\ Return(c, "fallback")
  /\ UNCHANGED <<want, loaded, loads>>

Load(c) ==
  /\ pc[c] = "load"
  /\ loaded' = loaded \cup {want[c]}
  /\ loads' = [loads EXCEPT ![want[c]] = @ + 1]
  /\ Return(c, "tokenizer")
  /\ UNCHANGED want

CacheStep(c) == RLock(c) \/ Look(c) \/ Drained(c) \/ Check(c) \/ Load(c) \/ LoadFails(c)

CacheNext ==
  \E c \in Callers :
    \/ CountPlainly(c)
    \/ \E op \in Tasks, t \in Tokenizers : Call(c, op, t)
    \/ Lock(c) \/ CacheStep(c)

CacheSpec == CacheInit /\ [][CacheNext]_cacheVars

\* Every variable of the cache has its type.
CacheTypeOK ==
  /\ pc \in [Callers -> Places]
  /\ task \in [Callers -> Tasks \cup {NoTask}]
  /\ want \in [Callers -> Tokenizers]
  /\ outcome \in [Callers -> Outcomes]
  /\ reading \subseteq Callers
  /\ writing \in Callers \cup {NoCaller}
  /\ loaded \subseteq Tokenizers
  /\ loads \in [Tokenizers -> Nat]

\* However many requests miss the same tokenizer at once, it is fetched and loaded
\* at most once, and while anyone loads, nobody else reads or writes the maps
\* (getOrLoadHFTokenizer, getOrLoadSPTokenizer).
LoadedOnce ==
  /\ \A t \in Tokenizers : loads[t] <= 1
  /\ \A c, d \in Callers :
       pc[c] = "load" /\ d # c => pc[d] \notin {"look", "check", "load"}
============================================================================
