---------------------------- MODULE KeyValidator ----------------------------
(***************************************************************************)
(* validators/api_key_validator.go: concurrent calls of ValidateAPIKey over*)
(* one cache, the contract it is filled from, and CleanupCache.            *)
(*                                                                         *)
(* A key and its hash are one value.  Time is kept as ages, capped just    *)
(* past the largest age anything compares: the cache's age is the time     *)
(* since lastUpdate, and it starts past CacheTTL because lastUpdate starts *)
(* at the zero time.                                                       *)
(***************************************************************************)
EXTENDS Integers

CONSTANTS
  Handlers,   \* the concurrent calls of ValidateAPIKey
  Keys,       \* non-blank API keys
  Blank,      \* a key of white space only
  Configured, \* config.APIKey, as a set: empty when none is configured
  FileKeys,   \* the keys of the master keys file
  EnvKeys,    \* the keys of SECRETAI_MASTER_KEYS
  CacheTTL,   \* config.CacheTTL
  QueryTime,  \* longest time from the contract's answer to its arrival
  Cap,        \* the age at which ages stop growing
  Cleanups    \* whether Cleanup may run while calls are in flight

ASSUME KeysAssumption ==
  /\ Blank \notin Keys
  /\ Configured \subseteq Keys /\ FileKeys \subseteq Keys /\ EnvKeys \subseteq Keys
\* Validate refuses a TTL that is not positive.
ASSUME TimeAssumption ==
  /\ CacheTTL \in Nat \ {0} /\ QueryTime \in Nat
  /\ Cap \in Nat /\ Cap > CacheTTL + QueryTime
ASSUME CleanupsAssumption == Cleanups \in BOOLEAN

VARIABLES
  valid,    \* the keys the contract lists
  gone,     \* gone[k]: time since the contract last listed k
  file,     \* the master keys file: "ok", "missing" or "broken"
  cache,    \* v.cache, whose entries are all true
  age,      \* time since v.lastUpdate
  pc,       \* pc[h]: where h's call stands
  key,      \* key[h]: its argument
  reply,    \* reply[h]: the key set its query returned
  replyAge, \* replyAge[h]: time since the contract computed that set
  reqAge,   \* reqAge[h]: time since the call found that it had to ask the contract
  listed,   \* history: the contract has listed key[h] ever since the call began
  verdict,  \* verdict[h]: what the call returned
  crossed   \* history: the cache was replaced between h's storing and looking up

vars == <<valid, gone, file, cache, age, pc, key, reply, replyAge, reqAge, listed, verdict,
          crossed>>

call == <<key, reply, replyAge, reqAge, listed, verdict, crossed>>
world == <<valid, gone, file>>

\* "valid" is (true, nil), "invalid" is (false, nil), "error" is (false, err).
Verdicts == {"none", "valid", "invalid", "error"}

PCs == {"idle", "begin", "lookup", "update", "answered", "result", "done"}

Init ==
  /\ valid \in SUBSET (Keys \ (Configured \cup FileKeys \cup EnvKeys))
  /\ gone = [k \in Keys |-> IF k \in valid THEN 0 ELSE Cap]
  /\ file \in {"ok", "missing"}
  /\ cache = {}
  /\ age = CacheTTL + 1
  /\ pc = [h \in Handlers |-> "idle"]
  /\ key = [h \in Handlers |-> Blank]
  /\ reply = [h \in Handlers |-> {}]
  /\ replyAge = [h \in Handlers |-> 0]
  /\ reqAge = [h \in Handlers |-> 0]
  /\ listed = [h \in Handlers |-> FALSE]
  /\ verdict = [h \in Handlers |-> "none"]
  /\ crossed = [h \in Handlers |-> FALSE]

----------------------------------------------------------------------------
Goto(h, from, to) == pc[h] = from /\ pc' = [pc EXCEPT ![h] = to]

Return(h, from, answer) ==
  /\ Goto(h, from, "done")
  /\ verdict' = [verdict EXCEPT ![h] = answer]
  /\ reply' = [reply EXCEPT ![h] = {}]
  /\ replyAge' = [replyAge EXCEPT ![h] = 0]
  /\ reqAge' = [reqAge EXCEPT ![h] = 0]
  /\ UNCHANGED <<world, cache, age, key, listed, crossed>>

\* A request reaches ValidateAPIKey.
Begin(h, k) ==
  /\ Goto(h, "idle", "begin")
  /\ key' = [key EXCEPT ![h] = k]
  /\ listed' = [listed EXCEPT ![h] = k \in valid]
  /\ UNCHANGED <<world, cache, age, reply, replyAge, reqAge, verdict, crossed>>

\* Block 1.
RefuseBlank(h) == key[h] = Blank /\ Return(h, "begin", "error")

\* Block 2.
AcceptConfigured(h) == key[h] \in Configured /\ Return(h, "begin", "valid")

GoesOn(h) == key[h] \notin Configured \cup {Blank}

\* CheckMasterKeys reads the file anew each time and falls through to the
\* environment only when the file lacks the key or does not exist.  A broken file
\* does not open or breaks off: of its keys, those on the lines before are found.
MasterKeys ==
  (IF file = "missing" THEN {} ELSE FileKeys) \cup (IF file = "broken" THEN {} ELSE EnvKeys)

\* Block 3.
MasterError(h)  == GoesOn(h) /\ file = "broken" /\ Return(h, "begin", "error")
AcceptMaster(h) ==
  /\ GoesOn(h) /\ key[h] \in MasterKeys
  /\ Return(h, "begin", "valid")
NotMaster(h) ==
  /\ GoesOn(h) /\ file # "broken" /\ key[h] \notin MasterKeys
  /\ Goto(h, "begin", "lookup")
  /\ UNCHANGED <<world, cache, age, call>>

Stale == age > CacheTTL

\* Mutant: a hit does not ask how old the cache is.
Hit_IgnoresAge(h)  == key[h] \in cache /\ Return(h, "lookup", "valid")

\* Blocks 5 and 6: only keys the contract listed are in the cache, so a hit is
\* an acceptance and any other key goes on to a query.
Hit(h)  == key[h] \in cache /\ ~Stale /\ Return(h, "lookup", "valid")
Miss(h) ==
  /\ key[h] \notin cache \/ Stale
  /\ Goto(h, "lookup", "update")
  /\ UNCHANGED <<world, cache, age, call>>

\* UpdateAPIKeyCache.  No lock is held, and nothing keeps two calls from
\* querying at once: the contract answers each as of some moment.
Answer(h) ==
  /\ Goto(h, "update", "answered")
  /\ reply' = [reply EXCEPT ![h] = valid]
  /\ replyAge' = [replyAge EXCEPT ![h] = 0]
  /\ UNCHANGED <<world, cache, age, key, reqAge, listed, verdict, crossed>>

\* The permit cannot be read, the query fails or the answer has another shape:
\* the old cache stays and the call returns the error.
UpdateFails(h) == Return(h, "update", "error") \/ Return(h, "answered", "error")

\* The calls that have stored an answer and not yet looked it up.
Crossed == [h \in Handlers |-> crossed[h] \/ pc[h] = "result"]

\* Mutant: the cache is stamped and not replaced.
Store_StampsOnly(h) ==
  /\ Goto(h, "answered", "result")
  /\ age' = 0
  /\ reply' = [reply EXCEPT ![h] = {}]
  /\ replyAge' = [replyAge EXCEPT ![h] = 0]
  /\ crossed' = Crossed
  /\ UNCHANGED <<world, cache, key, reqAge, listed, verdict>>

\* Mutant: the answer is added to the cache.
Store_Merges(h) ==
  /\ Goto(h, "answered", "result")
  /\ cache' = cache \cup reply[h]
  /\ age' = 0
  /\ reply' = [reply EXCEPT ![h] = {}]
  /\ replyAge' = [replyAge EXCEPT ![h] = 0]
  /\ crossed' = Crossed
  /\ UNCHANGED <<world, key, reqAge, listed, verdict>>

\* The answer replaces the cache and is stamped with the time it is stored.
Store(h) ==
  /\ Goto(h, "answered", "result")
  /\ cache' = reply[h]
  /\ age' = 0
  /\ reply' = [reply EXCEPT ![h] = {}]
  /\ replyAge' = [replyAge EXCEPT ![h] = 0]
  /\ crossed' = Crossed
  /\ UNCHANGED <<world, key, reqAge, listed, verdict>>

\* Block 8 looks the key up again, in whatever cache there is by then.
Result(h) == Return(h, "result", IF key[h] \in cache THEN "valid" ELSE "invalid")

\* The request is over; its handler is free for another.
Finish(h) ==
  /\ Goto(h, "done", "idle")
  /\ key' = [key EXCEPT ![h] = Blank]
  /\ listed' = [listed EXCEPT ![h] = FALSE]
  /\ verdict' = [verdict EXCEPT ![h] = "none"]
  /\ crossed' = [crossed EXCEPT ![h] = FALSE]
  /\ UNCHANGED <<world, cache, age, reply, replyAge, reqAge>>

\* CleanupCache, from Cleanup: the map is emptied, lastUpdate is not reset.
CleanupCache ==
  /\ Cleanups
  /\ cache' = {}
  /\ crossed' = Crossed
  /\ UNCHANGED <<world, age, pc, key, reply, replyAge, reqAge, listed, verdict>>

----------------------------------------------------------------------------
\* The world around the validator.

AddKey(k) ==
  /\ k \in Keys \ (valid \cup Configured \cup FileKeys \cup EnvKeys)
  /\ valid' = valid \cup {k}
  /\ gone' = [gone EXCEPT ![k] = 0]
  /\ UNCHANGED <<file, cache, age, pc, call>>

RevokeKey(k) ==
  /\ k \in valid
  /\ valid' = valid \ {k}
  /\ listed' = [h \in Handlers |-> listed[h] /\ key[h] # k]
  /\ UNCHANGED <<gone, file, cache, age, pc, key, reply, replyAge, reqAge, verdict, crossed>>

FileChanges ==
  /\ file' \in {"ok", "missing", "broken"} \ {file}
  /\ UNCHANGED <<valid, gone, cache, age, pc, call>>

Asking(h) == pc[h] \in {"update", "answered", "result"}

Older(a) == IF a < Cap THEN a + 1 ELSE Cap

\* Mutant: the HTTP client waits for an answer without a limit.
Tick_NoTimeout ==
  /\ gone' = [k \in Keys |-> IF k \in valid THEN 0 ELSE Older(gone[k])]
  /\ age' = Older(age)
  /\ replyAge' = [h \in Handlers |-> IF pc[h] = "answered" THEN replyAge[h] + 1 ELSE 0]
  /\ reqAge' = [h \in Handlers |-> IF Asking(h) THEN Older(reqAge[h]) ELSE 0]
  /\ UNCHANGED <<valid, file, cache, pc, key, reply, listed, verdict, crossed>>

\* An answer arrives within QueryTime: the timeout that the usage reporter, or
\* the portal client, sets on the HTTP client all callers share.
Tick ==
  /\ \A h \in Handlers : pc[h] = "answered" => replyAge[h] < QueryTime
  /\ gone' = [k \in Keys |-> IF k \in valid THEN 0 ELSE Older(gone[k])]
  /\ age' = Older(age)
  /\ replyAge' = [h \in Handlers |-> IF pc[h] = "answered" THEN replyAge[h] + 1 ELSE 0]
  /\ reqAge' = [h \in Handlers |-> IF Asking(h) THEN Older(reqAge[h]) ELSE 0]
  /\ UNCHANGED <<valid, file, cache, pc, key, reply, listed, verdict, crossed>>

Step(h) ==
  \/ RefuseBlank(h) \/ AcceptConfigured(h)
  \/ MasterError(h) \/ AcceptMaster(h) \/ NotMaster(h)
  \/ Hit(h) \/ Miss(h)
  \/ Answer(h) \/ UpdateFails(h) \/ Store(h) \/ Result(h)
  \/ Finish(h)

Next ==
  \/ \E h \in Handlers : Step(h) \/ \E k \in Keys \cup {Blank} : Begin(h, k)
  \/ CleanupCache
  \/ \E k \in Keys : AddKey(k) \/ RevokeKey(k)
  \/ FileChanges
  \/ Tick

Spec == Init /\ [][Next]_vars

\* Goroutines are scheduled, calls return and time goes on; requests, and what
\* happens to the contract and the file, are up to others.
Fairness == WF_vars(Tick) /\ \A h \in Handlers : WF_vars(Step(h))

FairSpec == Spec /\ Fairness

----------------------------------------------------------------------------
\* Properties.

\* Every variable has its type.
TypeOK ==
  /\ valid \subseteq Keys
  /\ gone \in [Keys -> 0..Cap]
  /\ file \in {"ok", "missing", "broken"}
  /\ cache \subseteq Keys
  /\ age \in 0..Cap
  /\ pc \in [Handlers -> PCs]
  /\ key \in [Handlers -> Keys \cup {Blank}]
  /\ reply \in [Handlers -> SUBSET Keys]
  /\ replyAge \in [Handlers -> 0..QueryTime]
  /\ reqAge \in [Handlers -> 0..Cap]
  /\ listed \in [Handlers -> BOOLEAN]
  /\ verdict \in [Handlers -> Verdicts]
  /\ crossed \in [Handlers -> BOOLEAN]

\* What the cache holds was listed no longer ago than the cache is old plus the
\* time an answer travels, however the calls that fill it overlap; a call that
\* has stored its answer sees a cache no older than itself.
CacheFresh ==
  /\ \A k \in valid : gone[k] = 0
  /\ \A k \in cache : gone[k] <= age + QueryTime
  /\ \A h \in Handlers : pc[h] = "answered" => \A k \in reply[h] : gone[k] <= replyAge[h]
  /\ \A h \in Handlers : pc[h] = "result" => age <= reqAge[h]

\* The call returns (true, nil) for what the contract said.
AcceptsFromContract(h) == pc[h] \in {"lookup", "result"} /\ pc'[h] = "done" /\ verdict'[h] = "valid"

\* A key accepted on the contract's word was on its list within the time to
\* live and the travel time of an answer, or, when the call had to ask, since
\* that travel time before it did: a query that was overtaken by a later
\* one does not prolong a revoked key beyond that (ValidateAPIKey, blocks 5-8).
AcceptedWasListed ==
  [][\A h \in Handlers : AcceptsFromContract(h) =>
       gone[key[h]] <= QueryTime + (IF pc[h] = "lookup" THEN CacheTTL ELSE reqAge[h])]_vars

\* "A return of (false, nil) means the key is definitively invalid"
\* (api_key_validator.go:76): not given for a key that the contract has listed
\* ever since the call began.
DefinitivelyInvalid == \A h \in Handlers : verdict[h] = "invalid" => ~listed[h]

\* There is one way to be refused wrongly: another call, or CleanupCache, has
\* replaced the cache between UpdateAPIKeyCache and the lookup after it.  Any other
\* refusal without an error is of a key the contract did not list all along.
UncrossedIsDefinitive ==
  \A h \in Handlers : verdict[h] = "invalid" /\ listed[h] => crossed[h]

\* A key that is revoked for good is in the end no longer accepted, by any call:
\* late answers that still list it run out, and so does the cache they fill.
RevocationTakesEffect ==
  \A k \in Keys \ (Configured \cup FileKeys \cup EnvKeys) :
    <>[](k \notin valid) => <>[](\A h \in Handlers : key[h] = k => verdict[h] # "valid")

============================================================================
