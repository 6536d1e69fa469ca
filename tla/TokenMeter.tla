----------------------------- MODULE TokenMeter ----------------------------
(***************************************************************************)
(* From a response to a usage record: how the tokens of an API-key user's   *)
(* request are counted (ServeHTTP from its line 559 on, token_counter.go,   *)
(* and the tokenizers of TokenizerCache), how they are tallied              *)
(* (token_meter.go) and how the reporter collects the tallies.              *)
(*                                                                         *)
(* The tally of a key points to a map of its own with the tally per model.  *)
(* FlushUsage copies the tallies but not these maps: the heap of maps is    *)
(* part of the model.  Gateway has what comes before the count and what     *)
(* becomes of an agent's request, UsageReporter what becomes of a batch.    *)
(***************************************************************************)
EXTENDS Integers, Sequences, FiniteSets, TokenizerCache

CONSTANTS
  Handlers,    \* the callers that serve requests
  Errands,     \* the calls of the other callers
  Keys,        \* hashes of API keys
  Models,      \* model names
  Unknown,     \* the name of no model
  Lengths,     \* lengths, in bytes, of contents whose tokens are counted
  Usages,      \* what a backend may report: prompt, completion, cached tokens
  MaxRequests  \* bound on the requests served

ASSUME HandlersAssumption == Handlers \subseteq Callers
ASSUME ErrandsAssumption == Errands \subseteq Tasks \ {"count"}
ASSUME UnknownAssumption == Unknown \notin Models
ASSUME LengthsAssumption == Lengths \subseteq Nat \ {0}

\* A backend reports numbers of tokens.  That what it calls cached is part of the prompt
\* the code takes for granted; the model does not.
ASSUME UsagesAssumption == Usages \subseteq [prompt : Nat, completion : Nat, cached : Nat]

VARIABLES
  at,        \* at[h]: where handler h stands
  request,   \* request[h]: its key and its model
  tokens,    \* tokens[h]: inputTokens, outputTokens, cachedTokens
  usage,     \* the accumulator: per key the totals and a reference to its models
  heap,      \* the ModelUsage maps, by reference
  batch,     \* what FlushUsage returned and buildRecords has yet to read
  reported,  \* history: the tokens in the records built
  served,    \* history: the tokens due for requests with a known model
  requests   \* how many requests were served

meterVars == <<at, request, tokens, usage, heap, batch, reported, served, requests>>
vars      == <<cacheVars, meterVars>>
tally     == <<usage, heap, batch, reported>>

Stages == {"idle", "input", "upstream", "output", "record"}
Parts  == {"input", "output", "cached"}

\* The input is what of the prompt was not cached: below zero where the backend calls
\* more cached than it prompted, but never by more than that.
Amount == {a \in [Parts -> Int] : /\ a["output"] >= 0 /\ a["cached"] >= 0
                                  /\ a["input"] + a["cached"] >= 0}

Zero == [x \in Parts |-> 0]
Plus(a, b) == [x \in Parts |-> a[x] + b[x]]
AddTo(models, m, a) == [models EXCEPT ![m] = Plus(@, a)]
Tokens(i, o, c) == [x \in Parts |-> IF x = "input" THEN i ELSE IF x = "output" THEN o ELSE c]

NoModels == [m \in Models |-> Zero]
NoUsage  == [k \in {} |-> Zero]

Init ==
  /\ CacheInit
  /\ at = [h \in Handlers |-> "idle"]
  /\ request \in [Handlers -> [key : Keys, model : {Unknown}]]
  /\ tokens = [h \in Handlers |-> Zero]
  /\ usage = NoUsage /\ heap = <<>> /\ batch = NoUsage
  /\ reported = [k \in Keys |-> NoModels]
  /\ served = [k \in Keys |-> NoModels]
  /\ requests = 0

----------------------------------------------------------------------------
\* Counting.

\* What a tokenizer may make of a content; chars/4 but at least one, of any number of
\* chars (a content whose model is unknown is trimmed first); and the sanity check,
\* whose third test its second leaves nothing to.
Encodings(length) == 0 .. (length + 1)
fallbackCount(length) ==
  {IF chars \div 4 = 0 THEN 1 ELSE chars \div 4 : chars \in 0 .. length}
ValidateTokenCount(n, length) == IF n > length THEN length \div 2 ELSE n

\* CountTokensWithModel: a model that is unknown or mapped to no tokenizer is
\* counted without one.  Which one it is mapped to SetCustomMapping may change.
CountTokensWithModel(h, model) ==
  \/ CountPlainly(h)
  \/ model # Unknown /\ \E t \in Tokenizers : Call(h, "count", t)

\* countTokens: nothing is made of an empty content.
countTokens(h, model, empty, counting, done) ==
  IF empty
    THEN /\ at' = [at EXCEPT ![h] = done]
         /\ UNCHANGED cacheVars
    ELSE /\ at' = [at EXCEPT ![h] = counting]
         /\ CountTokensWithModel(h, model)

\* What the call came to.  Encoding may fail even with the tokenizer at hand.
Counts(h, length) ==
  fallbackCount(length) \cup (IF outcome[h] = "tokenizer" THEN Encodings(length) ELSE {})

Counted(h) ==
  UNION {{ValidateTokenCount(n, length) : n \in Counts(h, length)} : length \in Lengths}

\* A request passes the checks, and its messages are counted.  A body that names a
\* model is not empty.
Arrive(h, k, model, empty) ==
  /\ at[h] = "idle" /\ (empty => model = Unknown)
  /\ requests < MaxRequests
  /\ requests' = requests + 1
  /\ request' = [request EXCEPT ![h] = [key |-> k, model |-> model]]
  /\ countTokens(h, model, empty, "input", "upstream")
  /\ UNCHANGED <<tokens, tally, served>>

Forward(h) ==
  /\ at[h] = "input" /\ pc[h] = "out"
  /\ at' = [at EXCEPT ![h] = "upstream"]
  /\ \E n \in Counted(h) : tokens' = [tokens EXCEPT ![h] = Tokens(n, 0, 0)]
  /\ UNCHANGED <<cacheVars, request, tally, served, requests>>

\* The handler returns.
Finish(h) ==
  /\ at' = [at EXCEPT ![h] = "idle"]
  /\ tokens' = [tokens EXCEPT ![h] = Zero]
  /\ request' = [request EXCEPT ![h].model = Unknown]

\* next.ServeHTTP returns an error, and with it the handler.
Fail(h) ==
  /\ at[h] = "upstream"
  /\ Finish(h)
  /\ UNCHANGED <<cacheVars, tally, served, requests>>

\* A model that the request did not name may be named by the response.
Named(h, model) == request[h].model \in {model, Unknown}

\* Of a response, plain or streamed, the first usage object that has tokens is taken;
\* with none, the text is counted.
Found(u) == u.prompt > 0 \/ u.completion > 0

\* Mutant: the cached tokens are taken off the prompt's and then forgotten.
AnswerWithUsage_CachedLost(h, model, u) ==
  /\ at[h] = "upstream" /\ Named(h, model) /\ Found(u)
  /\ at' = [at EXCEPT ![h] = "record"]
  /\ request' = [request EXCEPT ![h].model = model]
  /\ tokens' = [tokens EXCEPT ![h] = Tokens(u.prompt - u.cached, u.completion, 0)]
  /\ UNCHANGED <<cacheVars, tally, served, requests>>

\* Priority 1: the usage the backend reports, of the prompt only what is not cached.
AnswerWithUsage(h, model, u) ==
  /\ at[h] = "upstream" /\ Named(h, model) /\ Found(u)
  /\ at' = [at EXCEPT ![h] = "record"]
  /\ request' = [request EXCEPT ![h].model = model]
  /\ tokens' = [tokens EXCEPT ![h] = Tokens(u.prompt - u.cached, u.completion, u.cached)]
  /\ UNCHANGED <<cacheVars, tally, served, requests>>

\* Priority 2: the generated text is counted.
AnswerWithText(h, model, empty) ==
  /\ at[h] = "upstream" /\ Named(h, model)
  /\ empty => model = request[h].model
  /\ request' = [request EXCEPT ![h].model = model]
  /\ countTokens(h, model, empty, "output", "record")
  /\ UNCHANGED <<tokens, tally, served, requests>>

CountOutput(h) ==
  /\ at[h] = "output" /\ pc[h] = "out"
  /\ at' = [at EXCEPT ![h] = "record"]
  /\ \E n \in Counted(h) : tokens' = [tokens EXCEPT ![h] = Tokens(tokens[h]["input"], n, 0)]
  /\ UNCHANGED <<cacheVars, request, tally, served, requests>>

----------------------------------------------------------------------------
\* Tallying.

RecordUsageWithModel(k, model, amount) ==
  IF k \in DOMAIN usage
    THEN /\ heap' = [heap EXCEPT ![usage[k].models] = AddTo(@, model, amount)]
         /\ usage' = [usage EXCEPT ![k].total = Plus(@, amount)]
    ELSE /\ heap' = Append(heap, [NoModels EXCEPT ![model] = amount])
         /\ usage' = [j \in DOMAIN usage \cup {k} |->
                        IF j = k THEN [total |-> amount, models |-> Len(heap) + 1] ELSE usage[j]]

\* Mutant: only a request with input and output is billed.
Billable_Both(h) == tokens[h]["input"] > 0 /\ tokens[h]["output"] > 0

Billable(h) == tokens[h]["input"] > 0 \/ tokens[h]["output"] > 0

\* What is due for a request: what was counted, but nothing where an input below zero
\* is all there is.
Due(a) == IF a["input"] < 0 /\ a["output"] = 0 THEN Zero ELSE a

Record(h) ==
  /\ at[h] = "record"
  /\ Finish(h)
  /\ LET k == request[h].key
         model == request[h].model
     IN  IF model = Unknown
           THEN UNCHANGED <<usage, heap, served>>
           ELSE /\ served' = [served EXCEPT ![k] = AddTo(@, model, Due(tokens[h]))]
                /\ IF Billable(h) THEN RecordUsageWithModel(k, model, tokens[h])
                                  ELSE UNCHANGED <<usage, heap>>
  /\ UNCHANGED <<cacheVars, batch, reported, requests>>

\* Mutant: the tallies are set to zero where they are, and keep their maps.
FlushUsage_InPlace ==
  /\ DOMAIN usage # {} /\ DOMAIN batch = {}
  /\ batch' = usage
  /\ usage' = [k \in DOMAIN usage |-> [total |-> Zero, models |-> usage[k].models]]
  /\ UNCHANGED <<cacheVars, at, request, tokens, heap, reported, served, requests>>

\* The reporter's cycle takes the tallies; the map they were in is replaced.
FlushUsage ==
  /\ DOMAIN usage # {} /\ DOMAIN batch = {}
  /\ batch' = usage
  /\ usage' = NoUsage
  /\ UNCHANGED <<cacheVars, at, request, tokens, heap, reported, served, requests>>

\* The records are built from the copies, outside the lock.
BuildRecords ==
  /\ DOMAIN batch # {}
  /\ reported' = [k \in Keys |-> [m \in Models |->
       IF k \in DOMAIN batch THEN Plus(reported[k][m], heap[batch[k].models][m])
                             ELSE reported[k][m]]]
  /\ batch' = NoUsage
  /\ UNCHANGED <<cacheVars, at, request, tokens, usage, heap, served, requests>>

----------------------------------------------------------------------------
\* The callers that serve no request: PreloadCommonModels, and whoever lists the
\* cache or maps a model.
Background(c) ==
  /\ \E op \in Errands, t \in Tokenizers : Call(c, op, t)
  /\ UNCHANGED meterVars

Tokenize(c) == CacheStep(c) /\ UNCHANGED meterVars
Acquire(c)  == Lock(c) /\ UNCHANGED meterVars

Serve(h) ==
  \/ Forward(h) \/ CountOutput(h) \/ Fail(h)
  \/ \E m \in Models \cup {Unknown} :
       \/ \E u \in Usages : AnswerWithUsage(h, m, u)
       \/ \E empty \in BOOLEAN : AnswerWithText(h, m, empty)
  \/ Record(h)

Next ==
  \/ \E h \in Handlers :
       \/ \E k \in Keys, m \in Models \cup {Unknown}, empty \in BOOLEAN : Arrive(h, k, m, empty)
       \/ Serve(h)
  \/ \E c \in Callers \ Handlers : Background(c)
  \/ \E c \in Callers : Tokenize(c) \/ Acquire(c)
  \/ FlushUsage \/ BuildRecords

Spec == Init /\ [][Next]_vars

\* Goroutines are scheduled, backends answer and downloads end.  sync.Mutex hands
\* itself over to whoever has waited for a millisecond, so nobody waits for ever
\* while others take turns.
Fairness ==
  /\ \A c \in Callers : WF_vars(Tokenize(c)) /\ SF_vars(Acquire(c))
  /\ \A h \in Handlers : WF_vars(Serve(h))

FairSpec == Spec /\ Fairness

----------------------------------------------------------------------------
\* Properties.

\* A map of usage, live or flushed, refers to maps of models.
Entries == [total : Amount, models : Nat \ {0}]

UsageOK(map) ==
  /\ DOMAIN map \subseteq Keys
  /\ \A k \in DOMAIN map : map[k] \in Entries /\ map[k].models <= Len(heap)

\* Every variable has its type; no output and no cached count is negative, and an input
\* count, a request's or a sum of them, falls below zero by no more than the cached
\* tokens beside it (ServeHTTP line 606, which subtracts them unchecked).
TypeOK ==
  /\ CacheTypeOK
  /\ at \in [Handlers -> Stages]
  /\ request \in [Handlers -> [key : Keys, model : Models \cup {Unknown}]]
  /\ tokens \in [Handlers -> Amount]
  /\ heap \in Seq([Models -> Amount])
  /\ UsageOK(usage) /\ UsageOK(batch)
  /\ reported \in [Keys -> [Models -> Amount]]
  /\ served \in [Keys -> [Models -> Amount]]
  /\ requests \in Nat

\* What a map of usage has of a key and a model.
In(map, k, m, x) == IF k \in DOMAIN map THEN heap[map[k].models][m][x] ELSE 0

\* Every input and output token due for a known model is in the accumulator, in the
\* batch being reported or in the records built, and in one of them only: none is lost
\* between requests and flushes, none is reported twice, and none moves to another
\* model (ServeHTTP line 630, RecordUsageWithModel, FlushUsage, buildRecords).  Cached
\* tokens are left out: the code drops those of a response that has no others.
EveryTokenOnce ==
  \A k \in Keys, m \in Models, x \in {"input", "output"} :
    served[k][m][x] = In(usage, k, m, x) + In(batch, k, m, x) + reported[k][m][x]

\* Input and cached tokens together, which are the prompt's, are never below zero.
Size(a, x) == IF x = "input" THEN a["input"] + a["cached"] ELSE a[x]

\* The tokens of one kind in a map of models, one by one: what their sum counts.
Units(models, x) == UNION {{m} \X (1 .. Size(models[m], x)) : m \in Models}

\* The totals of a key are the sum of its models', in the accumulator and in a batch
\* that was flushed, whatever is recorded after the flush: the maps the copies refer
\* to are not written again.
TalliesAgree ==
  \A map \in {usage, batch} : \A k \in DOMAIN map, x \in Parts :
    Size(map[k].total, x) = Cardinality(Units(heap[map[k].models], x))

\* Every request that is let in ends: none is left behind the tokenizers' lock,
\* whoever loads, fails or takes turns before it.
RequestsEnd == \A h \in Handlers : at[h] # "idle" ~> at[h] = "idle"
============================================================================
