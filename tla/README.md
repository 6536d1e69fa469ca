# secret-ai-caddy: a TLA+ development

This directory holds TLA+ specifications of the Caddy middleware in
`src/secret-reverse-proxy` (the only stateful program of the repository), the TLC
configurations that check them on small instances, and TLAPS proofs of theorems about them
for every value of their constants. Paths below are relative to `src/secret-reverse-proxy/`
unless they say otherwise. `PROJECT.json` has the index: the source lines of every definition,
the runs, the hazards with the properties that watch them, the findings and the theorems.

## 1. The system

The middleware stands before an LLM backend. A user sends an API key, an agent a wallet address
with a signature (the x402 path). A request is authorized, checked against the balance the
client has at DevPortal, forwarded, and its tokens are billed: a user's through an accumulator
that a background loop reports, an agent's by one call of its own.

| Component | Code | State it keeps | Operations |
|---|---|---|---|
| usage reporter | `token_reporter.go`, `token_meter.go` | accumulator per instance; goroutine with its batch, attempt and directory listing; `stopChan`; report files in `/tmp/caddy-failed-reports` | `RecordUsageWithModel`, `FlushUsage`, `StartReportingLoop`, `submitWithRetry`, `persistFailedReport`, `retryFailedReports`, `Stop` |
| API key validator | `validators/api_key_validator.go` | `cache`, `lastUpdate`, a lock; master keys in a file and the environment | `ValidateAPIKey`, `CheckMasterKeys`, `UpdateAPIKeyCache`, `CleanupCache` |
| request pipeline | `secret_reverse_proxy.go` | none of its own beyond the request in each handler | `ServeHTTP`, `serveX402` |
| DevPortal client | `x402/portal_client.go` | the shared HTTP client and its timeout; the balances are the portal's | `GetBalance`, `GetUserBalance`, `ReportUsage` |
| metrics collector | `factories/factories.go` | counters | `Record...`, the metrics endpoint |
| life cycle | `secret_reverse_proxy.go` | `quitChan`, `running` of the reporter, the instances Caddy holds | `Provision`, `Validate`, `Cleanup` |
| body handler, writers | `metering/request_body_handler.go`, `token_writer.go` | a request's buffers | `SafeReadRequestBody`, `Write`, decompression |
| rate limiter | `metering/token_rate_limiter.go` | usage windows per user | `CheckRateLimit`, `RecordUsage`, a cleanup loop; not called by the middleware |
| tokenizers, counting | `metering/accurate_tokenizer.go`, `metering/token_counter.go` | two maps of loaded tokenizers and one of models, under one read-write lock | `CountTokens`, `PreloadCommonModels`, `GetCachedModels`, `SetCustomMapping` |
| signatures, challenges | `x402/eip191.go`, `x402/challenge.go` | none | pure functions |
| contract query | `query-contract/` | a key pair file | `QueryContract` |
| configuration | `config/`, `UnmarshalCaddyfile` | `Config` | parsing, defaults |

How they interact. A request handler calls the validator, then the portal client, then the
next handler of the chain, and then either the accumulator (users) or a goroutine with
`ReportUsage` (agents). The reporting goroutine of each instance drains its accumulator once
per interval, posts the batch to the metering endpoint, and shares one directory of failed
reports with every other instance of the process: the directory's name is a constant. The
validator, the portal client and the reporter share `http.DefaultClient` and its timeout. Caddy
calls `Provision`, then `Validate`, on a new configuration and `Cleanup` on the old one
afterwards, so two generations of one block live side by side during a reload.

What is hard here, and what correctness means:

- *reporter*: retries with backoff and a second retry loop over the disk, a file written in
  place, a process that may die anywhere, an endpoint whose answer may be lost, and several
  loops over one directory. Usage must not be lost except for the reasons the code names,
  not billed twice by retrying alone, not retried for ever, and not come back once settled.
- *validator*: queries made without a lock overlap and answer late. A revoked key must stop
  being accepted within a bound that can be stated; a listed key should not be refused.
- *pipeline*: the order of filter, key check, balance check, forward and billing decides who is
  served and what is charged; the balance is read before and charged after, with any number of
  requests in between. Every served request must have passed its gate, have one bill, and the
  overdraft must be bounded by something.
- *life cycle*: start, reload and stop overlap with each other and with requests. A load must leave
  one loop for the instance that serves and none for any other, and a bad configuration must be
  refused without harm.
- *contract query*: whoever finds no key pair file makes one, and each query reads it twice. Once it
  is there no query should fail because of it.
- *rate limiter*: check and record are two calls, and a cleanup loop runs beside them. The overshoot
  must be bounded and a window in force kept.
- *tokenizers and tallies*: requests that miss a tokenizer at once, a download under the lock that all
  counting needs, and copies of tallies that share maps with the originals. A tokenizer should be
  loaded once, no request be left waiting, and no token counted be lost or billed twice.
- *configuration*: what an operator writes decides whether there is metering at all, and what is
  wrong in it is found in two places, one before anything runs and one after.
- *body handler*: what is read for counting replaces the body that is forwarded. A backend must not be
  given a part for the whole, and a part must not be counted as the whole.

`PROJECT.json` lists the hazards one by one at their lines, those no property covers yet with
the reason.

## 2. The modules

| Module | Models | Kind |
|---|---|---|
| `UsageReporter` | the reporting loops, accumulators, directory, endpoint, crashes | specification |
| `MCUsageReporter` | symmetry for TLC | instance |
| `BillingLedger` | what metering promises of an event: owed, attempted, billed, dated, given up | abstract specification, implemented by `UsageReporter` |
| `UsageReporter_proof` | the theorems of `UsageReporter`, and the refinement | proofs |
| `KeyValidator` | overlapping calls of `ValidateAPIKey` | specification |
| `MCKeyValidator` | symmetry for TLC | instance |
| `KeyValidator_proof` | its theorems | proofs |
| `Gateway` | `ServeHTTP` and `serveX402` against the portal's balances | specification |
| `MCGateway` | symmetry for TLC | instance |
| `Gateway_proof` | its theorems | proofs |
| `TokenizerCache` | the tokenizers' maps and lock, used by any number of callers | specification |
| `TokenMeter` | counting, tallying, flushing and the records; extends `TokenizerCache` | specification |
| `MCTokenMeter` | what the backend reports, for TLC | instance |
| `TokenMeter_proof` | the theorems of both | proofs |
| `Caddyfile` | `UnmarshalCaddyfile`, the defaults and what `Validate` asks, as operators | pure |
| `Lifecycle` | `Provision`, `Validate`, `Cleanup` and the loops across reloads, of what `Caddyfile` makes of an operator's blocks | specification |
| `MCLifecycle` | the blocks for TLC | instance |
| `Lifecycle_proof` | its theorems | proofs |
| `ContractQuery` | overlapping calls of `QueryContract` over one key pair file; also the module of its run | specification |
| `ContractQuery_proof` | its theorems | proofs |
| `RateLimiter` | checks, records and cleanup of the usage windows | specification |
| `MCRateLimiter` | windows and symmetry for TLC | instance |
| `RateLimiter_proof` | its theorems | proofs |
| `BodyCapture` | one request's body and its response's through the middleware; also the module of its run | specification |
| `BodyCapture_proof` | its theorems | proofs |

Operators named after an action with a suffix (`Flush_KeepsUsage`) are mutants: the action with
a plausible bug. They are not part of any specification; each is a witness that a property
fails when the code is wrong in that way.

### UsageReporter

A usage *event* is one call of `RecordUsageWithModel`. The code sums tokens per API key and
model; here a batch is the *set* of the events it sums, so that losing or repeating one can be
seen. A reporter is one middleware instance.

| In the model | In the code |
|---|---|
| `acc[r]` | the `tokenUsage` map of an instance's accumulator |
| `pc[r]`, `job[r]`, `listing[r]` | the goroutine's place, the report on its stack with name, time stamp, retry count and attempt, and the rest of the `ReadDir` result |
| `files` | `/tmp/caddy-failed-reports`, by name; a name is the second it was made in |
| `stopping[r]` | `stopChan` is closed |
| `parses[r]` | `http.NewRequest` accepts the instance's `metering_url`, of which `Validate` asks only that it is not empty |
| `clock` | `time.Now()` |
| `billed`, `posts`, `unsent`, `recorded` | history only: how often the endpoint has applied an event, how often it was sent, how often its submission ended before it could be, what was recorded |
| `Start` | `StartReportingLoop` up to its first `retryFailedReports`, of an instance with a URL of either kind |
| `Record` | `RecordUsageWithModel`, from a handler, also after the loop has ended |
| `Flush`, `FlushNothing` | the ticker's case: `FlushUsage`, empty or not |
| `Scan`, `EndScan`, `SkipReport`, `DiscardReport`, `RetryReport` | `ReadDir` and the loop over the names, in their order; unreadable, expired, or to be retried |
| `Accepted`, `Rejected`, `Wake` | one attempt of `submitWithRetry` and the backoff after it; a rejected report may have been applied all the same |
| `NotSent` | the returns of `submitWithRetry` before `client.Do`: nothing is sent, and there is no backoff and no further attempt |
| `OpenReport`, `WriteReport` | the two halves of `os.WriteFile`: truncate, then write |
| `RemoveReport` | `os.Remove`, whose error the code ignores |
| `Stop`, `ExitLoop` | `Stop` and the select's case for `stopChan`; the accumulator is not flushed |
| `Crash` | only `files` (and the history) survive |

Steps are cut where another goroutine, another process or a failure can come in between: at every
call of the file system and of the endpoint, and between attempts. One unit of `clock` is any span
between a second (the resolution of a name) and `retryBackoff` (the shortest backoff), so `Wake`
advances it and nothing else is assumed about how fast anything is. A file system call
may fail (`DiskFault`). `WriteReport` writes to the file that was truncated, which another reporter may have
unlinked, rewritten or made anew by then: `Detached` says when the write may go to a file that has no name
any more. It is judged by what is seen at the name, so it is not tracked which of two files of one name a
writer holds: the model allows the write to be lost, to stand or to be mixed in each of these cases.

### BillingLedger

What is left of the reporter when accumulators, goroutines and files are forgotten. `UsageReporter`
maps to it (`Ledger`, an `INSTANCE` with the mapping): `owed` is the set of events that some accumulator, batch or
legible report holds (`Held`), `tried` (`posts`), `unsent` and `billed` its counts, `dates[e]` the dates on the durable
copies of an event, `ended` the stopped loops, `mishaps` the crashes, failing file operations and
unconfirmed attempts so far. The ledger refuses to forget an event but for a reason (applied,
attempted `Attempts` times, older than `MaxAge`, a mishap, or a loop that ends), to apply it again
without a mishap, to renew its date, and to owe again what is no longer owed. A submission that could not be
sent (`Misdirect`) counts for `Round` attempts, `MaxRetries` here: the code gives up such an event after as many
submissions as one that was refused each time, although it has sent nothing. `Overwrite` is the one more reason
that such batches bring: without a backoff behind it one may take the file of the same second. The map from steps to
steps is not one to one: `WriteReport` is `Persist` or a stutter as the report is new or rewritten, and
`RemoveReport` settles or gives up as the report in hand was applied or expired.

### TokenizerCache and TokenMeter

`pc[c]` is where a caller is in `getOrLoadHFTokenizer` or `getOrLoadSPTokenizer` (they do the same with a map each),
`reading` and `writing` are the two sides of `sync.RWMutex`, which blocks new readers while a
writer waits (`Drained` is the writer's turn), and `loaded` is the two maps. `LoadFails` remembers nothing,
as in the code: the next call tries again. `TokenMeter` has the handler from its count to its record:
`at[h]`, the tokens it has counted, and the count that calls the cache (`countTokens`,
`CountTokensWithModel`). What a tokenizer makes of a text is any number up to one more than its
length (a special token), which `ValidateTokenCount` may halve; the fallback's quarter is exact.
What a backend reports is any three numbers of tokens: the input is the prompt less the cached tokens, and is
below zero if there are more of those. `Due` is what is due for a request, nothing where `ServeHTTP` finds
neither input nor output above zero, and `served` sums it.
The accumulator `usage` holds totals and a *reference* into `heap`: `FlushUsage` copies the struct
(`*v`) and so the reference, and `BuildRecords` reads through it when the lock is long released. An agent's
request counts in the same way but has no tally: see `Gateway`.

### Caddyfile

A block is a sequence of directives with an argument that is there or not and parses or not.
`Accepted` is what each case of the switch asks, `Configured` what comes of a block (the last
mention of a name counts, else the default), `UnmarshalCaddyfile` the configurations of the blocks in
which every directive is accepted, and `Accepts` is `Validate`. `Lifecycle` loads only these: a block
that does not parse stops before there is an instance. A word may switch on one thing and not
another: "yes" does not switch on metering.

### KeyValidator

`valid` is the contract's list, `cache` and `age` the validator's map and the time since
`lastUpdate`. Each handler `h` goes through the numbered blocks of `ValidateAPIKey`: `RefuseBlank`
(1), `AcceptConfigured` (2), `MasterError`/`AcceptMaster`/`NotMaster` (3), `Hit`/`Miss` under the
read lock (5, 6), `Answer`, `UpdateFails` and `Store` for `UpdateAPIKeyCache`, and `Result` for
the second lookup (8). Between `Answer`, when the contract computes its list, and `Store`, when the
write lock is taken, other handlers move freely: the code holds no lock and has nothing that joins
queries. `reqAge[h]` is the time since `h` found that it had to ask, and two variables are history only:
`listed[h]`, that the contract has listed the key ever since the call began, and `crossed[h]`, that
the cache was replaced between the call's own `Store` and its `Result`. `RevokeKey`, `AddKey`
and `FileChanges` are the world around it; `Tick` is time. A "broken" file does not open or its reading fails part of
the way: a key on a line before that is accepted, any other ends with the error.
Time is kept as *ages* that stop growing at `Cap`, past the largest age anything compares, so
runs with unlimited time have finitely many states.

`QueryTime` bounds how long an answer travels. The code has such a bound only because the reporter
(`token_reporter.go:205`) and `NewPortalClient` (`x402/portal_client.go:32`) set a timeout on
the `http.DefaultClient` that the contract query also uses. With metering and x402 both disabled
nothing sets it, and what is said here about revocation does not apply.

### Gateway

Each request `q` is a handler cut at its calls out: key validation, balance, backend, report.
`who[q]` is the sender, `model[q]` whether the body names a model ("request"), only the
backend's response does ("response"), or neither. `UserMayPass` fails open and `AgentMayPass` with
`PortalDown` fails closed, as the two paths of the code do. `seen[q]` records what the
portal said, `cost[q]` what the response is worth, `acc` and `sending` where its bill is.
`status[q]` is the middleware's answer or the backend's own (`BackendStatuses`): `next.ServeHTTP` returns nil for a
backend's 4xx and 5xx as well, and nothing looks at the status, so what follows is the same for all (`Relays`);
only an error of `next.ServeHTTP` (`Broken`) ends a request without count and bill. `MasterKeys` are those of the
keys that `ValidateAPIKey` accepts by itself; the pipeline does not tell them apart.
`Charge` is the portal's and external. The bodies of `KeyValidator` and `UsageReporter` are
not repeated: validation is the choice between `KeyRefused` and `KeyAccepted`, and the
reporter is `ReporterPosts`, any number of times up to `MaxPosts` (`KeepsLedger` of
`UsageReporter` says when it is more than one), and `ReporterDone`.

### Lifecycle

Load number `g` makes instance `g`. `stage[g]` is what Caddy has done with it, `running[g]`,
`stopChan[g]` and `loop[g]` are the flag, the channel and the goroutine of its reporter, `acc[g]`
says that its accumulator holds something, and `alive` that the process has not panicked.
`Provision` picks a configuration (one of `Caddyfile`'s) and, with metering on, starts the goroutine at once;
`Validate` comes after it; `LoadFails`, `Activate` and `Unload` are Caddy's and external. `Idle`
says that Caddy is done with what it was asked, and guards the next load: it loads one configuration
at a time. `Cleanup` and `StopReturns` are the two ends of `Middleware.Cleanup`, between which the
loop may or may not have ended (`Stop` waits a second at most, so its polling is not modelled).
`quitChan` is closed by `Cleanup` and read by nobody; it is left out. The loop's steps are
those of `UsageReporter` without what they do to reports.

### ContractQuery

`file` and `pair` are `id_tx_io.json`; pairs are numbered as they are generated. A query goes
through `FetchCodeHash`, `getTxSenderKeyPair` (`GeneratePair`, `TruncateFile`, `WriteFile`, or
`FindFile` and `ReadFile`), `Encrypt`, `Send`, and `getTxSenderKeyPair` once more before `Decrypt`.
Steps are cut at each call of the file system and of the network: no lock is held anywhere. Of two
writers the later one wins as a whole, because all pairs have one length. A write that fails leaves the file as it
is, illegible, or whole (when closing it fails). A crash keeps the file only.

### RateLimiter

`windows[u][k]` is the window of kind `k` (minute, hour, day in the code; any numbered set here),
`known[u]` the user's entry. Each of `CheckRateLimit` (`CheckPasses`, `CheckRefuses`), `RecordUsage`
and `CleanupExpiredWindows` (`Cleanup`) holds the lock and is one step; between the check and the
record of a request anything may happen. A window is expired *after* its reset time for a check
and no longer in force *at* it for the cleanup, as in the code. `Abandon` is a caller that
records nothing. The middleware does not call the limiter: this is what a caller can rely on.

### BodyCapture

One request and its response. A text is the number of its bytes; `body` is what `r.Body` still has to
give, as the positions where it begins and ends and whether it is compressed. `ReadRaw` is the
unlimited read of `serveX402`, for agents only. `Open` and `OpenFails` are `getDecompressedReader`;
`Read`, `ReadEOF` and `ReadFails` are the ways on and out of the loop of `SafeReadRequestBody`, and all
that leave it replace the body (`EndRead`). `Inject` stands for the rewriting of JSON bodies, which
needs a text that parses: `request.json` is where the JSON object of the request ends, behind which there
may be white space, and what was read parses if it has all of the object. It is what alone changes `r.ContentLength`. `Forward` and
`ForwardFails` are the next handler: net/http sends exactly the declared length or fails. A compressed
body's length is unknown, so either may happen to it. `Write` gives `b` bytes to the writer, of which the
client takes `n`, and `IsComplete` is what the streaming writer says of its buffer. The middleware
makes the basic writer for every request; the streaming one is in the code without a caller, and the
model has both.

## 3. What is checked

| Run | Instance | Shows |
|---|---|---|
| `reporter_one` | 1 reporter with a URL of either kind, 2 events, 1 crash, 1 failing file call, 1 unconfirmed attempt | `OnePlace`, `PostsBounded`, `KeepsLedger` |
| `reporter_two` | 2 reporters with URLs of either kind, 1 event, fair | `NoReturn`, `SharedCustody`, `Settles`, `StopHonoured` |
| `reporter_overwrite` | 2 reporters, 2 events, nothing fails | `PersistedForRetry` is violated |
| `validator_two` | 2 overlapping calls; a contract, a configured and a filed key; `CleanupCache`; fair | `CacheFresh`, `UncrossedIsDefinitive`, `AcceptedWasListed`, `RevocationTakesEffect` |
| `validator_overlap` | 2 overlapping calls | `DefinitivelyInvalid` is violated |
| `gateway_pair` | 2 requests; agents, users and a master key; failures, answers of 200 and 402 by the backend, top-ups | `OverdraftBounded`, `OneBill`, `BilledWasServed`, `Gated`, `CountedOnce` |
| `lifecycle_reload` | 3 loads of blocks that are good, mended, with a bad interval, without a URL, unmetered or illegible, fair | `NoOrphanLoop`, `LiveIsMetered`, `LoopsEnd`, `UsageFlushed` |
| `lifecycle_interval` | the same | `RefusedNotFatal` is violated |
| `contract_two` | 2 queries, 1 crash, 2 failing file calls, fair | `CalmIsSafe`, `TornByFailureOnly`, `PairSettles` |
| `limiter_two` | 2 requests, 2 users, 2 windows | `OvershootBounded`, `WindowsKept` |
| `body_small` | texts of up to 4 bytes, limits and chunks of 2 | `UnmarkedIsWhole`, `DeclaredIsWhole`, `CompleteIsWhole` |
| `tokens_two` | 2 requests, 1 other caller, 1 tokenizer, 1 key, 2 models, 4 reports of usage, fair | `LoadedOnce`, `EveryTokenOnce`, `TalliesAgree`, `RequestsEnd` |

Each passing run checks its module's `TypeOK` as well (`reporter_two` leaves it to `reporter_one`).

The properties, in words:

- `KeepsLedger`: the reporter implements `BillingLedger`. An event that an accumulator, a batch in hand or
  a legible report answers for stops being answered for only if the endpoint applied it, it was submitted
  `maxRetries + 1` times, each time attempted `maxRetries` times or not sent at all, its report, whose date no
  retry renews, grew too old, a crash, a failing file call or `Stop` came in between, or a batch that
  could not be sent took its file within the same second; and it is applied again only after a mishap.
  `NoReturn`, with two reporters as well: what nobody answers for is not billed later.
- `OnePlace`, `PostsBounded`: a batch is never in two places, and is sent a bounded number of times, where a
  submission that could not be sent counts for the `maxRetries` attempts it stands for.
- `Settles`: a batch is in the end applied or given up, as long as a loop over the directory runs, while others are
  being stopped or started too; nothing is assumed of the endpoint. `StopHonoured`: a loop told to stop ends.
- `SharedCustody`: however many reporters share the directory, nobody stops answering for an event but for
  the reasons above (`Excused`), or where one of them is about to truncate or remove a report and
  another batch is at its name, or is about to write and its file is gone or written (`Clash`).
  Finding 1 is such a meeting; there is no other way to lose a report between two reporters.
- `FreshName` (proved, in no run): a lone reporter never writes a batch that was sent in vain over another file. It is
  the backoff that makes this so: it outlasts the second in the name. A batch that could not be sent has none
  behind it, and nothing is claimed of it: `Hasty` is what it may do.
- `CacheFresh`, `AcceptedWasListed`, `RevocationTakesEffect`: however queries overlap, a key is
  accepted from the cache at most `CacheTTL + QueryTime` after the contract dropped it (or
  within `QueryTime` of when the call found that it had to ask), and in the end not at all.
- `UncrossedIsDefinitive`: the only way to refuse a listed key without an error is that the cache was
  replaced between a call's update and its lookup.
- `OverdraftBounded`: an agent's balance is at least `MinBalance - MaxCost * n`, with `n` the most
  requests of that agent that were once past the check and not yet charged. The check reserves
  nothing, so no better bound exists.
- `OneBill`: an agent's request is charged once at the most. That it is charged is not claimed: a report is sent once.
- `BilledWasServed`: what is billed the backend has answered, with whatever status, and named a model, and no error
  cut it short; and what the URL filter blocks the backend never sees, but for agents, who leave before the filter.
  The opposite, that what was served is billed, is not so and not claimed.
- `Gated`: with x402 an agent's request that names a model is served only if the portal said the balance is
  enough, a user's only after the portal was asked; and the middleware's own 402 and 503 go only to such requests,
  when the portal said no or failed. Master keys are left out, because documents and code disagree (below).
- `CountedOnce`: a request is not counted both as authorized and as rejected.
- `NoOrphanLoop`, `LiveIsMetered`: when Caddy is done, the only loop not told to stop is that of the
  serving instance; and at any time the serving instance has one. `LoopsEnd`, `UsageFlushed`: the
  loop of an instance that is gone ends, and usage is flushed unless its instance is replaced.
- `CalmIsSafe`: a query that begins when a pair is on disk and nobody is making one never fails because
  of the pair. `TornByFailureOnly`: concurrency alone leaves no illegible file.
  `PairSettles`: in the end no pair is made any more.
- `OvershootBounded`: a window holds at most its limit plus `MaxTokens` for each request of its user that
  was once running at the same time. `WindowsKept`: no step forgets, moves or lowers a window in force.
- `UnmarkedIsWhole`: a body read without error and not marked as truncated is whole, and a marked one is
  longer than the buffer. `DeclaredIsWhole`: the backend has all of an uncompressed body whose
  length was declared, or the request fails; of a body that was rewritten it may lack white space behind the JSON
  object. net/http's promise to send just the declared length is external. `CompleteIsWhole`: what the streaming writer calls
  complete is what the client has; the basic one has kept at least that.
- `LoadedOnce`: however many requests miss a tokenizer at once, it is loaded once, and nobody reads or
  writes the maps while somebody loads. `RequestsEnd`: no request is left behind the lock, whoever
  loads, fails or takes turns.
- `EveryTokenOnce`: the input and output tokens due for a request with a known model, an input below zero
  included, are in the accumulator, in the batch being reported or in a record, once and under their model. `TalliesAgree`: a
  key's totals are the sum of its models', in a flushed batch too, whatever is recorded after the flush.

Deadlock is checked in `tokens_two` only, where somebody can always go on. Elsewhere a reporter may be
stopped, a request is served once, and a bounded clock and bounded failures run out, so every
instance may really come to rest.

### What the runs found

1. **A persisted batch can be overwritten** (`reporter_overwrite`). Two instances share the
   directory and name a file after the second. The second of two batches given up within one
   second truncates the first; two rewrites of one report may also mix. `METERING.md:434`
   says failed data is persisted for later retry. A single instance with a URL it can send to is safe
   (`FreshNames`, `CustodyKept`), and with more the loss is at such a meeting only (`SharedCustodyKept`).
2. **`(false, nil)` is not definitive** (`validator_overlap`). `api_key_validator.go:76` says it is.
   A late, older answer replaces the newer cache before the call that fetched it reads its result,
   and a key that was listed throughout is refused. Nothing else goes wrong with it (`Definitive`).
3. **A configuration that should be refused kills the process** (`lifecycle_interval`). `Validate`
   refuses a metering interval that is not positive, but `Provision` has started the loop by then, and
   `time.NewTicker` panics in its goroutine. `UnmarshalCaddyfile` parses the interval without
   checking it. `secret_reverse_proxy.go:250` to 252 have `Validate` verify the configuration before requests
   are handled, and line 351 has it refuse such an interval. Other panics are not modelled.

Divergences between documents and code met on the way, without a run:

- `design/x402/implementation.md:521` of the repository says that truncating an agent's body affects the token
  count only, not the forwarding. `SafeReadRequestBody` puts the part it has read in place of the body: beyond
  the buffer's limit (5 MB at most) a chunked request reaches the backend cut off, after its
  signature was verified over all of it, and one with a declared length fails. `BodyCapture` has the behaviour.
- `design-vms.md:345` and `impl-vms.md:1294` show `cache_ttl` inside the block, where it is an unknown
  directive and refused; it is read on the line of the block's name only.
- `metering yes` leaves metering off, where `enable_metrics yes` and `x402_enabled yes` switch on.
- `max_retries`, `retry_backoff` and `token_counting_mode` are parsed and checked, and then only logged:
  the reporter has its own constants, and there is one way to count.
- A response whose prompt was cached as a whole and that generated nothing is not recorded
  (`secret_reverse_proxy.go:631` looks at input and output only), cached tokens included; the agents' path counts
  the prompt as reported and without `ValidateTokenCount`. The third test of `ValidateTokenCount` cannot be reached.
- `normalizeModelName` reads the map of models without the lock `SetCustomMapping` writes it under; the latter,
  like `LoadTokenizerFromFile`, `GetCachedModels`, `PeekUsage` and `RecordUsage`, is called by tests only.
- `x402-updated.md:40` answers 402 to a user whose balance is insufficient. `GetUserBalance` returns -1 for
  an unknown user and `ServeHTTP` (line 550) lets any negative balance through, that of a known user
  included, if the portal lets a balance become negative.
- A gzip body is forwarded decompressed but with its `Content-Encoding` header still in place.
- `design/x402/architecture.md:359` says that the response writer caps its buffer; the writer in use
  (`token_writer.go:32`) keeps every response whole.
- `README.md:191` of the repository promises no unpaid usage when the portal is unreachable; that holds of
  the balance check, while the report after the answer is sent once and its failure logged
  (`x402-updated.md:175` does call this fail-open).
- `README.md:192` and `x402_Caddy_Implementation.md:205` of the repository say that master keys skip the portal's
  balance check, and `x402_integration_test.go:299` expects no call to the portal for one (it looks at usage reports
  only). `ServeHTTP` (lines 541 to 556) asks the portal about every accepted key of a request that names a model, and
  answers 402 if the portal knows the key's hash and its balance is short. `Gateway` has what the code does
  (`KeyAccepted` and `UserLacksBalance` ask for no kind of key), and `Gated` claims nothing of master keys.
- A `metering_url` that is no URL (a control character in it, say) passes `Validate`
  (`secret_reverse_proxy.go:344`). Every submission then returns before anything is sent
  (`token_reporter.go:196`), and each batch is discarded after three retries of its report, without one attempt
  at the endpoint, where `METERING.md:434` has it persisted for later retry. And with nothing to wait for, a
  batch may be written over the report of the same second by its own reporter.
- `x402-updated.md:70` says that failed reports of agents' usage are retried; `ReportUsage` is called once
  (`secret_reverse_proxy.go:1160`).
- `ARCHITECTURE.md:319` says that x402 records usage through the `TokenAccumulator`; `serveX402` must not and
  does not (`OneBill`, and the note at line 1183).
- A backend's 4xx or 5xx that names a model is billed like any answer: the status is not looked at. No document
  says otherwise.
- `x402.md:18` puts the blocked-URL check first; an agent's request leaves for `serveX402` before it.
- `metering/token_rate_limiter.go:90` says that a user without an entry should not happen after a check;
  it does when all windows have run out and a cleanup came before the record.
- `x402-updated.md:63` and 174 give a timestamp window of 60 seconds where `secret_reverse_proxy.go:1060` has 30.

### Bounds, and why they are enough

- `MaxRetries = 2` (the code: 3): one attempt that sleeps and one that does not are both ways to go on after an
  attempt that failed; a submission that cannot be sent (`NotSent`) is the third way out of `submitWithRetry`. Two
  retries of a file are every branch of its count.
- `MaxAge = 4` (the code: 24 hours): small enough to be passed by sleeping and ticking, large
  enough for a report to reach `MaxRetries` first, so both reasons to discard occur.
- `MaxClock` bounds `TimePasses` only, sleeps go on advancing the clock; it is 3 with one reporter
  and 1 with two. 0 in `reporter_overwrite`: the collision needs no time to pass.
- `MaxCrashes`, `MaxFaults`, `MaxUnclear` are 1 in `reporter_one`, so that each can meet each of the
  others; the proofs are for any number. They are 0 in `reporter_two`, where liveness is at issue:
  a crash ends a promise, and a bounded number of faults only delays one.
- Two events and one reporter, or one event and two: batches that meet need two events, files
  that are fought over need two reporters. The theorems about any number of reporters have both. Both together in `reporter_overwrite`.
- `CacheTTL` of 1 or 2, `QueryTime = 1`, and `Cap` above their sum: an answer can be late, a cache
  can be fresh, about to expire and expired. One key of each kind the code tells apart.
  `Cap` loses nothing: no comparison reaches it.
- Two handlers: overtaking needs two.
- `BackendStatuses = {200, 402}`: a success and an error that the middleware answers with as well.
- `MinBalance = 1`, `MaxCost = 2`, `Funds = {0, 1}`: a client may start short or with just enough, and one
  request can overdraw. One top-up lets an agent pass again; `MaxPosts = 2` lets the reporter
  bill twice. Two requests share a balance, which is what a check without a reservation is about.
- `MaxLoads = 3`: an instance can be served, replaced by a second and that by a third, with a refused load
  at each place. Only one load is under way at a time, so more add repetition.
- `contract_two`: two queries may both find no file, and one can read while the other writes; the crash
  can spoil the file, and so can either of the two failing calls.
- `limiter_two`: a window of 1 tick and limit 1, one of 2 ticks and limit 2, and tokens up to 2 within 3
  ticks: each window refuses, runs out and is cleaned up while the other is in force.
- `tokens_two`: two requests may miss the same tokenizer at once while a third caller loads it or has failed to;
  a request may record before, between and after a flush and its records, into an entry that is there or
  is made anew, under the same model or another. A text of length 1 has counts of 0, 1 and 2, one
  of which is halved; of the four usages one is passed over, and the others have cached tokens, fewer
  than were prompted or more, with and without something generated.
- `body_small`: texts of 0 to 4 bytes against limits of 2 are empty, within, at, one past and further past
  the limit, in chunks of one or two. `MaxBody = MaxBuffer` is every configuration up to 5 MB and the case
  in which the extra byte of the reader's limit matters; the proofs have `MaxBuffer <= MaxBody`.

### Fairness

`UsageReporter`: `WF(Loop(r))` because a goroutine is scheduled, its ticker fires, the HTTP client has a
timeout and every sleep ends. `SF(ExitLoop(r))` because the loop is at its select again and again, and
Go's select picks among ready cases at random: a closed `stopChan` is not passed over for ever. No
fairness for `Record`, `Start`, `Stop`, `Crash` or the clock, and none for the endpoint's answers: the
liveness properties hold when it refuses everything. `KeyValidator`: `WF` of each call's steps
and of `Tick`; none for requests, the contract or the file. `Lifecycle`: `WF` of Caddy's steps and of
each loop's, since Caddy finishes what it has begun, and `SF(ExitLoop)` as above; none for loads,
unloads and requests. `ContractQuery`: `WF` of each query's steps, which wait for nobody; none for
new queries and crashes. `TokenMeter`: `WF` of a caller's steps in the cache and of a handler's, which
assumes that downloads end (a load ends either way) and backends answer; `SF` of `Lock`, because a
`sync.Mutex` hands itself to whoever has waited for a millisecond; none for new requests, preloading and the
reporter. `Gateway`, `RateLimiter` and `BodyCapture` check
safety only.

## 4. What is proved

All proofs are for every value of the constants that the `ASSUME`s allow, so for any number of
events, requests, calls, crashes, failures and any times.

| Theorem | Says | Assumes besides the module's |
|---|---|---|
| `UsageReporter_proof!Typing` | `TypeOK` | |
| `UsageReporter_proof!FreshNames` | `FreshName` (no run of its own) | one reporter |
| `UsageReporter_proof!OnePlaceAlways` | `OnePlace` | one reporter |
| `UsageReporter_proof!PostsWithinBound` | `PostsBounded` | one reporter |
| `UsageReporter_proof!Refinement` | `KeepsLedger`: `Spec => Ledger!Spec` | one reporter |
| `UsageReporter_proof!NothingReturns` | `NoReturn` | |
| `UsageReporter_proof!SharedCustodyKept` | `SharedCustody` | |
| `UsageReporter_proof!DatesNeverRenewed` | an event that keeps a dated copy keeps its dates: no retry, rewrite or other reporter makes it younger (no run of its own) | |
| `UsageReporter_proof!CyclesEnd` | between two visits of a loop to its select each of its steps goes down a well-founded order, and no step of another goes up (no run of its own) | |
| `UsageReporter_proof!BilledOnce` | `BilledOncePerFailure`: billed at most once more than there were mishaps (also what the ledger says; no run of its own) | one reporter |
| `UsageReporter_proof!CustodyKept` | `Custody`: given up for a named reason only (no run of its own) | one reporter |
| `KeyValidator_proof!Typing` | `TypeOK` | |
| `KeyValidator_proof!Freshness` | `CacheFresh` | |
| `KeyValidator_proof!Acceptance` | `AcceptedWasListed` | |
| `KeyValidator_proof!Definitive` | `UncrossedIsDefinitive` | |
| `Gateway_proof!Typing` | `TypeOK` | |
| `Gateway_proof!Billing` | `OneBill` | |
| `Gateway_proof!Served` | `BilledWasServed` | |
| `Gateway_proof!Gating` | `Gated` | |
| `Gateway_proof!Overdraft` | `OverdraftBounded` | |
| `Gateway_proof!Counting` | `CountedOnce` | |
| `Gateway_proof!DebitsAreDue` | no step lowers a balance but a charge of its owner for a served request that named a model, by that request's cost (no run of its own) | |
| `Lifecycle_proof!Typing` | `TypeOK` | |
| `Lifecycle_proof!NoOrphan` | `NoOrphanLoop` | |
| `Lifecycle_proof!Metered` | `LiveIsMetered` | |
| `Lifecycle_proof!Parsed` | whatever comes of a block is well-typed, has `max_retries >= 0` and the default `cache_ttl` (of `Caddyfile`, a fact without behaviour) | |
| `ContractQuery_proof!Typing` | `TypeOK` | |
| `ContractQuery_proof!Calm` | `CalmIsSafe` | |
| `ContractQuery_proof!Torn` | `TornByFailureOnly` | |
| `ContractQuery_proof!Bounded` | `PairsBounded`: as many pairs are made as there are queries in each life of the process, and one more for each fault (no run of its own) | |
| `RateLimiter_proof!Typing` | `TypeOK` | |
| `RateLimiter_proof!Overshoot` | `OvershootBounded` | |
| `RateLimiter_proof!Kept` | `WindowsKept` | |
| `TokenMeter_proof!CacheLoadsOnce` | `CacheSpec => []LoadedOnce` | |
| `TokenMeter_proof!MeterUsesCache` | `Spec => CacheSpec`: the meter uses the cache as the cache's specification says | |
| `TokenMeter_proof!LoadsOnce` | `LoadedOnce` | |
| `TokenMeter_proof!CacheNeverStuck` | `CacheSpec => []NobodyStuck`: who waits, waits for a writer that can go on, or for one that waits for readers that can (no run of its own) | |
| `TokenMeter_proof!MeterNeverStuck` | `Spec => []NobodyStuck`, by `MeterUsesCache` | |
| `TokenMeter_proof!TokensTyped` | `TypeOK` | |
| `TokenMeter_proof!TokensKept` | `EveryTokenOnce` | |
| `TokenMeter_proof!TotalsAgree` | `TalliesAgree` | |
| `BodyCapture_proof!Typing` | `TypeOK` | |
| `BodyCapture_proof!Unmarked` | `UnmarkedIsWhole` | |
| `BodyCapture_proof!Declared` | `DeclaredIsWhole` | |
| `BodyCapture_proof!Complete` | `CompleteIsWhole` | |

One reporter is assumed where two do not keep the promise: two may retry the same report, which is then in two
hands and is sent and billed more often, and they may meet at a file (finding 1). `NothingReturns`,
`SharedCustodyKept`, `DatesNeverRenewed` and `CyclesEnd` hold of any number, and say what is left. `Definitive`
says that finding 2 is the only way to it.

The arguments:

- *FreshNames.* `FreshName` alone is not inductive. `NamesPast` says that every name is a time gone by
  and that a batch which has slept once is later than every name; of an instance whose URL can be sent to, only a
  batch that has slept reaches `OpenReport`, which is where `MaxRetries >= 2` is used.
- *OnePlaceAlways* adds to `OnePlace` that everything anywhere was recorded, so that a new event is
  nowhere yet; it rests on `NamesPast` for the step that makes a file.
- *BilledOnce.* `BillInv`: an event that some place will still send has been billed at most as often as
  there were mishaps, one less than the claim; the claim's 1 is spent when it is accepted, and
  then only a mishap leaves the report where it can be sent again.
- *CustodyKept.* `SharedCustodyKept` says that an event is lost for a named reason or at a meeting, and
  `InStep`, which ties a lone goroutine's place to the disk (the report in hand is the report on disk until
  it is truncated), that it never meets anyone; what is left is `Hasty`.
- *SharedCustodyKept.* `Shared` says nothing of what is on disk under the name of the report in hand: other
  reporters see to that. `Sourced`: an event in an accumulator is nowhere else and was never sent. `Placed`: a
  batch about to be removed was applied, or has the date or the count for it. `Floor` and `FileFloor`: a batch or
  report whose count says `n` retries has spent `MaxRetries * (n + 1)` attempts at least, whoever did the
  submitting, so that a count of `MaxRetries` is a reason by itself. `LossExcused` then goes through
  the steps: what is neither excused nor a meeting leaves the event in the same hands or at its name.
- *DatesNeverRenewed.* `UsageAlone` (a batch that was flushed is in one pair of hands until it is written) and
  `OneDate` (all copies of an event have one date): only the first writing takes the clock's.
- *CyclesEnd.* `Nearer` compares the phase of the cycle (the new usage, the listing, the listed reports), then what
  is left of the listing, then `Effort`, the steps the batch in hand still takes; `Bounded` keeps
  the listing finite and the attempts below `MaxRetries`. It is the part of `StopHonoured` that the prover can
  reach: that a loop which can go down must go down, and that its select takes the closed channel in the end,
  is fairness.
- *PostsWithinBound.* `Tried(r, e)` says how much an event has spent (`Spent`: the attempts, and `MaxRetries` for each
  submission that could not be sent), from where it is: `MaxRetries` for the
  round that flushed it and for each retry its report has behind it, and the attempts in hand; a crash or a
  failing file call may have cost one more round. `Counts(r)` keeps all of these within `MaxRetries`.
- *Refinement.* With `InStep`, `Counts`, `OnePlace` and `NamesPast` each action of the reporter is matched to one of the
  ledger's or to a stutter; the dates of an event are at most one because it is in one place.
- *NothingReturns.* `Flows`: whatever an accumulator, a batch or a report holds after a step, one of
  them held before it, or it was recorded by the step; so an event that nothing holds is in no action's reach.
- *CacheLoadsOnce.* `LockHeld` and `LoadsKept`: who is past `drain` holds the write lock and nobody reads;
  a tokenizer's count is 1 if it is loaded and 0 if not, so that the second look leaves nothing to load twice.
- *LoadsOnce* is that theorem carried over by *MeterUsesCache*, a refinement with the identity as its mapping.
- *CacheNeverStuck.* `WriterThere`: the writer is draining, looking again or loading, and there is one
  while anybody is blocked, which is what `Unlock` has to see to. With `LockHeld`, who holds it for
  reading is past every wait.
- *TotalsAgree.* The sum is the number of elements of `Units`, the tokens of a map one by one: what a record
  adds to a total it adds to one model's, which `UnitsAdded` says of any map, so that no induction over the
  models is needed. `Unshared`, below, keeps a flushed batch's map out of a record's reach.
- *TokensKept.* `Unshared`: no two entries, of the accumulator or of the batch, refer to one map of models.
  A record then changes one entry's map only, and a flush moves every reference to the batch.
- *Freshness, Acceptance.* `CacheFresh` is inductive as it stands: the ages of the cache, of the answers
  in flight and of the calls bound the time since a key was listed. `Acceptance` adds the guard
  of `Hit`.
- *Definitive.* `Uncrossed`: until the cache is replaced again, what a call was answered is what it will
  look up, and an answer lacks a key only if the contract has, since the call began.
- *Billing, Served, Gating* are three projections of one `IInv`: `Stage(q)`, what the handler's place says
  of the request, and `Sound(q)`, the three claims. A step of another request leaves both alone
  (`FrameOne`).
- *Overdraft.* `Debt(w)` counts what an agent may still be charged as already spent. A request that
  passes adds one to the exposure and to the peak if need be; a charge moves one cost from
  the exposure to the balance; `IInv` says that a charged request is no longer exposed.
- *DebitsAreDue.* Only `ReportApplied` and `ReporterPosts` charge, and `IInv` says of what they have in hand
  that it was served.
- *Counting.* `Room`: the two counters and the requests that may still be counted (`Owed`) fit in the total.
  A request leaves `Owed` with the step that counts it; that a key is judged only of a user is `Stage`.
- *NoOrphan, Metered.* `Governed(g)` ties an instance's stage to flag, channel and loop: the flag is set as
  long as the goroutine is there, and the channel is closed by `Cleanup` and by nothing else. Both
  properties are what it says when Caddy is idle, and of an instance that serves.
- *Parsed.* `SettingFrom`: a setting has its default or the value of an accepted directive of its name.
- *Calm.* `CalmInv`: while a calm query runs the file stays whole with one pair, because who made pairs
  before was done and who begins later finds the file; so what it is sealed with is what it reads.
- *Bounded.* `Tally`: before there is a file every pair is in the hands of a query that is making one, or was
  lost by a failure; afterwards no more are made.
- *Overshoot.* `Debt(u)` counts what the running requests of a user may still record as already used. A
  check that passes finds every window within its limit; a record moves tokens from the
  outstanding to the used.
- *Kept.* `KnownInForce`: who has a window in force has an entry, which `RecordUsage` needs to count it.
- *Unmarked, Declared.* `Reading` says of each place what the body is: the client's, until the loop has ended;
  then the part that was read; with a new length only if that is all. The end of the reader's limit
  is never met, because the buffer's is never above the body's. A declared length then fits
  only the whole. *Complete.* `Responding`: the buffer holds the lesser of its limit and what the client took.

`Lifecycle`'s proofs take any set of blocks: that metering is on or off in every configuration that comes of
one (`Fields`) needs that a name's mentions in a block have a last one, which `LastMention` takes from the
well-foundedness of the naturals.

Every safety property the passing runs check, and `KeepsLedger`, is a theorem. Only model-checked are the
liveness properties: `Settles`, `StopHonoured`, `RevocationTakesEffect`, `LoopsEnd`, `UsageFlushed`,
`PairSettles` and `RequestsEnd`. Liveness under fairness, `ENABLED`, induction over data and recursive
operators are beyond the prover and stay with TLC. So is that a literal text is a `STRING`: `Parsed`
says of a text setting that it is a text of the block or its default.

## 5. What is not modelled

- The metrics other than the three counters and the JSON of reports: no decision of the modelled components
  reads them. What text is found in a body or a response, and how long it is, is a choice. `CountTokens` of
  `token_counter.go` and the texts it looks for in JSON are called by tests only: `ServeHTTP` and `serveX402`
  give every content as "text/plain".
- Of the configuration: `BLOCK_URLS`, the line of the block's name with `cache_ttl`, the parsing of a number
  (`parseByteSize` accepts negative sizes and may overflow) and the expansion of `{env.NAME}`.
- `X402Enabled = FALSE` is in `Gateway` and in its theorems; the runs use `TRUE`, which reaches more.
- Cryptography: the portal's HMAC, the wallet's signature, the contract's encryption. Their
  outcomes are choices (`VerifyFails`, `PortalDown`, `UpdateFails`).
- `http.DefaultClient` is shared and its timeout set by two components: only the bound `QueryTime`.
- `Lifecycle` has `rr.running` with the values written as they are read, although nothing synchronizes the loop's
  writing with `Stop`'s reading.
- That a `metering_url` is one that `http.NewRequest` accepts is a choice of `Start`, and what is written in the
  configuration is another, of `Caddyfile`: the two are not joined. `NotSent` stands for a failing `json.Marshal` too,
  which the records' types exclude.
- What a request records on an instance whose `Cleanup` has begun: `Lifecycle` leaves it out, in
  `UsageReporter` `Record` is possible at any time and such usage is lost.
- The second reporter in `factories/factories.go`, mocks, scripts, the LLM router, container files: not
  called by the middleware, or test and deployment material.

## 6. Plan

Order: the money first. Done, each with its proofs: `UsageReporter` with its refinement of `BillingLedger`,
`KeyValidator`, `Gateway`, `Lifecycle` over `Caddyfile`, `ContractQuery`, `RateLimiter`, `BodyCapture`,
`TokenMeter` over `TokenizerCache`. What could come next:

1. `Gateway`'s accumulator as a user of `BillingLedger`: `ReporterPosts` and `ReporterDone` as steps of it.
2. `Lifecycle` composed with `UsageReporter`: each generation is a reporter, over the one directory.
3. Two reporters as an implementation of a weaker ledger, in which a meeting at a file is one more mishap:
   `SharedCustody`, `NoReturn` and the dates are proved of any number of reporters; the bounds on bills are not.
4. Pure operators against reference definitions: `parseByteSize`, `ValidateTimestamp`.
