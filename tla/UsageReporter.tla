--------------------------- MODULE UsageReporter ---------------------------
(***************************************************************************)
(* The metering reporter of the middleware (token_reporter.go), the        *)
(* accumulator it drains (token_meter.go) and the directory of failed      *)
(* reports it retries from.                                                *)
(*                                                                         *)
(* A usage event is one call of RecordUsageWithModel.  A batch, the map    *)
(* FlushUsage returns, is the set of the events it sums.  Every reporter   *)
(* is one Middleware instance: a server block, or a generation of the same *)
(* block across a configuration reload; all of them live in one process    *)
(* and share one directory, because failedReportsDir is a constant.        *)
(*                                                                         *)
(* One unit of the clock is any span between one second, the resolution    *)
(* of a report's file name, and retryBackoff, the shortest sleep between   *)
(* two attempts: a sleep therefore lasts at least one unit.                *)
(***************************************************************************)
EXTENDS Integers

CONSTANTS
  Events,      \* the usage events that may be recorded
  Reporters,   \* the middleware instances of the process
  MaxRetries,  \* maxRetries: attempts per submission, and retries per report
  MaxAge,      \* the age, in clock units, past which a report is discarded
  MaxClock,    \* bound on the clock's own steps (sleeps are not bounded)
  MaxCrashes,  \* bound on crashes of the process
  MaxFaults,   \* bound on failing calls of the file system
  MaxUnclear   \* bound on attempts the endpoint applied but did not confirm

\* NewResilientReporter fixes maxRetries at 3 and a report's age at 24 hours;
\* the model needs only that one failed submission sleeps at least once.
ASSUME RetriesAssumption == MaxRetries \in Nat /\ MaxRetries >= 2
ASSUME AgeAssumption == MaxAge \in Nat
ASSUME BoundsAssumption ==
  MaxClock \in Nat /\ MaxCrashes \in Nat /\ MaxFaults \in Nat /\ MaxUnclear \in Nat

VARIABLES
  acc,       \* acc[r]: events accumulated since the last flush
  pc,        \* pc[r]: where r's reporting goroutine stands
  job,       \* job[r]: the batch in r's hands, and what it is
  listing,   \* listing[r]: names still to visit of the ReadDir snapshot
  stopping,  \* stopping[r]: stopChan is closed
  parses,    \* parses[r]: http.NewRequest accepts r's metering_url
  files,     \* the failed reports on disk, by the time in their names
  clock,     \* time.Now()
  recorded,  \* history: the events recorded so far
  billed,    \* history: billed[e], how often the endpoint has applied e
  posts,     \* history: posts[e], how often e was sent
  unsent,    \* history: unsent[e], how often its submission ended before sending
  crashes, faults, unclear  \* how many of each failure have happened

vars == <<acc, pc, job, listing, stopping, parses, files, clock,
          recorded, billed, posts, unsent, crashes, faults, unclear>>

failures == <<crashes, faults, unclear>>
ledger   == <<recorded, billed, posts, unsent>>

\* "off" before StartReportingLoop, "scan" before ReadDir, "next" between two
\* reports of the listing, "idle" in the select, "post" before client.Do,
\* "sleep" in the backoff, "open" and "write" in WriteFile, "remove" before
\* os.Remove, "stopped" after the goroutine has returned.
PCs == {"off", "scan", "next", "idle", "post", "sleep",
        "open", "write", "remove", "stopped"}

\* A batch flushed by this cycle, a report read from disk, or a report read
\* from disk only to be discarded.
Kinds == {"none", "usage", "file", "discard"}

Jobs == [kind : Kinds, name : Nat, recs : SUBSET Events,
         retries : Nat, stamp : Nat, attempt : Nat]

NoJob == [kind |-> "none", name |-> 0, recs |-> {},
          retries |-> 0, stamp |-> 0, attempt |-> 0]

Reports == [whole : BOOLEAN, recs : SUBSET Events, retries : Nat, stamp : Nat]

\* What WriteFile leaves between its truncation and its write, and what two
\* writers of one file leave when their contents overlap: not valid JSON.
Torn == [whole |-> FALSE, recs |-> {}, retries |-> 0, stamp |-> 0]

ReportOf(j) == [whole |-> TRUE, recs |-> j.recs,
                retries |-> j.retries, stamp |-> j.stamp]

Put(fs, n, report) == [m \in DOMAIN fs \cup {n} |-> IF m = n THEN report ELSE fs[m]]
Erase(fs, n)       == [m \in DOMAIN fs \ {n} |-> fs[m]]

Init ==
  /\ acc = [r \in Reporters |-> {}]
  /\ pc = [r \in Reporters |-> "off"]
  /\ job = [r \in Reporters |-> NoJob]
  /\ listing = [r \in Reporters |-> {}]
  /\ stopping = [r \in Reporters |-> FALSE]
  /\ parses = [r \in Reporters |-> TRUE]
  /\ files = [n \in {} |-> Torn]
  /\ clock = 0
  /\ recorded = {}
  /\ billed = [e \in Events |-> 0]
  /\ posts = [e \in Events |-> 0]
  /\ unsent = [e \in Events |-> 0]
  /\ crashes = 0 /\ faults = 0 /\ unclear = 0

----------------------------------------------------------------------------
\* Control.

Goto(r, from, to) == pc[r] = from /\ pc' = [pc EXCEPT ![r] = to]

\* A call of the file system returns an error.
DiskFault == faults < MaxFaults /\ faults' = faults + 1 /\ UNCHANGED <<crashes, unclear>>

\* Where the goroutine goes on after the submission of a job, done or given up.
After(j) == IF j.kind = "usage" THEN "scan" ELSE "next"

\* Mutant: the loop may be started again after Stop.
Start_Again(r) ==
  /\ Goto(r, "off", "scan") \/ Goto(r, "stopped", "scan")
  /\ UNCHANGED <<acc, job, listing, stopping, parses, files, clock, ledger, failures>>

\* StartReportingLoop; the goroutine first retries what is on disk.  Validate asks
\* of the metering_url only that it is not empty.
Start(r) ==
  /\ Goto(r, "off", "scan")
  /\ \E b \in BOOLEAN : parses' = [parses EXCEPT ![r] = b]
  /\ UNCHANGED <<acc, job, listing, stopping, files, clock, ledger, failures>>

\* RecordUsageWithModel, from a request handler.  A handler may outlive the
\* reporting loop of its instance: nothing in the accumulator prevents it.
Record(r, e) ==
  /\ pc[r] # "off"
  /\ e \notin recorded
  /\ acc' = [acc EXCEPT ![r] = @ \cup {e}]
  /\ recorded' = recorded \cup {e}
  /\ UNCHANGED <<pc, job, listing, stopping, parses, files, clock, billed, posts, unsent, failures>>

\* Mutant: the accumulator is copied and not reset.
Flush_KeepsUsage(r) ==
  /\ acc[r] # {}
  /\ Goto(r, "idle", "post")
  /\ job' = [job EXCEPT ![r] = [NoJob EXCEPT !.kind = "usage", !.recs = acc[r]]]
  /\ UNCHANGED <<acc, listing, stopping, parses, files, clock, ledger, failures>>

\* The ticker fires and FlushUsage empties the accumulator.
Flush(r) ==
  /\ acc[r] # {}
  /\ Goto(r, "idle", "post")
  /\ job' = [job EXCEPT ![r] = [NoJob EXCEPT !.kind = "usage", !.recs = acc[r]]]
  /\ acc' = [acc EXCEPT ![r] = {}]
  /\ UNCHANGED <<listing, stopping, parses, files, clock, ledger, failures>>

\* The ticker fires with nothing to report; the disk is retried all the same.
FlushNothing(r) ==
  /\ acc[r] = {}
  /\ Goto(r, "idle", "scan")
  /\ UNCHANGED <<acc, job, listing, stopping, parses, files, clock, ledger, failures>>

----------------------------------------------------------------------------
\* retryFailedReports and retryFailedReport.

\* ReadDir: the names are fixed here, the reports are read one by one later.
Scan(r) ==
  /\ Goto(r, "scan", "next")
  /\ \/ listing' = [listing EXCEPT ![r] = DOMAIN files] /\ UNCHANGED failures
     \/ listing' = listing /\ DiskFault
  /\ UNCHANGED <<acc, job, stopping, parses, files, clock, ledger>>

EndScan(r) ==
  /\ listing[r] = {}
  /\ Goto(r, "next", "idle")
  /\ UNCHANGED <<acc, job, listing, stopping, parses, files, clock, ledger, failures>>

\* ReadDir sorts by name, and a name is the time it was written.
Visit(r, n) ==
  /\ n \in listing[r]
  /\ \A m \in listing[r] : n <= m
  /\ listing' = [listing EXCEPT ![r] = @ \ {n}]
  /\ UNCHANGED <<acc, stopping, parses, files, clock, ledger>>

Readable(n) == n \in DOMAIN files /\ files[n].whole

\* Mutant: a report is given up one retry too soon.
Expired_TooSoon(n) == clock - files[n].stamp > MaxAge \/ files[n].retries + 1 >= MaxRetries

\* Mutant: one retry too many.
Expired_OffByOne(n)  == clock - files[n].stamp > MaxAge \/ files[n].retries > MaxRetries

Expired(n) == clock - files[n].stamp > MaxAge \/ files[n].retries >= MaxRetries

Load(n, kind) == [kind |-> kind, name |-> n, recs |-> files[n].recs,
                  retries |-> files[n].retries, stamp |-> files[n].stamp, attempt |-> 0]

\* The report is gone, is not JSON, or cannot be read: it is passed over.
SkipReport(r, n) ==
  /\ Visit(r, n)
  /\ pc[r] = "next"
  /\ UNCHANGED <<pc, job>>
  /\ \/ ~Readable(n) /\ UNCHANGED failures
     \/ Readable(n) /\ DiskFault

\* Mutant: an expired report is passed over and stays on disk.
DiscardReport_Skips(r, n) ==
  /\ Visit(r, n)
  /\ Readable(n) /\ Expired(n)
  /\ pc[r] = "next"
  /\ UNCHANGED <<pc, job, failures>>

\* Too old or retried too often: to be removed without another attempt.
DiscardReport(r, n) ==
  /\ Visit(r, n)
  /\ Readable(n) /\ Expired(n)
  /\ Goto(r, "next", "remove")
  /\ job' = [job EXCEPT ![r] = Load(n, "discard")]
  /\ UNCHANGED failures

RetryReport(r, n) ==
  /\ Visit(r, n)
  /\ Readable(n) /\ ~Expired(n)
  /\ Goto(r, "next", "post")
  /\ job' = [job EXCEPT ![r] = Load(n, "file")]
  /\ UNCHANGED failures

\* os.Remove of a report that was sent or discarded; its error is ignored.
RemoveReport(r) ==
  /\ Goto(r, "remove", "next")
  /\ job' = [job EXCEPT ![r] = NoJob]
  /\ \/ files' = Erase(files, job[r].name) /\ UNCHANGED failures
     \/ files' = files /\ DiskFault
  /\ UNCHANGED <<acc, listing, stopping, parses, clock, ledger>>

----------------------------------------------------------------------------
\* submitWithRetry.

Add(count, S) == [e \in Events |-> IF e \in S THEN count[e] + 1 ELSE count[e]]

\* The request cannot be built: the submission ends with nothing sent, no backoff
\* and no further attempt, and counts as a failed one.
NotSent(r) ==
  /\ ~parses[r]
  /\ Goto(r, "post", "open")
  /\ job' = IF job[r].kind = "usage" THEN job ELSE [job EXCEPT ![r].retries = @ + 1]
  /\ unsent' = Add(unsent, job[r].recs)
  /\ UNCHANGED <<acc, listing, stopping, parses, files, clock,
                 recorded, billed, posts, failures>>

\* A 2xx answer.
Accepted(r) ==
  /\ pc[r] = "post" /\ parses[r]
  /\ posts' = Add(posts, job[r].recs)
  /\ billed' = Add(billed, job[r].recs)
  /\ IF job[r].kind = "usage"
       THEN /\ pc' = [pc EXCEPT ![r] = "scan"]
            /\ job' = [job EXCEPT ![r] = NoJob]
       ELSE /\ pc' = [pc EXCEPT ![r] = "remove"]
            /\ UNCHANGED job
  /\ UNCHANGED <<acc, listing, stopping, parses, files, clock, recorded, unsent, failures>>

\* Mutant: a failed retry counts the report's retries down.
Rejected_CountsDown(r) ==
  /\ pc[r] = "post" /\ parses[r]
  /\ posts' = Add(posts, job[r].recs)
  /\ UNCHANGED <<billed, failures>>
  /\ IF job[r].attempt < MaxRetries - 1
       THEN pc' = [pc EXCEPT ![r] = "sleep"] /\ UNCHANGED job
       ELSE /\ pc' = [pc EXCEPT ![r] = "open"]
            /\ job' = IF job[r].kind = "usage" THEN job
                      ELSE [job EXCEPT ![r].retries = @ - 1]
  /\ UNCHANGED <<acc, listing, stopping, parses, files, clock, recorded, unsent>>

\* An error or another status.  The endpoint may have applied the report even
\* so: the answer is lost, or the client's 30 seconds are over.  After the last
\* attempt the batch is persisted, or the report's retry count goes up.
Rejected(r) ==
  /\ pc[r] = "post" /\ parses[r]
  /\ posts' = Add(posts, job[r].recs)
  /\ \/ UNCHANGED <<billed, failures>>
     \/ /\ unclear < MaxUnclear
        /\ unclear' = unclear + 1
        /\ billed' = Add(billed, job[r].recs)
        /\ UNCHANGED <<crashes, faults>>
  /\ IF job[r].attempt < MaxRetries - 1
       THEN /\ pc' = [pc EXCEPT ![r] = "sleep"]
            /\ UNCHANGED job
       ELSE /\ pc' = [pc EXCEPT ![r] = "open"]
            /\ job' = IF job[r].kind = "usage" THEN job
                      ELSE [job EXCEPT ![r].retries = @ + 1]
  /\ UNCHANGED <<acc, listing, stopping, parses, files, clock, recorded, unsent>>

\* The backoff is over and the next attempt begins.
Wake(r) ==
  /\ Goto(r, "sleep", "post")
  /\ clock' = clock + 1
  /\ job' = [job EXCEPT ![r].attempt = @ + 1]
  /\ UNCHANGED <<acc, listing, stopping, parses, files, ledger, failures>>

----------------------------------------------------------------------------
\* persistFailedReport, and the second half of retryFailedReport.

\* Mutant: a retried report is stamped anew, and so never grows old.
Target_Restamps(j) == IF j.kind = "usage" THEN [j EXCEPT !.name = clock, !.stamp = clock]
                      ELSE [j EXCEPT !.stamp = clock]

\* A new report is named and stamped with the time; an old one keeps both.
Target(j) == IF j.kind = "usage" THEN [j EXCEPT !.name = clock, !.stamp = clock] ELSE j

\* WriteFile opens and truncates.  On an error the job is dropped: a new batch
\* with it, an old report with its retry count as it was.
OpenReport(r) ==
  /\ pc[r] = "open"
  /\ \/ /\ pc' = [pc EXCEPT ![r] = "write"]
        /\ job' = [job EXCEPT ![r] = Target(job[r])]
        /\ files' = Put(files, Target(job[r]).name, Torn)
        /\ UNCHANGED failures
     \/ /\ pc' = [pc EXCEPT ![r] = After(job[r])]
        /\ job' = [job EXCEPT ![r] = NoJob]
        /\ UNCHANGED files
        /\ DiskFault
  /\ UNCHANGED <<acc, listing, stopping, parses, clock, ledger>>

\* The file under r's name may not be the one r has truncated: another reporter
\* has written it since, or is about to, and may have removed it in between.
Detached(r) ==
  \/ Readable(job[r].name)
  \/ \E q \in Reporters \ {r} : pc[q] = "write" /\ job[q].name = job[r].name

\* WriteFile writes and closes.  A file unlinked since it was opened stays
\* unlinked, and one made anew under its name stays as it is.  Over a report that
\* another reporter has written meanwhile it may leave a mixture.  An error leaves
\* the truncated file.
WriteReport(r) ==
  /\ pc[r] = "write"
  /\ pc' = [pc EXCEPT ![r] = After(job[r])]
  /\ job' = [job EXCEPT ![r] = NoJob]
  /\ \/ /\ job[r].name \notin DOMAIN files \/ Detached(r)
        /\ UNCHANGED <<files, failures>>
     \/ /\ job[r].name \in DOMAIN files
        /\ files' = Put(files, job[r].name, ReportOf(job[r]))
        /\ UNCHANGED failures
     \/ /\ Readable(job[r].name)
        /\ files' = Put(files, job[r].name, Torn)
        /\ UNCHANGED failures
     \/ UNCHANGED files /\ DiskFault
  /\ UNCHANGED <<acc, listing, stopping, parses, clock, ledger>>

----------------------------------------------------------------------------
\* The life of the instances and of the process.

\* Stop, called once by Cleanup: stopChan is closed, and after one second the
\* caller goes on whether or not the goroutine has returned.
Stop(r) ==
  /\ pc[r] \notin {"off", "stopped"}
  /\ ~stopping[r]
  /\ stopping' = [stopping EXCEPT ![r] = TRUE]
  /\ UNCHANGED <<acc, pc, job, listing, parses, files, clock, ledger, failures>>

\* Mutant: the loop stays until every failed report is settled.
ExitLoop_WaitsForDisk(r) ==
  /\ stopping[r] /\ DOMAIN files = {}
  /\ Goto(r, "idle", "stopped")
  /\ UNCHANGED <<acc, job, listing, stopping, parses, files, clock, ledger, failures>>

\* The select sees stopChan; what is in the accumulator is not flushed.
ExitLoop(r) ==
  /\ stopping[r]
  /\ Goto(r, "idle", "stopped")
  /\ UNCHANGED <<acc, job, listing, stopping, parses, files, clock, ledger, failures>>

\* The process dies, or ends: only the disk survives.
Crash ==
  /\ crashes < MaxCrashes
  /\ \E r \in Reporters : pc[r] # "off"
  /\ acc' = [r \in Reporters |-> {}]
  /\ pc' = [r \in Reporters |-> "off"]
  /\ job' = [r \in Reporters |-> NoJob]
  /\ listing' = [r \in Reporters |-> {}]
  /\ stopping' = [r \in Reporters |-> FALSE]
  /\ parses' = [r \in Reporters |-> TRUE]
  /\ crashes' = crashes + 1
  /\ UNCHANGED <<files, clock, ledger, faults, unclear>>

TimePasses ==
  /\ clock < MaxClock
  /\ clock' = clock + 1
  /\ UNCHANGED <<acc, pc, job, listing, stopping, parses, files, ledger, failures>>

\* The reporting goroutine of r: every step it can take by itself.
Loop(r) ==
  \/ Flush(r) \/ FlushNothing(r)
  \/ Scan(r) \/ EndScan(r)
  \/ \E n \in listing[r] : SkipReport(r, n) \/ DiscardReport(r, n) \/ RetryReport(r, n)
  \/ RemoveReport(r)
  \/ NotSent(r) \/ Accepted(r) \/ Rejected(r) \/ Wake(r)
  \/ OpenReport(r) \/ WriteReport(r)

Next ==
  \/ \E r \in Reporters :
       \/ Start(r) \/ Stop(r) \/ ExitLoop(r)
       \/ \E e \in Events : Record(r, e)
       \/ Loop(r)
  \/ Crash
  \/ TimePasses

Spec == Init /\ [][Next]_vars

\* The goroutine is scheduled, its ticker fires and its calls return: the HTTP
\* client has a timeout and every sleep ends.  The select picks among ready
\* channels at random, so a closed stopChan is not passed over for ever.
Fairness ==
  \A r \in Reporters : WF_vars(Loop(r)) /\ SF_vars(ExitLoop(r))

FairSpec == Spec /\ Fairness

----------------------------------------------------------------------------
\* Properties.

\* Every variable has its type.
TypeOK ==
  /\ acc \in [Reporters -> SUBSET Events]
  /\ pc \in [Reporters -> PCs]
  /\ job \in [Reporters -> Jobs]
  /\ listing \in [Reporters -> SUBSET Nat]
  /\ stopping \in [Reporters -> BOOLEAN] /\ parses \in [Reporters -> BOOLEAN]
  /\ DOMAIN files \subseteq Nat
  /\ \A n \in DOMAIN files : files[n] \in Reports
  /\ clock \in Nat
  /\ recorded \subseteq Events
  /\ billed \in [Events -> Nat] /\ posts \in [Events -> Nat] /\ unsent \in [Events -> Nat]
  /\ crashes \in Nat /\ faults \in Nat /\ unclear \in Nat

\* Who still answers for an event: an accumulator that will be flushed, a batch
\* in hand that is not about to be discarded, or a legible report on disk.
InHand(r, e) == e \in job[r].recs
OnDisk(n, e) == n \in DOMAIN files /\ files[n].whole /\ e \in files[n].recs
Waiting(r, e) == pc[r] # "stopped" /\ e \in acc[r]

Held(e) == \/ \E r \in Reporters : Waiting(r, e) \/ InHand(r, e)
           \/ \E n \in DOMAIN files : OnDisk(n, e)

\* A batch that was sent in vain is never written over another report: between
\* two uses of the clock for a file name lies a backoff, which outlasts the
\* one-second resolution of the names (token_reporter.go:215, 257).  A batch that
\* could not be sent has no backoff behind it (token_reporter.go:196) and nothing
\* is claimed of it.
FreshName ==
  \A r \in Reporters :
    parses[r] /\ pc[r] = "open" /\ job[r].kind = "usage" => clock \notin DOMAIN files

\* The batch in r's hands has been sent once and was refused.
Slept(r) ==
  /\ parses[r] /\ job[r].kind = "usage"
  /\ pc[r] = "open" \/ (pc[r] = "post" /\ job[r].attempt > 0)

\* The names on disk and in hand are times gone by, and a batch that has slept
\* is later than every name on disk: what makes FreshName inductive.
NamesPast ==
  /\ \A n \in DOMAIN files : n <= clock
  /\ \A r \in Reporters : job[r].name <= clock
  /\ \A r \in Reporters : Slept(r) => \A n \in DOMAIN files : n < clock

\* An event is in one place: one accumulator, one batch in hand or one report on
\* disk, and in two only while the batch in hand is that report.  Between flush,
\* persist and retry no batch is left behind to be sent a second time.
OnePlace ==
  /\ \A r \in Reporters :
       /\ acc[r] \cap job[r].recs = {}
       /\ \A n \in DOMAIN files :
            /\ acc[r] \cap files[n].recs = {}
            /\ job[r].recs \cap files[n].recs # {} => job[r].kind # "usage" /\ job[r].name = n
  /\ \A m, n \in DOMAIN files : m # n => files[m].recs \cap files[n].recs = {}

\* The endpoint applies an event once, and once more at most for every crash,
\* failing file operation and unconfirmed attempt: retrying by itself never
\* bills twice (submitWithRetry, retryFailedReport).
BilledOncePerFailure == \A e \in Events : billed[e] <= 1 + crashes + faults + unclear

\* A report is removed for its age or retries; a loop ends.
Discards == \E r \in Reporters : pc[r] = "remove" /\ job[r].kind = "discard" /\ pc'[r] = "next"
Stops    == \E r \in Reporters : ExitLoop(r)

\* The dates on the copies of an event that outlive a crash, or are about to: those
\* of the reports on disk and of the report in hand that has one.
Dated(r) == job[r].kind # "usage" \/ pc[r] = "write"

Dates(e) == {files[n].stamp : n \in {m \in DOMAIN files : OnDisk(m, e)}}
              \cup {job[r].stamp : r \in {s \in Reporters : InHand(s, e) /\ Dated(s)}}

\* The attempts e has had.  A submission that could not be sent costs e as many as
\* one that was refused each time, and e is given up as soon.
Spent(e) == posts[e] + MaxRetries * unsent[e]

\* An endpoint that refuses everything sees a batch maxRetries times from the
\* cycle that flushed it and maxRetries times for each retry of its report; a
\* crash or a failing file operation can cost one more round.
PostsBounded ==
  \A e \in Events : Spent(e) <= MaxRetries * (MaxRetries + 1 + crashes + faults)

\* What excuses a step after which nobody answers for e any more: it was applied; it
\* was submitted once and again for each retry of its report, each time attempted
\* maxRetries times or not sent at all; its report has grown too old; its loop ended
\* before it was ever sent; or a crash or a failing file operation.
Excused(e) ==
  \/ billed'[e] > 0
  \/ Spent(e) >= MaxRetries * (MaxRetries + 1)
  \/ \E d \in Dates(e) : clock - d > MaxAge
  \/ Stops /\ posts[e] = 0
  \/ <<crashes, faults>>' # <<crashes, faults>>

\* At the name where r is about to truncate or remove a report is one of another
\* batch, or the file r has truncated is gone, written or made anew: another
\* reporter's doing, or, where r truncates for a batch that was not sent, its own
\* of the same second.
Foreign(r, n) == Readable(n) /\ files[n].recs # job[r].recs

Displaced(r) ==
  \/ pc[r] = "open" /\ Foreign(r, Target(job[r]).name)
  \/ pc[r] = "remove" /\ Foreign(r, job[r].name)
  \/ pc[r] = "write" /\ (job[r].name \notin DOMAIN files \/ Detached(r))

Clash == \E r \in Reporters : Displaced(r) /\ pc'[r] # pc[r]

\* A batch that could not be sent, and so has not slept, truncates the report its
\* own reporter has made in the same second.
Hasty(r) ==
  /\ ~parses[r] /\ pc[r] = "open" /\ job[r].kind = "usage" /\ Readable(clock)
  /\ pc'[r] = "write"

\* One reporter stops answering for an event for one of these reasons only.
Custody ==
  [][\A e \in Events : Held(e) /\ ~Held(e)'
       => Excused(e) \/ \E r \in Reporters : Hasty(r)]_vars

\* Reporters that share the directory lose an event for these reasons, or where two
\* batches meet at one file, and nowhere else: not between flush and persist, not between
\* reading a report and writing it back, and not by what another has done to the
\* files of a listing made before.
SharedCustody == [][\A e \in Events : Held(e) /\ ~Held(e)' => Excused(e) \/ Clash]_vars

\* "When reporting fails, the system persists data to disk for later retry"
\* (METERING.md): with no crash, no failing file operation and every metering_url
\* well formed, a report on disk is given up only once applied, or discarded for age
\* or retries.
PersistedForRetry ==
  [][\A e \in Events : (\E n \in DOMAIN files : OnDisk(n, e)) /\ ~Held(e)'
       => \/ billed'[e] > 0 \/ Discards
          \/ <<crashes, faults>>' # <<crashes, faults>>
          \/ \E r \in Reporters : ~parses[r]]_vars

\* What metering promises, of which one reporter is an implementation.
Ledger == INSTANCE BillingLedger WITH
  Attempts <- MaxRetries * (MaxRetries + 1),
  owed     <- {e \in Events : Held(e)},
  Round    <- MaxRetries,
  tried    <- posts,
  dates    <- [e \in Events |-> Dates(e)],
  ended    <- {r \in Reporters : pc[r] = "stopped"},
  now      <- clock,
  mishaps  <- crashes + faults + unclear

\* Every step of the reporter is a step of BillingLedger or changes nothing it
\* speaks of: an event is owed until it is applied, or is submitted once and again
\* for each retry of its report, each time attempted maxRetries times or not sent at
\* all, or its report, whose date no retry renews, has become too old; it is
\* forgotten otherwise only by a mishap, unsent by a loop that ends, or under a batch
\* not sent either that takes the file of the same second.  It is applied once more
\* only after a mishap.
KeepsLedger == Ledger!Spec

\* An event nobody answers for any more, in an accumulator, in hand or on disk, never
\* comes back and is never billed again.  (A report may be removed by one reporter
\* and written back by another that has it in hand: the event was held throughout.)
NoReturn ==
  [][\A e \in recorded : ~Held(e) => ~Held(e)' /\ billed'[e] = billed[e]]_vars

\* Every event that is answered for is in the end applied or given up, as long as
\* one reporting loop over the directory still runs, in the middle of a reload too:
\* no batch is retried for ever.
Settles ==
  \A e \in Events :
    Held(e) ~> ~Held(e) \/ \A r \in Reporters : pc[r] \in {"off", "stopped"}

\* Stop is honoured: a reporter whose channel is closed returns, however many
\* submissions and sleeps it still has before it.
StopHonoured ==
  \A r \in Reporters : stopping[r] ~> pc[r] \in {"stopped", "off"}

============================================================================
