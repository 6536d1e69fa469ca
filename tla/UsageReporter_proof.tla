------------------------ MODULE UsageReporter_proof ------------------------
\* Theorems about UsageReporter and their proofs.
EXTENDS UsageReporter, FiniteSetTheorems, TLAPS

\* The empty job is a job.
LEMMA NoJobType == NoJob \in Jobs
  BY DEF NoJob, Jobs, Kinds

\* A torn file is a report.
LEMMA TornType == Torn \in Reports
  BY DEF Torn, Reports

\* Counting one more use of a batch keeps the counters natural numbers.
LEMMA AddType ==
  ASSUME NEW count \in [Events -> Nat], NEW S
  PROVE  Add(count, S) \in [Events -> Nat]
  BY DEF Add

\* The directory's own part of TypeOK.
DirOK == DOMAIN files \subseteq Nat /\ \A n \in DOMAIN files : files[n] \in Reports

\* Writing a report keeps the directory well formed.
LEMMA PutDir ==
  ASSUME DirOK, NEW n \in Nat, NEW x \in Reports, files' = Put(files, n, x)
  PROVE  DirOK'
<1>1. DOMAIN files' = DOMAIN files \cup {n} /\ files'[n] = x
  BY DEF Put
<1>2. \A m \in DOMAIN files : m # n => files'[m] = files[m]
  BY DEF Put
<1> QED
  BY <1>1, <1>2 DEF DirOK

\* Removing a report keeps the directory well formed.
LEMMA EraseDir ==
  ASSUME DirOK, NEW n, files' = Erase(files, n)
  PROVE  DirOK'
  BY DEF DirOK, Erase

\* Every variable keeps its type.
THEOREM Typing == Spec => []TypeOK
<1>1. Init => TypeOK
  BY NoJobType, BoundsAssumption DEF Init, TypeOK, PCs
<1>2. TypeOK /\ [Next]_vars => TypeOK'
  <2> SUFFICES ASSUME TypeOK, [Next]_vars PROVE TypeOK'
    OBVIOUS
  <2>0. DirOK
    BY DEF TypeOK, DirOK
  <2> USE NoJobType, TornType
  <2>1. CASE UNCHANGED vars
    BY <2>1 DEF vars, TypeOK, ledger, failures
  <2>2. ASSUME NEW r \in Reporters, Start(r) PROVE TypeOK'
    BY <2>2 DEF Start, Goto, TypeOK, PCs, ledger, failures
  <2>3. ASSUME NEW r \in Reporters, Stop(r) PROVE TypeOK'
    BY <2>3 DEF Stop, TypeOK, ledger, failures
  <2>4. ASSUME NEW r \in Reporters, ExitLoop(r) PROVE TypeOK'
    BY <2>4 DEF ExitLoop, Goto, TypeOK, PCs, ledger, failures
  <2>5. ASSUME NEW r \in Reporters, NEW e \in Events, Record(r, e) PROVE TypeOK'
    BY <2>5 DEF Record, TypeOK, failures
  <2>6. ASSUME NEW r \in Reporters, Flush(r) PROVE TypeOK'
    <3>1. [NoJob EXCEPT !.kind = "usage", !.recs = acc[r]] \in Jobs
      BY DEF TypeOK, NoJob, Jobs, Kinds
    <3> QED
      BY <2>6, <3>1 DEF Flush, Goto, TypeOK, PCs, ledger, failures
  <2>7. ASSUME NEW r \in Reporters, FlushNothing(r) PROVE TypeOK'
    BY <2>7 DEF FlushNothing, Goto, TypeOK, PCs, ledger, failures
  <2>8. ASSUME NEW r \in Reporters, Scan(r) PROVE TypeOK'
    BY <2>8 DEF Scan, Goto, TypeOK, PCs, DiskFault, ledger, failures
  <2>9. ASSUME NEW r \in Reporters, EndScan(r) PROVE TypeOK'
    BY <2>9 DEF EndScan, Goto, TypeOK, PCs, ledger, failures
  <2>10. ASSUME NEW r \in Reporters, NEW n \in listing[r], SkipReport(r, n) PROVE TypeOK'
    BY <2>10 DEF SkipReport, Visit, TypeOK, DiskFault, ledger, failures
  <2>11. ASSUME NEW r \in Reporters, NEW n \in listing[r], NEW k \in Kinds, Readable(n)
         PROVE  Load(n, k) \in Jobs
    BY <2>11 DEF TypeOK, Load, Jobs, Reports, Readable
  <2>12. ASSUME NEW r \in Reporters, NEW n \in listing[r], DiscardReport(r, n) PROVE TypeOK'
    <3>1. Load(n, "discard") \in Jobs
      BY <2>11, <2>12 DEF DiscardReport, Kinds
    <3> QED
      BY <2>12, <3>1 DEF DiscardReport, Visit, Goto, TypeOK, PCs, ledger, failures
  <2>13. ASSUME NEW r \in Reporters, NEW n \in listing[r], RetryReport(r, n) PROVE TypeOK'
    <3>1. Load(n, "file") \in Jobs
      BY <2>11, <2>13 DEF RetryReport, Kinds
    <3> QED
      BY <2>13, <3>1 DEF RetryReport, Visit, Goto, TypeOK, PCs, ledger, failures
  <2>14. ASSUME NEW r \in Reporters, RemoveReport(r) PROVE TypeOK'
    <3>1. DirOK'
      BY <2>0, <2>14, EraseDir DEF RemoveReport, DirOK
    <3> QED
      BY <2>14, <3>1 DEF RemoveReport, Goto, TypeOK, DirOK, PCs, DiskFault, ledger, failures
  <2>15. ASSUME NEW r \in Reporters, Accepted(r) PROVE TypeOK'
    <3>1. billed' \in [Events -> Nat] /\ posts' \in [Events -> Nat]
      BY <2>15, AddType DEF Accepted, TypeOK
    <3> QED
      BY <2>15, <3>1 DEF Accepted, TypeOK, PCs, failures
  <2>22. ASSUME NEW r \in Reporters, NotSent(r) PROVE TypeOK'
    <3>1. unsent' \in [Events -> Nat]
      BY <2>22, AddType DEF NotSent, TypeOK
    <3>2. job' \in [Reporters -> Jobs]
      BY <2>22 DEF NotSent, TypeOK, Jobs
    <3> QED
      BY <2>22, <3>1, <3>2 DEF NotSent, Goto, TypeOK, PCs, failures
  <2>16. ASSUME NEW r \in Reporters, Rejected(r) PROVE TypeOK'
    <3>1. billed' \in [Events -> Nat] /\ posts' \in [Events -> Nat]
      BY <2>16, AddType DEF Rejected, TypeOK
    <3>2. job' \in [Reporters -> Jobs]
      <4>0. job[r] \in Jobs /\ job[r].retries + 1 \in Nat
        BY DEF TypeOK, Jobs
      <4>1. job[r] \in Jobs /\ [job[r] EXCEPT !.retries = @ + 1] \in Jobs
        BY <4>0 DEF Jobs
      <4>2. job' \in {job, [job EXCEPT ![r].retries = @ + 1]}
        BY <2>16 DEF Rejected
      <4> QED
        BY <4>1, <4>2 DEF TypeOK
    <3> QED
      BY <2>16, <3>1, <3>2 DEF Rejected, TypeOK, PCs, failures
  <2>17. ASSUME NEW r \in Reporters, Wake(r) PROVE TypeOK'
    <3>1. job' \in [Reporters -> Jobs]
      BY <2>17 DEF Wake, TypeOK, Jobs
    <3> QED
      BY <2>17, <3>1 DEF Wake, Goto, TypeOK, PCs, ledger, failures
  <2>18. ASSUME NEW r \in Reporters, OpenReport(r) PROVE TypeOK'
    <3>1. Target(job[r]) \in Jobs /\ Target(job[r]).name \in Nat
      BY DEF Target, TypeOK, Jobs
    <3>2. DirOK'
      BY <2>0, <2>18, <3>1, PutDir DEF OpenReport, DirOK
    <3> QED
      BY <2>18, <3>1, <3>2 DEF OpenReport, TypeOK, DirOK, PCs, After, DiskFault, ledger, failures
  <2>19. ASSUME NEW r \in Reporters, WriteReport(r) PROVE TypeOK'
    <3>1. ReportOf(job[r]) \in Reports /\ job[r].name \in Nat
      BY DEF ReportOf, TypeOK, Jobs, Reports
    <3>2. DirOK'
      BY <2>0, <2>19, <3>1, PutDir DEF WriteReport, DirOK
    <3> QED
      BY <2>19, <3>1, <3>2 DEF WriteReport, TypeOK, DirOK, PCs, After, DiskFault, ledger, failures
  <2>20. CASE Crash
    BY <2>20 DEF Crash, TypeOK, PCs, ledger
  <2>21. CASE TimePasses
    BY <2>21 DEF TimePasses, TypeOK, ledger, failures
  <2> QED
    BY <2>1, <2>2, <2>3, <2>4, <2>5, <2>6, <2>7, <2>8, <2>9, <2>10, <2>12, <2>13, <2>14,
       <2>15, <2>16, <2>17, <2>18, <2>19, <2>20, <2>21, <2>22 DEF Next, Loop
<1> QED
  BY <1>1, <1>2, PTL DEF Spec

----------------------------------------------------------------------------
\* Names.

\* Writing a report adds its name.
LEMMA PutNames ==
  ASSUME NEW n, NEW x, files' = Put(files, n, x)
  PROVE  DOMAIN files' = DOMAIN files \cup {n}
  BY DEF Put

\* Removing a report takes its name away.
LEMMA EraseNames ==
  ASSUME NEW n, files' = Erase(files, n)
  PROVE  DOMAIN files' \subseteq DOMAIN files
  BY DEF Erase

\* One reporter never reuses a name: NamesPast is inductive.
LEMMA NamesStep ==
  ASSUME NEW r0, Reporters = {r0}, TypeOK, NamesPast, [Next]_vars
  PROVE  NamesPast'
<1> USE DEF NamesPast
<1>0. /\ clock \in Nat /\ DOMAIN files \subseteq Nat /\ job[r0] \in Jobs
      /\ pc = [r \in Reporters |-> pc[r]] /\ job = [r \in Reporters |-> job[r]]
  BY DEF TypeOK
<1>1. CASE UNCHANGED vars
  BY <1>1 DEF vars, Slept
<1>21. CASE NotSent(r0)
  <2>1. job'[r0].name = job[r0].name /\ ~parses'[r0]
    BY <1>0, <1>21 DEF NotSent, Jobs
  <2> QED
    BY <1>0, <1>21, <2>1 DEF NotSent, Slept
<1>2. CASE Start(r0)
  BY <1>0, <1>2 DEF Start, Goto, Slept
<1>3. CASE Stop(r0)
  BY <1>3 DEF Stop, Slept
<1>4. CASE ExitLoop(r0)
  BY <1>0, <1>4 DEF ExitLoop, Goto, Slept
<1>5. ASSUME NEW e \in Events, Record(r0, e) PROVE NamesPast'
  BY <1>5 DEF Record, Slept
<1>6. CASE Flush(r0)
  <2>1. job'[r0].name = 0 /\ job'[r0].attempt = 0
    BY <1>0, <1>6 DEF Flush, NoJob
  <2> QED
    BY <1>0, <1>6, <2>1 DEF Flush, Goto, Slept
<1>7. CASE FlushNothing(r0)
  BY <1>0, <1>7 DEF FlushNothing, Goto, Slept
<1>8. CASE Scan(r0)
  BY <1>0, <1>8 DEF Scan, Goto, Slept
<1>9. CASE EndScan(r0)
  BY <1>0, <1>9 DEF EndScan, Goto, Slept
<1>10. ASSUME NEW n \in listing[r0], SkipReport(r0, n) PROVE NamesPast'
  BY <1>10 DEF SkipReport, Visit, Slept
<1>11. ASSUME NEW n \in listing[r0], DiscardReport(r0, n) PROVE NamesPast'
  <2>1. job'[r0].name = n /\ job'[r0].kind = "discard" /\ n \in DOMAIN files
    BY <1>0, <1>11 DEF DiscardReport, Load, Readable
  <2> QED
    BY <1>0, <1>11, <2>1 DEF DiscardReport, Visit, Slept
<1>12. ASSUME NEW n \in listing[r0], RetryReport(r0, n) PROVE NamesPast'
  <2>1. job'[r0].name = n /\ job'[r0].kind = "file" /\ n \in DOMAIN files
    BY <1>0, <1>12 DEF RetryReport, Load, Readable
  <2> QED
    BY <1>0, <1>12, <2>1 DEF RetryReport, Visit, Slept
<1>13. CASE RemoveReport(r0)
  <2>1. job'[r0].name = 0 /\ job'[r0].kind = "none"
    BY <1>0, <1>13 DEF RemoveReport, NoJob
  <2>2. DOMAIN files' \subseteq DOMAIN files /\ clock' = clock
    BY <1>13, EraseNames DEF RemoveReport
  <2> QED
    BY <1>0, <2>1, <2>2 DEF Slept
<1>14. CASE Accepted(r0)
  <2>1. pc'[r0] \in {"scan", "remove"} /\ job'[r0].name <= clock
    BY <1>0, <1>14 DEF Accepted, NoJob
  <2> QED
    BY <1>0, <1>14, <2>1 DEF Accepted, Slept
<1>15. CASE Rejected(r0)
  <2>1. job'[r0].name = job[r0].name /\ job'[r0].kind = job[r0].kind
    BY <1>0, <1>15 DEF Rejected, Jobs
  <2>2. pc'[r0] = "open" => job[r0].attempt > 0
    BY <1>0, <1>15, RetriesAssumption DEF Rejected, Jobs
  <2>3. pc[r0] = "post" /\ pc'[r0] \in {"open", "sleep"}
    BY <1>0, <1>15 DEF Rejected
  <2> QED
    BY <1>0, <1>15, <2>1, <2>2, <2>3 DEF Rejected, Slept
<1>16. CASE Wake(r0)
  <2>1. job'[r0].name = job[r0].name /\ job[r0].name \in Nat
    BY <1>0, <1>16 DEF Wake, Jobs
  <2>2. \A n \in DOMAIN files : n < clock'
    BY <1>0, <1>16 DEF Wake
  <2> QED
    BY <1>0, <1>16, <2>1, <2>2 DEF Wake, Slept
<1>17. CASE OpenReport(r0)
  <2>1. CASE files' = Put(files, Target(job[r0]).name, Torn) /\ job' = [job EXCEPT ![r0] = Target(job[r0])]
    <3>1. Target(job[r0]).name \in Nat /\ Target(job[r0]).name <= clock
      BY <1>0 DEF Target, Jobs
    <3>2. DOMAIN files' = DOMAIN files \cup {Target(job[r0]).name}
      BY <2>1, PutNames
    <3>3. pc'[r0] # "open" /\ pc'[r0] # "post"
      BY <1>0, <1>17 DEF OpenReport, After
    <3> QED
      BY <1>0, <1>17, <2>1, <3>1, <3>2, <3>3 DEF OpenReport, Slept
  <2>2. CASE files' = files /\ job' = [job EXCEPT ![r0] = NoJob]
    BY <1>0, <1>17, <2>2 DEF OpenReport, Slept, NoJob
  <2> QED
    BY <1>17, <2>1, <2>2 DEF OpenReport
<1>18. CASE WriteReport(r0)
  <2>1. DOMAIN files' = DOMAIN files /\ clock' = clock
    BY <1>18, PutNames DEF WriteReport, Readable
  <2>2. job'[r0].name = 0 /\ job'[r0].kind = "none"
    BY <1>0, <1>18 DEF WriteReport, NoJob
  <2> QED
    BY <1>0, <2>1, <2>2 DEF Slept
<1>19. CASE Crash
  BY <1>0, <1>19 DEF Crash, NoJob, Slept
<1>20. CASE TimePasses
  <2>1. job' = job /\ pc' = pc /\ files' = files /\ clock' = clock + 1 /\ job[r0].name \in Nat
    BY <1>0, <1>20 DEF TimePasses, Jobs
  <2> QED
    BY <1>0, <2>1 DEF Slept
<1> QED
  BY <1>1, <1>2, <1>3, <1>4, <1>5, <1>6, <1>7, <1>8, <1>9, <1>10, <1>11, <1>12, <1>13,
     <1>14, <1>15, <1>16, <1>17, <1>18, <1>19, <1>20, <1>21 DEF Next, Loop

\* A single reporter never persists a batch it has sent over a report that is on disk.
THEOREM FreshNames ==
  ASSUME NEW r0, Reporters = {r0}
  PROVE  Spec => []FreshName
<1>1. Init => NamesPast
  BY DEF Init, NamesPast, Slept, NoJob
<1>2. TypeOK /\ NamesPast /\ [Next]_vars => NamesPast'
  BY NamesStep
<1>3. TypeOK /\ NamesPast => FreshName
  <2> SUFFICES ASSUME TypeOK, NamesPast, NEW r \in Reporters,
                      parses[r], pc[r] = "open", job[r].kind = "usage", clock \in DOMAIN files
               PROVE  FALSE
    BY DEF FreshName
  <2>1. Slept(r)
    BY DEF Slept
  <2>2. clock < clock
    BY <2>1 DEF NamesPast
  <2> QED
    BY <2>2 DEF TypeOK
<1> QED
  BY <1>1, <1>2, <1>3, Typing, PTL DEF Spec

----------------------------------------------------------------------------
\* One place for an event.

\* Steps that move no event: the directory stands, the job keeps its identity.
LEMMA OnePlaceFrame ==
  ASSUME NEW r0, Reporters = {r0}, OnePlace,
         acc'[r0] \subseteq acc[r0], files' = files,
         \/ job'[r0].recs = {}
         \/ /\ job'[r0].recs = job[r0].recs
            /\ job'[r0].kind = job[r0].kind
            /\ job'[r0].name = job[r0].name
  PROVE  OnePlace'
  BY DEF OnePlace

Known ==
  /\ \A r \in Reporters : acc[r] \subseteq recorded /\ job[r].recs \subseteq recorded
  /\ \A n \in DOMAIN files : files[n].recs \subseteq recorded

\* A step that leaves events, batches and reports where they are keeps what is known of them.
LEMMA KnownFrame ==
  ASSUME NEW r0, Reporters = {r0}, Known,
         acc'[r0] \subseteq acc[r0], files' = files, recorded' = recorded,
         job'[r0].recs = {} \/ job'[r0].recs = job[r0].recs
  PROVE  Known'
  BY DEF Known

\* What a directory holds after a write.
LEMMA PutAt ==
  ASSUME NEW n, NEW x, files' = Put(files, n, x)
  PROVE  /\ DOMAIN files' = DOMAIN files \cup {n}
         /\ files'[n] = x
         /\ \A m \in DOMAIN files : m # n => files'[m] = files[m]
  BY DEF Put

\* After a write, a file is what was written or what it was.
LEMMA PutEither ==
  ASSUME NEW n, NEW x, files' = Put(files, n, x), NEW m \in DOMAIN files'
  PROVE  files'[m] = x \/ (m \in DOMAIN files /\ files'[m] = files[m])
  BY PutAt

\* What a directory holds after a removal.
LEMMA EraseAt ==
  ASSUME NEW n, files' = Erase(files, n)
  PROVE  /\ DOMAIN files' = DOMAIN files \ {n}
         /\ \A m \in DOMAIN files' : files'[m] = files[m]
  BY DEF Erase

\* Every step of a single reporter keeps an event in one place.
LEMMA PlaceStep ==
  ASSUME NEW r0, Reporters = {r0}, TypeOK, OnePlace, Known, [Next]_vars
  PROVE  OnePlace' /\ Known'
<1>0. /\ acc[r0] \subseteq Events /\ job[r0] \in Jobs
      /\ acc = [r \in Reporters |-> acc[r]]
      /\ pc = [r \in Reporters |-> pc[r]]
      /\ job = [r \in Reporters |-> job[r]]
  BY DEF TypeOK
<1>1. CASE UNCHANGED vars
  BY <1>1, OnePlaceFrame, KnownFrame DEF vars, ledger
<1>2. CASE Start(r0)
  BY <1>2, OnePlaceFrame, KnownFrame DEF Start, ledger
<1>3. CASE Stop(r0)
  BY <1>3, OnePlaceFrame, KnownFrame DEF Stop, ledger
<1>4. CASE ExitLoop(r0)
  BY <1>4, OnePlaceFrame, KnownFrame DEF ExitLoop, ledger
<1>5. ASSUME NEW e \in Events, Record(r0, e) PROVE OnePlace' /\ Known'
  <2>1. acc'[r0] = acc[r0] \cup {e} /\ e \notin recorded
    BY <1>0, <1>5 DEF Record
  <2> QED
    BY <1>5, <2>1 DEF Record, OnePlace, Known
<1>6. CASE Flush(r0)
  <2>1. /\ acc'[r0] = {} /\ job'[r0].recs = acc[r0]
        /\ job'[r0].kind = "usage" /\ files' = files /\ recorded' = recorded
    BY <1>0, <1>6 DEF Flush, NoJob, ledger
  <2> QED
    BY <2>1 DEF OnePlace, Known
<1>7. CASE FlushNothing(r0)
  BY <1>7, OnePlaceFrame, KnownFrame DEF FlushNothing, ledger
<1>8. CASE Scan(r0)
  BY <1>8, OnePlaceFrame, KnownFrame DEF Scan, ledger
<1>9. CASE EndScan(r0)
  BY <1>9, OnePlaceFrame, KnownFrame DEF EndScan, ledger
<1>10. ASSUME NEW n \in listing[r0], SkipReport(r0, n) PROVE OnePlace' /\ Known'
  BY <1>10, OnePlaceFrame, KnownFrame DEF SkipReport, Visit, ledger
<1>11. ASSUME NEW n \in listing[r0], DiscardReport(r0, n) \/ RetryReport(r0, n)
       PROVE  OnePlace' /\ Known'
  <2>1. /\ job'[r0].recs = files[n].recs /\ job'[r0].name = n
        /\ job'[r0].kind \in {"file", "discard"} /\ n \in DOMAIN files
    BY <1>0, <1>11 DEF DiscardReport, RetryReport, Load, Readable
  <2>2. files' = files /\ acc' = acc /\ recorded' = recorded
    BY <1>11 DEF DiscardReport, RetryReport, Visit, ledger
  <2> QED
    BY <2>1, <2>2 DEF OnePlace, Known
<1>13. CASE RemoveReport(r0)
  <2>1. job'[r0].recs = {} /\ acc' = acc /\ recorded' = recorded
    BY <1>0, <1>13 DEF RemoveReport, NoJob, ledger
  <2>2. DOMAIN files' \subseteq DOMAIN files /\ \A m \in DOMAIN files' : files'[m] = files[m]
    BY <1>13, EraseAt DEF RemoveReport
  <2> QED
    BY <2>1, <2>2 DEF OnePlace, Known
<1>14. CASE Accepted(r0)
  <2>1. job'[r0] = job[r0] \/ job'[r0].recs = {}
    BY <1>0, <1>14 DEF Accepted, NoJob
  <2> QED
    BY <1>14, <2>1, OnePlaceFrame, KnownFrame DEF Accepted
<1>15. CASE Rejected(r0) \/ NotSent(r0)
  <2>1. /\ job'[r0].recs = job[r0].recs /\ job'[r0].kind = job[r0].kind
        /\ job'[r0].name = job[r0].name
    BY <1>0, <1>15 DEF Rejected, NotSent, Jobs
  <2> QED
    BY <1>15, <2>1, OnePlaceFrame, KnownFrame DEF Rejected, NotSent
<1>16. CASE Wake(r0)
  <2>1. /\ job'[r0].recs = job[r0].recs /\ job'[r0].kind = job[r0].kind
        /\ job'[r0].name = job[r0].name
    BY <1>0, <1>16 DEF Wake, Jobs
  <2> QED
    BY <1>16, <2>1, OnePlaceFrame, KnownFrame DEF Wake, ledger
<1>17. CASE OpenReport(r0)
  <2>0. acc' = acc /\ recorded' = recorded
    BY <1>17 DEF OpenReport, ledger
  <2>1. CASE files' = Put(files, Target(job[r0]).name, Torn) /\ job' = [job EXCEPT ![r0] = Target(job[r0])]
    <3> DEFINE n == Target(job[r0]).name
    <3>1. /\ job'[r0].recs = job[r0].recs /\ job'[r0].kind = job[r0].kind
          /\ job[r0].kind # "usage" => job'[r0].name = job[r0].name
      BY <1>0, <2>1 DEF Target, Jobs
    <3>a. DOMAIN files' = DOMAIN files \cup {n} /\ files'[n] = Torn
      BY <2>1, PutAt
    <3>2. DOMAIN files' = DOMAIN files \cup {n} /\ files'[n].recs = {}
      BY <3>a DEF Torn
    <3>3. \A m \in DOMAIN files : m # n => files'[m] = files[m]
      BY <2>1, PutAt
    <3> HIDE DEF n
    <3> QED
      BY <2>0, <3>1, <3>2, <3>3 DEF OnePlace, Known
  <2>2. CASE files' = files /\ job' = [job EXCEPT ![r0] = NoJob]
    <3>1. job'[r0].recs = {}
      BY <1>0, <2>2 DEF NoJob
    <3> QED
      BY <2>0, <2>2, <3>1, OnePlaceFrame, KnownFrame
  <2> QED
    BY <1>17, <2>1, <2>2 DEF OpenReport
<1>18. CASE WriteReport(r0)
  <2>0. acc' = acc /\ recorded' = recorded /\ job'[r0].recs = {}
    BY <1>0, <1>18 DEF WriteReport, NoJob, ledger
  <2>1. CASE files' = files
    BY <2>0, <2>1, OnePlaceFrame, KnownFrame
  <2>2. ASSUME NEW x \in {ReportOf(job[r0]), Torn}, job[r0].name \in DOMAIN files,
               files' = Put(files, job[r0].name, x)
        PROVE  OnePlace' /\ Known'
    <3> DEFINE n == job[r0].name
    <3>1. x.recs \subseteq job[r0].recs
      BY <2>2 DEF ReportOf, Torn
    <3>2. DOMAIN files' = DOMAIN files /\ files'[n] = x
      BY <2>2 DEF Put
    <3>3. \A m \in DOMAIN files : m # n => files'[m] = files[m]
      BY <2>2, PutAt
    <3> HIDE DEF n
    <3>4. n = job[r0].name
      BY DEF n
    <3> QED
      BY <2>0, <3>1, <3>2, <3>3, <3>4 DEF OnePlace, Known
  <2> QED
    BY <1>18, <2>1, <2>2 DEF WriteReport, Readable
<1>19. CASE Crash
  BY <1>0, <1>19, OnePlaceFrame, KnownFrame DEF Crash, NoJob, ledger
<1>20. CASE TimePasses
  BY <1>20, OnePlaceFrame, KnownFrame DEF TimePasses, ledger
<1> QED
  BY <1>1, <1>2, <1>3, <1>4, <1>5, <1>6, <1>7, <1>8, <1>9, <1>10, <1>11, <1>13,
     <1>14, <1>15, <1>16, <1>17, <1>18, <1>19, <1>20 DEF Next, Loop

\* With one reporter no event is ever in two places, so none is sent twice
\* because a batch was left behind by a flush, a persist or a retry.
THEOREM OnePlaceAlways ==
  ASSUME NEW r0, Reporters = {r0}
  PROVE  Spec => []OnePlace
<1>1. Init => OnePlace /\ Known
  BY DEF Init, OnePlace, Known, NoJob
<1>2. TypeOK /\ OnePlace /\ Known /\ [Next]_vars => OnePlace' /\ Known'
  BY PlaceStep
<1> QED
  BY <1>1, <1>2, Typing, PTL DEF Spec

----------------------------------------------------------------------------
\* Billing.

Kept(e) ==
  \/ \E r \in Reporters : e \in acc[r] \/ e \in job[r].recs
  \/ \E n \in DOMAIN files : e \in files[n].recs

\* The report in hand was accepted and its file is about to be removed.
Sent(e) == \E r \in Reporters :
             pc[r] = "remove" /\ job[r].kind = "file" /\ e \in job[r].recs

Mishaps == crashes + faults + unclear

\* A report about to be discarded is never submitted.
JobKind ==
  \A r \in Reporters :
    pc[r] \in {"post", "sleep", "open", "write"} => job[r].kind \in {"usage", "file"}

\* Every step keeps the kind of a job right for where the loop stands.
LEMMA KindStep ==
  ASSUME TypeOK, JobKind, [Next]_vars
  PROVE  JobKind'
<1>0. /\ pc = [r \in Reporters |-> pc[r]] /\ job = [r \in Reporters |-> job[r]]
      /\ \A r \in Reporters : job[r] \in Jobs
  BY DEF TypeOK
<1>1. CASE UNCHANGED vars
  BY <1>1 DEF vars, JobKind
<1>2. ASSUME NEW r \in Reporters,
             \/ Start(r) \/ Stop(r) \/ ExitLoop(r) \/ FlushNothing(r) \/ Scan(r) \/ EndScan(r)
             \/ \E e \in Events : Record(r, e)
             \/ \E n \in listing[r] : SkipReport(r, n)
      PROVE  JobKind'
  BY <1>0, <1>2 DEF Start, Stop, ExitLoop, FlushNothing, Scan, EndScan, Record, SkipReport,
                    Goto, JobKind
<1>3. ASSUME NEW r \in Reporters, Flush(r) \/ \E n \in listing[r] : RetryReport(r, n)
      PROVE  JobKind'
  <2>1. job'[r].kind \in {"usage", "file"}
    <3>1. CASE Flush(r)
      BY <1>0, <3>1 DEF Flush, NoJob
    <3>2. ASSUME NEW n \in listing[r], RetryReport(r, n) PROVE job'[r].kind = "file"
      BY <1>0, <3>2 DEF RetryReport, Load
    <3> QED
      BY <1>3, <3>1, <3>2
  <2>2. \A q \in Reporters \ {r} : job'[q] = job[q] /\ pc'[q] = pc[q]
    BY <1>0, <1>3 DEF Flush, RetryReport, Goto
  <2> QED
    BY <2>1, <2>2 DEF JobKind
<1>4. ASSUME NEW r \in Reporters, (\E n \in listing[r] : DiscardReport(r, n)) \/ RemoveReport(r)
      PROVE  JobKind'
  BY <1>0, <1>4 DEF DiscardReport, RemoveReport, Goto, JobKind
<1>5. ASSUME NEW r \in Reporters, Accepted(r) PROVE JobKind'
  BY <1>0, <1>5 DEF Accepted, JobKind
<1>6. ASSUME NEW r \in Reporters, NotSent(r) \/ Rejected(r) \/ Wake(r) PROVE JobKind'
  <2>1. job'[r].kind = job[r].kind /\ \A q \in Reporters \ {r} : job'[q] = job[q] /\ pc'[q] = pc[q]
    BY <1>0, <1>6 DEF NotSent, Rejected, Wake, Goto, Jobs
  <2>2. pc[r] \in {"post", "sleep"}
    BY <1>6 DEF NotSent, Rejected, Wake, Goto
  <2> QED
    BY <2>1, <2>2 DEF JobKind
<1>7. ASSUME NEW r \in Reporters, OpenReport(r) PROVE JobKind'
  <2>1. Target(job[r]).kind = job[r].kind
    BY <1>0 DEF Target, Jobs
  <2> QED
    BY <1>0, <1>7, <2>1 DEF OpenReport, After, JobKind
<1>8. ASSUME NEW r \in Reporters, WriteReport(r) PROVE JobKind'
  BY <1>0, <1>8 DEF WriteReport, After, JobKind
<1>9. CASE Crash
  BY <1>9 DEF Crash, JobKind
<1>10. CASE TimePasses
  BY <1>10 DEF TimePasses, JobKind
<1> QED
  BY <1>1, <1>2, <1>3, <1>4, <1>5, <1>6, <1>7, <1>8, <1>9, <1>10 DEF Next, Loop

\* An event that will be sent again has not yet used up its one free billing.
BillCap == \A e \in Events : billed[e] <= 1 + Mishaps

BillInv ==
  /\ BillCap
  /\ \A e \in Events :
       /\ Kept(e) /\ ~Sent(e) => billed[e] <= Mishaps
       /\ e \notin recorded => billed[e] = 0

\* The failures so far are a natural number.
LEMMA MishapsType == TypeOK => Mishaps \in Nat
<1>1. TypeOK => crashes \in Nat /\ faults \in Nat /\ unclear \in Nat
  BY DEF TypeOK
<1> QED
  BY <1>1 DEF Mishaps

\* Steps that bill nothing: an event may stop being kept, and starts to be sent
\* again only at the price of a failure.
LEMMA BillFrame ==
  ASSUME TypeOK, Mishaps \in Nat, Mishaps' \in Nat,
         BillInv, billed' = billed, recorded \subseteq recorded',
         Mishaps' >= Mishaps,
         \A e \in Events : Kept(e)' /\ ~Sent(e)' =>
            \/ Kept(e) /\ ~Sent(e)
            \/ Mishaps' > Mishaps
            \/ e \notin recorded
  PROVE  BillInv'
<1>1. ASSUME NEW e \in Events PROVE billed[e] \in Nat /\ billed'[e] = billed[e]
  BY DEF TypeOK
<1> QED
  BY <1>1 DEF BillInv, BillCap

\* Every step of a single reporter keeps the bound on billing.
LEMMA BillStep ==
  ASSUME NEW r0, Reporters = {r0}, TypeOK, Mishaps \in Nat, Mishaps' \in Nat,
         JobKind, OnePlace, Known, BillInv, [Next]_vars
  PROVE  BillInv'
<1>0. /\ acc[r0] \subseteq Events /\ job[r0] \in Jobs
      /\ acc = [r \in Reporters |-> acc[r]]
      /\ pc = [r \in Reporters |-> pc[r]]
      /\ job = [r \in Reporters |-> job[r]]
      /\ crashes \in Nat /\ faults \in Nat /\ unclear \in Nat
  BY DEF TypeOK
<1> USE DEF Mishaps
<1>1. CASE UNCHANGED vars
  BY <1>0, <1>1, BillFrame DEF vars, ledger, failures, Kept, Sent
<1>2. CASE Start(r0)
  BY <1>0, <1>2, BillFrame DEF Start, Goto, ledger, failures, Kept, Sent
<1>3. CASE Stop(r0)
  BY <1>0, <1>3, BillFrame DEF Stop, ledger, failures, Kept, Sent
<1>4. CASE ExitLoop(r0)
  BY <1>0, <1>4, BillFrame DEF ExitLoop, Goto, ledger, failures, Kept, Sent
<1>5. ASSUME NEW e \in Events, Record(r0, e) PROVE BillInv'
  <2>1. acc'[r0] = acc[r0] \cup {e} /\ e \notin recorded
    BY <1>0, <1>5 DEF Record
  <2> QED
    BY <1>0, <1>5, <2>1, BillFrame DEF Record, failures, Kept, Sent
<1>6. CASE Flush(r0)
  <2>1. acc'[r0] = {} /\ job'[r0].recs = acc[r0] /\ pc[r0] = "idle"
    BY <1>0, <1>6 DEF Flush, Goto, NoJob
  <2>2. \A e \in Events : Kept(e)' => Kept(e)
    BY <1>6, <2>1 DEF Flush, Kept
  <2> QED
    BY <1>0, <1>6, <2>1, <2>2, BillFrame DEF Flush, ledger, failures, Sent
<1>7. CASE FlushNothing(r0)
  BY <1>0, <1>7, BillFrame DEF FlushNothing, Goto, ledger, failures, Kept, Sent
<1>8. CASE Scan(r0)
  BY <1>0, <1>8, BillFrame DEF Scan, Goto, DiskFault, ledger, failures, Kept, Sent
<1>9. CASE EndScan(r0)
  BY <1>0, <1>9, BillFrame DEF EndScan, Goto, ledger, failures, Kept, Sent
<1>10. ASSUME NEW n \in listing[r0], SkipReport(r0, n) PROVE BillInv'
  BY <1>0, <1>10, BillFrame DEF SkipReport, Visit, DiskFault, ledger, failures, Kept, Sent
<1>11. ASSUME NEW n \in listing[r0], DiscardReport(r0, n) \/ RetryReport(r0, n)
       PROVE  BillInv'
  <2>1. job'[r0].recs = files[n].recs /\ n \in DOMAIN files /\ pc[r0] = "next"
    BY <1>0, <1>11 DEF DiscardReport, RetryReport, Goto, Load, Readable
  <2>2. files' = files /\ acc' = acc /\ UNCHANGED ledger /\ UNCHANGED failures
    BY <1>11 DEF DiscardReport, RetryReport, Visit
  <2>3. \A e \in Events : Kept(e)' => Kept(e)
    BY <2>1, <2>2 DEF Kept
  <2>4. \A e \in Events : ~Sent(e)
    BY <2>1 DEF Sent
  <2> QED
    BY <1>0, <2>2, <2>3, <2>4, BillFrame DEF ledger, failures
<1>13. CASE RemoveReport(r0)
  <2>0. /\ pc[r0] = "remove" /\ job'[r0].recs = {} /\ acc' = acc
        /\ billed' = billed /\ recorded' = recorded
    BY <1>0, <1>13 DEF RemoveReport, Goto, NoJob, ledger
  <2>1. CASE files' = Erase(files, job[r0].name) /\ UNCHANGED failures
    <3>1. /\ DOMAIN files' = DOMAIN files \ {job[r0].name}
          /\ \A m \in DOMAIN files' : files'[m] = files[m]
      BY <2>1, EraseAt
    <3>2. \A e \in Events : Kept(e)' => Kept(e) /\ ~Sent(e)
      BY <2>0, <3>1 DEF Kept, Sent, OnePlace
    <3> QED
      BY <1>0, <2>0, <2>1, <3>2, BillFrame DEF failures
  <2>2. CASE files' = files /\ DiskFault
    BY <1>0, <2>0, <2>2, BillFrame DEF DiskFault
  <2> QED
    BY <1>13, <2>1, <2>2 DEF RemoveReport
<1>14. CASE Accepted(r0)
  <2>1. pc[r0] = "post" /\ \A e \in Events : ~Sent(e)
    BY <1>14 DEF Accepted, Sent
  <2>2. \A e \in Events : billed'[e] = IF e \in job[r0].recs THEN billed[e] + 1 ELSE billed[e]
    BY <1>14 DEF Accepted, Add
  <2>3. acc' = acc /\ files' = files /\ recorded' = recorded /\ Mishaps' = Mishaps
    BY <1>14 DEF Accepted, failures
  <2>4. \A e \in Events : Kept(e)' => Kept(e)
    <3>1. job'[r0] = job[r0] \/ job'[r0].recs = {}
      BY <1>0, <1>14 DEF Accepted, NoJob
    <3> QED
      BY <2>3, <3>1 DEF Kept
  <2>5. \A e \in job[r0].recs : Kept(e)' => Sent(e)'
    <3>1. CASE job[r0].kind = "usage"
      <4>1. job'[r0].recs = {}
        BY <1>0, <1>14, <3>1 DEF Accepted, NoJob
      <4> QED
        BY <2>3, <3>1, <4>1 DEF Kept, OnePlace
    <3>2. CASE job[r0].kind = "file"
      BY <1>0, <1>14, <3>2 DEF Accepted, Sent
    <3> QED
      BY <2>1, <3>1, <3>2 DEF JobKind
  <2>6. ASSUME NEW e \in Events PROVE billed[e] \in Nat
    BY DEF TypeOK
  <2>7. \A e \in job[r0].recs : Kept(e) /\ e \in recorded
    BY DEF Kept, Known
  <2> QED
    BY <1>0, <2>1, <2>2, <2>3, <2>4, <2>5, <2>6, <2>7 DEF BillInv, BillCap
<1>15. CASE Rejected(r0)
  <2>1. job'[r0].recs = job[r0].recs /\ pc[r0] = "post"
    BY <1>0, <1>15 DEF Rejected, Jobs
  <2>2. acc' = acc /\ files' = files /\ recorded' = recorded
    BY <1>15 DEF Rejected
  <2>3. \A e \in Events : (Kept(e)' => Kept(e)) /\ ~Sent(e)
    BY <2>1, <2>2 DEF Kept, Sent
  <2>4. CASE billed' = billed /\ UNCHANGED failures
    BY <1>0, <2>2, <2>3, <2>4, BillFrame DEF failures
  <2>5. CASE Mishaps' = Mishaps + 1 /\ billed' = Add(billed, job[r0].recs)
    <3>1. \A e \in Events : billed'[e] = IF e \in job[r0].recs THEN billed[e] + 1 ELSE billed[e]
      BY <2>5 DEF Add
    <3>2. ASSUME NEW e \in Events PROVE billed[e] \in Nat
      BY DEF TypeOK
    <3>3. \A e \in job[r0].recs : Kept(e) /\ e \in recorded
      BY DEF Kept, Known
    <3> QED
      BY <1>0, <2>2, <2>3, <2>5, <3>1, <3>2, <3>3 DEF BillInv, BillCap
  <2> QED
    BY <1>0, <1>15, <2>4, <2>5 DEF Rejected
<1>16. CASE Wake(r0) \/ NotSent(r0)
  <2>1. job'[r0].recs = job[r0].recs /\ pc[r0] \in {"sleep", "post"}
    BY <1>0, <1>16 DEF Wake, NotSent, Goto, Jobs
  <2> QED
    BY <1>0, <1>16, <2>1, BillFrame DEF Wake, NotSent, ledger, failures, Kept, Sent
<1>17. CASE OpenReport(r0)
  <2>0. /\ acc' = acc /\ UNCHANGED ledger /\ pc[r0] = "open"
        /\ \A e \in Events : ~Sent(e)
    BY <1>17 DEF OpenReport, Sent
  <2>1. CASE /\ files' = Put(files, Target(job[r0]).name, Torn)
             /\ job' = [job EXCEPT ![r0] = Target(job[r0])] /\ UNCHANGED failures
    <3> DEFINE n == Target(job[r0]).name
    <3>1. job'[r0].recs = job[r0].recs
      BY <1>0, <2>1 DEF Target, Jobs
    <3>2. DOMAIN files' = DOMAIN files \cup {n} /\ files'[n] = Torn
      BY <2>1, PutAt
    <3>3. \A m \in DOMAIN files : m # n => files'[m] = files[m]
      BY <2>1, PutAt
    <3> HIDE DEF n
    <3>4. files'[n].recs = {}
      BY <3>2 DEF Torn
    <3>5. \A e \in Events : Kept(e)' => Kept(e)
      BY <2>0, <3>1, <3>2, <3>3, <3>4 DEF Kept
    <3> QED
      BY <1>0, <2>0, <2>1, <3>5, BillFrame DEF ledger, failures
  <2>2. CASE files' = files /\ job' = [job EXCEPT ![r0] = NoJob] /\ DiskFault
    BY <1>0, <2>0, <2>2, BillFrame DEF ledger, DiskFault
  <2> QED
    BY <1>17, <2>1, <2>2 DEF OpenReport
<1>18. CASE WriteReport(r0)
  <2>0. /\ acc' = acc /\ UNCHANGED ledger /\ job'[r0].recs = {} /\ pc[r0] = "write"
        /\ \A e \in Events : ~Sent(e)
    BY <1>0, <1>18 DEF WriteReport, NoJob, Sent
  <2>1. CASE files' = files
    <3>1. \A e \in Events : Kept(e)' => Kept(e)
      BY <2>0, <2>1 DEF Kept
    <3>2. Mishaps' >= Mishaps
      BY <1>0, <1>18 DEF WriteReport, DiskFault, failures
    <3> QED
      BY <1>0, <2>0, <3>1, <3>2, BillFrame DEF ledger
  <2>2. ASSUME NEW x \in {ReportOf(job[r0]), Torn}, job[r0].name \in DOMAIN files,
               files' = Put(files, job[r0].name, x), UNCHANGED failures
        PROVE  BillInv'
    <3>1. x.recs \subseteq job[r0].recs
      BY <2>2 DEF ReportOf, Torn
    <3>2. /\ DOMAIN files' = DOMAIN files /\ files'[job[r0].name] = x
          /\ \A m \in DOMAIN files : m # job[r0].name => files'[m] = files[m]
      BY <2>2, PutAt
    <3>3. \A e \in Events : Kept(e)' => Kept(e)
      BY <2>0, <3>1, <3>2 DEF Kept
    <3> QED
      BY <1>0, <2>0, <2>2, <3>3, BillFrame DEF ledger, failures
  <2> QED
    BY <1>18, <2>1, <2>2 DEF WriteReport, Readable
<1>19. CASE Crash
  BY <1>0, <1>19, BillFrame DEF Crash, ledger
<1>20. CASE TimePasses
  BY <1>0, <1>20, BillFrame DEF TimePasses, ledger, failures, Kept, Sent
<1> QED
  BY <1>1, <1>2, <1>3, <1>4, <1>5, <1>6, <1>7, <1>8, <1>9, <1>10, <1>11, <1>13,
     <1>14, <1>15, <1>16, <1>17, <1>18, <1>19, <1>20 DEF Next, Loop

\* With one reporter the endpoint applies an event once, and again only for a
\* crash, a failing file operation or an attempt it applied without confirming.
THEOREM BilledOnce ==
  ASSUME NEW r0, Reporters = {r0}
  PROVE  Spec => []BilledOncePerFailure
<1>1. Init => JobKind /\ OnePlace /\ Known /\ BillInv
  BY DEF Init, JobKind, OnePlace, Known, NoJob, BillInv, BillCap, Kept, Mishaps
<1>2. /\ TypeOK /\ Mishaps \in Nat /\ (Mishaps \in Nat)'
      /\ JobKind /\ OnePlace /\ Known /\ BillInv /\ [Next]_vars
      => JobKind' /\ OnePlace' /\ Known' /\ BillInv'
  BY KindStep, PlaceStep, BillStep
<1>3. TypeOK /\ BillInv => BilledOncePerFailure
  <2> SUFFICES ASSUME TypeOK, BillCap, NEW e \in Events
               PROVE  billed[e] <= 1 + crashes + faults + unclear
    BY DEF BillInv, BilledOncePerFailure
  <2>1. crashes \in Nat /\ faults \in Nat /\ unclear \in Nat /\ billed[e] \in Nat
    BY DEF TypeOK
  <2> QED
    BY <2>1 DEF BillCap, Mishaps
<1> QED
  BY <1>1, <1>2, <1>3, Typing, MishapsType, PTL DEF Spec

----------------------------------------------------------------------------
\* A report in hand and its file.

\* What a lone reporter's place in the loop says of its batch and of the disk:
\* a report in hand is the report on disk until WriteFile truncates it.
InStep(r) ==
  /\ pc[r] \in {"off", "scan", "next", "idle", "stopped"} => job[r].recs = {}
  /\ pc[r] = "remove" => job[r].kind \in {"file", "discard"}
  /\ pc[r] \in {"post", "sleep", "open", "remove"} /\ job[r].kind # "usage" =>
       /\ job[r].name \in DOMAIN files
       /\ files[job[r].name].whole
       /\ files[job[r].name].recs = job[r].recs
  /\ pc[r] = "write" => job[r].name \in DOMAIN files /\ ~files[job[r].name].whole
  /\ pc[r] = "remove" /\ job[r].kind = "file" => \A e \in job[r].recs : billed[e] > 0

\* Every step of a single reporter keeps a retried report in step with its file.
LEMMA InStepStep ==
  ASSUME NEW r0, Reporters = {r0}, TypeOK, JobKind, InStep(r0), [Next]_vars
  PROVE  InStep(r0)'
<1> USE DEF InStep
<1>0. /\ pc = [r \in Reporters |-> pc[r]] /\ job = [r \in Reporters |-> job[r]]
      /\ job[r0] \in Jobs /\ billed \in [Events -> Nat]
  BY DEF TypeOK
<1>1. CASE UNCHANGED vars
  BY <1>1 DEF vars
<1>2. CASE Start(r0) \/ Stop(r0) \/ ExitLoop(r0) \/ FlushNothing(r0) \/ Scan(r0) \/ EndScan(r0)
  BY <1>0, <1>2 DEF Start, Stop, ExitLoop, FlushNothing, Scan, EndScan, Goto, ledger
<1>3. ASSUME NEW e \in Events, Record(r0, e) PROVE InStep(r0)'
  BY <1>0, <1>3 DEF Record
<1>4. ASSUME NEW n \in listing[r0], SkipReport(r0, n) PROVE InStep(r0)'
  BY <1>0, <1>4 DEF SkipReport, Visit, ledger
<1>5. CASE Flush(r0)
  <2>1. pc'[r0] = "post" /\ job'[r0].kind = "usage"
    BY <1>0, <1>5 DEF Flush, Goto, NoJob
  <2> QED
    BY <2>1
<1>6. ASSUME NEW n \in listing[r0], DiscardReport(r0, n) PROVE InStep(r0)'
  <2>1. /\ job'[r0].recs = files[n].recs /\ job'[r0].name = n /\ job'[r0].kind = "discard"
        /\ pc'[r0] = "remove" /\ files' = files
    BY <1>0, <1>6 DEF DiscardReport, Visit, Goto, Load
  <2>2. n \in DOMAIN files /\ files[n].whole
    BY <1>6 DEF DiscardReport, Readable
  <2> QED
    BY <2>1, <2>2
<1>7. ASSUME NEW n \in listing[r0], RetryReport(r0, n) PROVE InStep(r0)'
  <2>1. /\ job'[r0].recs = files[n].recs /\ job'[r0].name = n /\ job'[r0].kind = "file"
        /\ pc'[r0] = "post" /\ files' = files
    BY <1>0, <1>7 DEF RetryReport, Visit, Goto, Load
  <2>2. n \in DOMAIN files /\ files[n].whole
    BY <1>7 DEF RetryReport, Readable
  <2> QED
    BY <2>1, <2>2
<1>8. CASE RemoveReport(r0)
  <2>1. pc'[r0] = "next" /\ job'[r0].recs = {}
    BY <1>0, <1>8 DEF RemoveReport, Goto, NoJob
  <2> QED
    BY <2>1
<1>9. CASE Accepted(r0)
  <2>1. CASE job[r0].kind = "usage"
    <3>1. pc'[r0] = "scan" /\ job'[r0].recs = {}
      BY <1>0, <1>9, <2>1 DEF Accepted, NoJob
    <3> QED
      BY <3>1
  <2>2. CASE job[r0].kind # "usage"
    <3>1. pc'[r0] = "remove" /\ job' = job /\ files' = files /\ pc[r0] = "post"
      BY <1>0, <1>9, <2>2 DEF Accepted
    <3>2. ASSUME NEW e \in job[r0].recs PROVE billed'[e] > 0
      <4>1. e \in Events /\ billed[e] \in Nat
        BY <1>0 DEF Jobs
      <4>2. billed'[e] = billed[e] + 1
        BY <1>9, <4>1 DEF Accepted, Add
      <4> QED
        BY <4>1, <4>2
    <3>3. job[r0].kind = "file"
      BY <2>2, <3>1 DEF JobKind
    <3> QED
      BY <3>1, <3>2, <3>3
  <2> QED
    BY <2>1, <2>2
<1>10. CASE Rejected(r0) \/ NotSent(r0)
  <2>1. /\ job'[r0].recs = job[r0].recs /\ job'[r0].kind = job[r0].kind
        /\ job'[r0].name = job[r0].name
    BY <1>0, <1>10 DEF Rejected, NotSent, Jobs
  <2>2. pc[r0] = "post" /\ pc'[r0] \in {"sleep", "open"} /\ files' = files
    BY <1>0, <1>10 DEF Rejected, NotSent, Goto
  <2> QED
    BY <2>1, <2>2
<1>11. CASE Wake(r0)
  <2>1. /\ job'[r0].recs = job[r0].recs /\ job'[r0].kind = job[r0].kind
        /\ job'[r0].name = job[r0].name
    BY <1>0, <1>11 DEF Wake, Jobs
  <2>2. pc[r0] = "sleep" /\ pc'[r0] = "post" /\ files' = files
    BY <1>0, <1>11 DEF Wake, Goto
  <2> QED
    BY <2>1, <2>2
<1>12. CASE OpenReport(r0)
  <2>1. CASE /\ pc' = [pc EXCEPT ![r0] = "write"]
             /\ files' = Put(files, Target(job[r0]).name, Torn)
             /\ job' = [job EXCEPT ![r0] = Target(job[r0])]
    <3>1. pc'[r0] = "write" /\ job'[r0].name = Target(job[r0]).name
      BY <1>0, <2>1
    <3>2. Target(job[r0]).name \in DOMAIN files' /\ files'[Target(job[r0]).name] = Torn
      BY <2>1, PutAt
    <3>3. ~files'[Target(job[r0]).name].whole
      BY <3>2 DEF Torn
    <3> QED
      BY <3>1, <3>2, <3>3
  <2>2. CASE pc' = [pc EXCEPT ![r0] = After(job[r0])] /\ job' = [job EXCEPT ![r0] = NoJob]
    <3>1. pc'[r0] \in {"scan", "next"} /\ job'[r0].recs = {}
      BY <1>0, <2>2 DEF After, NoJob
    <3> QED
      BY <3>1
  <2> QED
    BY <1>12, <2>1, <2>2 DEF OpenReport
<1>13. CASE WriteReport(r0)
  <2>1. pc'[r0] \in {"scan", "next"} /\ job'[r0].recs = {}
    BY <1>0, <1>13 DEF WriteReport, After, NoJob
  <2> QED
    BY <2>1
<1>14. CASE Crash
  BY <1>14 DEF Crash, NoJob
<1>15. CASE TimePasses
  BY <1>15 DEF TimePasses, ledger
<1> QED
  BY <1>1, <1>2, <1>3, <1>4, <1>5, <1>6, <1>7, <1>8, <1>9, <1>10, <1>11, <1>12, <1>13,
     <1>14, <1>15 DEF Next, Loop

----------------------------------------------------------------------------
\* How often an event was sent.

\* What k retries of a report, and the round before them, amount to.
Rounds(k) == MaxRetries * (k + 1)

\* What crashes and failing files may have cost on top.
Slack == MaxRetries * (crashes + faults)

\* Rounds grows by maxRetries with each retry.
LEMMA RoundsGrow ==
  /\ \A k \in Nat : Rounds(k) \in Nat /\ Rounds(k + 1) = Rounds(k) + MaxRetries
  /\ \A k, m \in Nat : k <= m => Rounds(k) <= Rounds(m)
<1>1. MaxRetries \in Nat
  BY RetriesAssumption
<1>2. ASSUME NEW k \in Nat PROVE Rounds(k) \in Nat /\ Rounds(k + 1) = Rounds(k) + MaxRetries
  BY <1>1 DEF Rounds
<1>3. ASSUME NEW k \in Nat, NEW m \in Nat, k <= m PROVE Rounds(k) <= Rounds(m)
  <2>1. m - k \in Nat /\ MaxRetries * (m - k) \in Nat
    BY <1>1, <1>3
  <2>2. MaxRetries * (m + 1) = MaxRetries * (k + 1) + MaxRetries * (m - k)
    BY <1>1
  <2> QED
    BY <1>1, <2>1, <2>2 DEF Rounds
<1> QED
  BY <1>2, <1>3

\* A failure pays for one more round; anything else leaves the slack as it is.
LEMMA SlackGrows ==
  ASSUME TypeOK, crashes' \in Nat, faults' \in Nat
  PROVE  /\ Slack \in Nat /\ Slack' \in Nat
         /\ crashes' + faults' = crashes + faults => Slack' = Slack
         /\ crashes' + faults' = crashes + faults + 1 => Slack' = Slack + MaxRetries
<1>1. MaxRetries \in Nat /\ crashes \in Nat /\ faults \in Nat
  BY RetriesAssumption DEF TypeOK
<1>2. Slack \in Nat /\ Slack' \in Nat
  <2>1. \A k \in Nat : MaxRetries * k \in Nat
    BY <1>1
  <2>2. crashes + faults \in Nat /\ crashes' + faults' \in Nat
    <3>1. \A a, b \in Nat : a + b \in Nat
      OBVIOUS
    <3> QED
      BY <1>1, <3>1, Zenon
  <2>3. Slack = MaxRetries * (crashes + faults) /\ Slack' = MaxRetries * (crashes' + faults')
    BY DEF Slack
  <2> QED
    BY <2>1, <2>2, <2>3, Zenon
<1>3. ASSUME crashes' + faults' = crashes + faults PROVE Slack' = Slack
  <2>1. Slack = MaxRetries * (crashes + faults) /\ Slack' = MaxRetries * (crashes' + faults')
    BY DEF Slack
  <2> QED
    BY <1>3, <2>1, Zenon
<1>4. ASSUME crashes' + faults' = crashes + faults + 1 PROVE Slack' = Slack + MaxRetries
  <2>1. Slack = MaxRetries * (crashes + faults) /\ Slack' = MaxRetries * (crashes' + faults')
    BY DEF Slack
  <2>2. \A k \in Nat : MaxRetries * (k + 1) = MaxRetries * k + MaxRetries
    BY <1>1
  <2>3. crashes + faults \in Nat
    BY <1>1
  <2> QED
    BY <1>4, <2>1, <2>2, <2>3, Zenon
<1> QED
  BY <1>2, <1>3, <1>4

\* The rounds of attempts a job had behind it when it came into r's hands.
Before(j) == IF j.kind = "usage" THEN 0 ELSE Rounds(j.retries)

\* The counts a job carries stay within maxRetries, and a report in hand has the
\* stamp and the retries of its file; what is to be discarded has a reason; and
\* who cannot send does not sleep.
Counts(r) ==
  /\ pc[r] \in {"post", "sleep", "open", "remove"} /\ job[r].kind # "usage" =>
       /\ files[job[r].name].stamp = job[r].stamp
       /\ job[r].retries = files[job[r].name].retries + (IF pc[r] = "open" THEN 1 ELSE 0)
  /\ pc[r] = "remove" /\ job[r].kind = "discard" =>
       job[r].retries >= MaxRetries \/ clock - job[r].stamp > MaxAge
  /\ pc[r] = "write" => files[job[r].name].recs = {}
  /\ job[r].kind = "usage" => job[r].retries = 0
  /\ pc[r] = "post" => job[r].attempt <= MaxRetries - 1
  /\ pc[r] = "sleep" => job[r].attempt <= MaxRetries - 2
  /\ pc[r] \in {"post", "sleep"} => job[r].retries <= MaxRetries - 1
  /\ ~parses[r] => pc[r] # "sleep" /\ (pc[r] = "post" => job[r].attempt = 0)
  /\ pc[r] = "remove" /\ job[r].kind = "file" => job[r].retries <= MaxRetries - 1
  /\ job[r].retries <= MaxRetries
  /\ \A n \in DOMAIN files : files[n].retries <= MaxRetries

\* How often e was sent, told by where it is: exactly so many times but for failures.
Tried(r, e) ==
  /\ e \notin recorded \/ e \in acc[r] => Spent(e) = 0
  /\ Spent(e) <= Rounds(MaxRetries) + Slack
  /\ e \in job[r].recs =>
       /\ pc[r] = "post" =>
            /\ Spent(e) >= Before(job[r]) + job[r].attempt
            /\ Spent(e) <= Before(job[r]) + job[r].attempt + Slack
       /\ pc[r] = "sleep" =>
            /\ Spent(e) >= Before(job[r]) + job[r].attempt + 1
            /\ Spent(e) <= Before(job[r]) + job[r].attempt + 1 + Slack
       /\ pc[r] \in {"open", "write"} =>
            /\ Spent(e) >= Rounds(job[r].retries)
            /\ Spent(e) <= Rounds(job[r].retries) + Slack
       /\ pc[r] = "remove" =>
            /\ Spent(e) >= Rounds(job[r].retries)
            /\ job[r].kind = "discard" => Spent(e) <= Rounds(job[r].retries) + Slack
            /\ Spent(e) <= Rounds(job[r].retries) + MaxRetries + Slack
  /\ \A n \in DOMAIN files : e \in files[n].recs =>
       /\ Spent(e) >= Rounds(files[n].retries)
       /\ e \notin job[r].recs => Spent(e) <= Rounds(files[n].retries) + Slack

\* Every step of a single reporter keeps its counts.
LEMMA CountsStep ==
  ASSUME NEW r0, Reporters = {r0}, TypeOK, JobKind, InStep(r0), Counts(r0), [Next]_vars
  PROVE  Counts(r0)'
<1> USE DEF Counts
<1>0. /\ pc = [r \in Reporters |-> pc[r]] /\ job = [r \in Reporters |-> job[r]]
      /\ job[r0] \in Jobs /\ clock \in Nat /\ MaxRetries \in Nat /\ MaxRetries >= 2
      /\ MaxAge \in Nat
      /\ \A n \in DOMAIN files : files[n].retries \in Nat /\ files[n].stamp \in Nat
  BY RetriesAssumption, AgeAssumption DEF TypeOK, Reports
<1>1. CASE UNCHANGED vars
  BY <1>1 DEF vars
<1>2. CASE Start(r0) \/ Stop(r0) \/ ExitLoop(r0) \/ FlushNothing(r0) \/ Scan(r0) \/ EndScan(r0)
  BY <1>0, <1>2 DEF Start, Stop, ExitLoop, FlushNothing, Scan, EndScan, Goto
<1>3. ASSUME NEW e \in Events, Record(r0, e) PROVE Counts(r0)'
  BY <1>0, <1>3 DEF Record
<1>4. ASSUME NEW n \in listing[r0], SkipReport(r0, n) PROVE Counts(r0)'
  BY <1>0, <1>4 DEF SkipReport, Visit
<1>5. CASE Flush(r0)
  <2>1. /\ pc'[r0] = "post" /\ job'[r0].kind = "usage" /\ files' = files
        /\ job'[r0].retries = 0 /\ job'[r0].attempt = 0
    BY <1>0, <1>5 DEF Flush, Goto, NoJob
  <2> QED
    BY <1>0, <2>1
<1>6. ASSUME NEW n \in listing[r0], DiscardReport(r0, n) PROVE Counts(r0)'
  <2>1. /\ job'[r0].name = n /\ job'[r0].kind = "discard"
        /\ job'[r0].retries = files[n].retries /\ job'[r0].stamp = files[n].stamp
        /\ pc'[r0] = "remove" /\ files' = files /\ clock' = clock
    BY <1>0, <1>6 DEF DiscardReport, Visit, Goto, Load
  <2>2. n \in DOMAIN files /\ (clock - files[n].stamp > MaxAge \/ files[n].retries >= MaxRetries)
    BY <1>6 DEF DiscardReport, Readable, Expired
  <2> QED
    BY <1>0, <2>1, <2>2
<1>7. ASSUME NEW n \in listing[r0], RetryReport(r0, n) PROVE Counts(r0)'
  <2>1. /\ job'[r0].name = n /\ job'[r0].kind = "file" /\ job'[r0].attempt = 0
        /\ job'[r0].retries = files[n].retries /\ job'[r0].stamp = files[n].stamp
        /\ pc'[r0] = "post" /\ files' = files
    BY <1>0, <1>7 DEF RetryReport, Visit, Goto, Load
  <2>2. n \in DOMAIN files /\ ~(files[n].retries >= MaxRetries)
    BY <1>7 DEF RetryReport, Readable, Expired
  <2> QED
    BY <1>0, <2>1, <2>2
<1>8. CASE RemoveReport(r0)
  <2>1. pc'[r0] = "next" /\ job'[r0] = NoJob
    BY <1>0, <1>8 DEF RemoveReport, Goto
  <2>2. \A n \in DOMAIN files' : n \in DOMAIN files /\ files'[n] = files[n]
    BY <1>8, EraseAt DEF RemoveReport
  <2> QED
    BY <1>0, <2>1, <2>2 DEF NoJob
<1>9. CASE Accepted(r0)
  <2>1. CASE job[r0].kind = "usage"
    <3>1. pc'[r0] = "scan" /\ job'[r0] = NoJob /\ files' = files
      BY <1>0, <1>9, <2>1 DEF Accepted
    <3> QED
      BY <1>0, <3>1 DEF NoJob
  <2>2. CASE job[r0].kind # "usage"
    <3>1. pc'[r0] = "remove" /\ job' = job /\ files' = files /\ pc[r0] = "post" /\ clock' = clock
      BY <1>0, <1>9, <2>2 DEF Accepted
    <3> QED
      BY <1>0, <2>2, <3>1 DEF JobKind
  <2> QED
    BY <2>1, <2>2
<1>10. CASE Rejected(r0) \/ NotSent(r0)
  <2>1. /\ job'[r0].kind = job[r0].kind /\ job'[r0].attempt = job[r0].attempt
        /\ job'[r0].name = job[r0].name /\ job'[r0].stamp = job[r0].stamp
    BY <1>0, <1>10 DEF Rejected, NotSent, Jobs
  <2>2. pc[r0] = "post" /\ files' = files /\ parses' = parses
    BY <1>10 DEF Rejected, NotSent, Goto
  <2>3. CASE Rejected(r0) /\ job[r0].attempt < MaxRetries - 1
    <3>1. pc'[r0] = "sleep" /\ job' = job /\ parses[r0]
      BY <1>0, <2>3 DEF Rejected
    <3>2. job[r0].attempt \in Nat
      BY <1>0 DEF Jobs
    <3> QED
      BY <1>0, <2>2, <2>3, <3>1, <3>2
  <2>4. CASE NotSent(r0) \/ ~(job[r0].attempt < MaxRetries - 1)
    <3>1. /\ pc'[r0] = "open"
          /\ job'[r0].retries = IF job[r0].kind = "usage" THEN job[r0].retries ELSE job[r0].retries + 1
      BY <1>0, <1>10, <2>4 DEF Rejected, NotSent, Goto, Jobs
    <3>2. job[r0].retries \in Nat
      BY <1>0 DEF Jobs
    <3>3. CASE job[r0].kind = "usage"
      BY <1>0, <2>1, <2>2, <3>1, <3>2, <3>3
    <3>4. CASE job[r0].kind # "usage"
      <4>1. job'[r0].retries = job[r0].retries + 1 /\ job[r0].retries <= MaxRetries - 1
        BY <2>2, <3>1, <3>4
      <4>0. /\ files[job[r0].name].stamp = job[r0].stamp
            /\ job[r0].retries = files[job[r0].name].retries
        BY <1>0, <2>2, <3>4 DEF InStep
      <4>2. /\ files'[job'[r0].name].stamp = job'[r0].stamp
            /\ job'[r0].retries = files'[job'[r0].name].retries + 1
        BY <2>1, <2>2, <4>0, <4>1
      <4> QED
        BY <1>0, <2>1, <2>2, <3>1, <3>2, <3>4, <4>1, <4>2
    <3> QED
      BY <3>3, <3>4
  <2> QED
    BY <1>10, <2>3, <2>4
<1>11. CASE Wake(r0)
  <2>1. /\ job'[r0].retries = job[r0].retries /\ job'[r0].kind = job[r0].kind
        /\ job'[r0].name = job[r0].name /\ job'[r0].stamp = job[r0].stamp
        /\ job'[r0].attempt = job[r0].attempt + 1 /\ job[r0].attempt \in Nat
    BY <1>0, <1>11 DEF Wake, Jobs
  <2>2. pc[r0] = "sleep" /\ pc'[r0] = "post" /\ files' = files /\ parses' = parses
    BY <1>0, <1>11 DEF Wake, Goto
  <2> QED
    BY <1>0, <2>1, <2>2
<1>12. CASE OpenReport(r0)
  <2>1. CASE /\ pc' = [pc EXCEPT ![r0] = "write"]
             /\ files' = Put(files, Target(job[r0]).name, Torn)
             /\ job' = [job EXCEPT ![r0] = Target(job[r0])]
    <3>1. /\ pc'[r0] = "write" /\ job'[r0].retries = job[r0].retries /\ job'[r0].kind = job[r0].kind
          /\ job'[r0].name = Target(job[r0]).name
      BY <1>0, <2>1 DEF Target, Jobs
    <3>2. \A n \in DOMAIN files' : files'[n] = Torn \/ (n \in DOMAIN files /\ files'[n] = files[n])
      BY <2>1, PutEither
    <3>3. files'[Target(job[r0]).name] = Torn
      BY <2>1, PutAt
    <3> QED
      BY <1>0, <3>1, <3>2, <3>3 DEF Torn
  <2>2. CASE /\ pc' = [pc EXCEPT ![r0] = After(job[r0])] /\ job' = [job EXCEPT ![r0] = NoJob]
             /\ files' = files
    <3>1. pc'[r0] \in {"scan", "next"} /\ job'[r0] = NoJob
      BY <1>0, <2>2 DEF After
    <3> QED
      BY <1>0, <2>2, <3>1 DEF NoJob
  <2> QED
    BY <1>12, <2>1, <2>2 DEF OpenReport
<1>13. CASE WriteReport(r0)
  <2>1. pc'[r0] \in {"scan", "next"} /\ job'[r0] = NoJob
    BY <1>0, <1>13 DEF WriteReport, After
  <2>2. ASSUME NEW n \in DOMAIN files'
        PROVE  \/ n \in DOMAIN files /\ files'[n] = files[n]
               \/ files'[n] \in {ReportOf(job[r0]), Torn}
    BY <1>13, <2>2, PutEither DEF WriteReport
  <2>3. ReportOf(job[r0]).retries <= MaxRetries /\ Torn.retries <= MaxRetries
    BY <1>0 DEF ReportOf, Torn
  <2> QED
    BY <1>0, <2>1, <2>2, <2>3 DEF NoJob
<1>14. CASE Crash
  BY <1>0, <1>14 DEF Crash, NoJob
<1>15. CASE TimePasses
  BY <1>0, <1>15 DEF TimePasses, Jobs
<1> QED
  BY <1>1, <1>2, <1>3, <1>4, <1>5, <1>6, <1>7, <1>8, <1>9, <1>10, <1>11, <1>12, <1>13,
     <1>14, <1>15 DEF Next, Loop

\* What a submission adds to the attempts of an event: one for each time it is
\* sent, and a round if it cannot be sent.
LEMMA SpentChanges ==
  ASSUME TypeOK, NEW e \in Events
  PROVE  /\ Spent(e) \in Nat
         /\ posts' = posts /\ unsent' = unsent => Spent(e)' = Spent(e)
         /\ \A S \in SUBSET Events : posts' = Add(posts, S) /\ unsent' = unsent =>
              Spent(e)' = IF e \in S THEN Spent(e) + 1 ELSE Spent(e)
         /\ \A S \in SUBSET Events : posts' = posts /\ unsent' = Add(unsent, S) =>
              Spent(e)' = IF e \in S THEN Spent(e) + MaxRetries ELSE Spent(e)
<1>1. MaxRetries \in Nat /\ posts[e] \in Nat /\ unsent[e] \in Nat
  BY RetriesAssumption DEF TypeOK
<1>2. \A m, n \in Nat : m * n \in Nat /\ m * (n + 1) = m * n + m
  OBVIOUS
<1>3. \A S \in SUBSET Events : \A count \in [Events -> Nat] :
        Add(count, S)[e] = IF e \in S THEN count[e] + 1 ELSE count[e]
  BY DEF Add
<1>4. posts \in [Events -> Nat] /\ unsent \in [Events -> Nat]
  BY DEF TypeOK
<1>5. /\ MaxRetries * unsent[e] \in Nat
      /\ MaxRetries * (unsent[e] + 1) = MaxRetries * unsent[e] + MaxRetries
  BY <1>1, <1>2
<1>6. Spent(e) = posts[e] + MaxRetries * unsent[e] /\ Spent(e)' = posts'[e] + MaxRetries * unsent'[e]
  BY DEF Spent
<1>7. Spent(e) \in Nat /\ (posts' = posts /\ unsent' = unsent => Spent(e)' = Spent(e))
  BY <1>1, <1>5, <1>6
<1>8. ASSUME NEW S \in SUBSET Events, posts' = Add(posts, S), unsent' = unsent
      PROVE  Spent(e)' = IF e \in S THEN Spent(e) + 1 ELSE Spent(e)
  <2>1. posts'[e] = IF e \in S THEN posts[e] + 1 ELSE posts[e]
    BY <1>3, <1>4, <1>8
  <2> QED
    BY <1>1, <1>5, <1>6, <1>8, <2>1
<1>9. ASSUME NEW S \in SUBSET Events, posts' = posts, unsent' = Add(unsent, S)
      PROVE  Spent(e)' = IF e \in S THEN Spent(e) + MaxRetries ELSE Spent(e)
  <2>1. unsent'[e] = IF e \in S THEN unsent[e] + 1 ELSE unsent[e]
    BY <1>3, <1>4, <1>9
  <2> QED
    BY <1>1, <1>5, <1>6, <1>9, <2>1
<1> QED
  BY <1>7, <1>8, <1>9

\* Steps that send nothing, touch no file and put nothing in hand.
LEMMA TriedFrame ==
  ASSUME NEW r0, Reporters = {r0}, NEW e \in Events, Tried(r0, e), Spent(e)' = Spent(e),
         files' = files, recorded' = recorded, acc'[r0] \subseteq acc[r0],
         Slack \in Nat, Slack' \in Nat, Slack' >= Slack, Spent(e) \in Nat,
         Rounds(MaxRetries) \in Nat,
         \A n \in DOMAIN files : Rounds(files[n].retries) \in Nat,
         \/ /\ job'[r0].recs = {}
            /\ \A n \in DOMAIN files : e \in job[r0].recs /\ e \in files[n].recs =>
                 Spent(e) <= Rounds(files[n].retries) + Slack'
         \/ job' = job /\ pc' = pc /\ Slack' = Slack
         \/ job'[r0].recs = job[r0].recs /\ pc'[r0] \notin {"post", "sleep", "open", "write", "remove"}
  PROVE  Tried(r0, e)'
  BY DEF Tried

\* Every step of a single reporter keeps the number of attempts.
LEMMA TriedStep ==
  ASSUME NEW r0, Reporters = {r0}, TypeOK, JobKind, InStep(r0), Counts(r0), OnePlace, Known,
         [Next]_vars, NEW e \in Events, Tried(r0, e), TypeOK'
  PROVE  Tried(r0, e)'
<1>s. /\ Spent(e) \in Nat
      /\ posts' = posts /\ unsent' = unsent => Spent(e)' = Spent(e)
      /\ \A S \in SUBSET Events : posts' = Add(posts, S) /\ unsent' = unsent =>
           Spent(e)' = IF e \in S THEN Spent(e) + 1 ELSE Spent(e)
      /\ \A S \in SUBSET Events : posts' = posts /\ unsent' = Add(unsent, S) =>
           Spent(e)' = IF e \in S THEN Spent(e) + MaxRetries ELSE Spent(e)
  BY SpentChanges
<1>0. /\ pc = [r \in Reporters |-> pc[r]] /\ job = [r \in Reporters |-> job[r]]
      /\ acc = [r \in Reporters |-> acc[r]]
      /\ job[r0] \in Jobs /\ MaxRetries \in Nat /\ MaxRetries >= 2
      /\ crashes \in Nat /\ faults \in Nat
      /\ crashes' \in Nat /\ faults' \in Nat
      /\ \A n \in DOMAIN files : files[n].retries \in Nat
      /\ job[r0].retries \in Nat /\ job[r0].attempt \in Nat
      /\ Spent(e) \in Nat
  BY <1>s, RetriesAssumption DEF TypeOK, Reports, Jobs
<1>a. /\ Slack \in Nat /\ Slack' \in Nat
      /\ crashes' + faults' = crashes + faults => Slack' = Slack
      /\ crashes' + faults' = crashes + faults + 1 => Slack' = Slack + MaxRetries
  BY <1>0, SlackGrows
<1>b. /\ Rounds(MaxRetries) \in Nat
      /\ \A n \in DOMAIN files : Rounds(files[n].retries) \in Nat
      /\ Rounds(job[r0].retries) \in Nat /\ Before(job[r0]) \in Nat
  BY <1>0, RoundsGrow DEF Before
<1>c. \A m, n \in Nat : m <= n => Rounds(m) <= Rounds(n)
  BY RoundsGrow
<1>d. UNCHANGED failures => Slack' = Slack
  BY <1>0, <1>a DEF failures
<1>e. DiskFault => Slack' = Slack + MaxRetries
  BY <1>0, <1>a DEF DiskFault
\* What is in hand was recorded, waits nowhere else and is on disk only in its own file.
<1>f. e \in job[r0].recs =>
        /\ e \in recorded /\ e \notin acc[r0]
        /\ \A n \in DOMAIN files : e \in files[n].recs =>
             job[r0].kind # "usage" /\ job[r0].name = n
  BY DEF OnePlace, Known
<1>1. CASE UNCHANGED vars
  BY <1>s, <1>1, <1>d, <1>0, <1>a, <1>b, TriedFrame DEF vars, ledger, failures
<1>2. CASE Start(r0) \/ Stop(r0) \/ ExitLoop(r0) \/ FlushNothing(r0) \/ Scan(r0) \/ EndScan(r0)
  <2>1. /\ Spent(e)' = Spent(e) /\ files' = files /\ recorded' = recorded /\ acc' = acc /\ job' = job
        /\ pc' = pc \/ pc'[r0] \notin {"post", "sleep", "open", "write", "remove"}
    BY <1>s, <1>0, <1>2 DEF Start, Stop, ExitLoop, FlushNothing, Scan, EndScan, Goto, ledger
  <2>2. Slack' >= Slack /\ (pc' = pc => Slack' = Slack)
    BY <1>0, <1>2, <1>a, <1>d, <1>e DEF Start, Stop, ExitLoop, FlushNothing, Scan, EndScan, Goto
  <2> QED
    BY <1>0, <1>a, <1>b, <2>1, <2>2, TriedFrame
<1>3. ASSUME NEW f \in Events, Record(r0, f) PROVE Tried(r0, e)'
  <2>1. /\ acc'[r0] = acc[r0] \cup {f} /\ f \notin recorded /\ recorded' = recorded \cup {f}
        /\ Spent(e)' = Spent(e) /\ files' = files /\ job' = job /\ pc' = pc /\ Slack' = Slack
    BY <1>s, <1>0, <1>3, <1>d DEF Record
  <2> QED
    BY <2>1 DEF Tried
<1>4. ASSUME NEW n \in listing[r0], SkipReport(r0, n) PROVE Tried(r0, e)'
  <2>1. /\ Spent(e)' = Spent(e) /\ files' = files /\ recorded' = recorded /\ acc' = acc /\ job' = job
        /\ pc' = pc /\ pc[r0] = "next" /\ Slack' >= Slack
    BY <1>s, <1>0, <1>4, <1>a, <1>d, <1>e DEF SkipReport, Visit, ledger
  <2> QED
    BY <1>0, <1>a, <1>b, <2>1, TriedFrame
<1>5. CASE Flush(r0)
  <2>1. /\ pc'[r0] = "post" /\ job'[r0].kind = "usage" /\ job'[r0].recs = acc[r0]
        /\ job'[r0].retries = 0 /\ job'[r0].attempt = 0 /\ acc'[r0] = {}
        /\ files' = files /\ Spent(e)' = Spent(e) /\ recorded' = recorded /\ Slack' = Slack
        /\ pc[r0] = "idle"
    BY <1>s, <1>0, <1>5, <1>d DEF Flush, Goto, NoJob, ledger
  <2>2. job[r0].recs = {}
    BY <2>1 DEF InStep
  <2> QED
    BY <1>0, <1>a, <2>1, <2>2 DEF Tried, Before
<1>6. ASSUME NEW n \in listing[r0], DiscardReport(r0, n) PROVE Tried(r0, e)'
  <2>1. /\ job'[r0].recs = files[n].recs /\ job'[r0].kind = "discard"
        /\ job'[r0].retries = files[n].retries /\ n \in DOMAIN files
        /\ pc'[r0] = "remove" /\ files' = files /\ Spent(e)' = Spent(e) /\ recorded' = recorded
        /\ acc' = acc /\ Slack' = Slack /\ pc[r0] = "next"
    BY <1>s, <1>0, <1>6, <1>d DEF DiscardReport, Visit, Goto, Load, Readable, ledger
  <2>2. job[r0].recs = {}
    BY <2>1 DEF InStep
  <2> QED
    BY <1>0, <1>a, <1>b, <2>1, <2>2 DEF Tried
<1>7. ASSUME NEW n \in listing[r0], RetryReport(r0, n) PROVE Tried(r0, e)'
  <2>1. /\ job'[r0].recs = files[n].recs /\ job'[r0].kind = "file" /\ job'[r0].attempt = 0
        /\ job'[r0].retries = files[n].retries /\ n \in DOMAIN files
        /\ pc'[r0] = "post" /\ files' = files /\ Spent(e)' = Spent(e) /\ recorded' = recorded
        /\ acc' = acc /\ Slack' = Slack /\ pc[r0] = "next"
    BY <1>s, <1>0, <1>7, <1>d DEF RetryReport, Visit, Goto, Load, Readable, ledger
  <2>2. job[r0].recs = {}
    BY <2>1 DEF InStep
  <2>3. Before(job'[r0]) = Rounds(files[n].retries)
    BY <2>1 DEF Before
  <2> QED
    BY <1>0, <1>a, <1>b, <2>1, <2>2, <2>3 DEF Tried
<1>8. CASE RemoveReport(r0)
  <2>0. /\ pc[r0] = "remove" /\ pc'[r0] = "next" /\ job'[r0].recs = {} /\ acc' = acc
        /\ Spent(e)' = Spent(e) /\ recorded' = recorded
    BY <1>s, <1>0, <1>8 DEF RemoveReport, Goto, NoJob, ledger
  <2>1. CASE files' = Erase(files, job[r0].name) /\ UNCHANGED failures
    <3>1. /\ DOMAIN files' = DOMAIN files \ {job[r0].name}
          /\ \A m \in DOMAIN files' : files'[m] = files[m]
      BY <2>1, EraseAt
    <3> QED
      BY <1>d, <1>f, <2>0, <2>1, <3>1 DEF Tried
  <2>2. CASE files' = files /\ DiskFault
    <3>1. ASSUME NEW n \in DOMAIN files, e \in job[r0].recs, e \in files[n].recs
          PROVE  Spent(e) <= Rounds(files[n].retries) + Slack'
      <4>1. job[r0].retries = files[n].retries
        BY <1>f, <2>0, <3>1, <1>0 DEF Counts
      <4> QED
        BY <1>0, <1>a, <1>b, <1>e, <2>0, <2>2, <3>1, <4>1 DEF Tried
    <3> QED
      BY <1>0, <1>a, <1>b, <1>e, <2>0, <2>2, <3>1, TriedFrame
  <2> QED
    BY <1>8, <2>1, <2>2 DEF RemoveReport
\* The round a batch is in ends within the bound.
<1>9. pc[r0] = "post" =>
        /\ Before(job[r0]) + MaxRetries <= Rounds(MaxRetries)
        /\ Before(job[r0]) + MaxRetries =
             IF job[r0].kind = "usage" THEN Rounds(0) ELSE Rounds(job[r0].retries + 1)
  <2>1. Rounds(0) = MaxRetries
    BY <1>0 DEF Rounds
  <2>2. Rounds(job[r0].retries + 1) = Rounds(job[r0].retries) + MaxRetries
    BY <1>0, RoundsGrow
  <2>3. Rounds(0) <= Rounds(MaxRetries)
    BY <1>0, <1>c
  <2>4. pc[r0] = "post" => Rounds(job[r0].retries + 1) <= Rounds(MaxRetries)
    BY <1>0, <1>c DEF Counts
  <2> QED
    BY <1>0, <1>b, <2>1, <2>2, <2>3, <2>4 DEF Before
<1>10. CASE Accepted(r0)
  <2>0. /\ pc[r0] = "post" /\ files' = files /\ recorded' = recorded /\ acc' = acc
        /\ Slack' = Slack
        /\ Spent(e)' = IF e \in job[r0].recs THEN Spent(e) + 1 ELSE Spent(e)
    BY <1>s, <1>0, <1>10, <1>d DEF Accepted, Jobs
  <2>1. CASE job[r0].kind = "usage"
    <3>1. pc'[r0] = "scan" /\ job'[r0].recs = {}
      BY <1>0, <1>10, <2>1 DEF Accepted, NoJob
    <3>2. job[r0].attempt + 1 <= MaxRetries /\ Before(job[r0]) = 0
      BY <1>0, <2>0, <2>1 DEF Counts, Before
    <3> QED
      BY <1>0, <1>9, <1>a, <1>b, <1>f, <2>0, <2>1, <3>1, <3>2 DEF Tried
  <2>2. CASE job[r0].kind # "usage"
    <3>1. /\ pc'[r0] = "remove" /\ job' = job /\ job[r0].kind = "file"
          /\ job[r0].attempt + 1 <= MaxRetries /\ Before(job[r0]) = Rounds(job[r0].retries)
      BY <1>0, <1>10, <2>0, <2>2 DEF Accepted, JobKind, Counts, Before
    <3>2. \A n \in DOMAIN files : e \in files[n].recs /\ e \in job[r0].recs =>
            files[n].retries = job[r0].retries
      BY <1>0, <1>f, <2>0, <2>2 DEF Counts
    <3> QED
      BY <1>0, <1>9, <1>a, <1>b, <1>f, <2>0, <2>2, <3>1, <3>2 DEF Tried
  <2> QED
    BY <2>1, <2>2
<1>11. CASE Rejected(r0)
  <2>0. /\ pc[r0] = "post" /\ files' = files /\ recorded' = recorded /\ acc' = acc
        /\ Slack' = Slack
        /\ Spent(e)' = IF e \in job[r0].recs THEN Spent(e) + 1 ELSE Spent(e)
    BY <1>s, <1>0, <1>11, <1>a, <1>d DEF Rejected, Jobs
  <2>1. /\ job'[r0].recs = job[r0].recs /\ job'[r0].kind = job[r0].kind
        /\ job'[r0].attempt = job[r0].attempt
    BY <1>0, <1>11 DEF Rejected, Jobs
  <2>2. job[r0].attempt + 1 <= MaxRetries
    BY <1>0, <2>0 DEF Counts
  <2>3. \A n \in DOMAIN files : e \in files[n].recs /\ e \in job[r0].recs =>
            files[n].retries = job[r0].retries /\ Before(job[r0]) = Rounds(files[n].retries)
    BY <1>0, <1>f, <2>0 DEF Counts, Before
  <2>4. CASE job[r0].attempt < MaxRetries - 1
    <3>1. pc'[r0] = "sleep" /\ job' = job
      BY <1>0, <1>11, <2>4 DEF Rejected
    <3> QED
      BY <1>0, <1>9, <1>a, <1>b, <1>f, <2>0, <2>2, <2>3, <3>1 DEF Tried
  <2>5. CASE ~(job[r0].attempt < MaxRetries - 1)
    <3>1. /\ pc'[r0] = "open"
          /\ job'[r0].retries = IF job[r0].kind = "usage" THEN job[r0].retries ELSE job[r0].retries + 1
      BY <1>0, <1>11, <2>5 DEF Rejected, Jobs
    <3>2. job[r0].attempt + 1 = MaxRetries
      BY <1>0, <2>2, <2>5
    <3>3. Rounds(job'[r0].retries) = Before(job[r0]) + MaxRetries
      BY <1>0, <1>9, <2>0, <3>1 DEF Counts
    <3> QED
      BY <1>0, <1>9, <1>a, <1>b, <1>f, <2>0, <2>1, <2>3, <3>1, <3>2, <3>3 DEF Tried
  <2> QED
    BY <2>4, <2>5
<1>17. CASE NotSent(r0)
  <2>0. /\ pc[r0] = "post" /\ files' = files /\ recorded' = recorded /\ acc' = acc
        /\ Slack' = Slack
        /\ Spent(e)' = IF e \in job[r0].recs THEN Spent(e) + MaxRetries ELSE Spent(e)
    BY <1>s, <1>0, <1>17, <1>d DEF NotSent, Goto, Jobs
  <2>1. /\ job'[r0].recs = job[r0].recs /\ job'[r0].kind = job[r0].kind
        /\ pc'[r0] = "open" /\ job[r0].attempt = 0
        /\ job'[r0].retries = IF job[r0].kind = "usage" THEN job[r0].retries ELSE job[r0].retries + 1
    BY <1>0, <1>17 DEF NotSent, Goto, Jobs, Counts
  <2>2. \A n \in DOMAIN files : e \in files[n].recs /\ e \in job[r0].recs =>
            files[n].retries = job[r0].retries /\ Before(job[r0]) = Rounds(files[n].retries)
    BY <1>0, <1>f, <2>0 DEF Counts, Before
  <2>3. Rounds(job'[r0].retries) = Before(job[r0]) + MaxRetries
    BY <1>0, <1>9, <2>0, <2>1 DEF Counts
  <2> QED
    BY <1>0, <1>9, <1>a, <1>b, <1>f, <2>0, <2>1, <2>2, <2>3 DEF Tried
<1>12. CASE Wake(r0)
  <2>1. /\ job'[r0].recs = job[r0].recs /\ job'[r0].kind = job[r0].kind
        /\ job'[r0].retries = job[r0].retries /\ job'[r0].attempt = job[r0].attempt + 1
        /\ pc[r0] = "sleep" /\ pc'[r0] = "post" /\ files' = files /\ Spent(e)' = Spent(e)
        /\ recorded' = recorded /\ acc' = acc /\ Slack' = Slack
    BY <1>s, <1>0, <1>12, <1>d DEF Wake, Goto, Jobs, ledger
  <2>2. Before(job'[r0]) = Before(job[r0])
    BY <2>1 DEF Before
  <2> QED
    BY <1>0, <1>a, <1>b, <2>1, <2>2 DEF Tried
<1>13. CASE OpenReport(r0)
  <2>0. /\ pc[r0] = "open" /\ acc' = acc /\ Spent(e)' = Spent(e) /\ recorded' = recorded
    BY <1>s, <1>13 DEF OpenReport, ledger
  <2>1. CASE /\ pc' = [pc EXCEPT ![r0] = "write"]
             /\ files' = Put(files, Target(job[r0]).name, Torn)
             /\ job' = [job EXCEPT ![r0] = Target(job[r0])] /\ UNCHANGED failures
    <3>1. /\ pc'[r0] = "write" /\ job'[r0].recs = job[r0].recs
          /\ job'[r0].retries = job[r0].retries
      BY <1>0, <2>1 DEF Target, Jobs
    <3>2. \A n \in DOMAIN files' : files'[n].recs = {} \/ (n \in DOMAIN files /\ files'[n] = files[n])
      BY <2>1, PutEither DEF Torn
    <3> QED
      BY <1>0, <1>a, <1>b, <1>d, <2>0, <2>1, <3>1, <3>2 DEF Tried
  <2>2. CASE /\ pc' = [pc EXCEPT ![r0] = After(job[r0])] /\ job' = [job EXCEPT ![r0] = NoJob]
             /\ files' = files /\ DiskFault
    <3>1. job'[r0].recs = {}
      BY <1>0, <2>2 DEF NoJob
    <3>2. ASSUME NEW n \in DOMAIN files, e \in job[r0].recs, e \in files[n].recs
          PROVE  Spent(e) <= Rounds(files[n].retries) + Slack'
      <4>1. job[r0].retries = files[n].retries + 1
        BY <1>0, <1>f, <2>0, <3>2 DEF Counts
      <4>2. Rounds(job[r0].retries) = Rounds(files[n].retries) + MaxRetries
        BY <1>0, <4>1, RoundsGrow
      <4> QED
        BY <1>0, <1>a, <1>b, <1>e, <2>0, <2>2, <3>2, <4>2 DEF Tried
    <3>3. Slack' >= Slack
      BY <1>0, <1>a, <1>e, <2>2
    <3>4. acc'[r0] \subseteq acc[r0] /\ files' = files /\ Spent(e)' = Spent(e) /\ recorded' = recorded
      BY <2>0, <2>2
    <3> QED
      BY <1>0, <1>a, <1>b, <3>1, <3>2, <3>3, <3>4, TriedFrame
  <2> QED
    BY <1>13, <2>1, <2>2 DEF OpenReport
<1>14. CASE WriteReport(r0)
  <2>0. /\ pc[r0] = "write" /\ acc' = acc /\ Spent(e)' = Spent(e) /\ recorded' = recorded
        /\ job'[r0].recs = {} /\ Slack' >= Slack
    BY <1>s, <1>0, <1>14, <1>a, <1>d, <1>e DEF WriteReport, NoJob, ledger
  <2>1. ASSUME NEW n \in DOMAIN files'
        PROVE  \/ n \in DOMAIN files /\ files'[n] = files[n]
               \/ files'[n] \in {ReportOf(job[r0]), Torn}
    BY <1>14, <2>1, PutEither DEF WriteReport
  <2>2. /\ ReportOf(job[r0]).retries = job[r0].retries
        /\ ReportOf(job[r0]).recs = job[r0].recs /\ Torn.recs = {}
    BY DEF ReportOf, Torn
  <2>3. ASSUME NEW n \in DOMAIN files', e \in files'[n].recs
        PROVE  /\ Spent(e) >= Rounds(files'[n].retries)
               /\ Spent(e) <= Rounds(files'[n].retries) + Slack'
    <3>1. CASE n \in DOMAIN files /\ files'[n] = files[n]
      <4>1. e \notin job[r0].recs
        BY <1>f, <2>0, <2>3, <3>1 DEF Counts
      <4> QED
        BY <1>0, <1>a, <1>b, <2>0, <2>3, <3>1, <4>1 DEF Tried
    <3>2. CASE files'[n] = ReportOf(job[r0])
      BY <1>0, <1>a, <1>b, <2>0, <2>2, <2>3, <3>2 DEF Tried
    <3> QED
      BY <2>1, <2>2, <2>3, <3>1, <3>2
  <2>4. Spent(e) <= Rounds(MaxRetries) + Slack'
    BY <1>0, <1>a, <1>b, <2>0 DEF Tried
  <2> QED
    BY <2>0, <2>3, <2>4 DEF Tried
<1>15. CASE Crash
  <2>1. /\ acc'[r0] = {} /\ job'[r0].recs = {} /\ files' = files /\ Spent(e)' = Spent(e)
        /\ recorded' = recorded /\ Slack' = Slack + MaxRetries
    BY <1>s, <1>0, <1>15, <1>a DEF Crash, NoJob, ledger
  <2>2. ASSUME NEW n \in DOMAIN files, e \in job[r0].recs, e \in files[n].recs
        PROVE  Spent(e) <= Rounds(files[n].retries) + Slack'
    <3>1. job[r0].kind # "usage" /\ job[r0].name = n /\ Before(job[r0]) = Rounds(job[r0].retries)
      BY <1>f, <2>2 DEF Before
    <3>2. CASE pc[r0] \in {"post", "sleep", "remove"}
      <4>1. job[r0].retries = files[n].retries
        BY <1>0, <3>1, <3>2 DEF Counts
      <4> QED
        BY <1>0, <1>a, <1>b, <2>1, <2>2, <3>1, <3>2, <4>1 DEF Tried, Counts
    <3>3. CASE pc[r0] = "open"
      <4>1. job[r0].retries = files[n].retries + 1
        BY <1>0, <3>1, <3>3 DEF Counts
      <4>2. Rounds(job[r0].retries) = Rounds(files[n].retries) + MaxRetries
        BY <1>0, <4>1, RoundsGrow
      <4> QED
        BY <1>0, <1>a, <1>b, <2>1, <2>2, <3>3, <4>2 DEF Tried
    <3>4. CASE pc[r0] = "write"
      BY <2>2, <3>1, <3>4 DEF Counts
    <3>5. pc[r0] \in PCs
      BY DEF TypeOK
    <3> QED
      BY <2>2, <3>2, <3>3, <3>4, <3>5 DEF PCs, InStep
  <2>3. Slack' >= Slack /\ acc'[r0] \subseteq acc[r0]
    BY <1>0, <1>a, <2>1
  <2>4. \A n \in DOMAIN files : e \in job[r0].recs /\ e \in files[n].recs =>
          Spent(e) <= Rounds(files[n].retries) + Slack'
    BY <2>2
  <2> HIDE <2>2
  <2> QED
    BY <1>0, <1>a, <1>b, <2>1, <2>3, <2>4, TriedFrame
<1>16. CASE TimePasses
  BY <1>s, <1>0, <1>16, <1>a, <1>b, <1>d, TriedFrame DEF TimePasses, ledger
<1> QED
  BY <1>1, <1>2, <1>3, <1>4, <1>5, <1>6, <1>7, <1>8, <1>10, <1>11, <1>12, <1>13,
     <1>14, <1>15, <1>16, <1>17 DEF Next, Loop

\* A lone reporter never sends an event more than maxRetries times for the cycle
\* that flushed it and for each retry of its report, and one round more for each
\* crash and failing file operation.
THEOREM PostsWithinBound ==
  ASSUME NEW r0, Reporters = {r0}
  PROVE  Spec => []PostsBounded
<1> DEFINE Inv == /\ OnePlace /\ Known /\ JobKind /\ InStep(r0) /\ Counts(r0)
                  /\ \A e \in Events : Tried(r0, e)
<1>1. TypeOK /\ Init => Inv
  <2> SUFFICES ASSUME TypeOK, Init PROVE Inv
    OBVIOUS
  <2>1. OnePlace /\ Known /\ JobKind /\ InStep(r0)
    BY DEF Init, OnePlace, Known, JobKind, InStep, NoJob
  <2>2. Counts(r0)
    BY RetriesAssumption DEF Init, Counts, NoJob
  <2>3. Slack \in Nat /\ Rounds(MaxRetries) \in Nat
    BY SlackGrows, RoundsGrow, RetriesAssumption DEF Init, Slack, Rounds
  <2>4. ASSUME NEW e \in Events PROVE Spent(e) = 0
    <3>1. posts[e] = 0 /\ unsent[e] = 0 /\ MaxRetries * 0 = 0
      BY RetriesAssumption DEF Init
    <3> QED
      BY <3>1 DEF Spent
  <2> QED
    BY <2>1, <2>2, <2>3, <2>4 DEF Init, Tried, NoJob
<1>2. TypeOK /\ TypeOK' /\ Inv /\ [Next]_vars => Inv'
  BY PlaceStep, KindStep, InStepStep, CountsStep, TriedStep
<1>3. TypeOK /\ Inv => PostsBounded
  <2> SUFFICES ASSUME TypeOK, Inv, NEW e \in Events
               PROVE  Spent(e) <= MaxRetries * (MaxRetries + 1 + crashes + faults)
    BY DEF PostsBounded
  <2>1. /\ MaxRetries \in Nat /\ crashes \in Nat /\ faults \in Nat /\ Spent(e) \in Nat
        /\ Spent(e) <= Rounds(MaxRetries) + Slack
    BY RetriesAssumption, SpentChanges DEF TypeOK, Tried
  <2>2. Rounds(MaxRetries) + Slack = MaxRetries * (MaxRetries + 1 + crashes + faults)
    BY <2>1 DEF Rounds, Slack
  <2> QED
    BY <2>1, <2>2
<1> HIDE DEF Inv
<1> QED
  BY <1>1, <1>2, <1>3, Typing, PTL DEF Spec

----------------------------------------------------------------------------
\* Any number of reporters.

\* The steps of r leave the other reporters where they are.
Elsewhere(r) == \A q \in Reporters \ {r} : pc'[q] = pc[q] /\ job'[q] = job[q] /\ acc'[q] = acc[q]

Moves(r) ==
  \/ Start(r) \/ Stop(r) \/ ExitLoop(r)
  \/ \E e \in Events : Record(r, e)
  \/ Loop(r)

LEMMA OneMoves ==
  ASSUME TypeOK, NEW r \in Reporters, Moves(r)
  PROVE  Elsewhere(r)
<1>0. /\ pc = [q \in Reporters |-> pc[q]] /\ job = [q \in Reporters |-> job[q]]
      /\ acc = [q \in Reporters |-> acc[q]]
  BY DEF TypeOK
<1>1. CASE Start(r) \/ Stop(r) \/ ExitLoop(r) \/ \E e \in Events : Record(r, e)
  BY <1>0, <1>1 DEF Start, Stop, ExitLoop, Record, Goto, Elsewhere
<1>2. CASE Flush(r) \/ FlushNothing(r) \/ Scan(r) \/ EndScan(r)
  BY <1>0, <1>2 DEF Flush, FlushNothing, Scan, EndScan, Goto, Elsewhere
<1>3. CASE \E n \in listing[r] : SkipReport(r, n) \/ DiscardReport(r, n) \/ RetryReport(r, n)
  BY <1>0, <1>3 DEF SkipReport, DiscardReport, RetryReport, Visit, Goto, Elsewhere
<1>4. CASE RemoveReport(r) \/ NotSent(r) \/ Accepted(r) \/ Rejected(r) \/ Wake(r)
  BY <1>0, <1>4 DEF RemoveReport, NotSent, Accepted, Rejected, Wake, Goto, Elsewhere
<1>5. CASE OpenReport(r) \/ WriteReport(r)
  BY <1>0, <1>5 DEF OpenReport, WriteReport, Elsewhere
<1> QED
  BY <1>1, <1>2, <1>3, <1>4, <1>5 DEF Moves, Loop

\* What a step of r makes of its batch and of the directory: a batch comes from its
\* accumulator or from a legible report, a legible report from a batch in hand.
Flows(r) ==
  /\ acc'[r] \subseteq acc[r] \cup (recorded' \ recorded)
  /\ \/ job'[r].recs = {}
     \/ job'[r].recs = job[r].recs /\ job'[r].kind = job[r].kind
     \/ pc[r] = "idle" /\ acc'[r] = {} /\ job'[r].recs = acc[r] /\ job'[r].kind = "usage"
     \/ /\ \E n \in DOMAIN files : files[n].whole /\ job'[r].recs = files[n].recs
        /\ job'[r].kind # "usage"
  /\ \A n \in DOMAIN files' :
       \/ n \in DOMAIN files /\ files'[n] = files[n]
       \/ files'[n] = Torn
       \/ files'[n].recs = job[r].recs /\ job'[r].recs = {}
  /\ recorded \subseteq recorded'
  /\ \A e \in Events :
       e \notin job[r].recs => billed'[e] = billed[e] /\ posts'[e] = posts[e]

LEMMA FlowsStep ==
  ASSUME TypeOK, NEW r \in Reporters, Moves(r)
  PROVE  Flows(r)
<1>0. /\ pc = [q \in Reporters |-> pc[q]] /\ job = [q \in Reporters |-> job[q]]
      /\ acc = [q \in Reporters |-> acc[q]]
      /\ job[r] \in Jobs
      /\ billed = [e \in Events |-> billed[e]] /\ posts = [e \in Events |-> posts[e]]
  BY DEF TypeOK
<1> USE DEF Flows
<1>1. CASE Start(r) \/ Stop(r) \/ ExitLoop(r) \/ FlushNothing(r) \/ Scan(r) \/ EndScan(r)
  BY <1>0, <1>1 DEF Start, Stop, ExitLoop, FlushNothing, Scan, EndScan, Goto, ledger
<1>2. ASSUME NEW e \in Events, Record(r, e) PROVE Flows(r)
  BY <1>0, <1>2 DEF Record
<1>3. CASE Flush(r)
  <2>1. job'[r].recs = acc[r] /\ job'[r].kind = "usage" /\ acc'[r] = {} /\ pc[r] = "idle"
    BY <1>0, <1>3 DEF Flush, Goto, NoJob
  <2>2. UNCHANGED <<files, ledger>>
    BY <1>3 DEF Flush
  <2> QED
    BY <2>1, <2>2 DEF ledger
<1>4. ASSUME NEW n \in listing[r], SkipReport(r, n) PROVE Flows(r)
  BY <1>0, <1>4 DEF SkipReport, Visit, ledger
<1>5. ASSUME NEW n \in listing[r], DiscardReport(r, n) \/ RetryReport(r, n) PROVE Flows(r)
  <2>1. /\ job'[r].recs = files[n].recs /\ job'[r].kind # "usage"
        /\ n \in DOMAIN files /\ files[n].whole
    BY <1>0, <1>5 DEF DiscardReport, RetryReport, Goto, Load, Readable
  <2>2. UNCHANGED <<acc, files, ledger>>
    BY <1>5 DEF DiscardReport, RetryReport, Visit
  <2> QED
    BY <2>1, <2>2 DEF ledger
<1>6. CASE RemoveReport(r)
  <2>1. \A n \in DOMAIN files' : n \in DOMAIN files /\ files'[n] = files[n]
    BY <1>6, EraseAt DEF RemoveReport
  <2> QED
    BY <1>0, <1>6, <2>1 DEF RemoveReport, NoJob, ledger
<1>7. CASE NotSent(r) \/ Accepted(r) \/ Rejected(r)
  <2>1. \/ job'[r].recs = {}
        \/ job'[r].recs = job[r].recs /\ job'[r].kind = job[r].kind
    BY <1>0, <1>7 DEF NotSent, Accepted, Rejected, Jobs, NoJob
  <2>2. \A e \in Events : e \notin job[r].recs => billed'[e] = billed[e] /\ posts'[e] = posts[e]
    BY <1>0, <1>7 DEF NotSent, Accepted, Rejected, Add
  <2>3. UNCHANGED <<acc, files, recorded>>
    BY <1>7 DEF NotSent, Accepted, Rejected
  <2> QED
    BY <2>1, <2>2, <2>3
<1>8. CASE Wake(r)
  BY <1>0, <1>8 DEF Wake, Jobs, ledger
<1>9. CASE OpenReport(r)
  <2>1. \/ job'[r].recs = {}
        \/ job'[r].recs = job[r].recs /\ job'[r].kind = job[r].kind
    <3>1. Target(job[r]).recs = job[r].recs /\ Target(job[r]).kind = job[r].kind
      BY <1>0 DEF Target, Jobs
    <3>2. job'[r] \in {Target(job[r]), NoJob}
      BY <1>0, <1>9 DEF OpenReport
    <3> QED
      BY <3>1, <3>2 DEF NoJob
  <2>2. \A n \in DOMAIN files' : files'[n] = Torn \/ (n \in DOMAIN files /\ files'[n] = files[n])
    BY <1>9, PutEither DEF OpenReport
  <2> QED
    BY <1>9, <2>1, <2>2 DEF OpenReport, ledger
<1>10. CASE WriteReport(r)
  <2>1. job'[r].recs = {}
    BY <1>0, <1>10 DEF WriteReport, NoJob
  <2>2. ASSUME NEW n \in DOMAIN files'
        PROVE  \/ n \in DOMAIN files /\ files'[n] = files[n]
               \/ files'[n] \in {ReportOf(job[r]), Torn}
    BY <1>10, <2>2, PutEither DEF WriteReport
  <2>3. ReportOf(job[r]).recs = job[r].recs
    BY DEF ReportOf
  <2> QED
    BY <1>10, <2>1, <2>2, <2>3 DEF WriteReport, ledger
<1> QED
  BY <1>1, <1>2, <1>3, <1>4, <1>5, <1>6, <1>7, <1>8, <1>9, <1>10 DEF Moves, Loop

\* What Crash and the clock make of them.
LEMMA Idles ==
  ASSUME Crash \/ TimePasses \/ UNCHANGED vars
  PROVE  /\ UNCHANGED <<files, recorded, billed, posts, unsent>>
         /\ \/ \A r \in Reporters : acc'[r] = {} /\ job'[r] = NoJob /\ pc'[r] = "off"
            \/ UNCHANGED <<acc, job, pc>>
BY DEF Crash, TimePasses, vars, ledger

\* However many reporters share the directory, an event nobody answers for any more
\* never comes back and is never billed again.
THEOREM NothingReturns == Spec => NoReturn
<1>1. TypeOK /\ [Next]_vars
        => [\A e \in recorded : ~Held(e) => ~Held(e)' /\ billed'[e] = billed[e]]_vars
  <2> SUFFICES ASSUME TypeOK, [Next]_vars, NEW e \in recorded, ~Held(e)
               PROVE  ~Held(e)' /\ billed'[e] = billed[e]
    OBVIOUS
  <2>0. /\ e \in Events
        /\ \A r \in Reporters : e \in acc[r] => pc[r] = "stopped"
        /\ \A r \in Reporters : e \notin job[r].recs
        /\ \A n \in DOMAIN files : files[n].whole => e \notin files[n].recs
    BY DEF TypeOK, Held, Waiting, InHand, OnDisk
  <2>1. CASE Crash \/ TimePasses \/ UNCHANGED vars
    BY <2>0, <2>1, Idles DEF Held, Waiting, InHand, OnDisk, NoJob
  <2>2. ASSUME NEW r \in Reporters, Moves(r) PROVE ~Held(e)' /\ billed'[e] = billed[e]
    <3>1. Elsewhere(r) /\ Flows(r)
      BY <2>2, OneMoves, FlowsStep
    <3>2. e \notin job'[r].recs
      BY <2>0, <3>1 DEF Flows
    <3>3. \A n \in DOMAIN files' : files'[n].whole => e \notin files'[n].recs
      BY <2>0, <3>1 DEF Flows, Torn
    <3>4. e \in acc'[r] => pc'[r] = "stopped"
      <4>1. pc[r] = "stopped" => pc'[r] = "stopped"
        BY <2>2 DEF Moves, Start, Stop, ExitLoop, Record, Loop, Flush, FlushNothing, Scan,
                    EndScan, SkipReport, DiscardReport, RetryReport, RemoveReport, NotSent, Accepted,
                    Rejected, Wake, OpenReport, WriteReport, Goto, Visit
      <4> QED
        BY <2>0, <3>1, <4>1 DEF Flows
    <3> QED
      BY <2>0, <3>1, <3>2, <3>3, <3>4 DEF Elsewhere, Flows, Held, Waiting, InHand, OnDisk
  <2> QED
    BY <2>1, <2>2 DEF Next, Moves
<1> QED
  BY <1>1, Typing, PTL DEF Spec, NoReturn

\* An event in an accumulator is nowhere else and has never been sent.
Sourced ==
  /\ Known
  /\ \A e \in Events : e \notin recorded => posts[e] = 0
  /\ \A r \in Reporters : \A e \in acc[r] :
       /\ posts[e] = 0
       /\ \A q \in Reporters : e \notin job[q].recs /\ (q # r => e \notin acc[q])
       /\ \A n \in DOMAIN files : e \notin files[n].recs

LEMMA SourcedStep ==
  ASSUME TypeOK, Sourced, [Next]_vars
  PROVE  Sourced'
<1> USE DEF Sourced, Known
<1>1. CASE Crash \/ TimePasses \/ UNCHANGED vars
  BY <1>1, Idles DEF NoJob
<1>2. ASSUME NEW r \in Reporters, Moves(r) PROVE Sourced'
  <2>1. Elsewhere(r) /\ Flows(r)
    BY <1>2, OneMoves, FlowsStep
  <2>2. \A n \in DOMAIN files' :
          \/ n \in DOMAIN files /\ files'[n].recs = files[n].recs
          \/ files'[n].recs = {}
          \/ files'[n].recs = job[r].recs
    BY <2>1 DEF Flows, Torn
  <2>3. Known'
    BY <2>1, <2>2 DEF Elsewhere, Flows
  <2>4. \A e \in Events : e \notin recorded' => posts'[e] = 0
    BY <2>1 DEF Flows
  <2>5. ASSUME NEW q \in Reporters, NEW e \in acc'[q]
        PROVE  /\ posts'[e] = 0
               /\ \A p \in Reporters : e \notin job'[p].recs /\ (p # q => e \notin acc'[p])
               /\ \A n \in DOMAIN files' : e \notin files'[n].recs
    <3>1. e \in Events
      <4>1. recorded' \subseteq Events
        BY <1>2 DEF TypeOK, Moves, Start, Stop, ExitLoop, Record, Loop, Flush, FlushNothing,
                    Scan, EndScan, SkipReport, DiscardReport, RetryReport, RemoveReport,
                    NotSent, Accepted, Rejected, Wake, OpenReport, WriteReport, Visit, ledger
      <4> QED
        BY <2>3, <4>1
    <3>2. CASE e \in acc[q]
      BY <2>1, <2>2, <3>1, <3>2 DEF Elsewhere, Flows
    <3>3. CASE e \notin acc[q]
      <4>1. q = r /\ e \notin recorded
        BY <2>1, <3>3 DEF Elsewhere, Flows
      <4> QED
        BY <2>1, <2>2, <3>1, <3>3, <4>1 DEF Elsewhere, Flows
    <3> QED
      BY <3>2, <3>3
  <2> QED
    BY <2>3, <2>4, <2>5
<1> QED
  BY <1>1, <1>2 DEF Next, Moves

\* Where a loop stands says whether it has a batch, and a report is removed for a
\* reason.
Placed(r) ==
  /\ pc[r] \in {"off", "scan", "next", "idle", "stopped"} => job[r].recs = {}
  /\ job[r].kind = "usage" => job[r].retries = 0 /\ pc[r] # "remove"
  /\ pc[r] = "remove" => job[r].kind \in {"file", "discard"}
  /\ pc[r] = "remove" /\ job[r].kind = "file" => \A e \in job[r].recs : billed[e] > 0
  /\ pc[r] = "remove" /\ job[r].kind = "discard" =>
       job[r].retries >= MaxRetries \/ clock - job[r].stamp > MaxAge

\* The attempts behind a batch, at least.
Floor(r, e) ==
  e \in job[r].recs =>
    /\ pc[r] = "post" => Spent(e) >= Before(job[r]) + job[r].attempt
    /\ pc[r] = "sleep" => Spent(e) >= Before(job[r]) + job[r].attempt + 1
    /\ pc[r] \in {"open", "write", "remove"} => Spent(e) >= Rounds(job[r].retries)

FileFloor(n, e) == e \in files[n].recs => Spent(e) >= Rounds(files[n].retries)

Shared ==
  /\ Sourced /\ JobKind
  /\ \A r \in Reporters : Placed(r) /\ \A e \in Events : Floor(r, e)
  /\ \A n \in DOMAIN files, e \in Events : FileFloor(n, e)

\* Time and the counts of the history only grow.
LEMMA Grows ==
  ASSUME TypeOK, [Next]_vars
  PROVE  /\ \A e \in Events : /\ Spent(e)' \in Nat /\ Spent(e)' >= Spent(e)
                              /\ billed'[e] \in Nat /\ billed'[e] >= billed[e]
         /\ clock' \in Nat /\ clock' >= clock
<1>0. /\ \A e \in Events : Spent(e) \in Nat /\ billed[e] \in Nat
      /\ clock \in Nat
  BY SpentChanges DEF TypeOK
<1>1. \/ UNCHANGED <<posts, unsent, billed>>
      \/ \E r \in Reporters : NotSent(r) \/ Accepted(r) \/ Rejected(r)
  <2>1. ASSUME NEW r \in Reporters, NEW e \in Events, Record(r, e)
        PROVE  UNCHANGED <<posts, unsent, billed>>
    BY <2>1 DEF Record
  <2>2. ASSUME NEW r \in Reporters, Loop(r), ~NotSent(r), ~Accepted(r), ~Rejected(r)
        PROVE  UNCHANGED <<posts, unsent, billed>>
    BY <2>2 DEF ledger, Loop, Flush, FlushNothing, Scan, EndScan, SkipReport, DiscardReport,
                RetryReport, RemoveReport, Wake, OpenReport, WriteReport, Visit
  <2>3. ASSUME NEW r \in Reporters, Start(r) \/ Stop(r) \/ ExitLoop(r)
        PROVE  UNCHANGED <<posts, unsent, billed>>
    BY <2>3 DEF ledger, Start, Stop, ExitLoop
  <2>4. CASE Crash \/ TimePasses \/ UNCHANGED vars
    BY <2>4 DEF vars, ledger, Crash, TimePasses
  <2> QED
    BY <2>1, <2>2, <2>3, <2>4 DEF Next
<1>2. clock' \in {clock, clock + 1}
  BY DEF Next, vars, Start, Stop, ExitLoop, Record, Loop, Flush, FlushNothing,
         Scan, EndScan, SkipReport, DiscardReport, RetryReport, RemoveReport, NotSent, Accepted,
         Rejected, Wake, OpenReport, WriteReport, Visit, Crash, TimePasses
<1>3. ASSUME NEW r \in Reporters, NotSent(r) \/ Accepted(r) \/ Rejected(r), NEW e \in Events
      PROVE  /\ Spent(e)' \in Nat /\ Spent(e)' >= Spent(e)
             /\ billed'[e] \in Nat /\ billed'[e] >= billed[e]
  <2>1. job[r].recs \in SUBSET Events /\ MaxRetries \in Nat
    BY RetriesAssumption DEF TypeOK, Jobs
  <2>2. Spent(e)' \in {Spent(e), Spent(e) + 1, Spent(e) + MaxRetries}
    BY <1>3, <2>1, SpentChanges DEF NotSent, Accepted, Rejected
  <2>3. billed'[e] \in {billed[e], billed[e] + 1}
    BY <1>3 DEF NotSent, Accepted, Rejected, Add
  <2> QED
    BY <1>0, <2>1, <2>2, <2>3
<1>4. ASSUME UNCHANGED <<posts, unsent, billed>>, NEW e \in Events
      PROVE  Spent(e)' = Spent(e) /\ billed'[e] = billed[e]
  BY <1>4, SpentChanges
<1> QED
  BY <1>0, <1>1, <1>2, <1>3, <1>4

\* A step of r keeps what is known of r's own batch.
LEMMA OwnStep ==
  ASSUME TypeOK, NEW r \in Reporters, Moves(r), JobKind, Placed(r),
         \A e \in Events : Floor(r, e),
         \A n \in DOMAIN files, e \in Events : FileFloor(n, e),
         Known
  PROVE  Placed(r)' /\ \A e \in Events : Floor(r, e)'
<1> USE DEF Placed, Floor, Before
<1>0. /\ pc = [q \in Reporters |-> pc[q]] /\ job = [q \in Reporters |-> job[q]]
      /\ job[r] \in Jobs /\ job[r].attempt \in Nat /\ job[r].retries \in Nat
      /\ job[r].recs \in SUBSET Events
      /\ \A e \in Events : Spent(e) \in Nat /\ billed[e] \in Nat
      /\ MaxRetries \in Nat /\ MaxRetries >= 2 /\ clock \in Nat
      /\ \A n \in DOMAIN files : files[n].retries \in Nat
  BY RetriesAssumption, SpentChanges DEF TypeOK, Jobs, Reports
<1>s. UNCHANGED <<posts, unsent>> => \A e \in Events : Spent(e)' = Spent(e)
  BY SpentChanges
<1>b. /\ \A k \in Nat : Rounds(k) \in Nat /\ Rounds(k + 1) = Rounds(k) + MaxRetries
      /\ Rounds(0) = MaxRetries
  <2>1. Rounds(0) = MaxRetries
    BY <1>0 DEF Rounds
  <2> QED
    BY <2>1, RoundsGrow
<1>1. CASE Start(r) \/ Stop(r) \/ ExitLoop(r) \/ FlushNothing(r) \/ Scan(r) \/ EndScan(r)
  BY <1>s, <1>0, <1>1 DEF Start, Stop, ExitLoop, FlushNothing, Scan, EndScan, Goto, ledger
<1>2. ASSUME NEW e \in Events, Record(r, e) PROVE Placed(r)' /\ \A f \in Events : Floor(r, f)'
  BY <1>s, <1>0, <1>2 DEF Record
<1>3. ASSUME NEW n \in listing[r], SkipReport(r, n)
      PROVE  Placed(r)' /\ \A e \in Events : Floor(r, e)'
  BY <1>s, <1>0, <1>3 DEF SkipReport, Visit, ledger
<1>4. CASE Flush(r)
  <2>1. /\ job'[r].recs = acc[r] /\ job'[r].kind = "usage" /\ job'[r].retries = 0
        /\ job'[r].attempt = 0 /\ pc'[r] = "post" /\ (\A e \in Events : Spent(e)' = Spent(e))
    BY <1>s, <1>0, <1>4 DEF Flush, Goto, NoJob, ledger
  <2> QED
    BY <1>0, <2>1
<1>5. ASSUME NEW n \in listing[r], RetryReport(r, n)
      PROVE  Placed(r)' /\ \A e \in Events : Floor(r, e)'
  <2>1. /\ job'[r].recs = files[n].recs /\ job'[r].kind = "file" /\ job'[r].attempt = 0
        /\ job'[r].retries = files[n].retries /\ pc'[r] = "post" /\ (\A e \in Events : Spent(e)' = Spent(e))
    BY <1>s, <1>0, <1>5 DEF RetryReport, Visit, Goto, Load, ledger
  <2>2. n \in DOMAIN files
    BY <1>5 DEF RetryReport, Readable
  <2> QED
    BY <1>0, <1>b, <2>1, <2>2 DEF FileFloor
<1>6. ASSUME NEW n \in listing[r], DiscardReport(r, n)
      PROVE  Placed(r)' /\ \A e \in Events : Floor(r, e)'
  <2>1. /\ job'[r].recs = files[n].recs /\ job'[r].kind = "discard"
        /\ job'[r].retries = files[n].retries /\ job'[r].stamp = files[n].stamp
        /\ pc'[r] = "remove" /\ (\A e \in Events : Spent(e)' = Spent(e)) /\ clock' = clock
    BY <1>s, <1>0, <1>6 DEF DiscardReport, Visit, Goto, Load, ledger
  <2>2. n \in DOMAIN files /\ (clock - files[n].stamp > MaxAge \/ files[n].retries >= MaxRetries)
    BY <1>6 DEF DiscardReport, Readable, Expired
  <2> QED
    BY <1>0, <2>1, <2>2 DEF FileFloor
<1>7. CASE RemoveReport(r) \/ WriteReport(r)
  <2>1. pc'[r] \in {"next", "scan"} /\ job'[r] = NoJob
    BY <1>0, <1>7 DEF RemoveReport, WriteReport, Goto, After
  <2> QED
    BY <2>1 DEF NoJob
<1>8. CASE Accepted(r)
  <2>1. /\ pc[r] = "post"
        /\ \A e \in job[r].recs : Spent(e)' = Spent(e) + 1 /\ billed'[e] = billed[e] + 1
    <3>1. posts' = Add(posts, job[r].recs) /\ unsent' = unsent /\ billed' = Add(billed, job[r].recs)
      BY <1>8 DEF Accepted
    <3>2. \A e \in job[r].recs : e \in Events
      BY <1>0
    <3>3. \A e \in job[r].recs : Spent(e)' = Spent(e) + 1
      BY <1>0, <3>1, <3>2, SpentChanges
    <3> QED
      BY <1>8, <3>1, <3>2, <3>3 DEF Accepted, Add
  <2>2. CASE job[r].kind = "usage"
    <3>1. pc'[r] = "scan" /\ job'[r] = NoJob
      BY <1>0, <1>8, <2>2 DEF Accepted
    <3> QED
      BY <3>1 DEF NoJob
  <2>3. CASE job[r].kind # "usage"
    <3>1. pc'[r] = "remove" /\ job'[r] = job[r] /\ job[r].kind = "file"
      BY <1>0, <1>8, <2>1, <2>3 DEF Accepted, JobKind
    <3>2. job[r].recs \subseteq Events
      BY <1>0 DEF Jobs
    <3> QED
      BY <1>0, <1>b, <2>1, <3>1, <3>2
  <2> QED
    BY <2>2, <2>3
<1>9. CASE Rejected(r)
  <2>1. /\ pc[r] = "post"
        /\ \A e \in job[r].recs : Spent(e)' = Spent(e) + 1
    <3>1. posts' = Add(posts, job[r].recs) /\ unsent' = unsent
      BY <1>9 DEF Rejected
    <3>2. \A e \in job[r].recs : e \in Events
      BY <1>0
    <3> QED
      BY <1>0, <1>9, <3>1, <3>2, SpentChanges DEF Rejected
  <2>2. CASE job[r].attempt < MaxRetries - 1
    <3>1. pc'[r] = "sleep" /\ job'[r] = job[r]
      BY <1>0, <1>9, <2>2 DEF Rejected
    <3> QED
      BY <1>0, <1>b, <2>1, <3>1
  <2>3. CASE ~(job[r].attempt < MaxRetries - 1)
    <3>1. /\ pc'[r] = "open" /\ job'[r].recs = job[r].recs /\ job'[r].kind = job[r].kind
          /\ job'[r].retries = IF job[r].kind = "usage" THEN job[r].retries ELSE job[r].retries + 1
      BY <1>0, <1>9, <2>3 DEF Rejected, Jobs
    <3>2. \A e \in job[r].recs : Spent(e)' >= Before(job[r]) + MaxRetries
      <4> SUFFICES ASSUME NEW e \in job[r].recs PROVE Spent(e)' >= Before(job[r]) + MaxRetries
        OBVIOUS
      <4>1. e \in Events /\ Spent(e) \in Nat /\ Before(job[r]) \in Nat
        BY <1>0, <1>b DEF Jobs
      <4>2. Spent(e)' = Spent(e) + 1 /\ Spent(e) >= Before(job[r]) + job[r].attempt
        BY <2>1, <4>1
      <4> QED
        BY <1>0, <2>3, <4>1, <4>2
    <3> QED
      BY <1>0, <1>b, <3>1, <3>2
  <2> QED
    BY <2>2, <2>3
<1>12. CASE NotSent(r)
  <2>1. /\ pc[r] = "post" /\ pc'[r] = "open"
        /\ job'[r].recs = job[r].recs /\ job'[r].kind = job[r].kind
        /\ job'[r].retries = IF job[r].kind = "usage" THEN job[r].retries ELSE job[r].retries + 1
    BY <1>0, <1>12 DEF NotSent, Goto, Jobs
  <2>2. posts' = posts /\ unsent' = Add(unsent, job[r].recs)
    BY <1>12 DEF NotSent
  <2>3. \A e \in job[r].recs : e \in Events
    BY <1>0
  <2>4. \A e \in job[r].recs : Spent(e)' = Spent(e) + MaxRetries
    BY <1>0, <2>2, <2>3, SpentChanges
  <2>5. Before(job[r]) \in Nat
    BY <1>0, <1>b
  <2>6. \A e \in job[r].recs : Spent(e)' >= Before(job[r]) + MaxRetries
    BY <1>0, <2>1, <2>3, <2>4, <2>5
  <2> QED
    BY <1>0, <1>b, <2>1, <2>6
<1>10. CASE Wake(r)
  <2>1. /\ job'[r].recs = job[r].recs /\ job'[r].kind = job[r].kind
        /\ job'[r].retries = job[r].retries /\ job'[r].attempt = job[r].attempt + 1
        /\ pc[r] = "sleep" /\ pc'[r] = "post" /\ (\A e \in Events : Spent(e)' = Spent(e))
    BY <1>s, <1>0, <1>10 DEF Wake, Goto, Jobs, ledger
  <2> QED
    BY <1>0, <1>b, <2>1
<1>11. CASE OpenReport(r)
  <2>1. CASE job' = [job EXCEPT ![r] = Target(job[r])] /\ pc' = [pc EXCEPT ![r] = "write"]
    <3>1. /\ job'[r].recs = job[r].recs /\ job'[r].kind = job[r].kind
          /\ job'[r].retries = job[r].retries /\ pc'[r] = "write"
      BY <1>0, <2>1 DEF Target, Jobs
    <3>2. pc[r] = "open" /\ (\A e \in Events : Spent(e)' = Spent(e))
      BY <1>s, <1>11 DEF OpenReport, ledger
    <3> QED
      BY <3>1, <3>2
  <2>2. CASE job' = [job EXCEPT ![r] = NoJob] /\ pc' = [pc EXCEPT ![r] = After(job[r])]
    <3>1. pc'[r] \in {"next", "scan"} /\ job'[r] = NoJob
      BY <1>0, <2>2 DEF After
    <3> QED
      BY <3>1 DEF NoJob
  <2> QED
    BY <1>11, <2>1, <2>2 DEF OpenReport
<1> QED
  BY <1>1, <1>2, <1>3, <1>4, <1>5, <1>6, <1>7, <1>8, <1>9, <1>10, <1>11, <1>12 DEF Moves, Loop

\* What is known of the files after a step of r.
LEMMA FilesFloorStep ==
  ASSUME TypeOK, NEW r \in Reporters, Moves(r), \A e \in Events : Floor(r, e),
         \A n \in DOMAIN files, e \in Events : FileFloor(n, e),
         \A e \in Events : Spent(e)' \in Nat /\ Spent(e)' >= Spent(e)
  PROVE  \A n \in DOMAIN files', e \in Events : FileFloor(n, e)'
<1> SUFFICES ASSUME NEW n \in DOMAIN files', NEW e \in Events, e \in files'[n].recs
             PROVE  Spent(e)' >= Rounds(files'[n].retries)
  BY DEF FileFloor
<1>0. /\ Spent(e) \in Nat /\ Spent(e)' \in Nat /\ Spent(e)' >= Spent(e)
      /\ job[r].retries \in Nat
      /\ \A m \in DOMAIN files : files[m].retries \in Nat
  BY SpentChanges DEF TypeOK, Jobs, Reports
<1>1. \/ n \in DOMAIN files /\ files'[n] = files[n]
      \/ files'[n] = Torn
      \/ pc[r] = "write" /\ Spent(e)' = Spent(e) /\ files'[n] = ReportOf(job[r])
  <2>1. CASE files' = files
    BY <2>1
  <2>2. CASE RemoveReport(r)
    BY <2>2, EraseAt DEF RemoveReport
  <2>3. CASE OpenReport(r)
    BY <2>3, PutEither DEF OpenReport
  <2>4. CASE WriteReport(r)
    BY <2>4, PutEither, SpentChanges DEF WriteReport, ledger
  <2> QED
    BY <2>1, <2>2, <2>3, <2>4
    DEF Moves, Start, Stop, ExitLoop, Record, Loop, Flush, FlushNothing, Scan, EndScan,
        SkipReport, DiscardReport, RetryReport, NotSent, Accepted, Rejected, Wake, Visit
<1>2. CASE n \in DOMAIN files /\ files'[n] = files[n]
  <2>1. Spent(e) >= Rounds(files[n].retries) /\ Rounds(files[n].retries) \in Nat
    BY <1>0, <1>2, RoundsGrow DEF FileFloor
  <2> QED
    BY <1>0, <1>2, <2>1
<1>3. CASE pc[r] = "write" /\ Spent(e)' = Spent(e) /\ files'[n] = ReportOf(job[r])
  BY <1>3 DEF ReportOf, Floor
<1> QED
  BY <1>1, <1>2, <1>3 DEF Torn

LEMMA SharedStep ==
  ASSUME TypeOK, Shared, [Next]_vars
  PROVE  Shared'
<1>1. Sourced' /\ JobKind'
  BY SourcedStep, KindStep DEF Shared
<1>2. /\ \A e \in Events : /\ Spent(e)' \in Nat /\ Spent(e)' >= Spent(e)
                           /\ billed'[e] \in Nat /\ billed'[e] >= billed[e]
      /\ \A e \in Events : Spent(e) \in Nat /\ billed[e] \in Nat
      /\ clock \in Nat /\ clock' \in {clock, clock + 1} /\ MaxAge \in Nat
      /\ \A q \in Reporters : /\ job[q].attempt \in Nat /\ job[q].retries \in Nat
                              /\ job[q].stamp \in Nat /\ job[q].recs \subseteq Events
  <2>1. clock' \in {clock, clock + 1}
    BY DEF Next, vars, Start, Stop, ExitLoop, Record, Loop, Flush, FlushNothing,
           Scan, EndScan, SkipReport, DiscardReport, RetryReport, RemoveReport, NotSent, Accepted,
           Rejected, Wake, OpenReport, WriteReport, Visit, Crash, TimePasses
  <2> QED
    BY <2>1, Grows, SpentChanges, AgeAssumption DEF TypeOK, Jobs
<1>3. CASE Crash \/ TimePasses \/ UNCHANGED vars
  <2>0. (\A e \in Events : Spent(e)' = Spent(e))
    BY <1>3, Idles, SpentChanges
  <2>1. \A q \in Reporters : Placed(q)' /\ \A e \in Events : Floor(q, e)'
    BY <1>2, <1>3, <2>0, Idles DEF Shared, Placed, Floor, NoJob
  <2>2. \A n \in DOMAIN files', e \in Events : FileFloor(n, e)'
    BY <1>3, <2>0, Idles DEF Shared, FileFloor
  <2> QED
    BY <1>1, <2>1, <2>2 DEF Shared
<1>4. ASSUME NEW r \in Reporters, Moves(r) PROVE Shared'
  <2>1. Elsewhere(r)
    BY <1>4, OneMoves
  <2>2. Placed(r)' /\ \A e \in Events : Floor(r, e)'
    BY <1>4, OwnStep DEF Shared, Sourced
  <2>3. ASSUME NEW q \in Reporters, q # r PROVE Placed(q)' /\ \A e \in Events : Floor(q, e)'
    <3>1. pc'[q] = pc[q] /\ job'[q] = job[q]
      BY <2>1, <2>3 DEF Elsewhere
    <3>2. Placed(q) /\ \A e \in Events : Floor(q, e)
      BY DEF Shared
    <3>3. Placed(q)'
      BY <1>2, <3>1, <3>2 DEF Placed
    <3>4. Before(job[q]) \in Nat /\ Rounds(job[q].retries) \in Nat
      BY <1>2, RoundsGrow DEF Before
    <3>5. \A e \in Events : Floor(q, e)'
      BY <1>2, <3>1, <3>2, <3>4 DEF Floor
    <3> QED
      BY <3>3, <3>5
  <2>4. \A n \in DOMAIN files', e \in Events : FileFloor(n, e)'
    BY <1>2, <1>4, FilesFloorStep DEF Shared
  <2> QED
    BY <1>1, <2>2, <2>3, <2>4 DEF Shared
<1> QED
  BY <1>3, <1>4 DEF Next, Moves

LEMMA SharedHolds == Spec => []Shared
<1>1. Init => Shared
  BY DEF Init, Shared, Sourced, Known, JobKind, Placed, Floor, FileFloor, NoJob
<1> QED
  BY <1>1, SharedStep, Typing, PTL DEF Spec

\* Steps that take an event from nobody.
LEMMA HeldFrame ==
  ASSUME NEW e, Held(e), files' = files,
         \A r \in Reporters : pc'[r] = "stopped" => pc[r] = "stopped",
         \A r \in Reporters : e \in acc[r] => e \in acc'[r] \/ e \in job'[r].recs,
         \A r \in Reporters : e \in job[r].recs => e \in job'[r].recs
  PROVE  Held(e)'
BY DEF Held, Waiting, InHand, OnDisk

\* No step loses an event without an excuse but one that meets another's file.
LEMMA LossExcused ==
  ASSUME TypeOK, Shared, NEW r \in Reporters, Moves(r), NEW e \in Events, Held(e), ~Held(e)',
         ~Excused(e), ~Clash
  PROVE  FALSE
<1>0. /\ pc = [q \in Reporters |-> pc[q]] /\ job = [q \in Reporters |-> job[q]]
      /\ acc = [q \in Reporters |-> acc[q]]
      /\ job[r] \in Jobs /\ crashes \in Nat /\ faults \in Nat /\ clock \in Nat
      /\ billed[e] \in Nat /\ Spent(e) \in Nat
  BY SpentChanges DEF TypeOK
<1>a. Elsewhere(r)
  BY OneMoves
<1>b. Placed(r) /\ Floor(r, e)
  BY DEF Shared
<1>c. Displaced(r) => pc'[r] = pc[r]
  BY DEF Clash
<1>d. ~DiskFault
  BY <1>0 DEF DiskFault, Excused
<1>e. ASSUME files' = files, acc'[r] = acc[r], pc'[r] = "stopped" => pc[r] = "stopped",
             e \in job[r].recs => e \in job'[r].recs
      PROVE  FALSE
  BY <1>a, <1>e, HeldFrame DEF Elsewhere
<1>1. CASE Start(r) \/ Stop(r) \/ FlushNothing(r) \/ Scan(r) \/ EndScan(r)
  BY <1>0, <1>1, <1>e DEF Start, Stop, FlushNothing, Scan, EndScan, Goto
<1>2. CASE ExitLoop(r)
  <2>1. files' = files /\ job' = job /\ acc' = acc
    BY <1>2 DEF ExitLoop
  <2>2. e \in acc[r]
    BY <1>a, <2>1 DEF Elsewhere, Held, Waiting, InHand, OnDisk
  <2>3. posts[e] = 0
    BY <2>2 DEF Shared, Sourced
  <2> QED
    BY <1>2, <2>3 DEF Excused, Stops
<1>3. ASSUME NEW f \in Events, Record(r, f) PROVE FALSE
  <2>1. /\ files' = files /\ pc' = pc /\ job' = job
        /\ \A q \in Reporters : acc[q] \subseteq acc'[q]
    BY <1>0, <1>3 DEF Record
  <2> QED
    BY <2>1, HeldFrame
<1>4. ASSUME NEW n \in listing[r], SkipReport(r, n) PROVE FALSE
  BY <1>4, <1>e DEF SkipReport, Visit
<1>5. CASE Flush(r)
  <2>1. pc[r] = "idle" /\ pc'[r] = "post" /\ job'[r].recs = acc[r] /\ files' = files
    BY <1>0, <1>5 DEF Flush, Goto, NoJob
  <2> QED
    BY <1>a, <1>b, <2>1, HeldFrame DEF Elsewhere, Placed
<1>6. ASSUME NEW n \in listing[r], DiscardReport(r, n) \/ RetryReport(r, n) PROVE FALSE
  <2>1. pc[r] = "next" /\ pc'[r] # "stopped" /\ files' = files /\ acc' = acc
    BY <1>0, <1>6 DEF DiscardReport, RetryReport, Visit, Goto
  <2> QED
    BY <1>b, <1>e, <2>1 DEF Placed
<1>7. CASE RemoveReport(r)
  <2> DEFINE n == job[r].name
  <2>1. pc[r] = "remove" /\ pc'[r] = "next" /\ acc' = acc /\ files' = Erase(files, n)
    BY <1>0, <1>7, <1>d DEF RemoveReport, Goto
  <2>2. /\ DOMAIN files' = DOMAIN files \ {n}
        /\ \A m \in DOMAIN files' : files'[m] = files[m]
    BY <2>1, EraseAt
  <2>3. ~Foreign(r, n)
    BY <1>c, <2>1 DEF Displaced
  <2>4. e \in job[r].recs
    <3>1. \A q \in Reporters : Waiting(q, e) => Waiting(q, e)'
      BY <1>a, <2>1 DEF Elsewhere, Waiting
    <3>2. \A q \in Reporters \ {r} : InHand(q, e) => InHand(q, e)'
      BY <1>a DEF Elsewhere, InHand
    <3>3. \A m \in DOMAIN files \ {n} : OnDisk(m, e) => m \in DOMAIN files' /\ OnDisk(m, e)'
      BY <2>2 DEF OnDisk
    <3>4. InHand(r, e) \/ OnDisk(n, e)
      BY <3>1, <3>2, <3>3 DEF Held, OnDisk
    <3> QED
      BY <2>3, <3>4 DEF InHand, OnDisk, Foreign, Readable
  <2>5. CASE job[r].kind = "file"
    <3>1. billed[e] > 0 /\ billed' = billed
      BY <1>b, <1>7, <2>1, <2>4, <2>5 DEF Placed, RemoveReport, ledger
    <3> QED
      BY <3>1 DEF Excused
  <2>6. CASE job[r].kind = "discard" /\ job[r].retries >= MaxRetries
    <3>1. Spent(e) >= Rounds(job[r].retries)
      BY <1>b, <2>1, <2>4 DEF Floor
    <3>2. Rounds(job[r].retries) >= Rounds(MaxRetries) /\ Rounds(job[r].retries) \in Nat
      <4>1. MaxRetries \in Nat /\ job[r].retries \in Nat
        BY <1>0, RetriesAssumption DEF Jobs
      <4>2. MaxRetries <= job[r].retries
        BY <2>6, <4>1
      <4>3. Rounds(MaxRetries) <= Rounds(job[r].retries)
        BY <4>1, <4>2, RoundsGrow
      <4> QED
        BY <4>1, <4>3, RoundsGrow
    <3>3. Rounds(MaxRetries) = MaxRetries * (MaxRetries + 1) /\ Rounds(MaxRetries) \in Nat
      BY RoundsGrow, RetriesAssumption DEF Rounds
    <3>4. Spent(e) >= Rounds(MaxRetries)
      BY <1>0, <3>1, <3>2, <3>3
    <3> QED
      BY <3>3, <3>4 DEF Excused
  <2>7. CASE job[r].kind = "discard" /\ clock - job[r].stamp > MaxAge
    <3>1. InHand(r, e) /\ Dated(r)
      BY <2>4, <2>7 DEF InHand, Dated
    <3>2. job[r].stamp \in Dates(e)
      BY <3>1 DEF Dates
    <3> QED
      BY <2>7, <3>2 DEF Excused
  <2> QED
    BY <1>b, <2>1, <2>5, <2>6, <2>7 DEF Placed
<1>8. CASE Accepted(r)
  <2>1. /\ pc'[r] # "stopped" /\ files' = files /\ acc' = acc
        /\ e \in job[r].recs => billed'[e] = billed[e] + 1
    BY <1>0, <1>8 DEF Accepted, Add
  <2>2. e \notin job[r].recs
    BY <1>0, <2>1 DEF Excused
  <2> QED
    BY <1>e, <2>1, <2>2
<1>9. CASE NotSent(r) \/ Rejected(r) \/ Wake(r)
  <2>1. job'[r].recs = job[r].recs /\ pc'[r] # "stopped" /\ files' = files /\ acc' = acc
    BY <1>0, <1>9 DEF NotSent, Rejected, Wake, Goto, Jobs
  <2> QED
    BY <1>e, <2>1
<1>10. CASE OpenReport(r)
  <2> DEFINE n == Target(job[r]).name
  <2>1. /\ pc[r] = "open" /\ pc'[r] = "write" /\ acc' = acc
        /\ job'[r].recs = job[r].recs /\ files' = Put(files, n, Torn)
    <3>1. Target(job[r]).recs = job[r].recs
      BY <1>0 DEF Target, Jobs
    <3> QED
      BY <1>0, <1>10, <1>d, <3>1 DEF OpenReport
  <2>2. ~Foreign(r, n)
    BY <1>c, <2>1 DEF Displaced
  <2> HIDE DEF n
  <2>3. \A m \in DOMAIN files \ {n} : OnDisk(m, e) => m \in DOMAIN files' /\ OnDisk(m, e)'
    BY <2>1, PutAt DEF OnDisk
  <2>4. OnDisk(n, e) => e \in job[r].recs
    BY <2>2 DEF OnDisk, Foreign, Readable
  <2> QED
    BY <1>a, <2>1, <2>3, <2>4 DEF Elsewhere, Held, Waiting, InHand, OnDisk
<1>11. CASE WriteReport(r)
  <2>0. PICK n : n = job[r].name
    OBVIOUS
  <2>1. /\ pc[r] = "write" /\ pc'[r] \in {"scan", "next"} /\ acc' = acc
    BY <1>0, <1>11 DEF WriteReport, After
  <2>a. n \in DOMAIN files /\ ~Detached(r)
    BY <1>c, <2>0, <2>1 DEF Displaced
  <2>2. n \in DOMAIN files /\ ~files[n].whole
    BY <2>0, <2>a DEF Detached, Readable
  <2>3. files' = Put(files, n, ReportOf(job[r]))
    BY <1>11, <1>d, <2>0, <2>a, <2>2 DEF WriteReport, Readable
  <2>4. /\ DOMAIN files' = DOMAIN files /\ files'[n] = ReportOf(job[r])
        /\ \A m \in DOMAIN files : m # n => files'[m] = files[m]
    BY <2>2, <2>3, PutAt
  <2>5. e \in job[r].recs => n \in DOMAIN files' /\ OnDisk(n, e)'
    BY <2>2, <2>4 DEF OnDisk, ReportOf
  <2>6. \A m \in DOMAIN files : OnDisk(m, e) => m \in DOMAIN files' /\ OnDisk(m, e)'
    BY <2>2, <2>4 DEF OnDisk
  <2> QED
    BY <1>a, <2>1, <2>5, <2>6 DEF Elsewhere, Held, Waiting, InHand
<1> QED
  BY <1>1, <1>2, <1>3, <1>4, <1>5, <1>6, <1>7, <1>8, <1>9, <1>10, <1>11 DEF Moves, Loop

LEMMA LossStep ==
  ASSUME TypeOK, Shared, [Next]_vars
  PROVE  \A e \in Events : Held(e) /\ ~Held(e)' => Excused(e) \/ Clash
<1> SUFFICES ASSUME NEW e \in Events, Held(e), ~Held(e)', ~Excused(e), ~Clash PROVE FALSE
  OBVIOUS
<1>1. CASE Crash
  <2>1. crashes \in Nat /\ crashes' = crashes + 1
    BY <1>1 DEF TypeOK, Crash
  <2> QED
    BY <2>1 DEF Excused
<1>2. CASE TimePasses \/ UNCHANGED vars
  BY <1>2, HeldFrame DEF TimePasses, vars
<1> QED
  BY <1>1, <1>2, LossExcused DEF Next, Moves

\* However many reporters share the directory: nobody stops answering for an event
\* without an excuse, but where two of them meet at one file.
THEOREM SharedCustodyKept == Spec => SharedCustody
<1>1. TypeOK /\ Shared /\ [Next]_vars
        => [\A e \in Events : Held(e) /\ ~Held(e)' => Excused(e) \/ Clash]_vars
  BY LossStep
<1> QED
  BY <1>1, SharedHolds, Typing, PTL DEF Spec, SharedCustody

\* A loop about to truncate a file does so, or the file system or the process fails.
LEMMA Opens ==
  ASSUME NEW r0, Reporters = {r0}, TypeOK, [Next]_vars, pc[r0] = "open", pc'[r0] # pc[r0]
  PROVE  pc'[r0] = "write" \/ <<crashes, faults>>' # <<crashes, faults>>
<1>0. pc = [r \in Reporters |-> pc[r]] /\ crashes \in Nat /\ faults \in Nat
  BY DEF TypeOK
<1>1. CASE OpenReport(r0)
  BY <1>0, <1>1 DEF OpenReport, DiskFault
<1>2. CASE Crash
  BY <1>0, <1>2 DEF Crash
<1> QED
  BY <1>0, <1>1, <1>2
  DEF Next, Loop, vars, Start, Stop, ExitLoop, Record, Flush, FlushNothing, Scan, EndScan,
      SkipReport, DiscardReport, RetryReport, RemoveReport, NotSent, Accepted, Rejected, Wake,
      WriteReport, TimePasses, Goto, Visit

\* A lone reporter meets nobody at its files, and lets go of an event only with an
\* excuse, or under a batch that could not be sent in the same second.
THEOREM CustodyKept ==
  ASSUME NEW r0, Reporters = {r0}
  PROVE  Spec => Custody
<1>1. Init => NamesPast /\ JobKind /\ InStep(r0)
  BY DEF Init, NamesPast, Slept, JobKind, InStep, NoJob
<1>2. TypeOK /\ NamesPast /\ JobKind /\ InStep(r0) /\ [Next]_vars
      => NamesPast' /\ JobKind' /\ InStep(r0)'
  BY NamesStep, KindStep, InStepStep
<1>3. TypeOK /\ NamesPast /\ JobKind /\ InStep(r0) /\ Displaced(r0)
        => ~parses[r0] /\ pc[r0] = "open" /\ job[r0].kind = "usage" /\ Readable(clock)
  <2> SUFFICES ASSUME TypeOK, NamesPast, JobKind, InStep(r0), Displaced(r0)
               PROVE  ~parses[r0] /\ pc[r0] = "open" /\ job[r0].kind = "usage" /\ Readable(clock)
    OBVIOUS
  <2>1. CASE pc[r0] = "open" /\ Foreign(r0, Target(job[r0]).name)
    <3>1. CASE job[r0].kind = "usage"
      <4>1. Target(job[r0]).name = clock
        BY <3>1 DEF Target, TypeOK, Jobs
      <4>2. clock \in DOMAIN files /\ parses[r0] => clock < clock
        BY <2>1, <3>1 DEF NamesPast, Slept
      <4> QED
        BY <2>1, <3>1, <4>1, <4>2 DEF TypeOK, Foreign, Readable
    <3>2. CASE job[r0].kind # "usage"
      BY <2>1, <3>2 DEF Target, InStep, Foreign
    <3> QED
      BY <3>1, <3>2
  <2>2. CASE pc[r0] = "remove" /\ Foreign(r0, job[r0].name)
    BY <2>2 DEF InStep, Foreign
  <2>3. CASE pc[r0] = "write" /\ (job[r0].name \notin DOMAIN files \/ Detached(r0))
    BY <2>3 DEF InStep, Detached, Readable
  <2> QED
    BY <2>1, <2>2, <2>3 DEF Displaced
<1>4. TypeOK /\ NamesPast /\ JobKind /\ InStep(r0) /\ Shared /\ [Next]_vars
        => [\A e \in Events : Held(e) /\ ~Held(e)'
              => Excused(e) \/ \E r \in Reporters : Hasty(r)]_vars
  <2> SUFFICES ASSUME TypeOK, NamesPast, JobKind, InStep(r0), Shared, [Next]_vars,
                      NEW e \in Events, Held(e), ~Held(e)', ~Excused(e)
               PROVE  Hasty(r0)
    OBVIOUS
  <2>1. Displaced(r0) /\ pc'[r0] # pc[r0]
    BY LossStep DEF Clash
  <2>2. ~parses[r0] /\ pc[r0] = "open" /\ job[r0].kind = "usage" /\ Readable(clock)
    BY <1>3, <2>1
  <2>3. pc'[r0] = "write"
    BY <2>1, <2>2, Opens DEF Excused
  <2> QED
    BY <2>2, <2>3 DEF Hasty
<1> QED
  BY <1>1, <1>2, <1>4, SharedHolds, Typing, PTL DEF Spec, Custody

\* A batch that was flushed is in one pair of hands until it is put in writing.
UsageAlone ==
  \A r \in Reporters : job[r].kind = "usage" => \A e \in job[r].recs :
    /\ \A q \in Reporters \ {r} : e \notin job[q].recs
    /\ \A n \in DOMAIN files : e \notin files[n].recs

LEMMA UsageAloneStep ==
  ASSUME TypeOK, Sourced, UsageAlone, [Next]_vars
  PROVE  UsageAlone'
<1> USE DEF UsageAlone
<1>1. CASE Crash \/ TimePasses \/ UNCHANGED vars
  BY <1>1, Idles DEF NoJob
<1>2. ASSUME NEW r \in Reporters, Moves(r) PROVE UsageAlone'
  <2>1. Elsewhere(r) /\ Flows(r)
    BY <1>2, OneMoves, FlowsStep
  <2>2. \A n \in DOMAIN files' :
          \/ n \in DOMAIN files /\ files'[n].recs = files[n].recs
          \/ files'[n].recs = {}
          \/ files'[n].recs = job[r].recs /\ job'[r].recs = {}
    BY <2>1 DEF Flows, Torn
  <2>3. ASSUME job'[r].kind = "usage", NEW e \in job'[r].recs
        PROVE  /\ \A q \in Reporters \ {r} : e \notin job'[q].recs
               /\ \A n \in DOMAIN files' : e \notin files'[n].recs
    BY <2>1, <2>2, <2>3 DEF Elsewhere, Flows, Sourced
  <2>4. ASSUME NEW p \in Reporters \ {r}, job'[p].kind = "usage", NEW e \in job'[p].recs
        PROVE  /\ \A q \in Reporters \ {p} : e \notin job'[q].recs
               /\ \A n \in DOMAIN files' : e \notin files'[n].recs
    <3>1. job'[p] = job[p] /\ e \in job[p].recs
      BY <2>1, <2>4 DEF Elsewhere
    <3>2. /\ e \notin acc[r]
          /\ \A q \in Reporters \ {p} : e \notin job[q].recs
          /\ \A n \in DOMAIN files : e \notin files[n].recs
      BY <2>4, <3>1 DEF Sourced
    <3>3. e \notin job'[r].recs
      BY <2>1, <3>2 DEF Flows
    <3> QED
      BY <2>1, <2>2, <3>2, <3>3 DEF Elsewhere
  <2> QED
    BY <2>3, <2>4
<1> QED
  BY <1>1, <1>2 DEF Next, Moves

\* What Dates contains.
LEMMA DatesAre ==
  ASSUME NEW e, NEW d
  PROVE  d \in Dates(e) <=> \/ \E n \in DOMAIN files : OnDisk(n, e) /\ files[n].stamp = d
                            \/ \E r \in Reporters : InHand(r, e) /\ Dated(r) /\ job[r].stamp = d
BY DEF Dates

LEMMA DatesAreNext ==
  ASSUME NEW e, NEW d
  PROVE  d \in Dates(e)' <=>
           \/ \E n \in DOMAIN files' : OnDisk(n, e)' /\ files'[n].stamp = d
           \/ \E r \in Reporters : InHand(r, e)' /\ Dated(r)' /\ job'[r].stamp = d
BY DEF Dates

\* A date comes from a date, or from the clock when a flushed batch is first written.
LEMMA DatesFlow ==
  ASSUME TypeOK, NEW r \in Reporters, Moves(r), NEW e \in Events, NEW d \in Dates(e)'
  PROVE  \/ d \in Dates(e)
         \/ pc[r] = "open" /\ job[r].kind = "usage" /\ e \in job[r].recs /\ d = clock
<1>0. /\ pc = [q \in Reporters |-> pc[q]] /\ job = [q \in Reporters |-> job[q]]
      /\ job[r] \in Jobs
  BY DEF TypeOK
<1>a. Elsewhere(r)
  BY OneMoves
<1>1. ASSUME NEW n \in DOMAIN files', OnDisk(n, e)', files'[n].stamp = d
      PROVE  d \in Dates(e)
  <2>1. \/ n \in DOMAIN files /\ files'[n] = files[n]
        \/ files'[n] = Torn
        \/ pc[r] = "write" /\ files'[n] = ReportOf(job[r])
    <3>1. CASE files' = files
      BY <3>1
    <3>2. CASE RemoveReport(r)
      BY <3>2, EraseAt DEF RemoveReport
    <3>3. CASE OpenReport(r)
      BY <3>3, PutEither DEF OpenReport
    <3>4. CASE WriteReport(r)
      BY <3>4, PutEither DEF WriteReport
    <3> QED
      BY <3>1, <3>2, <3>3, <3>4
      DEF Moves, Start, Stop, ExitLoop, Record, Loop, Flush, FlushNothing, Scan, EndScan,
          SkipReport, DiscardReport, RetryReport, NotSent, Accepted, Rejected, Wake, Visit
  <2>2. CASE n \in DOMAIN files /\ files'[n] = files[n]
    BY <1>1, <2>2, DatesAre DEF OnDisk
  <2>3. CASE files'[n] = Torn
    BY <1>1, <2>3 DEF OnDisk, Torn
  <2>4. CASE pc[r] = "write" /\ files'[n] = ReportOf(job[r])
    <3>1. InHand(r, e) /\ Dated(r) /\ job[r].stamp = d
      BY <1>1, <2>4 DEF OnDisk, ReportOf, InHand, Dated
    <3> QED
      BY <3>1, DatesAre
  <2> QED
    BY <2>1, <2>2, <2>3, <2>4
<1>2. ASSUME NEW q \in Reporters \ {r}, InHand(q, e)', Dated(q)', job'[q].stamp = d
      PROVE  d \in Dates(e)
  BY <1>a, <1>2, DatesAre DEF Elsewhere, InHand, Dated
<1>3. ASSUME InHand(r, e)', Dated(r)', job'[r].stamp = d
      PROVE  \/ d \in Dates(e)
             \/ pc[r] = "open" /\ job[r].kind = "usage" /\ e \in job[r].recs /\ d = clock
  <2>1. CASE job'[r].recs = job[r].recs /\ job'[r].stamp = job[r].stamp /\ Dated(r)
    BY <1>3, <2>1, DatesAre DEF InHand
  <2>2. CASE \/ Start(r) \/ Stop(r) \/ ExitLoop(r) \/ FlushNothing(r) \/ Scan(r) \/ EndScan(r)
             \/ \E f \in Events : Record(r, f)
             \/ \E n \in listing[r] : SkipReport(r, n)
    <3>1. job'[r] = job[r] /\ (pc'[r] = "write" => pc[r] = "write")
      BY <1>0, <2>2 DEF Start, Stop, ExitLoop, FlushNothing, Scan, EndScan, Record, SkipReport,
                        Goto
    <3> QED
      BY <1>3, <2>1, <3>1 DEF Dated
  <2>3. CASE Flush(r)
    <3>1. job'[r].kind = "usage" /\ pc'[r] = "post"
      BY <1>0, <2>3 DEF Flush, Goto, NoJob
    <3> QED
      BY <1>3, <3>1 DEF Dated
  <2>4. ASSUME NEW n \in listing[r], DiscardReport(r, n) \/ RetryReport(r, n)
        PROVE  d \in Dates(e)
    <3>1. /\ job'[r].recs = files[n].recs /\ job'[r].stamp = files[n].stamp
          /\ n \in DOMAIN files /\ files[n].whole
      BY <1>0, <2>4 DEF DiscardReport, RetryReport, Goto, Load, Readable
    <3> QED
      BY <1>3, <3>1, DatesAre DEF InHand, OnDisk
  <2>5. CASE RemoveReport(r) \/ WriteReport(r)
    <3>1. job'[r].recs = {}
      BY <1>0, <2>5 DEF RemoveReport, WriteReport, NoJob
    <3> QED
      BY <1>3, <3>1 DEF InHand
  <2>6. CASE NotSent(r) \/ Accepted(r) \/ Rejected(r) \/ Wake(r)
    <3>1. \/ job'[r].recs = {}
          \/ /\ job'[r].recs = job[r].recs /\ job'[r].stamp = job[r].stamp
             /\ job'[r].kind = job[r].kind /\ pc'[r] # "write"
      BY <1>0, <2>6 DEF NotSent, Accepted, Rejected, Wake, Goto, Jobs, NoJob
    <3> QED
      BY <1>3, <2>1, <3>1 DEF InHand, Dated
  <2>7. CASE OpenReport(r)
    <3>1. CASE job'[r] = NoJob
      BY <1>3, <3>1 DEF InHand, NoJob
    <3>2. CASE job'[r] = Target(job[r])
      <4>1. CASE job[r].kind = "usage"
        <5>1. job'[r].recs = job[r].recs /\ job'[r].stamp = clock /\ pc[r] = "open"
          BY <1>0, <2>7, <3>2, <4>1 DEF OpenReport, Target, Jobs
        <5> QED
          BY <1>3, <4>1, <5>1 DEF InHand
      <4>2. CASE job[r].kind # "usage"
        BY <1>3, <2>1, <3>2, <4>2 DEF Target, Dated
      <4> QED
        BY <4>1, <4>2
    <3> QED
      BY <1>0, <2>7, <3>1, <3>2 DEF OpenReport
  <2> QED
    BY <2>2, <2>3, <2>4, <2>5, <2>6, <2>7 DEF Moves, Loop
<1> QED
  BY <1>1, <1>2, <1>3, DatesAreNext

\* Every copy of an event has the same date.
OneDate == \A e \in Events : \A c, d \in Dates(e) : c = d

LEMMA DatesStep ==
  ASSUME TypeOK, UsageAlone, OneDate, [Next]_vars
  PROVE  OneDate' /\ \A e \in Events : Dates(e) # {} => Dates(e)' \subseteq Dates(e)
<1>1. CASE Crash \/ TimePasses \/ UNCHANGED vars
  <2>1. ASSUME NEW e \in Events, NEW d \in Dates(e)' PROVE d \in Dates(e)
    BY <1>1, <2>1, Idles, DatesAre, DatesAreNext DEF OnDisk, InHand, Dated, NoJob
  <2> QED
    BY <2>1 DEF OneDate
<1>2. ASSUME NEW r \in Reporters, Moves(r), NEW e \in Events
      PROVE  /\ Dates(e) # {} => Dates(e)' \subseteq Dates(e)
             /\ \A c, d \in Dates(e)' : c = d
  <2>1. CASE pc[r] = "open" /\ job[r].kind = "usage" /\ e \in job[r].recs
    <3>1. ASSUME NEW d \in Dates(e) PROVE FALSE
      BY <2>1, DatesAre DEF UsageAlone, OnDisk, InHand, Dated
    <3> QED
      BY <1>2, <2>1, <3>1, DatesFlow
  <2>2. CASE ~(pc[r] = "open" /\ job[r].kind = "usage" /\ e \in job[r].recs)
    BY <1>2, <2>2, DatesFlow DEF OneDate
  <2> QED
    BY <2>1, <2>2
<1> QED
  BY <1>1, <1>2 DEF Next, Moves, OneDate

\* However many reporters retry it and write it back, a report keeps the date of the
\* batch it was first written for: what is too old stays so.
THEOREM DatesNeverRenewed ==
  Spec => [][\A e \in Events : Dates(e) # {} => Dates(e)' \subseteq Dates(e)]_vars
<1>1. Init => UsageAlone /\ OneDate
  <2> SUFFICES ASSUME Init PROVE UsageAlone /\ OneDate
    OBVIOUS
  <2>0. DOMAIN files = {} /\ \A r \in Reporters : job[r].recs = {} /\ job[r].kind = "none"
    BY DEF Init, NoJob
  <2>1. UsageAlone
    BY <2>0 DEF UsageAlone
  <2>2. \A e \in Events : Dates(e) = {}
    BY <2>0, DatesAre DEF InHand, OnDisk
  <2> QED
    BY <2>1, <2>2 DEF OneDate
<1>2. TypeOK /\ Shared /\ UsageAlone /\ OneDate /\ [Next]_vars
        => /\ UsageAlone' /\ OneDate'
           /\ [\A e \in Events : Dates(e) # {} => Dates(e)' \subseteq Dates(e)]_vars
  BY UsageAloneStep, DatesStep DEF Shared
<1> QED
  BY <1>1, <1>2, SharedHolds, Typing, PTL DEF Spec

----------------------------------------------------------------------------
\* A cycle of the loop ends.

\* Away from the select, where alone the loop looks at stopChan.
Away(r) == pc[r] \notin {"off", "idle", "stopped"}

\* A cycle has the new usage first, then the listing, then the reports of the listing.
Phase(r) == IF job[r].kind = "usage" THEN 2 ELSE IF pc[r] = "scan" THEN 1 ELSE 0

\* The most steps a batch may still be in hand: each attempt but the last has its
\* sleep, and after the last one the report is opened and written.
Effort(r) ==
  IF pc[r] = "post" THEN 2 * (MaxRetries - job[r].attempt) + 2
  ELSE IF pc[r] = "sleep" THEN 2 * (MaxRetries - job[r].attempt) + 1
  ELSE IF pc[r] = "open" THEN 2
  ELSE IF pc[r] \in {"write", "remove"} THEN 1
  ELSE 0

\* Nearer to the end of the cycle: a later phase, a report less to visit, or a step
\* less to go with the one in hand.
Nearer(r) ==
  \/ Phase(r)' < Phase(r)
  \/ /\ Phase(r)' = Phase(r)
     /\ \/ listing'[r] \subseteq listing[r] /\ listing'[r] # listing[r]
        \/ listing'[r] = listing[r] /\ Effort(r)' < Effort(r)

AtRest(r) == UNCHANGED <<pc[r], job[r], listing[r]>>

Bounded(r) ==
  /\ IsFiniteSet(listing[r])
  /\ pc[r] = "post" => job[r].attempt <= MaxRetries - 1
  /\ pc[r] = "sleep" => job[r].attempt <= MaxRetries - 2
  /\ pc[r] \notin {"post", "sleep", "open", "write"} => job[r].kind # "usage"

\* A step of r's loop keeps r's attempts within bounds and, once away, brings r nearer
\* to its select.
LEMMA LoopNearer ==
  ASSUME TypeOK, JobKind, NEW r \in Reporters, Bounded(r), IsFiniteSet(DOMAIN files), Loop(r)
  PROVE  Bounded(r)' /\ (Away(r) /\ Away(r)' => Nearer(r))
<1> USE DEF Bounded, Away, Nearer, Phase, Effort
<1>0. /\ pc = [q \in Reporters |-> pc[q]] /\ job = [q \in Reporters |-> job[q]]
      /\ listing = [q \in Reporters |-> listing[q]]
      /\ job[r] \in Jobs /\ job[r].attempt \in Nat /\ MaxRetries \in Nat /\ MaxRetries >= 2
  BY RetriesAssumption DEF TypeOK, Jobs
<1>1. CASE Flush(r)
  <2>1. pc[r] = "idle" /\ pc'[r] = "post" /\ job'[r].attempt = 0 /\ listing' = listing
    BY <1>0, <1>1 DEF Flush, Goto, NoJob
  <2> QED
    BY <1>0, <2>1
<1>2. CASE FlushNothing(r) \/ EndScan(r)
  BY <1>0, <1>2 DEF FlushNothing, EndScan, Goto
<1>3. CASE Scan(r)
  BY <1>0, <1>3 DEF Scan, Goto
<1>4. ASSUME NEW n \in listing[r], SkipReport(r, n) \/ DiscardReport(r, n) \/ RetryReport(r, n)
      PROVE  Bounded(r)' /\ Nearer(r)
  <2>1. /\ listing'[r] = listing[r] \ {n} /\ IsFiniteSet(listing'[r])
        /\ listing'[r] \subseteq listing[r] /\ listing'[r] # listing[r]
    <3>1. listing'[r] = listing[r] \ {n}
      BY <1>0, <1>4 DEF SkipReport, DiscardReport, RetryReport, Visit
    <3> QED
      BY <3>1, FS_RemoveElement
  <2>2. /\ pc[r] = "next"
        /\ \/ pc'[r] = "next" /\ job'[r] = job[r]
           \/ pc'[r] = "remove" /\ job'[r].kind = "discard"
           \/ pc'[r] = "post" /\ job'[r].kind = "file" /\ job'[r].attempt = 0
    BY <1>0, <1>4 DEF SkipReport, DiscardReport, RetryReport, Goto, Load
  <2> QED
    BY <1>0, <2>1, <2>2
<1>5. CASE RemoveReport(r) \/ WriteReport(r)
  <2>1. /\ job'[r] = NoJob /\ listing' = listing
        /\ \/ pc[r] = "remove" /\ pc'[r] = "next"
           \/ pc[r] = "write" /\ pc'[r] = After(job[r])
    BY <1>0, <1>5 DEF RemoveReport, WriteReport, Goto
  <2> QED
    BY <1>0, <2>1 DEF After, NoJob, JobKind
<1>6. CASE Accepted(r)
  <2>1. /\ pc[r] = "post" /\ listing' = listing
        /\ \/ job[r].kind = "usage" /\ pc'[r] = "scan" /\ job'[r] = NoJob
           \/ job[r].kind = "file" /\ pc'[r] = "remove" /\ job'[r] = job[r]
    BY <1>0, <1>6 DEF Accepted, JobKind
  <2> QED
    BY <1>0, <2>1 DEF NoJob
<1>7. CASE Rejected(r)
  <2>1. /\ pc[r] = "post" /\ listing' = listing
        /\ job'[r].kind = job[r].kind /\ job'[r].attempt = job[r].attempt
        /\ \/ job[r].attempt < MaxRetries - 1 /\ pc'[r] = "sleep"
           \/ pc'[r] = "open"
    BY <1>0, <1>7 DEF Rejected, Jobs
  <2> QED
    BY <1>0, <2>1
<1>8. CASE Wake(r)
  <2>1. /\ pc[r] = "sleep" /\ pc'[r] = "post" /\ listing' = listing
        /\ job'[r].kind = job[r].kind /\ job'[r].attempt = job[r].attempt + 1
    BY <1>0, <1>8 DEF Wake, Goto, Jobs
  <2> QED
    BY <1>0, <2>1
<1>9. CASE OpenReport(r)
  <2>1. CASE job' = [job EXCEPT ![r] = Target(job[r])] /\ pc' = [pc EXCEPT ![r] = "write"]
    <3>1. /\ pc[r] = "open" /\ pc'[r] = "write" /\ listing' = listing
          /\ job'[r].kind = job[r].kind
      BY <1>0, <1>9, <2>1 DEF OpenReport, Target, Jobs
    <3> QED
      BY <1>0, <3>1
  <2>2. CASE job' = [job EXCEPT ![r] = NoJob] /\ pc' = [pc EXCEPT ![r] = After(job[r])]
    <3>1. /\ pc[r] = "open" /\ pc'[r] = After(job[r]) /\ listing' = listing
          /\ job'[r] = NoJob
      BY <1>0, <1>9, <2>2 DEF OpenReport
    <3> QED
      BY <1>0, <3>1 DEF After, NoJob, JobKind
  <2> QED
    BY <1>9, <2>1, <2>2 DEF OpenReport
<1>10. CASE NotSent(r)
  <2>1. /\ pc[r] = "post" /\ pc'[r] = "open" /\ listing' = listing
        /\ job'[r].kind = job[r].kind /\ job'[r].attempt = job[r].attempt
    BY <1>0, <1>10 DEF NotSent, Goto, Jobs
  <2> QED
    BY <1>0, <2>1
<1> QED
  BY <1>1, <1>2, <1>3, <1>4, <1>5, <1>6, <1>7, <1>8, <1>9, <1>10 DEF Loop

\* The directory and the listings stay finite, and whoever does not move stays where
\* it is.
LEMMA CycleStep ==
  ASSUME TypeOK, JobKind, IsFiniteSet(DOMAIN files), \A r \in Reporters : Bounded(r), [Next]_vars
  PROVE  /\ IsFiniteSet(DOMAIN files')
         /\ \A r \in Reporters : Bounded(r)'
         /\ \A r \in Reporters : Away(r) /\ Away(r)' =>
              IF Loop(r) THEN Nearer(r) ELSE AtRest(r)
<1>0. /\ pc = [q \in Reporters |-> pc[q]] /\ job = [q \in Reporters |-> job[q]]
      /\ listing = [q \in Reporters |-> listing[q]]
  BY DEF TypeOK
<1>1. IsFiniteSet(DOMAIN files')
  <2>1. \/ DOMAIN files' = DOMAIN files
        \/ \E n : DOMAIN files' = DOMAIN files \cup {n}
        \/ \E n : DOMAIN files' = DOMAIN files \ {n}
    <3>1. CASE files' = files
      BY <3>1
    <3>2. ASSUME NEW r \in Reporters, RemoveReport(r) \/ OpenReport(r) \/ WriteReport(r),
                 files' # files
          PROVE  \E n : \/ DOMAIN files' = DOMAIN files \cup {n}
                        \/ DOMAIN files' = DOMAIN files \ {n}
      BY <3>2, PutAt, EraseAt DEF RemoveReport, OpenReport, WriteReport
    <3> QED
      BY <3>1, <3>2 DEF Next, vars, ledger, Start, Stop, ExitLoop, Record, Loop, Flush,
         FlushNothing, Scan, EndScan, SkipReport, DiscardReport, RetryReport, NotSent, Accepted,
         Rejected, Wake, Visit, Crash, TimePasses
  <2> QED
    <3>1. ASSUME NEW n PROVE IsFiniteSet(DOMAIN files \cup {n}) /\ IsFiniteSet(DOMAIN files \ {n})
      BY FS_AddElement, FS_RemoveElement
    <3> QED
      BY <2>1, <3>1
<1>2. ASSUME NEW r \in Reporters, AtRest(r) PROVE Bounded(r)'
  BY <1>2 DEF AtRest, Bounded
<1>3. CASE Crash
  BY <1>0, <1>1, <1>3, FS_EmptySet DEF Crash, Bounded, Away, NoJob
<1>4. CASE TimePasses \/ UNCHANGED vars
  <2>1. \A r \in Reporters : AtRest(r)
    BY <1>4 DEF TimePasses, vars, AtRest
  <2>2. ASSUME NEW r \in Reporters, Away(r), Loop(r) PROVE Nearer(r)
    BY <2>1, <2>2, LoopNearer DEF AtRest, Away
  <2> QED
    BY <1>1, <1>2, <2>1, <2>2
<1>5. ASSUME NEW p \in Reporters, Moves(p)
      PROVE  /\ \A r \in Reporters : Bounded(r)'
             /\ \A r \in Reporters : Away(r) /\ Away(r)' =>
                  IF Loop(r) THEN Nearer(r) ELSE AtRest(r)
  <2>1. ASSUME NEW r \in Reporters, r # p PROVE AtRest(r)
    <3>1. pc'[r] = pc[r] /\ job'[r] = job[r]
      BY <1>5, <2>1, OneMoves DEF Elsewhere
    <3>2. listing'[r] = listing[r]
      BY <1>0, <1>5, <2>1 DEF Moves, Start, Stop, ExitLoop, Record, Loop, Flush,
         FlushNothing, Scan, EndScan, SkipReport, DiscardReport, RetryReport, RemoveReport,
         NotSent, Accepted, Rejected, Wake, OpenReport, WriteReport, Visit
    <3> QED
      BY <3>1, <3>2 DEF AtRest
  <2>2. CASE Loop(p)
    BY <1>2, <2>1, <2>2, LoopNearer
  <2>3. CASE ~Loop(p)
    <3>1. Start(p) \/ Stop(p) \/ ExitLoop(p) \/ \E e \in Events : Record(p, e)
      BY <1>5, <2>3 DEF Moves
    <3>2. Bounded(p)' /\ (Away(p) => AtRest(p) \/ ~Away(p)')
      BY <1>0, <3>1 DEF Start, Stop, ExitLoop, Record, Goto, Bounded, Away, AtRest
    <3> QED
      BY <1>2, <2>1, <2>3, <3>2, LoopNearer
  <2> QED
    BY <2>2, <2>3
<1> QED
  BY <1>1, <1>3, <1>4, <1>5 DEF Next, Moves

\* Between two visits to its select a loop goes down a well-founded order with every
\* step of its own, and no other step takes it back: whatever the endpoint answers,
\* whatever fails and however many reporters add reports meanwhile, each cycle of
\* StartReportingLoop ends, and a loop that is told to stop comes to see it.
THEOREM CyclesEnd ==
  Spec => /\ [](\A r \in Reporters : IsFiniteSet(listing[r]) /\ Effort(r) \in Nat)
          /\ [][\A r \in Reporters : Away(r) /\ Away(r)' =>
                  IF Loop(r) THEN Nearer(r) ELSE AtRest(r)]_vars
<1> DEFINE Inv == JobKind /\ IsFiniteSet(DOMAIN files) /\ \A r \in Reporters : Bounded(r)
<1>1. Init => Inv
  BY FS_EmptySet DEF Init, JobKind, Bounded, NoJob
<1>2. TypeOK /\ Inv /\ [Next]_vars
        => /\ Inv'
           /\ [\A r \in Reporters : Away(r) /\ Away(r)' =>
                 IF Loop(r) THEN Nearer(r) ELSE AtRest(r)]_vars
  BY KindStep, CycleStep
<1>3. TypeOK /\ Inv => \A r \in Reporters : IsFiniteSet(listing[r]) /\ Effort(r) \in Nat
  <2> SUFFICES ASSUME TypeOK, Inv, NEW r \in Reporters
               PROVE  IsFiniteSet(listing[r]) /\ Effort(r) \in Nat
    OBVIOUS
  <2>1. job[r].attempt \in Nat /\ MaxRetries \in Nat /\ Bounded(r)
    BY RetriesAssumption DEF TypeOK, Jobs
  <2> QED
    BY <2>1 DEF Bounded, Effort
<1> QED
  BY <1>1, <1>2, <1>3, Typing, PTL DEF Spec

----------------------------------------------------------------------------
\* The refinement: a lone reporter implements BillingLedger.

FileDates(e) == {files[n].stamp : n \in {m \in DOMAIN files : OnDisk(m, e)}}
HandDates(e) == {job[r].stamp : r \in {s \in Reporters : InHand(s, e) /\ Dated(s)}}
Ended == {r \in Reporters : pc[r] = "stopped"}

\* What the ledger sees of an event does not change.
Still(e) == (Held(e)' <=> Held(e)) /\ Dates(e)' = Dates(e)

\* An event with a dated copy is answered for.
LEMMA DatedHeld ==
  ASSUME NEW e, ~Held(e)
  PROVE  Dates(e) = {}
<1>1. \A n \in DOMAIN files : ~OnDisk(n, e)
  BY DEF Held
<1>2. \A r \in Reporters : ~InHand(r, e)
  BY DEF Held
<1> QED
  BY <1>1, <1>2 DEF Dates

\* What a lone reporter answers for, and the dates of it.
LEMMA LoneHeld ==
  ASSUME NEW r0, Reporters = {r0}, NEW e
  PROVE  /\ Held(e) <=> \/ pc[r0] # "stopped" /\ e \in acc[r0]
                        \/ e \in job[r0].recs
                        \/ \E n \in DOMAIN files : OnDisk(n, e)
         /\ Dates(e) = FileDates(e) \cup
                         (IF e \in job[r0].recs /\ Dated(r0) THEN {job[r0].stamp} ELSE {})
<1>1. HandDates(e) = IF e \in job[r0].recs /\ Dated(r0) THEN {job[r0].stamp} ELSE {}
  BY DEF HandDates, InHand
<1>2. Dates(e) = FileDates(e) \cup HandDates(e)
  BY DEF Dates, FileDates, HandDates
<1> QED
  BY <1>1, <1>2 DEF Held, Waiting, InHand

\* The same after a step.
LEMMA LoneHeldNext ==
  ASSUME NEW r0, Reporters = {r0}, NEW e
  PROVE  /\ Held(e)' <=> \/ pc'[r0] # "stopped" /\ e \in acc'[r0]
                         \/ e \in job'[r0].recs
                         \/ \E n \in DOMAIN files' : OnDisk(n, e)'
         /\ Dates(e)' = FileDates(e)' \cup
                          (IF e \in job'[r0].recs /\ Dated(r0)' THEN {job'[r0].stamp} ELSE {})
<1>1. HandDates(e)' = IF e \in job'[r0].recs /\ Dated(r0)' THEN {job'[r0].stamp} ELSE {}
  BY DEF HandDates, InHand
<1>2. Dates(e)' = FileDates(e)' \cup HandDates(e)'
  BY DEF Dates, FileDates, HandDates
<1> QED
  BY <1>1, <1>2 DEF Held, Waiting, InHand

\* A directory left alone has the dates it had.
LEMMA DiskStill ==
  ASSUME NEW e, files' = files
  PROVE  FileDates(e)' = FileDates(e) /\ \A n \in DOMAIN files : OnDisk(n, e)' <=> OnDisk(n, e)
  BY DEF FileDates, OnDisk

\* Steps the ledger does not see.
LEMMA LedgerStutters ==
  ASSUME \A e \in Events : Still(e), UNCHANGED <<recorded, posts, unsent, billed, clock>>,
         Ended' = Ended, Mishaps' = Mishaps
  PROVE  UNCHANGED Ledger!vars
<1>1. {e \in Events : Held(e)}' = {e \in Events : Held(e)}
  BY DEF Still
<1>2. [e \in Events |-> Dates(e)]' = [e \in Events |-> Dates(e)]
  BY DEF Still
<1> QED
  BY <1>1, <1>2 DEF Ledger!vars, Ended, Mishaps

\* What a step of the ledger that lets go of events needs.
Releases(S) ==
  /\ S = {e \in Events : Held(e) /\ ~Held(e)'}
  /\ \A e \in Events : Held(e)' => Held(e) /\ Dates(e)' = Dates(e)

\* Letting go of events is what the ledger calls leaving.
LEMMA LedgerLeaves ==
  ASSUME NEW S, Releases(S)
  PROVE  /\ S \in SUBSET {e \in Events : Held(e)}
         /\ {e \in Events : Held(e)}' = {e \in Events : Held(e)} \ S
         /\ Ledger!KeepDates
<1>1. S \subseteq {e \in Events : Held(e)}
  BY DEF Releases
<1>2. {e \in Events : Held(e)}' = {e \in Events : Held(e)} \ S
  BY DEF Releases
<1>3. ASSUME NEW e \in Events
      PROVE  Dates(e)' = IF e \in {f \in Events : Held(f)}' THEN Dates(e) ELSE {}
  <2>1. ~Held(e)' => Dates(e)' = {}
    <3>1. (~Held(e) => Dates(e) = {})'
      BY DatedHeld, PTL
    <3> QED
      BY <3>1
  <2> QED
    BY <2>1 DEF Releases
<1> QED
  BY <1>1, <1>2, <1>3 DEF Ledger!KeepDates

\* A report is named and dated alike.
Stamped ==
  /\ \A r \in Reporters : job[r].stamp = job[r].name
  /\ \A n \in DOMAIN files : files[n].whole => files[n].stamp = n

\* Every step keeps names and dates alike.
LEMMA StampedStep ==
  ASSUME TypeOK, Stamped, [Next]_vars
  PROVE  Stamped'
<1> USE DEF Stamped
<1>0. /\ job = [q \in Reporters |-> job[q]] /\ \A q \in Reporters : job[q] \in Jobs
  BY DEF TypeOK
<1>1. CASE Crash \/ TimePasses \/ UNCHANGED vars
  BY <1>1, Idles DEF NoJob
<1>2. ASSUME NEW r \in Reporters, Moves(r) PROVE Stamped'
  <2>1. Elsewhere(r)
    BY <1>2, OneMoves
  <2>2. job'[r].stamp = job'[r].name
    <3>1. job'[r] = NoJob => job'[r].stamp = job'[r].name
      BY DEF NoJob
    <3>2. ASSUME NEW n \in listing[r], DiscardReport(r, n) \/ RetryReport(r, n)
          PROVE  job'[r].stamp = job'[r].name
      BY <1>0, <3>2 DEF DiscardReport, RetryReport, Readable, Load
    <3>3. CASE Flush(r)
      BY <1>0, <3>3 DEF Flush, NoJob
    <3>4. CASE NotSent(r) \/ Accepted(r) \/ Rejected(r) \/ Wake(r)
      BY <1>0, <3>1, <3>4 DEF NotSent, Accepted, Rejected, Wake, Jobs
    <3>5. CASE OpenReport(r)
      <4>1. Target(job[r]).stamp = Target(job[r]).name
        <5>1. CASE job[r].kind = "usage"
          BY <1>0, <5>1 DEF Target, Jobs
        <5>2. CASE job[r].kind # "usage"
          BY <5>2 DEF Target
        <5> QED
          BY <5>1, <5>2
      <4>2. job'[r] \in {NoJob, Target(job[r])}
        BY <1>0, <3>5 DEF OpenReport
      <4> QED
        BY <3>1, <4>1, <4>2
    <3>6. CASE RemoveReport(r) \/ WriteReport(r)
      BY <1>0, <3>1, <3>6 DEF RemoveReport, WriteReport
    <3>7. CASE job'[r] = job[r]
      BY <3>7
    <3> QED
      BY <1>2, <3>2, <3>3, <3>4, <3>5, <3>6, <3>7
         DEF Moves, Loop, Start, Stop, ExitLoop, Record, FlushNothing, Scan, EndScan, SkipReport
  <2>3. ASSUME NEW n \in DOMAIN files', files'[n].whole PROVE files'[n].stamp = n
    <3>1. CASE files' = files
      BY <2>3, <3>1
    <3>2. CASE RemoveReport(r)
      BY <2>3, <3>2, EraseAt DEF RemoveReport
    <3>3. CASE OpenReport(r)
      BY <2>3, <3>3, PutEither DEF OpenReport, Torn
    <3>4. ASSUME NEW x, files' = Put(files, job[r].name, x), x \in {Torn, ReportOf(job[r])}
          PROVE  files'[n].stamp = n
      <4>1. CASE n = job[r].name
        <5>1. files'[n] = x
          BY <3>4, <4>1, PutAt
        <5> QED
          BY <2>3, <3>4, <4>1, <5>1 DEF Torn, ReportOf
      <4>2. CASE n # job[r].name
        <5>1. /\ DOMAIN files' = DOMAIN files \cup {job[r].name}
              /\ \A m \in DOMAIN files : m # job[r].name => files'[m] = files[m]
          BY <3>4, PutAt
        <5> QED
          BY <2>3, <4>2, <5>1
      <4> QED
        BY <4>1, <4>2
    <3>5. CASE WriteReport(r)
      BY <2>3, <3>1, <3>4, <3>5 DEF WriteReport
    <3> QED
      BY <1>2, <3>1, <3>2, <3>3, <3>5
      DEF Moves, Start, Stop, ExitLoop, Record, Loop, Flush, FlushNothing, Scan, EndScan,
          SkipReport, DiscardReport, RetryReport, NotSent, Accepted, Rejected, Wake, Visit
  <2> QED
    BY <2>1, <2>2, <2>3 DEF Elsewhere
<1> QED
  BY <1>1, <1>2 DEF Next, Moves

\* What a reporter that cannot send is about to persist was submitted in vain.
MuteCounted ==
  \A r \in Reporters :
    ~parses[r] /\ pc[r] = "open" => \A e \in job[r].recs : unsent[e] > 0

\* Every step keeps the submissions that could not be sent counted.
LEMMA MuteStep ==
  ASSUME TypeOK, MuteCounted, [Next]_vars
  PROVE  MuteCounted'
<1> USE DEF MuteCounted
<1>0. /\ pc = [q \in Reporters |-> pc[q]] /\ job = [q \in Reporters |-> job[q]]
      /\ parses = [q \in Reporters |-> parses[q]]
      /\ \A q \in Reporters : job[q] \in Jobs /\ job[q].recs \in SUBSET Events
      /\ \A e \in Events : unsent[e] \in Nat
  BY DEF TypeOK, Jobs
<1>1. CASE Crash \/ TimePasses \/ UNCHANGED vars
  BY <1>1 DEF Crash, TimePasses, vars, ledger
<1>2. ASSUME NEW r \in Reporters, Moves(r) PROVE MuteCounted'
  <2>1. /\ Elsewhere(r)
        /\ \A q \in Reporters \ {r} : parses'[q] = parses[q]
    <3>1. parses' = parses \/ \E b \in BOOLEAN : parses' = [parses EXCEPT ![r] = b]
      BY <1>2 DEF Moves, Loop, Start, Stop, ExitLoop, Record, Flush, FlushNothing, Scan, EndScan,
           SkipReport, DiscardReport, RetryReport, RemoveReport, NotSent, Accepted, Rejected,
           Wake, OpenReport, WriteReport, Visit
    <3> QED
      BY <1>0, <1>2, <3>1, OneMoves
  <2>2. CASE NotSent(r)
    <3>1. unsent' = Add(unsent, job[r].recs) /\ job'[r].recs = job[r].recs
      BY <1>0, <2>2 DEF NotSent, Jobs
    <3>2. \A e \in Events : unsent'[e] >= unsent[e] /\ (e \in job[r].recs => unsent'[e] > 0)
      BY <1>0, <3>1 DEF Add
    <3>3. \A q \in Reporters : \A e \in job[q].recs : e \in Events /\ unsent[e] \in Nat /\ unsent'[e] \in Nat
      BY <1>0, <3>1 DEF Add
    <3> QED
      BY <2>1, <3>1, <3>2, <3>3 DEF Elsewhere
  <2>3. CASE ~NotSent(r)
    <3>1. unsent' = unsent
      BY <1>2, <2>3 DEF Moves, Loop, Start, Stop, ExitLoop, Record, Flush, FlushNothing, Scan,
         EndScan, SkipReport, DiscardReport, RetryReport, RemoveReport, Accepted, Rejected,
         Wake, OpenReport, WriteReport, Visit, ledger
    <3>2. ~parses'[r] => pc'[r] # "open"
             \/ (~parses[r] /\ pc[r] = "open" /\ job'[r] = job[r])
      <4>1. CASE Start(r) \/ Stop(r) \/ ExitLoop(r) \/ \E e \in Events : Record(r, e)
        BY <1>0, <4>1 DEF Start, Stop, ExitLoop, Record, Goto
      <4>2. CASE Flush(r) \/ FlushNothing(r) \/ Scan(r) \/ EndScan(r) \/ RemoveReport(r)
        BY <1>0, <4>2 DEF Flush, FlushNothing, Scan, EndScan, RemoveReport, Goto
      <4>3. ASSUME NEW n \in listing[r], SkipReport(r, n) \/ DiscardReport(r, n) \/ RetryReport(r, n)
            PROVE  pc'[r] # "open"
        BY <1>0, <4>3 DEF SkipReport, DiscardReport, RetryReport, Goto
      <4>4. CASE Accepted(r) \/ Rejected(r) \/ Wake(r) \/ OpenReport(r) \/ WriteReport(r)
        BY <1>0, <4>4 DEF Accepted, Rejected, Wake, OpenReport, WriteReport, Goto, After
      <4> QED
        BY <1>2, <2>3, <4>1, <4>2, <4>3, <4>4 DEF Moves, Loop
    <3> QED
      BY <2>1, <3>1, <3>2 DEF Elsewhere
  <2> QED
    BY <2>2, <2>3
<1> QED
  BY <1>1, <1>2 DEF Next, Moves

\* A step of the ledger with a batch of what is owed.
LEMMA LedgerTakes ==
  ASSUME NEW S \in SUBSET {e \in Events : Held(e)},
         \/ Ledger!Refuse(S) \/ Ledger!Misdirect(S) \/ Ledger!Apply(S) \/ Ledger!ApplyUnseen(S)
         \/ Ledger!Persist(S) \/ Ledger!Settle(S) \/ Ledger!GiveUp(S) \/ Ledger!End(S) \/ Ledger!Mishap(S)
  PROVE  Ledger!Next
  BY DEF Ledger!Next

\* A failure may cost events, and brings none back.
LEMMA LedgerMishap ==
  ASSUME NEW S, Releases(S), UNCHANGED <<recorded, posts, unsent, billed, clock>>,
         Ended' \subseteq Ended, Mishaps' = Mishaps + 1
  PROVE  Ledger!Next
<1>1. Ledger!Mishap(S)
  BY LedgerLeaves DEF Ledger!Mishap, Ended, Mishaps
<1> QED
  BY <1>1, LedgerLeaves, LedgerTakes

\* Steps that leave the directory and the batch in hand as they are.
LEMMA IdleStill ==
  ASSUME NEW r0, Reporters = {r0}, files' = files,
         \/ job' = job /\ (pc'[r0] = "write" <=> pc[r0] = "write")
         \/ job[r0].recs = {} /\ job'[r0].recs = {},
         acc'[r0] = acc[r0], pc'[r0] = "stopped" <=> pc[r0] = "stopped"
  PROVE  \A e \in Events : Still(e)
<1>1. ASSUME NEW e \in Events PROVE Still(e)
  BY LoneHeld, LoneHeldNext, DiskStill DEF Still, Dated
<1> QED
  BY <1>1

\* The copies of an event on disk are the same, with the same dates.
LEMMA SameCopies ==
  ASSUME NEW e,
         \A n \in DOMAIN files' : OnDisk(n, e)' =>
           n \in DOMAIN files /\ OnDisk(n, e) /\ files'[n].stamp = files[n].stamp,
         \A n \in DOMAIN files : OnDisk(n, e) =>
           n \in DOMAIN files' /\ OnDisk(n, e)' /\ files'[n].stamp = files[n].stamp
  PROVE  /\ FileDates(e)' = FileDates(e)
         /\ (\E n \in DOMAIN files' : OnDisk(n, e)') <=> (\E n \in DOMAIN files : OnDisk(n, e))
  BY DEF FileDates

\* An event in hand is on disk at most in the report in hand, under the same date.
LEMMA HandDisk ==
  ASSUME NEW r0, Reporters = {r0}, TypeOK, InStep(r0), Counts(r0), OnePlace,
         NEW e, e \in job[r0].recs
  PROVE  /\ \A n \in DOMAIN files : e \in files[n].recs => job[r0].kind # "usage" /\ job[r0].name = n
         /\ FileDates(e) \subseteq {job[r0].stamp}
         /\ \A n \in DOMAIN files : OnDisk(n, e) =>
              /\ FileDates(e) = {job[r0].stamp} /\ Dated(r0)
              /\ Dates(e) = {job[r0].stamp} /\ pc[r0] # "write"
<1>1. \A n \in DOMAIN files : e \in files[n].recs => job[r0].kind # "usage" /\ job[r0].name = n
  BY DEF OnePlace
<1>2. ASSUME NEW n \in DOMAIN files, OnDisk(n, e)
      PROVE  files[n].stamp = job[r0].stamp /\ job[r0].kind # "usage" /\ pc[r0] # "write"
  <2>1. job[r0].kind # "usage" /\ job[r0].name = n /\ files[n].whole
    BY <1>1, <1>2 DEF OnDisk
  <2>2. pc[r0] \in PCs
    BY DEF TypeOK
  <2>3. pc[r0] \in {"post", "sleep", "open", "remove"}
    BY <2>1, <2>2 DEF InStep, PCs
  <2> QED
    BY <2>1, <2>3 DEF Counts
<1>3. FileDates(e) \subseteq {job[r0].stamp}
  BY <1>2 DEF FileDates
<1>4. ASSUME NEW n \in DOMAIN files, OnDisk(n, e)
      PROVE  /\ FileDates(e) = {job[r0].stamp} /\ Dated(r0)
             /\ Dates(e) = {job[r0].stamp} /\ pc[r0] # "write"
  <2>1. files[n].stamp \in FileDates(e)
    BY <1>4 DEF FileDates
  <2>2. FileDates(e) = {job[r0].stamp}
    BY <1>2, <1>3, <1>4, <2>1
  <2>3. Dated(r0) /\ pc[r0] # "write"
    BY <1>2, <1>4 DEF Dated
  <2>4. Dates(e) = {job[r0].stamp}
    BY <2>2, <2>3, LoneHeld
  <2> QED
    BY <2>2, <2>3, <2>4
<1> QED
  BY <1>1, <1>3, <1>4

\* Letting go of the batch in hand, the disk as it is: what else is owed keeps its date.
LEMMA HandDropped ==
  ASSUME NEW r0, Reporters = {r0}, TypeOK, InStep(r0), Counts(r0), OnePlace,
         files' = files, job'[r0].recs = {}, acc'[r0] = {} \/ acc'[r0] = acc[r0],
         pc'[r0] = "stopped" => pc[r0] = "stopped", pc[r0] = "stopped" => acc'[r0] = {} \/ pc'[r0] = "stopped",
         NEW e \in Events
  PROVE  /\ Held(e)' => Held(e) /\ Dates(e)' = Dates(e)
         /\ acc'[r0] = acc[r0] /\ e \notin job[r0].recs => Still(e)
<1>1. /\ Held(e)' <=> (pc'[r0] # "stopped" /\ e \in acc'[r0]) \/ \E n \in DOMAIN files : OnDisk(n, e)
      /\ Dates(e)' = FileDates(e)
  BY LoneHeldNext, DiskStill
<1>2. CASE e \in job[r0].recs
  <2>1. e \notin acc[r0]
    BY <1>2 DEF OnePlace
  <2>2. Held(e)' => \E n \in DOMAIN files : OnDisk(n, e)
    BY <1>1, <2>1
  <2> QED
    BY <1>1, <1>2, <2>2, HandDisk, LoneHeld
<1>3. CASE e \notin job[r0].recs
  <2>1. Dates(e) = FileDates(e)
    BY <1>3, LoneHeld
  <2> QED
    BY <1>1, <1>3, <2>1, LoneHeld DEF Still
<1> QED
  BY <1>2, <1>3

\* Every step of a lone reporter is a step of the ledger, or unseen by it.
LEMMA LedgerStep ==
  ASSUME NEW r0, Reporters = {r0}, TypeOK, NamesPast, JobKind, InStep(r0), Counts(r0),
         OnePlace, Known, BillInv, Stamped, MuteCounted, \A e \in Events : Tried(r0, e),
         [Next]_vars
  PROVE  [Ledger!Next]_(Ledger!vars)
<1>0. /\ pc = [r \in Reporters |-> pc[r]] /\ job = [r \in Reporters |-> job[r]]
      /\ acc = [r \in Reporters |-> acc[r]]
      /\ job[r0] \in Jobs /\ acc[r0] \subseteq Events
      /\ MaxRetries \in Nat /\ MaxRetries >= 2 /\ MaxAge \in Nat
      /\ crashes \in Nat /\ faults \in Nat /\ unclear \in Nat /\ clock \in Nat
      /\ posts \in [Events -> Nat] /\ billed \in [Events -> Nat] /\ unsent \in [Events -> Nat]
      /\ \A e \in Events : Spent(e) \in Nat
      /\ \A n \in DOMAIN files : files[n].retries \in Nat
      /\ job[r0].retries \in Nat /\ job[r0].attempt \in Nat /\ job[r0].recs \subseteq Events
  BY RetriesAssumption, AgeAssumption, SpentChanges DEF TypeOK, Reports, Jobs
<1>a. UNCHANGED failures => Mishaps' = Mishaps
  BY DEF failures, Mishaps
<1>b. DiskFault => Mishaps' = Mishaps + 1
  BY <1>0 DEF DiskFault, Mishaps
<1>d. (pc'[r0] = "stopped" <=> pc[r0] = "stopped") => Ended' = Ended
  BY DEF Ended
<1>e. Releases({}) <=> \A e \in Events : /\ Held(e)' <=> Held(e)
                                         /\ Held(e) => Dates(e)' = Dates(e)
  BY DEF Releases
<1>1. CASE UNCHANGED vars
  <2>1. \A e \in Events : Still(e)
    BY <1>1, IdleStill DEF vars
  <2> QED
    BY <1>1, <1>a, <1>d, <2>1, LedgerStutters DEF vars, failures
<1>2. CASE Start(r0) \/ Stop(r0) \/ FlushNothing(r0) \/ EndScan(r0)
  <2>1. \A e \in Events : Still(e)
    BY <1>0, <1>2, IdleStill DEF Start, Stop, FlushNothing, EndScan, Goto
  <2>2. pc'[r0] = "stopped" <=> pc[r0] = "stopped"
    BY <1>0, <1>2 DEF Start, Stop, FlushNothing, EndScan, Goto
  <2> QED
    BY <1>2, <1>a, <1>d, <2>1, <2>2, LedgerStutters
       DEF Start, Stop, FlushNothing, EndScan, ledger
<1>3. CASE Scan(r0) \/ \E n \in listing[r0] : SkipReport(r0, n)
  <2>1. \A e \in Events : Still(e)
    BY <1>0, <1>3, IdleStill DEF Scan, SkipReport, Visit, Goto
  <2>2. /\ pc'[r0] = "stopped" <=> pc[r0] = "stopped"
        /\ UNCHANGED <<recorded, posts, unsent, billed, clock>>
    BY <1>0, <1>3 DEF Scan, SkipReport, Visit, Goto, ledger
  <2>3. CASE UNCHANGED failures
    BY <1>a, <1>d, <2>1, <2>2, <2>3, LedgerStutters
  <2>4. CASE DiskFault
    <3>1. Releases({})
      BY <1>e, <2>1 DEF Still
    <3> QED
      BY <1>b, <1>d, <2>2, <2>4, <3>1, LedgerMishap
  <2> QED
    BY <1>3, <2>3, <2>4 DEF Scan, SkipReport
<1>4. CASE ExitLoop(r0)
  <2>0. /\ pc[r0] = "idle" /\ pc'[r0] = "stopped" /\ acc' = acc /\ job' = job /\ files' = files
        /\ UNCHANGED <<recorded, posts, unsent, billed, clock>> /\ Mishaps' = Mishaps
    BY <1>0, <1>4, <1>a DEF ExitLoop, Goto, ledger
  <2>a. PICK S : S = {e \in Events : Held(e) /\ ~Held(e)'}
    OBVIOUS
  <2>1. ASSUME NEW e \in Events
        PROVE  /\ Held(e)' => Held(e) /\ Dates(e)' = Dates(e)
               /\ e \in S => e \in acc[r0]
    BY <2>0, <2>a, LoneHeld, LoneHeldNext, DiskStill DEF Dated
  <2>2. Releases(S)
    BY <2>1, <2>a DEF Releases
  <2>3. \A e \in S : posts[e] = 0
    <3>1. \A e \in S : e \in Events /\ Spent(e) = 0
      BY <2>1, <2>a DEF Tried
    <3>2. \A e \in S : posts[e] \in Nat /\ unsent[e] \in Nat /\ MaxRetries * unsent[e] \in Nat
      BY <1>0, <3>1
    <3> QED
      BY <3>1, <3>2 DEF Spent
  <2>4. Ended \subseteq Ended' /\ Ended' # Ended
    BY <2>0 DEF Ended
  <2>5. S \in SUBSET {e \in Events : Held(e)} /\ Ledger!End(S)
    BY <2>0, <2>2, <2>3, <2>4, LedgerLeaves DEF Ledger!End, Ledger!Leave, Ended, Mishaps
  <2>6. Ledger!Next
    BY <2>5, LedgerTakes
  <2> QED
    BY <2>6
<1>5. ASSUME NEW f \in Events, Record(r0, f) PROVE Ledger!Next
  <2>0. /\ acc'[r0] = acc[r0] \cup {f} /\ f \notin recorded /\ recorded' = recorded \cup {f}
        /\ job' = job /\ files' = files /\ pc' = pc
        /\ UNCHANGED <<posts, unsent, billed, clock>> /\ Mishaps' = Mishaps /\ Ended' = Ended
    BY <1>0, <1>5, <1>a, <1>d DEF Record
  <2>1. ASSUME NEW e \in Events
        PROVE  /\ Held(e)' <=> Held(e) \/ (e = f /\ pc[r0] # "stopped")
               /\ Dates(e)' = Dates(e)
    <3>1. Dated(r0)' <=> Dated(r0)
      BY <2>0 DEF Dated
    <3>2. Held(e)' <=> Held(e) \/ (e = f /\ pc[r0] # "stopped")
      BY <2>0, LoneHeld, LoneHeldNext, DiskStill
    <3>3. Dates(e)' = Dates(e)
      BY <2>0, <3>1, LoneHeld, LoneHeldNext, DiskStill
    <3> QED
      BY <3>2, <3>3
  <2>2. {e \in Events : Held(e)}' \in {{e \in Events : Held(e)}, {e \in Events : Held(e)} \cup {f}}
    <3>1. CASE pc[r0] = "stopped"
      BY <2>1, <3>1
    <3>2. CASE pc[r0] # "stopped"
      BY <2>1, <3>2
    <3> QED
      BY <3>1, <3>2
  <2>3. [e \in Events |-> Dates(e)]' = [e \in Events |-> Dates(e)]
    BY <2>1
  <2>4. Ledger!Record(f)
    BY <2>0, <2>2, <2>3 DEF Ledger!Record, Ended, Mishaps
  <2> QED
    BY <2>4 DEF Ledger!Next
<1>6. CASE Flush(r0)
  <2>0. /\ pc[r0] = "idle" /\ pc'[r0] = "post" /\ acc'[r0] = {} /\ job'[r0].recs = acc[r0]
        /\ job'[r0].kind = "usage" /\ files' = files /\ job[r0].recs = {}
        /\ UNCHANGED <<recorded, posts, unsent, billed, clock>> /\ Mishaps' = Mishaps
    BY <1>0, <1>6, <1>a DEF Flush, Goto, NoJob, ledger, InStep
  <2>1. \A e \in Events : Still(e)
    <3>1. ASSUME NEW e \in Events PROVE Still(e)
      BY <2>0, LoneHeld, LoneHeldNext, DiskStill DEF Still, Dated
    <3> QED
      BY <3>1
  <2> QED
    BY <1>d, <2>0, <2>1, LedgerStutters
<1>7. ASSUME NEW n \in listing[r0], DiscardReport(r0, n) \/ RetryReport(r0, n)
      PROVE  UNCHANGED Ledger!vars
  <2>0. /\ pc[r0] = "next" /\ pc'[r0] \in {"remove", "post"} /\ acc' = acc
        /\ job'[r0].recs = files[n].recs /\ job'[r0].stamp = files[n].stamp
        /\ job'[r0].kind # "usage" /\ n \in DOMAIN files /\ files[n].whole /\ files' = files /\ job[r0].recs = {}
        /\ UNCHANGED <<recorded, posts, unsent, billed, clock>> /\ Mishaps' = Mishaps
    BY <1>0, <1>7, <1>a DEF DiscardReport, RetryReport, Visit, Readable, Goto, Load, ledger, InStep
  <2>1. \A e \in Events : Still(e)
    <3>1. ASSUME NEW e \in Events PROVE Still(e)
      <4>1. e \in files[n].recs => OnDisk(n, e) /\ files[n].stamp \in FileDates(e)
        BY <2>0 DEF OnDisk, FileDates
      <4>2. Dated(r0)'
        BY <2>0 DEF Dated
      <4>3. Held(e)' <=> Held(e)
        BY <2>0, <4>1, LoneHeld, LoneHeldNext, DiskStill
      <4>a. Dates(e) = FileDates(e)
        BY <2>0, LoneHeld
      <4>b. Dates(e)' = FileDates(e) \cup
                          (IF e \in files[n].recs THEN {files[n].stamp} ELSE {})
        BY <2>0, <4>2, LoneHeldNext, DiskStill
      <4>4. Dates(e)' = Dates(e)
        BY <4>1, <4>a, <4>b
      <4> QED
        BY <4>3, <4>4 DEF Still
    <3> QED
      BY <3>1
  <2> QED
    BY <1>d, <2>0, <2>1, LedgerStutters
<1>8. CASE RemoveReport(r0)
  <2>0. /\ pc[r0] = "remove" /\ pc'[r0] = "next" /\ job'[r0].recs = {} /\ acc' = acc
        /\ UNCHANGED <<recorded, posts, unsent, billed, clock>>
        /\ job[r0].name \in DOMAIN files /\ files[job[r0].name].whole
        /\ files[job[r0].name].recs = job[r0].recs /\ job[r0].kind \in {"file", "discard"}
    BY <1>0, <1>8 DEF RemoveReport, Goto, NoJob, ledger, InStep
  <2>1. CASE files' = Erase(files, job[r0].name) /\ UNCHANGED failures
    <3>0. /\ DOMAIN files' = DOMAIN files \ {job[r0].name}
          /\ \A m \in DOMAIN files' : files'[m] = files[m]
      BY <2>1, EraseAt
    <3>1. PICK S : S = {e \in Events : Held(e) /\ ~Held(e)'}
      OBVIOUS
    <3>2. ASSUME NEW e \in Events, e \notin job[r0].recs PROVE Still(e)
      <4>1. /\ FileDates(e)' = FileDates(e)
            /\ (\E n \in DOMAIN files' : OnDisk(n, e)') <=> (\E n \in DOMAIN files : OnDisk(n, e))
        BY <2>0, <3>0, <3>2, SameCopies DEF OnDisk
      <4> QED
        BY <2>0, <3>2, <4>1, LoneHeld, LoneHeldNext DEF Still
    <3>3. ASSUME NEW e \in job[r0].recs PROVE ~Held(e)'
      <4>1. e \notin acc[r0] /\ \A n \in DOMAIN files' : e \notin files'[n].recs
        BY <3>0, <3>3 DEF OnePlace
      <4> QED
        BY <2>0, <4>1, LoneHeldNext DEF OnDisk
    <3>4. Releases(S)
      BY <3>1, <3>2, <3>3 DEF Releases, Still
    <3>5. \A e \in S : e \in job[r0].recs
      BY <3>1, <3>2 DEF Still
    <3>6. S \in SUBSET {e \in Events : Held(e)} /\ Ledger!Leave(S)
      BY <1>a, <2>0, <2>1, <3>4, LedgerLeaves DEF Ledger!Leave, Mishaps
    <3>7. Ended' = Ended
      BY <1>d, <2>0
    <3>8. CASE job[r0].kind = "file"
      <4>1. \A e \in S : billed[e] > 0
        BY <2>0, <3>5, <3>8 DEF InStep
      <4>2. Ledger!Settle(S)
        BY <3>6, <3>7, <4>1 DEF Ledger!Settle, Ended
      <4>3. Ledger!Next
        BY <3>6, <4>2, LedgerTakes
      <4> QED
        BY <4>3
    <3>9. CASE job[r0].kind = "discard"
      <4>1. ASSUME NEW e \in S
            PROVE  posts[e] + MaxRetries * unsent[e] >= MaxRetries * (MaxRetries + 1) \/ \E d \in Dates(e) : clock - d > MaxAge
        <5>1. e \in Events /\ e \in job[r0].recs
          BY <3>5, <4>1, <1>0
        <5>2. CASE job[r0].retries >= MaxRetries
          <6>1. Rounds(MaxRetries) <= Rounds(job[r0].retries)
            BY <1>0, <5>2, RoundsGrow
          <6>2. Spent(e) >= Rounds(job[r0].retries)
            BY <2>0, <5>1 DEF Tried
          <6>3. Rounds(job[r0].retries) \in Nat /\ Rounds(MaxRetries) \in Nat /\ Spent(e) \in Nat
            BY <1>0, <5>1, RoundsGrow
          <6>4. Rounds(MaxRetries) = MaxRetries * (MaxRetries + 1)
            BY DEF Rounds
          <6>5. Spent(e) >= Rounds(MaxRetries)
            BY <6>1, <6>2, <6>3
          <6> QED
            BY <6>4, <6>5 DEF Spent
        <5>3. CASE clock - job[r0].stamp > MaxAge
          <6>1. OnDisk(job[r0].name, e)
            BY <2>0, <5>1 DEF OnDisk
          <6>2. Dates(e) = {job[r0].stamp}
            BY <2>0, <5>1, <6>1, HandDisk
          <6> QED
            BY <5>3, <6>2
        <5> QED
          BY <2>0, <3>9, <5>2, <5>3 DEF Counts
      <4>2. Ledger!GiveUp(S)
        <5>1. \A e \in S : e \in Events
          BY <3>5, <1>0
        <5> QED
          BY <3>6, <3>7, <4>1, <5>1 DEF Ledger!GiveUp, Ended
      <4>3. Ledger!Next
        BY <3>6, <4>2, LedgerTakes
      <4> QED
        BY <4>3
    <3> QED
      BY <2>0, <3>8, <3>9
  <2>2. CASE files' = files /\ DiskFault
    <3>1. \A e \in Events : (Held(e)' <=> Held(e)) /\ (Held(e) => Dates(e)' = Dates(e))
      <4>1. ASSUME NEW e \in Events
            PROVE  (Held(e)' <=> Held(e)) /\ (Held(e) => Dates(e)' = Dates(e))
        <5>1. CASE e \in job[r0].recs
          <6>1. OnDisk(job[r0].name, e)
            BY <2>0, <5>1 DEF OnDisk
          <6>2. Held(e) /\ Held(e)'
            BY <2>0, <2>2, <6>1, LoneHeld, LoneHeldNext, DiskStill
          <6> QED
            BY <2>0, <2>2, <6>2, HandDropped
        <5>2. CASE e \notin job[r0].recs
          BY <2>0, <2>2, <5>2, HandDropped DEF Still
        <5> QED
          BY <5>1, <5>2
      <4> QED
        BY <4>1
    <3>2. Releases({})
      BY <1>e, <3>1
    <3>3. Ledger!Next
      BY <1>b, <1>d, <2>0, <2>2, <3>2, LedgerMishap
    <3> QED
      BY <3>3
  <2> QED
    BY <1>8, <2>1, <2>2 DEF RemoveReport
\* What is in hand at a submission has been applied no more often than failures explain.
<1>9. pc[r0] = "post" => \A e \in job[r0].recs : billed[e] <= Mishaps /\ e \in Events
  <2>1. ASSUME NEW e \in job[r0].recs, pc[r0] = "post" PROVE billed[e] <= Mishaps /\ e \in Events
    <3>1. e \in Events /\ Kept(e) /\ ~Sent(e)
      BY <1>0, <2>1 DEF Kept, Sent
    <3> QED
      BY <3>1 DEF BillInv
  <2> QED
    BY <2>1
<1>10. CASE Accepted(r0)
  <2>0. /\ pc[r0] = "post" /\ files' = files /\ acc' = acc
        /\ posts' = Add(posts, job[r0].recs) /\ billed' = Add(billed, job[r0].recs)
        /\ UNCHANGED <<recorded, unsent, clock>> /\ Mishaps' = Mishaps
        /\ pc'[r0] \in {"scan", "remove"}
    BY <1>0, <1>10, <1>a DEF Accepted
  <2>1. PICK S : S = job[r0].recs
    OBVIOUS
  <2>2. S \in SUBSET {e \in Events : Held(e)}
    <3>1. \A e \in S : e \in Events /\ Held(e)
      BY <1>0, <2>1, LoneHeld
    <3> QED
      BY <3>1
  <2>3. /\ posts' = Ledger!OneMore(posts, S) /\ billed' = Ledger!OneMore(billed, S)
        /\ \A e \in S : billed[e] <= Mishaps /\ e \in Events
    BY <1>9, <2>0, <2>1 DEF Ledger!OneMore, Add
  <2>4. CASE job[r0].kind = "usage"
    <3>0. job'[r0].recs = {} /\ pc'[r0] = "scan"
      BY <1>0, <1>10, <2>4 DEF Accepted, NoJob
    <3>1. ASSUME NEW e \in Events
          PROVE  /\ e \in S => Held(e) /\ ~Held(e)'
                 /\ e \notin S => Still(e)
      <4>1. CASE e \in S
        <5>1. e \notin acc[r0] /\ \A n \in DOMAIN files : e \notin files[n].recs
          BY <2>1, <2>4, <4>1 DEF OnePlace
        <5> QED
          BY <2>0, <2>1, <3>0, <4>1, <5>1, LoneHeld, LoneHeldNext DEF OnDisk
      <4>2. CASE e \notin S
        BY <2>0, <2>1, <3>0, <4>2, HandDropped
      <4> QED
        BY <4>1, <4>2
    <3>2. Releases(S)
      <4>1. \A e \in S : e \in Events
        BY <2>2
      <4> QED
        BY <3>1, <4>1 DEF Releases, Still
    <3>3. Ledger!Apply(S)
      BY <1>d, <2>0, <2>2, <2>3, <3>0, <3>2, LedgerLeaves DEF Ledger!Apply, Ended, Mishaps
    <3>4. Ledger!Next
      BY <2>2, <3>3, LedgerTakes
    <3> QED
      BY <3>4
  <2>5. CASE job[r0].kind # "usage"
    <3>0. job' = job /\ pc'[r0] = "remove"
      BY <1>0, <1>10, <2>5 DEF Accepted
    <3>1. \A e \in Events : Still(e)
      BY <2>0, <3>0, IdleStill
    <3>2. Releases({})
      BY <1>e, <3>1 DEF Still
    <3>3. Ledger!Apply(S)
      BY <1>d, <2>0, <2>2, <2>3, <3>0, <3>2, LedgerLeaves DEF Ledger!Apply, Ended, Mishaps
    <3>4. Ledger!Next
      BY <2>2, <3>3, LedgerTakes
    <3> QED
      BY <3>4
  <2> QED
    BY <2>4, <2>5
<1>11. CASE Rejected(r0)
  <2>0. /\ pc[r0] = "post" /\ pc'[r0] \in {"sleep", "open"} /\ files' = files /\ acc' = acc
        /\ posts' = Add(posts, job[r0].recs) /\ UNCHANGED <<recorded, unsent, clock>>
        /\ job'[r0].recs = job[r0].recs /\ job'[r0].kind = job[r0].kind
        /\ job'[r0].stamp = job[r0].stamp
    BY <1>0, <1>11 DEF Rejected, Jobs
  <2>1. PICK S : S = job[r0].recs
    OBVIOUS
  <2>2. S \in SUBSET {e \in Events : Held(e)}
    <3>1. \A e \in S : e \in Events /\ Held(e)
      BY <1>0, <2>1, LoneHeld
    <3> QED
      BY <3>1
  <2>3. \A e \in Events : Still(e)
    <3>1. ASSUME NEW e \in Events PROVE Still(e)
      <4>1. Dated(r0)' <=> Dated(r0)
        BY <2>0 DEF Dated
      <4>2. Held(e)' <=> Held(e)
        BY <2>0, LoneHeld, LoneHeldNext, DiskStill
      <4>3. Dates(e)' = Dates(e)
        BY <2>0, <4>1, LoneHeld, LoneHeldNext, DiskStill
      <4> QED
        BY <4>2, <4>3 DEF Still
    <3> QED
      BY <3>1
  <2>4. /\ {e \in Events : Held(e)}' = {e \in Events : Held(e)}
        /\ [e \in Events |-> Dates(e)]' = [e \in Events |-> Dates(e)]
        /\ Ended' = Ended
    BY <1>d, <2>0, <2>3 DEF Still
  <2>5. posts' = Ledger!OneMore(posts, S)
    BY <2>0, <2>1 DEF Ledger!OneMore, Add
  <2>6. CASE UNCHANGED <<billed, failures>>
    <3>1. Ledger!Refuse(S)
      BY <1>a, <2>0, <2>2, <2>4, <2>5, <2>6 DEF Ledger!Refuse, Ended, Mishaps
    <3>2. Ledger!Next
      BY <2>2, <3>1, LedgerTakes
    <3> QED
      BY <3>2
  <2>7. CASE /\ unclear' = unclear + 1 /\ UNCHANGED <<crashes, faults>>
             /\ billed' = Add(billed, job[r0].recs)
    <3>1. billed' = Ledger!OneMore(billed, S) /\ \A e \in S : billed[e] <= Mishaps
      BY <1>9, <2>0, <2>1, <2>7 DEF Ledger!OneMore, Add
    <3>2. Mishaps' = Mishaps + 1
      BY <1>0, <2>7 DEF Mishaps
    <3>3. Ledger!ApplyUnseen(S)
      BY <2>0, <2>2, <2>4, <2>5, <3>1, <3>2 DEF Ledger!ApplyUnseen, Ended, Mishaps
    <3>4. Ledger!Next
      BY <2>2, <3>3, LedgerTakes
    <3> QED
      BY <3>4
  <2> QED
    BY <1>11, <2>6, <2>7 DEF Rejected
<1>16. CASE NotSent(r0)
  <2>0. /\ pc[r0] = "post" /\ pc'[r0] = "open" /\ files' = files /\ acc' = acc
        /\ unsent' = Add(unsent, job[r0].recs) /\ UNCHANGED <<recorded, posts, billed, clock>>
        /\ job'[r0].recs = job[r0].recs /\ job'[r0].kind = job[r0].kind
        /\ job'[r0].stamp = job[r0].stamp /\ Mishaps' = Mishaps
    BY <1>0, <1>16, <1>a DEF NotSent, Goto, Jobs
  <2>1. PICK S : S = job[r0].recs
    OBVIOUS
  <2>2. S \in SUBSET {e \in Events : Held(e)}
    <3>1. \A e \in S : e \in Events /\ Held(e)
      BY <1>0, <2>1, LoneHeld
    <3> QED
      BY <3>1
  <2>3. ASSUME NEW e \in Events PROVE Still(e)
    <3>1. Dated(r0)' <=> Dated(r0)
      BY <2>0 DEF Dated
    <3>2. Held(e)' <=> Held(e)
      BY <2>0, LoneHeld, LoneHeldNext, DiskStill
    <3>3. Dates(e)' = Dates(e)
      BY <2>0, <3>1, LoneHeld, LoneHeldNext, DiskStill
    <3> QED
      BY <3>2, <3>3 DEF Still
  <2>4. /\ {e \in Events : Held(e)}' = {e \in Events : Held(e)}
        /\ [e \in Events |-> Dates(e)]' = [e \in Events |-> Dates(e)]
        /\ Ended' = Ended
    BY <1>d, <2>0, <2>3 DEF Still
  <2>5. unsent' = Ledger!OneMore(unsent, S)
    BY <2>0, <2>1 DEF Ledger!OneMore, Add
  <2>6. Ledger!Misdirect(S)
    BY <2>0, <2>2, <2>4, <2>5 DEF Ledger!Misdirect, Ended, Mishaps
  <2>7. Ledger!Next
    BY <2>2, <2>6, LedgerTakes
  <2> QED
    BY <2>7
<1>12. CASE Wake(r0) \/ TimePasses
  <2>0. /\ files' = files /\ acc' = acc /\ clock' = clock + 1
        /\ UNCHANGED <<recorded, posts, unsent, billed>> /\ Mishaps' = Mishaps
        /\ job'[r0].recs = job[r0].recs /\ job'[r0].kind = job[r0].kind
        /\ job'[r0].stamp = job[r0].stamp
        /\ pc' = pc \/ (pc[r0] = "sleep" /\ pc'[r0] = "post")
    BY <1>0, <1>12, <1>a DEF Wake, TimePasses, Goto, ledger, Jobs
  <2>1. ASSUME NEW e \in Events PROVE Still(e)
    <3>1. Dated(r0)' <=> Dated(r0)
      BY <2>0 DEF Dated
    <3>2. Held(e)' <=> Held(e)
      BY <2>0, LoneHeld, LoneHeldNext, DiskStill
    <3>3. Dates(e)' = Dates(e)
      BY <2>0, <3>1, LoneHeld, LoneHeldNext, DiskStill
    <3> QED
      BY <3>2, <3>3 DEF Still
  <2>2. /\ {e \in Events : Held(e)}' = {e \in Events : Held(e)}
        /\ [e \in Events |-> Dates(e)]' = [e \in Events |-> Dates(e)]
        /\ Ended' = Ended
    BY <1>d, <2>0, <2>1 DEF Still
  <2>3. Ledger!TimePasses
    BY <2>0, <2>2 DEF Ledger!TimePasses, Ended, Mishaps
  <2> QED
    BY <2>3 DEF Ledger!Next
<1>13. CASE OpenReport(r0)
  <2>0. /\ pc[r0] = "open" /\ acc' = acc /\ UNCHANGED <<recorded, posts, unsent, billed, clock>>
    BY <1>13 DEF OpenReport, ledger
  <2>1. CASE /\ pc' = [pc EXCEPT ![r0] = "write"]
             /\ files' = Put(files, Target(job[r0]).name, Torn)
             /\ job' = [job EXCEPT ![r0] = Target(job[r0])] /\ UNCHANGED failures
             /\ job[r0].kind = "usage" /\ (clock \notin DOMAIN files \/ ~files[clock].whole)
    <3>0. /\ pc'[r0] = "write" /\ job'[r0].recs = job[r0].recs /\ job'[r0].stamp = clock
          /\ files' = Put(files, clock, Torn)
      <4>1. Target(job[r0]).name = clock /\ Target(job[r0]).stamp = clock
            /\ Target(job[r0]).recs = job[r0].recs
        BY <1>0, <2>1 DEF Target, Jobs
      <4>3. job'[r0] = Target(job[r0]) /\ pc'[r0] = "write"
        BY <1>0, <2>1
      <4> QED
        BY <2>1, <4>1, <4>3
    <3>1. PICK S : S = job[r0].recs
      OBVIOUS
    <3>2. S \in SUBSET {e \in Events : Held(e)}
      <4>1. \A e \in S : e \in Events /\ Held(e)
        BY <1>0, <3>1, LoneHeld
      <4> QED
        BY <4>1
    <3>3. ASSUME NEW e \in Events
          PROVE  /\ Held(e)' <=> Held(e)
                 /\ e \in S => Dates(e) = {} /\ Dates(e)' = {clock}
                 /\ e \notin S => Dates(e)' = Dates(e)
      <4>0. /\ DOMAIN files' = DOMAIN files \cup {clock} /\ files'[clock] = Torn
            /\ \A m \in DOMAIN files : m # clock => files'[m] = files[m]
        BY <3>0, PutAt
      <4>1. /\ FileDates(e)' = FileDates(e)
            /\ (\E n \in DOMAIN files' : OnDisk(n, e)') <=> (\E n \in DOMAIN files : OnDisk(n, e))
        BY <2>1, <4>0, SameCopies DEF OnDisk, Torn
      <4>2. Held(e)' <=> Held(e)
        BY <2>0, <3>0, <4>1, LoneHeld, LoneHeldNext
      <4>3. ~Dated(r0) /\ Dated(r0)'
        BY <2>0, <2>1, <3>0 DEF Dated
      <4>4. e \in S => FileDates(e) = {}
        <5>1. e \in S => \A n \in DOMAIN files : e \notin files[n].recs
          BY <2>1, <3>1 DEF OnePlace
        <5> QED
          BY <5>1 DEF FileDates, OnDisk
      <4>5. /\ Dates(e) = FileDates(e)
            /\ Dates(e)' = FileDates(e) \cup (IF e \in S THEN {clock} ELSE {})
        BY <3>0, <3>1, <4>1, <4>3, LoneHeld, LoneHeldNext
      <4> QED
        BY <4>2, <4>4, <4>5
    <3>4. /\ {e \in Events : Held(e)}' = {e \in Events : Held(e)}
          /\ [e \in Events |-> Dates(e)]' =
               [e \in Events |-> IF e \in S THEN {clock} ELSE Dates(e)]
          /\ Ended' = Ended /\ Mishaps' = Mishaps
      BY <1>a, <1>d, <2>0, <2>1, <3>0, <3>3
    <3>5. \A e \in S : e \in Events /\ Dates(e) = {}
      BY <3>2, <3>3
    <3>6. Ledger!Persist(S)
      <4>1. \A e \in S : [f \in Events |-> Dates(f)][e] = {}
        BY <3>5
      <4>2. [e \in Events |-> IF e \in S THEN {clock} ELSE Dates(e)] =
              [e \in Events |-> IF e \in S THEN {clock} ELSE [f \in Events |-> Dates(f)][e]]
        OBVIOUS
      <4> QED
        BY <2>0, <3>2, <3>4, <4>1, <4>2 DEF Ledger!Persist, Ended, Mishaps
    <3>7. Ledger!Next
      BY <3>2, <3>6, LedgerTakes
    <3> QED
      BY <3>7
  <2>4. CASE /\ pc' = [pc EXCEPT ![r0] = "write"]
             /\ files' = Put(files, Target(job[r0]).name, Torn)
             /\ job' = [job EXCEPT ![r0] = Target(job[r0])] /\ UNCHANGED failures
             /\ job[r0].kind = "usage" /\ clock \in DOMAIN files /\ files[clock].whole
    <3>0. /\ pc'[r0] = "write" /\ job'[r0].recs = job[r0].recs /\ job'[r0].stamp = clock
          /\ files' = Put(files, clock, Torn)
      <4>1. Target(job[r0]).name = clock /\ Target(job[r0]).stamp = clock
            /\ Target(job[r0]).recs = job[r0].recs
        BY <1>0, <2>4 DEF Target, Jobs
      <4>2. job'[r0] = Target(job[r0]) /\ pc'[r0] = "write"
        BY <1>0, <2>4
      <4> QED
        BY <2>4, <4>1, <4>2
    <3>m. ~parses[r0]
      <4>1. parses[r0] => \A n \in DOMAIN files : n < clock
        BY <2>0, <2>4 DEF NamesPast, Slept
      <4>2. ~(clock < clock)
        BY <1>0
      <4>3. parses[r0] \in BOOLEAN
        BY DEF TypeOK
      <4> QED
        BY <2>4, <4>1, <4>2, <4>3
    <3>1. PICK B, S : B = job[r0].recs /\ S = files[clock].recs
      OBVIOUS
    <3>2. /\ S \subseteq Events /\ B \subseteq Events
          /\ S \cap B = {} /\ S \cap acc[r0] = {}
          /\ \A n \in DOMAIN files : n # clock => files[n].recs \cap S = {}
          /\ \A n \in DOMAIN files : files[n].recs \cap B = {}
          /\ files[clock].stamp = clock
      <4>1. S \subseteq Events
        BY <2>4, <3>1 DEF TypeOK, Reports
      <4>2. files[clock].stamp = clock
        BY <2>4 DEF Stamped
      <4> QED
        BY <1>0, <2>4, <3>1, <4>1, <4>2 DEF OnePlace
    <3>3. /\ DOMAIN files' = DOMAIN files /\ files'[clock] = Torn
          /\ \A m \in DOMAIN files : m # clock => files'[m] = files[m]
      BY <2>4, <3>0, PutAt
    <3>4. ~Dated(r0) /\ Dated(r0)'
      BY <2>0, <2>4, <3>0 DEF Dated
    <3>5. ASSUME NEW e \in Events
          PROVE  /\ e \in B => Held(e) /\ Held(e)' /\ Dates(e) = {} /\ Dates(e)' = {clock}
                 /\ e \in S => Held(e) /\ ~Held(e)' /\ Dates(e) = {clock} /\ Dates(e)' = {}
                 /\ e \notin B \cup S => Still(e)
      <4>1. CASE e \in B
        <5>1. \A n \in DOMAIN files : ~OnDisk(n, e) /\ ~OnDisk(n, e)'
          BY <3>2, <3>3, <4>1 DEF OnDisk, Torn
        <5>2. FileDates(e) = {} /\ FileDates(e)' = {}
          BY <3>3, <5>1 DEF FileDates
        <5> QED
          BY <3>0, <3>1, <3>2, <3>4, <4>1, <5>2, LoneHeld, LoneHeldNext
      <4>2. CASE e \in S
        <5>1. /\ OnDisk(clock, e)
              /\ \A n \in DOMAIN files : n # clock => ~OnDisk(n, e)
              /\ \A n \in DOMAIN files' : ~OnDisk(n, e)'
          BY <2>4, <3>1, <3>2, <3>3, <4>2 DEF OnDisk, Torn
        <5>2. FileDates(e) = {clock} /\ FileDates(e)' = {}
          BY <2>4, <3>2, <5>1 DEF FileDates
        <5>3. e \notin job[r0].recs /\ e \notin acc[r0] /\ e \notin job'[r0].recs /\ e \notin acc'[r0]
          BY <2>0, <3>0, <3>1, <3>2, <4>2
        <5> QED
          BY <2>4, <3>2, <4>2, <5>1, <5>2, <5>3, LoneHeld, LoneHeldNext
      <4>3. CASE e \notin B \cup S
        <5>1. /\ FileDates(e)' = FileDates(e)
              /\ (\E n \in DOMAIN files' : OnDisk(n, e)') <=> (\E n \in DOMAIN files : OnDisk(n, e))
          BY <2>4, <3>1, <3>3, <4>3, SameCopies DEF OnDisk, Torn
        <5> QED
          BY <2>0, <3>0, <3>1, <4>3, <5>1, LoneHeld, LoneHeldNext DEF Still
      <4> QED
        BY <4>1, <4>2, <4>3
    <3>6. /\ B \in SUBSET {e \in Events : Held(e)} /\ S \in SUBSET {e \in Events : Held(e)}
          /\ S \subseteq {e \in Events : Held(e)} \ B
      BY <3>2, <3>5
    <3>7. {e \in Events : Held(e)}' = {e \in Events : Held(e)} \ S
      BY <3>2, <3>5 DEF Still
    <3>8. [e \in Events |-> Dates(e)]' =
            [e \in Events |-> IF e \in B THEN {clock} ELSE IF e \in S THEN {}
                              ELSE [f \in Events |-> Dates(f)][e]]
      BY <3>2, <3>5 DEF Still
    <3>9. /\ \A e \in B : [f \in Events |-> Dates(f)][e] = {} /\ unsent[e] > 0
          /\ \A e \in S : [f \in Events |-> Dates(f)][e] = {clock}
      BY <2>0, <3>m, <3>1, <3>2, <3>5 DEF MuteCounted
    <3>10. Ended' = Ended /\ Mishaps' = Mishaps
      BY <1>a, <1>d, <2>0, <2>4, <3>0
    <3>11. Ledger!Overwrite(B, S)
      BY <2>0, <3>6, <3>7, <3>8, <3>9, <3>10 DEF Ledger!Overwrite, Ended, Mishaps
    <3>12. Ledger!Next
      BY <3>6, <3>11 DEF Ledger!Next
    <3> QED
      BY <3>12
  <2>2. CASE /\ pc' = [pc EXCEPT ![r0] = "write"]
             /\ files' = Put(files, Target(job[r0]).name, Torn)
             /\ job' = [job EXCEPT ![r0] = Target(job[r0])] /\ UNCHANGED failures
             /\ job[r0].kind # "usage"
    <3>0. /\ pc'[r0] = "write" /\ job'[r0] = job[r0]
          /\ files' = Put(files, job[r0].name, Torn)
      BY <1>0, <2>2 DEF Target
    <3>1. /\ job[r0].name \in DOMAIN files /\ files[job[r0].name].whole
          /\ files[job[r0].name].recs = job[r0].recs
      BY <2>0, <2>2 DEF InStep
    <3>2. /\ DOMAIN files' = DOMAIN files /\ files'[job[r0].name] = Torn
          /\ \A m \in DOMAIN files : m # job[r0].name => files'[m] = files[m]
      <4>1. /\ DOMAIN files' = DOMAIN files \cup {job[r0].name}
            /\ files'[job[r0].name] = Torn
            /\ \A m \in DOMAIN files : m # job[r0].name => files'[m] = files[m]
        BY <3>0, PutAt
      <4> QED
        BY <3>1, <4>1
    <3>3. ASSUME NEW e \in Events PROVE Still(e)
      <4>1. CASE e \in job[r0].recs
        <5>1. OnDisk(job[r0].name, e)
          BY <3>1, <4>1 DEF OnDisk
        <5>2. Dates(e) = {job[r0].stamp}
          BY <3>1, <4>1, <5>1, HandDisk
        <5>3. FileDates(e)' = {}
          <6>1. \A n \in DOMAIN files' : ~OnDisk(n, e)'
            BY <3>2, <4>1, HandDisk DEF OnDisk, Torn
          <6> QED
            BY <6>1 DEF FileDates
        <5>4. Dated(r0)'
          BY <3>0 DEF Dated
        <5>5. Dates(e)' = {job[r0].stamp}
          BY <3>0, <4>1, <5>3, <5>4, LoneHeldNext
        <5> QED
          BY <3>0, <4>1, <5>2, <5>5, LoneHeld, LoneHeldNext DEF Still
      <4>2. CASE e \notin job[r0].recs
        <5>1. /\ FileDates(e)' = FileDates(e)
              /\ (\E n \in DOMAIN files' : OnDisk(n, e)') <=> (\E n \in DOMAIN files : OnDisk(n, e))
          BY <3>1, <3>2, <4>2, SameCopies DEF OnDisk, Torn
        <5> QED
          BY <2>0, <3>0, <4>2, <5>1, LoneHeld, LoneHeldNext DEF Still
      <4> QED
        BY <4>1, <4>2
    <3> QED
      BY <1>a, <1>d, <2>0, <2>2, <3>0, <3>3, LedgerStutters
  <2>3. CASE /\ pc' = [pc EXCEPT ![r0] = After(job[r0])] /\ job' = [job EXCEPT ![r0] = NoJob]
             /\ files' = files /\ DiskFault
    <3>0. pc'[r0] \in {"scan", "next"} /\ job'[r0].recs = {}
      BY <1>0, <2>3 DEF After, NoJob
    <3>1. PICK S : S = {e \in Events : Held(e) /\ ~Held(e)'}
      OBVIOUS
    <3>2. Releases(S)
      BY <2>0, <2>3, <3>0, <3>1, HandDropped DEF Releases
    <3>3. Ledger!Next
      BY <1>b, <1>d, <2>0, <2>3, <3>0, <3>2, LedgerMishap
    <3> QED
      BY <3>3
  <2> QED
    BY <1>13, <2>1, <2>2, <2>3, <2>4 DEF OpenReport
<1>14. CASE WriteReport(r0)
  <2>0. /\ pc[r0] = "write" /\ pc'[r0] \in {"scan", "next"} /\ job'[r0].recs = {}
        /\ acc' = acc /\ UNCHANGED <<recorded, posts, unsent, billed, clock>>
        /\ job[r0].name \in DOMAIN files /\ ~files[job[r0].name].whole /\ ~Detached(r0)
    BY <1>0, <1>14 DEF WriteReport, After, NoJob, ledger, InStep, Detached, Readable
  <2>1. CASE files' = Put(files, job[r0].name, ReportOf(job[r0])) /\ UNCHANGED failures
    <3>1. /\ DOMAIN files' = DOMAIN files /\ files'[job[r0].name] = ReportOf(job[r0])
          /\ \A m \in DOMAIN files : m # job[r0].name => files'[m] = files[m]
      <4>1. /\ DOMAIN files' = DOMAIN files \cup {job[r0].name}
            /\ files'[job[r0].name] = ReportOf(job[r0])
            /\ \A m \in DOMAIN files : m # job[r0].name => files'[m] = files[m]
        BY <2>1, PutAt
      <4> QED
        BY <2>0, <4>1
    <3>a. PICK n0 : n0 = job[r0].name
      OBVIOUS
    <3>2. ASSUME NEW e \in Events PROVE Still(e)
      <4>1. CASE e \in job[r0].recs
        <5>1. Dates(e) = {job[r0].stamp}
          <6>1. Dated(r0) /\ FileDates(e) \subseteq {job[r0].stamp}
            BY <2>0, <4>1, HandDisk DEF Dated
          <6> QED
            BY <4>1, <6>1, LoneHeld
        <5>2. OnDisk(n0, e)' /\ files'[n0].stamp = job[r0].stamp
          BY <2>0, <3>1, <3>a, <4>1 DEF OnDisk, ReportOf
        <5>3. \A n \in DOMAIN files' : OnDisk(n, e)' => n = n0
          BY <3>1, <3>a, <4>1, HandDisk DEF OnDisk
        <5>4. FileDates(e)' = {job[r0].stamp}
          <6>1. n0 \in DOMAIN files'
            BY <2>0, <3>1, <3>a
          <6> QED
            BY <5>2, <5>3, <6>1 DEF FileDates
        <5>5. Dates(e)' = {job[r0].stamp}
          BY <2>0, <5>4, LoneHeldNext
        <5>6. Held(e) /\ Held(e)'
          BY <2>0, <3>1, <3>a, <4>1, <5>2, LoneHeld, LoneHeldNext
        <5> QED
          BY <5>1, <5>5, <5>6 DEF Still
      <4>2. CASE e \notin job[r0].recs
        <5>1. /\ FileDates(e)' = FileDates(e)
              /\ (\E n \in DOMAIN files' : OnDisk(n, e)') <=> (\E n \in DOMAIN files : OnDisk(n, e))
          BY <2>0, <3>1, <4>2, SameCopies DEF OnDisk, ReportOf
        <5> QED
          BY <2>0, <4>2, <5>1, LoneHeld, LoneHeldNext DEF Still
      <4> QED
        BY <4>1, <4>2
    <3> QED
      BY <1>a, <1>d, <2>0, <2>1, <3>2, LedgerStutters
  <2>2. CASE files' = files /\ DiskFault
    <3>1. PICK S : S = {e \in Events : Held(e) /\ ~Held(e)'}
      OBVIOUS
    <3>2. Releases(S)
      BY <2>0, <2>2, <3>1, HandDropped DEF Releases
    <3>3. Ledger!Next
      BY <1>b, <1>d, <2>0, <2>2, <3>2, LedgerMishap
    <3> QED
      BY <3>3
  <2> QED
    BY <1>14, <2>0, <2>1, <2>2 DEF WriteReport, Readable
<1>15. CASE Crash
  <2>0. /\ acc'[r0] = {} /\ job'[r0].recs = {} /\ pc'[r0] = "off" /\ files' = files
        /\ UNCHANGED <<recorded, posts, unsent, billed, clock>> /\ Mishaps' = Mishaps + 1
    BY <1>0, <1>15 DEF Crash, NoJob, ledger, Mishaps
  <2>1. PICK S : S = {e \in Events : Held(e) /\ ~Held(e)'}
    OBVIOUS
  <2>2. Releases(S)
    BY <2>0, <2>1, HandDropped DEF Releases
  <2>3. Ended' \subseteq Ended
    BY <2>0 DEF Ended
  <2>4. Ledger!Next
    BY <2>0, <2>2, <2>3, LedgerMishap
  <2> QED
    BY <2>4
<1> QED
  BY <1>1, <1>2, <1>3, <1>4, <1>5, <1>6, <1>7, <1>8, <1>10, <1>11, <1>12, <1>13, <1>14, <1>15,
     <1>16 DEF Next, Loop

\* A lone reporter implements the ledger: whatever the interleaving of its cycles
\* with requests, crashes and failing files, each of its steps is one the promise
\* allows (submitWithRetry, persistFailedReport, retryFailedReports, Stop).
THEOREM Refinement ==
  ASSUME NEW r0, Reporters = {r0}
  PROVE  Spec => KeepsLedger
<1> DEFINE Inv == /\ NamesPast /\ OnePlace /\ Known /\ JobKind /\ InStep(r0) /\ Counts(r0)
                  /\ BillInv /\ Stamped /\ MuteCounted /\ \A e \in Events : Tried(r0, e)
<1>1. TypeOK /\ Init => Inv /\ Ledger!Init
  <2> SUFFICES ASSUME TypeOK, Init PROVE Inv /\ Ledger!Init
    OBVIOUS
  <2>1. NamesPast /\ OnePlace /\ Known /\ JobKind /\ InStep(r0) /\ Stamped /\ MuteCounted
    BY DEF Init, NamesPast, Slept, OnePlace, Known, JobKind, InStep, NoJob, Stamped, MuteCounted
  <2>2. Counts(r0)
    BY RetriesAssumption DEF Init, Counts, NoJob
  <2>3. Slack \in Nat /\ Rounds(MaxRetries) \in Nat
    BY SlackGrows, RoundsGrow, RetriesAssumption DEF Init, Slack, Rounds
  <2>4. \A e \in Events : Tried(r0, e)
    <3>1. \A e \in Events : Spent(e) = 0
      <4>1. MaxRetries * 0 = 0
        BY RetriesAssumption
      <4>2. \A e \in Events : posts[e] = 0 /\ unsent[e] = 0
        BY DEF Init
      <4>3. ASSUME NEW e \in Events PROVE Spent(e) = 0
        <5>1. MaxRetries * unsent[e] = 0
          BY <4>1, <4>2
        <5> QED
          BY <4>2, <5>1 DEF Spent
      <4> QED
        BY <4>3
    <3>2. job[r0].recs = {} /\ DOMAIN files = {}
      BY DEF Init, NoJob
    <3>3. 0 <= Rounds(MaxRetries) + Slack
      BY <2>3
    <3>4. ASSUME NEW e \in Events PROVE Tried(r0, e)
      BY <3>1, <3>2, <3>3 DEF Tried
    <3> QED
      BY <3>4
  <2>5. Mishaps = 0 /\ BillInv
    BY DEF Init, BillInv, BillCap, Kept, Mishaps, NoJob
  <2>6. \A e \in Events : ~Held(e) /\ Dates(e) = {}
    <3>1. \A e \in Events : ~Held(e)
      BY DEF Init, Held, Waiting, InHand, NoJob
    <3> QED
      BY <3>1, DatedHeld
  <2>7. {e \in Events : Held(e)} = {} /\ [e \in Events |-> Dates(e)] = [e \in Events |-> {}]
    BY <2>6
  <2>8. Ended = {}
    BY DEF Init, Ended
  <2>9. Ledger!Init
    BY <2>5, <2>7, <2>8 DEF Init, Ledger!Init, Ended, Mishaps
  <2> QED
    BY <2>1, <2>2, <2>4, <2>5, <2>9
<1>2. TypeOK /\ TypeOK' /\ Inv /\ [Next]_vars => Inv'
  <2> SUFFICES ASSUME TypeOK, TypeOK', Inv, [Next]_vars PROVE Inv'
    OBVIOUS
  <2>1. Mishaps \in Nat
    BY MishapsType
  <2>2. Mishaps' \in Nat
    <3>1. (TypeOK => Mishaps \in Nat)'
      BY MishapsType, PTL
    <3> QED
      BY <3>1
  <2>3. NamesPast' /\ OnePlace' /\ Known' /\ JobKind' /\ InStep(r0)' /\ Counts(r0)'
    BY NamesStep, PlaceStep, KindStep, InStepStep, CountsStep
  <2>6. Stamped' /\ MuteCounted'
    BY StampedStep, MuteStep
  <2>4. BillInv'
    BY <2>1, <2>2, BillStep
  <2>5. \A e \in Events : Tried(r0, e)'
    BY TriedStep
  <2> QED
    BY <2>3, <2>4, <2>5, <2>6
<1>3. TypeOK /\ Inv /\ [Next]_vars => [Ledger!Next]_(Ledger!vars)
  BY LedgerStep
<1> HIDE DEF Inv
<1> QED
  BY <1>1, <1>2, <1>3, Typing, PTL DEF Spec, KeepsLedger, Ledger!Spec
============================================================================
