--------------------------- MODULE ContractQuery ---------------------------
(***************************************************************************)
(* QueryContract (query-contract/subscription-contract.go): concurrent     *)
(* queries of one process, or of its later incarnations, that encrypt with *)
(* a key pair kept in a file and decrypt the answer with the pair they     *)
(* find there afterwards.                                                  *)
(*                                                                         *)
(* The file is made by whoever finds none.  Pairs are numbered in the order*)
(* in which they are generated.                                            *)
(***************************************************************************)
EXTENDS Integers, FiniteSets

CONSTANTS
  Calls,      \* the queries that may be under way at once
  MaxCrashes, \* bound on crashes of the process
  MaxFaults   \* bound on failing calls of the file system

ASSUME CallsAssumption == IsFiniteSet(Calls) /\ Calls # {}
ASSUME BoundsAssumption == MaxCrashes \in Nat /\ MaxFaults \in Nat

VARIABLES
  file,     \* id_tx_io.json: "absent", "torn" (truncated, or not JSON) or "whole"
  pair,     \* the pair in a whole file
  made,     \* how many pairs have been generated
  pc,       \* pc[q]: where the query stands
  held,     \* held[q]: the pair getTxSenderKeyPair gave it last
  sealed,   \* sealed[q]: the pair the query was encrypted with, 0 before it is
  outcome,  \* outcome[q]: how it ended
  calm,     \* history: a pair was on disk and nobody making one when q began
  crashes, faults

vars == <<file, pair, made, pc, held, sealed, outcome, calm, crashes, faults>>

disk == <<file, pair>>
failures == <<crashes, faults>>

PCs == {"idle", "hash", "stat", "create", "write", "read", "derive", "send", "done"}

\* "answer": decrypted; "garbled": the decryption failed; "nopair": the file
\* could not be read as a pair; "error": anything else failed.
Outcomes == {"none", "answer", "garbled", "nopair", "error"}

Init ==
  /\ \/ file = "absent" /\ pair = 0 /\ made = 0
     \/ file = "whole" /\ pair = 1 /\ made = 1
  /\ pc = [q \in Calls |-> "idle"]
  /\ held = [q \in Calls |-> 0]
  /\ sealed = [q \in Calls |-> 0]
  /\ outcome = [q \in Calls |-> "none"]
  /\ calm = [q \in Calls |-> FALSE]
  /\ crashes = 0 /\ faults = 0

----------------------------------------------------------------------------
Goto(q, from, to) == pc[q] = from /\ pc' = [pc EXCEPT ![q] = to]

End(q, from, how) == Goto(q, from, "done") /\ outcome' = [outcome EXCEPT ![q] = how]

DiskFault == faults < MaxFaults /\ faults' = faults + 1 /\ UNCHANGED crashes

Creating(q) == pc[q] \in {"create", "write"}
Settled == file = "whole" /\ \A q \in Calls : ~Creating(q)

Begin(q) ==
  /\ Goto(q, "idle", "hash")
  /\ calm' = [calm EXCEPT ![q] = Settled]
  /\ UNCHANGED <<disk, made, held, sealed, outcome, failures>>

\* fetchCodeHash.
FetchCodeHash(q) ==
  /\ Goto(q, "hash", "stat")
  /\ UNCHANGED <<disk, made, held, sealed, outcome, calm, failures>>

\* The node does not answer, or answers something else.
NetworkFails(q) ==
  /\ \E from \in {"hash", "derive", "send"} : End(q, from, "error")
  /\ UNCHANGED <<disk, made, held, sealed, calm, failures>>

----------------------------------------------------------------------------
\* getTxSenderKeyPair, called by Encrypt and once more by Decrypt.

\* Mutant: a pair is generated whether or not there is a file.
GeneratePair_Always(q) ==
  /\ Goto(q, "stat", "create")
  /\ made' = made + 1
  /\ held' = [held EXCEPT ![q] = made + 1]
  /\ UNCHANGED <<disk, sealed, outcome, calm, failures>>

\* Mutant: the random source is not read: every pair is the first.
GeneratePair_Constant(q) ==
  /\ file = "absent"
  /\ Goto(q, "stat", "create")
  /\ held' = [held EXCEPT ![q] = 1]
  /\ UNCHANGED <<disk, made, sealed, outcome, calm, failures>>

\* Mutant: a pair that is found is written back.
GeneratePair_WritesBack(q) ==
  /\ file # "torn"
  /\ Goto(q, "stat", "create")
  /\ made' = IF file = "absent" THEN made + 1 ELSE made
  /\ held' = [held EXCEPT ![q] = IF file = "absent" THEN made + 1 ELSE pair]
  /\ UNCHANGED <<disk, sealed, outcome, calm, failures>>

\* Stat finds no file: a pair is generated, in memory.
GeneratePair(q) ==
  /\ file = "absent"
  /\ Goto(q, "stat", "create")
  /\ made' = made + 1
  /\ held' = [held EXCEPT ![q] = made + 1]
  /\ UNCHANGED <<disk, sealed, outcome, calm, failures>>

\* WriteFile opens and truncates, whatever is there by now.
TruncateFile(q) ==
  /\ \/ /\ Goto(q, "create", "write")
        /\ file' = "torn" /\ pair' = 0
        /\ UNCHANGED <<outcome, failures>>
     \/ End(q, "create", "error") /\ UNCHANGED disk /\ DiskFault
  /\ UNCHANGED <<made, held, sealed, calm>>

\* Mutant: the file is created and the pair never written to it.
WriteFile_Skips(q) ==
  /\ Goto(q, "write", "derive")
  /\ UNCHANGED <<disk, outcome, made, held, sealed, calm, failures>>

\* All pairs have one length: of two writers the later one wins as a whole.  A
\* write that fails leaves the file as it is, spoils it, or has written it whole and
\* fails in closing it.
WriteFile(q) ==
  /\ \/ /\ Goto(q, "write", "derive")
        /\ file' = "whole" /\ pair' = held[q]
        /\ UNCHANGED <<outcome, failures>>
     \/ /\ End(q, "write", "error") /\ DiskFault
        /\ \/ UNCHANGED disk
           \/ file' = "torn" /\ pair' = 0
           \/ file' = "whole" /\ pair' = held[q]
  /\ UNCHANGED <<made, held, sealed, calm>>

\* Stat finds a file, whatever is in it.
FindFile(q) ==
  /\ file # "absent"
  /\ Goto(q, "stat", "read")
  /\ UNCHANGED <<disk, made, held, sealed, outcome, calm, failures>>

ReadFile(q) ==
  /\ \/ /\ file = "whole"
        /\ Goto(q, "read", "derive")
        /\ held' = [held EXCEPT ![q] = pair]
        /\ UNCHANGED <<outcome, failures>>
     \/ file # "whole" /\ End(q, "read", "nopair") /\ UNCHANGED <<held, failures>>
     \/ End(q, "read", "error") /\ UNCHANGED held /\ DiskFault
  /\ UNCHANGED <<disk, made, sealed, calm>>

----------------------------------------------------------------------------
\* getTxEncryptionKey and what it is for.

Encrypt(q) ==
  /\ sealed[q] = 0
  /\ Goto(q, "derive", "send")
  /\ sealed' = [sealed EXCEPT ![q] = held[q]]
  /\ UNCHANGED <<disk, made, held, outcome, calm, failures>>

\* The encrypted answer is here; Decrypt asks for the pair again.
Send(q) ==
  /\ Goto(q, "send", "stat")
  /\ UNCHANGED <<disk, made, held, sealed, outcome, calm, failures>>

Decrypt(q) ==
  /\ sealed[q] # 0
  /\ End(q, "derive", IF held[q] = sealed[q] THEN "answer" ELSE "garbled")
  /\ UNCHANGED <<disk, made, held, sealed, calm, failures>>

\* The call has returned; another may begin.
Finish(q) ==
  /\ Goto(q, "done", "idle")
  /\ held' = [held EXCEPT ![q] = 0]
  /\ sealed' = [sealed EXCEPT ![q] = 0]
  /\ outcome' = [outcome EXCEPT ![q] = "none"]
  /\ calm' = [calm EXCEPT ![q] = FALSE]
  /\ UNCHANGED <<disk, made, failures>>

\* The process dies and is started again; the file is what it was.
Crash ==
  /\ crashes < MaxCrashes
  /\ crashes' = crashes + 1
  /\ pc' = [q \in Calls |-> "idle"]
  /\ held' = [q \in Calls |-> 0]
  /\ sealed' = [q \in Calls |-> 0]
  /\ outcome' = [q \in Calls |-> "none"]
  /\ calm' = [q \in Calls |-> FALSE]
  /\ UNCHANGED <<disk, made, faults>>

Step(q) ==
  \/ FetchCodeHash(q) \/ NetworkFails(q)
  \/ GeneratePair(q) \/ TruncateFile(q) \/ WriteFile(q)
  \/ FindFile(q) \/ ReadFile(q)
  \/ Encrypt(q) \/ Send(q) \/ Decrypt(q)
  \/ Finish(q)

Next ==
  \/ \E q \in Calls : Begin(q) \/ Step(q)
  \/ Crash

Spec == Init /\ [][Next]_vars

\* A call that has begun goes on: nothing in it waits for anyone else.
Fairness == \A q \in Calls : WF_vars(Step(q))

FairSpec == Spec /\ Fairness

----------------------------------------------------------------------------
\* Properties.

\* Every variable has its type.
TypeOK ==
  /\ file \in {"absent", "torn", "whole"}
  /\ made \in Nat /\ pair \in 0..made
  /\ pc \in [Calls -> PCs]
  /\ held \in [Calls -> 0..made] /\ sealed \in [Calls -> 0..made]
  /\ outcome \in [Calls -> Outcomes]
  /\ calm \in [Calls -> BOOLEAN]
  /\ crashes \in Nat /\ faults \in Nat

\* Once a pair is on disk and nobody is making one, no query that begins from
\* then on fails because of it: the pair it encrypts with is the pair it decrypts
\* with (Encrypt and Decrypt each call getTxSenderKeyPair), crashes or not.
CalmIsSafe ==
  \A q \in Calls : calm[q] => outcome[q] \notin {"garbled", "nopair"}

\* A file that stays illegible is the work of a crash or of a failing call, never
\* of two queries that make the file at once (ioutil.WriteFile truncates first).
TornByFailureOnly ==
  file = "torn" => crashes + faults > 0 \/ \E q \in Calls : pc[q] = "write"

\* Pairs are generated by the queries that are under way before there is a file,
\* and by nobody else: as many as there are calls for each life of the process,
\* and one more for each failing call.
PairsBounded == made <= Cardinality(Calls) * (1 + crashes) + faults

\* In the end nobody makes a pair any more: the file stays what it is for good,
\* and so, unless a failure has spoilt it, do the answers.
PairSettles == <>[](\A q \in Calls : ~Creating(q))
=============================================================================
