--------------------------- MODULE BillingLedger ---------------------------
(***************************************************************************)
(* What metering promises, with nothing said about accumulators, goroutines *)
(* or files: a usage event that was recorded is owed until it is settled or *)
(* given up; it is billed once, and again only after a mishap; it is given  *)
(* up only when it is old or has been attempted often enough, where a       *)
(* submission that could not be sent counts for a whole round of attempts;  *)
(* and what is no longer owed stays so.                                     *)
(*                                                                         *)
(* UsageReporter implements it (KeepsLedger there).                        *)
(***************************************************************************)
EXTENDS Integers

CONSTANTS
  Events,    \* the usage events that may be recorded
  Attempts,  \* how often an event is attempted before it may be given up
  Round,     \* the attempts a submission that could not be sent stands for
  MaxAge     \* how old its record must be for it to be given up sooner

VARIABLES
  recorded,  \* the events recorded so far
  owed,      \* those still to be settled
  tried,     \* tried[e]: how often e was sent
  unsent,    \* unsent[e]: how often e was submitted and could not be sent
  billed,    \* billed[e]: how often the endpoint has applied it
  dates,     \* dates[e]: the dates on the durable copies of e: none or one
  ended,     \* the instances whose loop has ended
  now,       \* the time
  mishaps    \* how many failures have happened

vars == <<recorded, owed, tried, unsent, billed, dates, ended, now, mishaps>>

Init ==
  /\ recorded = {} /\ owed = {} /\ ended = {}
  /\ tried = [e \in Events |-> 0]
  /\ unsent = [e \in Events |-> 0]
  /\ billed = [e \in Events |-> 0]
  /\ dates = [e \in Events |-> {}]
  /\ now = 0 /\ mishaps = 0

\* What stays owed keeps its date, and what does not loses it.
KeepDates == dates' = [e \in Events |-> IF e \in owed' THEN dates[e] ELSE {}]

OneMore(count, S) == [e \in Events |-> IF e \in S THEN count[e] + 1 ELSE count[e]]

\* An event recorded where nobody collects it any more is never owed.
Record(e) ==
  /\ e \notin recorded
  /\ recorded' = recorded \cup {e}
  /\ owed' \in {owed, owed \cup {e}}
  /\ UNCHANGED <<tried, unsent, billed, dates, ended, now, mishaps>>

\* A batch is sent and refused.
Refuse(S) ==
  /\ S \subseteq owed
  /\ tried' = OneMore(tried, S)
  /\ UNCHANGED <<recorded, owed, unsent, billed, dates, ended, now, mishaps>>

\* A batch is submitted, and cannot be sent.
Misdirect(S) ==
  /\ S \subseteq owed
  /\ unsent' = OneMore(unsent, S)
  /\ UNCHANGED <<recorded, owed, tried, billed, dates, ended, now, mishaps>>

\* A batch is sent and applied, and settled at once or by a later step.  No event
\* in it has been applied before, but for a mishap each time.
Apply(S) ==
  /\ S \subseteq owed
  /\ \A e \in S : billed[e] <= mishaps
  /\ tried' = OneMore(tried, S)
  /\ billed' = OneMore(billed, S)
  /\ owed' \in {owed, owed \ S}
  /\ KeepDates
  /\ UNCHANGED <<recorded, unsent, ended, now, mishaps>>

\* A batch is sent and applied, but nobody is told.
ApplyUnseen(S) ==
  /\ S \subseteq owed
  /\ \A e \in S : billed[e] <= mishaps
  /\ tried' = OneMore(tried, S)
  /\ billed' = OneMore(billed, S)
  /\ mishaps' = mishaps + 1
  /\ UNCHANGED <<recorded, owed, unsent, dates, ended, now>>

\* A batch is put in writing, dated today.  The date is never renewed.
Persist(S) ==
  /\ S \subseteq owed
  /\ \A e \in S : dates[e] = {}
  /\ dates' = [e \in Events |-> IF e \in S THEN {now} ELSE dates[e]]
  /\ UNCHANGED <<recorded, owed, tried, unsent, billed, ended, now, mishaps>>

\* A batch that could not be sent is put in writing in place of S, put in writing
\* the same day, and S is forgotten.
Overwrite(B, S) ==
  /\ B \subseteq owed /\ S \subseteq owed \ B
  /\ \A e \in B : dates[e] = {} /\ unsent[e] > 0
  /\ \A e \in S : dates[e] = {now}
  /\ owed' = owed \ S
  /\ dates' = [e \in Events |-> IF e \in B THEN {now} ELSE IF e \in S THEN {} ELSE dates[e]]
  /\ UNCHANGED <<recorded, tried, unsent, billed, ended, now, mishaps>>

Leave(S) ==
  /\ S \subseteq owed
  /\ owed' = owed \ S
  /\ KeepDates
  /\ UNCHANGED <<recorded, tried, unsent, billed, now, mishaps>>

Settle(S) == Leave(S) /\ UNCHANGED ended /\ \A e \in S : billed[e] > 0

GiveUp(S) ==
  /\ Leave(S) /\ UNCHANGED ended
  /\ \A e \in S : tried[e] + Round * unsent[e] >= Attempts \/ \E d \in dates[e] : now - d > MaxAge

\* A loop ends, and what it has not sent even once is forgotten.
End(S) ==
  /\ Leave(S) /\ ended \subseteq ended' /\ ended' # ended
  /\ \A e \in S : tried[e] = 0

\* A crash or a failing file: anything may be forgotten, nothing comes back.
Mishap(S) ==
  /\ S \subseteq owed
  /\ owed' = owed \ S
  /\ KeepDates
  /\ mishaps' = mishaps + 1
  /\ ended' \subseteq ended
  /\ UNCHANGED <<recorded, tried, unsent, billed, now>>

TimePasses ==
  /\ now' = now + 1
  /\ UNCHANGED <<recorded, owed, tried, unsent, billed, dates, ended, mishaps>>

Next ==
  \/ \E e \in Events : Record(e)
  \/ \E S \in SUBSET owed :
       \/ Refuse(S) \/ Misdirect(S) \/ Apply(S) \/ ApplyUnseen(S) \/ Persist(S)
       \/ Settle(S) \/ GiveUp(S) \/ End(S) \/ Mishap(S)
       \/ \E B \in SUBSET owed : Overwrite(B, S)
  \/ TimePasses

Spec == Init /\ [][Next]_vars
============================================================================
