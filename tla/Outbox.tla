------------------------------- MODULE Outbox --------------------------------
(*************************************************************************)
(* Outbound notifications: a poller looks for stored events that have no *)
(* outbox row yet, writes the rows, and sends what is pending.           *)
(* application/notifications/dispatch.py                                 *)
(* adapters/database/notification_store.py                               *)
(*                                                                       *)
(* Writers stamp an event with its time and commit it later, so that     *)
(* events become visible out of order.  Each transaction and each        *)
(* message of a poll is a step.  The loop that starts polls runs one at  *)
(* a time, but a person may start another, and any of them may die.  A   *)
(* poll without credentials does nothing and is left out.                *)
(*************************************************************************)
EXTENDS Integers, FiniteSets

CONSTANTS
  Events,       \* rows of the event tables
  Pollers,      \* processes that run dispatch
  PollCap,      \* more pending rows than this are told in one summary
  ScanLimit,    \* pending rows that are read at once
  MaxAttempts,  \* deliveries after which a row is given up
  DayLength,    \* the times of one day
  MaxTime,      \* bound: the clock stops here
  MaxMishaps    \* bound: crashes, answers lost on the way, overlapping polls

ASSUME OutboxAssumption ==
  /\ PollCap \in Nat \ {0} /\ ScanLimit \in Nat /\ ScanLimit > PollCap
  /\ MaxAttempts \in Nat \ {0} /\ DayLength \in Nat \ {0}
  /\ MaxTime \in Nat /\ MaxMishaps \in Nat

VARIABLES
  event,     \* event[e]: what became of event e, its time and its kind
  now,       \* the clock
  mark,      \* the projection watermark
  box,       \* box[e]: the outbox row of event e
  poll,      \* poll[p]: what poller p is doing
  told,      \* Telegram: told[e] counts the messages that told of event e
  mishaps    \* how many mishaps have happened

vars == <<event, now, mark, box, poll, told, mishaps>>

Times == 0..MaxTime

NoMark == -1

\* forbidden: notifiable, but the message would show what must not go out.
EventKinds == {"notify", "ignore", "forbidden"}

Event == [state : {"none", "stamped", "stored"}, at : Times, kind : EventKinds]

NoEvent == [state |-> "none", at |-> 0, kind |-> "ignore"]

Row == [state : {"none", "pending", "sent", "failed"}, attempts : Nat]

NoRow == [state |-> "none", attempts |-> 0]

\* mark, read, save, set: the projection;  list, send, settle: the delivery.
Steps == {"idle", "mark", "read", "save", "set", "list", "send", "settle"}

\* todo: events to project;  batches: what each message is to tell of, a summary
\* being a batch of several;  batch: rows to mark after the message just sent.
Poll == [step : Steps, start : Times, since : Times, first : BOOLEAN,
         todo : SUBSET Events, batches : SUBSET (SUBSET Events),
         batch : SUBSET Events, delivered : BOOLEAN]

NoPoll == [step |-> "idle", start |-> 0, since |-> 0, first |-> FALSE, todo |-> {},
           batches |-> {}, batch |-> {}, delivered |-> FALSE]

Init ==
  /\ event = [e \in Events |-> NoEvent]
  /\ now = 0
  /\ mark = NoMark
  /\ box = [e \in Events |-> NoRow]
  /\ poll = [p \in Pollers |-> NoPoll]
  /\ told = [e \in Events |-> 0]
  /\ mishaps = 0

-----------------------------------------------------------------------------
(* The clock and the writers of events.                                  *)

Tick ==
  /\ now < MaxTime
  /\ now' = now + 1
  /\ UNCHANGED <<event, mark, box, poll, told, mishaps>>

Stamp(e) ==
  /\ event[e].state = "none"
  /\ \E kind \in EventKinds :
       event' = [event EXCEPT ![e] = [state |-> "stamped", at |-> now, kind |-> kind]]
  /\ UNCHANGED <<now, mark, box, poll, told, mishaps>>

Store(e) ==
  /\ event[e].state = "stamped"
  /\ event' = [event EXCEPT ![e].state = "stored"]
  /\ UNCHANGED <<now, mark, box, poll, told, mishaps>>

-----------------------------------------------------------------------------
(* The projection.                                                       *)

StartPoll(p) ==
  /\ poll[p].step = "idle"
  /\ \/ /\ \A q \in Pollers : poll[q].step = "idle"
        /\ UNCHANGED mishaps
     \/ /\ \E q \in Pollers : poll[q].step # "idle"
        /\ mishaps < MaxMishaps
        /\ mishaps' = mishaps + 1
  /\ poll' = [poll EXCEPT ![p] = [NoPoll EXCEPT !.step = "mark", !.start = now]]
  /\ UNCHANGED <<event, now, mark, box, told>>

DayStart(t) == (t \div DayLength) * DayLength

ReadMark(p) ==
  /\ poll[p].step = "mark"
  /\ poll' = [poll EXCEPT ![p] = [@ EXCEPT !.step = "read", !.first = (mark = NoMark),
       !.since = IF mark = NoMark THEN DayStart(poll[p].start) ELSE mark]]
  /\ UNCHANGED <<event, now, mark, box, told, mishaps>>

\* Mutation: a cursor, the time of the newest row, in place of the anti-join.
UnprojectedByCursor(e, since) ==
  /\ event[e].state = "stored" /\ event[e].at >= since /\ box[e].state = "none"
  /\ \A f \in Events : box[f].state # "none" => event[f].at <= event[e].at

Unprojected(e, since) ==
  event[e].state = "stored" /\ event[e].at >= since /\ box[e].state = "none"

IsNotifiable(e) == event[e].kind # "ignore"

ReadEvents(p) ==
  /\ poll[p].step = "read"
  /\ poll' = [poll EXCEPT ![p] = [@ EXCEPT !.step = "save",
       !.todo = {e \in Events : Unprojected(e, poll[p].since) /\ IsNotifiable(e)}]]
  /\ UNCHANGED <<event, now, mark, box, told, mishaps>>

\* Mutation: a state of its own for what must not go out.
EntryRejected(e) ==
  [state |-> IF event[e].kind = "forbidden" THEN "rejected" ELSE "pending", attempts |-> 0]

Entry(e) ==
  [state |-> IF event[e].kind = "forbidden" THEN "failed" ELSE "pending", attempts |-> 0]

\* One insert; the unique constraint skips events that have a row by now.
SaveOutbox(p) ==
  /\ poll[p].step = "save"
  /\ box' = [e \in Events |-> IF e \in poll[p].todo /\ box[e].state = "none"
                              THEN Entry(e) ELSE box[e]]
  /\ poll' = [poll EXCEPT ![p] = [@ EXCEPT !.todo = {},
                          !.step = IF poll[p].first THEN "set" ELSE "list"]]
  /\ UNCHANGED <<event, now, mark, told, mishaps>>

\* The first watermark stays.
SetMark(p) ==
  /\ poll[p].step = "set"
  /\ mark' = IF mark = NoMark THEN poll[p].since ELSE mark
  /\ poll' = [poll EXCEPT ![p].step = "list"]
  /\ UNCHANGED <<event, now, box, told, mishaps>>

-----------------------------------------------------------------------------
(* The delivery.                                                         *)

Pending == {e \in Events : box[e].state = "pending"}

\* The oldest pending rows, as many as are read at once.
Scans(scan) ==
  /\ scan \subseteq Pending
  /\ Cardinality(scan) <= ScanLimit
  /\ scan # Pending => Cardinality(scan) = ScanLimit
  /\ \A e \in scan, f \in Pending \ scan : event[e].at <= event[f].at

ListPending(p) ==
  /\ poll[p].step = "list"
  /\ \E scan \in SUBSET Events :
       /\ Scans(scan)
       /\ poll' = [poll EXCEPT ![p] = [@ EXCEPT !.step = "send",
            !.batches = IF Cardinality(scan) > PollCap THEN {scan}
                                                       ELSE {{e} : e \in scan}]]
  /\ UNCHANGED <<event, now, mark, box, told, mishaps>>

Oldest(batch, batches) ==
  \A other \in batches : \E e \in batch : \A f \in other : event[e].at <= event[f].at

\* The message is delivered, or refused, or delivered with the answer lost: that
\* is reported as an error like any other.
Send(p) ==
  /\ poll[p].step = "send"
  /\ \E batch \in poll[p].batches, arrives, answered \in BOOLEAN :
       /\ Oldest(batch, poll[p].batches)
       /\ told' = IF arrives
                  THEN [e \in Events |-> IF e \in batch THEN told[e] + 1 ELSE told[e]]
                  ELSE told
       /\ poll' = [poll EXCEPT ![p] = [@ EXCEPT !.step = "settle", !.batches = poll[p].batches \ {batch},
                               !.batch = batch, !.delivered = (arrives /\ answered)]]
       /\ IF arrives /\ ~ answered
          THEN mishaps < MaxMishaps /\ mishaps' = mishaps + 1
          ELSE UNCHANGED mishaps
  /\ UNCHANGED <<event, now, mark, box>>

\* Mutation: the row of a summarised event stays pending.
MarkSentOnce(row) == [row EXCEPT !.attempts = @ + 1]

MarkSent(row) == [state |-> "sent", attempts |-> row.attempts + 1]

\* Mutation: given up one delivery early.
MarkFailedEarly(row) ==
  [state |-> IF row.attempts + 2 >= MaxAttempts THEN "failed" ELSE "pending",
   attempts |-> row.attempts + 1]

\* One UPDATE by id, whatever the row says by now.
MarkFailed(row) ==
  [state |-> IF row.attempts + 1 >= MaxAttempts THEN "failed" ELSE "pending",
   attempts |-> row.attempts + 1]

Settle(p) ==
  /\ poll[p].step = "settle"
  /\ \E e \in poll[p].batch :
       /\ box' = [box EXCEPT ![e] = IF poll[p].delivered THEN MarkSent(@) ELSE MarkFailed(@)]
       /\ poll' = [poll EXCEPT ![p] = [@ EXCEPT !.batch = poll[p].batch \ {e},
                               !.step = IF poll[p].batch = {e} THEN "send" ELSE "settle"]]
  /\ UNCHANGED <<event, now, mark, told, mishaps>>

FinishPoll(p) ==
  /\ poll[p].step = "send" /\ poll[p].batches = {}
  /\ poll' = [poll EXCEPT ![p] = NoPoll]
  /\ UNCHANGED <<event, now, mark, box, told, mishaps>>

\* The process dies, or a transaction of its poll raises.
Crash(p) ==
  /\ poll[p].step # "idle"
  /\ mishaps < MaxMishaps
  /\ mishaps' = mishaps + 1
  /\ poll' = [poll EXCEPT ![p] = NoPoll]
  /\ UNCHANGED <<event, now, mark, box, told>>

PollStep(p) ==
  \/ ReadMark(p) \/ ReadEvents(p) \/ SaveOutbox(p) \/ SetMark(p)
  \/ ListPending(p) \/ Send(p) \/ Settle(p) \/ FinishPoll(p)

Next ==
  \/ Tick
  \/ \E e \in Events : Stamp(e) \/ Store(e)
  \/ \E p \in Pollers : StartPoll(p) \/ PollStep(p) \/ Crash(p)

Spec == Init /\ [][Next]_vars

\* A loop starts one poll after the other, whatever became of the last one, and
\* a poll goes on.  Nothing is assumed of Telegram, of writers and of people.
Fairness ==
  /\ WF_vars(\E p \in Pollers : StartPoll(p))
  /\ \A p \in Pollers : WF_vars(PollStep(p))

FairSpec == Spec /\ Fairness

-----------------------------------------------------------------------------
\* Types of the events, the rows and the polls.
TypeOK ==
  /\ event \in [Events -> Event]
  /\ now \in Times
  /\ mark \in Times \cup {NoMark}
  /\ box \in [Events -> Row]
  /\ poll \in [Pollers -> Poll]
  /\ told \in [Events -> Nat]
  /\ mishaps \in 0..MaxMishaps

\* A row that says sent was told of, by itself or in a summary, a row was not given
\* up before its attempts were used, and nothing goes out but stored events that a
\* person can act on and may be shown.
RowsTellTheTruth ==
  \A e \in Events :
    /\ box[e].state = "sent" => told[e] > 0
    /\ box[e].state = "failed" /\ event[e].kind = "notify" => box[e].attempts >= MaxAttempts
    /\ told[e] > 0 => event[e].state = "stored" /\ event[e].kind = "notify"

\* Every repetition is paid for: without a crash, a lost answer or overlapping
\* polls an event is told of once, and each of these costs one repetition at most.
RepeatsArePaid == \A e \in Events : told[e] <= 1 + mishaps

\* An event that a poll is to report is told of or given up in the end, however
\* late it was committed: no order of commits makes the projection miss it.
NothingIsForgotten ==
  \A e \in Events :
    (/\ event[e].state = "stored" /\ event[e].kind = "notify"
     /\ mark # NoMark /\ event[e].at >= mark)
      ~> box[e].state \in {"sent", "failed"}
=============================================================================
