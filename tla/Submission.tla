----------------------------- MODULE Submission ------------------------------
(*************************************************************************)
(* Order submission: the commands of worker/execution/submission.py and  *)
(* the switch commands beside them, run by separate processes against    *)
(* one database and one broker.                                          *)
(*                                                                       *)
(* Every transaction and every broker call is a step of its own.  What a *)
(* command read in one step it still uses in the next, whatever the      *)
(* other processes did in between: the gate is passed once for a whole   *)
(* list of orders, and the list is read once.                            *)
(*                                                                       *)
(* The planner has saved the orders before (Planned), the market clock   *)
(* and the listener's heartbeat are inputs of the gate, and the listener *)
(* and the synchronisation appear as Observe, which reports broker facts *)
(* truthfully; how far that is so is the subject of FillTracking.        *)
(*************************************************************************)
EXTENDS Automation, Sequences, FiniteSets

CONSTANTS
  Orders,       \* internal orders, numbered in the order they were planned
  Plans,        \* the plans: disjoint sets of orders
  SwitchKinds,  \* the kinds of switch commands run beside submission
  Submitters,   \* the callers that run submit
  MaxFaults     \* bound: crashes and failed broker calls

ASSUME SubmissionAssumption ==
  /\ Orders \subseteq Nat
  /\ Plans \subseteq SUBSET Orders
  /\ SwitchKinds \subseteq Kinds
  /\ Submitters \subseteq Callers
  /\ MaxFaults \in Nat

VARIABLES
  orders,    \* the order rows: [state, day, bid]
  placed,    \* broker: placed[b] is the order that broker order b was sent for
  working,   \* broker: the broker orders that can still be filled
  tried,     \* broker: the broker orders for which a cancel request arrived
  lost,      \* history: accepted broker orders whose number nobody holds
  job,       \* job[c]: the command process c is running
  faults     \* how many faults have happened

brokerVars == <<placed, working, tried>>
vars == <<autoVars, orders, brokerVars, lost, job, faults>>

NoBid == 0
Bids == 1..Len(placed)

OrderRow == [state : OrderState, day : Days, bid : Nat]

Planned(day) == [state |-> "planned", day |-> day, bid |-> NoBid]

\* switch: the answer of the transition is awaited;  gate: market and listener
\* to test;  list: rows to read;  send, record, reject: the submission loop;
\* sweep: the cancel loop;  withdraw: the withdrawing transaction to run.
Commands == {"none", "switch", "submit", "stop", "withdraw"}
Steps == {"none", "switch", "gate", "list", "send", "record", "reject", "sweep", "withdraw"}

Job == [cmd : Commands, step : Steps, day : Days, scope : SUBSET Orders,
        todo : SUBSET Orders, at : Orders \cup {NoBid}, bid : Nat]

NoJob == [cmd |-> "none", step |-> "none", day |-> 1, scope |-> {},
          todo |-> {}, at |-> NoBid, bid |-> NoBid]

Running(c, cmd, step) == job[c].cmd = cmd /\ job[c].step = step

Finish(c) == job' = [job EXCEPT ![c] = NoJob]

\* The first order of a list, in the order of planning.
IsFirst(o, list) == o \in list /\ \A q \in list : o <= q

Init ==
  /\ AutoInit
  /\ orders \in [Orders -> {Planned(d) : d \in Days}]
  /\ placed = <<>>
  /\ working = {} /\ tried = {} /\ lost = {}
  /\ job = [c \in Callers |-> NoJob]
  /\ faults = 0

-----------------------------------------------------------------------------
(* Commands start, change the switch, and go on with the answer.         *)

Starts(c, cmd, step, scope) ==
  /\ job[c].cmd = "none"
  /\ job' = [job EXCEPT ![c] = [NoJob EXCEPT !.cmd = cmd, !.step = step,
                                             !.day = today, !.scope = scope]]
  /\ UNCHANGED <<orders, brokerVars, lost, faults>>

StartSwitch(c) ==
  /\ \E kind \in SwitchKinds : Begin(c, kind)
  /\ Starts(c, "switch", "switch", {})

\* _block_code begins with the record and disables one of an earlier day.
StartSubmit(c) ==
  /\ c \in Submitters
  /\ Begin(c, "day_changed")
  /\ \E scope \in Plans \cup {Orders} : Starts(c, "submit", "switch", scope)

StartStop(c) ==
  /\ Begin(c, "emergency")
  /\ Starts(c, "stop", "switch", {})

StartWithdraw(c) ==
  /\ \E plan \in Plans : Starts(c, "withdraw", "list", plan)
  /\ UNCHANGED autoVars

SwitchStep(c) ==
  /\ Check(c) \/ SelectRow(c) \/ WriteRow(c)
  /\ UNCHANGED <<orders, brokerVars, lost, job, faults>>

\* Mutation: whatever is not off may submit.
SaysNotOff(record) == record.state # "disabled"

SaysRunning(record) == record.state = "running"

\* A transition that raised ends the command, the emergency stop included;
\* submit goes on when the record it holds says RUNNING.
Answered(c) ==
  /\ job[c].step = "switch"
  /\ Return(c)
  /\ LET next == CASE job[c].cmd = "stop" /\ call[c].phase = "done" -> "list"
                   [] job[c].cmd = "submit" /\ call[c].phase = "done"
                        /\ SaysRunning(call[c].seen) -> "gate"
                   [] OTHER -> "none"
     IN  IF next = "none" THEN Finish(c) ELSE job' = [job EXCEPT ![c].step = next]
  /\ UNCHANGED <<orders, brokerVars, lost, faults>>

-----------------------------------------------------------------------------
(* submit: the gate, the list, and one order after the other.            *)

\* The market calendar, the order window and the listener's heartbeat.
PassGate(c) ==
  /\ Running(c, "submit", "gate")
  /\ \E marketOpen, attached \in BOOLEAN :
       IF marketOpen /\ attached
       THEN job' = [job EXCEPT ![c].step = "list"]
       ELSE Finish(c)
  /\ UNCHANGED <<autoVars, orders, brokerVars, lost, faults>>

\* Mutation: every unsettled order counts as pending.
PendingUnsettled(order, day) == order.state \in UnsettledStates /\ order.day = day

Pending(order, day) == order.state = "planned" /\ order.day = day

ListPending(c) ==
  /\ Running(c, "submit", "list")
  /\ job' = [job EXCEPT ![c].step = "send",
       ![c].todo = {o \in job[c].scope : Pending(orders[o], job[c].day)}]
  /\ UNCHANGED <<autoVars, orders, brokerVars, lost, faults>>

AcceptAtBroker(o) ==
  /\ placed' = Append(placed, o)
  /\ working' = working \cup {Len(placed) + 1}
  /\ UNCHANGED tried

\* The broker answers: accepted under a new number, or rejected.
Send(c) ==
  /\ Running(c, "submit", "send")
  /\ \E o \in job[c].todo :
       /\ IsFirst(o, job[c].todo)
       /\ \/ /\ AcceptAtBroker(o)
             /\ job' = [job EXCEPT ![c].step = "record", ![c].at = o,
                                   ![c].bid = Len(placed) + 1]
          \/ /\ job' = [job EXCEPT ![c].step = "reject", ![c].at = o]
             /\ UNCHANGED brokerVars
  /\ UNCHANGED <<autoVars, orders, lost, faults>>

\* The call fails: before the broker took the order, or on the way back.  The
\* exception leaves the loop, and the order stays PLANNED.
SendFails(c) ==
  /\ Running(c, "submit", "send")
  /\ faults < MaxFaults
  /\ faults' = faults + 1
  /\ \E o \in job[c].todo :
       /\ IsFirst(o, job[c].todo)
       /\ \/ AcceptAtBroker(o) /\ lost' = lost \cup {Len(placed) + 1}
          \/ UNCHANGED <<brokerVars, lost>>
  /\ Finish(c)
  /\ UNCHANGED <<autoVars, orders>>

NextOrder(c) ==
  job' = [job EXCEPT ![c].step = "send", ![c].todo = @ \ {job[c].at},
                     ![c].at = NoBid, ![c].bid = NoBid]

\* Mutation: the broker's number is not stored.
SubmittedUnnumbered(order, bid) == [order EXCEPT !.state = "submitted"]

Submitted(order, bid) == [order EXCEPT !.state = "submitted", !.bid = bid]

\* record_submission and record_rejection lock the row and ask the graph; when
\* it says no the exception leaves the loop and the broker's number with it.
RecordSubmission(c) ==
  /\ Running(c, "submit", "record")
  /\ LET o == job[c].at
     IN  \/ /\ OrderMayBecome(orders[o].state, "submitted")
            /\ orders' = [orders EXCEPT ![o] = Submitted(@, job[c].bid)]
            /\ NextOrder(c)
            /\ UNCHANGED lost
         \/ /\ ~ OrderMayBecome(orders[o].state, "submitted")
            /\ lost' = lost \cup {job[c].bid}
            /\ Finish(c)
            /\ UNCHANGED orders
  /\ UNCHANGED <<autoVars, brokerVars, faults>>

RecordRejection(c) ==
  /\ Running(c, "submit", "reject")
  /\ LET o == job[c].at
     IN  \/ /\ OrderMayBecome(orders[o].state, "rejected")
            /\ orders' = [orders EXCEPT ![o].state = "rejected"]
            /\ NextOrder(c)
         \/ /\ ~ OrderMayBecome(orders[o].state, "rejected")
            /\ Finish(c)
            /\ UNCHANGED orders
  /\ UNCHANGED <<autoVars, brokerVars, lost, faults>>

-----------------------------------------------------------------------------
(* emergency_stop: after the transition, one cancel request per open     *)
(* order.                                                                *)

\* Mutation: a partially filled order is left alone.
CancelableUnfilled(order, day) ==
  order.state = "submitted" /\ order.day = day /\ order.bid # NoBid

Cancelable(order, day) ==
  order.state \in OpenStates /\ order.day = day /\ order.bid # NoBid

ListOpen(c) ==
  /\ Running(c, "stop", "list")
  /\ job' = [job EXCEPT ![c].step = "sweep",
       ![c].todo = {o \in Orders : Cancelable(orders[o], job[c].day)}]
  /\ UNCHANGED <<autoVars, orders, brokerVars, lost, faults>>

\* Accepted or refused, the request has been made; the quantity and the number
\* are those of the list.
Cancel(c) ==
  /\ Running(c, "stop", "sweep")
  /\ \E o \in job[c].todo :
       /\ IsFirst(o, job[c].todo)
       /\ tried' = tried \cup {orders[o].bid}
       /\ job' = [job EXCEPT ![c].todo = @ \ {o}]
  /\ UNCHANGED <<autoVars, orders, placed, working, lost, faults>>

\* An exception leaves the loop: the rest of the list is not cancelled.
CancelFails(c) ==
  /\ Running(c, "stop", "sweep")
  /\ job[c].todo # {}
  /\ faults < MaxFaults
  /\ faults' = faults + 1
  /\ Finish(c)
  /\ UNCHANGED <<autoVars, orders, brokerVars, lost>>

ListDone(c) ==
  /\ Running(c, "submit", "send") \/ Running(c, "stop", "sweep")
  /\ job[c].todo = {}
  /\ Finish(c)
  /\ UNCHANGED <<autoVars, orders, brokerVars, lost, faults>>

-----------------------------------------------------------------------------
(* withdraw: one transaction; the list is read without a lock, each row  *)
(* is then locked and transitioned, and one refusal rolls everything     *)
(* back.                                                                 *)

ListPlanned(c) ==
  /\ Running(c, "withdraw", "list")
  /\ job' = [job EXCEPT ![c].step = "withdraw",
       ![c].todo = {o \in job[c].scope : orders[o].state = "planned"}]
  /\ UNCHANGED <<autoVars, orders, brokerVars, lost, faults>>

\* Mutation: a state of its own, which the graph does not have.
WithdrawnState == "withdrawn"

CanceledState == "canceled"

Withdraw(c) ==
  /\ Running(c, "withdraw", "withdraw")
  /\ \/ /\ \A o \in job[c].todo : OrderMayBecome(orders[o].state, "canceled")
        /\ orders' = [o \in Orders |-> IF o \in job[c].todo
                                       THEN [orders[o] EXCEPT !.state = CanceledState]
                                       ELSE orders[o]]
     \/ /\ \E o \in job[c].todo : ~ OrderMayBecome(orders[o].state, "canceled")
        /\ UNCHANGED orders
  /\ Finish(c)
  /\ UNCHANGED <<autoVars, brokerVars, lost, faults>>

-----------------------------------------------------------------------------
(* The surroundings.                                                     *)

\* A process dies: an open transaction rolls back, an answer is forgotten.
Crash(c) ==
  /\ job[c].cmd # "none"
  /\ faults < MaxFaults
  /\ faults' = faults + 1
  /\ call' = [call EXCEPT ![c] = NoCall]
  /\ lost' = IF job[c].bid = NoBid THEN lost ELSE lost \cup {job[c].bid}
  /\ Finish(c)
  /\ UNCHANGED <<row, today, orderedOn, orders, brokerVars>>

\* The listener or the synchronisation reports what became of a broker order.
Observe(o) ==
  /\ orders[o].state \in OpenStates
  /\ \E s \in OrderTransitions[orders[o].state] \ {orders[o].state} :
       /\ orders' = [orders EXCEPT ![o].state = s]
       /\ working' = IF s \in OpenStates THEN working ELSE working \ {orders[o].bid}
  /\ UNCHANGED <<autoVars, placed, tried, lost, job, faults>>

\* Commands are run inside a trading day: the order window ends hours before
\* midnight, and a command lasts minutes.
DayChanges ==
  /\ \A c \in Callers : job[c].cmd = "none"
  /\ NextDay
  /\ UNCHANGED <<orders, brokerVars, lost, job, faults>>

Proceed(c) ==
  \/ SwitchStep(c) \/ Answered(c)
  \/ PassGate(c) \/ ListPending(c) \/ Send(c) \/ RecordSubmission(c) \/ RecordRejection(c)
  \/ ListOpen(c) \/ Cancel(c) \/ ListDone(c)
  \/ ListPlanned(c) \/ Withdraw(c)

Next ==
  \/ \E c \in Callers :
       \/ StartSwitch(c) \/ StartSubmit(c) \/ StartStop(c) \/ StartWithdraw(c)
       \/ Proceed(c)
       \/ SendFails(c) \/ CancelFails(c) \/ Crash(c)
  \/ \E o \in Orders : Observe(o)
  \/ DayChanges

\* A command that is under way goes on; starting one, a fault, the broker and
\* the calendar are left free.
Fairness == \A c \in Callers : WF_vars(Proceed(c))

Spec == Init /\ [][Next]_vars

FairSpec == Spec /\ Fairness

-----------------------------------------------------------------------------
\* Types of the order rows, the broker's book and the commands.
TypeOK ==
  /\ AutoTypeOK
  /\ orders \in [Orders -> OrderRow]
  /\ placed \in Seq(Orders)
  /\ working \subseteq Bids /\ tried \subseteq Bids /\ lost \subseteq Bids
  /\ job \in [Callers -> Job]
  /\ faults \in 0..MaxFaults

\* No broker order slips out of the books unnoticed: each one is stored in its
\* order's row, or in the hands of the command that placed it, or was lost by a
\* fault or by a row that had moved on.  A command holds only what it placed.
Accounted ==
  \A b \in Bids :
    \/ orders[placed[b]].bid = b
    \/ \E c \in Callers : job[c].bid = b /\ job[c].at = placed[b]
    \/ b \in lost

\* A row in a state that ends the order is contradicted by a working broker order
\* only while a command still holds its number, or when the number is lost.
EndedIsDead ==
  \A b \in working :
    \/ orders[placed[b]].state \in UnsettledStates
    \/ \E c \in Callers : job[c].bid = b
    \/ b \in lost

\* A broker order number, once stored, stays with its order: no second submit,
\* no withdrawal and no rejection replaces or erases it.
NumberIsKept ==
  [][\A o \in Orders : orders[o].bid # NoBid => orders'[o].bid = orders[o].bid]_orders

\* At most one broker order is placed for an order, whatever withdrawals, stops
\* and switch commands run beside the one submitter, while no call fails.
NoDuplicate == \A b, c \in Bids : placed[b] = placed[c] => b = c

\* An order goes out only on a day on which a person turned trading on, whatever
\* other submitters, faults and the calendar do between the gate and the call.
SentOnlyOnOrder == [][placed' # placed => orderedOn = today]_placed

\* Once an emergency stop stays, the submissions under way come to their end and
\* no further one passes the gate: the broker sees no more orders.
StopEndsSubmission ==
  <>[](row.state = "emergency_stop") =>
    <>[](\A c \in Callers : job[c].cmd = "submit" => job[c].step = "switch")

\* An order stored as open when the emergency stop is committed gets its cancel
\* request, or has ended by then.
StopReachesOpenOrders ==
  \A c \in Callers, o \in Orders :
    (/\ job[c].cmd = "stop" /\ call[c].phase = "done"
     /\ orders[o].state \in OpenStates /\ orders[o].day = job[c].day)
      ~> (orders[o].state \notin OpenStates \/ orders[o].bid \in tried)
=============================================================================
