----------------------------- MODULE FillTracking ----------------------------
(*************************************************************************)
(* How the stored orders follow the broker's book: the fill notification *)
(* listener, which adds up one execution after the other, and the        *)
(* synchronisation, which compares with the broker's daily report and    *)
(* ends the day's open orders.                                           *)
(*                                                                       *)
(* Both read a row in one transaction and write it in a later one.  The  *)
(* write locks the row and asks the state graph, but the quantities it   *)
(* writes are absolute and come from the earlier read.                   *)
(*                                                                       *)
(* Prices are left out: each share counts as one unit of amount, so that *)
(* the comparison of daily totals compares quantities.  Symbols always   *)
(* match.  The broker's report has rows per order only with              *)
(* perOrderRows; in the paper environment it has the daily totals alone. *)
(*************************************************************************)
EXTENDS FillRules, Integers, Sequences, FiniteSets, Functions

CONSTANTS
  Orders,        \* the orders of the day
  Size,          \* the quantity of every order
  Settings       \* does the daily report list the orders; may orders go out before
                 \* the subscription of a fresh session; bound: lost connections

ASSUME FillAssumption ==
  /\ IsFiniteSet(Orders)
  /\ Size \in Nat \ {0}
  /\ Settings \subseteq [perOrderRows : BOOLEAN, earlySubmit : BOOLEAN, maxDrops : Nat]

VARIABLES
  setting,   \* the one the day runs in
  book,      \* broker: quantity and filled quantity of each order, open? rejected?
  ended,     \* has the regular session ended?
  rows,      \* the stored orders
  auto,      \* the automation state
  problems,  \* the orders with a reconcile problem on record
  link,      \* the listener: dead, down, attaching, attached or subscribed
  beat,      \* is there a connected session with a fresh heartbeat?
  channel,   \* notifications under way to the listener, oldest first
  hand,      \* the notification the listener is applying
  sync,      \* the synchronisation
  drops      \* how many connections were lost

brokerVars == <<book, ended, setting>>
storeVars == <<rows, problems>>
listenerVars == <<link, beat, channel, hand, drops>>
vars == <<setting, book, ended, rows, auto, problems, link, beat, channel, hand, sync, drops>>

\* Before the planner saves it an order has no row.
NoRow == [state |-> "none", quantity |-> Size, filled |-> 0]

Row == [state : OrderState \cup {"none"}, quantity : 0..Size, filled : 0..Size]

Book == [quantity : 0..Size, filled : 0..Size, open : BOOLEAN, rejected : BOOLEAN]

Notification == [order : Orders, kind : {"execution", "cancel", "rejection"},
                 quantity : 0..Size, orderQuantity : 0..Size]

Idle == [step |-> "idle"]

Stopped == {"paused", "disabled", "emergency_stop"}

Sum(f) == SumFunction([o \in Orders |-> f[o].filled])

\* Mutation: an armed switch is left alone.
PauseIfRunning == auto' = IF auto = "running" THEN "paused" ELSE auto

\* The transition to PAUSED of those who look first whether there is a need.
PauseIfOn == auto' = IF auto \in {"armed", "running"} THEN "paused" ELSE auto

Init ==
  /\ setting \in Settings
  /\ book = [o \in Orders |-> [quantity |-> Size, filled |-> 0,
                            open |-> FALSE, rejected |-> FALSE]]
  /\ ended = FALSE
  /\ rows = [o \in Orders |-> NoRow]
  /\ auto = "disabled"
  /\ problems = {}
  /\ link = "dead" /\ beat = FALSE /\ channel = <<>> /\ hand = Idle
  /\ sync = Idle
  /\ drops = 0

-----------------------------------------------------------------------------
(* People, planner and submission, as far as they matter here.           *)

Switch ==
  /\ auto' \in AutomationTransitions[auto]
  /\ UNCHANGED <<brokerVars, storeVars, listenerVars, sync>>

Plan(o) ==
  /\ rows[o].state = "none" /\ auto = "running" /\ ~ ended
  /\ rows' = [rows EXCEPT ![o].state = "planned"]
  /\ UNCHANGED <<brokerVars, auto, problems, listenerVars, sync>>

\* Did the order reach the broker?  It does so at most once here.
Placed(o) == book[o].open \/ book[o].rejected \/ book[o].filled > 0 \/ book[o].quantity < Size

\* The gate asks for RUNNING and for a fresh heartbeat; the broker's answer is
\* recorded in a later step.
Place(o) ==
  /\ rows[o].state = "planned" /\ ~ Placed(o) /\ ~ ended
  /\ auto = "running" /\ beat
  /\ link \in {"attaching", "attached"} => setting.earlySubmit
  /\ book' = [book EXCEPT ![o].open = TRUE]
  /\ UNCHANGED <<ended, setting, storeVars, auto, listenerVars, sync>>

\* Mutation: the broker's word for it.
AcceptedState == "accepted"

SubmittedState == "submitted"

RecordPlaced(o) ==
  /\ rows[o].state = "planned" /\ Placed(o)
  /\ rows' = [rows EXCEPT ![o].state = SubmittedState]
  /\ UNCHANGED <<brokerVars, auto, problems, listenerVars, sync>>

-----------------------------------------------------------------------------
(* The broker.  It notifies a subscribed listener; otherwise it does     *)
(* not.                                                                  *)

Notify(o, kind, quantity) ==
  IF link = "subscribed"
  THEN \* whether an execution quotes the original or the reduced order
       \* quantity after a partial cancel has not been observed
       \E q \in {Size, book[o].quantity} :
         channel' = Append(channel, [order |-> o, kind |-> kind,
                                     quantity |-> quantity, orderQuantity |-> q])
  ELSE UNCHANGED channel

Outstanding(o) == book[o].quantity - book[o].filled

Execute(o) ==
  /\ book[o].open
  /\ \E q \in 1..Outstanding(o) :
       /\ book' = [book EXCEPT ![o].filled = @ + q, ![o].open = q < Outstanding(o)]
       /\ Notify(o, "execution", q)
  /\ UNCHANGED <<ended, setting, storeVars, auto, link, beat, hand, sync, drops>>

\* A person or the emergency stop cancelled all or part of the rest.
CancelRest(o) ==
  /\ book[o].open /\ rows[o].state # "planned"
  /\ \E q \in 1..Outstanding(o) :
       /\ book' = [book EXCEPT ![o].quantity = @ - q, ![o].open = q < Outstanding(o)]
       /\ Notify(o, "cancel", q)
  /\ UNCHANGED <<ended, setting, storeVars, auto, link, beat, hand, sync, drops>>

\* The exchange turns the order down after the broker took it.
Reject(o) ==
  /\ book[o].open /\ book[o].filled = 0
  /\ book' = [book EXCEPT ![o].rejected = TRUE, ![o].open = FALSE]
  /\ Notify(o, "rejection", 0)
  /\ UNCHANGED <<ended, setting, storeVars, auto, link, beat, hand, sync, drops>>

EndSession ==
  /\ ~ ended
  /\ ended' = TRUE
  /\ book' = [o \in Orders |-> [book[o] EXCEPT !.open = FALSE]]
  /\ UNCHANGED <<setting, storeVars, auto, listenerVars, sync>>

-----------------------------------------------------------------------------
(* The listener process.                                                 *)

\* Mutation: a planned order is thought to have nothing to miss.
MissedByOpen == {o \in Orders : rows[o].state \in OpenStates}

MayHaveMissed == {o \in Orders : rows[o].state \in UnsettledStates}

\* attach: the session counts as connected from its first transaction on.  A new
\* process disables first.
StartSession ==
  /\ link \in {"dead", "down"}
  /\ auto' = IF link = "dead" THEN "disabled" ELSE auto
  /\ link' = "attaching" /\ beat' = TRUE
  /\ UNCHANGED <<brokerVars, storeVars, channel, hand, sync, drops>>

\* attach goes on: with unsettled orders of any day notifications may have been
\* missed.
CheckGap ==
  /\ link = "attaching"
  /\ problems' = problems \cup MayHaveMissed
  /\ IF MayHaveMissed = {} THEN UNCHANGED auto ELSE PauseIfOn
  /\ link' = "attached"
  /\ UNCHANGED <<brokerVars, rows, beat, channel, hand, sync, drops>>

Subscribe ==
  /\ link = "attached"
  /\ link' = "subscribed"
  /\ UNCHANGED <<brokerVars, storeVars, auto, beat, channel, hand, sync, drops>>

Down(how) ==
  /\ link' = how
  /\ channel' = <<>> /\ hand' = Idle

\* The connection breaks between two notifications; the session row is closed.
\* Or the process is killed: the session row stays until its heartbeat is old.
Drop ==
  /\ link \in {"attaching", "attached", "subscribed"}
  /\ drops < setting.maxDrops
  /\ drops' = drops + 1
  /\ \/ hand = Idle /\ link # "attaching" /\ Down("down") /\ beat' = FALSE
     \/ Down("dead") /\ UNCHANGED beat
  /\ UNCHANGED <<brokerVars, storeVars, auto, sync>>

BeatExpires ==
  /\ link = "dead" /\ beat
  /\ beat' = FALSE
  /\ UNCHANGED <<brokerVars, storeVars, auto, link, channel, hand, sync, drops>>

\* The order is looked up by its broker number, which a submission may not have
\* recorded yet; the lookup is repeated for five seconds and then given up.
Receive ==
  /\ hand = Idle /\ channel # <<>>
  /\ LET n == Head(channel)
     IN  \/ /\ rows[n.order].state # "planned"
            /\ hand' = [step |-> "apply", n |-> n, order |-> rows[n.order]]
            /\ UNCHANGED problems
         \/ /\ rows[n.order].state = "planned"
            /\ hand' = [step |-> "pause"]
            /\ problems' = problems \cup {n.order}
  /\ channel' = Tail(channel)
  /\ UNCHANGED <<brokerVars, rows, auto, link, beat, sync, drops>>

\* record_notification asks the graph again, of the row as it is now; what it
\* raises then ends the process.
Apply ==
  /\ hand.step = "apply"
  /\ LET o == hand.n.order
         new == Written(rows[o], hand.order, hand.n)
     IN  \/ /\ Refused(hand.order, hand.n)
            /\ problems' = problems \cup {o}
            /\ hand' = [step |-> "pause"]
            /\ UNCHANGED <<rows, link, beat, channel>>
         \/ /\ ~ Refused(hand.order, hand.n)
            /\ hand.order.state = Applied(hand.order, hand.n).state
                 \/ OrderMayBecome(rows[o].state, Applied(hand.order, hand.n).state)
            /\ rows' = [rows EXCEPT ![o] = new]
            /\ hand' = Idle
            /\ UNCHANGED <<problems, link, beat, channel>>
         \/ /\ ~ Refused(hand.order, hand.n)
            /\ hand.order.state # Applied(hand.order, hand.n).state
            /\ ~ OrderMayBecome(rows[o].state, Applied(hand.order, hand.n).state)
            /\ Down("dead") /\ beat' = FALSE
            /\ UNCHANGED <<rows, problems>>
  /\ UNCHANGED <<brokerVars, auto, sync, drops>>

Pause ==
  /\ hand.step = "pause"
  /\ PauseIfOn
  /\ hand' = Idle
  /\ UNCHANGED <<brokerVars, storeVars, link, beat, channel, sync, drops>>

-----------------------------------------------------------------------------
(* synchronize: the report, the rows, the outcomes, the totals, the      *)
(* day's end, the problems.  A refused transition raises and ends it on  *)
(* the spot.                                                             *)

Unavailable == -1

Reported(o) == [filled   |-> book[o].filled,
                canceled |-> ~ book[o].open /\ book[o].quantity < Size
                             /\ book[o].filled = book[o].quantity,
                rejected |-> book[o].rejected]

\* The time is taken before the report is fetched.
SyncFetch ==
  /\ sync.step = "idle"
  /\ \E late \in {FALSE, ended}, totals \in {Sum(book), Unavailable} :
       sync' = [step |-> "read", late |-> late, totals |-> totals,
                report |-> IF setting.perOrderRows
                           THEN [o \in {p \in Orders : Placed(p)} |-> Reported(o)]
                           ELSE <<>>]
  /\ UNCHANGED <<brokerVars, storeVars, auto, listenerVars>>

\* Only open rows are read: a reported order that has ended counts as unknown.
SyncRead ==
  /\ sync.step = "read"
  /\ LET open == {o \in Orders : rows[o].state \in OpenStates}
     IN  sync' = [step |-> "apply", late |-> sync.late, totals |-> sync.totals,
                  report |-> sync.report, read |-> rows, open |-> open,
                  todo |-> open \cap DOMAIN sync.report,
                  found |-> DOMAIN sync.report \ open]
  /\ UNCHANGED <<brokerVars, storeVars, auto, listenerVars>>

FillProblem(order, fill) == fill.filled > order.quantity \/ fill.filled < order.filled

TargetState(order, fill) ==
  CASE fill.filled >= order.quantity                      -> "filled"
    [] fill.filled < order.quantity /\ fill.canceled      -> "canceled"
    [] fill.filled \in 1..(order.quantity - 1) /\ ~ fill.canceled -> "partially_filled"
    [] fill.filled = 0 /\ fill.filled < order.quantity
         /\ ~ fill.canceled /\ fill.rejected            -> "rejected"
    [] OTHER                                              -> order.state

SyncApply(o) ==
  /\ sync.step = "apply" /\ o \in sync.todo
  /\ LET order == sync.read[o]
         fill == sync.report[o]
         target == TargetState(order, fill)
         changed == target # order.state \/ fill.filled # order.filled
         rest == [sync EXCEPT !.todo = @ \ {o}]
     IN  \/ /\ FillProblem(order, fill)
            /\ sync' = [rest EXCEPT !.found = @ \cup {o}]
            /\ UNCHANGED rows
         \/ /\ ~ FillProblem(order, fill) /\ ~ changed
            /\ sync' = rest
            /\ UNCHANGED rows
         \/ /\ ~ FillProblem(order, fill) /\ changed
            /\ OrderMayBecome(rows[o].state, target)
            /\ rows' = [rows EXCEPT ![o].state = target, ![o].filled = fill.filled]
            /\ sync' = rest
         \/ /\ ~ FillProblem(order, fill) /\ changed
            /\ ~ OrderMayBecome(rows[o].state, target)
            /\ sync' = Idle
            /\ UNCHANGED rows
  /\ UNCHANGED <<brokerVars, auto, problems, listenerVars>>

\* Mutation: an empty answer is read as an agreement.
EmptyMatches(internal, broker) ==
  IF broker = Unavailable \/ internal = broker THEN "matched" ELSE "mismatched"

CompareDailyTotals(internal, broker) ==
  CASE broker = Unavailable                          -> "unavailable"
    [] broker # Unavailable /\ internal # broker     -> "mismatched"
    [] broker # Unavailable /\ internal = broker     -> "matched"

\* After the session the open orders of the earlier read end when the totals
\* match, and are problems otherwise.
SyncCompare ==
  /\ sync.step = "apply" /\ sync.todo = {}
  /\ LET verdict == CompareDailyTotals(Sum(rows), sync.totals)
         closing == IF sync.late THEN sync.open ELSE {}
     IN  sync' = [step |-> "close", late |-> sync.late, verdict |-> verdict,
                  todo |-> IF verdict = "matched" THEN closing ELSE {},
                  found |-> IF verdict = "matched" THEN sync.found
                                                   ELSE sync.found \cup closing]
  /\ UNCHANGED <<brokerVars, storeVars, auto, listenerVars>>

SyncExpire(o) ==
  /\ sync.step = "close" /\ o \in sync.todo
  /\ \/ /\ OrderMayBecome(rows[o].state, "expired")
        /\ rows' = [rows EXCEPT ![o].state = "expired"]
        /\ sync' = [sync EXCEPT !.todo = @ \ {o}]
     \/ /\ ~ OrderMayBecome(rows[o].state, "expired")
        /\ sync' = Idle
        /\ UNCHANGED rows
  /\ UNCHANGED <<brokerVars, auto, problems, listenerVars>>

\* Mutation: the verdict alone stops nothing.
FoundOnly == sync.found # {}

Found == sync.found # {} \/ sync.verdict = "mismatched"

\* PAUSED is asked for whatever the state is; the graph may refuse it.
SyncFinish ==
  /\ sync.step = "close" /\ sync.todo = {}
  /\ problems' = problems \cup sync.found
  /\ auto' = IF Found /\ AutomationMayBecome(auto, "paused") THEN "paused" ELSE auto
  /\ sync' = Idle
  /\ UNCHANGED <<brokerVars, rows, listenerVars>>

Next ==
  \/ Switch
  \/ \E o \in Orders : Plan(o) \/ Place(o) \/ RecordPlaced(o) \/ Execute(o)
                      \/ CancelRest(o) \/ Reject(o)
  \/ EndSession
  \/ StartSession \/ CheckGap \/ Subscribe \/ Drop \/ BeatExpires
  \/ Receive \/ Apply \/ Pause
  \/ SyncFetch \/ SyncRead \/ SyncCompare \/ SyncFinish
  \/ \E o \in Orders : SyncApply(o) \/ SyncExpire(o)

\* The listener works off what arrives, and a synchronisation that was started
\* goes on; nobody has to start one.
Fairness ==
  /\ WF_vars(Receive) /\ WF_vars(Apply) /\ WF_vars(Pause)
  /\ WF_vars(SyncRead \/ SyncCompare \/ SyncFinish
             \/ \E o \in Orders : SyncApply(o) \/ SyncExpire(o))

Spec == Init /\ [][Next]_vars

FairSpec == Spec /\ Fairness

-----------------------------------------------------------------------------
\* Types of the broker's book, the rows, the listener and the notifications.
TypeOK ==
  /\ setting \in Settings
  /\ book \in [Orders -> Book] /\ ended \in BOOLEAN
  /\ rows \in [Orders -> Row]
  /\ auto \in AutomationState
  /\ problems \subseteq Orders
  /\ link \in {"dead", "down", "attaching", "attached", "subscribed"} /\ beat \in BOOLEAN
  /\ channel \in Seq(Notification)
  /\ hand.step \in {"idle", "apply", "pause"}
  /\ sync.step \in {"idle", "read", "apply", "close"}
  /\ drops \in 0..setting.maxDrops

\* The store never claims more than the broker executed: a lost, late or refused
\* notification and a synchronisation beside it can only leave it behind.  (A report
\* with rows per order is another matter: what it lists is notified as well.)
NothingInvented ==
  ~ setting.perOrderRows => \A o \in Orders : rows[o].filled <= book[o].filled

\* An order stored as ended has ended at the broker, with that many shares (again
\* where the report does not list what is notified as well).
EndedIsTrue ==
  ~ setting.perOrderRows =>
    \A o \in Orders :
      rows[o].state \in {"filled", "canceled", "rejected", "expired"} =>
        ~ book[o].open /\ rows[o].filled = book[o].filled

\* When the totals match after the session, every single order matches, although
\* the comparison sees nothing but the sums.
MatchedTotalsMatchOrders ==
  (~ setting.perOrderRows /\ sync.step = "close" /\ sync.late /\ sync.verdict = "matched") =>
    \A o \in Orders : rows[o].filled = book[o].filled

\* Whatever the end of the day settles, order by order or by its sums, is true.
DayEndIsTrue == EndedIsTrue /\ MatchedTotalsMatchOrders

\* The listener is subscribed and no notification is under way.
Quiet == link = "subscribed" /\ channel = <<>> /\ hand = Idle

TrueOrReported(o) ==
  rows[o].state = "planned" \/ rows[o].filled = book[o].filled \/ o \in problems

\* When all is quiet, the row of every order that went out tells the truth, or its
\* problem is on record.  (What was executed before the subscription of a fresh
\* session told nobody: so no order may have gone out before it.)
SilentMeansTrue == Quiet /\ ~ setting.earlySubmit => \A o \in Orders : TrueOrReported(o)

\* The same, but for orders that stand at PARTIALLY_FILLED (and where the report does
\* not list what is notified as well).
SilentMeansTrueButPartial ==
  Quiet /\ ~ setting.earlySubmit /\ ~ setting.perOrderRows =>
    \A o \in Orders : TrueOrReported(o) \/ rows[o].state = "partially_filled"

\* No notification and no synchronisation, however late, moves an order that has
\* ended or changes what was filled of it.
EndedRowsKeepFills ==
  \A o \in Orders : rows[o].state \notin UnsettledStates \cup {"none"} =>
    rows'[o].state = rows[o].state /\ rows'[o].filled = rows[o].filled

\* Listener and synchronisation together never store more shares than ordered.
FillFitsOrder == \A o \in Orders : rows[o].filled <= rows[o].quantity

\* What the store claims of an order is never too much and never taken back after
\* the order's end.
StoreClaimsNoMore ==
  [][NothingInvented' /\ FillFitsOrder' /\ EndedRowsKeepFills]_vars

\* After the session, a synchronisation that has the broker's totals never ends in
\* silence over a wrong row, also when the store refuses one of its transitions half
\* way: every row says what was executed, or the trading is off.  (Without totals it
\* brings up the orders it read as open, and no order whose submission was not recorded.)
DayEndIsNotSilent ==
  [][/\ ~ setting.perOrderRows
     /\ sync.step = "close" /\ sync.late /\ sync.verdict # "unavailable" /\ sync' = Idle
     => auto' \in Stopped \/ \A o \in Orders : rows'[o].filled = book'[o].filled]_vars

\* A problem with an order is seen by a person: while it is new, the listener
\* that found it goes on to stop the trading.
ListenerProblemStops ==
  (hand.step = "pause") ~> (auto \in Stopped \/ link \in {"dead", "down"})
=============================================================================
