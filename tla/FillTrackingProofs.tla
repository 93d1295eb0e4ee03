------------------------- MODULE FillTrackingProofs --------------------------
(*************************************************************************)
(* What the stored orders claim of the broker's book, for any number and *)
(* size of orders, any connection losses and any synchronisations beside *)
(* the listener.                                                         *)
(*************************************************************************)
EXTENDS FillTracking, SumTheorems, TLAPS

\* What notification n adds to the shares of order o executed or cancelled.
Part(n, o, kind) == IF n.order = o /\ n.kind = kind THEN n.quantity ELSE 0

\* What is on its way in the notifications ns fits between what is stored and the
\* broker's total: one can climb from the one to the other along them.
Climb(ns, o, kind, stored, total) ==
  \E f \in [0..Len(ns) -> 0..total] :
    /\ stored <= f[0]
    /\ \A i \in 1..Len(ns) : f[i - 1] + Part(ns[i], o, kind) <= f[i]

\* The notification the listener is applying counts as stored already.
InHand(o, kind) == IF hand.step = "apply" THEN Part(hand.n, o, kind) ELSE 0

StoredCut(o) == (Size - rows[o].quantity) + InHand(o, "cancel")
StoredFill(o) == rows[o].filled + InHand(o, "execution")
BookCut(o) == Size - book[o].quantity

\* The stored quantity never falls below the broker's, and the fills do not run
\* ahead of it while the report lists no orders.
Follows ==
  \A o \in Orders :
    /\ Climb(channel, o, "cancel", StoredCut(o), BookCut(o))
    /\ ~ setting.perOrderRows => Climb(channel, o, "execution", StoredFill(o), book[o].filled)

BookFits == \A o \in Orders : book[o].filled <= book[o].quantity

\* The order in the listener's hand is as old as its reading: its quantity nobody else
\* changes, its fills only a synchronisation, and that one tells the truth.
HandFits ==
  hand = Idle \/ hand = [step |-> "pause"]
    \/ /\ hand.step = "apply"
       /\ hand = [step |-> "apply", n |-> hand.n, order |-> hand.order]
       /\ hand.n \in Notification /\ hand.order \in Row
       /\ hand.order.filled <= hand.order.quantity
       /\ rows[hand.n.order].quantity = hand.order.quantity
       /\ \/ rows[hand.n.order].filled = hand.order.filled
          \/ setting.perOrderRows /\ rows[hand.n.order].filled <= book[hand.n.order].filled

\* A report says no more than what the broker executed by now.
ReportFits(report) ==
  /\ DOMAIN report \subseteq Orders
  /\ setting.perOrderRows \/ DOMAIN report = {}
  /\ \A o \in DOMAIN report : report[o].filled \in 0..book[o].filled

SyncFits ==
  \/ sync = Idle
  \/ /\ sync.step = "read"
     /\ sync = [step |-> "read", late |-> sync.late, totals |-> sync.totals,
                report |-> sync.report]
     /\ ReportFits(sync.report)
  \/ /\ sync.step = "apply"
     /\ sync = [step |-> "apply", late |-> sync.late, totals |-> sync.totals,
                report |-> sync.report, read |-> sync.read, open |-> sync.open,
                todo |-> sync.todo, found |-> sync.found]
     /\ ReportFits(sync.report)
     /\ sync.todo \subseteq DOMAIN sync.report
     /\ sync.open \subseteq Orders /\ sync.found \subseteq Orders
     /\ \A o \in sync.todo : sync.read[o] \in Row /\ sync.read[o].state \in OpenStates
  \/ /\ sync.step = "close"
     /\ sync = [step |-> "close", late |-> sync.late, verdict |-> sync.verdict,
                todo |-> sync.todo, found |-> sync.found]
     /\ sync.todo \subseteq Orders /\ sync.found \subseteq Orders

FillInv == TypeOK /\ BookFits /\ FillFitsOrder /\ Follows /\ HandFits /\ SyncFits
-----------------------------------------------------------------------------
\* Climbing along the notifications.

\* With nothing on its way what is stored must not exceed the total.
LEMMA ClimbEmpty ==
  ASSUME NEW o, NEW kind, NEW stored \in Nat, NEW total \in Nat, stored <= total
  PROVE  Climb(<<>>, o, kind, stored, total)
<1> DEFINE f == [i \in 0..Len(<<>>) |-> stored]
<1>1. f \in [0..Len(<<>>) -> 0..total] /\ stored <= f[0] /\ 1..Len(<<>>) = {}
  OBVIOUS
<1> QED
  BY <1>1 DEF Climb

\* Nothing stored lies above the total.
LEMMA ClimbBound ==
  ASSUME NEW ns \in Seq(Notification), NEW o, NEW kind, NEW stored \in Nat, NEW total \in Nat,
         Climb(ns, o, kind, stored, total)
  PROVE  stored <= total
<1>1. PICK f \in [0..Len(ns) -> 0..total] : stored <= f[0]
  BY DEF Climb
<1>2. Len(ns) \in Nat /\ f[0] \in 0..total
  BY <1>1
<1> QED
  BY <1>1, <1>2

\* Less may be stored, and the total may grow.
LEMMA ClimbLess ==
  ASSUME NEW ns \in Seq(Notification), NEW o, NEW kind, NEW stored \in Nat, NEW total \in Nat,
         NEW less \in Nat, NEW more \in Nat, less <= stored, total <= more,
         Climb(ns, o, kind, stored, total)
  PROVE  Climb(ns, o, kind, less, more)
<1>1. PICK f \in [0..Len(ns) -> 0..total] :
        stored <= f[0] /\ \A i \in 1..Len(ns) : f[i - 1] + Part(ns[i], o, kind) <= f[i]
  BY DEF Climb
<1>2. f \in [0..Len(ns) -> 0..more] /\ Len(ns) \in Nat /\ f[0] \in 0..total
  BY <1>1
<1>3. less <= f[0]
  BY <1>1, <1>2
<1> QED
  BY <1>1, <1>2, <1>3 DEF Climb

\* A notification of what the broker has just done adds a step at the top.
LEMMA ClimbAppend ==
  ASSUME NEW ns \in Seq(Notification), NEW n \in Notification, NEW o, NEW kind,
         NEW stored \in Nat, NEW total \in Nat, NEW more \in Nat,
         total + Part(n, o, kind) <= more, Climb(ns, o, kind, stored, total)
  PROVE  Climb(Append(ns, n), o, kind, stored, more)
<1>1. PICK f \in [0..Len(ns) -> 0..total] :
        stored <= f[0] /\ \A i \in 1..Len(ns) : f[i - 1] + Part(ns[i], o, kind) <= f[i]
  BY DEF Climb
<1> DEFINE ms == Append(ns, n)
           g == [i \in 0..Len(ms) |-> IF i <= Len(ns) THEN f[i] ELSE more]
<1>2. /\ Len(ns) \in Nat /\ Len(ms) = Len(ns) + 1 /\ ms[Len(ns) + 1] = n
      /\ \A i \in 1..Len(ns) : ms[i] = ns[i]
  OBVIOUS
<1>3. Part(n, o, kind) \in Nat
  BY FillAssumption DEF Part, Notification
<1>4. g \in [0..Len(ms) -> 0..more]
  BY <1>2, <1>3
<1>5. stored <= g[0]
  BY <1>1, <1>2
<1>6. ASSUME NEW i \in 1..Len(ms) PROVE g[i - 1] + Part(ms[i], o, kind) <= g[i]
  <2>1. CASE i <= Len(ns)
    BY <1>1, <1>2, <2>1
  <2>2. CASE i = Len(ns) + 1
    <3>1. g[i - 1] = f[Len(ns)] /\ g[i] = more /\ f[Len(ns)] \in 0..total /\ ms[i] = n
      BY <1>2, <2>2
    <3> QED
      BY <1>3, <3>1
  <2> QED
    BY <1>2, <2>1, <2>2
<1> QED
  BY <1>4, <1>5, <1>6 DEF Climb

\* Whoever takes the first notification has stored what it adds.
LEMMA ClimbTail ==
  ASSUME NEW ns \in Seq(Notification), ns # <<>>, NEW o, NEW kind,
         NEW stored \in Nat, NEW total \in Nat, Climb(ns, o, kind, stored, total)
  PROVE  Climb(Tail(ns), o, kind, stored + Part(Head(ns), o, kind), total)
<1>1. PICK f \in [0..Len(ns) -> 0..total] :
        stored <= f[0] /\ \A i \in 1..Len(ns) : f[i - 1] + Part(ns[i], o, kind) <= f[i]
  BY DEF Climb
<1> DEFINE ms == Tail(ns)
           g == [i \in 0..Len(ms) |-> f[i + 1]]
<1>2. /\ Len(ns) \in Nat /\ Len(ns) > 0 /\ Len(ms) = Len(ns) - 1 /\ Head(ns) = ns[1]
      /\ Head(ns) \in Notification
      /\ \A i \in 1..Len(ms) : ms[i] = ns[i + 1]
  OBVIOUS
<1>3. Part(Head(ns), o, kind) \in Nat
  BY <1>2, FillAssumption DEF Part, Notification
<1>4. g \in [0..Len(ms) -> 0..total]
  BY <1>2
<1>5. stored + Part(Head(ns), o, kind) <= g[0]
  <2>1. 1 \in 1..Len(ns) /\ 1 - 1 = 0
    BY <1>2
  <2>2. f[0] + Part(ns[1], o, kind) <= f[1]
    BY <1>1, <2>1
  <2>3. f[0] \in Nat /\ f[1] \in Nat /\ g[0] = f[1]
    BY <1>2, SMTT(20)
  <2> QED
    BY <1>1, <1>2, <1>3, <2>2, <2>3
<1>6. \A i \in 1..Len(ms) : g[i - 1] + Part(ms[i], o, kind) <= g[i]
  BY <1>1, <1>2
<1> QED
  BY <1>4, <1>5, <1>6 DEF Climb
-----------------------------------------------------------------------------
\* The invariant holds initially.
LEMMA FillInit == Init => FillInv
<1> SUFFICES ASSUME Init PROVE FillInv
  OBVIOUS
<1> USE FillAssumption
<1>1. \A o \in Orders : /\ rows[o] = NoRow /\ book[o].quantity = Size /\ book[o].filled = 0
  BY DEF Init
<1>2. TypeOK
  <2>1. setting.maxDrops \in Nat
    BY DEF Init
  <2>2. rows \in [Orders -> Row]
    BY DEF Init, NoRow, Row
  <2>3. book \in [Orders -> Book]
    BY DEF Init, Book
  <2>4. hand.step = "idle" /\ sync.step = "idle"
    BY DEF Init, Idle
  <2>5. channel \in Seq(Notification) /\ drops \in 0..setting.maxDrops
    BY <2>1 DEF Init
  <2>6. setting \in Settings /\ ended \in BOOLEAN /\ problems \subseteq Orders /\ beat \in BOOLEAN
    BY DEF Init
  <2> QED
    BY <2>2, <2>3, <2>4, <2>5, <2>6 DEF Init, TypeOK, AutomationState
<1>3. BookFits /\ FillFitsOrder
  BY <1>1 DEF BookFits, FillFitsOrder, NoRow
<1>4. Follows
  <2> SUFFICES ASSUME NEW o \in Orders
               PROVE  /\ Climb(channel, o, "cancel", StoredCut(o), BookCut(o))
                      /\ Climb(channel, o, "execution", StoredFill(o), book[o].filled)
    BY DEF Follows
  <2>1. channel = <<>> /\ StoredCut(o) = 0 /\ BookCut(o) = 0 /\ StoredFill(o) = 0 /\ book[o].filled = 0
    BY <1>1 DEF Init, StoredCut, BookCut, StoredFill, InHand, NoRow, Idle
  <2> QED
    BY <2>1, ClimbEmpty
<1>5. HandFits /\ SyncFits
  BY DEF Init, HandFits, SyncFits
<1> QED
  BY <1>2, <1>3, <1>4, <1>5 DEF FillInv

\* What is stored and what the broker has are natural numbers, in parts or in whole.
LEMMA Amounts ==
  ASSUME TypeOK, HandFits, NEW o \in Orders
  PROVE  /\ rows[o] \in Row /\ rows[o].quantity \in 0..Size /\ rows[o].filled \in 0..Size
         /\ book[o] \in Book /\ book[o].quantity \in 0..Size /\ book[o].filled \in 0..Size
         /\ InHand(o, "cancel") \in Nat /\ InHand(o, "execution") \in Nat
         /\ StoredCut(o) \in Nat /\ StoredFill(o) \in Nat /\ BookCut(o) \in Nat
         /\ Size \in Nat /\ channel \in Seq(Notification)
<1>1. /\ rows[o] \in Row /\ rows[o].quantity \in 0..Size /\ rows[o].filled \in 0..Size
      /\ book[o] \in Book /\ book[o].quantity \in 0..Size /\ book[o].filled \in 0..Size
      /\ Size \in Nat /\ channel \in Seq(Notification)
  BY FillAssumption DEF TypeOK, Row, Book
<1>2. hand.step = "apply" => hand.n \in Notification
  BY DEF HandFits, Idle
<1>3. InHand(o, "cancel") \in Nat /\ InHand(o, "execution") \in Nat
  BY <1>1, <1>2 DEF InHand, Part, Notification
<1> QED
  BY <1>1, <1>3, SMTT(20) DEF StoredCut, StoredFill, BookCut

\* The stored quantity of an order is at least the broker's, so that what the broker
\* executed fits into it.
LEMMA StoredFits ==
  ASSUME FillInv, NEW o \in Orders
  PROVE  /\ book[o].quantity + InHand(o, "cancel") <= rows[o].quantity
         /\ book[o].filled + InHand(o, "cancel") <= rows[o].quantity
         /\ ~ setting.perOrderRows => rows[o].filled + InHand(o, "execution") <= book[o].filled
<1>1. /\ StoredCut(o) <= BookCut(o)
      /\ ~ setting.perOrderRows => StoredFill(o) <= book[o].filled
  BY Amounts, ClimbBound DEF FillInv, Follows
<1>2. book[o].filled <= book[o].quantity
  BY DEF FillInv, BookFits
<1>3. /\ rows[o].quantity \in Nat /\ book[o].quantity \in Nat /\ book[o].filled \in Nat
      /\ InHand(o, "cancel") \in Nat /\ Size \in Nat
  BY Amounts DEF FillInv
<1>4. (Size - rows[o].quantity) + InHand(o, "cancel") <= Size - book[o].quantity
  BY <1>1 DEF StoredCut, BookCut
<1>5. book[o].quantity + InHand(o, "cancel") <= rows[o].quantity
  BY <1>3, <1>4
<1> QED
  BY <1>1, <1>2, <1>3, <1>5 DEF StoredFill
-----------------------------------------------------------------------------
\* The graphs lead to states of their own.
LEMMA GraphStates ==
  /\ \A s \in OrderState : OrderTransitions[s] \subseteq OrderState
  /\ \A s \in AutomationState : AutomationTransitions[s] \subseteq AutomationState
  BY DEF OrderTransitions, OrderState, AutomationTransitions, AutomationState

\* People, planner and submission keep the types.
LEMMA TypePeople ==
  ASSUME TypeOK,
         Switch \/ EndSession \/ \E o \in Orders : Plan(o) \/ Place(o) \/ RecordPlaced(o)
  PROVE  TypeOK'
<1> USE DEF TypeOK
<1>1. CASE Switch
  <2>1. auto' \in AutomationState
    BY <1>1, GraphStates DEF Switch
  <2> QED
    BY <1>1, <2>1 DEF Switch, brokerVars, storeVars, listenerVars
<1>2. ASSUME NEW o \in Orders, Plan(o) PROVE TypeOK'
  <2>1. rows' \in [Orders -> Row]
    BY <1>2 DEF Plan, Row, OrderState
  <2> QED
    BY <1>2, <2>1 DEF Plan, brokerVars, listenerVars
<1>3. ASSUME NEW o \in Orders, Place(o) PROVE TypeOK'
  <2>1. book' \in [Orders -> Book]
    BY <1>3 DEF Place, Book
  <2> QED
    BY <1>3, <2>1 DEF Place, storeVars, listenerVars
<1>4. ASSUME NEW o \in Orders, RecordPlaced(o) PROVE TypeOK'
  <2>1. rows' \in [Orders -> Row]
    BY <1>4, ZenonT(60) DEF RecordPlaced, Row, OrderState, SubmittedState
  <2> QED
    BY <1>4, <2>1 DEF RecordPlaced, brokerVars, listenerVars
<1>5. CASE EndSession
  <2>1. book' \in [Orders -> Book]
    BY <1>5 DEF EndSession, Book
  <2> QED
    BY <1>5, <2>1 DEF EndSession, storeVars, listenerVars
<1> QED
  BY <1>1, <1>2, <1>3, <1>4, <1>5

\* What a subscribed listener is told.
LEMMA Notified ==
  ASSUME TypeOK, NEW o \in Orders, NEW kind \in {"execution", "cancel", "rejection"},
         NEW q \in 0..Size, Notify(o, kind, q)
  PROVE  /\ channel' = channel \/ \E n \in Notification :
               n.order = o /\ n.kind = kind /\ n.quantity = q /\ channel' = Append(channel, n)
         /\ channel' \in Seq(Notification)
<1>1. ASSUME NEW w \in {Size, book[o].quantity}
      PROVE  [order |-> o, kind |-> kind, quantity |-> q, orderQuantity |-> w] \in Notification
  <2>1. w \in 0..Size
    BY FillAssumption DEF TypeOK, Book
  <2> QED
    BY <2>1 DEF Notification
<1>2. channel \in Seq(Notification)
  BY DEF TypeOK
<1>3. CASE link = "subscribed"
  <2>1. PICK w \in {Size, book[o].quantity} :
          channel' = Append(channel, [order |-> o, kind |-> kind, quantity |-> q, orderQuantity |-> w])
    BY <1>3 DEF Notify
  <2> DEFINE n == [order |-> o, kind |-> kind, quantity |-> q, orderQuantity |-> w]
  <2>2. n \in Notification /\ n.order = o /\ n.kind = kind /\ n.quantity = q
    BY <1>1
  <2>3. channel' = Append(channel, n)
    BY <2>1
  <2> HIDE DEF n
  <2> QED
    BY <1>2, <2>2, <2>3
<1>4. CASE link # "subscribed"
  BY <1>2, <1>4 DEF Notify
<1> QED
  BY <1>3, <1>4

\* The broker executes, cancels and rejects within the order.
LEMMA BrokerStep ==
  ASSUME TypeOK, BookFits, NEW o \in Orders, Execute(o) \/ CancelRest(o) \/ Reject(o)
  PROVE  /\ book' \in [Orders -> Book] /\ UNCHANGED <<ended, setting, rows, problems, auto, link, beat, hand, sync, drops>>
         /\ \A p \in Orders \ {o} : book'[p] = book[p]
         /\ BookFits'
         /\ \E kind \in {"execution", "cancel", "rejection"}, q \in 0..Size :
              /\ Notify(o, kind, q)
              /\ book'[o].filled = book[o].filled + (IF kind = "execution" THEN q ELSE 0)
              /\ book'[o].quantity = book[o].quantity - (IF kind = "cancel" THEN q ELSE 0)
<1>1. /\ book \in [Orders -> Book] /\ book[o] \in Book
      /\ book[o].quantity \in Nat /\ book[o].filled \in Nat /\ Size \in Nat
      /\ book[o].filled <= book[o].quantity /\ book[o].quantity <= Size
  BY FillAssumption DEF TypeOK, Book, BookFits
<1>2. CASE Execute(o)
  <2>1. PICK q \in 1..Outstanding(o) :
          /\ book' = [book EXCEPT ![o].filled = @ + q, ![o].open = q < Outstanding(o)]
          /\ Notify(o, "execution", q)
    BY <1>2 DEF Execute
  <2>2. q \in Nat /\ q <= book[o].quantity - book[o].filled /\ q \in 0..Size
    BY <1>1 DEF Outstanding
  <2>3. PICK more \in BOOLEAN : book' = [book EXCEPT ![o].filled = @ + q, ![o].open = more]
    <3>1. (q < Outstanding(o)) \in BOOLEAN
      OBVIOUS
    <3> QED
      BY <2>1, <3>1, Zenon
  <2> DEFINE b == [quantity |-> book[o].quantity, filled |-> book[o].filled + q, open |-> more,
                   rejected |-> book[o].rejected]
  <2>4. book' = [book EXCEPT ![o] = b]
    <3> DEFINE r == [book[o] EXCEPT !.filled = book[o].filled + q]
               g == [book EXCEPT ![o] = r]
    <3>4. r \in Book /\ r = [quantity |-> book[o].quantity, filled |-> book[o].filled + q,
                            open |-> book[o].open, rejected |-> book[o].rejected]
      BY <1>1, <2>2 DEF Book
    <3>2. book' = [g EXCEPT ![o] = [g[o] EXCEPT !.open = more]]
      BY <2>3
    <3> HIDE DEF r
    <3>1. [r EXCEPT !.open = more] = b
      <4>1. [r EXCEPT !.open = more] = [quantity |-> r.quantity, filled |-> r.filled, open |-> more,
                                        rejected |-> r.rejected]
        BY <3>4 DEF Book
      <4> QED
        BY <3>4, <4>1
    <3> HIDE DEF b
    <3>3. g[o] = r
      BY <1>1
    <3> QED
      BY <1>1, <3>1, <3>2, <3>3
  <2>5. b \in Book /\ b.filled <= b.quantity
    BY <1>1, <2>2 DEF Book
  <2>6. b.filled = book[o].filled + q /\ b.quantity = book[o].quantity
    OBVIOUS
  <2> HIDE DEF b
  <2>7. book' \in [Orders -> Book] /\ book'[o] = b /\ \A p \in Orders \ {o} : book'[p] = book[p]
    BY <1>1, <2>4, <2>5
  <2>8. BookFits'
    BY <2>5, <2>7 DEF BookFits
  <2>9. Notify(o, "execution", q) /\ book'[o].filled = book[o].filled + q
        /\ book'[o].quantity = book[o].quantity - 0
    BY <1>1, <2>1, <2>6, <2>7
  <2> QED
    BY <1>2, <2>2, <2>7, <2>8, <2>9 DEF Execute, storeVars
<1>3. CASE CancelRest(o)
  <2>1. PICK q \in 1..Outstanding(o) :
          /\ book' = [book EXCEPT ![o].quantity = @ - q, ![o].open = q < Outstanding(o)]
          /\ Notify(o, "cancel", q)
    BY <1>3 DEF CancelRest
  <2>2. q \in Nat /\ q <= book[o].quantity - book[o].filled /\ q \in 0..Size
    BY <1>1 DEF Outstanding
  <2>3. PICK more \in BOOLEAN : book' = [book EXCEPT ![o].quantity = @ - q, ![o].open = more]
    <3>1. (q < Outstanding(o)) \in BOOLEAN
      OBVIOUS
    <3> QED
      BY <2>1, <3>1, Zenon
  <2> DEFINE b == [quantity |-> book[o].quantity - q, filled |-> book[o].filled, open |-> more,
                   rejected |-> book[o].rejected]
  <2>4. book' = [book EXCEPT ![o] = b]
    <3> DEFINE r == [book[o] EXCEPT !.quantity = book[o].quantity - q]
               g == [book EXCEPT ![o] = r]
    <3>4. r \in Book /\ r = [quantity |-> book[o].quantity - q, filled |-> book[o].filled,
                            open |-> book[o].open, rejected |-> book[o].rejected]
      BY <1>1, <2>2 DEF Book
    <3>2. book' = [g EXCEPT ![o] = [g[o] EXCEPT !.open = more]]
      BY <2>3
    <3> HIDE DEF r
    <3>1. [r EXCEPT !.open = more] = b
      <4>1. [r EXCEPT !.open = more] = [quantity |-> r.quantity, filled |-> r.filled, open |-> more,
                                        rejected |-> r.rejected]
        BY <3>4 DEF Book
      <4> QED
        BY <3>4, <4>1
    <3> HIDE DEF b
    <3>3. g[o] = r
      BY <1>1
    <3> QED
      BY <1>1, <3>1, <3>2, <3>3
  <2>5. b \in Book /\ b.filled <= b.quantity
    BY <1>1, <2>2 DEF Book
  <2>6. b.filled = book[o].filled /\ b.quantity = book[o].quantity - q
    OBVIOUS
  <2> HIDE DEF b
  <2>7. book' \in [Orders -> Book] /\ book'[o] = b /\ \A p \in Orders \ {o} : book'[p] = book[p]
    BY <1>1, <2>4, <2>5
  <2>8. BookFits'
    BY <2>5, <2>7 DEF BookFits
  <2>9. Notify(o, "cancel", q) /\ book'[o].filled = book[o].filled + 0
        /\ book'[o].quantity = book[o].quantity - q
    BY <1>1, <2>1, <2>6, <2>7
  <2> QED
    BY <1>3, <2>2, <2>7, <2>8, <2>9 DEF CancelRest, storeVars
<1>4. CASE Reject(o)
  <2>1. book' = [book EXCEPT ![o].rejected = TRUE, ![o].open = FALSE] /\ Notify(o, "rejection", 0)
    BY <1>4 DEF Reject
  <2>2. /\ book' \in [Orders -> Book] /\ \A p \in Orders \ {o} : book'[p] = book[p]
        /\ book'[o].filled = book[o].filled /\ book'[o].quantity = book[o].quantity
    BY <1>1, <2>1 DEF Book
  <2>3. BookFits'
    BY <2>2 DEF BookFits
  <2>4. 0 \in 0..Size /\ book'[o].filled = book[o].filled + 0 /\ book'[o].quantity = book[o].quantity - 0
    BY <1>1, <2>2
  <2> QED
    BY <1>4, <2>1, <2>2, <2>3, <2>4 DEF Reject, storeVars
<1> QED
  BY <1>2, <1>3, <1>4
-----------------------------------------------------------------------------
\* Row w is what a notification wrote over row: nothing, a new state with the fills that go
\* with it, or a smaller quantity that still holds the fills of the reading.
Wrote(w, row, order, n) ==
  \/ /\ Applied(order, n).state = order.state
     /\ w.state = row.state /\ w.filled = row.filled /\ w.quantity = row.quantity
  \/ /\ Applied(order, n).state # order.state /\ w.state = Applied(order, n).state
     /\ w.quantity = row.quantity /\ w.filled <= order.quantity
     /\ \/ n.kind # "execution" /\ w.filled = order.filled
        \/ n.kind = "execution" /\ w.filled = order.filled + n.quantity
  \/ /\ Applied(order, n).state = order.state
     /\ w.state = row.state /\ w.filled = row.filled
     /\ n.kind = "cancel" /\ w.quantity = row.quantity - n.quantity
     /\ order.filled <= w.quantity

\* What a notification that is not refused writes.
LEMMA WrittenFits ==
  ASSUME NEW row \in Row, NEW order \in Row, NEW n \in Notification, ~ Refused(order, n),
         order.filled <= order.quantity, row.quantity = order.quantity
  PROVE  Written(row, order, n) \in Row /\ Wrote(Written(row, order, n), row, order, n)
<1> DEFINE new == Applied(order, n)
           w == Written(row, order, n)
<1>1. /\ order.quantity \in 0..Size /\ order.filled \in 0..Size /\ n.quantity \in 0..Size /\ Size \in Nat
      /\ ~ Problem(order, n) /\ row.filled \in 0..Size /\ row.quantity \in 0..Size
      /\ row.state \in OrderState \cup {"none"}
  BY FillAssumption DEF Row, Notification, Refused
<1>2. /\ new \in Row
      /\ \/ n.kind # "execution" /\ new.quantity = order.quantity /\ new.filled = order.filled
         \/ /\ n.kind = "execution" /\ new.quantity = order.quantity
            /\ new.filled = order.filled + n.quantity /\ new.filled <= order.quantity
         \/ /\ n.kind = "cancel" /\ new.quantity = order.quantity - n.quantity
            /\ new.state = order.state /\ new.filled = order.filled /\ order.filled <= new.quantity
  <2>1. CASE n.kind = "execution"
    <3> DEFINE sum == order.filled + n.quantity
               st == IF sum = order.quantity THEN "filled" ELSE "partially_filled"
               e == [quantity |-> order.quantity, filled |-> sum, state |-> st]
    <3>1. sum \in 0..Size /\ sum <= order.quantity
      BY <1>1, <2>1 DEF Problem
    <3>2. st \in OrderState
      BY DEF OrderState
    <3> HIDE DEF st, sum
    <3>3. new = [order EXCEPT !.filled = sum, !.state = st]
      BY <2>1 DEF Applied, Executed, sum, st
    <3>4. [order EXCEPT !.filled = sum] = [quantity |-> order.quantity, filled |-> sum, state |-> order.state]
      BY DEF Row
    <3>5. new = e
      BY <3>3, <3>4
    <3>6. e \in Row
      BY <1>1, <3>1, <3>2 DEF Row
    <3>7. sum = order.filled + n.quantity
      BY DEF sum
    <3> HIDE DEF new
    <3> QED
      BY <2>1, <3>1, <3>5, <3>6, <3>7
  <2>2. CASE n.kind = "cancel" /\ (n.quantity = 0 \/ n.quantity >= order.quantity - order.filled)
    <3>1. new = [order EXCEPT !.state = "canceled"]
      BY <2>2 DEF Applied, Cancelled
    <3> QED
      BY <2>2, <3>1 DEF Row, OrderState
  <2>3. CASE n.kind = "cancel" /\ ~ (n.quantity = 0 \/ n.quantity >= order.quantity - order.filled)
    <3>1. new = [order EXCEPT !.quantity = order.quantity - n.quantity]
      BY <2>3 DEF Applied, Cancelled
    <3>2. order.quantity - n.quantity \in 0..Size /\ order.filled <= order.quantity - n.quantity
      BY <1>1, <2>3
    <3> QED
      BY <1>1, <2>3, <3>1, <3>2 DEF Row
  <2>4. CASE n.kind = "rejection"
    <3>1. new = [order EXCEPT !.state = "rejected"]
      BY <2>4 DEF Applied
    <3> QED
      BY <2>4, <3>1 DEF Row, OrderState
  <2> QED
    BY <2>1, <2>2, <2>3, <2>4 DEF Notification
<1> HIDE DEF new, w
<1>3. CASE new.state # order.state
  <2>1. new.state \in OrderState \cup {"none"} /\ new.filled \in 0..Size
    BY <1>2 DEF Row
  <2>8. new.quantity = order.quantity
    BY <1>2, <1>3
  <2>2. w = [row EXCEPT !.state = new.state, !.filled = new.filled]
    BY <1>3, <2>8 DEF Written, new, w
  <2>3. [row EXCEPT !.state = new.state] =
          [state |-> new.state, quantity |-> row.quantity, filled |-> row.filled]
    BY DEF Row
  <2>4. w = [state |-> new.state, quantity |-> row.quantity, filled |-> new.filled]
    BY <2>2, <2>3
  <2>5. w \in Row /\ w.state = new.state /\ w.quantity = row.quantity /\ w.filled = new.filled
    BY <1>1, <2>1, <2>4 DEF Row
  <2>6. new.filled <= order.quantity
    BY <1>1, <1>2, <1>3
  <2>7. \/ n.kind # "execution" /\ new.filled = order.filled
        \/ n.kind = "execution" /\ new.filled = order.filled + n.quantity
    BY <1>2, <1>3
  <2> QED
    BY <1>3, <2>5, <2>6, <2>7 DEF new, Wrote, w
<1>4. CASE new.state = order.state /\ new.quantity # order.quantity
  <2>1. w = [row EXCEPT !.quantity = new.quantity]
    BY <1>4 DEF Written, new, w
  <2>2. /\ n.kind = "cancel" /\ new.quantity = row.quantity - n.quantity
        /\ order.filled <= new.quantity /\ new.quantity \in 0..Size
    BY <1>2, <1>4 DEF Row
  <2> QED
    BY <1>1, <1>4, <2>1, <2>2 DEF Row, Wrote, w, new
<1>5. CASE new.state = order.state /\ new.quantity = order.quantity
  <2>1. w = row
    BY <1>5 DEF Written, new, w
  <2> QED
    BY <1>5, <2>1 DEF Wrote, w, new
<1> QED
  BY <1>3, <1>4, <1>5 DEF w
-----------------------------------------------------------------------------
\* A report under comparison stays true while the broker executes more.
LEMMA SyncStays ==
  ASSUME TypeOK, SyncFits, TypeOK', UNCHANGED <<sync, setting>>,
         \A o \in Orders : book[o].filled <= book'[o].filled
  PROVE  SyncFits'
<1>1. ASSUME NEW report, ReportFits(report) PROVE ReportFits(report)'
  <2> SUFFICES ASSUME NEW o \in DOMAIN report PROVE report[o].filled \in 0..book'[o].filled
    BY <1>1 DEF ReportFits
  <2>1. o \in Orders /\ report[o].filled \in 0..book[o].filled
    BY <1>1 DEF ReportFits
  <2>2. book[o].filled \in Nat /\ book'[o].filled \in Nat /\ book[o].filled <= book'[o].filled
    BY <2>1, FillAssumption DEF TypeOK, Book
  <2> QED
    BY <2>1, <2>2
<1>2. ReportFits(sync.report) => ReportFits(sync.report)'
  BY <1>1 DEF ReportFits
<1> QED
  BY <1>2 DEF SyncFits

\* Steps after which every amount is as it was.
LEMMA StillStep ==
  ASSUME FillInv, TypeOK', SyncFits', UNCHANGED <<channel, setting>>,
         hand' = hand \/ (hand = [step |-> "pause"] /\ hand' = Idle),
         \A o \in Orders : /\ rows'[o].quantity = rows[o].quantity /\ rows'[o].filled = rows[o].filled
                           /\ book'[o].quantity = book[o].quantity /\ book'[o].filled = book[o].filled
  PROVE  FillInv'
<1>1. BookFits' /\ FillFitsOrder'
  BY DEF FillInv, BookFits, FillFitsOrder
<1>2. HandFits'
  <2>1. CASE hand' = hand
    <3>1. hand.step = "apply" /\ hand.n \in Notification => hand.n.order \in Orders
      BY DEF Notification
    <3> QED
      BY <2>1, <3>1 DEF FillInv, HandFits
  <2>2. CASE hand' = Idle
    BY <2>2 DEF HandFits
  <2> QED
    BY <2>1, <2>2
<1>3. \A o, kind : InHand(o, kind)' = InHand(o, kind)
  BY DEF InHand, Idle
<1>4. Follows'
  BY <1>3 DEF FillInv, Follows, StoredCut, StoredFill, BookCut
<1> QED
  BY <1>1, <1>2, <1>4 DEF FillInv

\* The broker goes on: what it does is added to its total, and the listener is told
\* of all of it or of nothing.
LEMMA BrokerKeeps ==
  ASSUME FillInv, NEW o \in Orders, Execute(o) \/ CancelRest(o) \/ Reject(o)
  PROVE  FillInv'
<1>1. PICK kind \in {"execution", "cancel", "rejection"}, q \in 0..Size :
        /\ Notify(o, kind, q)
        /\ book'[o].filled = book[o].filled + (IF kind = "execution" THEN q ELSE 0)
        /\ book'[o].quantity = book[o].quantity - (IF kind = "cancel" THEN q ELSE 0)
  BY BrokerStep DEF FillInv
<1>2. /\ book' \in [Orders -> Book] /\ BookFits' /\ \A p \in Orders \ {o} : book'[p] = book[p]
      /\ UNCHANGED <<ended, setting, rows, problems, auto, link, beat, hand, sync, drops>>
  BY BrokerStep DEF FillInv
<1>3. /\ channel' = channel \/ \E n \in Notification :
               n.order = o /\ n.kind = kind /\ n.quantity = q /\ channel' = Append(channel, n)
      /\ channel' \in Seq(Notification)
  BY <1>1, Notified DEF FillInv
<1>4. TypeOK'
  BY <1>2, <1>3 DEF FillInv, TypeOK
<1>5. \A p \in Orders : book[p].filled \in Nat /\ book[p].quantity \in Nat /\ book'[p].filled \in Nat
  BY <1>2, FillAssumption DEF FillInv, TypeOK, Book
<1>6. \A p \in Orders : book[p].filled <= book'[p].filled
  BY <1>1, <1>2, <1>5
<1>7. SyncFits'
  BY <1>2, <1>4, <1>6, SyncStays DEF FillInv
<1>8. FillFitsOrder'
  BY <1>2 DEF FillInv, FillFitsOrder
<1>9. HandFits'
  <2>1. hand.step = "apply" /\ hand.n \in Notification => hand.n.order \in Orders
    BY DEF Notification
  <2>2. \A p \in Orders : rows[p].filled \in Nat
    BY Amounts DEF FillInv
  <2>3. \A p \in Orders : rows[p].filled <= book[p].filled => rows[p].filled <= book'[p].filled
    BY <1>5, <1>6, <2>2
  <2> QED
    BY <1>2, <2>1, <2>3 DEF FillInv, HandFits
<1>10. Follows'
  <2> SUFFICES ASSUME NEW p \in Orders
               PROVE  /\ Climb(channel', p, "cancel", StoredCut(p), BookCut(p)')
                      /\ ~ setting.perOrderRows =>
                           Climb(channel', p, "execution", StoredFill(p), book'[p].filled)
    BY <1>2 DEF Follows, StoredCut, StoredFill, InHand
  <2>1. /\ Climb(channel, p, "cancel", StoredCut(p), BookCut(p))
        /\ ~ setting.perOrderRows => Climb(channel, p, "execution", StoredFill(p), book[p].filled)
    BY DEF FillInv, Follows
  <2>2. /\ StoredCut(p) \in Nat /\ StoredFill(p) \in Nat /\ BookCut(p) \in Nat /\ Size \in Nat
        /\ channel \in Seq(Notification) /\ book[p].quantity \in 0..Size
    BY Amounts DEF FillInv
  <2>3. BookCut(p)' \in Nat /\ book'[p].filled \in Nat /\ book'[p].quantity \in 0..Size
    BY <1>2, <2>2, FillAssumption DEF BookCut, Book
  <2>4. /\ BookCut(p)' = BookCut(p) + (IF p = o /\ kind = "cancel" THEN q ELSE 0)
        /\ book'[p].filled = book[p].filled + (IF p = o /\ kind = "execution" THEN q ELSE 0)
    <3>1. CASE p = o
      <4>1. kind = "cancel" => kind # "execution"
        OBVIOUS
      <4>2. book[p].quantity \in Int /\ book'[p].quantity \in Int /\ Size \in Int /\ q \in Int
        BY <2>2, <2>3
      <4>3. book'[p].quantity = book[p].quantity - (IF kind = "cancel" THEN q ELSE 0)
        BY <1>1, <3>1
      <4>4. Size - book'[p].quantity = (Size - book[p].quantity) + (IF kind = "cancel" THEN q ELSE 0)
        BY <4>2, <4>3
      <4> QED
        BY <1>1, <3>1, <4>4 DEF BookCut
    <3>2. CASE p # o
      <4>1. book'[p] = book[p]
        BY <1>2, <3>2
      <4> QED
        BY <2>2, <3>2, <4>1, <1>5 DEF BookCut
    <3> QED
      BY <3>1, <3>2
  <2>5. CASE channel' = channel
    <3>1. BookCut(p) <= BookCut(p)' /\ book[p].filled <= book'[p].filled
      BY <1>5, <2>2, <2>4
    <3> QED
      BY <1>5, <2>1, <2>2, <2>3, <2>5, <3>1, ClimbLess
  <2>6. ASSUME NEW n \in Notification, n.order = o, n.kind = kind, n.quantity = q,
               channel' = Append(channel, n)
        PROVE  /\ Climb(channel', p, "cancel", StoredCut(p), BookCut(p)')
               /\ ~ setting.perOrderRows =>
                    Climb(channel', p, "execution", StoredFill(p), book'[p].filled)
    <3>1. /\ BookCut(p) + Part(n, p, "cancel") <= BookCut(p)'
          /\ book[p].filled + Part(n, p, "execution") <= book'[p].filled
      BY <1>5, <2>2, <2>4, <2>6 DEF Part
    <3> QED
      BY <1>5, <2>1, <2>2, <2>3, <2>6, <3>1, ClimbAppend
  <2> QED
    BY <1>3, <2>5, <2>6
<1> QED
  BY <1>2, <1>4, <1>7, <1>8, <1>9, <1>10 DEF FillInv
-----------------------------------------------------------------------------
\* With the connection gone there is nothing on its way any more.
LEMMA DownKeeps ==
  ASSUME FillInv, TypeOK', channel' = <<>>, hand' = Idle,
         UNCHANGED <<book, rows, setting, sync>>
  PROVE  FillInv'
<1>1. BookFits' /\ FillFitsOrder' /\ HandFits'
  BY DEF FillInv, BookFits, FillFitsOrder, HandFits
<1>2. SyncFits'
  <2>1. \A o \in Orders : book[o].filled <= book'[o].filled
    BY Amounts DEF FillInv
  <2> QED
    BY <2>1, SyncStays DEF FillInv
<1>3. Follows'
  <2> SUFFICES ASSUME NEW o \in Orders
               PROVE  /\ Climb(<<>>, o, "cancel", StoredCut(o)', BookCut(o))
                      /\ ~ setting.perOrderRows =>
                           Climb(<<>>, o, "execution", StoredFill(o)', book[o].filled)
    BY DEF Follows, BookCut
  <2>1. /\ rows[o].quantity \in 0..Size /\ rows[o].filled \in 0..Size /\ Size \in Nat
        /\ book[o].quantity \in 0..Size /\ book[o].filled \in 0..Size
        /\ InHand(o, "cancel") \in Nat /\ InHand(o, "execution") \in Nat
    BY Amounts DEF FillInv
  <2>2. StoredCut(o)' = Size - rows[o].quantity /\ StoredFill(o)' = rows[o].filled
    BY <2>1 DEF StoredCut, StoredFill, InHand, Idle
  <2>5. /\ book[o].quantity + InHand(o, "cancel") <= rows[o].quantity
        /\ ~ setting.perOrderRows => rows[o].filled + InHand(o, "execution") <= book[o].filled
    BY StoredFits
  <2>3. /\ book[o].quantity <= rows[o].quantity
        /\ ~ setting.perOrderRows => rows[o].filled <= book[o].filled
    BY <2>1, <2>5
  <2>4. /\ StoredCut(o)' \in Nat /\ BookCut(o) \in Nat /\ StoredCut(o)' <= BookCut(o)
        /\ StoredFill(o)' \in Nat /\ book[o].filled \in Nat
    BY <2>1, <2>2, <2>3, SMTT(20) DEF BookCut
  <2> QED
    BY <2>2, <2>3, <2>4, ClimbEmpty
<1> QED
  BY <1>1, <1>2, <1>3 DEF FillInv

\* The listener takes the first notification, and the order with it as it stands.
LEMMA ReceiveKeeps ==
  ASSUME FillInv, Receive
  PROVE  FillInv'
<1> DEFINE n == Head(channel)
<1>1. /\ channel \in Seq(Notification) /\ channel # <<>> /\ hand = Idle
      /\ channel' = Tail(channel) /\ n \in Notification /\ n.order \in Orders
      /\ channel' \in Seq(Notification)
      /\ UNCHANGED <<book, ended, setting, rows, auto, link, beat, sync, drops>>
  <2>1. /\ channel # <<>> /\ hand = Idle /\ channel' = Tail(channel)
        /\ UNCHANGED <<book, ended, setting, rows, auto, link, beat, sync, drops>>
    BY DEF Receive, brokerVars
  <2>2. channel \in Seq(Notification)
    BY DEF FillInv, TypeOK
  <2>3. n \in Notification /\ Tail(channel) \in Seq(Notification)
    BY <2>1, <2>2
  <2> QED
    BY <2>1, <2>2, <2>3 DEF Notification
<1>2. \/ hand' = [step |-> "apply", n |-> n, order |-> rows[n.order]] /\ problems' = problems
      \/ hand' = [step |-> "pause"] /\ problems' = problems \cup {n.order}
  BY DEF Receive
<1>3. hand'.step \in {"apply", "pause"} /\ (hand'.step = "apply" => hand'.n = n)
  BY <1>2
<1>4. TypeOK'
  BY <1>1, <1>2, <1>3 DEF FillInv, TypeOK
<1>5. BookFits' /\ FillFitsOrder'
  BY <1>1 DEF FillInv, BookFits, FillFitsOrder
<1>6. SyncFits'
  <2>1. \A o \in Orders : book[o].filled <= book'[o].filled
    BY <1>1, Amounts, SMTT(20) DEF FillInv
  <2> QED
    BY <1>1, <1>4, <2>1, SyncStays DEF FillInv
<1>7. HandFits'
  <2>1. CASE hand' = [step |-> "apply", n |-> n, order |-> rows[n.order]]
    <3>1. /\ hand'.step = "apply" /\ hand'.n = n /\ hand'.order = rows[n.order]
          /\ hand' = [step |-> "apply", n |-> hand'.n, order |-> hand'.order]
      BY <2>1
    <3>2. rows[n.order] \in Row /\ rows[n.order].filled <= rows[n.order].quantity
      BY <1>1 DEF FillInv, TypeOK, FillFitsOrder
    <3> QED
      BY <1>1, <3>1, <3>2 DEF HandFits
  <2>2. CASE hand' = [step |-> "pause"]
    BY <2>2 DEF HandFits
  <2> QED
    BY <1>2, <2>1, <2>2
<1>8. Follows'
  <2> SUFFICES ASSUME NEW o \in Orders
               PROVE  /\ Climb(Tail(channel), o, "cancel", StoredCut(o)', BookCut(o))
                      /\ ~ setting.perOrderRows =>
                           Climb(Tail(channel), o, "execution", StoredFill(o)', book[o].filled)
    BY <1>1 DEF Follows, BookCut
  <2>1. /\ rows[o].quantity \in 0..Size /\ rows[o].filled \in 0..Size /\ Size \in Nat
        /\ book[o].filled \in Nat /\ BookCut(o) \in Nat
        /\ StoredCut(o) \in Nat /\ StoredFill(o) \in Nat
    BY Amounts DEF FillInv
  <2>2. StoredCut(o) = Size - rows[o].quantity /\ StoredFill(o) = rows[o].filled
    BY <1>1, <2>1 DEF StoredCut, StoredFill, InHand, Idle
  <2>3. /\ Climb(channel, o, "cancel", StoredCut(o), BookCut(o))
        /\ ~ setting.perOrderRows => Climb(channel, o, "execution", StoredFill(o), book[o].filled)
    BY DEF FillInv, Follows
  <2>4. Part(n, o, "cancel") \in Nat /\ Part(n, o, "execution") \in Nat
    BY <1>1, <2>1 DEF Part, Notification
  <2>5. /\ Climb(Tail(channel), o, "cancel", StoredCut(o) + Part(n, o, "cancel"), BookCut(o))
        /\ ~ setting.perOrderRows =>
             Climb(Tail(channel), o, "execution", StoredFill(o) + Part(n, o, "execution"), book[o].filled)
    BY <1>1, <2>1, <2>3, ClimbTail
  <2>6. /\ StoredCut(o)' \in Nat /\ StoredCut(o)' <= StoredCut(o) + Part(n, o, "cancel")
        /\ StoredFill(o)' \in Nat /\ StoredFill(o)' <= StoredFill(o) + Part(n, o, "execution")
    <3>1. /\ InHand(o, "cancel")' \in {0, Part(n, o, "cancel")}
          /\ InHand(o, "execution")' \in {0, Part(n, o, "execution")}
      BY <1>3 DEF InHand
    <3>2. /\ StoredCut(o)' = (Size - rows[o].quantity) + InHand(o, "cancel")'
          /\ StoredFill(o)' = rows[o].filled + InHand(o, "execution")'
      BY <1>1 DEF StoredCut, StoredFill
    <3>3. Size - rows[o].quantity \in Nat /\ rows[o].filled \in Nat
      BY <2>1
    <3> HIDE DEF n
    <3> QED
      BY <2>2, <2>4, <3>1, <3>2, <3>3
  <2>7. /\ Tail(channel) \in Seq(Notification)
        /\ StoredCut(o) + Part(n, o, "cancel") \in Nat
        /\ StoredFill(o) + Part(n, o, "execution") \in Nat
    BY <1>1, <2>1, <2>4, SMTT(20)
  <2>8. BookCut(o) <= BookCut(o) /\ book[o].filled <= book[o].filled
    BY <2>1
  <2> QED
    BY <2>1, <2>5, <2>6, <2>7, <2>8, ClimbLess
<1> QED
  BY <1>4, <1>5, <1>6, <1>7, <1>8 DEF FillInv
-----------------------------------------------------------------------------
\* The order in the listener's hand and the row it stands for.
LEMMA InTheHand ==
  ASSUME FillInv, hand.step = "apply"
  PROVE  /\ hand.n \in Notification /\ hand.n.order \in Orders /\ hand.order \in Row
         /\ hand.order.filled <= hand.order.quantity
         /\ rows[hand.n.order] \in Row
         /\ rows[hand.n.order].quantity = hand.order.quantity
         /\ \/ rows[hand.n.order].filled = hand.order.filled
            \/ setting.perOrderRows /\ rows[hand.n.order].filled <= book[hand.n.order].filled
         /\ \A p \in Orders, kind \in {"cancel", "execution"} :
              InHand(p, kind) = Part(hand.n, p, kind)
<1>1. hand # Idle /\ hand # [step |-> "pause"]
  BY DEF Idle
<1>2. hand.n \in Notification
  BY <1>1 DEF FillInv, HandFits
<1>3. hand.n.order \in Orders
  BY <1>2 DEF Notification
<1> QED
  BY <1>1, <1>2, <1>3 DEF FillInv, HandFits, TypeOK, InHand

\* What the listener found to be a problem it does not write.
LEMMA RefusedKeeps ==
  ASSUME FillInv, hand.step = "apply", hand' = [step |-> "pause"],
         problems' = problems \cup {hand.n.order},
         UNCHANGED <<brokerVars, rows, auto, link, beat, channel, sync, drops>>
  PROVE  FillInv'
<1>1. hand.n.order \in Orders /\ hand'.step = "pause"
  BY InTheHand
<1>2. TypeOK'
  BY <1>1 DEF FillInv, TypeOK, brokerVars
<1>3. BookFits' /\ FillFitsOrder' /\ HandFits'
  BY DEF FillInv, BookFits, FillFitsOrder, HandFits, brokerVars
<1>4. SyncFits'
  <2>1. \A o \in Orders : book[o].filled <= book'[o].filled
    BY Amounts DEF FillInv, brokerVars
  <2> QED
    BY <1>2, <2>1, SyncStays DEF FillInv, brokerVars
<1>5. Follows'
  <2> SUFFICES ASSUME NEW o \in Orders
               PROVE  /\ Climb(channel, o, "cancel", StoredCut(o)', BookCut(o))
                      /\ ~ setting.perOrderRows =>
                           Climb(channel, o, "execution", StoredFill(o)', book[o].filled)
    BY DEF Follows, BookCut, brokerVars
  <2>1. /\ Climb(channel, o, "cancel", StoredCut(o), BookCut(o))
        /\ ~ setting.perOrderRows => Climb(channel, o, "execution", StoredFill(o), book[o].filled)
    BY DEF FillInv, Follows
  <2>2. /\ rows[o].quantity \in 0..Size /\ rows[o].filled \in 0..Size /\ Size \in Nat
        /\ book[o].filled \in Nat /\ BookCut(o) \in Nat /\ channel \in Seq(Notification)
        /\ InHand(o, "cancel") \in Nat /\ InHand(o, "execution") \in Nat
        /\ StoredCut(o) \in Nat /\ StoredFill(o) \in Nat
    BY Amounts DEF FillInv
  <2>3. StoredCut(o)' = Size - rows[o].quantity /\ StoredFill(o)' = rows[o].filled
    BY <1>1, <2>2, SMTT(20) DEF StoredCut, StoredFill, InHand
  <2>4. /\ StoredCut(o)' \in Nat /\ StoredCut(o)' <= StoredCut(o)
        /\ StoredFill(o)' \in Nat /\ StoredFill(o)' <= StoredFill(o)
    <3>1. /\ StoredCut(o) = (Size - rows[o].quantity) + InHand(o, "cancel")
          /\ StoredFill(o) = rows[o].filled + InHand(o, "execution")
      BY DEF StoredCut, StoredFill
    <3>2. Size - rows[o].quantity \in Nat /\ rows[o].filled \in Nat
      BY <2>2, SMTT(20)
    <3>3. /\ Size - rows[o].quantity <= (Size - rows[o].quantity) + InHand(o, "cancel")
          /\ rows[o].filled <= rows[o].filled + InHand(o, "execution")
      BY <2>2, <3>2, SMTT(20)
    <3> QED
      BY <2>3, <3>1, <3>2, <3>3
  <2>5. BookCut(o) <= BookCut(o) /\ book[o].filled <= book[o].filled
    BY <2>2
  <2> QED
    BY <2>1, <2>2, <2>4, <2>5, ClimbLess
<1> QED
  BY <1>2, <1>3, <1>4, <1>5 DEF FillInv

\* What the listener writes of a notification was on its way before.
LEMMA WrittenKeeps ==
  ASSUME FillInv, hand.step = "apply", ~ Refused(hand.order, hand.n),
         rows' = [rows EXCEPT ![hand.n.order] = Written(rows[hand.n.order], hand.order, hand.n)],
         hand' = Idle, UNCHANGED <<brokerVars, auto, problems, link, beat, channel, sync, drops>>
  PROVE  FillInv'
<1> DEFINE o == hand.n.order
           n == hand.n
           w == Written(rows[o], hand.order, n)
<1>1. /\ n \in Notification /\ o \in Orders /\ hand.order \in Row
      /\ hand.order.filled <= hand.order.quantity
      /\ rows[o] \in Row /\ rows[o].quantity = hand.order.quantity
      /\ \/ rows[o].filled = hand.order.filled
         \/ setting.perOrderRows /\ rows[o].filled <= book[o].filled
      /\ \A p \in Orders, kind \in {"cancel", "execution"} : InHand(p, kind) = Part(n, p, kind)
  BY InTheHand
<1>2. w \in Row
  BY <1>1, WrittenFits
<1>3. Wrote(w, rows[o], hand.order, n)
  BY <1>1, WrittenFits
<1>4. rows' \in [Orders -> Row] /\ rows'[o] = w /\ \A p \in Orders \ {o} : rows'[p] = rows[p]
  BY <1>1, <1>2 DEF FillInv, TypeOK
<1>5. TypeOK'
  BY <1>4 DEF FillInv, TypeOK, Idle, brokerVars
<1>6. BookFits' /\ HandFits'
  BY DEF FillInv, BookFits, HandFits, brokerVars
<1>7. SyncFits'
  <2>1. \A p \in Orders : book[p].filled <= book'[p].filled
    BY Amounts DEF FillInv, brokerVars
  <2> QED
    BY <1>5, <2>1, SyncStays DEF FillInv, brokerVars
<1>8. /\ n.quantity \in 0..Size /\ Size \in Nat /\ rows[o].quantity \in 0..Size
      /\ rows[o].filled \in 0..Size /\ w.quantity \in 0..Size /\ w.filled \in 0..Size
      /\ hand.order.filled \in 0..Size /\ book[o].filled \in 0..Size
  BY <1>1, <1>2, FillAssumption, Amounts DEF Notification, Row, FillInv
<1>11. /\ Part(n, o, "cancel") = IF n.kind = "cancel" THEN n.quantity ELSE 0
       /\ Part(n, o, "execution") = IF n.kind = "execution" THEN n.quantity ELSE 0
  BY DEF Part
<1>12. /\ InHand(o, "cancel") = IF n.kind = "cancel" THEN n.quantity ELSE 0
       /\ InHand(o, "execution") = IF n.kind = "execution" THEN n.quantity ELSE 0
  BY <1>1, <1>11
<1> HIDE DEF w, n, o
<1>9. FillFitsOrder'
  <2>1. rows[o].filled <= rows[o].quantity
    BY <1>1 DEF FillInv, FillFitsOrder
  <2>2. n.kind = "cancel" => book[o].filled + n.quantity <= rows[o].quantity
    <3>1. book[o].filled + InHand(o, "cancel") <= rows[o].quantity
      BY <1>1, StoredFits
    <3> QED
      BY <1>12, <3>1
  <2>3. w.filled <= w.quantity
    BY <1>1, <1>3, <1>8, <2>1, <2>2 DEF Wrote
  <2> QED
    BY <1>4, <2>3 DEF FillInv, FillFitsOrder
<1>10. Follows'
  <2> SUFFICES ASSUME NEW p \in Orders
               PROVE  /\ Climb(channel, p, "cancel", StoredCut(p)', BookCut(p))
                      /\ ~ setting.perOrderRows =>
                           Climb(channel, p, "execution", StoredFill(p)', book[p].filled)
    BY DEF Follows, BookCut, brokerVars
  <2>1. /\ Climb(channel, p, "cancel", StoredCut(p), BookCut(p))
        /\ ~ setting.perOrderRows => Climb(channel, p, "execution", StoredFill(p), book[p].filled)
    BY DEF FillInv, Follows
  <2>2. /\ rows[p].quantity \in 0..Size /\ rows[p].filled \in 0..Size /\ Size \in Nat
        /\ book[p].filled \in Nat /\ BookCut(p) \in Nat /\ channel \in Seq(Notification)
        /\ InHand(p, "cancel") \in Nat /\ InHand(p, "execution") \in Nat
        /\ StoredCut(p) \in Nat /\ StoredFill(p) \in Nat
    BY Amounts DEF FillInv
  <2>3. StoredCut(p)' = Size - rows'[p].quantity /\ StoredFill(p)' = rows'[p].filled
    <3>1. InHand(p, "cancel")' = 0 /\ InHand(p, "execution")' = 0
      BY DEF InHand, Idle
    <3>2. rows'[p].quantity \in 0..Size /\ rows'[p].filled \in 0..Size
      BY <1>4 DEF Row
    <3>3. Size - rows'[p].quantity \in Int /\ rows'[p].filled \in Int
      BY <2>2, <3>2
    <3> QED
      BY <3>1, <3>3 DEF StoredCut, StoredFill
  <2>4. /\ StoredCut(p)' \in Nat /\ StoredCut(p)' <= StoredCut(p)
        /\ StoredFill(p)' \in Nat
        /\ ~ setting.perOrderRows => StoredFill(p)' <= StoredFill(p)
    <3>1. CASE p # o
      <4>1. rows'[p] = rows[p]
        BY <1>4, <3>1
      <4>2. /\ StoredCut(p) = (Size - rows[p].quantity) + InHand(p, "cancel")
            /\ StoredFill(p) = rows[p].filled + InHand(p, "execution")
        BY DEF StoredCut, StoredFill
      <4>3. Size - rows[p].quantity \in Nat /\ rows[p].filled \in Nat
        BY <2>2, SMTT(20)
      <4>4. StoredCut(p)' = Size - rows[p].quantity /\ StoredFill(p)' = rows[p].filled
        BY <2>3, <4>1
      <4>5. Size - rows[p].quantity <= (Size - rows[p].quantity) + InHand(p, "cancel")
        BY <2>2, <4>3, SMTT(20)
      <4>6. rows[p].filled <= rows[p].filled + InHand(p, "execution")
        BY <2>2, <4>3
      <4>7. StoredCut(p)' <= StoredCut(p) /\ StoredFill(p)' <= StoredFill(p)
        BY <4>2, <4>4, <4>5, <4>6
      <4> QED
        BY <4>3, <4>4, <4>7
    <3>2. CASE p = o
      <4>2. Size - w.quantity <= (Size - rows[o].quantity) + InHand(o, "cancel")
        BY <1>3, <1>8, <1>12 DEF Wrote
      <4>3. ~ setting.perOrderRows => w.filled <= rows[o].filled + InHand(o, "execution")
        BY <1>1, <1>3, <1>8, <1>12 DEF Wrote
      <4>4. /\ StoredCut(o) = (Size - rows[o].quantity) + InHand(o, "cancel")
            /\ StoredFill(o) = rows[o].filled + InHand(o, "execution")
        BY DEF StoredCut, StoredFill
      <4>5. StoredCut(p)' = Size - w.quantity /\ StoredFill(p)' = w.filled
        BY <1>4, <2>3, <3>2
      <4> QED
        BY <1>8, <3>2, <4>2, <4>3, <4>4, <4>5
    <3> QED
      BY <3>1, <3>2
  <2>5. BookCut(p) <= BookCut(p) /\ book[p].filled <= book[p].filled
    BY <2>2
  <2> QED
    BY <2>1, <2>2, <2>4, <2>5, ClimbLess
<1> QED
  BY <1>5, <1>6, <1>7, <1>9, <1>10 DEF FillInv

\* The listener applies what it has in its hand, or dies of it.
LEMMA ApplyKeeps ==
  ASSUME FillInv, Apply
  PROVE  FillInv'
<1>1. hand.step = "apply" /\ UNCHANGED <<brokerVars, auto, sync, drops>>
  BY DEF Apply
<1>2. CASE /\ problems' = problems \cup {hand.n.order} /\ hand' = [step |-> "pause"]
           /\ UNCHANGED <<rows, link, beat, channel>>
  BY <1>1, <1>2, RefusedKeeps
<1>3. CASE /\ ~ Refused(hand.order, hand.n)
           /\ rows' = [rows EXCEPT ![hand.n.order] =
                         Written(rows[hand.n.order], hand.order, hand.n)]
           /\ hand' = Idle /\ UNCHANGED <<problems, link, beat, channel>>
  BY <1>1, <1>3, WrittenKeeps
<1>4. CASE Down("dead") /\ beat' = FALSE /\ UNCHANGED <<rows, problems>>
  <2>1. /\ link' = "dead" /\ channel' = <<>> /\ hand' = Idle /\ channel' \in Seq(Notification)
        /\ hand'.step = "idle"
    BY <1>4 DEF Down, Idle
  <2>2. TypeOK'
    BY <1>1, <1>4, <2>1 DEF FillInv, TypeOK, brokerVars
  <2> QED
    BY <1>1, <1>4, <2>1, <2>2, DownKeeps DEF brokerVars
<1> QED
  BY <1>2, <1>3, <1>4 DEF Apply

-----------------------------------------------------------------------------
\* The synchronisation.

\* A synchronisation that is applying its report.
LEMMA SyncApplying ==
  ASSUME FillInv, sync.step = "apply"
  PROVE  /\ sync = [step |-> "apply", late |-> sync.late, totals |-> sync.totals,
                    report |-> sync.report, read |-> sync.read, open |-> sync.open,
                    todo |-> sync.todo, found |-> sync.found]
         /\ ReportFits(sync.report) /\ sync.todo \subseteq DOMAIN sync.report
         /\ sync.todo \subseteq Orders /\ sync.open \subseteq Orders /\ sync.found \subseteq Orders
         /\ \A o \in sync.todo : sync.read[o] \in Row /\ sync.read[o].state \in OpenStates
  BY DEF FillInv, SyncFits, ReportFits, Idle

\* One that is closing the day.
LEMMA SyncClosing ==
  ASSUME FillInv, sync.step = "close"
  PROVE  /\ sync = [step |-> "close", late |-> sync.late, verdict |-> sync.verdict,
                    todo |-> sync.todo, found |-> sync.found]
         /\ sync.todo \subseteq Orders /\ sync.found \subseteq Orders
  BY DEF FillInv, SyncFits, Idle

\* Fetching, reading, comparing and finishing move no amounts.
LEMMA SyncTurns ==
  ASSUME FillInv, SyncFetch \/ SyncRead \/ SyncCompare \/ SyncFinish
  PROVE  SyncFits' /\ TypeOK' /\ UNCHANGED <<book, rows, setting, channel, hand>>
<1> USE DEF FillInv
<1>1. \A o \in Orders : /\ book[o].filled \in 0..book[o].filled
                        /\ book[o].filled \in Nat
  BY Amounts
<1>2. CASE SyncFetch
  <2>1. UNCHANGED <<book, ended, setting, rows, problems, auto, link, beat, channel, hand, drops>>
    BY <1>2 DEF SyncFetch, brokerVars, storeVars, listenerVars
  <2> DEFINE lines == [o \in {p \in Orders : Placed(p)} |-> Reported(o)]
             report == IF setting.perOrderRows THEN lines ELSE <<>>
  <2>2. PICK late \in {FALSE, ended}, totals \in {Sum(book), Unavailable} :
          sync' = [step |-> "read", late |-> late, totals |-> totals, report |-> report]
    BY <1>2 DEF SyncFetch
  <2>3. ReportFits(report)
    <3>1. CASE setting.perOrderRows
      <4>1. DOMAIN lines \subseteq Orders /\ report = lines
        BY <3>1
      <4>2. \A o \in DOMAIN lines : lines[o].filled = book[o].filled
        BY DEF Reported
      <4> HIDE DEF lines, report
      <4> QED
        BY <1>1, <3>1, <4>1, <4>2 DEF ReportFits
    <3>2. CASE ~ setting.perOrderRows
      <4>1. report = <<>> /\ DOMAIN <<>> = {}
        BY <3>2
      <4> HIDE DEF report
      <4> QED
        BY <4>1 DEF ReportFits
    <3> QED
      BY <3>1, <3>2
  <2> HIDE DEF report
  <2>4. /\ sync'.step = "read" /\ sync'.report = report
        /\ sync' = [step |-> "read", late |-> sync'.late, totals |-> sync'.totals,
                    report |-> sync'.report]
    BY <2>2
  <2>5. ReportFits(sync.report)'
    BY <2>1, <2>3, <2>4 DEF ReportFits
  <2>6. SyncFits'
    BY <2>4, <2>5 DEF SyncFits
  <2>7. TypeOK'
    BY <2>1, <2>4 DEF TypeOK
  <2> QED
    BY <2>1, <2>6, <2>7
<1>3. CASE SyncRead
  <2>1. /\ sync.step = "read"
        /\ UNCHANGED <<book, ended, setting, rows, problems, auto, link, beat, channel, hand, drops>>
    BY <1>3 DEF SyncRead, brokerVars, storeVars, listenerVars
  <2>2. ReportFits(sync.report)
    BY <2>1 DEF SyncFits, Idle
  <2> DEFINE open == {o \in Orders : rows[o].state \in OpenStates}
  <2>3. sync' = [step |-> "apply", late |-> sync.late, totals |-> sync.totals,
                 report |-> sync.report, read |-> rows, open |-> open,
                 todo |-> open \cap DOMAIN sync.report, found |-> DOMAIN sync.report \ open]
    BY <1>3 DEF SyncRead
  <2>4. \A o \in open : rows[o] \in Row /\ rows[o].state \in OpenStates
    BY DEF TypeOK
  <2>5. open \subseteq Orders /\ DOMAIN sync.report \subseteq Orders
    BY <2>2 DEF ReportFits
  <2> HIDE DEF open
  <2>6. /\ sync'.step = "apply" /\ sync'.report = sync.report /\ sync'.read = rows
        /\ sync'.open = open /\ sync'.todo = open \cap DOMAIN sync.report
        /\ sync'.found = DOMAIN sync.report \ open
        /\ sync' = [step |-> "apply", late |-> sync'.late, totals |-> sync'.totals,
                    report |-> sync'.report, read |-> sync'.read, open |-> sync'.open,
                    todo |-> sync'.todo, found |-> sync'.found]
    BY <2>3
  <2>7. ReportFits(sync.report)'
    BY <2>1, <2>2, <2>6 DEF ReportFits
  <2>8. SyncFits'
    BY <2>4, <2>5, <2>6, <2>7 DEF SyncFits
  <2>9. TypeOK'
    BY <2>1, <2>6 DEF TypeOK
  <2> QED
    BY <2>1, <2>8, <2>9
<1>4. CASE SyncCompare
  <2>1. /\ sync.step = "apply"
        /\ UNCHANGED <<book, ended, setting, rows, problems, auto, link, beat, channel, hand, drops>>
    BY <1>4 DEF SyncCompare, brokerVars, storeVars, listenerVars
  <2> DEFINE verdict == CompareDailyTotals(Sum(rows), sync.totals)
             closing == IF sync.late THEN sync.open ELSE {}
             todo == IF verdict = "matched" THEN closing ELSE {}
             found == IF verdict = "matched" THEN sync.found ELSE sync.found \cup closing
  <2>2. sync' = [step |-> "close", late |-> sync.late, verdict |-> verdict,
                 todo |-> todo, found |-> found]
    BY <1>4 DEF SyncCompare
  <2>3. todo \subseteq Orders /\ found \subseteq Orders
    BY <2>1, SyncApplying
  <2> HIDE DEF todo, found, verdict
  <2>4. /\ sync'.step = "close" /\ sync'.todo = todo /\ sync'.found = found
        /\ sync' = [step |-> "close", late |-> sync'.late, verdict |-> sync'.verdict,
                    todo |-> sync'.todo, found |-> sync'.found]
    BY <2>2
  <2>5. SyncFits'
    BY <2>3, <2>4 DEF SyncFits
  <2>6. TypeOK'
    BY <2>1, <2>4 DEF TypeOK
  <2> QED
    BY <2>1, <2>5, <2>6
<1>5. CASE SyncFinish
  <2>1. /\ sync.step = "close" /\ problems' = problems \cup sync.found /\ sync' = Idle
        /\ auto' \in {"paused", auto}
        /\ UNCHANGED <<book, ended, setting, rows, link, beat, channel, hand, drops>>
    BY <1>5 DEF SyncFinish, brokerVars, listenerVars
  <2>2. sync.found \subseteq Orders /\ sync'.step = "idle"
    BY <2>1, SyncClosing DEF Idle
  <2>3. TypeOK'
    BY <2>1, <2>2 DEF TypeOK, AutomationState
  <2> QED
    BY <2>1, <2>3 DEF SyncFits
<1> QED
  BY <1>2, <1>3, <1>4, <1>5

\* An order's comparison without a change leaves the rows alone.
LEMMA SyncSkips ==
  ASSUME FillInv, NEW o \in Orders, SyncApply(o), UNCHANGED rows
  PROVE  SyncFits' /\ TypeOK'
<1>1. /\ sync.step = "apply" /\ o \in sync.todo
      /\ UNCHANGED <<book, ended, setting, auto, problems, link, beat, channel, hand, drops>>
  BY DEF SyncApply, brokerVars, listenerVars
<1> DEFINE rest == [sync EXCEPT !.todo = @ \ {o}]
<1>2. sync' = rest \/ sync' = [rest EXCEPT !.found = @ \cup {o}] \/ sync' = Idle
  BY DEF SyncApply
<1>3. CASE sync' = Idle
  BY <1>1, <1>3 DEF FillInv, TypeOK, SyncFits, Idle
<1>4. CASE sync' # Idle
  <2> DEFINE todo == sync.todo \ {o}
  <2>1. rest = [step |-> "apply", late |-> sync.late, totals |-> sync.totals,
                report |-> sync.report, read |-> sync.read, open |-> sync.open,
                todo |-> todo, found |-> sync.found]
    BY <1>1, SyncApplying
  <2> HIDE DEF rest, todo
  <2>2. PICK found \in {sync.found, sync.found \cup {o}} :
          sync' = [step |-> "apply", late |-> sync.late, totals |-> sync.totals,
                   report |-> sync.report, read |-> sync.read, open |-> sync.open,
                   todo |-> todo, found |-> found]
    BY <1>2, <1>4, <2>1
  <2>3. /\ sync'.step = "apply" /\ sync'.report = sync.report /\ sync'.read = sync.read
        /\ sync'.open = sync.open /\ sync'.todo = todo /\ sync'.found = found
        /\ sync' = [step |-> "apply", late |-> sync'.late, totals |-> sync'.totals,
                    report |-> sync'.report, read |-> sync'.read, open |-> sync'.open,
                    todo |-> sync'.todo, found |-> sync'.found]
    BY <2>2
  <2>4. found \subseteq Orders /\ todo \subseteq sync.todo
    BY <1>1, <2>2, SyncApplying DEF todo
  <2>5. ReportFits(sync.report)'
    BY <1>1, <2>3, SyncApplying DEF ReportFits
  <2>6. SyncFits'
    <3>1. /\ sync'.todo \subseteq DOMAIN sync'.report
          /\ sync'.open \subseteq Orders /\ sync'.found \subseteq Orders
          /\ \A p \in sync'.todo : sync'.read[p] \in Row /\ sync'.read[p].state \in OpenStates
      BY <1>1, <2>3, <2>4, SyncApplying
    <3> QED
      BY <2>3, <2>5, <3>1 DEF SyncFits
  <2>7. TypeOK'
    BY <1>1, <2>3 DEF FillInv, TypeOK
  <2> QED
    BY <2>6, <2>7
<1> QED
  BY <1>3, <1>4

\* What the comparison writes: the broker's fills, of an order whose report they fit,
\* and a state the graph allows.
LEMMA SyncWrites ==
  ASSUME FillInv, NEW o \in Orders, SyncApply(o), rows' # rows
  PROVE  /\ sync.step = "apply" /\ o \in sync.todo
         /\ UNCHANGED <<book, ended, setting, auto, problems, link, beat, channel, hand, drops>>
         /\ setting.perOrderRows
         /\ rows' \in [Orders -> Row] /\ \A p \in Orders \ {o} : rows'[p] = rows[p]
         /\ rows'[o].quantity = rows[o].quantity /\ rows'[o].filled <= book[o].filled
         /\ OrderMayBecome(rows[o].state, rows'[o].state)
         /\ sync' = [sync EXCEPT !.todo = @ \ {o}]
<1> DEFINE order == sync.read[o]
           fill == sync.report[o]
           target == TargetState(order, fill)
<1>1. /\ sync.step = "apply" /\ o \in sync.todo
      /\ UNCHANGED <<book, ended, setting, auto, problems, link, beat, channel, hand, drops>>
      /\ OrderMayBecome(rows[o].state, target)
      /\ rows' = [rows EXCEPT ![o].state = target, ![o].filled = fill.filled]
      /\ sync' = [sync EXCEPT !.todo = @ \ {o}]
  BY DEF SyncApply, brokerVars, listenerVars
<1>2. /\ ReportFits(sync.report) /\ o \in DOMAIN sync.report
      /\ order \in Row /\ order.state \in OpenStates
  BY <1>1, SyncApplying
<1>3. fill.filled \in 0..book[o].filled /\ setting.perOrderRows
  BY <1>2 DEF ReportFits
<1>4. /\ rows[o] \in Row /\ rows \in [Orders -> Row] /\ book[o].filled \in 0..Size /\ Size \in Nat
  BY Amounts DEF FillInv, TypeOK
<1>5. target \in OrderState
  BY <1>2 DEF TargetState, OrderState, OpenStates
<1>6. fill.filled \in 0..Size /\ fill.filled <= book[o].filled
  BY <1>3, <1>4
<1> HIDE DEF target, fill, order
<1> DEFINE r == [rows[o] EXCEPT !.state = target]
           w == [r EXCEPT !.filled = fill.filled]
<1>7. r \in Row /\ r = [state |-> target, quantity |-> rows[o].quantity, filled |-> rows[o].filled]
  BY <1>4, <1>5 DEF Row
<1>8. rows' = [[rows EXCEPT ![o] = r] EXCEPT ![o].filled = fill.filled]
  BY <1>1
<1> HIDE DEF r
<1>9. w \in Row /\ w.state = target /\ w.quantity = rows[o].quantity /\ w.filled = fill.filled
  <2>1. w = [state |-> target, quantity |-> rows[o].quantity, filled |-> fill.filled]
    BY <1>7
  <2> QED
    BY <1>4, <1>5, <1>6, <2>1 DEF Row
<1>10. rows' = [rows EXCEPT ![o] = w]
  BY <1>4, <1>7, <1>8
<1> HIDE DEF w
<1>11. rows' \in [Orders -> Row] /\ rows'[o] = w /\ \A p \in Orders \ {o} : rows'[p] = rows[p]
  BY <1>4, <1>9, <1>10
<1> QED
  BY <1>1, <1>3, <1>6, <1>9, <1>11

\* The comparison of one order keeps the invariant, beside a listener that is working
\* on the same order.
LEMMA SyncApplyKeeps ==
  ASSUME FillInv, NEW o \in Orders, SyncApply(o)
  PROVE  FillInv'
<1>1. CASE rows' = rows
  <2>1. SyncFits' /\ TypeOK'
    BY <1>1, SyncSkips
  <2>2. UNCHANGED <<book, setting, channel, hand>>
    BY DEF SyncApply, brokerVars, listenerVars
  <2> QED
    BY <1>1, <2>1, <2>2, StillStep
<1>2. CASE rows' # rows
  <2>1. /\ sync.step = "apply" /\ o \in sync.todo /\ setting.perOrderRows
        /\ UNCHANGED <<book, ended, setting, auto, problems, link, beat, channel, hand, drops>>
        /\ rows' \in [Orders -> Row] /\ \A p \in Orders \ {o} : rows'[p] = rows[p]
        /\ rows'[o].quantity = rows[o].quantity /\ rows'[o].filled <= book[o].filled
        /\ sync' = [sync EXCEPT !.todo = @ \ {o}]
    BY <1>2, SyncWrites
  <2>2. \A p \in Orders : rows'[p].quantity = rows[p].quantity
    BY <2>1
  <2> DEFINE todo == sync.todo \ {o}
  <2>3. sync' = [step |-> "apply", late |-> sync.late, totals |-> sync.totals,
                 report |-> sync.report, read |-> sync.read, open |-> sync.open,
                 todo |-> todo, found |-> sync.found]
    BY <2>1, SyncApplying
  <2>4. todo \subseteq sync.todo
    OBVIOUS
  <2> HIDE DEF todo
  <2>5. /\ sync'.step = "apply" /\ sync'.report = sync.report /\ sync'.read = sync.read
        /\ sync'.open = sync.open /\ sync'.todo = todo /\ sync'.found = sync.found
        /\ sync' = [step |-> "apply", late |-> sync'.late, totals |-> sync'.totals,
                    report |-> sync'.report, read |-> sync'.read, open |-> sync'.open,
                    todo |-> sync'.todo, found |-> sync'.found]
    BY <2>3
  <2>6. SyncFits'
    <3>1. /\ ReportFits(sync.report)'
          /\ sync'.todo \subseteq DOMAIN sync'.report
          /\ sync'.open \subseteq Orders /\ sync'.found \subseteq Orders
          /\ \A p \in sync'.todo : sync'.read[p] \in Row /\ sync'.read[p].state \in OpenStates
      BY <2>1, <2>4, <2>5, SyncApplying DEF ReportFits
    <3> QED
      BY <2>5, <3>1 DEF SyncFits
  <2>7. TypeOK'
    BY <2>1, <2>5 DEF FillInv, TypeOK
  <2>8. BookFits'
    BY <2>1 DEF FillInv, BookFits
  <2>9. FillFitsOrder'
    <3>1. rows'[o].filled <= rows'[o].quantity
      <4>1. book[o].filled + InHand(o, "cancel") <= rows[o].quantity
        BY StoredFits
      <4>2. /\ book[o].filled \in Nat /\ InHand(o, "cancel") \in Nat /\ rows[o].quantity \in Nat
        BY Amounts DEF FillInv
      <4>3. rows'[o].filled \in Nat
        BY <2>1, FillAssumption DEF Row
      <4> QED
        BY <2>1, <4>1, <4>2, <4>3
    <3> QED
      BY <2>1, <3>1 DEF FillInv, FillFitsOrder
  <2>10. HandFits'
    <3>1. CASE hand.step = "apply"
      <4>1. /\ hand = [step |-> "apply", n |-> hand.n, order |-> hand.order]
            /\ hand.n \in Notification /\ hand.order \in Row
            /\ hand.order.filled <= hand.order.quantity
            /\ rows[hand.n.order].quantity = hand.order.quantity /\ hand.n.order \in Orders
            /\ \/ rows[hand.n.order].filled = hand.order.filled
               \/ setting.perOrderRows /\ rows[hand.n.order].filled <= book[hand.n.order].filled
        BY <3>1 DEF FillInv, HandFits, Idle, Notification
      <4>2. \/ rows'[hand.n.order].filled = hand.order.filled
            \/ setting.perOrderRows /\ rows'[hand.n.order].filled <= book[hand.n.order].filled
        BY <2>1, <4>1
      <4> QED
        BY <2>1, <2>2, <3>1, <4>1, <4>2 DEF HandFits
    <3>2. CASE hand.step # "apply"
      BY <2>1, <3>2 DEF FillInv, HandFits
    <3> QED
      BY <3>1, <3>2
  <2>11. Follows'
    <3>1. \A p \in Orders, kind \in {"cancel", "execution"} : InHand(p, kind)' = InHand(p, kind)
      BY <2>1 DEF InHand
    <3> QED
      BY <2>1, <2>2, <3>1 DEF FillInv, Follows, StoredCut, BookCut
  <2> QED
    BY <2>6, <2>7, <2>8, <2>9, <2>10, <2>11 DEF FillInv
<1> QED
  BY <1>1, <1>2

\* The day's end moves states alone.
LEMMA SyncExpireKeeps ==
  ASSUME FillInv, NEW o \in Orders, SyncExpire(o)
  PROVE  FillInv'
<1>1. /\ sync.step = "close" /\ o \in sync.todo
      /\ UNCHANGED <<book, ended, setting, auto, problems, link, beat, channel, hand, drops>>
  BY DEF SyncExpire, brokerVars, listenerVars
<1>2. /\ rows \in [Orders -> Row]
      /\ sync = [step |-> "close", late |-> sync.late, verdict |-> sync.verdict,
                 todo |-> sync.todo, found |-> sync.found]
      /\ sync.todo \subseteq Orders /\ sync.found \subseteq Orders
  BY <1>1, SyncClosing DEF FillInv, TypeOK
<1>3. \/ rows' = [rows EXCEPT ![o].state = "expired"] /\ sync' = [sync EXCEPT !.todo = @ \ {o}]
      \/ rows' = rows /\ sync' = Idle
  BY DEF SyncExpire
<1>4. /\ rows' \in [Orders -> Row]
      /\ \A p \in Orders : rows'[p].quantity = rows[p].quantity /\ rows'[p].filled = rows[p].filled
  BY <1>2, <1>3 DEF Row, OrderState
<1>5. SyncFits' /\ sync'.step \in {"idle", "close"}
  <2>1. CASE sync' = Idle
    BY <2>1 DEF SyncFits, Idle
  <2>2. CASE sync' = [sync EXCEPT !.todo = @ \ {o}]
    <3> DEFINE todo == sync.todo \ {o}
    <3>1. sync' = [step |-> "close", late |-> sync.late, verdict |-> sync.verdict,
                   todo |-> todo, found |-> sync.found]
      BY <1>2, <2>2
    <3>2. todo \subseteq Orders
      BY <1>2
    <3> HIDE DEF todo
    <3>3. /\ sync'.step = "close" /\ sync'.todo = todo /\ sync'.found = sync.found
          /\ sync' = [step |-> "close", late |-> sync'.late, verdict |-> sync'.verdict,
                      todo |-> sync'.todo, found |-> sync'.found]
      BY <3>1
    <3> QED
      BY <1>2, <3>2, <3>3 DEF SyncFits
  <2> QED
    BY <1>3, <2>1, <2>2
<1>6. TypeOK'
  BY <1>1, <1>4, <1>5 DEF FillInv, TypeOK
<1> QED
  BY <1>1, <1>4, <1>5, <1>6, StillStep

\* Connections come and go.
LEMMA LinkKeeps ==
  ASSUME FillInv, StartSession \/ CheckGap \/ Subscribe \/ Drop \/ BeatExpires \/ Pause
  PROVE  FillInv'
<1>1. CASE Drop
  <2>1. /\ UNCHANGED <<book, ended, setting, rows, problems, auto, sync>>
        /\ drops < setting.maxDrops /\ drops' = drops + 1
    BY <1>1 DEF Drop, brokerVars, storeVars
  <2>2. link' \in {"down", "dead"} /\ channel' = <<>> /\ hand' = Idle /\ beat' \in {FALSE, beat}
    BY <1>1 DEF Drop, Down
  <2>3. setting.maxDrops \in Nat /\ drops \in 0..setting.maxDrops
    BY FillAssumption DEF FillInv, TypeOK
  <2>4. drops' \in 0..setting.maxDrops
    BY <2>1, <2>3
  <2>5. TypeOK'
    <3>1. /\ channel' \in Seq(Notification) /\ hand'.step = "idle"
          /\ link' \in {"dead", "down", "attaching", "attached", "subscribed"}
      BY <2>2 DEF Idle
    <3>2. beat' \in BOOLEAN
      BY <2>2 DEF FillInv, TypeOK
    <3> QED
      BY <2>1, <2>4, <3>1, <3>2 DEF FillInv, TypeOK
  <2> QED
    BY <2>1, <2>2, <2>5, DownKeeps
<1>2. CASE StartSession \/ CheckGap \/ Subscribe \/ BeatExpires \/ Pause
  <2>1. UNCHANGED <<book, ended, setting, rows, channel, sync, drops>>
    BY <1>2 DEF StartSession, CheckGap, Subscribe, BeatExpires, Pause, brokerVars, storeVars
  <2>2. hand' = hand \/ (hand.step = "pause" /\ hand' = Idle)
    BY <1>2 DEF StartSession, CheckGap, Subscribe, BeatExpires, Pause
  <2>3. hand.step = "pause" => hand = [step |-> "pause"]
    BY DEF FillInv, HandFits, Idle
  <2>4. problems' \subseteq Orders
    BY <1>2 DEF StartSession, CheckGap, Subscribe, BeatExpires, Pause, storeVars, FillInv, TypeOK,
                MayHaveMissed
  <2>5. /\ auto' \in AutomationState
        /\ link' \in {"dead", "down", "attaching", "attached", "subscribed"} /\ beat' \in BOOLEAN
    <3>1. CASE StartSession
      BY <3>1 DEF StartSession, FillInv, TypeOK, AutomationState
    <3>2. CASE CheckGap
      BY <3>2 DEF CheckGap, PauseIfOn, FillInv, TypeOK, AutomationState
    <3>3. CASE Subscribe
      BY <3>3 DEF Subscribe, FillInv, TypeOK
    <3>4. CASE BeatExpires
      BY <3>4 DEF BeatExpires, FillInv, TypeOK
    <3>5. CASE Pause
      BY <3>5 DEF Pause, PauseIfOn, FillInv, TypeOK, AutomationState
    <3> QED
      BY <1>2, <3>1, <3>2, <3>3, <3>4, <3>5
  <2>6. TypeOK'
    BY <2>1, <2>2, <2>4, <2>5 DEF FillInv, TypeOK, Idle
  <2>7. SyncFits'
    <3>1. \A o \in Orders : book[o].filled <= book'[o].filled
      BY <2>1, Amounts DEF FillInv
    <3> QED
      BY <2>1, <2>6, <3>1, SyncStays DEF FillInv
  <2> QED
    BY <2>1, <2>2, <2>3, <2>6, <2>7, StillStep
<1> QED
  BY <1>1, <1>2

\* People, planner and submission move states alone.
LEMMA PeopleKeep ==
  ASSUME FillInv,
         Switch \/ EndSession \/ \E o \in Orders : Plan(o) \/ Place(o) \/ RecordPlaced(o)
  PROVE  FillInv'
<1>1. TypeOK'
  BY TypePeople DEF FillInv
<1>2. UNCHANGED <<channel, hand, sync, setting>>
  BY DEF Switch, Plan, Place, RecordPlaced, EndSession, brokerVars, listenerVars
<1>3. /\ rows \in [Orders -> Row] /\ book \in [Orders -> Book]
  BY DEF FillInv, TypeOK
<1>4. \A p \in Orders : rows'[p].quantity = rows[p].quantity /\ rows'[p].filled = rows[p].filled
  <2>1. CASE rows' = rows
    BY <2>1
  <2>2. ASSUME NEW o \in Orders, Plan(o)
        PROVE  \A p \in Orders : rows'[p].quantity = rows[p].quantity /\ rows'[p].filled = rows[p].filled
    BY <1>3, <2>2 DEF Plan, Row
  <2>3. ASSUME NEW o \in Orders, RecordPlaced(o)
        PROVE  \A p \in Orders : rows'[p].quantity = rows[p].quantity /\ rows'[p].filled = rows[p].filled
    BY <1>3, <2>3 DEF RecordPlaced, Row
  <2> QED
    BY <2>1, <2>2, <2>3 DEF Switch, Place, EndSession, storeVars
<1>5. \A p \in Orders : book'[p].quantity = book[p].quantity /\ book'[p].filled = book[p].filled
  <2>1. CASE book' = book
    BY <2>1
  <2>2. ASSUME NEW o \in Orders, Place(o)
        PROVE  \A p \in Orders : book'[p].quantity = book[p].quantity /\ book'[p].filled = book[p].filled
    BY <1>3, <2>2 DEF Place, Book
  <2>3. CASE EndSession
    BY <1>3, <2>3 DEF EndSession, Book
  <2> QED
    BY <2>1, <2>2, <2>3 DEF Switch, Plan, RecordPlaced, brokerVars
<1>6. SyncFits'
  <2>1. \A p \in Orders : book[p].filled <= book'[p].filled
    BY <1>5, Amounts DEF FillInv
  <2> QED
    BY <1>1, <1>2, <2>1, SyncStays DEF FillInv
<1> QED
  BY <1>1, <1>2, <1>4, <1>5, <1>6, StillStep

\* Every step keeps the invariant.
LEMMA FillStep == FillInv /\ [Next]_vars => FillInv'
<1> SUFFICES ASSUME FillInv, [Next]_vars PROVE FillInv'
  OBVIOUS
<1>1. CASE UNCHANGED vars
  <2>1. /\ UNCHANGED <<setting, book, ended, rows, auto, problems, link, beat, channel, hand, sync, drops>>
    BY <1>1 DEF vars
  <2>2. TypeOK'
    BY <2>1 DEF FillInv, TypeOK
  <2>3. \A o \in Orders : book[o].filled <= book'[o].filled
    BY <2>1, Amounts DEF FillInv
  <2>4. SyncFits'
    BY <2>1, <2>2, <2>3, SyncStays DEF FillInv
  <2> QED
    BY <2>1, <2>2, <2>4, StillStep
<1>2. ASSUME NEW o \in Orders, Plan(o) \/ Place(o) \/ RecordPlaced(o) PROVE FillInv'
  BY <1>2, PeopleKeep
<1>3. ASSUME NEW o \in Orders, Execute(o) \/ CancelRest(o) \/ Reject(o) PROVE FillInv'
  BY <1>3, BrokerKeeps
<1>4. ASSUME NEW o \in Orders, SyncApply(o) \/ SyncExpire(o) PROVE FillInv'
  BY <1>4, SyncApplyKeeps, SyncExpireKeeps
<1>5. CASE Switch \/ EndSession
  BY <1>5, PeopleKeep
<1>6. CASE StartSession \/ CheckGap \/ Subscribe \/ Drop \/ BeatExpires \/ Pause
  BY <1>6, LinkKeeps
<1>7. CASE Receive \/ Apply
  BY <1>7, ReceiveKeeps, ApplyKeeps
<1>8. CASE SyncFetch \/ SyncRead \/ SyncCompare \/ SyncFinish
  <2>1. SyncFits' /\ TypeOK' /\ UNCHANGED <<book, rows, setting, channel, hand>>
    BY <1>8, SyncTurns
  <2> QED
    BY <2>1, StillStep
<1> QED
  BY <1>1, <1>2, <1>3, <1>4, <1>5, <1>6, <1>7, <1>8 DEF Next

-----------------------------------------------------------------------------
\* The types of the broker's book, the rows, the listener and the notifications are
\* what they should be, after any number of lost connections.
THEOREM FillTypeCorrect == Spec => []TypeOK
<1>1. FillInv => TypeOK
  BY DEF FillInv
<1> QED
  BY FillInit, FillStep, <1>1, PTL DEF Spec

\* In every state what the store claims fits the broker's book and the order.
LEMMA ClaimsFit == FillInv => NothingInvented /\ FillFitsOrder
<1> SUFFICES ASSUME FillInv PROVE NothingInvented /\ FillFitsOrder
  OBVIOUS
<1>1. ASSUME ~ setting.perOrderRows, NEW o \in Orders PROVE rows[o].filled <= book[o].filled
  <2>1. rows[o].filled + InHand(o, "execution") <= book[o].filled
    BY <1>1, StoredFits
  <2>2. rows[o].filled \in Nat /\ InHand(o, "execution") \in Nat /\ book[o].filled \in Nat
    BY Amounts DEF FillInv
  <2> QED
    BY <2>1, <2>2
<1> QED
  BY <1>1 DEF NothingInvented, FillInv

\* From a state that is settled the graph leads nowhere.
LEMMA SettledStays ==
  ASSUME NEW s \in OrderState, s \notin UnsettledStates, NEW t
  PROVE  ~ OrderMayBecome(s, t)
  BY DEF OrderState, UnsettledStates, OpenStates, OrderMayBecome, OrderTransitions

\* What the listener writes leaves an order that has ended as it is.
LEMMA ApplyKeepsEnded ==
  ASSUME FillInv, Apply PROVE EndedRowsKeepFills
<1>1. CASE UNCHANGED rows
  BY <1>1 DEF EndedRowsKeepFills
<1>2. CASE rows' # rows
  <2> DEFINE o == hand.n.order
             w == Written(rows[o], hand.order, hand.n)
  <2>1. /\ hand.step = "apply" /\ ~ Refused(hand.order, hand.n)
        /\ \/ hand.order.state = Applied(hand.order, hand.n).state
           \/ OrderMayBecome(rows[o].state, Applied(hand.order, hand.n).state)
        /\ rows' = [rows EXCEPT ![o] = w]
    BY <1>2 DEF Apply
  <2>2. /\ hand.n \in Notification /\ o \in Orders /\ hand.order \in Row
        /\ hand.order.filled <= hand.order.quantity
        /\ rows[o] \in Row /\ rows[o].quantity = hand.order.quantity
    BY <2>1, InTheHand
  <2>3. \/ w.state = rows[o].state /\ w.filled = rows[o].filled
        \/ Applied(hand.order, hand.n).state # hand.order.state
    <3>1. Wrote(w, rows[o], hand.order, hand.n)
      BY <2>1, <2>2, WrittenFits
    <3> QED
      BY <3>1 DEF Wrote
  <2>4. \A p \in Orders \ {o} : rows'[p] = rows[p]
    BY <2>1, <2>2 DEF FillInv, TypeOK
  <2>5. rows'[o] = w
    BY <2>1, <2>2 DEF FillInv, TypeOK
  <2> HIDE DEF w, o
  <2>6. rows[o].state \notin UnsettledStates \cup {"none"} =>
          rows'[o].state = rows[o].state /\ rows'[o].filled = rows[o].filled
    <3>1. rows[o].state \in OrderState \cup {"none"}
      BY <2>2 DEF Row
    <3> QED
      BY <2>1, <2>3, <2>5, <3>1, SettledStays
  <2> QED
    BY <2>4, <2>6 DEF EndedRowsKeepFills
<1> QED
  BY <1>1, <1>2

\* Nor does any other step move one.
LEMMA StepKeepsEnded == FillInv /\ [Next]_vars => EndedRowsKeepFills
<1> SUFFICES ASSUME FillInv, [Next]_vars PROVE EndedRowsKeepFills
  OBVIOUS
<1>1. rows \in [Orders -> Row] /\ \A o \in Orders : rows[o].state \in OrderState \cup {"none"}
  BY DEF FillInv, TypeOK, Row
<1>2. CASE UNCHANGED rows
  BY <1>2 DEF EndedRowsKeepFills
<1>3. ASSUME NEW o \in Orders, Plan(o) PROVE EndedRowsKeepFills
  BY <1>1, <1>3 DEF Plan, Row, EndedRowsKeepFills
<1>4. ASSUME NEW o \in Orders, RecordPlaced(o) PROVE EndedRowsKeepFills
  BY <1>1, <1>4 DEF RecordPlaced, Row, EndedRowsKeepFills, UnsettledStates
<1>5. CASE Apply
  BY <1>5, ApplyKeepsEnded
<1>6. ASSUME NEW o \in Orders, SyncApply(o), rows' # rows PROVE EndedRowsKeepFills
  <2>1. /\ \A p \in Orders \ {o} : rows'[p] = rows[p]
        /\ OrderMayBecome(rows[o].state, rows'[o].state)
    BY <1>6, SyncWrites
  <2>2. rows[o].state \in UnsettledStates \cup {"none"}
    BY <1>1, <2>1, SettledStays
  <2> QED
    BY <2>1, <2>2 DEF EndedRowsKeepFills
<1>7. ASSUME NEW o \in Orders, SyncExpire(o), rows' # rows PROVE EndedRowsKeepFills
  <2>1. OrderMayBecome(rows[o].state, "expired") /\ rows' = [rows EXCEPT ![o].state = "expired"]
    BY <1>7 DEF SyncExpire
  <2>2. rows[o].state \in UnsettledStates \cup {"none"}
    BY <1>1, <2>1, SettledStays
  <2>3. \A p \in Orders \ {o} : rows'[p] = rows[p]
    BY <1>1, <2>1
  <2> QED
    BY <2>2, <2>3 DEF EndedRowsKeepFills
<1>8. CASE Switch \/ EndSession \/ StartSession \/ CheckGap \/ Subscribe \/ Drop \/ BeatExpires
           \/ Receive \/ Pause \/ SyncFetch \/ SyncRead \/ SyncCompare \/ SyncFinish
  <2>1. UNCHANGED rows
    BY <1>8 DEF Switch, EndSession, StartSession, CheckGap, Subscribe, Drop, BeatExpires,
                Receive, Pause, SyncFetch, SyncRead, SyncCompare, SyncFinish, storeVars
  <2> QED
    BY <1>2, <2>1
<1>9. ASSUME NEW o \in Orders, Place(o) \/ Execute(o) \/ CancelRest(o) \/ Reject(o)
      PROVE  UNCHANGED rows
  BY <1>9 DEF Place, Execute, CancelRest, Reject, storeVars
<1>10. CASE UNCHANGED vars
  BY <1>2, <1>10 DEF vars
<1> QED
  BY <1>2, <1>3, <1>4, <1>5, <1>6, <1>7, <1>8, <1>9, <1>10 DEF Next

\* What the store claims of an order is never more than the broker executed of it and
\* never more than was ordered, and an order that has ended is not touched again:
\* whatever is lost, late or refused, and with a synchronisation beside the listener.
THEOREM ClaimsCorrect == Spec => StoreClaimsNoMore
<1>1. FillInv /\ FillInv' /\ [Next]_vars =>
        [NothingInvented' /\ FillFitsOrder' /\ EndedRowsKeepFills]_vars
  <2>1. (FillInv => NothingInvented /\ FillFitsOrder)'
    BY ClaimsFit, PTL
  <2> QED
    BY <2>1, StepKeepsEnded
<1> QED
  BY FillInit, FillStep, <1>1, PTL DEF Spec, StoreClaimsNoMore
-----------------------------------------------------------------------------
(* The end of the day.                                                   *)

Ended == {"filled", "canceled", "rejected", "expired"}

\* The broker works on an order as long as some of it is open, of a rejected one nothing
\* was executed, nothing is open after the session, and no order goes out without a row.
BookOfTheDay ==
  \A o \in Orders :
    /\ book[o].open => book[o].filled < book[o].quantity
    /\ book[o].rejected => ~ book[o].open /\ book[o].filled = 0
    /\ ended => ~ book[o].open
    /\ rows[o].state = "none" => ~ Placed(o) /\ rows[o].filled = 0

\* A rejection is notified of a rejected order, and a cancel takes something away.
Honest(b, n) ==
  (n.kind = "rejection" => b[n.order].rejected) /\ (n.kind = "cancel" => n.quantity > 0)

HonestNotices ==
  /\ \A i \in DOMAIN channel : Honest(book, channel[i])
  /\ hand.step = "apply" => Honest(book, hand.n)

\* A late synchronisation has seen the final totals and comes to a verdict, and closes
\* nothing unless they match.
LateTotals ==
  /\ sync.step \in {"read", "apply"} /\ sync.late => ended /\ sync.totals \in {Sum(book), Unavailable}
  /\ sync.step = "close" /\ sync.late => ended
  /\ sync.step = "close" => sync.verdict \in {"matched", "mismatched", "unavailable"}
  /\ sync.step = "close" /\ sync.todo # {} => sync.late /\ sync.verdict = "matched"

DayInv == BookOfTheDay /\ HonestNotices /\ LateTotals /\ DayEndIsTrue

\* The setting is one for the whole day, and a session that ended has ended.
LEMMA DayGoesOn ==
  ASSUME [Next]_vars
  PROVE  setting' = setting /\ (ended => ended') /\ (ended' => ended \/ EndSession)
<1>1. ASSUME NEW o \in Orders, Plan(o) \/ Place(o) \/ RecordPlaced(o) \/ Execute(o) \/ CancelRest(o) \/ Reject(o)
                               \/ SyncApply(o) \/ SyncExpire(o)
      PROVE  UNCHANGED <<setting, ended>>
  BY <1>1 DEF Plan, Place, RecordPlaced, Execute, CancelRest, Reject, SyncApply, SyncExpire, brokerVars
<1>2. CASE Switch \/ StartSession \/ CheckGap \/ Subscribe \/ Drop \/ BeatExpires \/ Receive \/ Apply \/ Pause
           \/ SyncFetch \/ SyncRead \/ SyncCompare \/ SyncFinish
  BY <1>2 DEF Switch, StartSession, CheckGap, Subscribe, Drop, BeatExpires, Receive, Apply, Pause,
              SyncFetch, SyncRead, SyncCompare, SyncFinish, brokerVars
<1>3. CASE EndSession
  BY <1>3 DEF EndSession
<1>4. CASE UNCHANGED vars
  BY <1>4 DEF vars
<1> QED
  BY <1>1, <1>2, <1>3, <1>4 DEF Next

\* What can become of an order in the broker's book.
LEMMA BookChanges ==
  ASSUME TypeOK, [Next]_vars, NEW o \in Orders
  PROVE  \/ book'[o] = book[o]
         \/ Place(o)
         \/ Execute(o) \/ CancelRest(o) \/ Reject(o)
         \/ EndSession
<1>0. book \in [Orders -> Book]
  BY DEF TypeOK
<1>1. ASSUME NEW p \in Orders \ {o}, Place(p) \/ Execute(p) \/ CancelRest(p) \/ Reject(p)
      PROVE  book'[o] = book[o]
  BY <1>0, <1>1 DEF Place, Execute, CancelRest, Reject
<1>2. ASSUME NEW p \in Orders, Plan(p) \/ RecordPlaced(p) \/ SyncApply(p) \/ SyncExpire(p)
      PROVE  book' = book
  BY <1>2 DEF Plan, RecordPlaced, SyncApply, SyncExpire, brokerVars
<1>3. CASE Switch \/ StartSession \/ CheckGap \/ Subscribe \/ Drop \/ BeatExpires \/ Receive \/ Apply \/ Pause
           \/ SyncFetch \/ SyncRead \/ SyncCompare \/ SyncFinish
  BY <1>3 DEF Switch, StartSession, CheckGap, Subscribe, Drop, BeatExpires, Receive, Apply, Pause,
              SyncFetch, SyncRead, SyncCompare, SyncFinish, brokerVars
<1>4. CASE UNCHANGED vars
  BY <1>4 DEF vars
<1> QED
  BY <1>1, <1>2, <1>3, <1>4 DEF Next

\* What is closed stays as it is; after the session the whole book does.
LEMMA ClosedStays ==
  ASSUME TypeOK, [Next]_vars, NEW o \in Orders, ~ book[o].open, ~ Place(o)
  PROVE  ~ book'[o].open /\ book'[o].filled = book[o].filled /\ book'[o].rejected = book[o].rejected
<1>1. ~ Place(o) /\ ~ Execute(o) /\ ~ CancelRest(o) /\ ~ Reject(o)
  BY DEF Execute, CancelRest, Reject
<1>2. CASE EndSession
  <2>1. book'[o] = [book[o] EXCEPT !.open = FALSE] /\ book[o] \in Book
    BY <1>2 DEF EndSession, TypeOK
  <2> QED
    BY <2>1 DEF Book
<1> QED
  BY <1>1, <1>2, BookChanges

\* What can become of a row where the report lists no orders.
LEMMA RowChanges ==
  ASSUME FillInv, ~ setting.perOrderRows, [Next]_vars, NEW o \in Orders
  PROVE  \/ rows'[o] = rows[o]
         \/ rows[o].state = "none" /\ rows'[o].state = "planned" /\ rows'[o].filled = rows[o].filled
         \/ /\ rows[o].state = "planned" /\ rows'[o].state = "submitted" /\ rows'[o].filled = rows[o].filled
            /\ book' = book
         \/ /\ Apply /\ hand.step = "apply" /\ hand.n.order = o /\ ~ Refused(hand.order, hand.n)
            /\ rows'[o] = Written(rows[o], hand.order, hand.n) /\ book' = book /\ hand' = Idle
         \/ SyncExpire(o) /\ rows'[o].state = "expired" /\ rows'[o].filled = rows[o].filled /\ book' = book
<1>0. rows \in [Orders -> Row] /\ rows[o] \in Row
  BY DEF FillInv, TypeOK
<1>1. CASE \E p \in Orders : Plan(p)
  BY <1>0, <1>1 DEF Plan, Row
<1>2. CASE \E p \in Orders : RecordPlaced(p)
  BY <1>0, <1>2 DEF RecordPlaced, Row, SubmittedState, brokerVars
<1>3. CASE Apply
  <2>1. CASE rows' = rows
    BY <2>1
  <2>2. CASE rows' # rows
    <3>1. /\ hand.step = "apply" /\ ~ Refused(hand.order, hand.n) /\ book' = book /\ hand' = Idle
          /\ rows' = [rows EXCEPT ![hand.n.order] = Written(rows[hand.n.order], hand.order, hand.n)]
      BY <1>3, <2>2 DEF Apply, brokerVars
    <3>2. CASE hand.n.order = o
      BY <1>0, <1>3, <3>1, <3>2
    <3>3. CASE hand.n.order # o
      BY <1>0, <3>1, <3>3
    <3> QED
      BY <3>2, <3>3
  <2> QED
    BY <2>1, <2>2
<1>4. ASSUME NEW p \in Orders PROVE ~ SyncApply(p)
  <2>1. SUFFICES ASSUME sync.step = "apply" PROVE p \notin sync.todo
    BY DEF SyncApply
  <2>2. sync # Idle
    BY <2>1 DEF Idle
  <2>3. sync.todo \subseteq {}
    BY <2>1, <2>2 DEF FillInv, SyncFits, ReportFits
  <2> QED
    BY <2>3
<1>5. CASE \E p \in Orders : SyncExpire(p)
  <2>1. PICK p \in Orders : SyncExpire(p)
    BY <1>5
  <2>2. book' = book
    BY <2>1 DEF SyncExpire, brokerVars
  <2>3. rows' = rows \/ rows' = [rows EXCEPT ![p].state = "expired"]
    BY <2>1 DEF SyncExpire
  <2>4. CASE p = o
    BY <1>0, <2>1, <2>2, <2>3, <2>4 DEF Row
  <2>5. CASE p # o
    BY <1>0, <2>3, <2>5
  <2> QED
    BY <2>4, <2>5
<1>6. CASE UNCHANGED rows
  BY <1>6
<1>7. CASE Switch \/ EndSession \/ StartSession \/ CheckGap \/ Subscribe \/ Drop \/ BeatExpires
           \/ Receive \/ Pause \/ SyncFetch \/ SyncRead \/ SyncCompare \/ SyncFinish
  BY <1>6, <1>7 DEF Switch, EndSession, StartSession, CheckGap, Subscribe, Drop, BeatExpires,
                Receive, Pause, SyncFetch, SyncRead, SyncCompare, SyncFinish, storeVars
<1>8. ASSUME NEW p \in Orders, Place(p) \/ Execute(p) \/ CancelRest(p) \/ Reject(p)
      PROVE  UNCHANGED rows
  BY <1>8 DEF Place, Execute, CancelRest, Reject, storeVars
<1>9. CASE UNCHANGED vars
  BY <1>6, <1>9 DEF vars
<1> QED
  BY <1>1, <1>2, <1>3, <1>4, <1>5, <1>6, <1>7, <1>8, <1>9 DEF Next

\* What the listener writes, where the fills it read are those of the row: the state moves
\* and the executed shares are added, or nothing but a cancelled quantity is taken off.
LEMMA AppliedRow ==
  ASSUME FillInv, ~ setting.perOrderRows, hand.step = "apply", ~ Refused(hand.order, hand.n),
         NEW o \in Orders, o = hand.n.order, NEW w, w = Written(rows[o], hand.order, hand.n)
  PROVE  /\ w \in Row /\ hand.order.filled = rows[o].filled /\ hand.order.quantity = rows[o].quantity
         /\ rows[o].filled <= w.filled
         /\ Applied(hand.order, hand.n).state # hand.order.state =>
              /\ w.state = Applied(hand.order, hand.n).state
              /\ w.state \in Ended \cup {"partially_filled"}
         /\ \/ w.state = rows[o].state /\ w.filled = rows[o].filled
            \/ /\ w.state = Applied(hand.order, hand.n).state /\ w.state # hand.order.state
               /\ w.state # "none" /\ w.state # "planned" /\ w.state \in Ended \cup {"partially_filled"}
               /\ w.filled = rows[o].filled + (IF hand.n.kind = "execution" THEN hand.n.quantity ELSE 0)
<1>1. /\ hand.n \in Notification /\ hand.order \in Row /\ rows[o] \in Row
      /\ hand.order.filled <= hand.order.quantity
      /\ rows[o].quantity = hand.order.quantity /\ rows[o].filled = hand.order.filled
  BY InTheHand
<1>2. w \in Row /\ Wrote(w, rows[o], hand.order, hand.n)
  BY <1>1, WrittenFits
<1>3. /\ hand.n.quantity \in Nat /\ rows[o].filled \in Nat /\ hand.n.kind \in {"execution", "cancel", "rejection"}
  BY <1>1, FillAssumption DEF Notification, Row
<1>4. ASSUME Applied(hand.order, hand.n).state # hand.order.state
      PROVE  Applied(hand.order, hand.n).state \in {"filled", "partially_filled", "canceled", "rejected"}
  <2>1. CASE hand.n.kind = "execution"
    BY <1>1, <2>1 DEF Applied, Executed, Row
  <2>2. CASE hand.n.kind = "cancel"
    BY <1>1, <1>4, <2>2 DEF Applied, Cancelled, Row
  <2>3. CASE hand.n.kind = "rejection"
    BY <1>1, <2>3 DEF Applied, Row
  <2> QED
    BY <1>3, <2>1, <2>2, <2>3
<1> QED
  BY <1>1, <1>2, <1>3, <1>4 DEF Wrote, Ended

\* Without orders in the report there is nothing to apply of it.
LEMMA NothingReported ==
  ASSUME FillInv, ~ setting.perOrderRows, NEW o \in Orders
  PROVE  ~ SyncApply(o)
<1>1. SUFFICES ASSUME sync.step = "apply" PROVE o \notin sync.todo
  BY DEF SyncApply
<1>2. sync.todo \subseteq {}
  BY <1>1, SyncApplying DEF ReportFits
<1> QED
  BY <1>2

\* The day begins before anything can be wrong about it.
LEMMA DayInit == Init => DayInv
<1> SUFFICES ASSUME Init PROVE DayInv
  OBVIOUS
<1>1. /\ ended = FALSE /\ channel = <<>> /\ hand = Idle /\ sync = Idle
      /\ \A o \in Orders : /\ rows[o].state = "none" /\ rows[o].filled = 0 /\ book[o].filled = 0
                           /\ book[o].quantity = Size /\ book[o].open = FALSE /\ book[o].rejected = FALSE
  BY DEF Init, NoRow
<1>2. BookOfTheDay
  <2>1. Size \in Nat
    BY FillAssumption
  <2> QED
    BY <1>1, <2>1 DEF BookOfTheDay, Placed
<1>3. HonestNotices
  <2>1. DOMAIN channel = {}
    BY <1>1
  <2> QED
    BY <1>1, <2>1 DEF HonestNotices, Idle
<1>4. LateTotals /\ MatchedTotalsMatchOrders
  BY <1>1 DEF LateTotals, MatchedTotalsMatchOrders, Idle
<1>5. EndedIsTrue
  BY <1>1 DEF EndedIsTrue
<1> QED
  BY <1>2, <1>3, <1>4, <1>5 DEF DayInv, DayEndIsTrue

\* The broker's side of one order after a step.
LEMMA BookOneKeeps ==
  ASSUME FillInv, BookOfTheDay, [Next]_vars, NEW o \in Orders
  PROVE  /\ book'[o].open => book'[o].filled < book'[o].quantity
         /\ book'[o].rejected => ~ book'[o].open /\ book'[o].filled = 0
<1>1. /\ book \in [Orders -> Book] /\ book[o] \in Book
      /\ book[o].quantity \in Nat /\ book[o].filled \in Nat /\ Size \in Nat
      /\ book[o].quantity <= Size /\ book[o].open \in BOOLEAN /\ book[o].rejected \in BOOLEAN
  BY FillAssumption DEF FillInv, TypeOK, Book
<1>2. /\ book[o].open => book[o].filled < book[o].quantity
      /\ book[o].rejected => ~ book[o].open /\ book[o].filled = 0
  BY DEF BookOfTheDay
<1>3. CASE book'[o] = book[o]
  BY <1>2, <1>3
<1>4. CASE Place(o)
  <2>1. /\ book'[o] = [book[o] EXCEPT !.open = TRUE]
        /\ book[o].filled = 0 /\ book[o].quantity = Size /\ ~ book[o].rejected
    BY <1>1, <1>4 DEF Place, Placed
  <2>2. 0 < Size
    BY FillAssumption
  <2> QED
    BY <1>1, <2>1, <2>2 DEF Book
<1>5. CASE Execute(o)
  <2>1. PICK q \in 1..Outstanding(o) :
          book' = [book EXCEPT ![o].filled = @ + q, ![o].open = q < Outstanding(o)]
    BY <1>5 DEF Execute
  <2>2. /\ book'[o].filled = book[o].filled + q /\ book'[o].open = (q < Outstanding(o))
        /\ book'[o].quantity = book[o].quantity /\ book'[o].rejected = book[o].rejected
    BY <1>1, <2>1 DEF Book
  <2>3. book[o].open /\ Outstanding(o) = book[o].quantity - book[o].filled
    BY <1>5 DEF Execute, Outstanding
  <2>4. q \in Nat
    BY <1>1, <2>3
  <2> QED
    BY <1>1, <1>2, <2>2, <2>3, <2>4
<1>6. CASE CancelRest(o)
  <2>1. PICK q \in 1..Outstanding(o) :
          book' = [book EXCEPT ![o].quantity = @ - q, ![o].open = q < Outstanding(o)]
    BY <1>6 DEF CancelRest
  <2>2. /\ book'[o].filled = book[o].filled /\ book'[o].open = (q < Outstanding(o))
        /\ book'[o].quantity = book[o].quantity - q /\ book'[o].rejected = book[o].rejected
    BY <1>1, <2>1 DEF Book
  <2>3. book[o].open /\ Outstanding(o) = book[o].quantity - book[o].filled
    BY <1>6 DEF CancelRest, Outstanding
  <2>4. q \in Nat
    BY <1>1, <2>3
  <2> QED
    BY <1>1, <1>2, <2>2, <2>3, <2>4
<1>7. CASE Reject(o)
  <2>1. book'[o] = [book[o] EXCEPT !.rejected = TRUE, !.open = FALSE] /\ book[o].filled = 0
    BY <1>1, <1>7 DEF Reject
  <2> QED
    BY <1>1, <2>1 DEF Book
<1>8. CASE EndSession
  <2>1. book'[o] = [book[o] EXCEPT !.open = FALSE]
    BY <1>8 DEF EndSession
  <2> QED
    BY <1>1, <1>2, <2>1 DEF Book
<1> QED
  BY <1>3, <1>4, <1>5, <1>6, <1>7, <1>8, BookChanges DEF FillInv

\* The day's book after a step.
LEMMA BookKeeps ==
  ASSUME FillInv, ~ setting.perOrderRows, BookOfTheDay, [Next]_vars
  PROVE  BookOfTheDay'
<1> SUFFICES ASSUME NEW o \in Orders
             PROVE  /\ book'[o].open => book'[o].filled < book'[o].quantity
                    /\ book'[o].rejected => ~ book'[o].open /\ book'[o].filled = 0
                    /\ ended' => ~ book'[o].open
                    /\ rows'[o].state = "none" => ~ Placed(o)' /\ rows'[o].filled = 0
  BY DEF BookOfTheDay
<1>1. ended' => ~ book'[o].open
  <2>1. CASE ended
    <3>1. ~ book[o].open /\ ~ Place(o)
      BY <2>1 DEF BookOfTheDay, Place
    <3> QED
      BY <3>1, ClosedStays DEF FillInv
  <2>2. CASE EndSession
    <3>1. book'[o] = [book[o] EXCEPT !.open = FALSE] /\ book[o] \in Book
      BY <2>2 DEF EndSession, FillInv, TypeOK
    <3> QED
      BY <3>1 DEF Book
  <2> QED
    BY <2>1, <2>2, DayGoesOn
<1>2. rows'[o].state = "none" => ~ Placed(o)' /\ rows'[o].filled = 0
  <2>1. SUFFICES ASSUME rows'[o].state = "none" PROVE ~ Placed(o)' /\ rows'[o].filled = 0
    OBVIOUS
  <2>2. rows[o].state = "none" /\ rows'[o].filled = rows[o].filled
    BY <2>1, RowChanges, AppliedRow
  <2>3. ~ Placed(o) /\ rows[o].filled = 0
    BY <2>2 DEF BookOfTheDay
  <2>4. ~ Place(o) /\ ~ Execute(o) /\ ~ CancelRest(o) /\ ~ Reject(o)
    BY <2>2, <2>3 DEF Place, Execute, CancelRest, Reject, Placed
  <2>5. CASE EndSession
    <3>1. book'[o] = [book[o] EXCEPT !.open = FALSE] /\ book[o] \in Book
      BY <2>5 DEF EndSession, FillInv, TypeOK
    <3>2. /\ book'[o].open = FALSE /\ book'[o].rejected = book[o].rejected
          /\ book'[o].filled = book[o].filled /\ book'[o].quantity = book[o].quantity
      BY <3>1 DEF Book
    <3> QED
      BY <2>2, <2>3, <3>2 DEF Placed
  <2>6. CASE book'[o] = book[o]
    BY <2>2, <2>3, <2>6 DEF Placed
  <2> QED
    BY <2>4, <2>5, <2>6, BookChanges DEF FillInv
<1> QED
  BY <1>1, <1>2, BookOneKeeps

\* A rejected order stays so.
LEMMA RejectedStays ==
  ASSUME FillInv, BookOfTheDay, [Next]_vars, NEW o \in Orders, book[o].rejected
  PROVE  book'[o].rejected
<1>1. ~ book[o].open /\ ~ Place(o)
  BY DEF BookOfTheDay, Place, Placed
<1> QED
  BY <1>1, ClosedStays DEF FillInv

\* What joins the channel when the broker notifies.
LEMMA Joined ==
  ASSUME NEW o \in Orders, NEW kind, NEW q, Notify(o, kind, q)
  PROVE  \/ channel' = channel
         \/ \E n : n.order = o /\ n.kind = kind /\ n.quantity = q /\ channel' = Append(channel, n)
<1>1. CASE link = "subscribed"
  <2>1. PICK s : channel' = Append(channel, [order |-> o, kind |-> kind, quantity |-> q, orderQuantity |-> s])
    BY <1>1 DEF Notify
  <2> QED
    BY <2>1
<1>2. CASE link # "subscribed"
  BY <1>2 DEF Notify
<1> QED
  BY <1>1, <1>2

\* How the channel and the listener's hand change.
LEMMA ChannelChanges ==
  ASSUME TypeOK, [Next]_vars
  PROVE  /\ \/ channel' = channel \/ channel' = <<>>
            \/ channel # <<>> /\ channel' = Tail(channel)
            \/ \E n : /\ n.order \in Orders /\ channel' = Append(channel, n)
                      /\ n.kind = "rejection" => Reject(n.order)
                      /\ n.kind = "cancel" => n.quantity \in 1..Outstanding(n.order)
         /\ \/ hand' = hand \/ hand'.step # "apply"
            \/ Receive /\ channel # <<>> /\ hand'.step = "apply" /\ hand'.n = Head(channel)
<1>1. ASSUME NEW o \in Orders, Execute(o)
      PROVE  /\ hand' = hand
             /\ \/ channel' = channel
                \/ \E n : n.order = o /\ n.kind = "execution" /\ channel' = Append(channel, n)
  <2>1. PICK q \in 1..Outstanding(o) : Notify(o, "execution", q)
    BY <1>1 DEF Execute
  <2> QED
    BY <1>1, <2>1, Joined DEF Execute
<1>2. ASSUME NEW o \in Orders, CancelRest(o)
      PROVE  /\ hand' = hand
             /\ \/ channel' = channel
                \/ \E n : /\ n.order = o /\ n.kind = "cancel" /\ n.quantity \in 1..Outstanding(o)
                          /\ channel' = Append(channel, n)
  <2>1. PICK q \in 1..Outstanding(o) : Notify(o, "cancel", q)
    BY <1>2 DEF CancelRest
  <2> QED
    BY <1>2, <2>1, Joined DEF CancelRest
<1>3. ASSUME NEW o \in Orders, Reject(o)
      PROVE  /\ hand' = hand
             /\ \/ channel' = channel
                \/ \E n : n.order = o /\ n.kind = "rejection" /\ channel' = Append(channel, n)
  BY <1>3, Joined DEF Reject
<1>4. ASSUME NEW o \in Orders, Plan(o) \/ Place(o) \/ RecordPlaced(o) \/ SyncApply(o) \/ SyncExpire(o)
      PROVE  hand' = hand /\ channel' = channel
  BY <1>4 DEF Plan, Place, RecordPlaced, SyncApply, SyncExpire, listenerVars
<1>5. CASE Switch \/ EndSession \/ StartSession \/ CheckGap \/ Subscribe \/ BeatExpires
           \/ SyncFetch \/ SyncRead \/ SyncCompare \/ SyncFinish
  BY <1>5 DEF Switch, EndSession, StartSession, CheckGap, Subscribe, BeatExpires,
              SyncFetch, SyncRead, SyncCompare, SyncFinish, listenerVars
<1>6. CASE Drop
  BY <1>6 DEF Drop, Down, Idle
<1>7. CASE Receive
  BY <1>7 DEF Receive
<1>8. CASE Apply
  BY <1>8 DEF Apply, Down, Idle
<1>9. CASE Pause
  BY <1>9 DEF Pause, Idle
<1>10. CASE UNCHANGED vars
  BY <1>10 DEF vars
<1>11. CASE \E o \in Orders : Execute(o)
  BY <1>1, <1>11
<1>12. CASE \E o \in Orders : CancelRest(o)
  BY <1>2, <1>12
<1>13. CASE \E o \in Orders : Reject(o)
  BY <1>3, <1>13
<1> QED
  BY <1>4, <1>5, <1>6, <1>7, <1>8, <1>9, <1>10, <1>11, <1>12, <1>13 DEF Next

\* Notifications under way stay honest.
LEMMA NoticesKeep ==
  ASSUME FillInv, BookOfTheDay, HonestNotices, [Next]_vars
  PROVE  HonestNotices'
<1>1. channel \in Seq(Notification)
  BY DEF FillInv, TypeOK
<1>2. ASSUME NEW n, n.order \in Orders, Honest(book, n) PROVE Honest(book', n)
  BY <1>2, RejectedStays DEF Honest
<1>3. \A i \in 1..Len(channel) : channel[i] \in Notification /\ channel[i].order \in Orders /\ Honest(book', channel[i])
  <2>1. DOMAIN channel = 1..Len(channel) /\ \A i \in 1..Len(channel) : channel[i] \in Notification
    BY <1>1
  <2>2. \A i \in 1..Len(channel) : channel[i].order \in Orders /\ Honest(book, channel[i])
    BY <2>1 DEF HonestNotices, Notification
  <2> QED
    BY <1>2, <2>1, <2>2
<1>4. hand.step = "apply" => Honest(book', hand.n)
  <2>1. hand.step = "apply" => hand.n.order \in Orders
    BY InTheHand
  <2> QED
    BY <1>2, <2>1 DEF HonestNotices
<1>5. \A i \in DOMAIN channel' : Honest(book', channel'[i])
  <2>1. CASE channel' = channel
    BY <1>1, <1>3, <2>1
  <2>2. CASE channel' = <<>>
    BY <2>2
  <2>3. CASE channel # <<>> /\ channel' = Tail(channel)
    <3>1. /\ DOMAIN channel' = 1..(Len(channel) - 1) /\ Len(channel) \in Nat
          /\ \A i \in DOMAIN channel' : channel'[i] = channel[i + 1]
      BY <1>1, <2>3
    <3>2. \A i \in 1..(Len(channel) - 1) : i + 1 \in 1..Len(channel)
      BY <3>1
    <3> QED
      BY <1>3, <3>1, <3>2
  <2>4. ASSUME NEW n, n.order \in Orders, channel' = Append(channel, n),
               n.kind = "rejection" => Reject(n.order),
               n.kind = "cancel" => n.quantity \in 1..Outstanding(n.order)
        PROVE  \A i \in DOMAIN channel' : Honest(book', channel'[i])
    <3>1. n.kind = "rejection" => book'[n.order].rejected
      <4>1. SUFFICES ASSUME Reject(n.order) PROVE book'[n.order].rejected
        BY <2>4
      <4>2. book'[n.order] = [book[n.order] EXCEPT !.rejected = TRUE, !.open = FALSE] /\ book[n.order] \in Book
        BY <2>4, <4>1 DEF Reject, FillInv, TypeOK
      <4> QED
        BY <4>2 DEF Book
    <3>2. n.kind = "cancel" => n.quantity > 0
      <4>1. book[n.order].quantity \in Nat /\ book[n.order].filled \in Nat
        BY <2>4, Amounts DEF FillInv
      <4> QED
        BY <2>4, <4>1 DEF Outstanding
    <3>3. Honest(book', n)
      BY <3>1, <3>2 DEF Honest
    <3>4. /\ DOMAIN channel' = 1..(Len(channel) + 1) /\ Len(channel) \in Nat
          /\ channel'[Len(channel) + 1] = n
          /\ \A i \in 1..Len(channel) : channel'[i] = channel[i]
      BY <1>1, <2>4
    <3>5. \A i \in 1..(Len(channel) + 1) : i \in 1..Len(channel) \/ i = Len(channel) + 1
      BY <3>4
    <3> QED
      BY <1>3, <3>3, <3>4, <3>5
  <2> QED
    BY <2>1, <2>2, <2>3, <2>4, ChannelChanges DEF FillInv
<1>6. hand'.step = "apply" => Honest(book', hand'.n)
  <2>1. CASE hand' = hand
    BY <1>4, <2>1
  <2>2. CASE channel # <<>> /\ hand'.n = Head(channel)
    <3>1. Len(channel) \in Nat /\ Len(channel) > 0 /\ Head(channel) = channel[1]
      BY <1>1, <2>2
    <3> QED
      BY <1>3, <2>2, <3>1
  <2> QED
    BY <2>1, <2>2, ChannelChanges DEF FillInv
<1> QED
  BY <1>5, <1>6 DEF HonestNotices

\* What a late synchronisation has seen of the broker stays true.
LEMMA LateKeeps ==
  ASSUME FillInv, ~ setting.perOrderRows, BookOfTheDay, LateTotals, [Next]_vars
  PROVE  LateTotals'
<1>1. CASE sync' = sync
  <2>1. ended => \A o \in Orders : book'[o].filled = book[o].filled
    BY ClosedStays DEF FillInv, BookOfTheDay, Place
  <2>2. ended => Sum(book)' = Sum(book)
    BY <2>1 DEF Sum
  <2> QED
    BY <1>1, <2>2, DayGoesOn DEF LateTotals
<1>2. CASE SyncFetch
  <2>1. book' = book /\ ended' = ended
    BY <1>2 DEF SyncFetch, brokerVars
  <2>2. PICK late \in {FALSE, ended}, totals \in {Sum(book), Unavailable} :
          sync' = [step |-> "read", late |-> late, totals |-> totals,
                   report |-> IF setting.perOrderRows
                              THEN [o \in {p \in Orders : Placed(p)} |-> Reported(o)]
                              ELSE <<>>]
    BY <1>2 DEF SyncFetch
  <2>3. sync'.step = "read" /\ sync'.late = late /\ sync'.totals = totals
    BY <2>2
  <2>4. Sum(book)' = Sum(book)
    BY <2>1 DEF Sum
  <2> QED
    BY <2>1, <2>3, <2>4 DEF LateTotals
<1>3. CASE SyncRead
  <2>1. book' = book /\ ended' = ended /\ sync.step = "read"
    BY <1>3 DEF SyncRead, brokerVars
  <2>2. sync'.step = "apply" /\ sync'.late = sync.late /\ sync'.totals = sync.totals
    BY <1>3 DEF SyncRead
  <2>3. Sum(book)' = Sum(book)
    BY <2>1 DEF Sum
  <2> QED
    BY <2>1, <2>2, <2>3 DEF LateTotals
<1>4. CASE SyncCompare
  <2>1. ended' = ended /\ sync.step = "apply"
    BY <1>4 DEF SyncCompare, brokerVars
  <2>2. /\ sync'.step = "close" /\ sync'.late = sync.late
        /\ sync'.todo # {} => sync.late = TRUE /\ sync'.verdict = "matched"
        /\ sync'.verdict \in {"matched", "mismatched", "unavailable"}
    BY <1>4 DEF SyncCompare, CompareDailyTotals
  <2> QED
    BY <2>1, <2>2 DEF LateTotals
<1>5. ASSUME NEW o \in Orders, SyncExpire(o), sync' # sync PROVE LateTotals'
  <2>1. ended' = ended /\ sync.step = "close" /\ o \in sync.todo
    BY <1>5 DEF SyncExpire, brokerVars
  <2>2. sync' = Idle \/ sync' = [sync EXCEPT !.todo = @ \ {o}]
    BY <1>5 DEF SyncExpire
  <2>3. CASE sync' = Idle
    BY <2>3 DEF LateTotals, Idle
  <2>4. CASE sync' = [sync EXCEPT !.todo = @ \ {o}]
    <3>1. sync'.step = "close" /\ sync'.late = sync.late /\ sync'.verdict = sync.verdict
      BY <2>1, <2>4, SyncClosing
    <3> QED
      BY <2>1, <3>1 DEF LateTotals
  <2> QED
    BY <2>2, <2>3, <2>4
<1>6. CASE SyncFinish
  BY <1>6 DEF SyncFinish, LateTotals, Idle
<1>7. ASSUME NEW o \in Orders, Plan(o) \/ Place(o) \/ RecordPlaced(o) \/ Execute(o) \/ CancelRest(o) \/ Reject(o)
      PROVE  sync' = sync
  BY <1>7 DEF Plan, Place, RecordPlaced, Execute, CancelRest, Reject
<1>8. CASE Switch \/ EndSession \/ StartSession \/ CheckGap \/ Subscribe \/ Drop \/ BeatExpires
           \/ Receive \/ Apply \/ Pause
  BY <1>1, <1>8 DEF Switch, EndSession, StartSession, CheckGap, Subscribe, Drop, BeatExpires,
                    Receive, Apply, Pause
<1>9. CASE UNCHANGED vars
  BY <1>1, <1>9 DEF vars
<1>10. ASSUME NEW o \in Orders, SyncExpire(o) PROVE LateTotals'
  BY <1>1, <1>5, <1>10
<1> QED
  BY <1>1, <1>2, <1>3, <1>4, <1>6, <1>7, <1>8, <1>9, <1>10, NothingReported DEF Next

\* An order that has ended in the store has ended at the broker: an execution or a cancel
\* that ends it takes all that is left, a rejected order has no fills, and the day's end
\* moves only orders whose sums were found to agree.
LEMMA EndedKeeps ==
  ASSUME FillInv, FillInv', ~ setting.perOrderRows, DayInv, [Next]_vars
  PROVE  EndedIsTrue'
<1> SUFFICES ASSUME NEW o \in Orders, rows'[o].state \in Ended
             PROVE  ~ book'[o].open /\ rows'[o].filled = book'[o].filled
  BY DEF EndedIsTrue, Ended
<1>1. /\ rows[o] \in Row /\ rows[o].filled \in Nat /\ rows[o].quantity \in Nat
      /\ book[o].filled \in Nat /\ book[o].quantity \in Nat /\ book[o].open \in BOOLEAN
      /\ InHand(o, "cancel") \in Nat /\ InHand(o, "execution") \in Nat
  BY Amounts DEF FillInv, Book
<1>2. /\ rows[o].filled <= book[o].filled /\ book[o].filled <= book[o].quantity
      /\ book[o].quantity + InHand(o, "cancel") <= rows[o].quantity
      /\ rows[o].filled + InHand(o, "execution") <= book[o].filled
  BY StoredFits, ClaimsFit DEF NothingInvented, FillInv, BookFits
<1>3. /\ book[o].open => book[o].filled < book[o].quantity
      /\ book[o].rejected => ~ book[o].open /\ book[o].filled = 0
      /\ ended => ~ book[o].open
  BY DEF DayInv, BookOfTheDay
<1>4. CASE rows'[o].state = rows[o].state /\ rows'[o].filled = rows[o].filled
  <2>1. ~ book[o].open /\ rows[o].filled = book[o].filled
    BY <1>4 DEF DayInv, DayEndIsTrue, EndedIsTrue, Ended
  <2>2. ~ Place(o)
    BY <1>4 DEF Place, Ended
  <2> QED
    BY <1>4, <2>1, <2>2, ClosedStays DEF FillInv
<1>5. ASSUME hand.step = "apply", hand.n.order = o, ~ Refused(hand.order, hand.n), book' = book,
             rows'[o] = Written(rows[o], hand.order, hand.n),
             ~ (rows'[o].state = rows[o].state /\ rows'[o].filled = rows[o].filled)
      PROVE  ~ book'[o].open /\ rows'[o].filled = book'[o].filled
  <2> DEFINE n == hand.n
  <2>1. /\ hand.order.filled = rows[o].filled /\ hand.order.quantity = rows[o].quantity
        /\ rows'[o].state = Applied(hand.order, n).state /\ rows'[o].state # hand.order.state
        /\ rows'[o].filled = rows[o].filled + (IF n.kind = "execution" THEN n.quantity ELSE 0)
    BY <1>5, AppliedRow
  <2>2. /\ n \in Notification /\ hand.order \in Row /\ n.quantity \in Nat
        /\ InHand(o, "cancel") = Part(n, o, "cancel") /\ InHand(o, "execution") = Part(n, o, "execution")
        /\ n.kind \in {"execution", "cancel", "rejection"}
    BY <1>5, InTheHand, FillAssumption DEF Notification
  <2>3. ~ Problem(hand.order, n) /\ Honest(book, n)
    BY <1>5 DEF Refused, DayInv, HonestNotices
  <2> HIDE DEF n
  <2>4. CASE n.kind = "execution"
    <3>1. rows[o].filled + n.quantity = rows[o].quantity
      <4>1. Applied(hand.order, n) = [hand.order EXCEPT !.filled = hand.order.filled + n.quantity,
                                        !.state = IF hand.order.filled + n.quantity = hand.order.quantity
                                                  THEN "filled" ELSE "partially_filled"]
        BY <2>4 DEF Applied, Executed
      <4>2. Applied(hand.order, n).state = IF hand.order.filled + n.quantity = hand.order.quantity
                                           THEN "filled" ELSE "partially_filled"
        BY <2>2, <4>1 DEF Row
      <4> QED
        BY <2>1, <4>2 DEF Ended
    <3>2. InHand(o, "execution") = n.quantity
      BY <1>5, <2>2, <2>4 DEF Part, n
    <3>3. book[o].filled = rows[o].quantity /\ book[o].filled = book[o].quantity
      BY <1>1, <1>2, <2>2, <3>1, <3>2
    <3> QED
      BY <1>1, <1>3, <1>5, <2>1, <2>4, <3>1, <3>3
  <2>5. CASE n.kind = "cancel"
    <3>1. n.quantity = 0 \/ n.quantity >= hand.order.quantity - hand.order.filled
      BY <2>1, <2>5 DEF Applied, Cancelled
    <3>2. n.quantity > 0 /\ n.quantity <= hand.order.quantity - hand.order.filled
      BY <1>1, <2>1, <2>2, <2>3, <2>5 DEF Honest, Problem
    <3>3. n.quantity = rows[o].quantity - rows[o].filled
      BY <1>1, <2>1, <2>2, <3>1, <3>2
    <3>4. InHand(o, "cancel") = n.quantity
      BY <1>5, <2>2, <2>5 DEF Part, n
    <3>5. book[o].filled = rows[o].filled /\ book[o].filled = book[o].quantity
      <4>1. book[o].quantity + n.quantity <= rows[o].quantity
        BY <1>2, <3>4
      <4>2. book[o].quantity <= rows[o].filled
        BY <1>1, <2>2, <3>3, <4>1
      <4> QED
        <5>1. rows[o].filled <= book[o].filled /\ book[o].filled <= book[o].quantity
          BY <1>2
        <5>2. rows[o].filled \in Nat /\ book[o].filled \in Nat /\ book[o].quantity \in Nat
          BY <1>1
        <5> QED
          BY <4>2, <5>1, <5>2
    <3>6. rows'[o].filled = rows[o].filled
      BY <1>1, <2>1, <2>5
    <3> QED
      <4>1. ~ book[o].open
        BY <1>1, <1>3, <3>5
      <4> QED
        BY <1>5, <3>5, <3>6, <4>1
  <2>6. CASE n.kind = "rejection"
    <3>1. book[o].rejected
      BY <1>5, <2>3, <2>6 DEF Honest, n
    <3> QED
      BY <1>1, <1>2, <1>3, <1>5, <2>1, <2>6, <3>1
  <2> QED
    BY <2>2, <2>4, <2>5, <2>6
<1>6. CASE SyncExpire(o) /\ rows'[o].filled = rows[o].filled /\ book' = book
  <2>1. sync.step = "close" /\ sync.todo # {}
    BY <1>6 DEF SyncExpire
  <2>2. sync.late /\ sync.verdict = "matched" /\ ended
    BY <2>1 DEF DayInv, LateTotals
  <2>3. rows[o].filled = book[o].filled
    BY <2>1, <2>2 DEF DayInv, DayEndIsTrue, MatchedTotalsMatchOrders
  <2> QED
    BY <1>3, <1>6, <2>2, <2>3
<1>7. CASE rows'[o] = rows[o]
  BY <1>4, <1>7
<1> QED
  BY <1>4, <1>5, <1>6, <1>7, RowChanges DEF Ended

\* Sums that agree agree order by order, for no row is ahead of the broker.
LEMMA MatchedSums ==
  ASSUME FillInv, ~ setting.perOrderRows, Sum(rows) = Sum(book), NEW o \in Orders
  PROVE  rows[o].filled = book[o].filled
<1> DEFINE f == [p \in Orders |-> rows[p].filled]
           g == [p \in Orders |-> book[p].filled]
<1>1. Total(f, Orders) = Total(g, Orders)
  BY DEF Sum, SumFunction, Total
<1>2. \A p \in Orders : f[p] \in Int /\ g[p] \in Int /\ f[p] <= g[p]
  BY Amounts, ClaimsFit DEF FillInv, NothingInvented
<1>3. f[o] = rows[o].filled /\ g[o] = book[o].filled
  OBVIOUS
<1> HIDE DEF f, g
<1>4. \A p \in Orders : f[p] = g[p]
  BY <1>1, <1>2, FillAssumption, SumEqual
<1> QED
  BY <1>3, <1>4

\* And once they agree after the session, they stay so.
LEMMA MatchedKeeps ==
  ASSUME FillInv, FillInv', ~ setting.perOrderRows, DayInv, [Next]_vars
  PROVE  MatchedTotalsMatchOrders'
<1> SUFFICES ASSUME sync'.step = "close", sync'.late, sync'.verdict = "matched", NEW o \in Orders
             PROVE  rows'[o].filled = book'[o].filled
  BY DEF MatchedTotalsMatchOrders
<1>1. CASE sync.step = "close" /\ sync.late = sync'.late /\ sync.verdict = "matched"
  <2>1. ended /\ rows[o].filled = book[o].filled
    BY <1>1 DEF DayInv, DayEndIsTrue, LateTotals, MatchedTotalsMatchOrders
  <2>2. book'[o].filled = book[o].filled
    BY <2>1, ClosedStays DEF DayInv, BookOfTheDay, Place, FillInv
  <2>3. /\ rows[o].filled \in Nat /\ book[o].filled \in Nat /\ rows'[o].filled \in Nat
        /\ rows'[o].filled <= book'[o].filled
    <3>1. rows'[o].filled \in Nat
      <4>1. rows'[o] \in Row
        BY DEF FillInv, TypeOK
      <4> QED
        BY <4>1, FillAssumption DEF Row
    <3>2. NothingInvented' /\ setting' = setting
      BY ClaimsFit, DayGoesOn, PTL
    <3> QED
      BY <3>1, <3>2, Amounts DEF FillInv, NothingInvented
  <2>4. rows[o].filled <= rows'[o].filled
    BY <2>3, RowChanges, AppliedRow
  <2> QED
    BY <2>1, <2>2, <2>3, <2>4
<1>2. CASE SyncCompare
  <2>1. rows' = rows /\ book' = book /\ sync.step = "apply"
    BY <1>2 DEF SyncCompare, brokerVars, storeVars
  <2>2. sync'.late = sync.late /\ CompareDailyTotals(Sum(rows), sync.totals) = "matched"
    BY <1>2 DEF SyncCompare
  <2>3. sync.totals # Unavailable /\ Sum(rows) = sync.totals
    BY <2>2 DEF CompareDailyTotals
  <2>4. sync.totals = Sum(book)
    BY <2>1, <2>2, <2>3 DEF DayInv, LateTotals
  <2> QED
    BY <2>1, <2>3, <2>4, MatchedSums
<1>3. CASE sync' = sync
  BY <1>1, <1>3
<1>4. ASSUME NEW p \in Orders, SyncExpire(p) PROVE rows'[o].filled = book'[o].filled
  <2>1. sync.step = "close" /\ (sync' = Idle \/ sync' = sync \/ sync' = [sync EXCEPT !.todo = @ \ {p}])
    BY <1>4 DEF SyncExpire
  <2>2. CASE sync' = [sync EXCEPT !.todo = @ \ {p}]
    BY <1>1, <2>1, <2>2, SyncClosing
  <2>3. sync' # Idle
    BY DEF Idle
  <2> QED
    BY <1>3, <2>1, <2>2, <2>3
<1>5. ~ SyncFetch /\ ~ SyncRead /\ ~ SyncFinish
  BY DEF SyncFetch, SyncRead, SyncFinish, Idle
<1>6. ASSUME NEW p \in Orders, Plan(p) \/ Place(p) \/ RecordPlaced(p) \/ Execute(p) \/ CancelRest(p) \/ Reject(p)
      PROVE  sync' = sync
  BY <1>6 DEF Plan, Place, RecordPlaced, Execute, CancelRest, Reject
<1>7. CASE Switch \/ EndSession \/ StartSession \/ CheckGap \/ Subscribe \/ Drop \/ BeatExpires
           \/ Receive \/ Apply \/ Pause
  BY <1>3, <1>7 DEF Switch, EndSession, StartSession, CheckGap, Subscribe, Drop, BeatExpires,
                    Receive, Apply, Pause
<1>8. CASE UNCHANGED vars
  BY <1>3, <1>8 DEF vars
<1> QED
  BY <1>2, <1>3, <1>4, <1>5, <1>6, <1>7, <1>8, NothingReported DEF Next

\* One step of the day.
LEMMA DayStep ==
  ASSUME FillInv, FillInv', ~ setting.perOrderRows, DayInv, [Next]_vars
  PROVE  DayInv'
  BY BookKeeps, NoticesKeep, LateKeeps, EndedKeeps, MatchedKeeps DEF DayInv, DayEndIsTrue

\* Whatever the end of the day settles is true: an order stored as ended has ended at the
\* broker with as many shares, and totals that match after the session mean that every
\* single order matches.
THEOREM DayEndCorrect == Spec => []DayEndIsTrue
<1> DEFINE Inv == FillInv /\ (~ setting.perOrderRows => DayInv)
<1>1. Init => Inv
  BY FillInit, DayInit
<1>2. Inv /\ [Next]_vars => Inv'
  BY FillStep, DayStep, DayGoesOn
<1>3. Inv => DayEndIsTrue
  BY DEF DayInv, DayEndIsTrue, EndedIsTrue, MatchedTotalsMatchOrders
<1> QED
  BY <1>1, <1>2, <1>3, PTL DEF Spec

\* What ends a synchronisation that had come to the day's end: its last step, or an
\* order that the graph does not let expire.
LEMMA ClosingEnds ==
  ASSUME FillInv, Next, sync.step = "close", sync' = Idle
  PROVE  \/ SyncFinish
         \/ /\ sync.todo # {} /\ rows' = rows /\ book' = book
<1>1. sync' # sync
  BY DEF Idle
<1>2. ~ SyncRead /\ ~ SyncFetch /\ ~ SyncCompare
  BY DEF SyncRead, SyncFetch, SyncCompare
<1>3. ASSUME NEW o \in Orders, SyncExpire(o)
      PROVE  sync.todo # {} /\ rows' = rows /\ book' = book
  <2>1. o \in sync.todo /\ book' = book
    BY <1>3 DEF SyncExpire, brokerVars
  <2>2. [sync EXCEPT !.todo = @ \ {o}].step = "close"
    BY SyncClosing
  <2>3. rows' = rows
    BY <1>3, <2>2 DEF SyncExpire, Idle
  <2> QED
    BY <2>1, <2>3
<1>4. \A o \in Orders : ~ SyncApply(o)
  BY DEF SyncApply
<1>5. \A o \in Orders : ~ Plan(o) /\ ~ Place(o) /\ ~ RecordPlaced(o) /\ ~ Execute(o)
                        /\ ~ CancelRest(o) /\ ~ Reject(o)
  BY <1>1 DEF Plan, Place, RecordPlaced, Execute, CancelRest, Reject
<1>6. ~ Switch /\ ~ EndSession /\ ~ StartSession /\ ~ CheckGap /\ ~ Subscribe /\ ~ Drop
      /\ ~ BeatExpires /\ ~ Receive /\ ~ Apply /\ ~ Pause
  BY <1>1 DEF Switch, EndSession, StartSession, CheckGap, Subscribe, Drop, BeatExpires,
              Receive, Apply, Pause
<1> QED
  BY <1>2, <1>3, <1>4, <1>5, <1>6 DEF Next

\* When the last synchronisation of the day ends with the broker's totals in hand, what
\* is stored of every order is what was executed, or nobody trades on it.
THEOREM DayEndSpeaksCorrect == Spec => DayEndIsNotSilent
<1> DEFINE Inv == FillInv /\ (~ setting.perOrderRows => DayInv)
           Silent == /\ ~ setting.perOrderRows
                     /\ sync.step = "close" /\ sync.late /\ sync.verdict # "unavailable"
                     /\ sync' = Idle
           Spoken == auto' \in Stopped \/ \A o \in Orders : rows'[o].filled = book'[o].filled
<1>1. Init => Inv
  BY FillInit, DayInit
<1>2. Inv /\ [Next]_vars => Inv'
  BY FillStep, DayStep, DayGoesOn
<1>3. Inv /\ [Next]_vars => [Silent => Spoken]_vars
  <2> SUFFICES ASSUME FillInv, DayInv, Next, Silent PROVE Spoken
    OBVIOUS
  <2>1. sync.verdict \in {"matched", "mismatched"}
    BY DEF DayInv, LateTotals
  <2>2. sync.verdict = "matched" => \A o \in Orders : rows[o].filled = book[o].filled
    BY DEF DayInv, DayEndIsTrue, MatchedTotalsMatchOrders
  <2>3. CASE SyncFinish
    <3>1. rows' = rows /\ book' = book
      BY <2>3 DEF SyncFinish, brokerVars
    <3>2. CASE sync.verdict = "mismatched"
      <4>1. auto' = IF AutomationMayBecome(auto, "paused") THEN "paused" ELSE auto
        BY <2>3, <3>2 DEF SyncFinish, Found
      <4>2. auto \in AutomationState
        BY DEF FillInv, TypeOK
      <4> QED
        BY <4>1, <4>2 DEF AutomationState, AutomationMayBecome, AutomationTransitions, Stopped
    <3> QED
      BY <2>1, <2>2, <3>1, <3>2
  <2>4. CASE sync.todo # {} /\ rows' = rows /\ book' = book
    <3>1. sync.verdict = "matched"
      BY <2>4 DEF DayInv, LateTotals
    <3> QED
      BY <2>2, <2>4, <3>1
  <2> QED
    BY <2>3, <2>4, ClosingEnds
<1> QED
  BY <1>1, <1>2, <1>3, PTL DEF Spec, DayEndIsNotSilent
-----------------------------------------------------------------------------
(* A listener that hears nothing.                                        *)

\* States in which a row may have lost count, or needs none.
Past == Ended \cup {"partially_filled"}

\* The shares of an order that notifications ns report as executed.
Coming(ns, o) == Total([i \in 1..Len(ns) |-> Part(ns[i], o, "execution")], 1..Len(ns))

HeardOf(o) == StoredFill(o) + Coming(channel, o)

\* A listener without a subscription has nothing in its hands.
NothingUnderWay == link # "subscribed" => channel = <<>> /\ hand = Idle

\* A fresh session has looked at every order that may have missed something.
AttachedKnows ==
  link = "attached" =>
    \A o \in Orders : o \in problems \/ (~ book[o].open /\ rows[o].filled = book[o].filled)

\* From then on what is stored and what is under way make up the broker's fills.
SubscribedHears ==
  link = "subscribed" =>
    \A o \in Orders : o \in problems \/ rows[o].state \in Past \/ HeardOf(o) = book[o].filled

HandIsPast ==
  hand.step = "apply" /\ hand.order.state = "partially_filled" => rows[hand.n.order].state \in Past

SilentInv == NothingUnderWay /\ AttachedKnows /\ SubscribedHears /\ HandIsPast

\* A notification adds a natural number of shares.
LEMMA PartType ==
  ASSUME NEW n \in Notification, NEW o
  PROVE  Part(n, o, "execution") \in Nat
<1>1. n.quantity \in 0..Size /\ Size \in Nat
  BY FillAssumption DEF Notification
<1>2. n.quantity \in Nat
  BY <1>1
<1> QED
  BY <1>2 DEF Part

\* The amounts under way.
LEMMA ComingType ==
  ASSUME NEW ns \in Seq(Notification), NEW o
  PROVE  Coming(ns, o) \in Nat /\ Len(ns) \in Nat /\ \A i \in 1..Len(ns) : Part(ns[i], o, "execution") \in Nat
<1>1. Len(ns) \in Nat /\ \A i \in 1..Len(ns) : Part(ns[i], o, "execution") \in Nat
  <2>1. Len(ns) \in Nat /\ \A i \in 1..Len(ns) : ns[i] \in Notification
    OBVIOUS
  <2> QED
    BY <2>1, PartType
<1> DEFINE S == 1..Len(ns)
           f == [i \in S |-> Part(ns[i], o, "execution")]
<1>2. IsFiniteSet(S)
  <2>1. Len(ns) \in Int /\ 1 \in Int
    BY <1>1
  <2> QED
    BY <2>1, FS_Interval
<1>3. \A i \in S : f[i] \in Nat
  BY <1>1
<1>4. Coming(ns, o) = Total(f, S)
  BY DEF Coming
<1> HIDE DEF f, S
<1> QED
  BY <1>1, <1>2, <1>3, <1>4, SumNat

LEMMA ComingNone == \A o : Coming(<<>>, o) = 0
  BY SumEmpty DEF Coming

\* A notification joins at the end.
LEMMA ComingMore ==
  ASSUME NEW ns \in Seq(Notification), NEW n \in Notification, NEW o
  PROVE  Coming(Append(ns, n), o) = Coming(ns, o) + Part(n, o, "execution")
<1> DEFINE k == Len(ns)
           f == [i \in 1..k |-> Part(ns[i], o, "execution")]
           g == [i \in 1..(k + 1) |-> Part(Append(ns, n)[i], o, "execution")]
<1>1. /\ k \in Nat /\ Len(Append(ns, n)) = k + 1 /\ Append(ns, n)[k + 1] = n
      /\ \A i \in 1..k : Append(ns, n)[i] = ns[i]
  OBVIOUS
<1>2. Part(n, o, "execution") \in Nat /\ \A i \in 1..k : Part(ns[i], o, "execution") \in Nat
  BY ComingType, PartType
<1>3. /\ g[k + 1] = Part(n, o, "execution") /\ \A i \in 1..k : g[i] = f[i]
      /\ \A i \in 1..(k + 1) : g[i] \in Int
  BY <1>1, <1>2
<1>4. Coming(ns, o) = Total(f, 1..k) /\ Coming(Append(ns, n), o) = Total(g, 1..(k + 1))
  BY <1>1 DEF Coming
<1>5. Coming(ns, o) \in Nat
  BY ComingType
<1> HIDE DEF k, f, g
<1>6. Total(g, 1..(k + 1)) = g[k + 1] + Total(g, 1..k) /\ IsFiniteSet(1..k)
  BY <1>1, <1>3, SumLast
<1>7. Total(g, 1..k) = Total(f, 1..k)
  <2> DEFINE S == 1..k
  <2> HIDE DEF S
  <2>1. IsFiniteSet(S) /\ \A i \in S : g[i] = f[i]
    BY <1>3, <1>6 DEF S
  <2> QED
    BY <2>1, SumSame DEF S
<1> QED
  BY <1>2, <1>3, <1>4, <1>5, <1>6, <1>7

\* And is taken from the front.
LEMMA ComingLess ==
  ASSUME NEW ns \in Seq(Notification), ns # <<>>, NEW o
  PROVE  Coming(ns, o) = Part(Head(ns), o, "execution") + Coming(Tail(ns), o)
<1> DEFINE k == Len(ns)
           f == [i \in 1..k |-> Part(ns[i], o, "execution")]
           g == [i \in 1..(k - 1) |-> Part(Tail(ns)[i], o, "execution")]
<1>1. /\ k \in Nat /\ k > 0 /\ Len(Tail(ns)) = k - 1 /\ Head(ns) = ns[1]
      /\ \A i \in 1..(k - 1) : Tail(ns)[i] = ns[i + 1]
  OBVIOUS
<1>2. \A i \in 1..k : Part(ns[i], o, "execution") \in Nat
  BY ComingType
<1>3. /\ f[1] = Part(Head(ns), o, "execution") /\ \A i \in 1..k : f[i] \in Int
      /\ \A i \in 1..(k - 1) : g[i] = f[i + 1]
  BY <1>1, <1>2
<1>4. Coming(ns, o) = Total(f, 1..k) /\ Coming(Tail(ns), o) = Total(g, 1..(k - 1))
  BY <1>1 DEF Coming
<1> HIDE DEF k, f, g
<1> QED
  BY <1>1, <1>3, <1>4, SumFirst

\* The session has ended or an order counts as partly filled: so it stays.
LEMMA PastStays ==
  ASSUME FillInv, ~ setting.perOrderRows, [Next]_vars, NEW o \in Orders, rows[o].state \in Past
  PROVE  rows'[o].state \in Past
  BY RowChanges, AppliedRow DEF Past, Ended

LEMMA ProblemsStay ==
  ASSUME [Next]_vars
  PROVE  problems \subseteq problems'
<1>1. ASSUME NEW o \in Orders, Plan(o) \/ Place(o) \/ RecordPlaced(o) \/ Execute(o) \/ CancelRest(o) \/ Reject(o)
                               \/ SyncApply(o) \/ SyncExpire(o)
      PROVE  problems' = problems
  BY <1>1 DEF Plan, Place, RecordPlaced, Execute, CancelRest, Reject, SyncApply, SyncExpire, storeVars
<1>2. CASE Switch \/ EndSession \/ StartSession \/ CheckGap \/ Subscribe \/ Drop \/ BeatExpires \/ Receive \/ Pause
           \/ SyncFetch \/ SyncRead \/ SyncCompare \/ SyncFinish
  BY <1>2 DEF Switch, EndSession, StartSession, CheckGap, Subscribe, Drop, BeatExpires, Receive, Pause,
              SyncFetch, SyncRead, SyncCompare, SyncFinish, storeVars
<1>3. CASE Apply
  BY <1>3 DEF Apply
<1>4. CASE UNCHANGED vars
  BY <1>4 DEF vars
<1> QED
  BY <1>1, <1>2, <1>3, <1>4 DEF Next

\* Only an execution changes what was executed.
LEMMA FilledBy ==
  ASSUME FillInv, [Next]_vars, NEW o \in Orders, ~ Execute(o)
  PROVE  book'[o].filled = book[o].filled
<1>1. book \in [Orders -> Book] /\ book[o] \in Book
  BY DEF FillInv, TypeOK
<1>2. CASE Place(o)
  BY <1>1, <1>2 DEF Place, Book
<1>3. CASE CancelRest(o)
  BY <1>1, <1>3 DEF CancelRest, Book
<1>4. CASE Reject(o)
  BY <1>1, <1>4 DEF Reject, Book
<1>5. CASE EndSession
  BY <1>1, <1>5 DEF EndSession, Book
<1> QED
  BY <1>2, <1>3, <1>4, <1>5, BookChanges DEF FillInv

\* What a step does to connection, channel and hand.
LEMMA LinkChanges ==
  ASSUME [Next]_vars
  PROVE  \/ link' \in {"dead", "down"} /\ channel' = <<>> /\ hand' = Idle
         \/ StartSession \/ CheckGap \/ Subscribe
         \/ link' = link /\ (Receive \/ Apply \/ Pause)
         \/ link' = link /\ \E o \in Orders : Execute(o) \/ CancelRest(o) \/ Reject(o)
         \/ link' = link /\ channel' = channel /\ hand' = hand
<1>1. ASSUME NEW o \in Orders, Plan(o) \/ Place(o) \/ RecordPlaced(o) \/ SyncApply(o) \/ SyncExpire(o)
      PROVE  link' = link /\ channel' = channel /\ hand' = hand
  BY <1>1 DEF Plan, Place, RecordPlaced, SyncApply, SyncExpire, listenerVars
<1>2. ASSUME NEW o \in Orders, Execute(o) \/ CancelRest(o) \/ Reject(o)
      PROVE  link' = link
  BY <1>2 DEF Execute, CancelRest, Reject
<1>3. CASE Switch \/ EndSession \/ BeatExpires \/ SyncFetch \/ SyncRead \/ SyncCompare \/ SyncFinish
  BY <1>3 DEF Switch, EndSession, BeatExpires, SyncFetch, SyncRead, SyncCompare, SyncFinish, listenerVars
<1>4. CASE Drop
  BY <1>4 DEF Drop, Down
<1>5. CASE Receive
  BY <1>5 DEF Receive
<1>6. CASE Apply
  BY <1>6 DEF Apply, Down
<1>7. CASE Pause
  BY <1>7 DEF Pause
<1>8. CASE UNCHANGED vars
  BY <1>8 DEF vars
<1> QED
  BY <1>1, <1>2, <1>3, <1>4, <1>5, <1>6, <1>7, <1>8 DEF Next

\* Without a subscription nothing gets under way.
LEMMA NothingKeeps ==
  ASSUME FillInv, NothingUnderWay, [Next]_vars
  PROVE  NothingUnderWay'
<1>1. SUFFICES ASSUME link' # "subscribed" PROVE channel' = <<>> /\ hand' = Idle
  BY DEF NothingUnderWay
<1>2. CASE StartSession \/ CheckGap \/ Subscribe
  BY <1>1, <1>2 DEF StartSession, CheckGap, Subscribe, NothingUnderWay
<1>3. CASE link' = link /\ (Receive \/ Apply \/ Pause)
  BY <1>1, <1>3 DEF Receive, Apply, Pause, NothingUnderWay, Idle
<1>4. ASSUME link' = link, NEW o \in Orders, Execute(o) \/ CancelRest(o) \/ Reject(o)
      PROVE  channel' = <<>> /\ hand' = Idle
  <2>1. link # "subscribed" /\ channel = <<>> /\ hand = Idle
    BY <1>1, <1>4 DEF NothingUnderWay
  <2> QED
    BY <1>4, <2>1 DEF Execute, CancelRest, Reject, Notify
<1>5. CASE link' = link /\ channel' = channel /\ hand' = hand
  BY <1>1, <1>5 DEF NothingUnderWay
<1> QED
  BY <1>2, <1>3, <1>4, <1>5, LinkChanges

\* Between the look and the subscription nothing happens that would be missed.
LEMMA AttachedKeeps ==
  ASSUME FillInv, ~ setting.perOrderRows, ~ setting.earlySubmit, DayInv, SilentInv, [Next]_vars
  PROVE  AttachedKnows'
<1> SUFFICES ASSUME link' = "attached", NEW o \in Orders, o \notin problems'
             PROVE  ~ book'[o].open /\ rows'[o].filled = book'[o].filled
  BY DEF AttachedKnows
<1>1. CASE CheckGap
  <2>1. rows' = rows /\ book' = book /\ rows[o].state \notin UnsettledStates
    BY <1>1 DEF CheckGap, brokerVars, MayHaveMissed
  <2>2. rows[o].state \in OrderState \cup {"none"} /\ book[o].filled \in Nat
    BY Amounts DEF FillInv, Row
  <2>3. CASE rows[o].state = "none"
    BY <2>1, <2>2, <2>3 DEF DayInv, BookOfTheDay, Placed
  <2>4. CASE rows[o].state # "none"
    <3>1. rows[o].state \in Ended
      BY <2>1, <2>2, <2>4 DEF OrderState, UnsettledStates, OpenStates, Ended
    <3> QED
      BY <2>1, <3>1 DEF DayInv, DayEndIsTrue, EndedIsTrue, Ended
  <2> QED
    BY <2>3, <2>4
<1>2. CASE link = "attached"
  <2>1. ~ book[o].open /\ rows[o].filled = book[o].filled
    BY <1>2, ProblemsStay DEF SilentInv, AttachedKnows
  <2>2. ~ Place(o)
    BY <1>2 DEF Place
  <2>3. hand.step # "apply"
    BY <1>2 DEF SilentInv, NothingUnderWay, Idle
  <2>4. rows'[o].filled = rows[o].filled
    BY <2>3, RowChanges
  <2> QED
    BY <2>1, <2>2, <2>4, ClosedStays DEF FillInv
<1>3. ~ StartSession /\ ~ Subscribe
  BY DEF StartSession, Subscribe
<1> QED
  BY <1>1, <1>2, <1>3, LinkChanges

\* A notification that joins the channel reports what the broker has just executed.
LEMMA ExecutionHeard ==
  ASSUME FillInv, FillInv', link = "subscribed", NEW p \in Orders, Execute(p) \/ CancelRest(p) \/ Reject(p),
         NEW o \in Orders, HeardOf(o) = book[o].filled
  PROVE  HeardOf(o)' = book'[o].filled
<1>1. /\ channel \in Seq(Notification) /\ channel' \in Seq(Notification) /\ book \in [Orders -> Book]
      /\ book[o].filled \in Nat /\ StoredFill(o) \in Nat
  BY Amounts DEF FillInv, TypeOK
<1>2. StoredFill(o)' = StoredFill(o)
  BY DEF Execute, CancelRest, Reject, storeVars, StoredFill, InHand
<1>3. Coming(channel, o) \in Nat
  BY <1>1, ComingType
<1>4. ASSUME NEW kind, NEW q, Notify(p, kind, q)
      PROVE  \E n \in Notification : n.order = p /\ n.kind = kind /\ n.quantity = q /\ channel' = Append(channel, n)
  <2>1. PICK s : channel' = Append(channel, [order |-> p, kind |-> kind, quantity |-> q, orderQuantity |-> s])
    BY <1>4 DEF Notify
  <2> DEFINE n == [order |-> p, kind |-> kind, quantity |-> q, orderQuantity |-> s]
  <2>2. n \in Notification
    <3>1. Len(channel) \in Nat /\ Len(channel') = Len(channel) + 1 /\ channel'[Len(channel) + 1] = n
      BY <1>1, <2>1
    <3> QED
      BY <1>1, <3>1
  <2> QED
    BY <2>1, <2>2
<1>5. CASE Execute(p)
  <2>1. PICK q \in 1..Outstanding(p) :
          /\ book' = [book EXCEPT ![p].filled = @ + q, ![p].open = q < Outstanding(p)]
          /\ Notify(p, "execution", q)
    BY <1>5 DEF Execute
  <2>2. PICK n \in Notification :
          n.order = p /\ n.kind = "execution" /\ n.quantity = q /\ channel' = Append(channel, n)
    BY <1>4, <2>1
  <2>3. Coming(channel', o) = Coming(channel, o) + Part(n, o, "execution")
    BY <1>1, <2>2, ComingMore
  <2>4. q \in Nat
    BY <2>2, FillAssumption DEF Notification
  <2>5. book'[o].filled = book[o].filled + Part(n, o, "execution")
    <3>1. CASE p = o
      BY <1>1, <2>1, <2>2, <3>1 DEF Part, Book
    <3>2. CASE p # o
      BY <1>1, <2>1, <2>2, <3>2 DEF Part
    <3> QED
      BY <3>1, <3>2
  <2>6. Part(n, o, "execution") \in Nat
    BY <2>2, <2>4 DEF Part
  <2> QED
    BY <1>1, <1>2, <1>3, <2>3, <2>5, <2>6 DEF HeardOf
<1>6. ASSUME CancelRest(p) \/ Reject(p) PROVE HeardOf(o)' = book'[o].filled
  <2>1. PICK n \in Notification : n.kind # "execution" /\ channel' = Append(channel, n)
    <3>1. CASE CancelRest(p)
      BY <1>4, <3>1 DEF CancelRest
    <3>2. CASE Reject(p)
      BY <1>4, <3>2 DEF Reject
    <3> QED
      BY <1>6, <3>1, <3>2
  <2>2. Coming(channel', o) = Coming(channel, o) + Part(n, o, "execution") /\ Part(n, o, "execution") = 0
    BY <1>1, <2>1, ComingMore DEF Part
  <2>3. book'[o].filled = book[o].filled
    <3>1. CASE CancelRest(p)
      <4>1. PICK q \in 1..Outstanding(p) :
              book' = [book EXCEPT ![p].quantity = @ - q, ![p].open = q < Outstanding(p)]
        BY <3>1 DEF CancelRest
      <4> QED
        BY <1>1, <4>1 DEF Book
    <3>2. CASE Reject(p)
      BY <1>1, <3>2 DEF Reject, Book
    <3> QED
      BY <1>6, <3>1, <3>2
  <2> QED
    BY <1>1, <1>2, <1>3, <2>2, <2>3 DEF HeardOf
<1> QED
  BY <1>5, <1>6

\* What the listener takes from the channel it has in its hand, or a problem is on record.
LEMMA ReceiptHeard ==
  ASSUME FillInv, Receive, NEW o \in Orders, HeardOf(o) = book[o].filled, o \notin problems'
  PROVE  HeardOf(o)' = book'[o].filled
<1> DEFINE n == Head(channel)
<1>1. /\ channel \in Seq(Notification) /\ channel # <<>> /\ hand = Idle
      /\ channel' = Tail(channel) /\ book' = book /\ rows' = rows
  BY DEF Receive, FillInv, TypeOK, brokerVars
<1>2. n \in Notification /\ Tail(channel) \in Seq(Notification)
  BY <1>1
<1>3. Part(n, o, "execution") \in Nat /\ Coming(Tail(channel), o) \in Nat /\ rows[o].filled \in Nat
  <2>1. rows[o].filled \in 0..Size /\ Size \in Nat
    BY Amounts DEF FillInv
  <2> QED
    <3>1. Part(n, o, "execution") \in Nat
      BY <1>2, PartType
    <3>2. Coming(Tail(channel), o) \in Nat
      BY <1>2, ComingType
    <3>3. rows[o].filled \in Nat
      BY <2>1
    <3> QED
      BY <3>1, <3>2, <3>3
<1>4. Coming(channel, o) = Part(n, o, "execution") + Coming(Tail(channel), o)
  BY <1>1, ComingLess
<1>5. HeardOf(o) = rows[o].filled + Coming(channel, o)
  BY <1>1, <1>3 DEF HeardOf, StoredFill, InHand, Idle
<1>6. CASE hand' = [step |-> "apply", n |-> n, order |-> rows[n.order]]
  <2>1. InHand(o, "execution")' = Part(n, o, "execution")
    BY <1>6 DEF InHand
  <2>2. HeardOf(o)' = (rows[o].filled + Part(n, o, "execution")) + Coming(Tail(channel), o)
    BY <1>1, <2>1 DEF HeardOf, StoredFill
  <2> QED
    BY <1>1, <1>3, <1>4, <1>5, <2>2
<1>7. CASE hand' = [step |-> "pause"] /\ problems' = problems \cup {n.order}
  <2>1. Part(n, o, "execution") = 0 /\ InHand(o, "execution")' = 0
    BY <1>7 DEF Part, InHand
  <2>2. HeardOf(o)' = (rows[o].filled + 0) + Coming(Tail(channel), o)
    BY <1>1, <2>1 DEF HeardOf, StoredFill
  <2> QED
    BY <1>1, <1>3, <1>4, <1>5, <2>1, <2>2
<1> QED
  BY <1>6, <1>7 DEF Receive

\* An execution the listener applies is stored, unless the order is past counting or has a
\* problem on record.
LEMMA ApplyHeard ==
  ASSUME FillInv, ~ setting.perOrderRows, HandIsPast, Apply, link' = "subscribed",
         NEW o \in Orders, HeardOf(o) = book[o].filled,
         o \notin problems', rows[o].state \notin Past, rows'[o].state \notin Past
  PROVE  HeardOf(o)' = book'[o].filled
<1>1. /\ hand.step = "apply" /\ book' = book /\ channel \in Seq(Notification)
      /\ hand.n \in Notification /\ hand.n.order \in Orders /\ hand.order \in Row
      /\ InHand(o, "execution") = Part(hand.n, o, "execution")
      /\ rows \in [Orders -> Row] /\ rows[o].filled \in Nat /\ Coming(channel, o) \in Nat
  BY InTheHand, ComingType, Amounts DEF Apply, FillInv, TypeOK, brokerVars
<1>2. channel' = channel /\ (hand' = Idle \/ hand' = [step |-> "pause"])
  BY DEF Apply, Down
<1>3. InHand(o, "execution")' = 0
  BY <1>2 DEF InHand, Idle
<1>4. HeardOf(o)' = (rows'[o].filled + 0) + Coming(channel, o)
  BY <1>2, <1>3 DEF HeardOf, StoredFill
<1>5. HeardOf(o) = (rows[o].filled + Part(hand.n, o, "execution")) + Coming(channel, o)
  BY <1>1 DEF HeardOf, StoredFill
<1>6. rows'[o].filled = rows[o].filled /\ Part(hand.n, o, "execution") = 0
  <2>1. CASE Refused(hand.order, hand.n)
    <3>1. rows' = rows /\ problems' = problems \cup {hand.n.order}
      BY <2>1 DEF Apply
    <3> QED
      BY <3>1 DEF Part
  <2>2. CASE ~ Refused(hand.order, hand.n)
    <3>1. rows' = [rows EXCEPT ![hand.n.order] = Written(rows[hand.n.order], hand.order, hand.n)]
      BY <2>2 DEF Apply, Down
    <3>2. CASE hand.n.order # o
      BY <1>1, <3>1, <3>2 DEF Part
    <3>3. CASE hand.n.order = o
      <4>1. rows'[o] = Written(rows[o], hand.order, hand.n)
        BY <1>1, <3>1, <3>3
      <4>2. /\ Applied(hand.order, hand.n).state # hand.order.state =>
                 rows'[o].state = Applied(hand.order, hand.n).state /\ rows'[o].state \in Past
            /\ \/ rows'[o].state = rows[o].state /\ rows'[o].filled = rows[o].filled
               \/ rows'[o].state \in Past
        BY <1>1, <2>2, <3>3, <4>1, AppliedRow DEF Past
      <4>3. rows'[o].filled = rows[o].filled /\ Applied(hand.order, hand.n).state = hand.order.state
        BY <4>2
      <4>4. hand.order.state # "partially_filled" /\ hand.order.state # "filled"
        BY <1>1, <2>2, <3>3 DEF HandIsPast, Refused, Problem, NotificationTerminal
      <4>5. hand.n.kind # "execution"
        BY <1>1, <4>3, <4>4 DEF Applied, Executed, Row
      <4> QED
        BY <4>3, <4>5 DEF Part
    <3> QED
      BY <3>2, <3>3
  <2> QED
    BY <2>1, <2>2
<1> QED
  BY <1>1, <1>4, <1>5, <1>6

\* While subscribed the listener hears of everything.
LEMMA SubscribedKeeps ==
  ASSUME FillInv, FillInv', ~ setting.perOrderRows, SilentInv, [Next]_vars
  PROVE  SubscribedHears'
<1> SUFFICES ASSUME link' = "subscribed", NEW o \in Orders, o \notin problems', rows'[o].state \notin Past
             PROVE  HeardOf(o)' = book'[o].filled
  BY DEF SubscribedHears
<1>1. o \notin problems /\ rows[o].state \notin Past
  BY ProblemsStay, PastStays
<1>2. channel \in Seq(Notification) /\ rows[o].filled \in Nat /\ book[o].filled \in Nat
  BY Amounts DEF FillInv
<1>3. CASE Subscribe
  <2>1. /\ rows' = rows /\ book' = book /\ channel' = <<>> /\ hand' = Idle
        /\ rows[o].filled = book[o].filled
    BY <1>1, <1>3 DEF Subscribe, brokerVars, storeVars, SilentInv, NothingUnderWay, AttachedKnows
  <2>2. Coming(<<>>, o) = 0 /\ InHand(o, "execution")' = 0
    BY <2>1, ComingNone DEF InHand, Idle
  <2>3. HeardOf(o)' = (rows[o].filled + 0) + 0
    BY <2>1, <2>2 DEF HeardOf, StoredFill
  <2> QED
    BY <1>2, <2>1, <2>3
<1>4. CASE link' = link
  <2>1. HeardOf(o) = book[o].filled
    BY <1>1, <1>4 DEF SilentInv, SubscribedHears
  <2>2. CASE Receive
    BY <2>1, <2>2, ReceiptHeard
  <2>3. CASE Apply
    BY <1>1, <2>1, <2>3, ApplyHeard DEF SilentInv
  <2>4. ASSUME NEW p \in Orders, Execute(p) \/ CancelRest(p) \/ Reject(p)
        PROVE  HeardOf(o)' = book'[o].filled
    BY <1>4, <2>1, <2>4, ExecutionHeard
  <2>5. CASE /\ channel' = channel /\ ~ Apply /\ ~ Execute(o)
             /\ hand' = hand \/ (hand.step # "apply" /\ hand'.step # "apply")
    <3>1. rows'[o].filled = rows[o].filled
      BY <1>1, <2>5, RowChanges
    <3>2. book'[o].filled = book[o].filled
      BY <2>5, FilledBy
    <3>3. InHand(o, "execution")' = InHand(o, "execution")
      BY <2>5 DEF InHand
    <3> QED
      BY <2>1, <2>5, <3>1, <3>2, <3>3 DEF HeardOf, StoredFill
  <2>6. CASE Pause
    <3>1. channel' = channel /\ hand.step = "pause" /\ hand' = Idle /\ book' = book /\ rows' = rows
      BY <2>6 DEF Pause, brokerVars, storeVars
    <3>2. InHand(o, "execution")' = InHand(o, "execution")
      BY <3>1 DEF InHand, Idle
    <3> QED
      BY <2>1, <3>1, <3>2 DEF HeardOf, StoredFill
  <2> QED
    BY <1>4, <2>2, <2>3, <2>4, <2>5, <2>6, LinkChanges DEF StartSession, CheckGap, Subscribe
<1>5. ~ StartSession /\ ~ CheckGap
  BY DEF StartSession, CheckGap
<1> QED
  BY <1>3, <1>4, <1>5, LinkChanges

\* An order that was read as partly filled is past counting when its notification is applied.
LEMMA HandKeeps ==
  ASSUME FillInv, ~ setting.perOrderRows, HandIsPast, [Next]_vars
  PROVE  HandIsPast'
<1> SUFFICES ASSUME hand'.step = "apply", hand'.order.state = "partially_filled"
             PROVE  rows'[hand'.n.order].state \in Past
  BY DEF HandIsPast
<1>1. CASE hand' = hand
  <2>1. hand.n.order \in Orders
    BY <1>1, InTheHand
  <2> QED
    BY <1>1, <2>1, PastStays DEF HandIsPast
<1>2. CASE Receive
  BY <1>2 DEF Receive, Past
<1> QED
  BY <1>1, <1>2, ChannelChanges DEF FillInv

\* When all is quiet every row tells the truth, has its problem on record, or is partly filled.
THEOREM SilenceCorrect == Spec => []SilentMeansTrueButPartial
<1> DEFINE Inv == /\ FillInv /\ (~ setting.perOrderRows => DayInv)
                  /\ ~ setting.perOrderRows /\ ~ setting.earlySubmit => SilentInv
<1>1. Init => Inv
  <2>1. Init => SilentInv
    BY DEF Init, SilentInv, NothingUnderWay, AttachedKnows, SubscribedHears, HandIsPast, Idle
  <2> QED
    BY <2>1, FillInit, DayInit
<1>2. Inv /\ [Next]_vars => Inv'
  <2> SUFFICES ASSUME Inv, [Next]_vars PROVE Inv'
    OBVIOUS
  <2>1. FillInv' /\ setting' = setting
    BY FillStep, DayGoesOn
  <2>2. ~ setting.perOrderRows => DayInv'
    BY <2>1, DayStep
  <2>3. ASSUME ~ setting.perOrderRows, ~ setting.earlySubmit PROVE SilentInv'
    BY <2>1, <2>3, NothingKeeps, AttachedKeeps, SubscribedKeeps, HandKeeps DEF SilentInv
  <2> QED
    BY <2>1, <2>2, <2>3
<1>3. Inv => SilentMeansTrueButPartial
  <2> SUFFICES ASSUME Inv, Quiet, ~ setting.earlySubmit, ~ setting.perOrderRows, NEW o \in Orders,
                      o \notin problems, rows[o].state # "partially_filled"
               PROVE  rows[o].filled = book[o].filled
    BY DEF SilentMeansTrueButPartial, TrueOrReported
  <2>1. CASE rows[o].state \in Ended
    BY <2>1 DEF DayInv, DayEndIsTrue, EndedIsTrue, Ended
  <2>2. CASE rows[o].state \notin Ended
    <3>1. HeardOf(o) = book[o].filled /\ channel = <<>> /\ hand = Idle
      BY <2>2 DEF SilentInv, SubscribedHears, Quiet, Past
    <3>2. HeardOf(o) = (rows[o].filled + 0) + 0
      BY <3>1, ComingNone DEF HeardOf, StoredFill, InHand, Idle
    <3>3. rows[o].filled \in Nat
      BY Amounts DEF FillInv
    <3> QED
      BY <3>1, <3>2, <3>3
  <2> QED
    BY <2>1, <2>2
<1> QED
  BY <1>1, <1>2, <1>3, PTL DEF Spec
=============================================================================
