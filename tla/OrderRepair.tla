----------------------------- MODULE OrderRepair -----------------------------
(*************************************************************************)
(* One submitted order and everybody who may put its row right: the      *)
(* listener, a revision of the limit price (OrderReviser), the replay of *)
(* stored notifications (NotificationReplay), a person's attestation     *)
(* (OrderAttestor) and a person's explanation of a problem, on which the *)
(* readiness gate depends.                                               *)
(*                                                                       *)
(* Each of them reads the row in one transaction and writes it in a      *)
(* later one.  Broker numbers are counted from 1: a revision closes a    *)
(* number and opens the next.  Prices, the risk rules, rejections and    *)
(* the session's loss and end are left to other modules.                 *)
(*************************************************************************)
EXTENDS FillRules, Integers, Sequences, FiniteSets, SequencesExt, FiniteSetsExt, Functions

CONSTANTS
  Shapes,        \* the ordered quantity, and how many notifications may share a frame
  MaxRevisions, MaxAttestations, MaxReplays, MaxExplanations   \* bounds on what people start

ASSUME RepairAssumption ==
  /\ Shapes \subseteq [size : Nat \ {0}, frame : Nat \ {0}]
  /\ {MaxRevisions, MaxAttestations, MaxReplays, MaxExplanations} \subseteq Nat

VARIABLES
  shape,
  row,         \* the stored order
  early,       \* was it submitted before the first listener session?
  book,        \* the broker's numbers of the order: quantity, filled, open?
  auto,        \* the automation state, as far as a revision asks for it
  channel,     \* frames under way to the listener, oldest first
  listener, reviser, attestor, replayer, resolver,
  stored,      \* the stored notifications
  problems,    \* broker numbers with a reconcile problem on record
  resolved,    \* broker numbers a person explained
  attested, replays,     \* how often they were started
  unheard, dropped,       \* history: executed shares nobody was told of, or nobody wrote
  lost, hasty, muddled   \* history: see the properties

storeVars == <<row, stored, problems, resolved>>
brokerVars == <<book, channel>>
processVars == <<listener, reviser, attestor, replayer, resolver>>
repairBounds == <<shape, early, attested, replays>>
repairHistory == <<unheard, dropped, lost, hasty, muddled>>
repairVars == <<storeVars, brokerVars, processVars, repairBounds, repairHistory, auto>>

\* A cancel request has a number of its own, which no row carries.
CancelNumber == 0

Numbers == 1..Len(book)

Done == SumFunction([n \in Numbers |-> book[n].filled])

AtRest == [at |-> "idle"]

RepairInit ==
  /\ shape \in Shapes
  /\ early \in BOOLEAN
  /\ unheard \in (IF early THEN 0..(shape.size - 1) ELSE {0})
  /\ row = [state |-> "submitted", quantity |-> shape.size, filled |-> 0, number |-> 1]
  /\ book = <<[quantity |-> shape.size, filled |-> unheard, open |-> TRUE]>>
  /\ auto = "running"
  /\ channel = <<>> /\ stored = <<>>
  \* attach reports the orders it finds open
  /\ problems = IF early THEN {1} ELSE {}
  /\ resolved = {}
  /\ listener = AtRest /\ reviser = AtRest /\ attestor = AtRest /\ replayer = AtRest /\ resolver = AtRest
  /\ attested = 0 /\ replays = 0
  /\ dropped = 0 /\ lost = {} /\ hasty = {} /\ muddled = FALSE

\* What a notification reports as executed, or as cancelled.
Amount(n, kind) == IF n.kind = kind THEN n.quantity ELSE 0

InFrame(frame, first, kind) ==
  SumFunctionOnSet([i \in DOMAIN frame |-> Amount(frame[i], kind)], first..Len(frame))

UnderWay(kind) ==
  SumFunction([k \in DOMAIN channel |-> InFrame(channel[k], 1, kind)])
    + (IF listener.at = "idle" THEN 0 ELSE InFrame(listener.frame, listener.i, kind))

-----------------------------------------------------------------------------
(* The broker, and the people who cancel.                                *)

\* A notification goes out in a frame of its own or joins the last one.
Notify(n) ==
  \/ channel' = Append(channel, <<n>>)
  \/ /\ channel # <<>> /\ Len(Last(channel)) < shape.frame
     /\ channel' = [channel EXCEPT ![Len(channel)] = Append(@, n)]

Unfilled(n) == book[n].quantity - book[n].filled

\* Whether an order quantity is the first one or that of the number it comes with
\* has not been observed for a reduced or revised order.
Quoted(n) == {shape.size, book[n].quantity}

Fills(n) ==
  /\ book[n].open
  /\ \E q \in 1..Unfilled(n) :
       /\ book' = [book EXCEPT ![n].filled = @ + q, ![n].open = q < Unfilled(n)]
       /\ \E quoted \in Quoted(n) :
            Notify([kind |-> "execution", own |-> n, number |-> n, quantity |-> q,
                    orderQuantity |-> quoted])
  /\ UNCHANGED <<storeVars, processVars, repairBounds, repairHistory, auto>>

\* The stop, or a person who reduces the order, goes by the number on the row.
CancelRest ==
  /\ row.state \in OpenStates /\ book[row.number].open
  /\ \E q \in 1..Unfilled(row.number) :
       /\ book' = [book EXCEPT ![row.number].quantity = @ - q,
                               ![row.number].open = q < Unfilled(row.number)]
       /\ Notify([kind |-> "cancel", own |-> CancelNumber, number |-> row.number,
                  quantity |-> q, orderQuantity |-> shape.size])
  /\ UNCHANGED <<storeVars, processVars, repairBounds, repairHistory, auto>>

PersonGoesOn ==
  /\ auto = "paused"
  /\ auto' = "running"
  /\ UNCHANGED <<storeVars, brokerVars, processVars, repairBounds, repairHistory>>

-----------------------------------------------------------------------------
(* The listener: frame by frame, and notification by notification.       *)

\* Someone else writes the row while others hold a reading of it.
Stale(process) ==
  IF "stale" \in DOMAIN process THEN [process EXCEPT !.stale = TRUE] ELSE process

StoredRow(problem) ==
  [frame |-> listener.frame, i |-> listener.i, problem |-> problem, resolved |-> FALSE]

\* After the last notification of a frame with a problem trading is paused.
NextNotification(blocked) ==
  IF listener.i < Len(listener.frame)
    THEN /\ listener' = [at |-> "read", frame |-> listener.frame, i |-> listener.i + 1,
                         blocked |-> blocked]
         /\ UNCHANGED auto
    ELSE /\ listener' = AtRest
         /\ auto' = IF blocked THEN "paused" ELSE auto

Receive ==
  /\ listener.at = "idle" /\ channel # <<>>
  /\ listener' = [at |-> "read", frame |-> Head(channel), i |-> 1, blocked |-> FALSE]
  /\ channel' = Tail(channel)
  /\ UNCHANGED <<storeVars, book, reviser, attestor, replayer, resolver, repairBounds,
                 repairHistory, auto>>

Notice == listener.frame[listener.i]

\* The order is looked up by its number, again and again for five seconds.
Find ==
  /\ listener.at = "read"
  /\ Notice.number = row.number
  /\ listener' = [at |-> "write", frame |-> listener.frame, i |-> listener.i,
                  blocked |-> listener.blocked, order |-> row, stale |-> FALSE]
  /\ UNCHANGED <<storeVars, brokerVars, reviser, attestor, replayer, resolver, repairBounds,
                 repairHistory, auto>>

Unmatched ==
  /\ listener.at = "read"
  /\ Notice.number # row.number
  /\ stored' = Append(stored, StoredRow(TRUE))
  /\ problems' = problems \cup {Notice.number}
  /\ NextNotification(TRUE)
  /\ UNCHANGED <<row, resolved, brokerVars, reviser, attestor, replayer, resolver, repairBounds,
                 repairHistory>>

\* A problem is filed under the number of the notification itself.
Refuse ==
  /\ listener.at = "write" /\ Refused(listener.order, Notice)
  /\ stored' = Append(stored, StoredRow(TRUE))
  /\ problems' = problems \cup {Notice.own}
  /\ NextNotification(TRUE)
  /\ UNCHANGED <<row, resolved, brokerVars, reviser, attestor, replayer, resolver, repairBounds,
                 repairHistory>>

StateMoves == Applied(listener.order, Notice).state # listener.order.state

Apply ==
  /\ listener.at = "write" /\ ~ Refused(listener.order, Notice)
  /\ StateMoves => OrderMayBecome(row.state, Applied(listener.order, Notice).state)
  /\ row' = Written(row, listener.order, Notice)
  /\ stored' = Append(stored, StoredRow(FALSE))
  /\ dropped' = IF StateMoves THEN dropped ELSE dropped + Amount(Notice, "execution")
  /\ muddled' = (muddled \/ (StateMoves /\ listener.stale))
  /\ attestor' = Stale(attestor)
  /\ replayer' = IF StateMoves THEN Stale(replayer) ELSE replayer
  /\ NextNotification(listener.blocked)
  /\ UNCHANGED <<problems, resolved, brokerVars, reviser, resolver, repairBounds, unheard, lost, hasty>>

\* The row has moved on and the graph refuses: the process ends, and what comes then
\* finds nobody.
Raise ==
  /\ listener.at = "write" /\ ~ Refused(listener.order, Notice)
  /\ StateMoves /\ ~ OrderMayBecome(row.state, Applied(listener.order, Notice).state)
  /\ listener' = [at |-> "dead", frame |-> listener.frame, i |-> listener.i]
  /\ UNCHANGED <<storeVars, brokerVars, reviser, attestor, replayer, resolver, repairBounds,
                 repairHistory, auto>>
-----------------------------------------------------------------------------
(* OrderReviser.revise: the price of the rest is changed, the number     *)
(* with it.                                                              *)

StartRevision ==
  /\ reviser.at = "idle" /\ Len(book) <= MaxRevisions
  /\ listener.at # "dead"
  /\ row.state \in OpenStates /\ row.quantity > row.filled
  /\ reviser' = [at |-> "check", number |-> row.number]
  /\ UNCHANGED <<storeVars, brokerVars, listener, attestor, replayer, resolver, repairBounds,
                 repairHistory, auto>>

\* The gate and the risk rules; a rule may ask for the pause.
CheckRevision ==
  /\ reviser.at = "check"
  /\ \/ auto = "running" /\ reviser' = [reviser EXCEPT !.at = "send"] /\ UNCHANGED auto
     \/ reviser' = AtRest /\ UNCHANGED auto
     \/ auto = "running" /\ reviser' = AtRest /\ auto' = "paused"
  /\ UNCHANGED <<storeVars, brokerVars, listener, attestor, replayer, resolver, repairBounds, repairHistory>>

\* All that is left goes over to a new number, and the listener is notified.
Revised(n) ==
  /\ book[n].open
  /\ book' = Append([book EXCEPT ![n].open = FALSE, ![n].quantity = book[n].filled],
                    [quantity |-> Unfilled(n), filled |-> 0, open |-> TRUE])
  /\ \E quoted \in Quoted(n) :
       Notify([kind |-> "revision", own |-> Len(book) + 1, number |-> n,
               quantity |-> Unfilled(n), orderQuantity |-> quoted])

\* The broker takes it and answers, or its answer is lost; or it refuses, or the call
\* does not reach it.
SendRevision ==
  /\ reviser.at = "send"
  /\ \/ /\ Revised(reviser.number)
        /\ \/ reviser' = [at |-> "record", new |-> Len(book) + 1] /\ UNCHANGED lost
           \/ reviser' = AtRest /\ lost' = lost \cup {Len(book) + 1}
     \/ reviser' = AtRest /\ UNCHANGED <<brokerVars, lost>>
  /\ UNCHANGED <<storeVars, listener, attestor, replayer, resolver, repairBounds, unheard, dropped,
                 hasty, muddled, auto>>

\* record_revision: the number alone, whatever has become of the order meanwhile.
Renumbered(order, n) == [order EXCEPT !.number = n]

RecordRevision ==
  /\ reviser.at = "record"
  /\ row' = Renumbered(row, reviser.new)
  /\ reviser' = AtRest
  /\ UNCHANGED <<stored, problems, resolved, brokerVars, listener, attestor, replayer, resolver,
                 repairBounds, repairHistory, auto>>

-----------------------------------------------------------------------------
(* OrderAttestor.attest: what a person read on the broker's screen.      *)

\* The store's own bookkeeping of what is not in the row yet.
Waiting == {k \in DOMAIN stored : stored[k].problem /\ ~ stored[k].resolved}

Own(k) == stored[k].frame[stored[k].i]

StillWaiting(kind) == SumFunctionOnSet([k \in DOMAIN stored |-> Amount(Own(k), kind)], Waiting)

ToCome(kind) == UnderWay(kind) + StillWaiting(kind)

IsWorking == \E n \in Numbers : book[n].open

LookAtScreen ==
  /\ attestor.at = "idle" /\ attested < MaxAttestations /\ early
  /\ attested' = attested + 1
  /\ \E state \in (IF IsWorking THEN {"partially_filled"} ELSE {"filled", "canceled"}) :
       attestor' = [at |-> "check", state |-> state, filled |-> Done,
                    stale |-> ToCome("execution") > 0]
  /\ UNCHANGED <<storeVars, brokerVars, listener, reviser, replayer, resolver, shape, early, replays,
                 repairHistory, auto>>

\* attest_order
Attestable(order, claim) ==
  /\ order.state \in OpenStates /\ OrderMayBecome(order.state, claim.state)
  /\ claim.filled \in order.filled..order.quantity
  /\ claim.state = "filled" => claim.filled = order.quantity
  /\ claim.state = "partially_filled" => claim.filled \in 1..(order.quantity - 1)

CheckAttestation ==
  /\ attestor.at = "check"
  /\ attestor' = IF Attestable(row, attestor) THEN [attestor EXCEPT !.at = "write"] ELSE AtRest
  /\ UNCHANGED <<storeVars, brokerVars, listener, reviser, replayer, resolver, repairBounds,
                 repairHistory, auto>>

\* The write asks the graph once more, and nothing else.
WriteAttestation ==
  /\ attestor.at = "write"
  /\ attestor' = AtRest
  /\ IF OrderMayBecome(row.state, attestor.state)
       THEN /\ row' = [row EXCEPT !.state = attestor.state, !.filled = attestor.filled]
            /\ unheard' = 0 /\ dropped' = 0
            /\ muddled' = (muddled \/ attestor.stale)
            /\ listener' = Stale(listener) /\ replayer' = Stale(replayer)
       ELSE UNCHANGED <<row, unheard, dropped, muddled, listener, replayer>>
  /\ UNCHANGED <<stored, problems, resolved, brokerVars, reviser, resolver, repairBounds, lost,
                 hasty, auto>>

-----------------------------------------------------------------------------
(* NotificationReplay.replay: the waiting notifications are listed once; *)
(* of each the whole frame is applied, notification by notification.     *)

Listed == Waiting

StartReplay ==
  /\ replayer.at = "idle" /\ replays < MaxReplays /\ Listed # {}
  /\ replays' = replays + 1
  /\ replayer' = [at |-> "read", todo |-> Listed, j |-> 1]
  /\ UNCHANGED <<storeVars, brokerVars, listener, reviser, attestor, resolver, shape, early, attested,
                 repairHistory, auto>>

\* The oldest comes first.
Entry == Min(replayer.todo)

Replayed == stored[Entry].frame[replayer.j]

NextReplay ==
  replayer' = CASE replayer.j < Len(stored[Entry].frame) ->
                     [at |-> "read", todo |-> replayer.todo, j |-> replayer.j + 1]
                [] replayer.j = Len(stored[Entry].frame) /\ replayer.todo # {Entry} ->
                     [at |-> "read", todo |-> replayer.todo \ {Entry}, j |-> 1]
                [] OTHER -> AtRest

\* The order is not found, the notification is a problem or changes nothing, or the
\* graph refuses: it stays as it is.
Replayable(order, n) ==
  /\ n.number = order.number
  /\ ~ Problem(order, n)
  /\ Applied(order, n) # order \/ n.kind = "execution"
  /\ OrderMayBecome(order.state, Applied(order, n).state)

ReadReplay ==
  /\ replayer.at = "read"
  /\ IF Replayable(row, Replayed)
       THEN replayer' = [at |-> "write", todo |-> replayer.todo, j |-> replayer.j,
                         order |-> row, stale |-> FALSE]
       ELSE NextReplay
  /\ UNCHANGED <<storeVars, brokerVars, listener, reviser, attestor, resolver, repairBounds,
                 repairHistory, auto>>

\* apply_replay writes the state and the filled quantity, never the quantity, and marks
\* the stored notification whose frame it is.
WriteReplay ==
  /\ replayer.at = "write"
  /\ LET new == Applied(replayer.order, Replayed)
     IN IF OrderMayBecome(row.state, new.state)
          THEN /\ row' = [row EXCEPT !.state = new.state, !.filled = new.filled]
               /\ stored' = [stored EXCEPT ![Entry].resolved = TRUE]
               /\ muddled' = (muddled \/ replayer.stale \/ Len(stored[Entry].frame) > 1)
               /\ listener' = Stale(listener) /\ attestor' = Stale(attestor)
               /\ NextReplay
          ELSE /\ replayer' = AtRest
               /\ UNCHANGED <<row, stored, muddled, listener, attestor>>
  /\ UNCHANGED <<problems, resolved, brokerVars, reviser, resolver, repairBounds, unheard, dropped,
                 lost, hasty, auto>>

-----------------------------------------------------------------------------
(* resolve_problems: a person explains a number that is none of ours.    *)

Explainable(n) == n \in problems \ resolved /\ n # row.number

StartExplaining(n) ==
  /\ resolver.at = "idle" /\ Explainable(n) /\ Cardinality(resolved) < MaxExplanations
  /\ resolver' = [at |-> "save", number |-> n]
  /\ hasty' = IF reviser = [at |-> "record", new |-> n] THEN hasty \cup {n} ELSE hasty
  /\ UNCHANGED <<storeVars, brokerVars, listener, reviser, attestor, replayer, repairBounds,
                 unheard, dropped, lost, muddled, auto>>

SaveExplanation ==
  /\ resolver.at = "save"
  /\ resolved' = resolved \cup {resolver.number}
  /\ resolver' = AtRest
  /\ UNCHANGED <<row, stored, problems, brokerVars, listener, reviser, attestor, replayer,
                 repairBounds, repairHistory, auto>>

RepairNext ==
  \/ \E n \in Numbers : Fills(n)
  \/ CancelRest \/ PersonGoesOn
  \/ Receive \/ Find \/ Unmatched \/ Refuse \/ Apply \/ Raise
  \/ StartRevision \/ CheckRevision \/ SendRevision \/ RecordRevision
  \/ LookAtScreen \/ CheckAttestation \/ WriteAttestation
  \/ StartReplay \/ ReadReplay \/ WriteReplay
  \/ \E n \in Numbers \cup {CancelNumber} : StartExplaining(n)
  \/ SaveExplanation

RepairSpec == RepairInit /\ [][RepairNext]_repairVars

-----------------------------------------------------------------------------
\* Types of the row, the broker's numbers, what is stored and what people decided.
RepairTypeOK ==
  /\ row.state \in OrderState /\ row.quantity \in 0..shape.size /\ row.filled \in 0..shape.size
  /\ row.number \in Numbers
  /\ \A n \in Numbers : book[n].filled \in 0..book[n].quantity /\ book[n].open \in BOOLEAN
  /\ auto \in {"running", "paused"}
  /\ problems \subseteq Numbers \cup {CancelNumber} /\ resolved \subseteq problems
  /\ \A k \in DOMAIN stored : stored[k].i \in DOMAIN stored[k].frame

\* Every executed share is in the row, under way, stored for a replay, or one of those
\* that got lost in a way known beforehand: executed before the first session, or
\* dropped at PARTIALLY_FILLED.  This fails only where two of the writers overlapped, a
\* person read the screen while notifications were outstanding, or a frame of several
\* notifications was replayed.
EveryShareAccounted ==
  ~ muddled => Done = row.filled + unheard + dropped + ToCome("execution")

\* A number the broker works on is on the row or about to be, or the answer that named
\* it was lost.
NumberIsHeld ==
  \A n \in Numbers :
    book[n].open => n = row.number \/ reviser = [at |-> "record", new |-> n] \/ n \in lost

\* An order stored as ended has ended at the broker under every number, with as many
\* shares.
RepairedEndIsTrue ==
  (row.state \in {"filled", "canceled"} /\ ~ muddled) => ~ IsWorking /\ row.filled = Done

Settled == {"filled", "rejected", "canceled", "expired"}

\* Mutation: a number that no row carries is not counted.
UnreconciledJoined == {n \in problems \ resolved : row.number = n /\ row.state \notin Settled}

\* unreconciled_events of the gate.
Unreconciled ==
  {n \in problems \ resolved :
     ~ (row.number = n /\ row.state \in Settled)}

\* When all is quiet, a row that disagrees with the broker is counted by the readiness
\* gate, unless shares were dropped or a person explained a number.
GateCountsDivergence ==
  (/\ channel = <<>> /\ listener = AtRest /\ reviser = AtRest
   /\ ~ muddled /\ dropped = 0 /\ resolved = {}
   /\ row.filled # Done) => Unreconciled # {}

\* No explanation takes an order of ours out of the gate's count, unless it was given
\* while a revision was being recorded.
ExplainedIsForeign == row.number \in resolved => row.number \in hasty

\* What the five writers of one order owe to each other.
RepairContract ==
  EveryShareAccounted /\ NumberIsHeld /\ RepairedEndIsTrue /\ GateCountsDivergence /\ ExplainedIsForeign
=============================================================================
