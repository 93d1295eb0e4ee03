------------------------------- MODULE Planning -------------------------------
(*************************************************************************)
(* Plans that are made beside each other and after each other            *)
(* (OrderPlanner.plan, plan_from_signal_record): the readings a plan is  *)
(* computed from, one at a time, the pause, the notes on candidates      *)
(* without room, and the orders that are stored.  Around it the orders   *)
(* move: they are submitted, filled, recorded, canceled and withdrawn.   *)
(*                                                                       *)
(* One trading day, every share costs 1 and no price moves, so amounts   *)
(* are numbers of shares and the net asset value stays.  A candidate     *)
(* becomes at most one order: how it is cut, the limits of sectors, of   *)
(* orderable cash, of one order and of open orders, and the losses are   *)
(* in RiskEngine.                                                        *)
(*************************************************************************)
EXTENDS OrderModels, Integers, FiniteSets, Sequences, Functions

CONSTANTS
  Planners,      \* processes that can plan: the scheduled job, the command line
  Symbols,
  SymbolOrder,   \* the symbols, sorted
  Targets,       \* the symbols of the stored signal
  Accounts,      \* the cash and the shares held before the first plan
  SymbolCap, TotalCap, MinCash, DailyCap, MaxAttempts, MaxRejects, MaxFailures,
  MaxPlans,      \* bound: plans that are begun
  MaxTrouble     \* bound: failed calls, refusals, cancels, withdrawals and pauses

VARIABLES
  switch, resumedAt, clock,
  failures,      \* api_failure events within the window
  notes,         \* no_capacity events of the day, by their detail: symbol and rule
  rows,          \* the stored orders, by client order id
  executed,      \* shares the broker executed, by client order id
  cash, held,    \* the account at the broker
  plan,          \* what each process works on
  begun, trouble,
  overlapped, missed   \* history: see the properties

ruleVars == <<switch, resumedAt, clock, failures, notes>>
accountVars == <<executed, cash, held>>
boundVars == <<begun, trouble>>
historyVars == <<overlapped, missed>>
planningVars == <<ruleVars, rows, accountVars, plan, boundVars, historyVars>>

ASSUME PlanningAssumption ==
  /\ Targets \subseteq Symbols /\ SymbolOrder \in Seq(Symbols) /\ Range(SymbolOrder) = Symbols
  /\ Accounts \subseteq [cash : Nat, held : [Symbols -> Nat]]
  /\ {SymbolCap, TotalCap, MinCash, DailyCap, MaxAttempts, MaxRejects, MaxFailures,
      MaxPlans, MaxTrouble} \subseteq Nat

\* total_exposure and min_cash are 0.80 and 0.20 of the net asset value.
ASSUME RatiosAssumption ==
  \A a \in Accounts : TotalCap + MinCash <= a.cash + SumFunctionOnSet(a.held, Symbols)

\* client_order_id: signal date and version are the same all day.
OrderId == [strategy : {"signal", "manual"}, side : {"buy", "sell"}, symbol : Symbols,
            sequence : Nat \ {0}]

OrderRow == [state : OrderState, quantity : Nat, filled : Nat, created : Nat]

NoShares == [x \in Symbols |-> 0]

\* The limits of a purchase, in the order in which _buy_caps lists them.
BuyRules == <<"symbol_exposure", "total_exposure", "min_cash", "daily_buy_amount">>

NoteDetails == Symbols \X Range(BuyRules)

\* Where a process is, what it was asked for, what it has read, and what it decided.
Idle ==
  [at |-> "idle", strategy |-> "signal", candidates |-> <<>>, now |-> 0, resumed |-> FALSE,
   cash |-> 0, held |-> NoShares, fresh |-> {}, open |-> 0, attempts |-> 0, bought |-> 0,
   rejects |-> 0, unknown |-> {}, suspended |-> {}, pending |-> NoShares,
   made |-> <<>>, short |-> <<>>, block |-> "none"]

PlanningInit ==
  /\ switch = "running" /\ resumedAt = 0 /\ clock = 1 /\ failures = 0
  /\ notes = [d \in NoteDetails |-> 0]
  /\ rows = <<>> /\ executed = <<>>
  /\ \E a \in Accounts : cash = a.cash /\ held = a.held
  /\ plan = [p \in Planners |-> Idle]
  /\ begun = 0 /\ trouble = 0
  /\ overlapped = FALSE /\ missed = FALSE

Ids(states) == {i \in DOMAIN rows : rows[i].state \in states}

\* The sum of the shares over some of the rows.
SharesOf(ids, shares) == SumFunctionOnSet(shares, ids)

Ordered == [i \in DOMAIN rows |-> rows[i].quantity]
NotRecorded == [i \in DOMAIN rows |-> rows[i].quantity - rows[i].filled]
NotExecuted == [i \in DOMAIN rows |-> rows[i].quantity - executed[i]]

AtWork(p) == plan[p].at \notin {"idle", "holdings"}

HasSnapshot(p) == plan[p].at \notin {"idle", "holdings", "blocked", "snapshot"}

-----------------------------------------------------------------------------
(* Where the candidates come from.                                       *)

Candidate(x, side) == [symbol |-> x, side |-> side]

\* In the order of the symbols.
Named(side, symbols) ==
  LET upTo[k \in 0..Len(SymbolOrder)] ==
        IF k = 0 THEN <<>>
        ELSE IF SymbolOrder[k] \in symbols
        THEN Append(upTo[k - 1], Candidate(SymbolOrder[k], side)) ELSE upTo[k - 1]
  IN  upTo[Len(SymbolOrder)]

\* signal_candidates: what is wanted and not held, then what is held and not wanted.
SignalCandidates(h) == Named("buy", Targets \ h) \o Named("sell", h \ Targets)

\* planner.plan: the time and the switch are read once, at the start.
Begin(p, strategy, candidates) ==
  /\ plan' = [plan EXCEPT ![p] =
       [@ EXCEPT !.at = IF switch = "running" THEN "snapshot" ELSE "blocked",
                 !.strategy = strategy, !.candidates = candidates, !.now = clock]]
  /\ clock' = clock + 1
  /\ overlapped' = (overlapped \/ \E o \in Planners \ {p} : AtWork(o))
  /\ UNCHANGED <<switch, resumedAt, failures, notes, rows, accountVars, trouble, missed>>

StartManual(p, x, side) ==
  /\ plan[p].at = "idle" /\ begun < MaxPlans
  /\ begun' = begun + 1
  /\ Begin(p, "manual", <<Candidate(x, side)>>)

StartSignal(p) ==
  /\ plan[p].at = "idle" /\ begun < MaxPlans
  /\ begun' = begun + 1
  /\ plan' = [plan EXCEPT ![p].at = "holdings"]
  /\ UNCHANGED <<ruleVars, rows, accountVars, trouble, historyVars>>

\* fetch_signal_holdings: asked of the broker, not of a stored snapshot.
Holdings(p) ==
  /\ plan[p].at = "holdings"
  /\ LET c == SignalCandidates({x \in Symbols : held[x] > 0}) IN
     IF c = <<>>
       THEN /\ plan' = [plan EXCEPT ![p] = Idle]
            /\ UNCHANGED <<ruleVars, rows, accountVars, trouble, historyVars>>
       ELSE Begin(p, "signal", c)
  /\ UNCHANGED begun

-----------------------------------------------------------------------------
(* OrderPlanner.context: one reading after the other.                    *)

\* A call of the broker fails: recorded, and the plan is given up.
CallFails(p) ==
  /\ plan[p].at \in {"holdings", "snapshot", "quotes"} /\ trouble < MaxTrouble
  /\ trouble' = trouble + 1
  /\ failures' = failures + 1
  /\ plan' = [plan EXCEPT ![p] = Idle]
  /\ UNCHANGED <<switch, resumedAt, clock, notes, rows, accountVars, begun, overlapped, missed>>

Snapshot(p) ==
  /\ plan[p].at = "snapshot"
  /\ plan' = [plan EXCEPT ![p] = [@ EXCEPT !.at = "counters", !.cash = cash, !.held = held]]
  /\ UNCHANGED <<ruleVars, rows, accountVars, boundVars, historyVars>>

BuyCounted == {"planned", "submitted", "partially_filled", "filled"}

Bought ==
  SharesOf({i \in Ids(BuyCounted) : i.side = "buy"}, Ordered)

CountOrders(p) ==
  /\ plan[p].at = "counters"
  /\ plan' = [plan EXCEPT ![p] =
       [@ EXCEPT !.at = "recent", !.open = Cardinality(Ids(OpenStates)),
                 !.attempts = Cardinality(DOMAIN rows), !.bought = Bought]]
  /\ UNCHANGED <<ruleVars, rows, accountVars, boundVars, historyVars>>

Newer(i, j) ==
  \/ rows[i].created > rows[j].created
  \/ rows[i].created = rows[j].created /\ i.sequence > j.sequence

\* Mutation: the rejections before the last resumption go on counting.
RecentOfAll == DOMAIN rows

\* recent_states_query: the orders created since a person last resumed.
Recent == {i \in DOMAIN rows : rows[i].created >= resumedAt}

\* consecutive_rejects: the rejections that nothing newer interrupts.
Rejects ==
  Cardinality({i \in Recent : /\ rows[i].state = "rejected"
                              /\ \A j \in Recent : Newer(j, i) => rows[j].state = "rejected"})

CountRejects(p) ==
  /\ plan[p].at = "recent"
  /\ plan' = [plan EXCEPT ![p] = [@ EXCEPT !.at = "quotes", !.rejects = Rejects]]
  /\ UNCHANGED <<ruleVars, rows, accountVars, boundVars, historyVars>>

\* A symbol without an instrument row is passed over; neither the account nor
\* an order can hold such a one.  The others are traded or suspended.
Quotes(p, unknown, suspended) ==
  LET asked == {plan[p].candidates[c].symbol : c \in DOMAIN plan[p].candidates} IN
  /\ plan[p].at = "quotes"
  /\ unknown \subseteq {x \in asked : plan[p].held[x] = 0 /\ \A i \in DOMAIN rows : i.symbol # x}
  /\ suspended \subseteq asked \ unknown
  /\ trouble + Cardinality(unknown \cup suspended) <= MaxTrouble
  /\ trouble' = trouble + Cardinality(unknown \cup suspended)
  /\ plan' = [plan EXCEPT ![p] =
       [@ EXCEPT !.at = "pending", !.unknown = unknown, !.suspended = suspended]]
  /\ UNCHANGED <<ruleVars, rows, accountVars, begun, historyVars>>

PendingStates == {"planned"} \cup OpenStates

\* pending_exposure_query does not ask for the side.
PendingOf(x) ==
  SharesOf({i \in Ids(PendingStates) : i.symbol = x}, NotRecorded)

Pending(p) ==
  /\ plan[p].at = "pending"
  /\ plan' = [plan EXCEPT ![p] =
       [@ EXCEPT !.at = "failures", !.pending = [x \in Symbols |-> PendingOf(x)]]]
  /\ UNCHANGED <<ruleVars, rows, accountVars, boundVars, historyVars>>

-----------------------------------------------------------------------------
(* evaluate_plan, after the count of failures.                           *)

\* The verdict of the gate on what was read.
Verdict(c, failed) ==
  IF failed >= MaxFailures THEN [block |-> "failures", pause |-> TRUE]
  ELSE IF c.open > 0 THEN [block |-> "unreconciled", pause |-> FALSE]
  ELSE IF c.attempts >= MaxAttempts THEN [block |-> "attempts", pause |-> TRUE]
  ELSE IF c.rejects >= MaxRejects THEN [block |-> "rejects", pause |-> TRUE]
  ELSE [block |-> "none", pause |-> FALSE]

Least(S) == CHOOSE n \in S : \A m \in S : n <= m

\* The purchases among these orders.
Purchased(made, S) ==
  SumFunctionOnSet([k \in DOMAIN made |-> made[k].quantity],
                   {k \in DOMAIN made : made[k].id.side = "buy" /\ made[k].id.symbol \in S})

\* What each limit leaves for a purchase of x after what this evaluation has planned.
Rooms(c, made, x) ==
  LET all == Purchased(made, Symbols)
  IN <<SymbolCap - c.held[x] - c.pending[x] - Purchased(made, {x}),
       TotalCap - SumFunctionOnSet(c.held, Symbols) - SumFunctionOnSet(c.pending, Symbols) - all,
       c.cash - MinCash - all, DailyCap - c.bought - all>>

Room(c, made, x) == Least(Range(Rooms(c, made, x)))

\* The rule that leaves least, the first of them if there are several.
Binding(c, made, x) ==
  BuyRules[Least({k \in DOMAIN BuyRules : Rooms(c, made, x)[k] = Room(c, made, x)})]

Planned(c, made, cand, quantity, state) ==
  Append(made, [id |-> [strategy |-> c.strategy, side |-> cand.side, symbol |-> cand.symbol,
                        sequence |-> Len(made) + 1], quantity |-> quantity, state |-> state])

\* Mutation: only an exact fit is noticed as no room.
NoRoomAtZero(room) == room = 0

NoRoom(room) == room <= 0

\* One candidate: an order, a rejection, a note, or nothing.
Judged(c, res, cand) ==
  LET x == cand.symbol
      room == Room(c, res.made, x)
      want == SymbolCap - c.held[x]
  IN IF x \in c.unknown \cup c.suspended
       THEN [res EXCEPT !.made = Planned(c, @, cand, 0, "rejected")]
     ELSE IF cand.side = "sell"
       THEN IF c.held[x] = 0 THEN res
            ELSE [res EXCEPT !.made = Planned(c, @, cand, c.held[x], "planned")]
     ELSE IF want <= 0 THEN res
     ELSE IF NoRoom(room) THEN [res EXCEPT !.short = Append(@, <<x, Binding(c, res.made, x)>>)]
     ELSE [res EXCEPT !.made = Planned(c, @, cand, Least({want, room}), "planned")]

NoDecision == [made |-> <<>>, short |-> <<>>]

Evaluated(c) ==
  LET upTo[k \in 0..Len(c.candidates)] ==
        IF k = 0 THEN NoDecision ELSE Judged(c, upTo[k - 1], c.candidates[k])
  IN  upTo[Len(c.candidates)]

Evaluate(p) ==
  /\ plan[p].at = "failures"
  /\ LET v == Verdict(plan[p], failures)
         res == IF v.block = "none" THEN Evaluated(plan[p]) ELSE NoDecision
     IN plan' = [plan EXCEPT ![p] =
          [@ EXCEPT !.at = IF v.pause THEN "pause" ELSE "note",
                    !.made = res.made, !.short = res.short, !.block = v.block]]
  /\ UNCHANGED <<ruleVars, rows, accountVars, boundVars, historyVars>>

\* The switch moved on meanwhile: the graph refuses, and the plan is given up.
Pause(p) ==
  /\ plan[p].at = "pause"
  /\ IF AutomationMayBecome(switch, "paused")
       THEN switch' = "paused" /\ plan' = [plan EXCEPT ![p].at = "note"]
       ELSE UNCHANGED switch /\ plan' = [plan EXCEPT ![p] = Idle]
  /\ UNCHANGED <<resumedAt, clock, failures, notes, rows, accountVars, boundVars, historyVars>>

-----------------------------------------------------------------------------
(* What the plan leaves behind.                                          *)

HasNote(detail) == notes[detail] > 0

\* record_no_capacity: looked up by the symbol and the rule together, then written; no
\* key forbids a second one.
LookUpNote(p) ==
  /\ plan[p].at = "note" /\ plan[p].short # <<>>
  /\ plan' = IF HasNote(Head(plan[p].short)) THEN [plan EXCEPT ![p].short = Tail(@)]
             ELSE [plan EXCEPT ![p].at = "write"]
  /\ UNCHANGED <<ruleVars, rows, accountVars, boundVars, historyVars>>

WriteNote(p) ==
  /\ plan[p].at = "write"
  /\ notes' = [notes EXCEPT ![Head(plan[p].short)] = @ + 1]
  /\ plan' = [plan EXCEPT ![p] = [@ EXCEPT !.at = "note", !.short = Tail(plan[p].short)]]
  /\ UNCHANGED <<switch, resumedAt, clock, failures, rows, accountVars, boundVars, historyVars>>

RowOf(p, o) ==
  [state |-> o.state, quantity |-> o.quantity, filled |-> 0, created |-> plan[p].now]

NewRows(p) ==
  LET made == Range(plan[p].made)
  IN [i \in {o.id : o \in made} |-> RowOf(p, CHOOSE o \in made : o.id = i)]

\* on_conflict_do_nothing on the client order id
Stored(p) ==
  LET new == NewRows(p)
  IN [i \in DOMAIN rows \cup DOMAIN new |-> IF i \in DOMAIN rows THEN rows[i] ELSE new[i]]

\* save_plan, one transaction; the row of an order needs an instrument.
Save(p) ==
  /\ plan[p].at = "note" /\ plan[p].short = <<>>
  /\ IF \E o \in Range(plan[p].made) : o.id.symbol \in plan[p].unknown
       THEN UNCHANGED <<rows, executed>>
       ELSE /\ rows' = Stored(p)
            /\ executed' = [i \in DOMAIN rows' |-> IF i \in DOMAIN rows THEN executed[i] ELSE 0]
  /\ plan' = [plan EXCEPT ![p] = Idle]
  /\ UNCHANGED <<ruleVars, cash, held, boundVars, historyVars>>

\* A switch that is not running: nothing is read and nothing planned.
SaveBlocked(p) ==
  /\ plan[p].at = "blocked"
  /\ plan' = [plan EXCEPT ![p] = Idle]
  /\ UNCHANGED <<ruleVars, rows, accountVars, boundVars, historyVars>>

-----------------------------------------------------------------------------
(* What happens to orders and to the switch meanwhile.                   *)

Moves(i, state) == rows' = [rows EXCEPT ![i].state = state]

Submit(i) ==
  /\ rows[i].state = "planned" /\ switch = "running"
  /\ Moves(i, "submitted")
  /\ UNCHANGED <<ruleVars, accountVars, plan, boundVars, historyVars>>

BrokerRefuses(i) ==
  /\ rows[i].state = "planned" /\ switch = "running" /\ trouble < MaxTrouble
  /\ trouble' = trouble + 1
  /\ Moves(i, "rejected")
  /\ UNCHANGED <<ruleVars, accountVars, plan, begun, historyVars>>

Withdraw(i) ==
  /\ rows[i].state = "planned" /\ trouble < MaxTrouble
  /\ trouble' = trouble + 1
  /\ Moves(i, "canceled")
  /\ UNCHANGED <<ruleVars, accountVars, plan, begun, historyVars>>

\* The broker executes shares of an order that stands there.
Execute(i, n) ==
  /\ rows[i].state \in OpenStates /\ n \in 1..(rows[i].quantity - executed[i])
  /\ IF i.side = "buy" THEN cash >= n ELSE held[i.symbol] >= n
  /\ executed' = [executed EXCEPT ![i] = @ + n]
  /\ cash' = IF i.side = "buy" THEN cash - n ELSE cash + n
  /\ held' = [held EXCEPT ![i.symbol] = IF i.side = "buy" THEN @ + n ELSE @ - n]
  /\ plan' = [p \in Planners |->
       IF HasSnapshot(p) THEN [plan[p] EXCEPT !.fresh = @ \cup {i}] ELSE plan[p]]
  /\ UNCHANGED <<ruleVars, rows, boundVars, historyVars>>

\* A plan that did not see the shares in the account will not see them pending.
Misses(i) ==
  \E p \in Planners : /\ plan[p].at \in {"counters", "recent", "quotes", "pending"}
                      /\ i \in plan[p].fresh

RecordFill(i) ==
  /\ rows[i].state \in OpenStates /\ rows[i].filled < executed[i]
  /\ rows' = [rows EXCEPT ![i] = [@ EXCEPT !.filled = executed[i],
                !.state = IF executed[i] = rows[i].quantity THEN "filled" ELSE "partially_filled"]]
  /\ missed' = (missed \/ Misses(i))
  /\ UNCHANGED <<ruleVars, accountVars, plan, boundVars, overlapped>>

Cancel(i) ==
  /\ rows[i].state \in OpenStates /\ trouble < MaxTrouble
  /\ trouble' = trouble + 1
  /\ rows' = [rows EXCEPT ![i] = [@ EXCEPT !.filled = executed[i], !.state = "canceled"]]
  /\ missed' = (missed \/ Misses(i))
  /\ UNCHANGED <<ruleVars, accountVars, plan, begun, overlapped>>

\* Bound: before the first resumption only.
PersonPauses ==
  /\ switch = "running" /\ resumedAt = 0
  /\ \/ Ids({"rejected"}) # {} /\ UNCHANGED trouble
     \/ trouble < MaxTrouble /\ trouble' = trouble + 1
  /\ switch' = "paused"
  /\ UNCHANGED <<resumedAt, clock, failures, notes, rows, accountVars, plan, begun, historyVars>>

\* By way of armed, which no plan tells from paused.
PersonResumes ==
  /\ switch = "paused"
  /\ switch' = "running" /\ resumedAt' = clock /\ clock' = clock + 1
  /\ plan' = [p \in Planners |-> IF AtWork(p) THEN [plan[p] EXCEPT !.resumed = TRUE] ELSE plan[p]]
  /\ UNCHANGED <<failures, notes, rows, accountVars, boundVars, historyVars>>

\* The failures get older than the window; no plan takes as long as that.
WindowPasses ==
  /\ failures > 0 /\ \A p \in Planners : plan[p].at = "idle"
  /\ failures' = 0
  /\ UNCHANGED <<switch, resumedAt, clock, notes, rows, accountVars, plan, boundVars, historyVars>>

-----------------------------------------------------------------------------
PlanStep(p) ==
  \/ Holdings(p) \/ CallFails(p) \/ Snapshot(p) \/ CountOrders(p) \/ CountRejects(p)
  \/ \E u, s \in SUBSET Symbols : Quotes(p, u, s)
  \/ Pending(p) \/ Evaluate(p) \/ Pause(p) \/ LookUpNote(p) \/ WriteNote(p) \/ Save(p) \/ SaveBlocked(p)

PlanningNext ==
  \/ \E p \in Planners :
       \/ PlanStep(p) \/ StartSignal(p)
       \/ \E x \in Symbols, side \in {"buy", "sell"} : StartManual(p, x, side)
  \/ \E i \in DOMAIN rows :
       \/ Submit(i) \/ BrokerRefuses(i) \/ Withdraw(i) \/ RecordFill(i) \/ Cancel(i)
       \/ \E n \in 1..SymbolCap : Execute(i, n)
  \/ PersonPauses \/ PersonResumes \/ WindowPasses

PlanningSpec == PlanningInit /\ [][PlanningNext]_planningVars

-----------------------------------------------------------------------------
\* Type correctness.
PlanningTypeOK ==
  /\ switch \in AutomationState /\ resumedAt \in Nat /\ clock \in Nat /\ failures \in Nat
  /\ notes \in [NoteDetails -> Nat]
  /\ DOMAIN rows \subseteq OrderId /\ \A i \in DOMAIN rows : rows[i] \in OrderRow
  /\ DOMAIN executed = DOMAIN rows
  /\ \A i \in DOMAIN rows : rows[i].filled <= executed[i] /\ executed[i] <= rows[i].quantity
  /\ cash \in Nat /\ held \in [Symbols -> Nat]

Outstanding(S) ==
  SharesOf({i \in Ids(PendingStates) : i.side = "buy" /\ i.symbol \in S}, NotExecuted)

\* One plan after the other: all of them together stay inside the limits of a
\* symbol, of the portfolio, of the day's purchases and of the cash that must
\* remain, if every order they made is executed.  No plan takes what earlier
\* plans will spend off its cash; that the cash remains is the work of the
\* exposure those orders count for.  Plans that are made at the same time, or
\* that miss a fill between two readings, do not promise it.
PlansFitTogether ==
  ~ overlapped /\ ~ missed =>
    /\ \A x \in Symbols : Outstanding({x}) > 0 => held[x] + Outstanding({x}) <= SymbolCap
    /\ Outstanding(Symbols) > 0 =>
         SumFunctionOnSet(held, Symbols) + Outstanding(Symbols) <= TotalCap
    /\ Outstanding(Symbols) > 0 => cash - Outstanding(Symbols) >= MinCash
    /\ SharesOf({i \in Ids({"planned", "submitted", "partially_filled", "filled"}) : i.side = "buy"},
                Ordered) <= DailyCap

\* As long as plans are made one at a time, the lack of room for a symbol is noted once
\* a day for each limit that leaves none.  docs/decisions/0020, decision 4 (line 91) and
\* the comment at trading_store.py:224 promise once for each symbol: that is more than
\* record_no_capacity does, whose look-up names the rule as well (README, section 6).
NotedOnce == overlapped \/ \A detail \in NoteDetails : notes[detail] <= 1

\* A client order id belongs to one order for good: whatever is planned again,
\* a row keeps its quantity and only moves along the graph of the states.  An
\* order that was sent never becomes one that is still to be sent.
RowsAreNeverRewritten ==
  \A i \in DOMAIN rows :
    /\ i \in DOMAIN rows' /\ rows'[i].quantity = rows[i].quantity
    /\ rows'[i].state = rows[i].state \/ OrderMayBecome(rows[i].state, rows'[i].state)

\* docs/decisions/0020, decision 6: after a person resumed the trading, a plan
\* stops it for rejections only when as many are rejected since.  A plan that
\* was under way when the person resumed may still count the earlier ones.
FreshStart ==
  \A p \in Planners :
    /\ plan[p].at = "failures" /\ plan'[p].at = "pause" /\ plan'[p].block = "rejects"
    /\ ~ plan[p].resumed
    => Cardinality({i \in Ids({"rejected"}) : rows[i].created >= resumedAt}) >= MaxRejects

\* What can be relied on of plans made after each other and beside each other.
PlanningContract ==
  [][PlansFitTogether' /\ NotedOnce' /\ RowsAreNeverRewritten /\ FreshStart]_planningVars
=============================================================================
