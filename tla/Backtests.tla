------------------------------- MODULE Backtests -------------------------------
(*************************************************************************)
(* One backtest: its inputs are loaded or refused, then the engine goes  *)
(* through the trading days - cash of the day's dividends, the trades of *)
(* the last signal at the opening, the valuation at the close - and the  *)
(* run is saved (src/docs/data/backtest-strategy-contract.md).           *)
(* Prices become known day by day; a signal reads none of a later day,   *)
(* so that this is the same as reading the whole history first.          *)
(*************************************************************************)
EXTENDS Strategies

CONSTANTS
  BtSymbols,        \* the universe, a sequence in the order of the symbols
  Proxy,            \* the symbol that stands for cash
  InitialCash,
  DaysOfBars,       \* for each trading day, the bars it may have: symbol -> [open, close, adjusted]
  Payments,         \* dividends: [symbol, day, amount]
  Reports,          \* for each symbol, the sets of annual reports there may be
  MonthEnds,        \* the trading days that are the last of a month
  Lookback, Short, Long, RsiPeriod, RsiLimit,
  FeeRate, StockSlippage, EtfSlippage, StockTax  \* per hundred; the tax by day

VARIABLES
  experiment,             \* what is tested: [strategy, holdings, trim, product, reports]
  btStage, day,
  series,           \* the bars so far
  account,             \* the account
  signal,           \* what the close of the last day asks for
  todo,             \* orders of the round that is being executed
  target,           \* what every place of the round is worth, times the places
  trades, curve,    \* what the engine has noted; the curve with the shares it values
  result,
  saved             \* the rows of the run: [status, trades, points]

btVars == <<experiment, btStage, day, series, account, signal, todo, target, trades, curve, result, saved>>

BtUniverse == ToSet(BtSymbols)
LastDay == Len(DaysOfBars)
NoBar == [open |-> 0, close |-> NoClose, adjusted |-> NoClose]
NoRun == [status |-> "none", trades |-> 0, points |-> 0]
Signal(action, selected, retained, on) ==
  [action |-> action, selected |-> selected, retained |-> retained, day |-> on]
NoSignal == Signal("none", <<>>, {}, 0)
Single == experiment.strategy = "ma-rsi"
\* The single engine tests the first symbol.
Tested == IF Single THEN {BtSymbols[1]} ELSE BtUniverse

Plan(strategy, holdings, trim, product, reports) ==
  [strategy |-> strategy, holdings |-> holdings, trim |-> trim, product |-> product, reports |-> reports]
NoReports == [s \in BtUniverse |-> {}]

\* Only the single engine knows that an instrument is a fund: the portfolio's loader
\* calls every symbol a share.
BtPlans ==
  {Plan("ma-rsi", 1, FALSE, product, NoReports) : product \in {"stock", "etf"}}
    \cup {Plan("composite", k, FALSE, "stock", r) : k \in {1, 2}, r \in Reports}
    \cup {Plan(strategy, k, strategy = "etf", "stock", NoReports) : strategy \in {"momentum", "etf", "ml"}, k \in {1, 2}}

BtInit ==
  /\ experiment \in BtPlans
  /\ btStage = "load" /\ day = 0
  /\ series = [s \in BtUniverse |-> <<>>]
  /\ account = [cash |-> InitialCash, held |-> [s \in BtUniverse |-> 0], costs |-> 0, traded |-> 0]
  /\ signal = NoSignal /\ todo = <<>> /\ target = 0
  /\ trades = <<>> /\ curve = <<>> /\ result = "none"
  /\ saved = NoRun

-----------------------------------------------------------------------------
\* runner.py and portfolio_runner.py: what is missing first is why the run failed.

InputFaults == {"uncovered_cost_date", "missing_calendar_coverage", "missing_confirmed_bar",
                "missing_adjusted_dataset", "train_window_overlap"}
OrderOfChecks ==
  IF Single
  THEN <<"uncovered_cost_date", "missing_calendar_coverage", "missing_confirmed_bar", "missing_adjusted_dataset">>
  ELSE <<"uncovered_cost_date", "missing_calendar_coverage", "missing_adjusted_dataset", "missing_confirmed_bar",
         "train_window_overlap">>
Applicable == IF experiment.strategy = "ml" THEN ToSet(OrderOfChecks) ELSE ToSet(OrderOfChecks) \ {"train_window_overlap"}

FirstOf(faults) == SelectSeq(OrderOfChecks, LAMBDA c : c \in faults)[1]

Load(faults) ==
  /\ btStage = "load" /\ faults \subseteq Applicable
  /\ IF faults = {}
     THEN btStage' = "open" /\ day' = 1 /\ UNCHANGED result
     ELSE btStage' = "save" /\ result' = FirstOf(faults) /\ UNCHANGED day
  /\ UNCHANGED <<experiment, series, account, signal, todo, target, trades, curve, saved>>

-----------------------------------------------------------------------------
\* costs.py: every item is cut down to whole won.

Percent(amount, rate) == (amount * rate) \div 100
Slippage == IF experiment.product = "etf" THEN EtfSlippage ELSE StockSlippage
TaxOn(side) == IF side = "sell" /\ experiment.product # "etf" THEN StockTax[day] ELSE 0
Costs(side, gross) == Percent(gross, FeeRate) + Percent(gross, Slippage) + Percent(gross, TaxOn(side))

-----------------------------------------------------------------------------
\* The account.

Bar(s) == series[s][day]
HasBar(s) == Bar(s) # NoBar
HeldShares == {s \in BtUniverse : account.held[s] > 0}

\* The close of the day, or the last that is known.
LastClose(s) ==
  LET known == {d \in 1 .. day : series[s][d].close # NoClose}
  IN  IF known = {} THEN 0 ELSE series[s][Max(known)].close

ValueOf(held) == FoldSet(LAMBDA s, x : x + held[s] * LastClose(s), 0, BtUniverse)
Nav == account.cash + ValueOf(account.held)

Trade(action, s, quantity) ==
  LET gross == quantity * Bar(s).open
      costs == Costs(action, gross)
      shares == IF action = "buy" THEN quantity ELSE -quantity
  IN  /\ account' = [cash |-> IF action = "buy" THEN account.cash - gross - costs ELSE account.cash + gross - costs,
                  held |-> [account.held EXCEPT ![s] = @ + shares],
                  costs |-> account.costs + costs, traded |-> account.traded + gross]
      /\ trades' = Append(trades, [signal |-> signal.day, on |-> day, action |-> action, symbol |-> s,
                                   quantity |-> quantity, gross |-> gross, costs |-> costs, skipped |-> "no"])

\* What is written of an order that was not executed.
Note(asked, action, s, reason) ==
  [signal |-> asked.day, on |-> 0, action |-> action, symbol |-> s,
   quantity |-> 0, gross |-> 0, costs |-> 0, skipped |-> reason]
Skip(action, s, reason) ==
  /\ trades' = Append(trades, Note(signal, action, s, reason))
  /\ UNCHANGED account

\* The most shares that money pays for, costs included; portions is how many parts
\* money and cash are counted in.
Affordable(s, money, portions) ==
  Max({q \in 0 .. account.cash \div Bar(s).open :
         LET all == q * Bar(s).open + Costs("buy", q * Bar(s).open)
         IN  q = 0 \/ (all <= account.cash /\ all * portions <= money)})

-----------------------------------------------------------------------------
\* The morning: the day's bars, the dividends of the shares held, and the round.

Dividend(s) == FoldSet(LAMBDA p, x : x + p.amount, 0, {p \in Payments : p.symbol = s /\ p.day = day})
CashOfDividends(held) == FoldSet(LAMBDA s, x : x + held[s] * Dividend(s), 0, BtUniverse)

Order(kind, s) == [kind |-> kind, symbol |-> s]
Orders(kind, symbols) == [i \in DOMAIN symbols |-> Order(kind, symbols[i])]

\* Who was dropped is sold in the order of the symbols, then what is above its place
\* is sold, then the selected are bought.
\* Mutation: the retained are sold as well.
RoundOrdersUnretained ==
  LET dropped == SelectSeq(BtSymbols, LAMBDA s : s \in HeldShares \ ToSet(signal.selected))
  IN  Orders("sell", dropped)
        \o (IF experiment.trim THEN Orders("trim", signal.selected) ELSE <<>>)
        \o Orders("buy", signal.selected)
RoundOrders ==
  LET kept == ToSet(signal.selected) \cup signal.retained
      dropped == SelectSeq(BtSymbols, LAMBDA s : s \in HeldShares \ kept)
  IN  Orders("sell", dropped)
        \o (IF experiment.trim THEN Orders("trim", signal.selected) ELSE <<>>)
        \o Orders("buy", signal.selected)

OpenDay(bars) ==
  /\ btStage = "open"
  \* A history in which a confirmed bar is missing is refused for a single symbol.
  /\ Single => \A s \in Tested : bars[s] # NoBar
  /\ series' = [s \in BtUniverse |-> Append(series[s], bars[s])]
  /\ account' = [account EXCEPT !.cash = @ + CashOfDividends(account.held)]
  /\ btStage' = "round"
  /\ UNCHANGED <<experiment, day, signal, todo, target, trades, curve, result, saved>>

StartRound ==
  /\ btStage = "round"
  /\ IF Single
     THEN /\ todo' = IF signal = NoSignal THEN <<>> ELSE Orders(signal.action, signal.selected)
          /\ UNCHANGED target
     ELSE /\ todo' = IF signal = NoSignal THEN <<>> ELSE RoundOrders
          /\ target' = IF signal = NoSignal THEN target ELSE Nav
  /\ btStage' = "trade"
  /\ UNCHANGED <<experiment, day, series, account, signal, trades, curve, result, saved>>

-----------------------------------------------------------------------------
\* backtest.py: all the cash into the symbol, or all of it out.

TradeSingle ==
  /\ btStage = "trade" /\ todo # <<>> /\ Single
  /\ LET s == todo[1].symbol
         quantity == Affordable(s, account.cash, 1)
     IN  IF todo[1].kind = "sell"
         THEN IF account.held[s] = 0 THEN Skip("sell", s, "no_position") ELSE Trade("sell", s, account.held[s])
         ELSE IF account.held[s] > 0 THEN Skip("buy", s, "already_positioned")
         ELSE IF quantity = 0 THEN Skip("buy", s, "insufficient_cash")
         ELSE Trade("buy", s, quantity)
  /\ todo' = Tail(todo)
  /\ UNCHANGED <<experiment, btStage, day, series, signal, target, curve, result, saved>>

-----------------------------------------------------------------------------
\* portfolio_backtest.py: one order of the round after another.

\* What the place of a symbol lacks, times the places.  backtest-strategy-contract.md:159
\* has the net asset value at the start of the round; the code takes that at the close of
\* the day on which the round is executed (_nav in _rebalance_trades).
PlaceLacks(s) == target - account.held[s] * Bar(s).close * experiment.holdings

\* A symbol without a bar that day drops out of the round (portfolio_backtest.py:268):
\* its order is not carried over to its next bar, as backtest-strategy-contract.md:67 has it.
TradeOne(o) ==
  LET s == o.symbol
      excess == IF HasBar(s) THEN (-PlaceLacks(s)) \div (Bar(s).open * experiment.holdings) ELSE 0
      quantity == IF HasBar(s) THEN Affordable(s, PlaceLacks(s), experiment.holdings) ELSE 0
  IN  IF o.kind = "trim"
      THEN IF excess > 0
           THEN Trade("sell", s, IF excess < account.held[s] THEN excess ELSE account.held[s])
           ELSE UNCHANGED <<account, trades>>
      ELSE IF ~ HasBar(s) THEN Skip(o.kind, s, "missing_confirmed_bar")
      ELSE IF o.kind = "sell" THEN Trade("sell", s, account.held[s])
      ELSE IF PlaceLacks(s) <= 0 THEN Skip("buy", s, "already_at_target")
      ELSE IF quantity = 0 THEN Skip("buy", s, "insufficient_cash")
      ELSE Trade("buy", s, quantity)

TradePortfolio ==
  /\ btStage = "trade" /\ todo # <<>> /\ ~ Single
  /\ TradeOne(todo[1])
  /\ todo' = Tail(todo)
  /\ UNCHANGED <<experiment, btStage, day, series, signal, target, curve, result, saved>>

-----------------------------------------------------------------------------
\* The close: the valuation, and the signal of the day.

\* The single engine reads its signals off the adjusted prices.
SignalCloses == [s \in Tested |-> [d \in 1 .. day |-> IF Single THEN series[s][d].adjusted ELSE series[s][d].close]]
IsRoundDay == day \in MonthEnds \/ day = LastDay
HasBasis == day > Lookback

Round(ranked, k) == Signal("round", Firsts(ranked, k), {}, day)

\* The symbols the strategy prefers, best first; the model's preference is anything.
Preferences ==
  LET basis == day - Lookback
      present == {s \in BtUniverse : HasBar(s)}
  IN  CASE experiment.strategy = "composite" -> {CompositeRanked(BtSymbols, SignalCloses, experiment.reports, day, basis)}
        [] experiment.strategy = "ml" -> UNION {SetToSeqs(known) : known \in SUBSET present}
        [] OTHER -> {RankedByMomentum(BtSymbols, SignalCloses, day, basis)}

RoundOf(ranked) ==
  LET k == experiment.holdings
      basis == day - Lookback
  IN  IF experiment.strategy = "etf"
      THEN [Round(ranked, k) EXCEPT !.selected = Sheltered(ranked, k, SignalCloses, day, basis, Proxy)]
      ELSE IF experiment.strategy = "ml" THEN [Round(ranked, k) EXCEPT !.retained = ToSet(Band(ranked, k))]
      ELSE Round(ranked, k)

\* Without candidates, or without a return of the proxy, there is no round at all.  A round
\* of the last day is a signal that nothing executes and, against
\* backtest-strategy-contract.md:68, nothing records.
PossibleSignals ==
  IF Single
  THEN LET action == MaRsiSignal(SignalCloses[BtSymbols[1]], day, Short, Long, RsiPeriod, RsiLimit)
       IN  {IF action = "none" THEN NoSignal ELSE Signal(action, <<BtSymbols[1]>>, {}, day)}
  ELSE IF ~ IsRoundDay \/ ~ HasBasis THEN {NoSignal}
  ELSE {IF \/ ranked = <<>>
           \/ experiment.strategy = "etf" /\ ~ HasMomentum(SignalCloses[Proxy], day, day - Lookback)
        THEN NoSignal ELSE RoundOf(ranked) : ranked \in Preferences}

RunOutcome(last) ==
  IF experiment.strategy \in {"composite", "etf", "ml"} /\ trades = <<>> /\ last = NoSignal
  THEN "no_signal_candidate" ELSE "completed"

CloseDay ==
  /\ btStage = "trade" /\ todo = <<>>
  /\ curve' = Append(curve, [cash |-> account.cash, value |-> ValueOf(account.held), held |-> account.held])
  /\ \E next \in PossibleSignals :
       /\ signal' = next
       \* The single engine records a signal that nothing can follow.
       /\ trades' = IF Single /\ day = LastDay /\ next # NoSignal
                    THEN Append(trades, Note(next, next.action, BtSymbols[1], "window_end"))
                    ELSE trades
  /\ IF day = LastDay
     THEN btStage' = "save" /\ result' = RunOutcome(signal') /\ UNCHANGED day
     ELSE btStage' = "open" /\ day' = day + 1 /\ UNCHANGED result
  /\ UNCHANGED <<experiment, series, account, todo, target, saved>>

-----------------------------------------------------------------------------
\* strategy_backtest_store.py: the run with its trades and its curve in one transaction,
\* nothing at all for a symbol without an instrument; a failed run has no rows.

Rows(status, n, points) == [status |-> status, trades |-> n, points |-> points]

SaveRun ==
  /\ btStage = "save"
  /\ \/ saved' = IF result = "completed" THEN Rows("completed", Len(trades), Len(curve)) ELSE Rows("failed", 0, 0)
     \/ ~ Single /\ UNCHANGED saved
  /\ btStage' = "over"
  /\ UNCHANGED <<experiment, day, series, account, signal, todo, target, trades, curve, result>>

BtNext ==
  \/ \E faults \in SUBSET InputFaults : Load(faults)
  \/ btStage = "open" /\ \E bars \in DaysOfBars[day] : OpenDay(bars)
  \/ StartRound \/ TradeSingle \/ TradePortfolio \/ CloseDay \/ SaveRun

BtSpec == BtInit /\ [][BtNext]_btVars

-----------------------------------------------------------------------------
\* Every variable has the type of what it stands for.
BtTypeOK ==
  /\ experiment \in BtPlans
  /\ btStage \in {"load", "open", "round", "trade", "save", "over"}
  /\ day \in 0 .. LastDay
  /\ \A s \in BtUniverse : Len(series[s]) = day - (IF btStage = "open" THEN 1 ELSE 0)
  /\ account.held \in [BtUniverse -> Nat] /\ {account.cash, account.costs, account.traded} \subseteq Nat
  /\ signal.day \in 0 .. day /\ ToSet(signal.selected) \subseteq BtUniverse
  /\ \A i \in DOMAIN todo : todo[i].kind \in {"buy", "sell", "trim"} /\ todo[i].symbol \in BtUniverse
  /\ result \in {"none", "completed", "no_signal_candidate"} \cup InputFaults
  /\ saved.status \in {"none", "completed", "failed"}

DoneTrades == {i \in DOMAIN trades : trades[i].skipped = "no"}
SumOver(is, f(_)) == FoldSet(LAMBDA i, x : x + f(i), 0, is)
IsPurchase(i) == trades[i].action = "buy"

\* What the shares at each close earned on the next morning.
DividendsOfTheEve ==
  LET mornings == 2 .. Len(series[BtSymbols[1]])
      of(d) == FoldSet(LAMBDA p, x : x + p.amount * (IF p.day = d THEN curve[d - 1].held[p.symbol] ELSE 0), 0, Payments)
  IN  SumOver(mornings, of)

\* The noted trades alone explain the account (backtest-strategy-contract.md, settlement):
\* cash is the initial cash less what was paid, plus what was got, plus the dividends of
\* the shares held at the close before, a share bought on the ex-date earning nothing;
\* the shares and the totals of the metrics are sums of the trades; nothing is borrowed.
TradesExplainTheAccount ==
  /\ account.cash = InitialCash + DividendsOfTheEve
       + SumOver(DoneTrades, LAMBDA i : IF IsPurchase(i) THEN -(trades[i].gross + trades[i].costs) ELSE trades[i].gross - trades[i].costs)
  /\ \A s \in BtUniverse :
       account.held[s] = SumOver({i \in DoneTrades : trades[i].symbol = s},
                                 LAMBDA i : IF IsPurchase(i) THEN trades[i].quantity ELSE -trades[i].quantity)
  /\ account.costs = SumOver(DoneTrades, LAMBDA i : trades[i].costs)
  /\ account.traded = SumOver(DoneTrades, LAMBDA i : trades[i].gross)
  /\ account.cash >= 0 /\ \A s \in BtUniverse : account.held[s] >= 0

RoundIsDone == btStage = "trade" /\ todo = <<>> /\ signal # NoSignal
OfTheRound(action) == {i \in DOMAIN trades : trades[i].signal = signal.day /\ trades[i].action = action}

\* After a round only the selected and the retained are held, and what could not be sold
\* because it had no bar (portfolio_backtest.py _rebalance_trades).  The last is an
\* exception of the code alone: backtest-strategy-contract.md:67, which :148 takes over
\* for portfolios, has such a sale carried over to the next day with a bar.
OnlyTheChosenAreHeld ==
  RoundIsDone /\ ~ Single =>
    \A s \in HeldShares : s \in ToSet(signal.selected) \cup signal.retained \/ ~ HasBar(s)

\* Each selected symbol has one record of a purchase or of why there was none, each dropped
\* one a record of its sale, a retained one none at all; the single engine has one record
\* for each signal.  Said of executed rounds: of a portfolio's round on the last day there
\* is no record, where backtest-strategy-contract.md:68 asks for one, and a symbol without
\* a bar has a record of its skip where :67 asks for a later execution.
EveryDecisionIsNoted ==
  RoundIsDone =>
    IF Single
    THEN Cardinality(OfTheRound("buy") \cup OfTheRound("sell")) = 1
    ELSE /\ Cardinality(OfTheRound("buy")) = Len(signal.selected)
         /\ {trades[i].symbol : i \in OfTheRound("buy")} = ToSet(signal.selected)
         /\ \A s \in BtUniverse \ (ToSet(signal.selected) \cup signal.retained) :
              curve[day - 1].held[s] > 0 => \E i \in OfTheRound("sell") : trades[i].symbol = s
         /\ \A i \in OfTheRound("sell") : trades[i].symbol \notin signal.retained

\* What a round trims it does not buy back on the same morning - unless the day closed
\* above its opening, because the place is measured at the close and traded at the opening
\* (backtest-strategy-contract.md:159 measures it at the start of the round).
NoRoundTrip ==
  RoundIsDone =>
    \A i \in OfTheRound("sell"), j \in OfTheRound("buy") :
       trades[i].symbol = trades[j].symbol /\ {i, j} \subseteq DoneTrades =>
         experiment.trim /\ Bar(trades[i].symbol).close > Bar(trades[i].symbol).open

\* An allocation never asks for a fund that lost over the lookback, except for the proxy
\* itself, nor twice for the same (etf_allocation.py _shelter).
LosersAreSheltered ==
  experiment.strategy = "etf" /\ signal # NoSignal =>
    /\ \A i, j \in DOMAIN signal.selected : i # j => signal.selected[i] # signal.selected[j]
    /\ \A s \in ToSet(signal.selected) \ {Proxy} :
         series[s][signal.day].close > series[s][signal.day - Lookback].close

\* The single engine is fully in or fully out: executed trades alternate, beginning with
\* a purchase, and a sale is of all that was bought (backtest.py).
AllOrNothing ==
  Single => LET done == SelectSeq(trades, LAMBDA t : t.skipped = "no")
            IN  \A i \in DOMAIN done :
                  IF i % 2 = 1 THEN done[i].action = "buy"
                  ELSE done[i].action = "sell" /\ done[i].quantity = done[i - 1].quantity

\* A completed run leaves one point of the curve for every trading day and all its
\* records, a failed one leaves neither (strategy_backtest_store.py).
RunIsWhole ==
  /\ saved.status = "completed" => saved.points = LastDay /\ saved.trades = Len(trades)
  /\ saved.status = "failed" => saved.points = 0 /\ saved.trades = 0 /\ DoneTrades = {}

\* The parts above, in every state reached.
BacktestContract ==
  [][/\ TradesExplainTheAccount' /\ OnlyTheChosenAreHeld' /\ EveryDecisionIsNoted' /\ NoRoundTrip'
     /\ LosersAreSheltered' /\ AllOrNothing' /\ RunIsWhole']_btVars
===============================================================================
