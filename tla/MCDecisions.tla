--------------------------- MODULE MCDecisions ---------------------------
(*************************************************************************)
(* What decides about trading, on small instances: the switch, the risk  *)
(* engine, the backtests of the strategies, the training of a model, the *)
(* indicators of a company and two pages of the console.                 *)
(* They share no state, so that a behaviour belongs to one of them and   *)
(* the others stay at rest in a state of their own.                      *)
(*************************************************************************)
EXTENDS Automation, RiskRequests, Backtests, Training, Fundamentals, Console

VARIABLE part

Parts == {"automation", "risk", "backtest", "training", "fundamentals", "console"}

\* An evaluation that ended at the gate.
RiskRest ==
  /\ req = [Base EXCEPT !.running = FALSE]
  /\ mode = "done" /\ left = Symbols /\ at = 1 /\ remaining = 0 /\ sold = 0
  /\ exposure = NoExposure /\ spend = 0 /\ buying = 0 /\ created = 0
  /\ start = [exposure |-> NoExposure, buying |-> 0]
  /\ orders = <<>> /\ shortages = <<>>
  /\ verdict = [block |-> "AUTOMATION_NOT_RUNNING", pause |-> "none"]

SortedSymbols == <<"a", "b">>

\* Two symbols over six days: rises, falls, gaps at the opening and days without a bar;
\* a pays 1 on the third and the fourth day, which the adjusted closes before leave out.
Prices(d, open, close) == [open |-> open, close |-> close, adjusted |-> IF d < 4 THEN close - 1 ELSE close]
DayOf(d, ao, ac, bo, bc) == [a |-> Prices(d, ao, ac), b |-> Prices(d, bo, bc)]
SixDays ==
  <<{DayOf(1, 4, 4, 5, 5)},
    {DayOf(2, 5, 6, 5, 5), DayOf(2, 4, 3, 5, 6)},
    {DayOf(3, 3, 5, 6, 5), [DayOf(3, 1, 1, 5, 6) EXCEPT !.a = NoBar], DayOf(3, 6, 4, 4, 4)},
    {DayOf(4, 4, 8, 4, 4), DayOf(4, 8, 8, 6, 6), DayOf(4, 2, 2, 6, 7), [DayOf(4, 5, 4, 1, 1) EXCEPT !.b = NoBar]},
    {DayOf(5, 8, 6, 4, 6), DayOf(5, 3, 6, 5, 3), [DayOf(5, 1, 1, 5, 5) EXCEPT !.a = NoBar]},
    {DayOf(6, 7, 5, 4, 5)}>>
TwoDividends == {[symbol |-> "a", day |-> d, amount |-> 1] : d \in {3, 4}}
TaxFromDayTwo == <<0, 20, 20, 20, 30, 30>>

\* A report that a later one corrects, and one with an account missing.
Report(receipt, filed, roe, eps) == [year |-> 1, receipt |-> receipt, filed |-> filed, roe |-> roe, eps |-> eps]
CorrectedOrIncomplete ==
  {[a |-> {Report(1, 0, 1, 1), Report(2, 2, 3, 3)}, b |-> {Report(1, 0, 2, 2)}],
   [a |-> {Report(1, 0, 1, 1)}, b |-> {Report(1, 0, 2, Unknown)}]}

\* Days without a bar of the benchmark or of a symbol, and windows that begin inside or
\* after the training.
Gap(s, d) == [symbol |-> s, day |-> d]
FewGaps == {{}, {Gap("i", 4)}, {Gap("b", 5)}, {Gap("a", 2), Gap("i", 6)}}
BacktestWindow(first, signals) == [first |-> first, last |-> 9, signals |-> signals]
ThreeWindows == {BacktestWindow(1, {5, 9}), BacktestWindow(3, {7, 9}), BacktestWindow(6, {8, 9})}

\* Well kept books, and the shapes in which statements present them.
Books ==
  LET of(now, prior) == [now |-> now, prior |-> prior]
  IN  [revenue |-> of(20, 16), operating |-> of(6, 4), profit |-> of(8, -5), owners |-> of(5, -3),
       assets |-> of(40, 30), liabilities |-> of(25, 20), equity |-> of(15, 10), equityOwners |-> of(12, 8),
       minority |-> of(3, 2), currentAssets |-> of(9, 8), currentLiabilities |-> of(0, 4)]

Line(n, d, prefix, item, hints, now, prior) ==
  [seq |-> n, div |-> d, prefix |-> prefix, item |-> item, hints |-> hints, now |-> {now}, prior |-> {prior}]
Standard(d, item) == Line(0, d, Prefix(item), item, {}, Books[item].now, Books[item].prior)
Named(n, d, hints, now, prior) == Line(n, d, "none", "", hints, now, prior)
PerShare(n, item, now) == Line(n, "IS", "ifrs-full_", item, {"perShare"}, now, now)
NamedPerShare(n, hints, now) == Named(n, "IS", {"perShare"} \cup hints, now, now)
But(line, field, value) == [line EXCEPT ![field] = value]

Sheet == {Standard("BS", item) : item \in BalanceAccounts}
Income(d) == {Standard(d, item) : item \in {"revenue", "operating", "profit", "owners"}}
Without(lines, items) == {line \in lines : line.item \notin items}
Plain == Sheet \cup Income("IS") \cup {PerShare(1, "eps", 9)}
Ownerless == Without(Plain, {"owners"})
Epsless == Without(Plain, {"eps"})
\* Rows of the owners' and the others' part of a total.
PartsOfTotal(n, owners, minority) ==
  {Named(n, "IS", {"owners"}, owners, -3), Named(n + 1, "IS", {"owners", "minority"}, minority, -2)}

Shapes ==
  [plain |-> Plain,
   comprehensive |-> Sheet \cup Income("CIS") \cup {But(PerShare(1, "eps", 9), "div", "CIS")},
   former |-> {IF line.prefix = "ifrs-full_" THEN But(line, "prefix", "ifrs_") ELSE line : line \in Plain},
   both |-> Plain \cup {But(Standard("CIS", "profit"), "now", {10})},
   twice |-> Plain \cup {But(Standard("IS", "profit"), "seq", 1)},
   blank |-> {IF line.item = "profit" THEN But(line, "now", {}) ELSE line : line \in Plain},
   noRevenue |-> Without(Plain, OperatingAccounts),
   noProfit |-> Without(Plain, {"profit"}),
   named |-> Ownerless \cup PartsOfTotal(2, 5, 3) \cup PartsOfTotal(4, 6, 4),
   doubtful |-> Ownerless \cup PartsOfTotal(2, 5, 3) \cup PartsOfTotal(4, 6, 2),
   coincidence |-> Ownerless \cup PartsOfTotal(4, 6, 2) \cup {But(Standard("IS", "owners"), "prefix", "entity_")},
   difference |-> Without(Plain, {"equityOwners"}),
   noEquity |-> Without(Plain, {"equityOwners", "minority"}),
   split |-> Epsless \cup {PerShare(1, "epsContinuing", 7), PerShare(2, "epsDiscontinued", 2)},
   continuing |-> Epsless \cup {PerShare(1, "epsContinuing", 9)},
   splitBlank |-> Epsless \cup {PerShare(1, "epsContinuing", 7), But(PerShare(2, "epsDiscontinued", 2), "now", {})},
   namedEps |-> Epsless \cup {NamedPerShare(1, {}, 9), NamedPerShare(2, {"diluted"}, 8), NamedPerShare(3, {"discontinued"}, 2)},
   namedTwice |-> Epsless \cup {NamedPerShare(1, {}, 9), NamedPerShare(2, {}, 8)},
   preferredEps |-> Epsless \cup {NamedPerShare(1, {}, 12)}]

\* Any shape at first; then a correction that names the earnings otherwise, another year,
\* or one more correction.
Filing(year, receipt, shape, needsPreferred) ==
  [year |-> year, receipt |-> receipt, lines |-> Shapes[shape], eps |-> 9, needsPreferred |-> needsPreferred]
CompanyFilings ==
  [shape \in DOMAIN Shapes |-> Filing(1, 1, shape, shape = "preferredEps")]
  @@ [corrected |-> Filing(1, 2, "namedEps", FALSE), next |-> Filing(2, 3, "preferredEps", TRUE), late |-> Filing(1, 4, "plain", FALSE)]

SplitOfTwo == {[price |-> 8, shares |-> 2], [price |-> 4, shares |-> 4]}

\* The sector, missing quotes and a preferred share are told apart where they matter.
FewBeginnings ==
  LET name == (CHOOSE r \in reports : TRUE).name
  IN  /\ financial => name \in {"plain", "noRevenue", "noProfit"}
      /\ listed = {Common} \/ name \in {"plain", "namedEps", "preferredEps"}
      /\ \A c \in ShareClasses : market[c].price \subseteq {8}
      /\ name # "plain" => market[Common].shares # {}

FuRest ==
  /\ financial = FALSE /\ reports = {[name |-> "plain", listed |-> {Common}]}
  /\ listed = {Common} /\ classes = {} /\ masterListed = {}
  /\ market = [c \in ShareClasses |-> Unquoted] /\ stage = "idle" /\ seen = NothingSeen /\ answer = {}
  /\ changes = [filed |-> 1, observed |-> 0, listing |-> 0]

\* What may be stored when a page is asked for: nothing yet, a blocked plan, days with
\* losses, rejections, an order left open and troubles of every age.
PageRules == [dailyLoss |-> 10, drawdown |-> 20, attempts |-> 2, rejects |-> 2, failures |-> 2]
Snap(d, value) == [day |-> d, nav |-> value]
Entry(d, state) == [day |-> d, state |-> state, sent |-> state \in OpenStates]
Event(type, n, d, isEarly) == [type |-> type, number |-> n, day |-> d, early |-> isEarly]
OnDayThree(received, entries, days, events, from) ==
  [today |-> 3, snaps |-> received, book |-> entries, planDays |-> days, troubles |-> events, resumedFrom |-> from]
FewDatabases ==
  {OnDayThree(<<>>, <<>>, {}, <<Event("failure", 0, 3, TRUE)>>, 0),
   OnDayThree(<<>>, <<>>, {3}, <<Event("problem", 0, 2, FALSE)>>, 0),
   OnDayThree(<<Snap(3, 1000), Snap(3, 900)>>, <<Entry(2, "submitted"), Entry(3, "rejected")>>, {2, 3},
              <<Event("problem", 1, 2, FALSE)>>, 0),
   OnDayThree(<<Snap(3, 1000), Snap(3, 904)>>, <<Entry(3, "partially_filled"), Entry(3, "rejected")>>, {3},
              <<Event("failure", 0, 2, FALSE), Event("problem", 1, 3, FALSE)>>, 1),
   OnDayThree(<<Snap(1, 1000), Snap(2, 804)>>, <<Entry(2, "rejected"), Entry(2, "rejected")>>, {1, 2, 3},
              <<Event("failure", 0, 1, FALSE), Event("failure", 0, 2, TRUE)>>, 0),
   OnDayThree(<<Snap(2, 1000), Snap(2, 790)>>, <<Entry(2, "planned"), Entry(2, "filled")>>, {2},
              <<Event("problem", 2, 2, FALSE)>>, 2)}

DecisionsInit ==
  /\ part \in Parts
  /\ AutoInit
  /\ IF part = "risk" THEN RiskInit ELSE RiskRest
  /\ BtInit /\ (part # "backtest" => experiment = Plan("momentum", 1, FALSE, "stock", NoReports))
  /\ TrInit
  /\ part # "training" =>
       asked = [horizon |-> 1, embargo |-> 1] /\ \A s \in Priced, d \in TradingDays : version[s][d] = 1
  /\ IF part = "fundamentals" THEN FuInit /\ FewBeginnings ELSE FuRest
  /\ CsInit /\ (part # "console" => planDays = {} /\ ~ early)

DecisionsNext ==
  /\ part' = part
  /\ part # "automation" => UNCHANGED autoVars
  /\ part # "risk" => UNCHANGED riskVars
  /\ part # "backtest" => UNCHANGED btVars
  /\ part # "training" => UNCHANGED trVars
  /\ part # "fundamentals" => UNCHANGED fuVars
  /\ part # "console" => UNCHANGED csVars
  /\ \/ part = "automation" /\ AutoNext
     \/ part = "risk" /\ RiskNext
     \/ part = "backtest" /\ BtNext
     \/ part = "training" /\ TrNext
     \/ part = "fundamentals" /\ FuNext
     \/ part = "console" /\ CsNext

decisionsVars == <<part, autoVars, riskVars, btVars, trVars, fuVars, csVars>>

DecisionsSpec ==
  DecisionsInit /\ [][DecisionsNext]_decisionsVars /\ AutoFairness /\ WF_riskVars(RiskNext)

\* Types of the part that is at work; the others are as they began.
DecisionsTypeOK ==
  CASE part = "automation" -> AutoTypeOK
    [] part = "risk" -> RiskTypeOK
    [] part = "backtest" -> BtTypeOK
    [] part = "training" -> TrTypeOK
    [] part = "fundamentals" -> FuTypeOK
    [] part = "console" -> CsTypeOK
=============================================================================
