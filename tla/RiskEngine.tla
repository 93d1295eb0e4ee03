------------------------------ MODULE RiskEngine ------------------------------
(*************************************************************************)
(* The evaluation of one order plan against the limits of the trading    *)
(* safety policy (evaluate_plan): the gate, the exposure counted before  *)
(* the first order, then one candidate after the other, each cut into    *)
(* orders until a limit, the target or the holding ends it.  One pass of *)
(* a loop is one step.                                                   *)
(*                                                                       *)
(* Amounts are integers.  A net asset value is counted in units of which *)
(* a limit's fraction is a whole number: nav units of Scale won each, so *)
(* that the fraction f of it is nav * f won.  A quote carries the limit  *)
(* price that its offset and tick size give.  A decision is kept as      *)
(* whether it passed.                                                    *)
(*************************************************************************)
EXTENDS Integers, Sequences, SequencesExt

CONSTANTS
  Symbols, Sectors,
  NoSector,   \* the sector of a share that nobody classified
  Scale,      \* 100: limits are parts of a hundred
  Limits,     \* PAPER_RISK_LIMITS
  PlanRequests    \* the requests that are evaluated

\* Fractions in parts of Scale, losses without their sign, counts as they are.
LimitNames == {"total", "minCash", "symbol", "sector", "unclassified", "order", "dailyBuy",
               "dailyLoss", "drawdown", "openOrders", "attempts", "rejects", "failures"}

Quote == [state : {"missing", "stale", "suspended", "active"}, price : Nat \ {0},
          limit : Nat \ {0}, sector : Sectors \cup {NoSector}]

Candidate == [symbol : Symbols, side : {"buy", "sell"}]

\* PlanRequest with its AccountState and SessionCounters.
Request ==
  [candidates : Seq(Candidate), nav : Nat, openNav : Nat, peakNav : Nat,
   settled : Nat, cash : Nat, held : [Symbols -> Nat], orderable : [Symbols -> Nat],
   valued : [Symbols -> Nat], quotes : [Symbols -> Quote], pending : [Symbols -> Nat],
   open : Nat, attempts : Nat, bought : Nat, rejects : Nat, failures : Nat,
   running : BOOLEAN, marketOpen : BOOLEAN, reconciled : BOOLEAN]

ASSUME RiskAssumption ==
  /\ NoSector \notin Sectors
  /\ Scale \in Nat \ {0}
  /\ Limits \in [LimitNames -> Nat]
  /\ Limits["dailyLoss"] <= Scale /\ Limits["drawdown"] <= Scale
  /\ PlanRequests \subseteq Request

\* The candidates of a signal come from two sets without a common symbol, targets
\* not held and holdings not wanted (signal_candidates); every other caller names one.
ASSUME CandidatesAssumption ==
  \A r \in PlanRequests : \A c, d \in DOMAIN r.candidates :
    r.candidates[c].symbol = r.candidates[d].symbol => c = d

VARIABLES
  req,          \* the request
  mode,         \* gate, seed, pick, buy, sell or done
  left,         \* the symbols whose exposure is not counted yet
  at,           \* the candidate at work
  remaining,    \* buy: value still wanted
  sold,         \* sell: shares already in orders of this candidate
  exposure,     \* _PlanState: by symbol, by sector (NoSector: unclassified) and in total
  spend, buying, created,
  start,        \* exposure and amounts when the first candidate was taken up (history)
  orders, shortages, verdict

evalVars == <<req, mode, left, at, remaining, sold>>
planVars == <<exposure, spend, buying, created>>
outVars == <<orders, shortages, verdict>>
riskVars == <<evalVars, planVars, start, outVars>>

NoExposure == [symbol |-> [x \in Symbols |-> 0],
               sector |-> [s \in Sectors \cup {NoSector} |-> 0], total |-> 0]

RiskInit ==
  /\ req \in PlanRequests
  /\ mode = "gate" /\ left = Symbols /\ at = 1 /\ remaining = 0 /\ sold = 0
  /\ exposure = NoExposure /\ spend = 0 /\ buying = req.bought /\ created = 0
  /\ start = [exposure |-> NoExposure, buying |-> req.bought]
  /\ orders = <<>> /\ shortages = <<>> /\ verdict = [block |-> "none", pause |-> "none"]

Part(limit) == req.nav * Limits[limit]

\* Mutation: the quotient of a negative amount is kept.
LotsSigned(amount, price) == amount \div price

\* How many whole shares an amount pays for: int() of the quotient.
Lots(amount, price) == IF amount <= 0 THEN 0 ELSE amount \div price

-----------------------------------------------------------------------------
(* The gate.                                                             *)

\* nav / basis - 1 <= - loss
Lost(basis, loss) == basis > 0 /\ req.nav * Scale <= basis * (Scale - Limits[loss])

PauseRule ==
  IF Lost(req.openNav, "dailyLoss") THEN "RISK_DAILY_LOSS"
  ELSE IF Lost(req.peakNav, "drawdown") THEN "RISK_DRAWDOWN"
  ELSE IF req.attempts >= Limits["attempts"] THEN "RISK_DAILY_ORDER_ATTEMPTS"
  ELSE IF req.rejects >= Limits["rejects"] THEN "RISK_CONSECUTIVE_REJECTS"
  ELSE "none"

GateVerdict ==
  IF ~ req.running THEN [block |-> "AUTOMATION_NOT_RUNNING", pause |-> "none"]
  ELSE IF req.failures >= Limits["failures"]
    THEN [block |-> "API_CONSECUTIVE_FAILURE", pause |-> "RISK_API_FAILURES"]
  ELSE IF ~ req.marketOpen THEN [block |-> "MARKET_CLOSED", pause |-> "none"]
  ELSE IF ~ req.reconciled THEN [block |-> "ACCOUNT_NOT_RECONCILED", pause |-> "none"]
  ELSE [block |-> PauseRule, pause |-> PauseRule]

Gate ==
  /\ mode = "gate"
  /\ verdict' = GateVerdict
  /\ mode' = IF GateVerdict.block = "none" THEN "seed" ELSE "done"
  /\ UNCHANGED <<req, left, at, remaining, sold, planVars, start, orders, shortages>>

-----------------------------------------------------------------------------
(* The exposure before the first order: positions at the quoted price,   *)
(* or at the broker's valuation and unclassified when there is no quote, *)
(* and what earlier orders may still buy.                                *)

SectorOf(x) == IF req.quotes[x].state = "missing" THEN NoSector ELSE req.quotes[x].sector

Plus(e, x, s, value) ==
  [symbol |-> [e.symbol EXCEPT ![x] = @ + value], sector |-> [e.sector EXCEPT ![s] = @ + value],
   total |-> e.total + value]

SeedValue(x) ==
  (IF req.quotes[x].state = "missing" THEN req.valued[x] ELSE req.quotes[x].price * req.held[x])
    + req.pending[x]

Seed(x) ==
  /\ mode = "seed" /\ x \in left
  /\ left' = left \ {x}
  /\ exposure' = Plus(exposure, x, SectorOf(x), SeedValue(x))
  /\ UNCHANGED <<req, mode, at, remaining, sold, spend, buying, created, start, outVars>>

Seeded ==
  /\ mode = "seed" /\ left = {}
  /\ mode' = "pick"
  /\ start' = [exposure |-> exposure, buying |-> buying]
  /\ UNCHANGED <<req, left, at, remaining, sold, planVars, outVars>>

-----------------------------------------------------------------------------
(* One candidate.                                                        *)

Current == req.candidates[at]
This == Current.symbol
Price == req.quotes[This].price
LimitPrice == req.quotes[This].limit
PerOrder == Lots(Part("order"), LimitPrice)

\* Is this candidate's first order still to come?
NoneYet == ~ \E i \in DOMAIN orders : orders[i].candidate = at

\* within_price_band: one hundredth of the reference price
BandHolds ==
  IF Current.side = "buy" THEN LimitPrice * 100 <= Price * 101 ELSE LimitPrice * 100 >= Price * 99

Written(quantity, reject, failed) ==
  Append(orders, [candidate |-> at, sequence |-> Len(orders) + 1, symbol |-> This, side |-> Current.side,
                  quantity |-> quantity, price |-> IF req.quotes[This].state = "missing" THEN 0 ELSE LimitPrice,
                  reject |-> reject, failed |-> failed])

NextCandidate == mode' = "pick" /\ at' = at + 1 /\ remaining' = 0 /\ sold' = 0

Unfit ==
  CASE req.quotes[This].state \in {"missing", "stale"} -> "DATA_STALE"
    [] req.quotes[This].state = "suspended" -> "SYMBOL_SUSPENDED"
    [] req.quotes[This].state = "active" /\ ~ BandHolds -> "RISK_ORDER_PRICE_BAND"
    [] OTHER -> "none"

Refuse ==
  /\ mode = "pick" /\ at <= Len(req.candidates) /\ Unfit # "none"
  /\ orders' = Written(0, Unfit, {})
  /\ NextCandidate
  /\ UNCHANGED <<req, left, planVars, start, shortages, verdict>>

Finish ==
  /\ mode = "pick" /\ at > Len(req.candidates)
  /\ mode' = "done"
  /\ UNCHANGED <<req, left, at, remaining, sold, planVars, start, outVars>>

-----------------------------------------------------------------------------
(* A purchase.                                                           *)

\* The remaining value counts the holding, not the orders under way: those
\* bind through the limit of the symbol.
TakeUpBuy ==
  /\ mode = "pick" /\ at <= Len(req.candidates) /\ Unfit = "none" /\ Current.side = "buy"
  /\ remaining' = Part("symbol") - LimitPrice * req.held[This]
  /\ mode' = "buy"
  /\ UNCHANGED <<req, left, at, sold, planVars, start, outVars>>

\* Mutation: the cash floor forgets what this plan has spent.
CashRoomUnspent == req.settled - Part("minCash")

CashRoom == req.settled - spend - Part("minCash")

\* The six limits of a purchase and the room each of them leaves.
Caps(x) ==
  <<[rule |-> "RISK_SYMBOL_EXPOSURE", room |-> Part("symbol") - exposure.symbol[x]],
    [rule |-> "RISK_TOTAL_EXPOSURE", room |-> Part("total") - exposure.total],
    [rule |-> "RISK_MIN_CASH", room |-> CashRoom],
    [rule |-> "RISK_ORDERABLE_CASH", room |-> req.cash - spend],
    [rule |-> "RISK_DAILY_BUY_AMOUNT", room |-> req.openNav * Limits["dailyBuy"] - buying],
    IF SectorOf(x) = NoSector
      THEN [rule |-> "RISK_UNCLASSIFIED_EXPOSURE", room |-> Part("unclassified") - exposure.sector[NoSector]]
      ELSE [rule |-> "RISK_SECTOR_EXPOSURE", room |-> Part("sector") - exposure.sector[SectorOf(x)]]>>

\* The first of the tightest limits.
Binding(c) ==
  /\ \A d \in 1..6 : Caps(This)[c].room <= Caps(This)[d].room
  /\ \A d \in 1..6 : d < c => Caps(This)[c].room < Caps(This)[d].room

TooMany == req.open + created >= Limits["openOrders"]

\* The decisions on an order that do not pass.
BuyFailures(value) ==
  {Caps(This)[c].rule : c \in {d \in 1..6 : value > Caps(This)[d].room}}
    \cup (IF value > Part("order") THEN {"RISK_ORDER_AMOUNT"} ELSE {})
    \cup (IF TooMany THEN {"RISK_OPEN_ORDERS"} ELSE {})
    \cup (IF BandHolds THEN {} ELSE {"RISK_ORDER_PRICE_BAND"})

Smaller(a, b) == IF a <= b THEN a ELSE b

\* Mutation: the size of one order is not looked at.
BuyQuantityWhole(c) == Lots(Smaller(remaining, Caps(This)[c].room), LimitPrice)

BuyQuantity(c) == Smaller(Lots(Smaller(remaining, Caps(This)[c].room), LimitPrice), PerOrder)

NoShareFits(c) == Lots(Caps(This)[c].room, LimitPrice) = 0

\* Not one share fits in: noted as lack of room, not as a rejection.
BuyNoRoom(c) ==
  /\ mode = "buy" /\ remaining > 0 /\ Binding(c)
  /\ NoShareFits(c) /\ PerOrder > 0
  /\ shortages' = IF NoneYet
                  THEN Append(shortages, [candidate |-> at, symbol |-> This, rule |-> Caps(This)[c].rule])
                  ELSE shortages
  /\ NextCandidate
  /\ UNCHANGED <<req, left, planVars, start, orders, verdict>>

\* The order size or the remaining value is less than one share.
BuyTooSmall(c) ==
  /\ mode = "buy" /\ remaining > 0 /\ Binding(c)
  /\ ~ NoShareFits(c) \/ PerOrder = 0
  /\ BuyQuantity(c) = 0
  /\ orders' = IF NoneYet
               THEN Written(0, IF PerOrder = 0 THEN "RISK_ORDER_AMOUNT" ELSE Caps(This)[c].rule,
                            BuyFailures(LimitPrice))
               ELSE orders
  /\ NextCandidate
  /\ UNCHANGED <<req, left, planVars, start, shortages, verdict>>

BuyTooMany(c) ==
  /\ mode = "buy" /\ remaining > 0 /\ Binding(c) /\ BuyQuantity(c) > 0 /\ TooMany
  /\ orders' = IF NoneYet THEN Written(0, "RISK_OPEN_ORDERS", BuyFailures(LimitPrice)) ELSE orders
  /\ NextCandidate
  /\ UNCHANGED <<req, left, planVars, start, shortages, verdict>>

BuyOrder(c) ==
  /\ mode = "buy" /\ remaining > 0 /\ Binding(c) /\ BuyQuantity(c) > 0 /\ ~ TooMany
  /\ LET value == LimitPrice * BuyQuantity(c) IN
     /\ orders' = Written(BuyQuantity(c), "none", BuyFailures(value))
     /\ exposure' = Plus(exposure, This, SectorOf(This), value)
     /\ spend' = spend + value /\ buying' = buying + value /\ created' = created + 1
     /\ remaining' = remaining - value
  /\ UNCHANGED <<req, mode, left, at, sold, start, shortages, verdict>>

BuyEnough ==
  /\ mode = "buy" /\ remaining <= 0
  /\ NextCandidate
  /\ UNCHANGED <<req, left, planVars, start, outVars>>

-----------------------------------------------------------------------------
(* A sale.                                                               *)

Sellable == Smaller(req.held[This], req.orderable[This])

\* The failures of a sale; its price is within the band when it comes so far.
SellFailures(quantity) ==
  (IF sold + quantity > Sellable THEN {"RISK_ORDERABLE_QUANTITY"} ELSE {})
    \cup (IF LimitPrice * quantity > Part("order") THEN {"RISK_ORDER_AMOUNT"} ELSE {})
    \cup (IF TooMany THEN {"RISK_OPEN_ORDERS"} ELSE {})
    \cup (IF BandHolds THEN {} ELSE {"RISK_ORDER_PRICE_BAND"})

TakeUpSell ==
  /\ mode = "pick" /\ at <= Len(req.candidates) /\ Unfit = "none" /\ Current.side = "sell"
  /\ Sellable > 0 /\ PerOrder > 0
  /\ mode' = "sell"
  /\ UNCHANGED <<req, left, at, remaining, sold, planVars, start, outVars>>

SellNothing ==
  /\ mode = "pick" /\ at <= Len(req.candidates) /\ Unfit = "none" /\ Current.side = "sell"
  /\ Sellable = 0 \/ PerOrder = 0
  /\ orders' = IF req.held[This] = 0 THEN orders
               ELSE Written(0, IF Sellable = 0 THEN "RISK_ORDERABLE_QUANTITY" ELSE "RISK_ORDER_AMOUNT",
                            SellFailures(0))
  /\ NextCandidate
  /\ UNCHANGED <<req, left, planVars, start, shortages, verdict>>

SellTooMany ==
  /\ mode = "sell" /\ sold < Sellable /\ TooMany
  /\ orders' = IF NoneYet THEN Written(0, "RISK_OPEN_ORDERS", SellFailures(0)) ELSE orders
  /\ NextCandidate
  /\ UNCHANGED <<req, left, planVars, start, shortages, verdict>>

SellQuantity == Smaller(Sellable - sold, PerOrder)

SellOrder ==
  /\ mode = "sell" /\ sold < Sellable /\ ~ TooMany
  /\ orders' = Written(SellQuantity, "none", SellFailures(SellQuantity))
  /\ created' = created + 1 /\ sold' = sold + SellQuantity
  /\ UNCHANGED <<req, mode, left, at, remaining, exposure, spend, buying, start, shortages, verdict>>

SellEnough ==
  /\ mode = "sell" /\ sold >= Sellable
  /\ NextCandidate
  /\ UNCHANGED <<req, left, planVars, start, outVars>>

-----------------------------------------------------------------------------
RiskNext ==
  \/ Gate \/ Seeded \/ Refuse \/ Finish \/ TakeUpBuy \/ BuyEnough
  \/ TakeUpSell \/ SellNothing \/ SellTooMany \/ SellOrder \/ SellEnough
  \/ \E x \in Symbols : Seed(x)
  \/ \E c \in 1..6 : BuyNoRoom(c) \/ BuyTooSmall(c) \/ BuyTooMany(c) \/ BuyOrder(c)

\* The evaluation is one synchronous call: it runs to its end.
RiskSpec == RiskInit /\ [][RiskNext]_riskVars /\ WF_riskVars(RiskNext)

-----------------------------------------------------------------------------
\* Type correctness.
RiskTypeOK ==
  /\ req \in Request
  /\ mode \in {"gate", "seed", "pick", "buy", "sell", "done"}
  /\ left \subseteq Symbols
  /\ at \in Nat \ {0} /\ remaining \in Int /\ sold \in Nat
  /\ exposure \in [symbol : [Symbols -> Nat], sector : [Sectors \cup {NoSector} -> Nat], total : Nat]
  /\ spend \in Nat /\ buying \in Nat /\ created \in Nat
  /\ start.exposure \in [symbol : [Symbols -> Nat], sector : [Sectors \cup {NoSector} -> Nat], total : Nat]
  /\ start.buying \in Nat

Larger(a, b) == IF a >= b THEN a ELSE b

\* However many candidates a plan has and however it cuts them into orders,
\* all its purchases together leave every limit of the policy intact: what
\* exceeds a limit afterwards exceeded it, as much, before the first order.
\* The limits of the symbol, the sector, the whole portfolio, the day's
\* purchases, the cash floor, the orderable cash and the open orders.
PurchasesFit ==
  mode \in {"pick", "buy", "sell", "done"} =>
    /\ \A x \in Symbols : exposure.symbol[x] <= Larger(start.exposure.symbol[x], Part("symbol"))
    /\ \A s \in Sectors : exposure.sector[s] <= Larger(start.exposure.sector[s], Part("sector"))
    /\ exposure.sector[NoSector] <= Larger(start.exposure.sector[NoSector], Part("unclassified"))
    /\ exposure.total <= Larger(start.exposure.total, Part("total"))
    /\ buying <= Larger(start.buying, req.openNav * Limits["dailyBuy"])
    /\ spend <= req.cash
    /\ spend > 0 => req.settled - spend >= Part("minCash")
    /\ created > 0 => req.open + created <= Limits["openOrders"]

\* The decisions stored with an order agree with the engine's verdict: an
\* order that goes out has a quantity, a size within the limit of one order,
\* and no failed decision, although quantity and decisions are computed by
\* different formulas.
AcceptedPassed ==
  \A i \in DOMAIN orders : orders[i].reject = "none" =>
    /\ orders[i].failed = {} /\ orders[i].quantity > 0
    /\ orders[i].price * orders[i].quantity <= Part("order")

\* The shares of x in the orders that sell it.
Offered(x) ==
  SumFunction([i \in DOMAIN orders |->
                 IF orders[i].symbol = x /\ orders[i].side = "sell" THEN orders[i].quantity ELSE 0])

\* A sale that is cut into several orders offers no share twice.
SalesFit == \A x \in Symbols : Offered(x) <= Smaller(req.held[x], req.orderable[x])

AsksForNothing(c) ==
  LET x == req.candidates[c].symbol IN
  IF req.candidates[c].side = "sell" THEN req.held[x] = 0
  ELSE Part("symbol") - req.quotes[x].limit * req.held[x] <= 0

\* docs/decisions/0020: a candidate without room is no rejection, but it does
\* not vanish either.  When the plan is made, each candidate has an order, a
\* rejection or a note of the limit in its way, unless there was nothing to do.
NothingVanishes ==
  mode = "done" /\ verdict.block = "none" =>
    \A c \in DOMAIN req.candidates :
      \/ \E i \in DOMAIN orders : orders[i].candidate = c
      \/ \E i \in DOMAIN shortages : shortages[i].candidate = c
      \/ AsksForNothing(c)

CapRules == {"RISK_SYMBOL_EXPOSURE", "RISK_TOTAL_EXPOSURE", "RISK_MIN_CASH", "RISK_ORDERABLE_CASH",
             "RISK_DAILY_BUY_AMOUNT", "RISK_SECTOR_EXPOSURE", "RISK_UNCLASSIFIED_EXPOSURE"}

\* docs/decisions/0020, decision 1: where a limit leaves no room for a single
\* share the candidate is not rejected; a rejection would count towards the
\* three in a row that stop the trading.
NoRoomIsNoRejection ==
  \A i \in DOMAIN orders : orders[i].reject \in CapRules => orders[i].reject \notin orders[i].failed

\* What an evaluation leaves behind can be relied on, order by order and
\* candidate by candidate.
EvaluationIsSound == AcceptedPassed /\ SalesFit /\ NothingVanishes /\ NoRoomIsNoRejection

\* Every evaluation comes to its end.
EvaluationEnds == <>(mode = "done")
=============================================================================
