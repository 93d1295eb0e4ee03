--------------------------- MODULE DecisionProofs ----------------------------
(*************************************************************************)
(* What holds of the decisions about trading for every request.          *)
(*                                                                       *)
(* The evaluation of a plan: all the purchases together stay inside the  *)
(* limits (PurchasesFit), and the orders, rejections and notes it leaves *)
(* behind can be relied on (DecisionsCorrect).  The arithmetic is in two *)
(* lemmas: as many shares as an amount pays for cost no more than the    *)
(* amount, and an order's value therefore fits into the room of the      *)
(* tightest limit, hence into the room of each of the six.  For the      *)
(* decisions the invariant says what has been written of the candidates  *)
(* before the one at work (Behind) and what the one at work still wants  *)
(* while it has no order (AtWork).                                       *)
(*                                                                       *)
(* The training of a model and a backtest that applies it: no label that *)
(* a fold was trained with looks into its validation, no accepted signal *)
(* was learnt, and the hashes name what was used (TrainingCorrect).      *)
(*                                                                       *)
(* The two pages of the console: what they show was so at some moment of *)
(* their reading, or errs on the side of the alarm (ConsoleCorrect).     *)
(*************************************************************************)
EXTENDS RiskEngine, Training, Console, SumTheorems, TLAPS

USE RiskAssumption

\* What an evaluation needs to know of itself: the candidate at work exists,
\* and nothing is bought before the exposure is counted.
RiskInv ==
  /\ RiskTypeOK
  /\ mode \in {"buy", "sell"} => at \in DOMAIN req.candidates
  /\ mode \in {"gate", "seed"} => spend = 0 /\ created = 0
  /\ mode = "gate" => start.exposure = exposure /\ start.buying = buying
  /\ PurchasesFit

-----------------------------------------------------------------------------
\* int() of a quotient, times the price, is no more than the amount.
LEMMA LotsCost ==
  ASSUME NEW a \in Int, NEW p \in Nat \ {0}
  PROVE  /\ Lots(a, p) \in Nat
         /\ Lots(a, p) > 0 => p * Lots(a, p) <= a
<1>1. CASE a <= 0
  BY <1>1, SMT DEF Lots
<1>2. CASE a > 0
  <2>1. a \in Nat /\ Lots(a, p) = a \div p
    BY <1>2, SMT DEF Lots
  <2>2. a \div p \in Nat /\ p * (a \div p) <= a
    BY <2>1, SMT
  <2> QED BY <2>1, <2>2
<1> QED BY <1>1, <1>2

\* Fewer shares cost less.
LEMMA FewerCostLess ==
  ASSUME NEW q \in Nat, NEW r \in Nat, NEW p \in Nat, q <= r
  PROVE  p * q \in Nat /\ p * q <= p * r
  BY SMT

LEMMA ProductIsNat ==
  ASSUME NEW m \in Nat, NEW n \in Nat
  PROVE  m * n \in Nat
  BY SMT

\* What a request is made of.
LEMMA RequestParts ==
  ASSUME req \in Request
  PROVE  /\ req.nav \in Nat /\ req.openNav \in Nat /\ req.settled \in Nat /\ req.cash \in Nat
         /\ req.open \in Nat /\ req.bought \in Nat
         /\ req.candidates \in Seq(Candidate)
         /\ \A x \in Symbols : /\ req.held[x] \in Nat /\ req.orderable[x] \in Nat
                               /\ req.valued[x] \in Nat /\ req.pending[x] \in Nat
                               /\ req.quotes[x].price \in Nat \ {0}
                               /\ req.quotes[x].limit \in Nat \ {0}
                               /\ SectorOf(x) \in Sectors \cup {NoSector}
<1>1. /\ req.nav \in Nat /\ req.openNav \in Nat /\ req.settled \in Nat /\ req.cash \in Nat
      /\ req.open \in Nat /\ req.bought \in Nat
      /\ req.candidates \in Seq(Candidate)
  BY DEF Request
<1>2. \A x \in Symbols : /\ req.held[x] \in Nat /\ req.orderable[x] \in Nat
                         /\ req.valued[x] \in Nat /\ req.pending[x] \in Nat
                         /\ req.quotes[x] \in Quote
  BY DEF Request
<1> QED BY <1>1, <1>2 DEF Quote, SectorOf

\* The limits in won.
LEMMA PartIsNat ==
  ASSUME req \in Request, NEW l \in LimitNames
  PROVE  Part(l) \in Nat /\ req.openNav * Limits[l] \in Nat
<1>1. Limits[l] \in Nat
  OBVIOUS
<1> QED BY <1>1, RequestParts, ProductIsNat DEF Part

\* The candidate at work.
LEMMA CurrentParts ==
  ASSUME req \in Request, at \in DOMAIN req.candidates
  PROVE  Current \in Candidate /\ This \in Symbols
<1>1. req.candidates \in Seq(Candidate)
  BY RequestParts
<1>2. req.candidates[at] \in Candidate
  BY <1>1
<1> QED BY <1>2 DEF Current, This, Candidate

-----------------------------------------------------------------------------
\* An order's value fits into the room that every one of the limits leaves.
LEMMA OrderFits ==
  ASSUME RiskTypeOK, at \in DOMAIN req.candidates, NEW c \in 1..6, Binding(c), BuyQuantity(c) > 0,
         \A d \in 1..6 : Caps(This)[d].room \in Int
  PROVE  /\ LimitPrice * BuyQuantity(c) \in Nat
         /\ \A d \in 1..6 : LimitPrice * BuyQuantity(c) <= Caps(This)[d].room
<1>1. req \in Request /\ This \in Symbols /\ remaining \in Int
  BY CurrentParts DEF RiskTypeOK
<1>2. LimitPrice \in Nat \ {0}
  BY <1>1, RequestParts DEF LimitPrice
<1> DEFINE amount == Smaller(remaining, Caps(This)[c].room)
           most == Lots(amount, LimitPrice)
<1>3. amount \in Int /\ amount <= Caps(This)[c].room
  BY <1>1 DEF Smaller
<1>4. most \in Nat /\ (most > 0 => LimitPrice * most <= amount)
  BY <1>2, <1>3, LotsCost
<1>5. PerOrder \in Nat
  <2>1. Part("order") \in Nat
    BY <1>1, PartIsNat DEF LimitNames
  <2>2. Part("order") \in Int
    BY <2>1
  <2> QED BY <1>2, <2>2, LotsCost DEF PerOrder
<1>6. BuyQuantity(c) \in Nat /\ BuyQuantity(c) <= most
  BY <1>4, <1>5 DEF BuyQuantity, Smaller
<1>7. LimitPrice * BuyQuantity(c) \in Nat /\ LimitPrice * BuyQuantity(c) <= LimitPrice * most
  BY <1>2, <1>4, <1>6, FewerCostLess
<1>8. most > 0 /\ LimitPrice * most \in Nat
  BY <1>2, <1>4, <1>6, ProductIsNat
<1>9. LimitPrice * BuyQuantity(c) <= Caps(This)[c].room
  BY <1>3, <1>4, <1>7, <1>8
<1>10. \A d \in 1..6 : Caps(This)[c].room <= Caps(This)[d].room
  BY DEF Binding
<1> QED BY <1>7, <1>9, <1>10
-----------------------------------------------------------------------------
\* The room of each limit, written out, for the candidate at work.
LEMMA RoomIs ==
  /\ Caps(This)[1].room = Part("symbol") - exposure.symbol[This]
  /\ Caps(This)[2].room = Part("total") - exposure.total
  /\ Caps(This)[3].room = req.settled - spend - Part("minCash")
  /\ Caps(This)[4].room = req.cash - spend
  /\ Caps(This)[5].room = req.openNav * Limits["dailyBuy"] - buying
  /\ Caps(This)[6].room = IF SectorOf(This) = NoSector
                         THEN Part("unclassified") - exposure.sector[NoSector]
                         ELSE Part("sector") - exposure.sector[SectorOf(This)]
  BY DEF Caps, CashRoom

\* The limits and the exposure they are compared with are numbers.
LEMMA RoomNumbers ==
  ASSUME RiskTypeOK, at \in DOMAIN req.candidates
  PROVE  /\ \A d \in 1..6 : Caps(This)[d].room \in Int
         /\ \A l \in {"symbol", "total", "minCash", "unclassified", "sector"} : Part(l) \in Nat
         /\ req.openNav * Limits["dailyBuy"] \in Nat
         /\ This \in Symbols /\ SectorOf(This) \in Sectors \cup {NoSector}
<1>1. req \in Request /\ This \in Symbols
  BY CurrentParts DEF RiskTypeOK
<1>2. \A l \in LimitNames : Part(l) \in Nat /\ req.openNav * Limits[l] \in Nat
  BY <1>1, PartIsNat
<1>3. /\ \A l \in {"symbol", "total", "minCash", "unclassified", "sector"} : Part(l) \in Nat
      /\ req.openNav * Limits["dailyBuy"] \in Nat
  BY <1>2 DEF LimitNames
<1>4. SectorOf(This) \in Sectors \cup {NoSector}
  BY <1>1, RequestParts
<1>5. /\ exposure.symbol[This] \in Nat /\ exposure.total \in Nat /\ spend \in Nat /\ buying \in Nat
      /\ exposure.sector[NoSector] \in Nat /\ exposure.sector[SectorOf(This)] \in Nat
  BY <1>1, <1>4 DEF RiskTypeOK
<1>6. req.settled \in Nat /\ req.cash \in Nat
  BY <1>1, RequestParts
<1>7. /\ Caps(This)[1].room \in Int /\ Caps(This)[2].room \in Int /\ Caps(This)[3].room \in Int
      /\ Caps(This)[4].room \in Int /\ Caps(This)[5].room \in Int /\ Caps(This)[6].room \in Int
  BY <1>3, <1>5, <1>6, RoomIs
<1>8. \A d \in 1..6 : Caps(This)[d].room \in Int
  BY <1>7
<1> QED BY <1>1, <1>3, <1>4, <1>8

\* The effect of counting an amount: only its symbol, its sector and the total grow.
Counted(e, x, s, v) ==
  /\ e \in [symbol : [Symbols -> Nat], sector : [Sectors \cup {NoSector} -> Nat], total : Nat]
  /\ e.symbol[x] = exposure.symbol[x] + v
  /\ \A y \in Symbols \ {x} : e.symbol[y] = exposure.symbol[y]
  /\ e.sector[s] = exposure.sector[s] + v
  /\ \A t \in (Sectors \cup {NoSector}) \ {s} : e.sector[t] = exposure.sector[t]
  /\ e.total = exposure.total + v

LEMMA PlusIs ==
  ASSUME RiskTypeOK, NEW x \in Symbols, NEW s \in Sectors \cup {NoSector}, NEW v \in Nat
  PROVE  Counted(Plus(exposure, x, s, v), x, s, v)
<1> DEFINE e == Plus(exposure, x, s, v)
<1>1. /\ exposure.symbol \in [Symbols -> Nat] /\ exposure.total \in Nat
      /\ exposure.sector \in [Sectors \cup {NoSector} -> Nat]
  BY DEF RiskTypeOK
<1>2. /\ e.symbol = [exposure.symbol EXCEPT ![x] = @ + v]
      /\ e.sector = [exposure.sector EXCEPT ![s] = @ + v]
      /\ e.total = exposure.total + v
      /\ e = [symbol |-> e.symbol, sector |-> e.sector, total |-> e.total]
  BY <1>1 DEF Plus
<1>3. e.symbol \in [Symbols -> Nat] /\ e.sector \in [Sectors \cup {NoSector} -> Nat] /\ e.total \in Nat
  BY <1>1, <1>2
<1>4. e \in [symbol : [Symbols -> Nat], sector : [Sectors \cup {NoSector} -> Nat], total : Nat]
  BY <1>2, <1>3
<1> HIDE DEF e
<1>5. /\ e.symbol[x] = exposure.symbol[x] + v
      /\ \A y \in Symbols \ {x} : e.symbol[y] = exposure.symbol[y]
      /\ e.sector[s] = exposure.sector[s] + v
      /\ \A t \in (Sectors \cup {NoSector}) \ {s} : e.sector[t] = exposure.sector[t]
      /\ e.total = exposure.total + v
  BY <1>1, <1>2
<1> QED BY <1>4, <1>5 DEF e, Counted
-----------------------------------------------------------------------------
\* The order that is written: all exposure it adds finds room.
LEMMA BuyOrderStep ==
  ASSUME RiskInv, NEW c \in 1..6, BuyOrder(c)
  PROVE  RiskInv'
<1> USE DEF RiskInv
<1> DEFINE value == LimitPrice * BuyQuantity(c)
<1>1. mode = "buy" /\ at \in DOMAIN req.candidates /\ Binding(c) /\ BuyQuantity(c) > 0 /\ ~ TooMany
  BY DEF BuyOrder
<1>2. /\ exposure' = Plus(exposure, This, SectorOf(This), value)
      /\ spend' = spend + value /\ buying' = buying + value /\ created' = created + 1
      /\ remaining' = remaining - value
      /\ UNCHANGED <<req, mode, left, at, sold, start>>
  BY DEF BuyOrder
<1>3. /\ value \in Nat
      /\ \A d \in 1..6 : value <= Caps(This)[d].room
  BY <1>1, RoomNumbers, OrderFits
<1>4. This \in Symbols /\ SectorOf(This) \in Sectors \cup {NoSector}
  BY <1>1, RoomNumbers
<1>5. /\ value <= Part("symbol") - exposure.symbol[This]
      /\ value <= Part("total") - exposure.total
      /\ value <= req.settled - spend - Part("minCash")
      /\ value <= req.cash - spend
      /\ value <= req.openNav * Limits["dailyBuy"] - buying
      /\ SectorOf(This) = NoSector => value <= Part("unclassified") - exposure.sector[NoSector]
      /\ SectorOf(This) # NoSector => value <= Part("sector") - exposure.sector[SectorOf(This)]
  <2>1. /\ value <= Caps(This)[1].room /\ value <= Caps(This)[2].room /\ value <= Caps(This)[3].room
        /\ value <= Caps(This)[4].room /\ value <= Caps(This)[5].room /\ value <= Caps(This)[6].room
    BY <1>3
  <2> HIDE DEF value
  <2> QED BY <2>1, RoomIs
<1> HIDE DEF value
<1>6. /\ exposure' \in [symbol : [Symbols -> Nat], sector : [Sectors \cup {NoSector} -> Nat], total : Nat]
      /\ exposure'.symbol[This] = exposure.symbol[This] + value
      /\ \A y \in Symbols \ {This} : exposure'.symbol[y] = exposure.symbol[y]
      /\ exposure'.sector[SectorOf(This)] = exposure.sector[SectorOf(This)] + value
      /\ \A t \in (Sectors \cup {NoSector}) \ {SectorOf(This)} : exposure'.sector[t] = exposure.sector[t]
      /\ exposure'.total = exposure.total + value
  <2>1. RiskTypeOK /\ exposure' = Plus(exposure, This, SectorOf(This), value)
    BY <1>2
  <2>2. Counted(Plus(exposure, This, SectorOf(This), value), This, SectorOf(This), value)
    BY <2>1, <1>3, <1>4, PlusIs
  <2> QED BY <2>1, <2>2 DEF Counted
<1>7. /\ req.open \in Nat /\ req.cash \in Nat /\ req.settled \in Nat
      /\ \A l \in {"symbol", "total", "minCash", "unclassified", "sector"} : Part(l) \in Nat
      /\ req.openNav * Limits["dailyBuy"] \in Nat
  BY <1>1, RoomNumbers, RequestParts DEF RiskTypeOK
<1>8. RiskTypeOK'
  BY <1>2, <1>3, <1>6 DEF RiskTypeOK
<1>9. /\ \A l \in LimitNames : Part(l)' = Part(l)
      /\ req' = req /\ start' = start /\ mode' = mode /\ at' = at
  BY <1>2 DEF Part
<1>10. /\ \A x \in Symbols : exposure'.symbol[x] <= Larger(start.exposure.symbol[x], Part("symbol"))
       /\ exposure'.total <= Larger(start.exposure.total, Part("total"))
  <2>1. /\ \A x \in Symbols : /\ exposure.symbol[x] <= Larger(start.exposure.symbol[x], Part("symbol"))
                              /\ exposure.symbol[x] \in Nat /\ start.exposure.symbol[x] \in Nat
        /\ exposure.total <= Larger(start.exposure.total, Part("total"))
        /\ exposure.total \in Nat /\ start.exposure.total \in Nat
    BY <1>1 DEF PurchasesFit, RiskTypeOK
  <2> QED BY <2>1, <1>3, <1>4, <1>5, <1>6, <1>7 DEF Larger
<1>11. /\ \A s \in Sectors : exposure'.sector[s] <= Larger(start.exposure.sector[s], Part("sector"))
       /\ exposure'.sector[NoSector] <= Larger(start.exposure.sector[NoSector], Part("unclassified"))
  <2>1. /\ \A s \in Sectors : exposure.sector[s] <= Larger(start.exposure.sector[s], Part("sector"))
        /\ exposure.sector[NoSector] <= Larger(start.exposure.sector[NoSector], Part("unclassified"))
        /\ \A s \in Sectors \cup {NoSector} : exposure.sector[s] \in Nat /\ start.exposure.sector[s] \in Nat
    BY <1>1 DEF PurchasesFit, RiskTypeOK
  <2>2. NoSector \notin Sectors
    OBVIOUS
  <2> QED BY <2>1, <2>2, <1>3, <1>4, <1>5, <1>6, <1>7 DEF Larger
<1>12. /\ buying' <= Larger(start.buying, req.openNav * Limits["dailyBuy"])
       /\ spend' <= req.cash
       /\ req.settled - spend' >= Part("minCash")
  BY <1>2, <1>3, <1>5, <1>7 DEF Larger, RiskTypeOK
<1>13. req.open + created' <= Limits["openOrders"]
  BY <1>1, <1>2, <1>7 DEF TooMany, RiskTypeOK, LimitNames
<1>14. PurchasesFit'
  <2>1. /\ Part("symbol")' = Part("symbol") /\ Part("total")' = Part("total")
        /\ Part("sector")' = Part("sector") /\ Part("unclassified")' = Part("unclassified")
        /\ Part("minCash")' = Part("minCash")
    BY <1>9 DEF LimitNames
  <2> QED BY <2>1, <1>9, <1>10, <1>11, <1>12, <1>13 DEF PurchasesFit
<1> QED BY <1>1, <1>8, <1>9, <1>14

-----------------------------------------------------------------------------
\* A step that adds no exposure keeps everything.
LEMMA QuietStep ==
  ASSUME RiskInv, UNCHANGED <<req, exposure, spend, buying, start>>,
         mode \notin {"gate", "seed"}, mode' \in {"pick", "buy", "sell", "done"},
         created' \in Nat, created' > 0 => req.open + created' <= Limits["openOrders"],
         left' = left, at' \in Nat \ {0}, remaining' \in Int, sold' \in Nat,
         mode' \in {"buy", "sell"} => at' \in DOMAIN req.candidates
  PROVE  RiskInv'
<1>1. RiskTypeOK'
  BY DEF RiskInv, RiskTypeOK
<1>2. \A l \in LimitNames : Part(l)' = Part(l)
  BY DEF Part
<1>3. /\ Part("symbol")' = Part("symbol") /\ Part("total")' = Part("total")
      /\ Part("sector")' = Part("sector") /\ Part("unclassified")' = Part("unclassified")
      /\ Part("minCash")' = Part("minCash")
  BY <1>2 DEF LimitNames
<1>4. mode \in {"pick", "buy", "sell", "done"}
  BY DEF RiskInv, RiskTypeOK
<1>5. PurchasesFit'
  BY <1>3, <1>4 DEF RiskInv, PurchasesFit
<1> QED BY <1>1, <1>5 DEF RiskInv

\* A candidate is left: nothing but the place in the list changes.
LEMMA NextStep ==
  ASSUME RiskInv, NextCandidate, UNCHANGED <<req, left, planVars, start>>,
         mode \in {"pick", "buy", "sell"}
  PROVE  RiskInv'
<1>1. /\ mode' = "pick" /\ at' \in Nat \ {0} /\ remaining' \in Int /\ sold' \in Nat
      /\ created' \in Nat
  BY DEF NextCandidate, RiskInv, RiskTypeOK, planVars
<1>2. created' > 0 => req.open + created' <= Limits["openOrders"]
  BY DEF RiskInv, PurchasesFit, planVars
<1> QED BY <1>1, <1>2, QuietStep DEF planVars

\* Exposure that is there before the first order is counted without any limit.
LEMMA SeedStep ==
  ASSUME RiskInv, NEW x \in Symbols, Seed(x)
  PROVE  RiskInv'
<1>1. /\ RiskTypeOK /\ mode = "seed" /\ left' = left \ {x}
      /\ exposure' = Plus(exposure, x, SectorOf(x), SeedValue(x))
      /\ UNCHANGED <<req, mode, at, remaining, sold, spend, buying, created, start>>
  BY DEF Seed, RiskInv
<1>2. SectorOf(x) \in Sectors \cup {NoSector}
  BY <1>1, RequestParts DEF RiskTypeOK
<1>3. SeedValue(x) \in Nat
  <2>1. /\ req.held[x] \in Nat /\ req.valued[x] \in Nat /\ req.pending[x] \in Nat
        /\ req.quotes[x].price \in Nat
    BY <1>1, RequestParts DEF RiskTypeOK
  <2>2. req.quotes[x].price * req.held[x] \in Nat
    BY <2>1, ProductIsNat
  <2> QED BY <2>1, <2>2 DEF SeedValue
<1>4. exposure' \in [symbol : [Symbols -> Nat], sector : [Sectors \cup {NoSector} -> Nat], total : Nat]
  BY <1>1, <1>2, <1>3, PlusIs DEF Counted
<1>5. RiskTypeOK'
  BY <1>1, <1>4 DEF RiskTypeOK
<1> QED BY <1>1, <1>5 DEF RiskInv, PurchasesFit

\* Where the reference is the exposure itself and nothing is bought, all fits.
NothingYet == start.exposure = exposure /\ start.buying = buying /\ spend = 0 /\ created = 0

LEMMA StartFits == RiskTypeOK /\ NothingYet => PurchasesFit
<1> SUFFICES ASSUME RiskTypeOK, NothingYet PROVE PurchasesFit
  OBVIOUS
<1>1. /\ exposure.total \in Int /\ buying \in Int
      /\ \A x \in Symbols : exposure.symbol[x] \in Int
      /\ \A s \in Sectors \cup {NoSector} : exposure.sector[s] \in Int
  BY DEF RiskTypeOK
<1>2. /\ \A l \in {"symbol", "total", "unclassified", "sector"} : Part(l) \in Int
      /\ req.openNav * Limits["dailyBuy"] \in Int /\ req.cash \in Nat
  <2>1. \A l \in LimitNames : Part(l) \in Nat /\ req.openNav * Limits[l] \in Nat
    BY PartIsNat DEF RiskTypeOK
  <2>2. req.cash \in Nat
    BY RequestParts DEF RiskTypeOK
  <2> QED BY <2>1, <2>2 DEF LimitNames
<1>3. \A a, b \in Int : a <= Larger(a, b)
  BY DEF Larger
<1> QED BY <1>1, <1>2, <1>3 DEF PurchasesFit, NothingYet

\* With the first candidate the exposure that was there becomes the reference.
LEMMA SeededStep ==
  ASSUME RiskInv, Seeded
  PROVE  RiskInv'
<1>1. /\ RiskTypeOK /\ mode = "seed" /\ mode' = "pick"
      /\ start' = [exposure |-> exposure, buying |-> buying]
      /\ UNCHANGED <<req, left, at, remaining, sold, exposure, spend, buying, created>>
      /\ spend = 0 /\ created = 0
  BY DEF Seeded, planVars, RiskInv
<1>2. start'.exposure = exposure /\ start'.buying = buying /\ NothingYet'
  BY <1>1 DEF NothingYet
<1>3. RiskTypeOK'
  BY <1>1, <1>2 DEF RiskTypeOK
<1>4. PurchasesFit'
  BY <1>2, <1>3, StartFits, PTL
<1> QED BY <1>1, <1>3, <1>4 DEF RiskInv

LEMMA GateStep ==
  ASSUME RiskInv, Gate
  PROVE  RiskInv'
<1>1. /\ RiskTypeOK /\ mode = "gate" /\ mode' \in {"seed", "done"}
      /\ UNCHANGED <<req, left, at, remaining, sold, exposure, spend, buying, created, start>>
      /\ spend = 0 /\ created = 0 /\ start.exposure = exposure /\ start.buying = buying
  BY DEF Gate, planVars, RiskInv
<1>2. RiskTypeOK'
  BY <1>1 DEF RiskTypeOK
<1>3. NothingYet'
  BY <1>1 DEF NothingYet
<1>4. PurchasesFit'
  BY <1>2, <1>3, StartFits, PTL
<1> QED BY <1>1, <1>2, <1>4 DEF RiskInv

LEMMA InitInv ==
  ASSUME RiskInit
  PROVE  RiskInv
<1>1. /\ req \in Request /\ mode = "gate" /\ left = Symbols /\ at = 1 /\ remaining = 0 /\ sold = 0
      /\ exposure = NoExposure /\ spend = 0 /\ buying = req.bought /\ created = 0
      /\ start = [exposure |-> NoExposure, buying |-> req.bought]
  BY DEF RiskInit
<1>2. req.bought \in Nat
  BY <1>1, RequestParts
<1>3. RiskTypeOK
  BY <1>1, <1>2 DEF RiskTypeOK, NoExposure
<1>4. NothingYet
  BY <1>1 DEF NothingYet
<1> QED BY <1>1, <1>3, <1>4, StartFits DEF RiskInv, NothingYet

\* The invariant is kept by every step.
LEMMA NextInv ==
  ASSUME RiskInv, [RiskNext]_riskVars
  PROVE  RiskInv'
<1>1. CASE Gate
  BY <1>1, GateStep
<1>2. CASE Seeded
  BY <1>2, SeededStep
<1>3. CASE Refuse
  BY <1>3, NextStep DEF Refuse
<1>4. CASE Finish
  <2>1. created \in Nat /\ at \in Nat \ {0} /\ remaining \in Int /\ sold \in Nat
        /\ (created > 0 => req.open + created <= Limits["openOrders"])
    BY <1>4 DEF Finish, RiskInv, RiskTypeOK, PurchasesFit
  <2> QED BY <1>4, <2>1, QuietStep DEF Finish, planVars
<1>5. CASE TakeUpBuy
  <2>1. /\ req \in Request /\ created \in Nat /\ at \in DOMAIN req.candidates /\ sold \in Nat
        /\ at \in Nat \ {0}
        /\ (created > 0 => req.open + created <= Limits["openOrders"])
    <3>1. req \in Request /\ at \in Nat \ {0} /\ at <= Len(req.candidates)
      BY <1>5 DEF TakeUpBuy, RiskInv, RiskTypeOK
    <3>2. req.candidates \in Seq(Candidate)
      BY <3>1, RequestParts
    <3> QED BY <1>5, <3>1, <3>2 DEF TakeUpBuy, RiskInv, RiskTypeOK, PurchasesFit
  <2>2. Part("symbol") - LimitPrice * req.held[This] \in Int
    <3>1. This \in Symbols
      BY <2>1, CurrentParts
    <3>2. Part("symbol") \in Nat
      BY <2>1, PartIsNat DEF LimitNames
    <3>3. LimitPrice \in Nat /\ req.held[This] \in Nat
      BY <2>1, <3>1, RequestParts DEF LimitPrice
    <3>4. LimitPrice * req.held[This] \in Nat
      BY <3>3, ProductIsNat
    <3> QED BY <3>2, <3>4
  <2> QED BY <1>5, <2>1, <2>2, QuietStep DEF TakeUpBuy, planVars
<1>6. CASE BuyEnough
  BY <1>6, NextStep DEF BuyEnough
<1>7. CASE TakeUpSell
  <2>1. /\ created \in Nat /\ at \in DOMAIN req.candidates /\ sold \in Nat /\ remaining \in Int
        /\ at \in Nat \ {0}
        /\ (created > 0 => req.open + created <= Limits["openOrders"])
    <3>1. req \in Request /\ at \in Nat \ {0} /\ at <= Len(req.candidates)
      BY <1>7 DEF TakeUpSell, RiskInv, RiskTypeOK
    <3>2. req.candidates \in Seq(Candidate)
      BY <3>1, RequestParts
    <3> QED BY <1>7, <3>1, <3>2 DEF TakeUpSell, RiskInv, RiskTypeOK, PurchasesFit
  <2> QED BY <1>7, <2>1, QuietStep DEF TakeUpSell, planVars
<1>8. CASE SellNothing
  BY <1>8, NextStep DEF SellNothing
<1>9. CASE SellTooMany
  BY <1>9, NextStep DEF SellTooMany
<1>10. CASE SellOrder
  <2>1. /\ mode = "sell" /\ created' = created + 1 /\ sold' = sold + SellQuantity
        /\ ~ TooMany /\ req \in Request /\ created \in Nat /\ sold \in Nat /\ sold < Sellable
        /\ at \in DOMAIN req.candidates /\ at \in Nat \ {0} /\ remaining \in Int
        /\ UNCHANGED <<req, mode, left, at, remaining, exposure, spend, buying, start>>
    BY <1>10 DEF SellOrder, RiskInv, RiskTypeOK
  <2>2. SellQuantity \in Nat
    <3>1. This \in Symbols
      BY <2>1, CurrentParts
    <3>2. Part("order") \in Int
      BY <2>1, PartIsNat DEF LimitNames
    <3>4. LimitPrice \in Nat \ {0} /\ Sellable \in Nat
      BY <2>1, <3>1, RequestParts DEF LimitPrice, Sellable, Smaller
    <3>3. PerOrder \in Nat
      BY <3>2, <3>4, LotsCost DEF PerOrder
    <3> QED BY <2>1, <3>4, <3>3 DEF SellQuantity, Smaller
  <2>3. created' > 0 => req.open + created' <= Limits["openOrders"]
    <3>1. req.open \in Nat /\ Limits["openOrders"] \in Nat
      BY <2>1, RequestParts DEF LimitNames
    <3> QED BY <2>1, <3>1 DEF TooMany
  <2> QED BY <2>1, <2>2, <2>3, QuietStep
<1>11. CASE \E x \in Symbols : Seed(x)
  BY <1>11, SeedStep
<1>12. CASE \E c \in 1..6 : BuyNoRoom(c) \/ BuyTooSmall(c) \/ BuyTooMany(c)
  BY <1>12, NextStep DEF BuyNoRoom, BuyTooSmall, BuyTooMany
<1>13. CASE \E c \in 1..6 : BuyOrder(c)
  BY <1>13, BuyOrderStep
<1>14. CASE UNCHANGED riskVars
  <2>1. UNCHANGED <<req, mode, left, at, remaining, sold, exposure, spend, buying, created, start>>
    BY <1>14 DEF riskVars, evalVars, planVars
  <2> QED BY <2>1 DEF RiskInv, RiskTypeOK, PurchasesFit, Part
<1>15. CASE RiskNext
  <2>1. \/ Gate \/ Seeded \/ Refuse \/ Finish \/ TakeUpBuy \/ BuyEnough
        \/ TakeUpSell \/ SellNothing \/ SellTooMany \/ SellOrder \/ SellEnough
        \/ \E x \in Symbols : Seed(x)
        \/ \E c \in 1..6 : BuyNoRoom(c) \/ BuyTooSmall(c) \/ BuyTooMany(c)
        \/ \E c \in 1..6 : BuyOrder(c)
    BY <1>15, Zenon DEF RiskNext
  <2>2. CASE SellEnough
    BY <2>2, NextStep DEF SellEnough
  <2> QED BY <2>1, <2>2, <1>1, <1>2, <1>3, <1>4, <1>5, <1>6, <1>7, <1>8, <1>9, <1>10, <1>11, <1>12, <1>13
<1> QED BY <1>14, <1>15

LEMMA InvAlways == RiskSpec => []RiskInv
<1>1. RiskInit => RiskInv
  BY InitInv
<1>2. RiskInv /\ [RiskNext]_riskVars => RiskInv'
  BY NextInv
<1> QED BY <1>1, <1>2, PTL DEF RiskSpec

\* The types of an evaluation: exposure and amounts never become negative.
THEOREM RiskTypeCorrect == RiskSpec => []RiskTypeOK
<1>1. RiskInv => RiskTypeOK
  BY DEF RiskInv
<1> QED BY <1>1, InvAlways, PTL

\* For every request, every set of limits and any number of candidates: all
\* purchases of one plan together leave every limit of the policy intact.
THEOREM PurchasesFitCorrect == RiskSpec => []PurchasesFit
<1>1. RiskInv => PurchasesFit
  BY DEF RiskInv
<1> QED BY <1>1, InvAlways, PTL
-----------------------------------------------------------------------------
(* What is written of each candidate.                                    *)

\* The decisions that may fail, and why an order may be rejected.
Rules == CapRules \cup {"RISK_ORDER_AMOUNT", "RISK_OPEN_ORDERS", "RISK_ORDER_PRICE_BAND", "RISK_ORDERABLE_QUANTITY"}
Rejects == Rules \cup {"DATA_STALE", "SYMBOL_SUSPENDED", "none"}

OrderRow == [candidate : Nat, sequence : Nat, symbol : Symbols, side : {"buy", "sell"}, quantity : Nat,
             price : Nat, reject : Rejects, failed : SUBSET Rules]
Shortage == [candidate : Nat, symbol : Symbols, rule : CapRules]

DecisionOK(o) ==
  /\ o.reject = "none" => o.failed = {} /\ o.quantity > 0 /\ o.price * o.quantity <= Part("order")
  /\ o.reject \in CapRules => o.reject \notin o.failed

Decisions == orders \in Seq(OrderRow) /\ \A i \in DOMAIN orders : DecisionOK(orders[i])

Ordered(c) == \E i \in DOMAIN orders : orders[i].candidate = c
Noted(c) == \E i \in DOMAIN shortages : shortages[i].candidate = c
Treated(c) == Ordered(c) \/ Noted(c) \/ AsksForNothing(c)

\* The candidate at work is fit to trade, and as long as it has no order nothing of it
\* is bought or sold.
AtWork ==
  /\ mode \in {"gate", "seed", "pick"} => sold = 0
  /\ mode \in {"buy", "sell"} => Unfit = "none" /\ Current.side = mode
  /\ mode = "buy" /\ NoneYet => remaining = Part("symbol") - LimitPrice * req.held[This]
  /\ mode = "sell" => Sellable > 0 /\ PerOrder > 0 /\ (NoneYet => sold = 0)

\* The candidates before the one at work are all treated.
Behind ==
  /\ shortages \in Seq(Shortage)
  /\ mode \in {"gate", "seed"} => at = 1
  /\ \A c \in DOMAIN req.candidates : c < at => Treated(c)
  /\ mode = "done" /\ verdict.block = "none" => at > Len(req.candidates)

SoundInv == RiskInv /\ Decisions /\ AtWork /\ Behind

\* What a step may write.
OrdersKept == Decisions' /\ \A c \in Nat : Ordered(c) => Ordered(c)'
NotesKept == shortages' \in Seq(Shortage) /\ \A c \in Nat : Noted(c) => Noted(c)'

\* An element more.
LEMMA OneMore ==
  ASSUME NEW S, NEW s \in Seq(S), NEW e \in S
  PROVE  /\ Append(s, e) \in Seq(S) /\ DOMAIN s = 1 .. Len(s) /\ Len(s) \in Nat
         /\ DOMAIN Append(s, e) = 1 .. Len(s) + 1
         /\ \A i \in 1 .. Len(s) : Append(s, e)[i] = s[i]
         /\ Append(s, e)[Len(s) + 1] = e
         /\ Len(s) + 1 \in 1 .. Len(s) + 1
OBVIOUS

\* An order or a rejection is written for the candidate at work.
LEMMA OrderWritten ==
  ASSUME SoundInv, at \in DOMAIN req.candidates, req' = req,
         NEW q \in Nat, NEW r \in Rejects, NEW f \in SUBSET Rules,
         r = "none" => /\ f = {} /\ q > 0 /\ LimitPrice * q <= Part("order")
                       /\ req.quotes[This].state # "missing",
         r \in CapRules => r \notin f,
         orders' = Written(q, r, f)
  PROVE  OrdersKept /\ \E i \in DOMAIN orders' : orders'[i].candidate = at
<1> DEFINE price == IF req.quotes[This].state = "missing" THEN 0 ELSE LimitPrice
           o == [candidate |-> at, sequence |-> Len(orders) + 1, symbol |-> This, side |-> Current.side,
                 quantity |-> q, price |-> price, reject |-> r, failed |-> f]
<1>1. req \in Request /\ at \in Nat /\ orders \in Seq(OrderRow) /\ \A i \in DOMAIN orders : DecisionOK(orders[i])
  BY DEF SoundInv, RiskInv, RiskTypeOK, Decisions
<1>2. Current \in Candidate /\ This \in Symbols
  BY <1>1, CurrentParts
<1>3. LimitPrice \in Nat /\ price \in Nat
  BY <1>1, <1>2, RequestParts DEF LimitPrice
<1>4. o \in OrderRow
  <2>1. Current.side \in {"buy", "sell"} /\ Len(orders) + 1 \in Nat
    BY <1>1, <1>2 DEF Candidate
  <2> HIDE DEF price
  <2> QED
    BY <1>1, <1>2, <1>3, <2>1 DEF OrderRow
<1>5. DecisionOK(o)
  BY DEF DecisionOK
<1>6. orders' = Append(orders, o) /\ o.candidate = at
  BY DEF Written
<1> HIDE DEF o
<1>7. /\ orders' \in Seq(OrderRow) /\ DOMAIN orders = 1 .. Len(orders) /\ Len(orders) \in Nat
      /\ DOMAIN orders' = 1 .. Len(orders) + 1
      /\ \A i \in 1 .. Len(orders) : orders'[i] = orders[i]
      /\ orders'[Len(orders) + 1] = o /\ Len(orders) + 1 \in 1 .. Len(orders) + 1
  BY <1>1, <1>4, <1>6, OneMore
<1>8. \A i \in DOMAIN orders' : i \in DOMAIN orders \/ i = Len(orders) + 1
  BY <1>7
<1>9. DOMAIN orders \subseteq DOMAIN orders'
  BY <1>7
<1>10. \A p : DecisionOK(p) => DecisionOK(p)'
  BY DEF DecisionOK, Part
<1>11. \A i \in DOMAIN orders' : DecisionOK(orders'[i])
  BY <1>1, <1>5, <1>7, <1>8
<1>12. \A i \in DOMAIN orders' : DecisionOK(orders[i])'
  BY <1>11 DEF DecisionOK, Part
<1>13. Decisions'
  BY <1>7, <1>12 DEF Decisions
<1>14. \A c \in Nat : Ordered(c) => Ordered(c)'
  BY <1>7, <1>9 DEF Ordered
<1> QED
  BY <1>6, <1>7, <1>13, <1>14 DEF OrdersKept

\* No order is written.
LEMMA NoneWritten ==
  ASSUME SoundInv, UNCHANGED <<req, orders>>
  PROVE  OrdersKept
BY DEF SoundInv, Decisions, DecisionOK, Part, OrdersKept, Ordered

\* No lack of room is noted.
LEMMA NothingNoted ==
  ASSUME SoundInv, UNCHANGED shortages
  PROVE  NotesKept
BY DEF SoundInv, Behind, NotesKept, Noted

\* The candidates that are treated stay so.
LEMMA BehindStays ==
  ASSUME SoundInv, req' = req, OrdersKept, NotesKept, NEW c \in DOMAIN req.candidates, Treated(c)
  PROVE  Treated(c)'
<1>1. c \in Nat
  <2>1. req.candidates \in Seq(Candidate)
    BY RequestParts DEF SoundInv, RiskInv, RiskTypeOK
  <2> QED
    BY <2>1
<1>2. AsksForNothing(c) => AsksForNothing(c)'
  BY DEF AsksForNothing, Part
<1> QED
  BY <1>1, <1>2 DEF Treated, OrdersKept, NotesKept

\* A candidate is left, treated.
LEMMA NextIsSound ==
  ASSUME SoundInv, RiskInv', NextCandidate, req' = req, verdict' = verdict, OrdersKept, NotesKept,
         NEW k \in DOMAIN req.candidates, k = at, Treated(k)'
  PROVE  SoundInv'
<1>1. mode' = "pick" /\ at' = at + 1 /\ at \in Nat
  BY DEF NextCandidate, SoundInv, RiskInv, RiskTypeOK
<1>2. AtWork'
  BY <1>1 DEF AtWork, NextCandidate
<1>3. req.candidates \in Seq(Candidate)
  BY RequestParts DEF SoundInv, RiskInv, RiskTypeOK
<1>4. \A c \in DOMAIN req.candidates : c < at + 1 => c < at \/ c = k
  BY <1>1, <1>3
<1>5. \A c \in DOMAIN req.candidates : c < at => Treated(c)'
  BY BehindStays DEF SoundInv, Behind
<1>6. \A c \in DOMAIN req'.candidates : c < at' => Treated(c)'
  BY <1>1, <1>4, <1>5
<1>7. Behind'
  BY <1>1, <1>6 DEF Behind, NotesKept
<1> QED
  BY <1>2, <1>7 DEF SoundInv, OrdersKept

\* Of the candidate at work more is to come.
LEMMA StayIsSound ==
  ASSUME SoundInv, RiskInv', UNCHANGED <<req, at, verdict>>, OrdersKept, NotesKept, AtWork',
         mode \notin {"gate", "seed"}, mode' \in {"pick", "buy", "sell"}
  PROVE  SoundInv'
<1>1. \A c \in DOMAIN req.candidates : c < at => Treated(c)'
  BY BehindStays DEF SoundInv, Behind
<1>2. Behind'
  BY <1>1 DEF Behind, NotesKept
<1> QED
  BY <1>2 DEF SoundInv, OrdersKept

\* A fit candidate has an order price within the band.
LEMMA FitIsActive ==
  ASSUME req \in Request, This \in Symbols, Unfit = "none"
  PROVE  req.quotes[This].state = "active" /\ BandHolds
<1>1. req.quotes[This] \in Quote
  BY DEF Request
<1>2. req.quotes[This].state \in {"missing", "stale", "suspended", "active"}
  BY <1>1 DEF Quote
<1> QED
  BY <1>2 DEF Unfit

\* The rules of the six limits, and the failures of a purchase.
LEMMA CapsAreRules ==
  /\ \A c \in 1 .. 6 : Caps(This)[c].rule \in CapRules
  /\ \A value : BuyFailures(value) \in SUBSET Rules
<1>1. /\ Caps(This)[1].rule \in CapRules /\ Caps(This)[2].rule \in CapRules /\ Caps(This)[3].rule \in CapRules
      /\ Caps(This)[4].rule \in CapRules /\ Caps(This)[5].rule \in CapRules /\ Caps(This)[6].rule \in CapRules
  BY DEF Caps, CapRules
<1>2. \A c \in 1 .. 6 : Caps(This)[c].rule \in CapRules
  BY <1>1
<1> QED
  BY <1>2 DEF BuyFailures, Rules

\* As many shares as fit into the size of an order cost no more than it.
LEMMA OrderSizeHolds ==
  ASSUME req \in Request, This \in Symbols, NEW q \in Nat, q > 0, q <= PerOrder
  PROVE  LimitPrice * q \in Nat /\ LimitPrice * q <= Part("order") /\ PerOrder \in Nat
<1>1. LimitPrice \in Nat \ {0}
  BY RequestParts DEF LimitPrice
<1>2. Part("order") \in Nat
  BY PartIsNat DEF LimitNames
<1>3. PerOrder \in Nat /\ (PerOrder > 0 => LimitPrice * PerOrder <= Part("order"))
  BY <1>1, <1>2, LotsCost DEF PerOrder
<1>4. LimitPrice * q \in Nat /\ LimitPrice * q <= LimitPrice * PerOrder
  BY <1>1, <1>3, FewerCostLess
<1>5. LimitPrice * PerOrder \in Nat /\ PerOrder > 0
  BY <1>1, <1>3, ProductIsNat
<1>6. LimitPrice * PerOrder <= Part("order")
  BY <1>3, <1>5
<1> HIDE DEF PerOrder, LimitPrice
<1> QED
  BY <1>2, <1>3, <1>4, <1>5, <1>6

\* An order that is bought has no failed decision.
LEMMA BuyOrderIsSound ==
  ASSUME SoundInv, RiskInv', NEW c \in 1 .. 6, BuyOrder(c)
  PROVE  SoundInv'
<1> DEFINE q == BuyQuantity(c)
           value == LimitPrice * q
<1>1. /\ mode = "buy" /\ Binding(c) /\ q > 0 /\ ~ TooMany
      /\ at \in DOMAIN req.candidates /\ req \in Request /\ Unfit = "none"
      /\ RiskTypeOK /\ RiskInv /\ This \in Symbols
  BY CurrentParts, SMTT(20) DEF BuyOrder, SoundInv, RiskInv, RiskTypeOK, AtWork
<1>2. UNCHANGED <<req, at, mode, shortages, verdict>> /\ orders' = Written(q, "none", BuyFailures(value))
  BY DEF BuyOrder
<1>3. value \in Nat /\ \A d \in 1 .. 6 : value <= Caps(This)[d].room /\ Caps(This)[d].room \in Int
  BY <1>1, RoomNumbers, OrderFits
<1>4. q \in Nat /\ q <= PerOrder
  <2>1. LimitPrice \in Nat \ {0} /\ Part("order") \in Int /\ remaining \in Int
    BY <1>1, RequestParts, PartIsNat, SMTT(20) DEF LimitPrice, LimitNames, RiskTypeOK
  <2>2. PerOrder \in Nat
    BY <2>1, LotsCost DEF PerOrder
  <2>3. Smaller(remaining, Caps(This)[c].room) \in Int
    BY <1>3, <2>1 DEF Smaller
  <2>4. Lots(Smaller(remaining, Caps(This)[c].room), LimitPrice) \in Nat
    BY <2>1, <2>3, LotsCost
  <2> QED
    BY <2>2, <2>4 DEF BuyQuantity, Smaller
<1>5. value <= Part("order") /\ Part("order") \in Nat
  BY <1>1, <1>4, OrderSizeHolds, PartIsNat, SMTT(20) DEF LimitNames
<1>6. req.quotes[This].state = "active" /\ BandHolds
  BY <1>1, FitIsActive
<1> HIDE DEF value, q
<1>7. BuyFailures(value) = {}
  <2>1. ~ (value > Part("order")) /\ \A d \in 1 .. 6 : ~ (value > Caps(This)[d].room)
    BY <1>3, <1>5
  <2> QED
    BY <1>1, <1>6, <2>1 DEF BuyFailures
<1>8. "none" \in Rejects /\ "none" \notin CapRules /\ {} \in SUBSET Rules
  BY DEF Rejects, CapRules
<1>9. OrdersKept /\ \E i \in DOMAIN orders' : orders'[i].candidate = at
  BY <1>1, <1>2, <1>4, <1>5, <1>6, <1>7, <1>8, OrderWritten DEF value
<1>10. AtWork'
  <2>1. ~ NoneYet' /\ Unfit' = "none"
    BY <1>1, <1>2, <1>9 DEF NoneYet, Unfit, This, Current, BandHolds, LimitPrice, Price
  <2>2. Current' = Current /\ mode' = mode /\ mode = "buy"
    BY <1>1, <1>2 DEF Current
  <2>3. Current.side = mode
    BY <1>1 DEF SoundInv, AtWork
  <2> QED
    BY <2>1, <2>2, <2>3 DEF AtWork
<1> QED
  BY <1>1, <1>2, <1>9, <1>10, NothingNoted, StayIsSound

\* A candidate is left with a rejection.
LEMMA RejectedIsSound ==
  ASSUME SoundInv, RiskInv', at \in DOMAIN req.candidates, NextCandidate,
         UNCHANGED <<req, verdict, shortages>>,
         NEW r \in Rejects, NEW f \in SUBSET Rules, r # "none", r \in CapRules => r \notin f,
         orders' = Written(0, r, f)
  PROVE  SoundInv'
<1>0. PICK k \in DOMAIN req.candidates : k = at
  OBVIOUS
<1>1. NotesKept
  BY NothingNoted
<1>2. OrdersKept /\ \E i \in DOMAIN orders' : orders'[i].candidate = at
  BY OrderWritten
<1>3. Treated(k)'
  BY <1>0, <1>2 DEF Treated, Ordered
<1> QED
  BY <1>0, <1>1, <1>2, <1>3, NextIsSound

\* A candidate is left, with a rejection if it has no order.
LEMMA LeftIsSound ==
  ASSUME SoundInv, RiskInv', at \in DOMAIN req.candidates, NextCandidate,
         UNCHANGED <<req, verdict, shortages>>,
         NEW r \in Rejects, NEW f \in SUBSET Rules, r # "none", r \in CapRules => r \notin f,
         orders' = IF NoneYet THEN Written(0, r, f) ELSE orders
  PROVE  SoundInv'
<1>1. CASE NoneYet
  <2>1. orders' = Written(0, r, f)
    BY <1>1
  <2> QED
    BY <2>1, RejectedIsSound
<1>2. CASE ~ NoneYet
  <2>0. PICK k \in DOMAIN req.candidates : k = at
    OBVIOUS
  <2>1. orders' = orders
    BY <1>2
  <2>2. OrdersKept /\ NotesKept
    BY <2>1, NoneWritten, NothingNoted
  <2>3. Ordered(k) /\ k \in Nat
    BY <1>2, <2>0 DEF NoneYet, Ordered, SoundInv, RiskInv, RiskTypeOK
  <2>4. Treated(k)'
    BY <2>2, <2>3 DEF Treated, OrdersKept
  <2> QED
    BY <2>0, <2>2, <2>4, NextIsSound
<1> QED
  BY <1>1, <1>2

\* A purchase that ends: for lack of room, for a size below one share, for too many
\* open orders, or because enough is bought.
LEMMA BuyEndIsSound ==
  ASSUME SoundInv, RiskInv', NEW c \in 1 .. 6, BuyNoRoom(c) \/ BuyTooSmall(c) \/ BuyTooMany(c)
  PROVE  SoundInv'
<1>1. /\ mode = "buy" /\ Binding(c) /\ at \in DOMAIN req.candidates /\ req \in Request /\ Unfit = "none"
      /\ RiskTypeOK /\ This \in Symbols /\ at \in Nat
      /\ NextCandidate /\ req' = req /\ verdict' = verdict
  <2>1. mode = "buy" /\ Binding(c) /\ NextCandidate /\ req' = req /\ verdict' = verdict
    BY DEF BuyNoRoom, BuyTooSmall, BuyTooMany
  <2>2. at \in DOMAIN req.candidates /\ req \in Request /\ Unfit = "none" /\ RiskTypeOK /\ at \in Nat
    BY <2>1 DEF SoundInv, RiskInv, RiskTypeOK, AtWork
  <2> QED
    BY <2>1, <2>2, CurrentParts
<1>0. PICK k \in DOMAIN req.candidates : k = at
  BY <1>1
<1>2. NoneYet <=> ~ Ordered(k)
  BY <1>0 DEF NoneYet, Ordered
<1>3. ASSUME OrdersKept, NotesKept, Ordered(k)' \/ Noted(k)'
      PROVE  SoundInv'
  <2>1. Treated(k)'
    BY <1>3 DEF Treated
  <2> QED
    BY <1>0, <1>1, <1>3, <2>1, NextIsSound
<1>4. CASE BuyNoRoom(c)
  <2>1. orders' = orders
    BY <1>4 DEF BuyNoRoom
  <2>2. OrdersKept
    BY <1>1, <2>1, NoneWritten
  <2>3. CASE ~ NoneYet
    <3>1. shortages' = shortages
      BY <1>4, <2>3 DEF BuyNoRoom
    <3>2. Ordered(k)'
      BY <1>0, <1>1, <1>2, <2>2, <2>3 DEF OrdersKept
    <3> QED
      BY <1>3, <2>2, <3>1, <3>2, NothingNoted
  <2>4. CASE NoneYet
    <3> DEFINE e == [candidate |-> at, symbol |-> This, rule |-> Caps(This)[c].rule]
    <3>1. shortages' = Append(shortages, e)
      BY <1>4, <2>4 DEF BuyNoRoom
    <3>2. e \in Shortage /\ e.candidate = at
      BY <1>1, CapsAreRules DEF Shortage
    <3>3. shortages \in Seq(Shortage)
      BY DEF SoundInv, Behind
    <3> HIDE DEF e
    <3>4. /\ shortages' \in Seq(Shortage) /\ DOMAIN shortages = 1 .. Len(shortages) /\ Len(shortages) \in Nat
          /\ DOMAIN shortages' = 1 .. Len(shortages) + 1
          /\ \A i \in 1 .. Len(shortages) : shortages'[i] = shortages[i]
          /\ shortages'[Len(shortages) + 1] = e /\ Len(shortages) + 1 \in 1 .. Len(shortages) + 1
      BY <3>1, <3>2, <3>3, OneMore
    <3>5. Noted(k)'
      BY <1>0, <1>1, <3>2, <3>4 DEF Noted
    <3>6. DOMAIN shortages \subseteq DOMAIN shortages'
      BY <3>4
    <3>7. NotesKept
      BY <3>4, <3>6 DEF NotesKept, Noted
    <3> QED
      BY <1>3, <2>2, <3>5, <3>7
  <2> QED
    BY <2>3, <2>4
<1>5. ASSUME shortages' = shortages, NEW r \in Rejects, NEW f \in SUBSET Rules, r # "none",
             r \in CapRules => r \notin f,
             orders' = IF NoneYet THEN Written(0, r, f) ELSE orders
      PROVE  SoundInv'
  BY <1>1, <1>5, LeftIsSound
<1>6. CASE BuyTooMany(c)
  <2>1. /\ shortages' = shortages
        /\ orders' = IF NoneYet THEN Written(0, "RISK_OPEN_ORDERS", BuyFailures(LimitPrice)) ELSE orders
    BY <1>6 DEF BuyTooMany
  <2>2. "RISK_OPEN_ORDERS" \in Rejects /\ "RISK_OPEN_ORDERS" \notin CapRules
    BY DEF Rejects, Rules, CapRules
  <2> QED
    BY <1>5, <2>1, <2>2, CapsAreRules
<1>7. CASE BuyTooSmall(c)
  <2> DEFINE r == IF PerOrder = 0 THEN "RISK_ORDER_AMOUNT" ELSE Caps(This)[c].rule
  <2>1. /\ shortages' = shortages
        /\ orders' = IF NoneYet THEN Written(0, r, BuyFailures(LimitPrice)) ELSE orders
    BY <1>7 DEF BuyTooSmall
  <2>2. /\ \A d \in 1 .. 6 : Caps(This)[d].rule \in CapRules
        /\ BuyFailures(LimitPrice) \in SUBSET Rules
    BY CapsAreRules
  <2>3. r \in Rejects /\ r # "none"
    BY <2>2 DEF Rejects, Rules, CapRules
  <2>4. PerOrder # 0 => r \notin BuyFailures(LimitPrice)
    <3> SUFFICES ASSUME PerOrder # 0 PROVE r \notin BuyFailures(LimitPrice)
      OBVIOUS
    <3>1. Lots(Caps(This)[c].room, LimitPrice) # 0
      BY <1>7 DEF BuyTooSmall, NoShareFits
    <3>2. LimitPrice \in Nat \ {0} /\ \A d \in 1 .. 6 : Caps(This)[d].room \in Int
      BY <1>1, RequestParts, RoomNumbers DEF LimitPrice
    <3>3. LimitPrice <= Caps(This)[c].room
      <4> DEFINE n == Lots(Caps(This)[c].room, LimitPrice)
      <4>0. Caps(This)[c].room \in Int
        BY <3>2
      <4>1. n \in Nat /\ n > 0 /\ LimitPrice * n <= Caps(This)[c].room
        <5>1. n \in Nat /\ (n > 0 => LimitPrice * n <= Caps(This)[c].room)
          BY <3>2, <4>0, LotsCost
        <5>2. n # 0
          BY <3>1
        <5> HIDE DEF n
        <5> QED
          BY <5>1, <5>2
      <4> HIDE DEF n
      <4>2. LimitPrice * 1 \in Nat /\ LimitPrice * 1 <= LimitPrice * n /\ LimitPrice * n \in Nat
        BY <3>2, <4>1, FewerCostLess, ProductIsNat
      <4>3. LimitPrice * 1 = LimitPrice
        BY <3>2
      <4> QED
        BY <3>2, <4>0, <4>1, <4>2, <4>3
    <3>4. \A d \in 1 .. 6 : ~ (LimitPrice > Caps(This)[d].room)
      BY <1>1, <3>2, <3>3 DEF Binding
    <3>5. BuyFailures(LimitPrice) \subseteq {"RISK_ORDER_AMOUNT", "RISK_OPEN_ORDERS", "RISK_ORDER_PRICE_BAND"}
      BY <3>4 DEF BuyFailures
    <3>6. r \in CapRules
      BY <2>2
    <3> QED
      BY <3>5, <3>6 DEF CapRules
  <2>5. PerOrder = 0 => r \notin CapRules
    BY DEF CapRules
  <2> HIDE DEF r
  <2> QED
    BY <1>5, <2>1, <2>2, <2>3, <2>4, <2>5
<1> QED
  BY <1>4, <1>6, <1>7

\* Enough is bought: there is an order, or nothing was wanted.
LEMMA BuyEnoughIsSound ==
  ASSUME SoundInv, RiskInv', BuyEnough
  PROVE  SoundInv'
<1>1. /\ mode = "buy" /\ remaining <= 0 /\ at \in DOMAIN req.candidates /\ at \in Nat
      /\ NextCandidate /\ UNCHANGED <<req, verdict, orders, shortages>>
  BY DEF BuyEnough, outVars, SoundInv, RiskInv, RiskTypeOK
<1>2. OrdersKept /\ NotesKept
  BY <1>1, NoneWritten, NothingNoted
<1>0. PICK k \in DOMAIN req.candidates : k = at
  BY <1>1
<1>3. Treated(k)'
  <2>1. CASE Ordered(k)
    BY <1>0, <1>1, <1>2, <2>1 DEF Treated, OrdersKept
  <2>2. CASE ~ Ordered(k)
    <3>1. NoneYet
      BY <1>0, <2>2 DEF NoneYet, Ordered
    <3>2. Part("symbol") - LimitPrice * req.held[This] <= 0
      BY <1>1, <3>1 DEF SoundInv, AtWork
    <3>3. Current.side # "sell"
      BY <1>1 DEF SoundInv, AtWork
    <3> QED
      BY <1>0, <1>1, <3>2, <3>3 DEF Treated, AsksForNothing, Part, LimitPrice, This, Current
  <2> QED
    BY <2>1, <2>2
<1> QED
  BY <1>0, <1>1, <1>2, <1>3, NextIsSound
-----------------------------------------------------------------------------
\* The sizes of a sale are numbers.
LEMMA SaleNumbers ==
  ASSUME RiskInv, at \in DOMAIN req.candidates
  PROVE  /\ This \in Symbols /\ Sellable \in Nat /\ PerOrder \in Nat /\ sold \in Nat
         /\ req.held[This] \in Nat /\ Part("order") \in Nat /\ at \in Nat /\ req \in Request
<1>1. req \in Request /\ at \in Nat /\ sold \in Nat /\ This \in Symbols
  BY CurrentParts DEF RiskInv, RiskTypeOK
<1>2. Part("order") \in Nat
  BY <1>1, PartIsNat DEF LimitNames
<1>3. LimitPrice \in Nat \ {0} /\ Sellable \in Nat /\ req.held[This] \in Nat
  BY <1>1, RequestParts DEF LimitPrice, Sellable, Smaller
<1>4. PerOrder \in Nat
  BY <1>2, <1>3, LotsCost DEF PerOrder
<1> QED
  BY <1>1, <1>2, <1>3, <1>4

\* The failures of a sale are none of the six limits of a purchase.
LEMMA SaleRules ==
  /\ \A q : SellFailures(q) \in SUBSET Rules
  /\ \A r \in {"RISK_OPEN_ORDERS", "RISK_ORDER_AMOUNT", "RISK_ORDERABLE_QUANTITY", "DATA_STALE",
             "SYMBOL_SUSPENDED", "RISK_ORDER_PRICE_BAND"} : r \in Rejects /\ r \notin CapRules /\ r # "none"
<1>1. \A q : SellFailures(q) \in SUBSET Rules
  BY DEF SellFailures, Rules
<1>2. \A r \in {"RISK_OPEN_ORDERS", "RISK_ORDER_AMOUNT", "RISK_ORDERABLE_QUANTITY", "DATA_STALE",
             "SYMBOL_SUSPENDED", "RISK_ORDER_PRICE_BAND"} : r \in Rejects /\ r \notin CapRules /\ r # "none"
  BY DEF Rejects, Rules, CapRules
<1> QED
  BY <1>1, <1>2

\* The place in the list of a candidate that is taken up.
LEMMA PlaceInList ==
  ASSUME RiskInv, at <= Len(req.candidates)
  PROVE  at \in DOMAIN req.candidates
<1>1. req.candidates \in Seq(Candidate) /\ at \in Nat \ {0}
  BY RequestParts DEF RiskInv, RiskTypeOK
<1> QED
  BY <1>1

\* An unfit candidate is rejected.
LEMMA RefuseIsSound ==
  ASSUME SoundInv, RiskInv', Refuse
  PROVE  SoundInv'
<1>1. /\ at \in DOMAIN req.candidates /\ Unfit # "none" /\ NextCandidate
      /\ UNCHANGED <<req, verdict, shortages>> /\ orders' = Written(0, Unfit, {})
  BY PlaceInList DEF Refuse, SoundInv
<1>2. Unfit \in {"DATA_STALE", "SYMBOL_SUSPENDED", "RISK_ORDER_PRICE_BAND", "none"}
  BY DEF Unfit
<1>3. Unfit \in Rejects /\ {} \in SUBSET Rules
  BY <1>1, <1>2, SaleRules
<1> QED
  BY <1>1, <1>3, RejectedIsSound

\* Before the first order of a candidate nothing is written.
LEMMA TakeUpIsSound ==
  ASSUME SoundInv, RiskInv', TakeUpBuy \/ TakeUpSell
  PROVE  SoundInv'
<1>1. /\ mode = "pick" /\ mode' \in {"buy", "sell"} /\ Unfit = "none" /\ Current.side = mode'
      /\ UNCHANGED <<req, at, sold, verdict, orders, shortages>> /\ sold = 0
  BY DEF TakeUpBuy, TakeUpSell, outVars, SoundInv, AtWork
<1>2. OrdersKept /\ NotesKept
  BY <1>1, NoneWritten, NothingNoted
<1>3. /\ Current' = Current /\ This' = This /\ Unfit' = Unfit /\ LimitPrice' = LimitPrice
      /\ Sellable' = Sellable /\ PerOrder' = PerOrder /\ req' = req /\ Part("symbol")' = Part("symbol")
  BY <1>1 DEF Current, This, Unfit, LimitPrice, Price, BandHolds, Sellable, PerOrder, Part
<1>4. CASE TakeUpBuy
  <2>1. mode' = "buy" /\ remaining' = Part("symbol") - LimitPrice * req.held[This]
    BY <1>4 DEF TakeUpBuy
  <2>2. AtWork'
    BY <1>1, <1>3, <2>1 DEF AtWork
  <2> QED
    BY <1>1, <1>2, <2>2, StayIsSound
<1>5. CASE TakeUpSell
  <2>1. mode' = "sell" /\ Sellable > 0 /\ PerOrder > 0
    BY <1>5 DEF TakeUpSell
  <2>2. AtWork'
    BY <1>1, <1>3, <2>1 DEF AtWork
  <2> QED
    BY <1>1, <1>2, <2>2, StayIsSound
<1> QED
  BY <1>4, <1>5

\* What is not held needs no sale; what is held and cannot be sold is rejected.
LEMMA SellNothingIsSound ==
  ASSUME SoundInv, RiskInv', SellNothing
  PROVE  SoundInv'
<1>1. /\ at \in DOMAIN req.candidates /\ NextCandidate /\ Current.side = "sell"
      /\ UNCHANGED <<req, verdict, shortages>>
  BY PlaceInList DEF SellNothing, SoundInv
<1>0. PICK k \in DOMAIN req.candidates : k = at
  BY <1>1
<1>2. CASE req.held[This] = 0
  <2>1. orders' = orders
    BY <1>2 DEF SellNothing
  <2>2. OrdersKept /\ NotesKept
    BY <1>1, <2>1, NoneWritten, NothingNoted
  <2>3. AsksForNothing(k)'
    BY <1>0, <1>1, <1>2 DEF AsksForNothing, This, Current
  <2> QED
    BY <1>0, <1>1, <2>2, <2>3, NextIsSound DEF Treated
<1>3. CASE req.held[This] # 0
  <2> DEFINE r == IF Sellable = 0 THEN "RISK_ORDERABLE_QUANTITY" ELSE "RISK_ORDER_AMOUNT"
  <2>1. orders' = Written(0, r, SellFailures(0))
    BY <1>3 DEF SellNothing
  <2>2. r \in Rejects /\ r \notin CapRules /\ r # "none" /\ SellFailures(0) \in SUBSET Rules
    BY SaleRules
  <2> HIDE DEF r
  <2> QED
    BY <1>1, <2>1, <2>2, RejectedIsSound
<1> QED
  BY <1>2, <1>3

\* A sale that ends: for too many open orders, or because all is offered.
LEMMA SellEndIsSound ==
  ASSUME SoundInv, RiskInv', SellTooMany \/ SellEnough
  PROVE  SoundInv'
<1>1. /\ mode = "sell" /\ at \in DOMAIN req.candidates /\ RiskInv /\ NextCandidate
      /\ UNCHANGED <<req, verdict, shortages>>
  BY DEF SellTooMany, SellEnough, outVars, SoundInv, RiskInv
<1>2. CASE SellTooMany
  <2>1. orders' = IF NoneYet THEN Written(0, "RISK_OPEN_ORDERS", SellFailures(0)) ELSE orders
    BY <1>2 DEF SellTooMany
  <2> QED
    BY <1>1, <2>1, SaleRules, LeftIsSound
<1>3. CASE SellEnough
  <2>1. orders' = orders /\ sold >= Sellable
    BY <1>3 DEF SellEnough, outVars
  <2>2. ~ NoneYet
    BY <1>1, <2>1, SaleNumbers DEF SoundInv, AtWork
  <2>3. orders' = IF NoneYet THEN Written(0, "RISK_OPEN_ORDERS", SellFailures(0)) ELSE orders
    BY <2>1, <2>2
  <2> QED
    BY <1>1, <2>3, SaleRules, LeftIsSound
<1> QED
  BY <1>2, <1>3

\* An order that is sold has no failed decision.
LEMMA SellOrderIsSound ==
  ASSUME SoundInv, RiskInv', SellOrder
  PROVE  SoundInv'
<1> DEFINE q == SellQuantity
<1>1. /\ mode = "sell" /\ sold < Sellable /\ ~ TooMany /\ at \in DOMAIN req.candidates
      /\ RiskInv /\ Unfit = "none" /\ Current.side = mode /\ Sellable > 0 /\ PerOrder > 0
      /\ UNCHANGED <<req, mode, at, shortages, verdict>> /\ orders' = Written(q, "none", SellFailures(q))
  BY DEF SellOrder, SoundInv, RiskInv, AtWork
<1>2. /\ This \in Symbols /\ Sellable \in Nat /\ PerOrder \in Nat /\ sold \in Nat
      /\ Part("order") \in Nat /\ req \in Request
  BY <1>1, SaleNumbers
<1>3. q \in Nat /\ q > 0 /\ q <= PerOrder /\ sold + q <= Sellable
  BY <1>1, <1>2 DEF SellQuantity, Smaller
<1> HIDE DEF q
<1>4. LimitPrice * q \in Nat /\ LimitPrice * q <= Part("order")
  BY <1>2, <1>3, OrderSizeHolds
<1>5. req.quotes[This].state = "active" /\ BandHolds
  BY <1>1, <1>2, FitIsActive
<1>6. SellFailures(q) = {}
  <2>1. ~ (sold + q > Sellable)
    BY <1>2, <1>3
  <2>2. ~ (LimitPrice * q > Part("order"))
    BY <1>2, <1>4
  <2> QED
    BY <1>1, <1>5, <2>1, <2>2 DEF SellFailures
<1>7. "none" \in Rejects /\ "none" \notin CapRules /\ {} \in SUBSET Rules
  BY DEF Rejects, CapRules
<1>8. OrdersKept /\ \E i \in DOMAIN orders' : orders'[i].candidate = at
  BY <1>1, <1>3, <1>4, <1>5, <1>6, <1>7, OrderWritten
<1>9. AtWork'
  <2>1. ~ NoneYet'
    BY <1>1, <1>8 DEF NoneYet
  <2>2. /\ Current' = Current /\ Unfit' = Unfit /\ Sellable' = Sellable /\ PerOrder' = PerOrder
        /\ mode' = mode
    BY <1>1 DEF Current, This, Unfit, LimitPrice, Price, BandHolds, Sellable, PerOrder, Part
  <2> QED
    BY <1>1, <2>1, <2>2 DEF AtWork
<1> QED
  BY <1>1, <1>8, <1>9, NothingNoted, StayIsSound

\* The gate, the counting of the exposure and the end of the list write no order.
LEMMA OtherIsSound ==
  ASSUME SoundInv, RiskInv', Gate \/ Seeded \/ Finish \/ \E x \in Symbols : Seed(x)
  PROVE  SoundInv'
<1>1. /\ mode \in {"gate", "seed", "pick"} /\ mode' \in {"seed", "pick", "done"}
      /\ UNCHANGED <<req, at, sold, orders, shortages>> /\ sold = 0
  BY DEF Gate, Seeded, Finish, Seed, outVars, SoundInv, AtWork
<1>2. OrdersKept /\ NotesKept
  BY <1>1, NoneWritten, NothingNoted
<1>3. AtWork'
  BY <1>1 DEF AtWork
<1>4. mode' \in {"gate", "seed"} => at' = 1
  BY <1>1 DEF Gate, Seeded, Finish, Seed, SoundInv, Behind
<1>5. mode' = "done" /\ verdict'.block = "none" => at > Len(req.candidates)
  <2>1. CASE Gate
    BY <2>1 DEF Gate
  <2>2. CASE Finish
    <3>1. at \in Nat /\ Len(req.candidates) \in Nat
      <4>1. req.candidates \in Seq(Candidate) /\ at \in Nat
        BY RequestParts DEF SoundInv, RiskInv, RiskTypeOK
      <4> QED
        BY <4>1
    <3> QED
      BY <2>2, <3>1 DEF Finish
  <2>3. CASE Seeded
    BY <2>3 DEF Seeded
  <2>4. CASE \E x \in Symbols : Seed(x)
    BY <2>4 DEF Seed
  <2> QED
    BY <2>1, <2>2, <2>3, <2>4
<1>6. \A c \in DOMAIN req.candidates : c < at => Treated(c)'
  BY <1>1, <1>2, BehindStays DEF SoundInv, Behind
<1>7. Behind'
  BY <1>1, <1>2, <1>4, <1>5, <1>6 DEF Behind, NotesKept
<1> QED
  BY <1>2, <1>3, <1>7 DEF SoundInv, OrdersKept

\* The first state.
LEMMA InitIsSound ==
  ASSUME RiskInit
  PROVE  SoundInv
<1>1. /\ RiskInv /\ mode = "gate" /\ at = 1 /\ sold = 0 /\ orders = <<>> /\ shortages = <<>>
  BY InitInv DEF RiskInit
<1>2. req.candidates \in Seq(Candidate)
  BY <1>1, RequestParts DEF RiskInv, RiskTypeOK
<1>3. Decisions /\ AtWork
  BY <1>1 DEF Decisions, AtWork
<1>4. \A c \in DOMAIN req.candidates : ~ (c < 1)
  BY <1>2
<1>5. Behind
  BY <1>1, <1>4 DEF Behind
<1> QED
  BY <1>1, <1>3, <1>5 DEF SoundInv

\* Every step keeps the rows and the place of the evaluation in order.
LEMMA NextSound ==
  ASSUME SoundInv, [RiskNext]_riskVars
  PROVE  SoundInv'
<1>1. RiskInv'
  BY NextInv DEF SoundInv
<1>2. CASE RiskNext
  <2>1. \/ Gate \/ Seeded \/ Finish \/ \E x \in Symbols : Seed(x)
        \/ Refuse \/ TakeUpBuy \/ TakeUpSell \/ BuyEnough
        \/ SellNothing \/ SellTooMany \/ SellOrder \/ SellEnough
        \/ \E c \in 1 .. 6 : BuyNoRoom(c) \/ BuyTooSmall(c) \/ BuyTooMany(c)
        \/ \E c \in 1 .. 6 : BuyOrder(c)
    BY <1>2, Zenon DEF RiskNext
  <2>2. CASE Gate \/ Seeded \/ Finish \/ \E x \in Symbols : Seed(x)
    BY <1>1, <2>2, OtherIsSound
  <2>3. CASE Refuse
    BY <1>1, <2>3, RefuseIsSound
  <2>4. CASE TakeUpBuy \/ TakeUpSell
    BY <1>1, <2>4, TakeUpIsSound
  <2>5. CASE BuyEnough
    BY <1>1, <2>5, BuyEnoughIsSound
  <2>6. CASE SellNothing
    BY <1>1, <2>6, SellNothingIsSound
  <2>7. CASE SellTooMany \/ SellEnough
    BY <1>1, <2>7, SellEndIsSound
  <2>8. CASE SellOrder
    BY <1>1, <2>8, SellOrderIsSound
  <2>9. CASE \E c \in 1 .. 6 : BuyNoRoom(c) \/ BuyTooSmall(c) \/ BuyTooMany(c)
    BY <1>1, <2>9, BuyEndIsSound
  <2>10. CASE \E c \in 1 .. 6 : BuyOrder(c)
    BY <1>1, <2>10, BuyOrderIsSound
  <2> QED
    BY <2>1, <2>2, <2>3, <2>4, <2>5, <2>6, <2>7, <2>8, <2>9, <2>10
<1>3. CASE UNCHANGED riskVars
  <2>1. UNCHANGED <<req, mode, at, remaining, sold, orders, shortages, verdict>>
    BY <1>3 DEF riskVars, evalVars, outVars
  <2>2. OrdersKept /\ NotesKept
    BY <2>1, NoneWritten, NothingNoted
  <2>3. AtWork'
    <3>1. /\ Current' = Current /\ This' = This /\ Unfit' = Unfit /\ LimitPrice' = LimitPrice
          /\ Sellable' = Sellable /\ PerOrder' = PerOrder /\ Part("symbol")' = Part("symbol")
      BY <2>1 DEF Current, This, Unfit, LimitPrice, Price, BandHolds, Sellable, PerOrder, Part
    <3>2. NoneYet' = NoneYet
      BY <2>1 DEF NoneYet
    <3> QED
      BY <2>1, <3>1, <3>2, SMTT(20) DEF SoundInv, AtWork
  <2>4. \A c \in DOMAIN req.candidates : c < at => Treated(c)'
    BY <2>1, <2>2, BehindStays DEF SoundInv, Behind
  <2>5. Behind'
    BY <2>1, <2>2, <2>4, SMTT(20) DEF SoundInv, Behind, NotesKept
  <2> QED
    BY <1>1, <2>2, <2>3, <2>5 DEF SoundInv, OrdersKept
<1> QED
  BY <1>2, <1>3

-----------------------------------------------------------------------------
(* What a plan offers for sale.                                          *)

\* The shares of x that each order of a list sells.
Sales(list, x) ==
  [i \in DOMAIN list |-> IF list[i].symbol = x /\ list[i].side = "sell" THEN list[i].quantity ELSE 0]

Sold(list, x) == Total(Sales(list, x), DOMAIN list)

\* Every row belongs to a candidate that was taken up; the one at work, if it sells, has
\* offered what it counts; and no share is offered twice.
SalesInv ==
  /\ req \in PlanRequests
  /\ \A i \in DOMAIN orders :
       /\ orders[i].candidate \in DOMAIN req.candidates
       /\ orders[i].symbol = req.candidates[orders[i].candidate].symbol
       /\ orders[i].candidate < at \/ (orders[i].candidate = at /\ mode \in {"buy", "sell"})
  /\ mode = "sell" => Sold(orders, This) = sold /\ sold <= Sellable
  /\ \A x \in Symbols : Sold(orders, x) <= Smaller(req.held[x], req.orderable[x])

\* The library's sum of the sales is theirs.
LEMMA OfferedIsSold ==
  ASSUME NEW x
  PROVE  Offered(x) = Sold(orders, x)
<1>1. DOMAIN Sales(orders, x) = DOMAIN orders
  BY DEF Sales
<1> QED
  BY <1>1 DEF Offered, Sold, Sales, SumFunction, Total

\* One more row.
LEMMA SoldOneMore ==
  ASSUME NEW list \in Seq(OrderRow), NEW o \in OrderRow, NEW x
  PROVE  /\ Sold(list, x) \in Nat
         /\ Sold(Append(list, o), x) = Sold(list, x) + (IF o.symbol = x /\ o.side = "sell" THEN o.quantity ELSE 0)
<1> DEFINE n == Len(list)
           more == Append(list, o)
           last == IF o.symbol = x /\ o.side = "sell" THEN o.quantity ELSE 0
           f == Sales(list, x)
           g == Sales(more, x)
<1>1. /\ n \in Nat /\ DOMAIN list = 1 .. n /\ DOMAIN more = 1 .. n + 1 /\ more[n + 1] = o
      /\ \A i \in 1 .. n : more[i] = list[i]
  BY OneMore
<1>2. \A i \in 1 .. n : list[i] \in OrderRow
  BY <1>1
<1>3. last \in Nat /\ \A i \in 1 .. n : f[i] \in Nat
  BY <1>1, <1>2 DEF Sales, OrderRow
<1>4. /\ \A i \in 1 .. n : g[i] = f[i]
      /\ g[n + 1] = last
  BY <1>1 DEF Sales
<1>5. IsFiniteSet(1 .. n) /\ n + 1 \notin 1 .. n /\ (1 .. n) \cup {n + 1} = 1 .. n + 1
  <2> HIDE DEF n
  <2>1. n \in Int /\ 1 \in Int
    BY <1>1
  <2>2. IsFiniteSet(1 .. n)
    BY <2>1, FS_Interval
  <2>3. n + 1 \notin 1 .. n /\ (1 .. n) \cup {n + 1} = 1 .. n + 1
    BY <1>1
  <2> QED
    BY <2>2, <2>3
<1> HIDE DEF n, more, last, f, g
<1>6. Total(f, 1 .. n) \in Nat
  BY <1>3, <1>5, SumNat
<1>7. Total(g, 1 .. n) = Total(f, 1 .. n)
  BY <1>3, <1>4, <1>5, SumSame
<1>8. Total(g, (1 .. n) \cup {n + 1}) = g[n + 1] + Total(g, 1 .. n)
  <2>1. g[n + 1] \in Int /\ \A i \in 1 .. n : g[i] \in Int
    BY <1>3, <1>4
  <2> QED
    BY <1>5, <2>1, SumOneMore
<1>9. Sold(list, x) = Total(f, 1 .. n) /\ Sold(more, x) = Total(g, 1 .. n + 1)
  BY <1>1 DEF Sold, f, g
<1>10. Sold(list, x) \in Nat /\ Sold(more, x) = Sold(list, x) + last
  <2>1. Total(g, 1 .. n + 1) = last + Total(f, 1 .. n)
    BY <1>4, <1>5, <1>7, <1>8
  <2> QED
    BY <1>3, <1>6, <1>9, <2>1
<1> QED
  BY <1>10 DEF last, more

\* The place of the work goes on, and stays with the candidate while it buys or sells.
Onward == at' = at + 1 \/ (at' = at /\ (mode \in {"buy", "sell"} => mode' \in {"buy", "sell"}))

\* The rows as they were belong to candidates that were taken up.
LEMMA OldRowsBelong ==
  ASSUME SoundInv, SalesInv, req' = req, Onward, NEW i \in DOMAIN orders
  PROVE  /\ orders[i].candidate \in DOMAIN req'.candidates
         /\ orders[i].symbol = req'.candidates[orders[i].candidate].symbol
         /\ orders[i].candidate < at' \/ (orders[i].candidate = at' /\ mode' \in {"buy", "sell"})
<1>1. at \in Nat /\ req.candidates \in Seq(Candidate)
  BY RequestParts DEF SoundInv, RiskInv, RiskTypeOK
<1>2. /\ orders[i].candidate \in DOMAIN req.candidates
      /\ orders[i].symbol = req.candidates[orders[i].candidate].symbol
      /\ orders[i].candidate < at \/ (orders[i].candidate = at /\ mode \in {"buy", "sell"})
  BY DEF SalesInv
<1>3. orders[i].candidate \in Nat
  BY <1>1, <1>2
<1> QED
  BY <1>1, <1>2, <1>3 DEF Onward

\* Nothing is written, and the candidate at work sells nothing yet, or counts as before.
LEMMA SalesStay ==
  ASSUME SoundInv, SalesInv, req' = req, orders' = orders, Onward,
         mode' = "sell" => at' = at /\ sold' = sold /\ Sold(orders, This) = sold /\ sold <= Sellable
  PROVE  SalesInv'
<1>1. \A i \in DOMAIN orders' :
        /\ orders'[i].candidate \in DOMAIN req'.candidates
        /\ orders'[i].symbol = req'.candidates[orders'[i].candidate].symbol
        /\ orders'[i].candidate < at' \/ (orders'[i].candidate = at' /\ mode' \in {"buy", "sell"})
  BY OldRowsBelong
<1>2. mode' = "sell" => Sold(orders', This') = sold' /\ sold' <= Sellable'
  BY DEF This, Current, Sellable
<1>3. \A x \in Symbols : Sold(orders', x) <= Smaller(req'.held[x], req'.orderable[x])
  BY DEF SalesInv
<1>4. req' \in PlanRequests
  BY DEF SalesInv
<1>5. \A x : Sold(orders, x)' = Sold(orders', x)
  BY DEF Sold, Sales
<1> QED
  BY <1>1, <1>2, <1>3, <1>4, <1>5 DEF SalesInv

\* A row is written for the candidate at work.
LEMMA SalesWritten ==
  ASSUME SoundInv, SalesInv, req' = req, Onward, at \in DOMAIN req.candidates,
         NEW q \in Nat, NEW r \in Rejects, NEW f \in SUBSET Rules, orders' = Written(q, r, f),
         at' = at => mode' \in {"buy", "sell"},
         Current.side = "sell" => q = 0 \/ (mode = "sell" /\ sold + q <= Sellable),
         mode' = "sell" => at' = at /\ mode = "sell" /\ Current.side = "sell" /\ sold' = sold + q
                           /\ sold + q <= Sellable
  PROVE  SalesInv'
<1> DEFINE price == IF req.quotes[This].state = "missing" THEN 0 ELSE LimitPrice
           o == [candidate |-> at, sequence |-> Len(orders) + 1, symbol |-> This, side |-> Current.side,
                 quantity |-> q, price |-> price, reject |-> r, failed |-> f]
<1>1. /\ orders \in Seq(OrderRow) /\ req \in Request /\ at \in Nat /\ sold \in Nat /\ Sellable \in Nat
      /\ This \in Symbols
  BY SaleNumbers DEF SoundInv, Decisions
<1>2. o \in OrderRow
  <2>1. Current.side \in {"buy", "sell"} /\ Len(orders) + 1 \in Nat
    BY <1>1, CurrentParts DEF Candidate
  <2>2. price \in Nat
    BY <1>1, RequestParts DEF LimitPrice
  <2> HIDE DEF price
  <2> QED
    BY <1>1, <2>1, <2>2 DEF OrderRow
<1>3. /\ orders' = Append(orders, o) /\ o.candidate = at /\ o.symbol = This /\ o.side = Current.side
      /\ o.quantity = q
  BY DEF Written
<1> HIDE DEF o
<1>4. /\ DOMAIN orders = 1 .. Len(orders) /\ DOMAIN orders' = 1 .. Len(orders) + 1 /\ Len(orders) \in Nat
      /\ \A i \in 1 .. Len(orders) : orders'[i] = orders[i]
      /\ orders'[Len(orders) + 1] = o
  BY <1>1, <1>2, <1>3, OneMore
<1>5. ASSUME NEW i \in DOMAIN orders'
      PROVE  /\ orders'[i].candidate \in DOMAIN req'.candidates
             /\ orders'[i].symbol = req'.candidates[orders'[i].candidate].symbol
             /\ orders'[i].candidate < at' \/ (orders'[i].candidate = at' /\ mode' \in {"buy", "sell"})
  <2>1. CASE i \in DOMAIN orders
    BY <1>4, <2>1, OldRowsBelong
  <2>2. CASE i = Len(orders) + 1
    BY <1>1, <1>3, <1>4, <2>2 DEF This, Current, Onward
  <2> QED
    BY <1>4, <2>1, <2>2
<1>6. \A x : /\ Sold(orders, x) \in Nat
             /\ Sold(orders', x) = Sold(orders, x) + (IF This = x /\ Current.side = "sell" THEN q ELSE 0)
  BY <1>1, <1>2, <1>3, SoldOneMore
<1>7. mode' = "sell" => Sold(orders', This') = sold' /\ sold' <= Sellable'
  <2>1. SUFFICES ASSUME mode' = "sell" PROVE Sold(orders', This') = sold' /\ sold' <= Sellable'
    OBVIOUS
  <2>2. This' = This /\ Sellable' = Sellable /\ Sold(orders, This) = sold /\ sold' = sold + q
    BY <2>1 DEF This, Current, Sellable, SalesInv
  <2>3. Sold(orders', This) = sold + q
    BY <1>6, <2>1, <2>2
  <2> QED
    BY <2>1, <2>2, <2>3
<1>8. ASSUME NEW x \in Symbols
      PROVE  Sold(orders', x) <= Smaller(req'.held[x], req'.orderable[x])
  <2>1. Sold(orders, x) <= Smaller(req.held[x], req.orderable[x])
    BY DEF SalesInv
  <2>2. CASE This = x /\ Current.side = "sell" /\ q # 0
    <3>1. Sold(orders, x) = sold /\ sold + q <= Sellable
      BY <2>2 DEF SalesInv
    <3> QED
      BY <1>6, <2>2, <3>1 DEF Sellable
  <2>3. CASE ~ (This = x /\ Current.side = "sell") \/ q = 0
    <3>1. Sold(orders', x) = Sold(orders, x)
      BY <1>6, <2>3
    <3> QED
      BY <2>1, <3>1
  <2> QED
    BY <2>2, <2>3
<1>9. req' \in PlanRequests
  BY DEF SalesInv
<1>10. \A x : Sold(orders, x)' = Sold(orders', x)
  BY DEF Sold, Sales
<1> QED
  BY <1>5, <1>7, <1>8, <1>9, <1>10 DEF SalesInv

\* A candidate that begins to sell has offered nothing yet.
LEMMA NothingSoldYet ==
  ASSUME SoundInv, SalesInv, mode = "pick", at \in DOMAIN req.candidates
  PROVE  Sold(orders, This) = 0
<1>1. at \in Nat /\ req \in PlanRequests /\ req.candidates \in Seq(Candidate) /\ orders \in Seq(OrderRow)
  BY RequestParts DEF SoundInv, RiskInv, RiskTypeOK, SalesInv, Decisions
<1>2. ASSUME NEW i \in DOMAIN orders
      PROVE  orders[i].symbol # This
  <2>1. PICK c \in DOMAIN req.candidates : c = orders[i].candidate
    BY DEF SalesInv
  <2>2. orders[i].symbol = req.candidates[c].symbol /\ c < at
    BY <2>1 DEF SalesInv
  <2>3. c \in Nat
    BY <1>1, <2>1
  <2>4. c # at
    BY <1>1, <2>2, <2>3
  <2> QED
    BY <1>1, <2>2, <2>4, CandidatesAssumption DEF This, Current
<1>3. \A i \in DOMAIN orders : Sales(orders, This)[i] = 0
  BY <1>2 DEF Sales
<1>4. IsFiniteSet(DOMAIN orders)
  <2>1. DOMAIN orders = 1 .. Len(orders) /\ Len(orders) \in Int /\ 1 \in Int
    BY <1>1
  <2> QED
    BY <2>1, FS_Interval
<1> QED
  BY <1>3, <1>4, SumZero DEF Sold

\* Purchases, rejections and the way from candidate to candidate sell nothing.
LEMMA NoSaleKeepsSales ==
  ASSUME SoundInv, SalesInv, req' = req, Onward, mode' # "sell",
         \/ orders' = orders
         \/ /\ at \in DOMAIN req.candidates /\ (at' = at => mode' \in {"buy", "sell"})
            /\ \E q \in Nat, r \in Rejects, f \in SUBSET Rules :
                 orders' = Written(q, r, f) /\ (q = 0 \/ Current.side = "buy")
  PROVE  SalesInv'
<1>1. CASE orders' = orders
  BY <1>1, SalesStay
<1>2. CASE /\ at \in DOMAIN req.candidates /\ (at' = at => mode' \in {"buy", "sell"})
           /\ \E q \in Nat, r \in Rejects, f \in SUBSET Rules :
                orders' = Written(q, r, f) /\ (q = 0 \/ Current.side = "buy")
  <2>1. PICK q \in Nat, r \in Rejects, f \in SUBSET Rules :
          orders' = Written(q, r, f) /\ (q = 0 \/ Current.side = "buy")
    BY <1>2
  <2>2. Current.side = "sell" => q = 0
    BY <2>1
  <2> QED
    BY <1>2, <2>1, <2>2, SalesWritten
<1> QED
  BY <1>1, <1>2

\* A purchase has a size.
LEMMA BuyQuantityIsNat ==
  ASSUME SoundInv, at \in DOMAIN req.candidates, NEW c \in 1 .. 6
  PROVE  BuyQuantity(c) \in Nat
<1>1. req \in Request /\ This \in Symbols /\ RiskTypeOK /\ remaining \in Int
  BY CurrentParts DEF SoundInv, RiskInv, RiskTypeOK
<1>2. LimitPrice \in Nat \ {0} /\ Part("order") \in Int
  BY <1>1, RequestParts, PartIsNat, SMTT(20) DEF LimitPrice, LimitNames
<1>3. Caps(This)[c].room \in Int
  BY <1>1, RoomNumbers
<1>4. PerOrder \in Nat
  BY <1>2, LotsCost DEF PerOrder
<1>5. Smaller(remaining, Caps(This)[c].room) \in Int
  BY <1>1, <1>3 DEF Smaller
<1>6. Lots(Smaller(remaining, Caps(This)[c].room), LimitPrice) \in Nat
  BY <1>2, <1>5, LotsCost
<1> QED
  BY <1>4, <1>6 DEF BuyQuantity, Smaller

\* The steps that offer nothing for sale.
LEMMA QuietSales ==
  ASSUME SoundInv, SalesInv,
         \/ Gate \/ Seeded \/ Finish \/ \E x \in Symbols : Seed(x)
         \/ Refuse \/ TakeUpBuy \/ BuyEnough \/ SellNothing \/ SellTooMany \/ SellEnough
         \/ \E c \in 1 .. 6 : BuyNoRoom(c) \/ BuyTooSmall(c) \/ BuyTooMany(c) \/ BuyOrder(c)
  PROVE  SalesInv'
<1> DEFINE Wrote == \E q \in Nat, r \in Rejects, f \in SUBSET Rules :
                      orders' = Written(q, r, f) /\ (q = 0 \/ Current.side = "buy")
           Goal == /\ req' = req /\ Onward /\ mode' # "sell"
                   /\ \/ orders' = orders
                      \/ at \in DOMAIN req.candidates /\ (at' = at => mode' \in {"buy", "sell"}) /\ Wrote
<1>0. SUFFICES Goal
  BY NoSaleKeepsSales
<1>1. /\ at \in Nat /\ at + 1 # at
      /\ at <= Len(req.candidates) => at \in DOMAIN req.candidates
      /\ mode \in {"buy", "sell"} => at \in DOMAIN req.candidates
  BY PlaceInList DEF SoundInv, RiskInv, RiskTypeOK
<1>2. CASE Gate \/ Seeded \/ Finish \/ \E x \in Symbols : Seed(x)
  BY <1>2 DEF Gate, Seeded, Finish, Seed, outVars, Onward
<1>3. CASE TakeUpBuy
  BY <1>3 DEF TakeUpBuy, outVars, Onward
<1>4. CASE BuyEnough \/ SellEnough
  BY <1>4 DEF BuyEnough, SellEnough, NextCandidate, outVars, Onward
<1>5. ASSUME NEW r \in Rejects, NEW f \in SUBSET Rules, NextCandidate, req' = req,
             at \in DOMAIN req.candidates, orders' = orders \/ orders' = Written(0, r, f)
      PROVE  Goal
  <2>1. mode' = "pick" /\ at' = at + 1
    BY <1>5 DEF NextCandidate
  <2>2. orders' = orders \/ Wrote
    BY <1>5
  <2> HIDE DEF Wrote
  <2> QED
    BY <1>1, <1>5, <2>1, <2>2 DEF Onward
<1>6. /\ "RISK_OPEN_ORDERS" \in Rejects /\ "RISK_ORDER_AMOUNT" \in Rejects
      /\ "RISK_ORDERABLE_QUANTITY" \in Rejects /\ "none" \in Rejects
      /\ \A v : BuyFailures(v) \in SUBSET Rules
      /\ \A v : SellFailures(v) \in SUBSET Rules
      /\ \A d \in 1 .. 6 : Caps(This)[d].rule \in Rejects
      /\ {} \in SUBSET Rules
  BY SaleRules, CapsAreRules DEF Rejects, Rules
<1> HIDE DEF Goal, Wrote
<1>7. CASE Refuse
  <2>1. /\ NextCandidate /\ req' = req /\ at \in DOMAIN req.candidates /\ orders' = Written(0, Unfit, {})
    BY <1>1, <1>7 DEF Refuse
  <2>2. Unfit \in Rejects
    BY DEF Unfit, Rejects, Rules
  <2> QED
    BY <1>5, <1>6, <2>1, <2>2
<1>8. CASE SellNothing
  <2> DEFINE r == IF Sellable = 0 THEN "RISK_ORDERABLE_QUANTITY" ELSE "RISK_ORDER_AMOUNT"
  <2>1. /\ NextCandidate /\ req' = req /\ at \in DOMAIN req.candidates
        /\ orders' = orders \/ orders' = Written(0, r, SellFailures(0))
    BY <1>1, <1>8 DEF SellNothing
  <2>2. r \in Rejects
    BY <1>6
  <2> HIDE DEF r
  <2> QED
    BY <1>5, <1>6, <2>1, <2>2
<1>9. CASE SellTooMany
  <2>1. /\ NextCandidate /\ req' = req /\ at \in DOMAIN req.candidates
        /\ orders' = orders \/ orders' = Written(0, "RISK_OPEN_ORDERS", SellFailures(0))
    BY <1>1, <1>9 DEF SellTooMany
  <2> QED
    BY <1>5, <1>6, <2>1
<1>10. ASSUME NEW c \in 1 .. 6, BuyNoRoom(c)
       PROVE  Goal
  <2>1. NextCandidate /\ req' = req /\ at \in DOMAIN req.candidates /\ orders' = orders
    BY <1>1, <1>10 DEF BuyNoRoom
  <2> QED
    BY <1>5, <1>6, <2>1
<1>11. ASSUME NEW c \in 1 .. 6, BuyTooSmall(c)
       PROVE  Goal
  <2> DEFINE r == IF PerOrder = 0 THEN "RISK_ORDER_AMOUNT" ELSE Caps(This)[c].rule
  <2>1. /\ NextCandidate /\ req' = req /\ at \in DOMAIN req.candidates
        /\ orders' = orders \/ orders' = Written(0, r, BuyFailures(LimitPrice))
    BY <1>1, <1>11 DEF BuyTooSmall
  <2>2. r \in Rejects
    BY <1>6
  <2> HIDE DEF r
  <2> QED
    BY <1>5, <1>6, <2>1, <2>2
<1>12. ASSUME NEW c \in 1 .. 6, BuyTooMany(c)
       PROVE  Goal
  <2>1. /\ NextCandidate /\ req' = req /\ at \in DOMAIN req.candidates
        /\ orders' = orders \/ orders' = Written(0, "RISK_OPEN_ORDERS", BuyFailures(LimitPrice))
    BY <1>1, <1>12 DEF BuyTooMany
  <2> QED
    BY <1>5, <1>6, <2>1
<1>13. ASSUME NEW c \in 1 .. 6, BuyOrder(c)
       PROVE  Goal
  <2>1. /\ mode = "buy" /\ mode' = "buy" /\ at' = at /\ req' = req /\ at \in DOMAIN req.candidates
        /\ orders' = Written(BuyQuantity(c), "none", BuyFailures(LimitPrice * BuyQuantity(c)))
    BY <1>1, <1>13 DEF BuyOrder
  <2>2. Current.side = "buy"
    BY <2>1 DEF SoundInv, AtWork
  <2>3. Wrote
    BY <1>6, <2>1, <2>2, BuyQuantityIsNat DEF Wrote
  <2> QED
    BY <2>1, <2>3 DEF Goal, Onward
<1> QED
  BY <1>2, <1>3, <1>4, <1>7, <1>8, <1>9, <1>10, <1>11, <1>12, <1>13 DEF Goal

\* No step offers a share twice.
LEMMA NextKeepsSales ==
  ASSUME SoundInv, SalesInv, [RiskNext]_riskVars
  PROVE  SalesInv'
<1>1. CASE TakeUpSell
  <2>1. /\ mode = "pick" /\ at \in DOMAIN req.candidates /\ mode' = "sell" /\ sold = 0
        /\ at' = at /\ sold' = sold /\ req' = req /\ orders' = orders /\ Sellable > 0
    BY <1>1, PlaceInList DEF TakeUpSell, outVars, SoundInv, AtWork
  <2>2. Sold(orders, This) = 0 /\ sold <= Sellable
    BY <2>1, NothingSoldYet, SaleNumbers DEF SoundInv
  <2> QED
    BY <2>1, <2>2, SalesStay DEF Onward
<1>2. CASE SellOrder
  <2> DEFINE q == SellQuantity
  <2>1. /\ mode = "sell" /\ mode' = "sell" /\ at' = at /\ req' = req /\ sold' = sold + q
        /\ sold < Sellable /\ orders' = Written(q, "none", SellFailures(q))
    BY <1>2 DEF SellOrder
  <2>2. at \in DOMAIN req.candidates /\ Current.side = "sell" /\ PerOrder > 0
    BY <2>1 DEF SoundInv, RiskInv, AtWork
  <2>3. Sellable \in Nat /\ sold \in Nat /\ PerOrder \in Nat
    BY <2>2, SaleNumbers DEF SoundInv
  <2>4. q \in Nat /\ sold + q <= Sellable
    BY <2>1, <2>2, <2>3 DEF SellQuantity, Smaller
  <2>5. "none" \in Rejects /\ SellFailures(q) \in SUBSET Rules
    BY SaleRules DEF Rejects
  <2> HIDE DEF q
  <2> QED
    BY <2>1, <2>2, <2>4, <2>5, SalesWritten DEF Onward
<1>3. CASE UNCHANGED riskVars
  <2>1. UNCHANGED <<req, mode, at, sold, orders>>
    BY <1>3 DEF riskVars, evalVars, outVars
  <2>2. mode' = "sell" => at' = at /\ sold' = sold /\ Sold(orders, This) = sold /\ sold <= Sellable
    BY <2>1 DEF SalesInv
  <2> QED
    BY <2>1, <2>2, SalesStay DEF Onward
<1>4. \/ TakeUpSell \/ SellOrder \/ UNCHANGED riskVars
      \/ Gate \/ Seeded \/ Finish \/ \E x \in Symbols : Seed(x)
      \/ Refuse \/ TakeUpBuy \/ BuyEnough \/ SellNothing \/ SellTooMany \/ SellEnough
      \/ \E c \in 1 .. 6 : BuyNoRoom(c) \/ BuyTooSmall(c) \/ BuyTooMany(c) \/ BuyOrder(c)
  BY Zenon DEF RiskNext
<1> QED
  BY <1>1, <1>2, <1>3, <1>4, QuietSales

\* At first nothing is offered.
LEMMA NothingSoldAtFirst ==
  ASSUME RiskInit
  PROVE  SalesInv
<1>1. req \in PlanRequests /\ mode = "gate" /\ orders = <<>> /\ DOMAIN orders = {} /\ req \in Request
  BY DEF RiskInit
<1>2. \A x : Sold(orders, x) = 0
  BY <1>1, SumEmpty DEF Sold
<1>3. \A x \in Symbols : req.held[x] \in Nat /\ req.orderable[x] \in Nat
  BY <1>1 DEF Request
<1> QED
  BY <1>1, <1>2, <1>3 DEF SalesInv, Smaller

\* For every request: an order that goes out has passed every decision stored with it
\* and has a size within the limit of one order; a sale that is cut into orders offers no
\* share twice; when the plan is made each candidate has an order, a rejection, a note of
\* the limit in its way, or asked for nothing; and a limit is given as the reason of a
\* rejection only where one share fits into it.
THEOREM DecisionsCorrect == RiskSpec => []EvaluationIsSound
<1>1. RiskInit => SoundInv /\ SalesInv
  BY InitIsSound, NothingSoldAtFirst
<1>2. SoundInv /\ SalesInv /\ [RiskNext]_riskVars => SoundInv' /\ SalesInv'
  BY NextSound, NextKeepsSales
<1>3. SoundInv /\ SalesInv => EvaluationIsSound
  <2> SUFFICES ASSUME SoundInv, SalesInv PROVE EvaluationIsSound
    OBVIOUS
  <2>1. AcceptedPassed /\ NoRoomIsNoRejection
    BY DEF SoundInv, Decisions, DecisionOK, AcceptedPassed, NoRoomIsNoRejection
  <2>2. NothingVanishes
    <3>1. req.candidates \in Seq(Candidate) /\ at \in Nat
      BY RequestParts DEF SoundInv, RiskInv, RiskTypeOK
    <3>2. at > Len(req.candidates) => \A c \in DOMAIN req.candidates : c < at
      BY <3>1
    <3> QED
      BY <3>2 DEF SoundInv, Behind, NothingVanishes, Treated, Ordered, Noted
  <2>3. SalesFit
    BY OfferedIsSold DEF SalesInv, SalesFit
  <2> QED
    BY <2>1, <2>2, <2>3 DEF EvaluationIsSound
<1> QED
  BY <1>1, <1>2, <1>3, PTL DEF RiskSpec

HIDE RiskAssumption

-----------------------------------------------------------------------------
(* The trading days, in order.                                           *)

Rises(seq) == \A i, j \in DOMAIN seq : i < j => seq[i] < seq[j]

\* The days of a set up to some day.
DaysInOrderUpTo(days) ==
  CHOOSE upTo : upTo = [d \in 0 .. CalendarDays |->
    IF d = 0 THEN <<>> ELSE IF d \in days THEN Append(upTo[d - 1], d) ELSE upTo[d - 1]]

\* Each result is that of the day before, with one day more.
LEMMA OrderRecurs ==
  ASSUME NEW days
  PROVE  /\ DaysInOrder(days) = DaysInOrderUpTo(days)[CalendarDays]
         /\ DaysInOrderUpTo(days)[0] = <<>>
         /\ \A d \in 1 .. CalendarDays : DaysInOrderUpTo(days)[d] =
              IF d \in days THEN Append(DaysInOrderUpTo(days)[d - 1], d) ELSE DaysInOrderUpTo(days)[d - 1]
<1> DEFINE N == CalendarDays
           lists(g, n) == g = [d \in 0..n |->
             IF d = 0 THEN <<>> ELSE IF d \in days THEN Append(g[d - 1], d) ELSE g[d - 1]]
<1>0. N \in Nat
  BY TrainingAssumption
<1>1. \E g : lists(g, N)
  <2> DEFINE W == {n \in Nat : ~ \E g : lists(g, n)}
  <2> SUFFICES ASSUME W # {} PROVE FALSE
    BY <1>0
  <2>1. PICK n \in W : \A m \in W : n <= m
    <3>1. W \subseteq Nat /\ W # {}
      OBVIOUS
    <3> HIDE DEF W
    <3> QED
      BY <3>1, SmallestNumber
  <2>2. n \in Nat /\ ~ \E g : lists(g, n)
    OBVIOUS
  <2>3. n # 0
    <3>1. lists([d \in 0..0 |-> <<>>], 0)
      OBVIOUS
    <3> QED
      BY <2>2, <3>1
  <2>4. PICK f : lists(f, n - 1)
    <3>1. n - 1 \in Nat /\ ~ (n <= n - 1)
      BY <2>2, <2>3
    <3>2. n - 1 \notin W
      <4> HIDE DEF W
      <4> QED
        BY <2>1, <3>1
    <3> HIDE DEF lists
    <3> QED
      BY <3>1, <3>2
  <2> DEFINE h == [d \in 0..n |->
               IF d = 0 THEN <<>> ELSE IF d \in days THEN Append(f[d - 1], d) ELSE f[d - 1]]
  <2>5. \A k \in 0..(n - 1) : f[k] = h[k]
    <3>1. \A k \in 0..(n - 1) : f[k] =
            IF k = 0 THEN <<>> ELSE IF k \in days THEN Append(f[k - 1], k) ELSE f[k - 1]
      BY <2>4, Zenon
    <3>2. \A k \in 0..(n - 1) : k \in 0..n
      BY <2>2
    <3> QED
      BY <3>1, <3>2, Zenon
  <2>6. \A k \in 1..n : k - 1 \in 0..(n - 1)
    BY <2>2
  <2>7. \A k \in 0..n : k # 0 => f[k - 1] = h[k - 1]
    <3> HIDE DEF h, lists
    <3> QED
      BY <2>2, <2>5, <2>6
  <2>8. lists(h, n)
    BY <2>7
  <2> QED
    BY <2>2, <2>8
<1>2. lists(DaysInOrderUpTo(days), N)
  BY <1>1 DEF DaysInOrderUpTo
<1>3. DaysInOrder(days) = DaysInOrderUpTo(days)[N]
  BY DEF DaysInOrder, DaysInOrderUpTo
<1>4. 0 \in 0..N /\ \A k \in 1..N : k \in 0..N /\ k # 0
  BY <1>0
<1> HIDE DEF N
<1>5. DaysInOrderUpTo(days)[0] = <<>>
  BY <1>2, <1>4, Zenon
<1>6. \A k \in 1..N : DaysInOrderUpTo(days)[k] =
        IF k \in days THEN Append(DaysInOrderUpTo(days)[k - 1], k) ELSE DaysInOrderUpTo(days)[k - 1]
  BY <1>2, <1>4, Zenon
<1> QED
  BY <1>3, <1>5, <1>6 DEF N

\* The days come out one by one and rising.
LEMMA OrderRises ==
  ASSUME NEW days
  PROVE  DaysInOrder(days) \in Seq(TradingDays) /\ Rises(DaysInOrder(days))
<1> DEFINE g == DaysInOrderUpTo(days)
           good(d) == g[d] \in Seq(1 .. d) /\ Rises(g[d])
           W == {d \in 0 .. CalendarDays : ~ good(d)}
<1>0. CalendarDays \in Nat
  BY TrainingAssumption
<1>1. W = {}
  <2> SUFFICES ASSUME W # {} PROVE FALSE
    OBVIOUS
  <2>1. PICK d \in W : \A m \in W : d <= m
    <3>1. W \subseteq Nat /\ W # {}
      BY <1>0
    <3> HIDE DEF W
    <3> QED
      BY <3>1, SmallestNumber
  <2>2. d \in 0 .. CalendarDays /\ ~ good(d)
    BY <2>1
  <2>3. good(0)
    <3>1. g[0] = <<>>
      BY OrderRecurs
    <3> QED
      BY <3>1 DEF Rises
  <2>4. d # 0
    BY <2>2, <2>3
  <2>5. d \in 1 .. CalendarDays /\ d - 1 \in 0 .. CalendarDays /\ ~ (d <= d - 1)
    BY <1>0, <2>2, <2>4
  <2>6. good(d - 1)
    <3>1. d - 1 \notin W
      <4> HIDE DEF W
      <4> QED
        BY <2>1, <2>5
    <3> HIDE DEF good
    <3> QED
      BY <2>5, <3>1
  <2>7. g[d] = IF d \in days THEN Append(g[d - 1], d) ELSE g[d - 1]
    BY <2>5, OrderRecurs
  <2> DEFINE q == g[d - 1]
  <2>8. q \in Seq(1 .. (d - 1)) /\ Rises(q)
    BY <2>6
  <2>9. g[d] = IF d \in days THEN Append(q, d) ELSE q
    BY <2>7
  <2> HIDE DEF g, q
  <2>10. q \in Seq(1 .. d)
    BY <2>5, <2>8
  <2>11. \A i \in DOMAIN q : q[i] \in 1 .. (d - 1)
    BY <2>8
  <2>12. Append(q, d) \in Seq(1 .. d) /\ Rises(Append(q, d))
    BY <2>5, <2>8, <2>10, <2>11 DEF Rises
  <2> QED
    BY <2>2, <2>8, <2>9, <2>10, <2>12
<1>2. good(CalendarDays)
  BY <1>0, <1>1
<1>3. DaysInOrder(days) = g[CalendarDays]
  BY OrderRecurs
<1> QED
  BY <1>2, <1>3 DEF TradingDays

\* A rising list of as many days as there are is all of them.
LEMMA WholeIsAll ==
  ASSUME NEW seq \in Seq(TradingDays), Rises(seq), Len(seq) = CalendarDays
  PROVE  \A i \in DOMAIN seq : seq[i] = i
<1>0. CalendarDays \in Nat /\ DOMAIN seq = 1 .. CalendarDays /\ \A i \in DOMAIN seq : seq[i] \in 1 .. CalendarDays
  BY TrainingAssumption DEF TradingDays
<1>1. \A i \in DOMAIN seq : i <= seq[i]
  <2> DEFINE W == {i \in DOMAIN seq : ~ (i <= seq[i])}
  <2> SUFFICES ASSUME W # {} PROVE FALSE
    OBVIOUS
  <2>1. PICK i \in W : \A m \in W : i <= m
    <3>1. W \subseteq Nat /\ W # {}
      BY <1>0
    <3> HIDE DEF W
    <3> QED
      BY <3>1, SmallestNumber
  <2>2. i \in 1 .. CalendarDays /\ seq[i] < i /\ seq[i] >= 1
    BY <1>0
  <2>3. i - 1 \in DOMAIN seq /\ i - 1 <= seq[i - 1]
    BY <1>0, <2>1, <2>2
  <2>4. i \in DOMAIN seq /\ i \in Int /\ i - 1 \in Int /\ i - 1 < i
    BY <1>0, <2>2
  <2>5. seq[i - 1] < seq[i]
    BY <2>3, <2>4 DEF Rises
  <2>6. seq[i - 1] \in Int /\ seq[i] \in Int
    <3>1. \A k \in DOMAIN seq : seq[k] \in Int
      BY <1>0
    <3> QED
      BY <3>1, <2>3, <2>4
  <2> QED
    BY <2>2, <2>3, <2>4, <2>5, <2>6
<1>2. \A i \in DOMAIN seq : seq[i] <= i
  <2> DEFINE W == {n \in Nat : CalendarDays - n \in DOMAIN seq /\ seq[CalendarDays - n] > CalendarDays - n}
  <2> SUFFICES ASSUME W # {} PROVE FALSE
    <3>1. ASSUME NEW i \in DOMAIN seq, seq[i] > i PROVE FALSE
      <4>1. CalendarDays - i \in Nat /\ CalendarDays - (CalendarDays - i) = i
        BY <1>0
      <4>2. CalendarDays - i \in W
        BY <3>1, <4>1
      <4> QED
        BY <4>2
    <3> QED
      BY <1>0, <3>1
  <2>1. PICK n \in W : \A m \in W : n <= m
    <3>1. W \subseteq Nat /\ W # {}
      OBVIOUS
    <3> HIDE DEF W
    <3> QED
      BY <3>1, SmallestNumber
  <2>2. n \in Nat /\ CalendarDays - n \in 1 .. CalendarDays /\ seq[CalendarDays - n] > CalendarDays - n
    BY <1>0
  <2>3. n # 0
    BY <1>0, <2>2
  <2>4. n - 1 \in Nat /\ ~ (n <= n - 1) /\ CalendarDays - (n - 1) \in 1 .. CalendarDays
    BY <1>0, <2>2, <2>3
  <2>5. n - 1 \notin W
    BY <2>1, <2>4
  <2>6. seq[CalendarDays - (n - 1)] <= CalendarDays - (n - 1)
    BY <1>0, <2>4, <2>5
  <2>7. \E i \in 1 .. CalendarDays : i + 1 \in 1 .. CalendarDays /\ seq[i] > i /\ seq[i + 1] <= i + 1
    <3>1. CalendarDays - (n - 1) = (CalendarDays - n) + 1
      BY <1>0, <2>2
    <3> QED
      BY <2>2, <2>4, <2>6, <3>1
  <2>8. PICK i \in 1 .. CalendarDays : i + 1 \in 1 .. CalendarDays /\ seq[i] > i /\ seq[i + 1] <= i + 1
    BY <2>7
  <2>9. i < i + 1 /\ i \in DOMAIN seq /\ i + 1 \in DOMAIN seq
    BY <1>0, <2>8
  <2>10. seq[i] < seq[i + 1]
    BY <2>9 DEF Rises
  <2>11. seq[i] \in 1 .. CalendarDays /\ seq[i + 1] \in 1 .. CalendarDays
    BY <1>0, <2>9, Zenon
  <2> QED
    BY <2>8, <2>10, <2>11
<1> QED
  BY <1>0, <1>1, <1>2

-----------------------------------------------------------------------------
(* The invariant.                                                        *)

Seen == Priced \X TradingDays \X (Nat \ {0})

Covered(bar, hash, earlier, later) ==
  \E h \in hash : h[1] = bar[1] /\ h[2] = bar[2] /\ h[3] >= bar[3] - earlier /\ h[3] <= bar[3] + later

TrTypes ==
  /\ version \in [Priced -> [TradingDays -> Nat]] /\ revisedBars \in Nat
  /\ asked \in [horizon : Nat \ {0}, embargo : Nat]
  /\ step \in {"calendar", "features", "targets", "fit", "done", "refused"}
  /\ turn \in DOMAIN Learnt
  /\ dates \in Seq(TradingDays) /\ Rises(dates)
  /\ labels \in [LearntSymbols -> SUBSET TradingDays]
  /\ hashed \subseteq Seen /\ used \subseteq Seen
  /\ applied \in [stage : {"idle", "features", "load", "over"},
                  window : [first : Nat, last : Nat, signals : SUBSET TradingDays],
                  hash : SUBSET Seen, used : SUBSET Seen, known : SUBSET (LearntSymbols \X Nat),
                  outcome : {"none", "train_window_overlap", "no_signal_candidate", "completed"}]

\* Each correction makes one version more, and what was read is not newer than what is.
VersionsCount == \A s \in Priced, d \in TradingDays : version[s][d] <= 1 + revisedBars

\* A label looks at a day of the calendar, a horizon further.
LabelsFit ==
  /\ step = "calendar" => \A s \in LearntSymbols : labels[s] = {}
  /\ \A s \in LearntSymbols : \A d \in labels[s] :
       \E i \in DOMAIN dates : d = dates[i] /\ i + asked.horizon <= Len(dates)

\* A training goes on only with an embargo that covers the horizon.
EmbargoHolds == step \in {"features", "targets", "fit", "done"} => asked.embargo >= asked.horizon

\* What a model is made from, and how far its labels look.
ModelFits ==
  /\ step = "done" <=> model.present
  /\ model.present =>
       \E n \in DOMAIN dates :
         /\ model.trainEnd = dates[n] /\ model.embargo = asked.embargo
         /\ model.start # 0 => n + model.embargo + 1 \in DOMAIN dates /\ model.start = dates[n + model.embargo + 1]
         /\ \/ model.labelsReach = 0
            \/ \E j \in DOMAIN dates : j <= n + asked.horizon /\ model.labelsReach = dates[j]

\* The bars of the training are hashed, in a version read before.
HashFits ==
  /\ \A h \in hashed : h[3] <= version[h[1]][h[2]]
  /\ \A bar \in used : Covered(bar, hashed, revisedBars, 0)
  /\ step = "targets" =>
       \A d \in TradingDays : version[Learnt[turn]][d] > 0 =>
         \E h \in hashed : h[1] = Learnt[turn] /\ h[2] = d
  /\ model.present => /\ model.used \subseteq Seen /\ model.hash \subseteq Seen
                      /\ \A bar \in model.used : Covered(bar, model.hash, revisedBars, 0)

\* A backtest applies a stored model, to bars that it reads before it hashes them.
AppliedFits ==
  /\ applied.stage # "idle" => model.present /\ applied.window \in Windows
  /\ applied.outcome = "completed" => applied.stage = "over"
  /\ applied.stage = "load" =>
       \A bar \in applied.used : bar[3] <= version[bar[1]][bar[2]]

TrainInv ==
  /\ TrTypes /\ VersionsCount /\ LabelsFit /\ EmbargoHolds /\ ModelFits /\ HashFits /\ AppliedFits
  /\ NoLabelReachesValidation /\ NoSignalWasLearnt /\ HashesNameTheirInputs

-----------------------------------------------------------------------------
(* Small facts.                                                          *)

\* The largest of some bounded numbers is one of them, and none is larger.
LEMMA MaxIsIn ==
  ASSUME NEW N \in Nat, NEW S, S \subseteq 0 .. N, S # {}
  PROVE  Max(S) \in S /\ \A n \in S : n <= Max(S)
<1> DEFINE T == {N - n : n \in S}
<1>1. PICK m \in T : \A n \in T : m <= n
  <2>1. \A n \in S : n \in 0 .. N /\ N - n \in Nat
    OBVIOUS
  <2>2. T \subseteq Nat /\ T # {}
    BY <2>1
  <2> HIDE DEF T
  <2> QED
    BY <2>2, SmallestNumber
<1>2. PICK x \in S : m = N - x
  OBVIOUS
<1>3. \A n \in S : N - n \in T
  OBVIOUS
<1>4. \A n \in S : x >= n
  BY <1>1, <1>2, <1>3
<1>5. Max(S) \in S /\ \A n \in S : Max(S) >= n
  BY <1>4 DEF Max
<1> QED
  BY <1>5

\* Some numbers are no smaller than the smallest.
LEMMA MinIsLeast ==
  ASSUME NEW S, S \subseteq Nat, NEW n \in S
  PROVE  Min(S) \in S /\ Min(S) <= n
<1>1. \E m \in S : \A x \in S : m <= x
  BY SmallestNumber
<1> QED
  BY <1>1 DEF Min

\* The numbers of the requests.
LEMMA TrainingNumbers ==
  /\ CalendarDays \in Nat /\ MinTrainDays \in Nat \ {0} /\ ValidDays \in Nat \ {0}
  /\ TradingDays = 1 .. CalendarDays /\ TradingDays \subseteq Nat
  /\ Learnt \in Seq(LearntSymbols) /\ 1 \in DOMAIN Learnt /\ LearntSymbols \subseteq Priced
BY TrainingAssumption DEF TradingDays, LearntSymbols, Priced

\* The days of a calendar are numbered.
LEMMA DaysAreNumbered ==
  ASSUME NEW seq \in Seq(TradingDays)
  PROVE  /\ Len(seq) \in Nat /\ DOMAIN seq = 1 .. Len(seq) /\ DOMAIN seq \subseteq Int
         /\ \A i \in DOMAIN seq : seq[i] \in TradingDays /\ seq[i] \in Int
<1>1. Len(seq) \in Nat /\ DOMAIN seq = 1 .. Len(seq) /\ \A i \in DOMAIN seq : seq[i] \in TradingDays
  OBVIOUS
<1> QED
  BY <1>1, TrainingNumbers

\* A fold trains for some days, and its validation begins after the embargo.
LEMMA FoldIs ==
  ASSUME NEW seq \in Seq(TradingDays), NEW e \in Nat, NEW k \in FoldsFit(seq, e)
  PROVE  /\ Fold(seq, k, e).trainEnd \in DOMAIN seq
         /\ Fold(seq, k, e).validStart = Fold(seq, k, e).trainEnd + e + 1
         /\ Fold(seq, k, e).validStart \in DOMAIN seq
<1> DEFINE n == (k - 1) * ValidDays
<1>1. k \in Nat /\ k >= 1 /\ Fold(seq, k, e).validEnd <= Len(seq)
  BY TrainingNumbers DEF FoldsFit
<1>2. n \in Nat
  BY <1>1, TrainingNumbers
<1>3. /\ Fold(seq, k, e).trainEnd = MinTrainDays + n
      /\ Fold(seq, k, e).validStart = MinTrainDays + n + e + 1
      /\ Fold(seq, k, e).validEnd = MinTrainDays + n + e + ValidDays
  BY DEF Fold
<1> HIDE DEF n
<1> QED
  BY <1>1, <1>2, <1>3, TrainingNumbers

\* A label of a training looks at most a horizon past its last day.
LEMMA LastLookedIs ==
  ASSUME TrTypes, LabelsFit, NEW n \in Nat
  PROVE  \/ LastLookedAt(SamplesUpTo(n)) = 0
         \/ \E j \in DOMAIN dates : j <= n + asked.horizon /\ LastLookedAt(SamplesUpTo(n)) = dates[j]
<1> DEFINE looked == {dates[PositionOf(sample[2]) + asked.horizon] : sample \in SamplesUpTo(n)}
           fits(d) == \E j \in DOMAIN dates : j <= n + asked.horizon /\ d = dates[j]
<1>1. ASSUME NEW sample \in SamplesUpTo(n) PROVE fits(dates[PositionOf(sample[2]) + asked.horizon])
  <2>1. sample[1] \in LearntSymbols /\ sample[2] \in labels[sample[1]] /\ PositionOf(sample[2]) <= n
    BY <1>1 DEF SamplesUpTo, Samples
  <2>2. PICK i \in DOMAIN dates : sample[2] = dates[i] /\ i + asked.horizon <= Len(dates)
    BY <2>1 DEF LabelsFit
  <2>3. PositionOf(sample[2]) \in DOMAIN dates /\ dates[PositionOf(sample[2])] = dates[i]
    BY <2>2 DEF PositionOf
  <2>4. PositionOf(sample[2]) = i
    <3> DEFINE p == PositionOf(sample[2])
    <3>1. p \in DOMAIN dates /\ i \in DOMAIN dates /\ dates[p] = dates[i]
      BY <2>3
    <3>2. p \in Int /\ i \in Int /\ dates[i] \in Int
      <4>1. dates \in Seq(TradingDays) /\ TradingDays \subseteq Int
        BY TrainingNumbers DEF TrTypes
      <4>2. DOMAIN dates \subseteq Int /\ \A k \in DOMAIN dates : dates[k] \in Int
        BY <4>1, DaysAreNumbered
      <4> HIDE DEF p
      <4> QED
        BY <3>1, <4>2, Zenon
    <3>3. ~ (p < i) /\ ~ (i < p)
      BY <3>1, <3>2 DEF TrTypes, Rises
    <3> HIDE DEF p
    <3>4. p = i
      BY <3>2, <3>3
    <3> QED
      BY <3>4 DEF p
  <2>5. i + asked.horizon \in DOMAIN dates /\ i + asked.horizon <= n + asked.horizon
    BY <2>1, <2>2, <2>4 DEF TrTypes
  <2> QED
    BY <2>4, <2>5
<1>2. \A d \in looked : fits(d)
  BY <1>1
<1>3. \A d \in looked : d \in TradingDays
  <2>1. \A d : fits(d) => d \in TradingDays
    BY DEF TrTypes
  <2> HIDE DEF fits
  <2> QED
    BY <1>2, <2>1
<1>4. {0} \cup looked \subseteq 0 .. CalendarDays
  <2>1. TradingDays \subseteq 0 .. CalendarDays /\ 0 \in 0 .. CalendarDays
    BY TrainingAssumption DEF TradingDays
  <2> HIDE DEF looked, fits
  <2> QED
    BY <1>3, <2>1, Zenon
<1>5. LastLookedAt(SamplesUpTo(n)) \in {0} \cup looked
  <2>1. LastLookedAt(SamplesUpTo(n)) = Max({0} \cup looked)
    BY DEF LastLookedAt
  <2> HIDE DEF looked
  <2> QED
    BY <1>4, <2>1, MaxIsIn, TrainingNumbers
<1> QED
  BY <1>2, <1>5

\* The bars of a symbol have its version of now.
LEMMA BarsAreCurrent ==
  ASSUME TrTypes, NEW s \in Priced, NEW days, days \subseteq TradingDays
  PROVE  /\ BarsOf(s, days) \subseteq Seen
         /\ \A bar \in BarsOf(s, days) :
              bar[1] = s /\ bar[2] \in days /\ bar[3] = version[s][bar[2]] /\ bar[3] > 0
         /\ \A d \in days : version[s][d] > 0 => <<s, d, version[s][d]>> \in BarsOf(s, days)
<1>1. \A d \in days : version[s][d] \in Nat /\ d \in TradingDays
  BY DEF TrTypes
<1>2. \A d \in days : version[s][d] > 0 => <<s, d, version[s][d]>> \in Seen
  BY <1>1 DEF Seen
<1> QED
  BY <1>1, <1>2 DEF BarsOf

\* Corrections only widen what counts as covered.
LEMMA CoveredLonger ==
  ASSUME NEW bar \in Seen, NEW hash, hash \subseteq Seen, NEW a \in Nat, NEW b \in Nat,
         NEW c \in Nat, NEW d \in Nat, a <= c, b <= d, Covered(bar, hash, a, b)
  PROVE  Covered(bar, hash, c, d)
<1>1. PICK h \in hash : h[1] = bar[1] /\ h[2] = bar[2] /\ h[3] >= bar[3] - a /\ h[3] <= bar[3] + b
  BY DEF Covered
<1>2. h[3] \in Nat /\ bar[3] \in Nat
  BY <1>1 DEF Seen
<1>3. h[3] >= bar[3] - c /\ h[3] <= bar[3] + d
  BY <1>1, <1>2
<1> QED
  BY <1>1, <1>3 DEF Covered

-----------------------------------------------------------------------------
(* The initial state, and every step.                                    *)

\* Nothing is read and nothing stored.
LEMMA InitTrain == TrInit => TrainInv
<1> SUFFICES ASSUME TrInit PROVE TrainInv
  OBVIOUS
<1>1. PICK gaps \in Gaps :
        version = [s \in Priced |-> [d \in TradingDays |-> IF [symbol |-> s, day |-> d] \in gaps THEN 0 ELSE 1]]
  BY DEF TrInit
<1>2. /\ version \in [Priced -> [TradingDays -> Nat]]
      /\ \A s \in Priced, d \in TradingDays : version[s][d] <= 1
  BY <1>1
<1>3. asked \in [horizon : Nat \ {0}, embargo : Nat]
  BY TrainingAssumption DEF TrInit
<1>4. applied = NotApplied /\ model = NoModel
  BY DEF TrInit
<1>5. TrTypes
  BY <1>2, <1>3, <1>4, TrainingNumbers DEF TrInit, TrTypes, Rises, NotApplied, Seen
<1>6. VersionsCount
  BY <1>2 DEF VersionsCount, TrInit
<1>7. ~ model.present /\ applied.stage = "idle" /\ applied.outcome = "none"
  BY <1>4 DEF NoModel, NotApplied
<1>8. LabelsFit /\ EmbargoHolds /\ ModelFits /\ HashFits /\ AppliedFits
  BY <1>7 DEF TrInit, LabelsFit, EmbargoHolds, ModelFits, HashFits, AppliedFits
<1>9. NoLabelReachesValidation /\ NoSignalWasLearnt /\ HashesNameTheirInputs
  BY <1>7 DEF NoLabelReachesValidation, NoSignalWasLearnt, HashesNameTheirInputs
<1> QED
  BY <1>5, <1>6, <1>8, <1>9 DEF TrainInv

\* The hash of a finished training and of a finished backtest, by name.
LEMMA HashesCovered ==
  HashesNameTheirInputs <=>
    /\ model.present => \A bar \in model.used : Covered(bar, model.hash, revisedBars, 0)
    /\ applied.outcome = "completed" =>
         \A bar \in applied.used : bar[1] # Benchmark /\ bar[2] \in WindowDays =>
           Covered(bar, applied.hash, 0, revisedBars)
BY DEF HashesNameTheirInputs, Covered

\* A correction makes a bar one version newer.
LEMMA StepCorrectPrice ==
  ASSUME TrainInv, NEW s \in Priced, NEW d \in CorrectedDays, CorrectPrice(s, d)
  PROVE  TrainInv'
<1> USE DEF TrainInv, CorrectPrice
<1>1. d \in TradingDays
  BY TrainingAssumption DEF TradingDays
<1>2. version[s][d] \in Nat /\ version' \in [Priced -> [TradingDays -> Nat]]
  BY <1>1 DEF TrTypes
<1>3. \A t \in Priced, e \in TradingDays :
        /\ version[t][e] \in Nat /\ version'[t][e] \in Nat /\ version[t][e] <= version'[t][e]
        /\ version'[t][e] <= version[t][e] + 1 /\ (version'[t][e] > 0 => version[t][e] > 0)
  BY <1>1, <1>2 DEF TrTypes
<1>4. revisedBars \in Nat /\ revisedBars' = revisedBars + 1 /\ revisedBars' \in Nat
  BY DEF TrTypes
<1>5. TrTypes'
  BY <1>2, <1>4 DEF TrTypes, Rises
<1>6. VersionsCount'
  BY <1>3, <1>4 DEF VersionsCount
<1>7. LabelsFit' /\ EmbargoHolds' /\ ModelFits'
  BY DEF LabelsFit, EmbargoHolds, ModelFits
<1>8. HashFits'
  <2>1. \A h \in hashed : h[3] <= version'[h[1]][h[2]]
    <3> SUFFICES ASSUME NEW h \in hashed PROVE h[3] <= version'[h[1]][h[2]]
      OBVIOUS
    <3>1. h[1] \in Priced /\ h[2] \in TradingDays /\ h[3] \in Nat /\ h[3] <= version[h[1]][h[2]]
      BY DEF TrTypes, HashFits, Seen
    <3> QED
      BY <1>3, <3>1
  <2>2. \A bar \in used : Covered(bar, hashed, revisedBars', 0)
    <3>1. used \subseteq Seen /\ hashed \subseteq Seen /\ \A bar \in used : Covered(bar, hashed, revisedBars, 0)
      BY DEF TrTypes, HashFits
    <3>2. 0 \in Nat /\ 0 <= 0 /\ revisedBars <= revisedBars'
      BY <1>4
    <3> QED
      BY <1>4, <3>1, <3>2, CoveredLonger
  <2>3. step = "targets" => \A e \in TradingDays : version'[Learnt[turn]][e] > 0 =>
          \E h \in hashed : h[1] = Learnt[turn] /\ h[2] = e
    <3>1. Learnt[turn] \in Priced
      BY TrainingNumbers DEF TrTypes
    <3> QED
      BY <1>3, <3>1 DEF HashFits
  <2>4. model.present => \A bar \in model.used : Covered(bar, model.hash, revisedBars', 0)
    <3> SUFFICES ASSUME model.present, NEW bar \in model.used PROVE Covered(bar, model.hash, revisedBars', 0)
      OBVIOUS
    <3>1. bar \in Seen /\ model.hash \subseteq Seen /\ Covered(bar, model.hash, revisedBars, 0)
      BY DEF HashFits
    <3>2. 0 \in Nat /\ 0 <= 0 /\ revisedBars <= revisedBars'
      BY <1>4
    <3> QED
      BY <1>4, <3>1, <3>2, CoveredLonger
  <2> QED
    BY <2>1, <2>2, <2>3, <2>4 DEF HashFits, Covered
<1>9. AppliedFits'
  <2>1. applied.stage = "load" => \A bar \in applied.used : bar[3] <= version'[bar[1]][bar[2]]
    <3> SUFFICES ASSUME applied.stage = "load", NEW bar \in applied.used
                 PROVE  bar[3] <= version'[bar[1]][bar[2]]
      OBVIOUS
    <3>1. bar \in Seen
      BY DEF TrTypes
    <3>2. bar[1] \in Priced /\ bar[2] \in TradingDays /\ bar[3] \in Nat /\ bar[3] <= version[bar[1]][bar[2]]
      BY <3>1 DEF AppliedFits, Seen
    <3> QED
      BY <1>3, <3>2
  <2> QED
    BY <2>1 DEF AppliedFits
<1>10. NoLabelReachesValidation' /\ NoSignalWasLearnt'
  BY DEF NoLabelReachesValidation, NoSignalWasLearnt, BenchmarkIsWhole
<1>11. HashesNameTheirInputs'
  <2>1. model.present => \A bar \in model.used : Covered(bar, model.hash, revisedBars', 0)
    BY <1>8 DEF HashFits, Covered
  <2>2. ASSUME applied.outcome = "completed", NEW bar \in applied.used, bar[1] # Benchmark, bar[2] \in WindowDays
        PROVE  Covered(bar, applied.hash, 0, revisedBars')
    <3>1. bar \in Seen /\ applied.hash \subseteq Seen
      BY DEF TrTypes
    <3>2. Covered(bar, applied.hash, 0, revisedBars)
      BY <2>2, HashesCovered
    <3>3. 0 \in Nat /\ 0 <= 0 /\ revisedBars <= revisedBars'
      BY <1>4
    <3> QED
      BY <1>4, <3>1, <3>2, <3>3, CoveredLonger
  <2> QED
    BY <2>1, <2>2 DEF HashesNameTheirInputs, Covered, WindowDays
<1> QED
  BY <1>5, <1>6, <1>7, <1>8, <1>9, <1>10, <1>11

\* The calendar is read: every day of it rises, and it is hashed at once.
LEMMA StepLoadCalendar ==
  ASSUME TrainInv, LoadCalendar
  PROVE  TrainInv'
<1> USE DEF TrainInv, LoadCalendar
<1>1. ~ model.present /\ applied.stage = "idle" /\ applied.outcome # "completed"
  BY DEF ModelFits, AppliedFits
<1>2. dates' \in Seq(TradingDays) /\ Rises(dates')
  BY OrderRises
<1>3. Benchmark \in Priced /\ TradingDays \subseteq TradingDays
  BY DEF Priced
<1>4. hashed' \subseteq Seen /\ \A h \in hashed' : h[3] = version[h[1]][h[2]]
  BY <1>3, BarsAreCurrent
<1>5. TrTypes'
  BY <1>2, <1>4 DEF TrTypes, Rises
<1>6. VersionsCount' /\ LabelsFit' /\ EmbargoHolds'
  BY DEF VersionsCount, LabelsFit, EmbargoHolds, EmbargoCovers
<1>7. ModelFits' /\ AppliedFits' /\ NoLabelReachesValidation' /\ NoSignalWasLearnt' /\ HashesNameTheirInputs'
  BY <1>1 DEF ModelFits, AppliedFits, NoLabelReachesValidation, NoSignalWasLearnt, HashesNameTheirInputs
<1>8. HashFits'
  <2>1. \A bar \in Seen : bar[3] \in Nat
    BY DEF Seen
  <2>2. \A h \in hashed' : h \in Seen /\ h[3] \in Nat /\ h[3] <= version[h[1]][h[2]]
    BY <1>4, <2>1
  <2>3. \A bar \in used' : Covered(bar, hashed', revisedBars, 0)
    BY <2>2 DEF Covered, TrTypes
  <2> QED
    BY <1>1, <2>2, <2>3 DEF HashFits, Covered
<1> QED
  BY <1>5, <1>6, <1>7, <1>8

\* A hash that grows covers what it covered.
LEMMA CoveredByMore ==
  ASSUME NEW bar, NEW hash, NEW more, hash \subseteq more, NEW a, NEW b, Covered(bar, hash, a, b)
  PROVE  Covered(bar, more, a, b)
BY DEF Covered

\* All bars of a symbol are hashed as they are, and those of the calendar are used.
LEMMA StepReadFeatures ==
  ASSUME TrainInv, ReadFeatures
  PROVE  TrainInv'
<1> USE DEF TrainInv, ReadFeatures
<1> DEFINE s == Learnt[turn]
           bars == BarsOf(s, TradingDays)
           shared == {bar \in bars : bar[2] \in ToSet(dates)}
<1>1. ~ model.present /\ applied.stage = "idle" /\ applied.outcome # "completed"
  BY DEF ModelFits, AppliedFits
<1>2. s \in Priced /\ s \in LearntSymbols
  BY TrainingNumbers DEF TrTypes
<1>3. /\ bars \subseteq Seen
      /\ \A bar \in bars : bar[1] = s /\ bar[2] \in TradingDays /\ bar[3] = version[s][bar[2]]
      /\ \A d \in TradingDays : version[s][d] > 0 => <<s, d, version[s][d]>> \in bars
  BY <1>2, BarsAreCurrent
<1>4. hashed' = hashed \cup bars /\ used' = used \cup shared /\ step' = "targets" /\ shared \subseteq bars
  OBVIOUS
<1> HIDE DEF s, bars, shared
<1>5. TrTypes'
  BY <1>3, <1>4 DEF TrTypes, Rises
<1>6. VersionsCount' /\ LabelsFit' /\ EmbargoHolds'
  BY DEF VersionsCount, LabelsFit, EmbargoHolds
<1>7. ModelFits' /\ AppliedFits' /\ NoLabelReachesValidation' /\ NoSignalWasLearnt' /\ HashesNameTheirInputs'
  BY <1>1 DEF ModelFits, AppliedFits, NoLabelReachesValidation, NoSignalWasLearnt, HashesNameTheirInputs
<1>8. HashFits'
  <2>1. \A h \in bars : h \in Seen /\ h[3] \in Nat /\ h[3] = version[h[1]][h[2]]
    BY <1>3 DEF Seen
  <2>2. \A h \in hashed' : h[3] <= version[h[1]][h[2]]
    BY <1>4, <2>1 DEF HashFits
  <2>3. ASSUME NEW bar \in used' PROVE Covered(bar, hashed', revisedBars, 0)
    <3>1. CASE bar \in used
      BY <1>4, <3>1, CoveredByMore DEF HashFits
    <3>2. CASE bar \in bars
      <4>1. bar \in hashed' /\ bar[3] \in Nat /\ revisedBars \in Nat
        BY <1>4, <2>1, <3>2 DEF TrTypes
      <4> QED
        BY <4>1 DEF Covered
    <3> QED
      BY <1>4, <3>1, <3>2
  <2>4. \A d \in TradingDays : version[s][d] > 0 => \E h \in hashed' : h[1] = s /\ h[2] = d
    <3> SUFFICES ASSUME NEW d \in TradingDays, version[s][d] > 0
                 PROVE  \E h \in hashed' : h[1] = s /\ h[2] = d
      OBVIOUS
    <3>1. <<s, d, version[s][d]>> \in hashed'
      BY <1>3, <1>4
    <3>2. <<s, d, version[s][d]>>[1] = s /\ <<s, d, version[s][d]>>[2] = d
      OBVIOUS
    <3> QED
      BY <3>1, <3>2
  <2> QED
    BY <1>1, <2>2, <2>3, <2>4 DEF HashFits, Covered, s
<1> QED
  BY <1>5, <1>6, <1>7, <1>8

\* Labels are made for days whose target day is in the calendar, from bars read again.
LEMMA StepReadTargets ==
  ASSUME TrainInv, ReadTargets
  PROVE  TrainInv'
<1> USE DEF TrainInv
<1> DEFINE s == Learnt[turn]
           bars == BarsOf(s, TradingDays)
           signals == {dates[i] : i \in {j \in DOMAIN dates : HasLabel(j, DaysOf(bars))}}
           looked == signals \cup {dates[PositionOf(d) + asked.horizon] : d \in signals}
           read == {bar \in bars : bar[2] \in looked}
<1>1. ~ model.present /\ applied.stage = "idle" /\ applied.outcome # "completed" /\ step = "targets"
  BY DEF ModelFits, AppliedFits, ReadTargets
<1>2. s \in Priced /\ s \in LearntSymbols
  BY TrainingNumbers DEF TrTypes
<1>3. bars \subseteq Seen /\ \A bar \in bars : bar[1] = s /\ bar[2] \in TradingDays /\ bar[3] = version[s][bar[2]] /\ bar[3] > 0
  BY <1>2, BarsAreCurrent
<1>4. \A d \in signals : \E i \in DOMAIN dates : d = dates[i] /\ i + asked.horizon <= Len(dates)
  BY DEF HasLabel
<1>5. /\ labels' = [labels EXCEPT ![s] = signals] /\ used' = used \cup read /\ read \subseteq bars
      /\ UNCHANGED <<version, asked, dates, features, hashed, model, applied, revisedBars>>
  BY DEF ReadTargets
<1>6. turn' \in DOMAIN Learnt /\ step' \in {"features", "fit"}
  <2>1. Learnt \in Seq(LearntSymbols) /\ 1 \in DOMAIN Learnt
    BY TrainingNumbers
  <2>2. DOMAIN Learnt = 1 .. Len(Learnt) /\ Len(Learnt) \in Nat /\ turn \in DOMAIN Learnt
    BY <2>1 DEF TrTypes
  <2>3. \/ turn < Len(Learnt) /\ turn' = turn + 1 /\ step' = "features"
        \/ turn' = 1 /\ step' = "fit"
    BY DEF ReadTargets
  <2> QED
    BY <2>1, <2>2, <2>3
<1> HIDE DEF s, bars, signals, looked, read
<1>7. signals \subseteq TradingDays
  BY <1>4, DaysAreNumbered DEF TrTypes
<1>8. TrTypes'
  BY <1>2, <1>3, <1>5, <1>6, <1>7 DEF TrTypes, Rises
<1>9. LabelsFit'
  <2>1. ASSUME NEW t \in LearntSymbols, NEW d \in labels'[t]
        PROVE  \E i \in DOMAIN dates : d = dates[i] /\ i + asked.horizon <= Len(dates)
    <3>1. CASE t = s
      BY <1>2, <1>4, <1>5, <2>1, <3>1 DEF TrTypes
    <3>2. CASE t # s
      BY <1>5, <2>1, <3>2 DEF TrTypes, LabelsFit
    <3> QED
      BY <3>1, <3>2
  <2> QED
    BY <1>5, <1>6, <2>1 DEF LabelsFit
<1>10. VersionsCount' /\ EmbargoHolds'
  BY <1>1, <1>5 DEF VersionsCount, EmbargoHolds
<1>11. ModelFits' /\ AppliedFits' /\ NoLabelReachesValidation' /\ NoSignalWasLearnt' /\ HashesNameTheirInputs'
  BY <1>1, <1>5, <1>6 DEF ModelFits, AppliedFits, NoLabelReachesValidation, NoSignalWasLearnt, HashesNameTheirInputs
<1>12. HashFits'
  <2>1. ASSUME NEW bar \in used' PROVE Covered(bar, hashed, revisedBars, 0)
    <3>1. CASE bar \in used
      BY <3>1 DEF HashFits
    <3>2. CASE bar \in bars
      <4>1. bar[1] = s /\ bar[2] \in TradingDays /\ bar[3] = version[s][bar[2]] /\ version[s][bar[2]] > 0
        BY <1>3, <3>2
      <4>2. PICK h \in hashed : h[1] = s /\ h[2] = bar[2]
        BY <1>1, <4>1 DEF HashFits, s
      <4>3. h[3] \in Nat /\ h[3] >= 1 /\ h[3] <= version[s][bar[2]]
        BY <4>2 DEF TrTypes, HashFits, Seen
      <4>4. version[s][bar[2]] \in Nat /\ revisedBars \in Nat /\ version[s][bar[2]] <= 1 + revisedBars
        BY <1>2, <4>1 DEF TrTypes, VersionsCount
      <4> QED
        BY <4>1, <4>2, <4>3, <4>4 DEF Covered
    <3> QED
      BY <1>5, <3>1, <3>2
  <2> QED
    BY <1>1, <1>5, <1>6, <2>1 DEF HashFits, Covered
<1> QED
  BY <1>8, <1>9, <1>10, <1>11, <1>12

\* A model is stored: its folds keep the embargo, and it begins after its labels.
LEMMA StepFitAndSave ==
  ASSUME TrainInv, FitAndSave
  PROVE  TrainInv'
<1> USE DEF TrainInv
<1>1. ~ model.present /\ applied.stage = "idle" /\ applied.outcome # "completed" /\ step = "fit"
  BY DEF ModelFits, AppliedFits, FitAndSave
<1>2. /\ UNCHANGED <<version, asked, turn, dates, features, labels, hashed, used, applied, revisedBars>>
      /\ step' \in {"refused", "done"}
  BY DEF FitAndSave
<1>3. TrTypes' /\ VersionsCount'
  BY <1>2 DEF TrTypes, Rises, VersionsCount
<1>4. LabelsFit' /\ EmbargoHolds'
  BY <1>1, <1>2 DEF LabelsFit, EmbargoHolds
<1>5. CASE step' = "refused" /\ model' = model
  BY <1>1, <1>2, <1>3, <1>4, <1>5 DEF ModelFits, HashFits, Covered, AppliedFits, NoLabelReachesValidation,
     NoSignalWasLearnt, HashesNameTheirInputs
<1>6. CASE step' = "done"
  <2> DEFINE fits == FoldsFit(dates, asked.embargo)
             final == Fold(dates, Max(fits), asked.embargo)
             n == final.trainEnd
  <2>1. /\ fits # {}
        /\ \E first \in {OutOfSampleStart(n), 0} :
              model' = [present |-> TRUE, trainEnd |-> dates[n], embargo |-> asked.embargo,
                        start |-> first, hash |-> hashed, evaluations |-> Evaluations,
                        labelsReach |-> LastLookedAt(SamplesUpTo(n)), used |-> used]
    BY <1>6 DEF FitAndSave
  <2>2. /\ model'.present /\ model'.trainEnd = dates[n] /\ model'.embargo = asked.embargo
        /\ model'.start \in {OutOfSampleStart(n), 0} /\ model'.hash = hashed /\ model'.used = used
        /\ model'.evaluations = Evaluations /\ model'.labelsReach = LastLookedAt(SamplesUpTo(n))
    <3> HIDE DEF n
    <3> QED
      BY <2>1
  <2>3. dates \in Seq(TradingDays) /\ asked.embargo \in Nat /\ asked.horizon \in Nat \ {0}
    BY DEF TrTypes
  <2>4. Max(fits) \in fits
    <3>1. fits \subseteq 0 .. CalendarDays /\ CalendarDays \in Nat
      BY TrainingNumbers DEF FoldsFit
    <3> HIDE DEF fits
    <3> QED
      BY <2>1, <3>1, MaxIsIn
  <2>5. n \in DOMAIN dates /\ n \in Nat
    BY <2>3, <2>4, FoldIs, DaysAreNumbered
  <2>6. \/ model'.labelsReach = 0
        \/ \E j \in DOMAIN dates : j <= n + asked.horizon /\ model'.labelsReach = dates[j]
    <3> HIDE DEF n
    <3> QED
      BY <2>2, <2>5, LastLookedIs
  <2>7. model'.start # 0 => n + asked.embargo + 1 \in DOMAIN dates /\ model'.start = dates[n + asked.embargo + 1]
    <3> HIDE DEF n
    <3> QED
      BY <2>2, <2>3, <2>5, DaysAreNumbered DEF OutOfSampleStart
  <2>8. ModelFits'
    <3> HIDE DEF n
    <3> QED
      BY <1>2, <1>6, <2>2, <2>5, <2>6, <2>7 DEF ModelFits
  <2>9. NoLabelReachesValidation'
    <3>1. ASSUME NEW e \in Evaluations PROVE e.labelsReach < e.validStart
      <4>1. PICK fold \in {Fold(dates, k, asked.embargo) : k \in fits} :
              e = [labelsReach |-> LastLookedAt(SamplesUpTo(fold.trainEnd)), validStart |-> dates[fold.validStart]]
        BY <3>1 DEF Evaluations
      <4>2. /\ fold.trainEnd \in DOMAIN dates /\ fold.validStart = fold.trainEnd + asked.embargo + 1
            /\ fold.validStart \in DOMAIN dates
        BY <2>3, <4>1, FoldIs
      <4> DEFINE m == fold.trainEnd
                 v == fold.validStart
      <4>3. m \in Nat /\ v \in Nat /\ v = m + asked.embargo + 1 /\ v \in DOMAIN dates
        BY <2>3, <4>2, DaysAreNumbered
      <4>4. /\ e.validStart = dates[v]
            /\ e.labelsReach = LastLookedAt(SamplesUpTo(m))
        BY <4>1
      <4> HIDE DEF m, v
      <4>5. \/ e.labelsReach = 0
            \/ \E j \in DOMAIN dates : j <= m + asked.horizon /\ e.labelsReach = dates[j]
        BY <4>3, <4>4, LastLookedIs
      <4>6. asked.embargo >= asked.horizon
        BY <1>1 DEF EmbargoHolds
      <4>7. dates[v] \in TradingDays /\ dates[v] > 0
        BY <2>3, <4>3, DaysAreNumbered, TrainingNumbers
      <4>8. ASSUME NEW j \in DOMAIN dates, j <= m + asked.horizon PROVE dates[j] < dates[v]
        <5>1. j < v
          BY <2>3, <4>3, <4>6, <4>8, DaysAreNumbered
        <5> QED
          BY <4>3, <5>1 DEF TrTypes, Rises
      <4> QED
        BY <4>4, <4>5, <4>7, <4>8
    <3> QED
      BY <2>2, <3>1 DEF NoLabelReachesValidation
  <2>10. HashFits'
    BY <1>2, <1>6, <2>2 DEF HashFits, Covered, TrTypes
  <2>11. NoSignalWasLearnt' /\ AppliedFits'
    BY <1>1, <1>2 DEF NoSignalWasLearnt, AppliedFits
  <2>12. HashesNameTheirInputs'
    BY <1>1, <1>2, <2>2 DEF HashesNameTheirInputs, HashFits, Covered
  <2> QED
    BY <1>3, <1>4, <2>8, <2>9, <2>10, <2>11, <2>12
<1>7. step' = "done" \/ (step' = "refused" /\ model' = model)
  BY DEF FitAndSave
<1> QED
  BY <1>5, <1>6, <1>7

\* What a step of a backtest leaves alone.
LEMMA BacktestFrame ==
  ASSUME TrainInv, UNCHANGED <<version, asked, step, turn, dates, features, labels, hashed, used, model, revisedBars>>
  PROVE  /\ VersionsCount' /\ LabelsFit' /\ EmbargoHolds' /\ ModelFits' /\ HashFits' /\ NoLabelReachesValidation'
         /\ (applied.outcome # "completed" /\ applied'.outcome # "completed") =>
              NoSignalWasLearnt' /\ HashesNameTheirInputs'
BY DEF TrainInv, VersionsCount, LabelsFit, EmbargoHolds, ModelFits, HashFits, Covered, NoLabelReachesValidation,
   NoSignalWasLearnt, HashesNameTheirInputs

\* A backtest begins with a stored model.
LEMMA StepReadModel ==
  ASSUME TrainInv, NEW window \in Windows, ReadModel(window)
  PROVE  TrainInv'
<1> USE DEF TrainInv, ReadModel
<1>1. window \in [first : Nat, last : Nat, signals : SUBSET TradingDays]
  BY TrainingAssumption DEF TradingDays
<1>2. /\ applied.stage = "idle" /\ applied'.stage = "features" /\ applied'.window = window
      /\ applied'.outcome = applied.outcome
  BY DEF TrTypes
<1>3. TrTypes'
  BY <1>1 DEF TrTypes, Rises
<1>4. AppliedFits'
  BY <1>2 DEF AppliedFits, ModelFits
<1>5. applied.outcome # "completed"
  BY DEF AppliedFits
<1> QED
  BY <1>2, <1>3, <1>4, <1>5, BacktestFrame

\* Its features are made from the bars of the moment.
LEMMA StepApplyFeatures ==
  ASSUME TrainInv, ApplyFeatures
  PROVE  TrainInv'
<1> USE DEF TrainInv
<1> DEFINE days == 1 .. applied.window.last
           dated == DaysOf(BarsOf(Benchmark, days))
           shared(s) == {bar \in BarsOf(s, days) : bar[2] \in dated}
           read == BarsOf(Benchmark, days) \cup UNION {shared(s) : s \in LearntSymbols}
           rows == {row \in LearntSymbols \X days : row[2] \in FeatureDays(DaysOf(shared(row[1])))}
<1>1. applied.stage = "features" /\ applied' = [applied EXCEPT !.stage = "load", !.used = read, !.known = rows]
  BY DEF ApplyFeatures
<1>2. UNCHANGED <<version, asked, step, turn, dates, features, labels, hashed, used, model, revisedBars>>
  BY DEF ApplyFeatures
<1>3. days \subseteq TradingDays /\ applied.window \in Windows
  <2>1. applied.window \in Windows
    BY <1>1 DEF AppliedFits
  <2>2. applied.window.last \in 0 .. CalendarDays
    BY <2>1, TrainingAssumption
  <2> QED
    BY <2>1, <2>2, TrainingNumbers
<1>4. rows \subseteq LearntSymbols \X Nat
  BY <1>3, TrainingNumbers
<1> HIDE DEF days
<1>5. Benchmark \in Priced /\ LearntSymbols \subseteq Priced
  BY TrainingNumbers DEF Priced
<1>6. \A bar \in read : \E s \in Priced : bar \in BarsOf(s, days)
  <2>1. \A T : (\A S \in T : \E s \in Priced : S \subseteq BarsOf(s, days)) =>
                 \A bar \in UNION T : \E s \in Priced : bar \in BarsOf(s, days)
    OBVIOUS
  <2>2. \A S \in {shared(s) : s \in LearntSymbols} : \E s \in Priced : S \subseteq BarsOf(s, days)
    BY <1>5
  <2> DEFINE parts == UNION {shared(s) : s \in LearntSymbols}
  <2>3. \A bar \in parts : \E s \in Priced : bar \in BarsOf(s, days)
    BY <2>1, <2>2
  <2>4. read = BarsOf(Benchmark, days) \cup parts
    OBVIOUS
  <2> HIDE DEF parts, read
  <2> QED
    BY <1>5, <2>3, <2>4
<1>7. \A bar \in read : bar \in Seen /\ bar[3] = version[bar[1]][bar[2]] /\ bar[3] \in Nat
  <2>1. \A s \in Priced : \A bar \in BarsOf(s, days) :
          bar \in Seen /\ bar[1] = s /\ bar[3] = version[s][bar[2]]
    BY <1>3, BarsAreCurrent
  <2>2. \A bar \in Seen : bar[3] \in Nat
    BY DEF Seen
  <2> HIDE DEF read
  <2> QED
    BY <1>6, <2>1, <2>2
<1> HIDE DEF read, rows
<1>8. /\ applied'.stage = "load" /\ applied'.used = read /\ applied'.window = applied.window
      /\ applied'.outcome = applied.outcome /\ applied.outcome # "completed"
  BY <1>1 DEF TrTypes, AppliedFits
<1>9. TrTypes'
  BY <1>1, <1>2, <1>4, <1>7 DEF TrTypes, Rises
<1>10. AppliedFits'
  BY <1>1, <1>2, <1>3, <1>7, <1>8 DEF AppliedFits
<1> QED
  BY <1>2, <1>8, <1>9, <1>10, BacktestFrame

\* A signal that is accepted lies past every day that a label has seen.
LEMMA AcceptedIsLater ==
  ASSUME TrTypes, LabelsFit, EmbargoHolds, ModelFits, model.present,
         model.start # 0 \/ BenchmarkIsWhole, ~ Overlaps, applied.window \in Windows,
         NEW d \in applied.window.signals
  PROVE  d > model.labelsReach
<1>1. asked.embargo \in Nat /\ asked.horizon \in Nat /\ asked.embargo >= asked.horizon /\ dates \in Seq(TradingDays)
  BY DEF TrTypes, ModelFits, EmbargoHolds
<1>2. PICK n \in DOMAIN dates :
        /\ model.trainEnd = dates[n] /\ model.embargo = asked.embargo
        /\ model.start # 0 => n + model.embargo + 1 \in DOMAIN dates /\ model.start = dates[n + model.embargo + 1]
        /\ \/ model.labelsReach = 0
           \/ \E j \in DOMAIN dates : j <= n + asked.horizon /\ model.labelsReach = dates[j]
  BY DEF ModelFits
<1> DEFINE v == n + asked.embargo + 1
<1>3. n \in Nat /\ v \in Nat
  BY <1>1, <1>2, DaysAreNumbered
<1>4. applied.window.signals \subseteq Nat /\ d \in Nat /\ d >= 1
  <2>1. applied.window.signals \subseteq TradingDays
    BY TrainingAssumption DEF TradingDays
  <2> QED
    BY <2>1, TrainingNumbers
<1>5. Boundary # 0 /\ ~ (Min(applied.window.signals) < Boundary)
  BY DEF Overlaps
<1>6. Min(applied.window.signals) \in Nat /\ Min(applied.window.signals) <= d
  BY <1>4, MinIsLeast
<1>7. CASE model.start # 0
  <2>1. Boundary = dates[v] /\ v \in DOMAIN dates
    BY <1>2, <1>7 DEF Boundary
  <2>2. dates[v] \in Nat
    BY <1>1, <2>1, DaysAreNumbered, TrainingNumbers
  <2>3. dates[v] <= d
    BY <1>4, <1>5, <1>6, <2>1, <2>2
  <2>4. ASSUME NEW j \in DOMAIN dates, j <= n + asked.horizon PROVE dates[j] < dates[v]
    <3>1. j < v
      BY <1>1, <1>3, <2>4, DaysAreNumbered
    <3> HIDE DEF v
    <3> QED
      BY <2>1, <3>1 DEF TrTypes, Rises
  <2>5. \A j \in DOMAIN dates : dates[j] \in Int
    BY <1>1, DaysAreNumbered
  <2> HIDE DEF v
  <2> QED
    BY <1>2, <1>4, <2>2, <2>3, <2>4, <2>5
<1>8. CASE model.start = 0
  <2>1. BenchmarkIsWhole
    BY <1>8
  <2>2. \A i \in DOMAIN dates : dates[i] = i
    BY <1>1, <2>1, WholeIsAll DEF TrTypes, BenchmarkIsWhole
  <2>3. model.trainEnd = n
    BY <1>2, <2>2
  <2>4. Boundary = n + asked.embargo + 1
    BY <1>2, <1>5, <1>8, <2>3 DEF Boundary
  <2>5. n + asked.embargo + 1 <= d
    BY <1>1, <1>3, <1>4, <1>5, <1>6, <2>4
  <2>6. \A j \in DOMAIN dates : j \in Int
    BY <1>1, DaysAreNumbered
  <2> QED
    BY <1>1, <1>2, <1>3, <1>4, <2>2, <2>5, <2>6
<1> QED
  BY <1>7, <1>8

\* The runner hashes the bars of the window after the features were made from them.
LEMMA StepRunBacktest ==
  ASSUME TrainInv, RunBacktest
  PROVE  TrainInv'
<1> USE DEF TrainInv
<1> DEFINE hash == UNION {BarsOf(s, WindowDays) : s \in LearntSymbols}
<1>1. /\ applied.stage = "load" /\ applied.outcome # "completed"
      /\ applied' = [applied EXCEPT !.stage = "over", !.hash = hash,
           !.outcome = IF Overlaps THEN "train_window_overlap"
                       ELSE IF Predicted = {} THEN "no_signal_candidate" ELSE "completed"]
  BY DEF RunBacktest, AppliedFits
<1>2. UNCHANGED <<version, asked, step, turn, dates, features, labels, hashed, used, model, revisedBars>>
  BY DEF RunBacktest
<1>3. WindowDays \subseteq TradingDays /\ applied.window \in Windows /\ model.present
  <2>1. applied.window \in Windows /\ model.present
    BY <1>1 DEF AppliedFits
  <2>2. applied.window.first \in Nat \ {0} /\ applied.window.last \in 0 .. CalendarDays
    BY <2>1, TrainingAssumption
  <2> QED
    BY <2>1, <2>2, TrainingNumbers DEF WindowDays
<1>4. \A s \in LearntSymbols : s \in Priced /\ BarsOf(s, WindowDays) \subseteq Seen /\ BarsOf(s, WindowDays) \subseteq hash
  BY <1>3, BarsAreCurrent, TrainingNumbers
<1>5. hash \subseteq Seen
  BY <1>4
<1>6. \A s \in LearntSymbols : \A d \in WindowDays : version[s][d] > 0 => <<s, d, version[s][d]>> \in hash
  BY <1>3, <1>4, BarsAreCurrent
<1> HIDE DEF hash
<1>7. /\ applied'.stage = "over" /\ applied'.window = applied.window /\ applied'.used = applied.used
      /\ applied'.hash = hash /\ (applied'.outcome = "completed" => ~ Overlaps)
  BY <1>1 DEF TrTypes
<1>8. TrTypes'
  <2>1. (IF Overlaps THEN "train_window_overlap" ELSE IF Predicted = {} THEN "no_signal_candidate" ELSE "completed")
          \in {"none", "train_window_overlap", "no_signal_candidate", "completed"}
    OBVIOUS
  <2> QED
    BY <1>1, <1>2, <1>5, <2>1 DEF TrTypes, Rises
<1>9. AppliedFits'
  BY <1>2, <1>3, <1>7 DEF AppliedFits
<1>10. NoSignalWasLearnt'
  <2>1. ASSUME applied'.outcome = "completed", model.start # 0 \/ BenchmarkIsWhole, NEW d \in applied.window.signals
        PROVE  d > model.labelsReach
    BY <1>3, <1>7, <2>1, AcceptedIsLater
  <2> QED
    BY <1>2, <1>7, <2>1 DEF NoSignalWasLearnt, BenchmarkIsWhole
<1>11. HashesNameTheirInputs'
  <2>1. ASSUME NEW bar \in applied.used, bar[1] # Benchmark, bar[2] \in WindowDays
        PROVE  Covered(bar, hash, 0, revisedBars)
    <3>1. bar \in Seen /\ bar[1] \in LearntSymbols /\ bar[3] \in Nat \ {0} /\ bar[2] \in TradingDays
      BY <2>1 DEF TrTypes, Seen, Priced
    <3> DEFINE v == version[bar[1]][bar[2]]
               h == <<bar[1], bar[2], v>>
    <3>2. v \in Nat /\ bar[3] <= v /\ v <= 1 + revisedBars /\ revisedBars \in Nat
      BY <1>1, <1>4, <3>1 DEF TrTypes, AppliedFits, VersionsCount
    <3>3. h \in hash /\ h[1] = bar[1] /\ h[2] = bar[2] /\ h[3] = v
      BY <1>6, <2>1, <3>1, <3>2
    <3> HIDE DEF v, h
    <3>4. h[3] >= bar[3] - 0 /\ h[3] <= bar[3] + revisedBars
      BY <3>1, <3>2, <3>3
    <3> QED
      BY <3>3, <3>4 DEF Covered
  <2>2. model.present => \A bar \in model.used : Covered(bar, model.hash, revisedBars, 0)
    BY DEF HashFits
  <2> QED
    BY <1>2, <1>7, <2>1, <2>2 DEF HashesNameTheirInputs, Covered, WindowDays
<1> QED
  BY <1>2, <1>8, <1>9, <1>10, <1>11, BacktestFrame

\* The invariant holds in every state.
LEMMA TrainingInductive ==
  TrSpec => []TrainInv
<1>1. TrainInv /\ [TrNext]_trVars => TrainInv'
  <2> SUFFICES ASSUME TrainInv, [TrNext]_trVars PROVE TrainInv'
    OBVIOUS
  <2>1. CASE UNCHANGED trVars
    BY <2>1 DEF trVars, TrainInv, TrTypes, Rises, VersionsCount, LabelsFit, EmbargoHolds, ModelFits, HashFits, Covered,
       AppliedFits, NoLabelReachesValidation, NoSignalWasLearnt, BenchmarkIsWhole, HashesNameTheirInputs, WindowDays
  <2>2. CASE TrNext
    BY <2>2, StepCorrectPrice, StepLoadCalendar, StepReadFeatures, StepReadTargets, StepFitAndSave, StepReadModel,
       StepApplyFeatures, StepRunBacktest DEF TrNext
  <2> QED
    BY <2>1, <2>2
<1> QED
  BY <1>1, InitTrain, PTL DEF TrSpec

\* For any universe, calendar, gaps, horizons, embargoes and windows, and bars corrected
\* at any moment (ModelTrainer, ml_signals.py): no label of a fold reaches its validation,
\* no signal of an accepted backtest lies on a day that a label has seen, and the stored
\* hashes name the bars that were used.
THEOREM TrainingCorrect == TrSpec => TrainingContract
<1>1. TrainInv' => NoLabelReachesValidation' /\ NoSignalWasLearnt' /\ HashesNameTheirInputs'
  BY DEF TrainInv
<1> QED
  BY <1>1, TrainingInductive, PTL DEF TrainingContract

-----------------------------------------------------------------------------
(* The page that is put together.                                        *)

PagePlaces == {"asked", "baselines", "opening", "attempts", "rejects", "failures",
               "incidents", "unreconciled", "stale", "shown"}
PageType ==
  [at : PagePlaces, kind : {"limits", "gate"}, since : Nat, began : Nat, received : Nat,
   nav : SUBSET (Nat \ {0}), day : SUBSET Nat, peak : SUBSET (Nat \ {0}), opening : SUBSET (Nat \ {0}),
   attempts : SUBSET Nat, rejects : SUBSET Nat, usage : [PauseRules -> SUBSET Int],
   known : Nat, oldOpen : SUBSET Nat, days : SUBSET Nat, incidents : Nat, unreconciled : Nat,
   reconciled : BOOLEAN, quiet : BOOLEAN]

\* What the page was asked with, and the values it has read.
SameQuestion(e, q) ==
  /\ e.kind = q.kind /\ e.since = q.since /\ e.began = q.began /\ e.received = q.received
  /\ e.nav = q.nav /\ e.day = q.day /\ e.known = q.known /\ e.oldOpen = q.oldOpen /\ e.days = q.days
SameLosses(e, q) == e.peak = q.peak /\ e.opening = q.opening
SameCounts(e, q) == e.attempts = q.attempts /\ e.rejects = q.rejects
SameGate(e, q) == e.incidents = q.incidents /\ e.unreconciled = q.unreconciled

\* The page before anything is known.
LEMMA AskedIsPage == Asked \in PageType
  BY DEF Asked, PageType, PagePlaces

\* A reading of the peak.
LEMMA PeakField ==
  ASSUME NEW q \in PageType, NEW S \in SUBSET (Nat \ {0})
  PROVE  LET e == [q EXCEPT !.at = "opening", !.peak = S] IN
           /\ e \in PageType /\ SameQuestion(e, q) /\ e.at = "opening" /\ e.peak = S
           /\ e.opening = q.opening /\ SameCounts(e, q)
<1> DEFINE a == [q EXCEPT !.at = "opening"]
           e == [a EXCEPT !.peak = S]
<1>1. /\ a \in PageType /\ SameQuestion(a, q) /\ a.at = "opening"
      /\ SameLosses(a, q) /\ SameCounts(a, q) /\ SameGate(a, q)
  BY DEF PageType, PagePlaces, SameQuestion, SameLosses, SameCounts, SameGate
<1> HIDE DEF a
<1>2. /\ e \in PageType /\ SameQuestion(e, a) /\ e.at = a.at /\ e.peak = S
      /\ e.opening = a.opening /\ SameCounts(e, a)
  BY <1>1 DEF PageType, SameQuestion, SameLosses, SameCounts, SameGate
<1>3. [q EXCEPT !.at = "opening", !.peak = S] = e
  BY DEF a
<1> QED
  BY <1>1, <1>2, <1>3 DEF SameQuestion, SameLosses, SameCounts, SameGate

\* A reading of the value at the opening.
LEMMA OpeningField ==
  ASSUME NEW q \in PageType, NEW S \in SUBSET (Nat \ {0})
  PROVE  LET e == [q EXCEPT !.at = "attempts", !.opening = S] IN
           /\ e \in PageType /\ SameQuestion(e, q) /\ e.at = "attempts" /\ e.opening = S
           /\ e.peak = q.peak /\ SameCounts(e, q)
<1> DEFINE a == [q EXCEPT !.at = "attempts"]
           e == [a EXCEPT !.opening = S]
<1>1. /\ a \in PageType /\ SameQuestion(a, q) /\ a.at = "attempts"
      /\ SameLosses(a, q) /\ SameCounts(a, q) /\ SameGate(a, q)
  BY DEF PageType, PagePlaces, SameQuestion, SameLosses, SameCounts, SameGate
<1> HIDE DEF a
<1>2. /\ e \in PageType /\ SameQuestion(e, a) /\ e.at = a.at /\ e.opening = S
      /\ e.peak = a.peak /\ SameCounts(e, a)
  BY <1>1 DEF PageType, SameQuestion, SameLosses, SameCounts, SameGate
<1>3. [q EXCEPT !.at = "attempts", !.opening = S] = e
  BY DEF a
<1> QED
  BY <1>1, <1>2, <1>3 DEF SameQuestion, SameLosses, SameCounts, SameGate

\* A reading of the attempts.
LEMMA AttemptsField ==
  ASSUME NEW q \in PageType, NEW S \in SUBSET Nat
  PROVE  LET e == [q EXCEPT !.at = "rejects", !.attempts = S] IN
           /\ e \in PageType /\ SameQuestion(e, q) /\ e.at = "rejects" /\ e.attempts = S
           /\ SameLosses(e, q) /\ e.rejects = q.rejects
<1> DEFINE a == [q EXCEPT !.at = "rejects"]
           e == [a EXCEPT !.attempts = S]
<1>1. /\ a \in PageType /\ SameQuestion(a, q) /\ a.at = "rejects"
      /\ SameLosses(a, q) /\ SameCounts(a, q) /\ SameGate(a, q)
  BY DEF PageType, PagePlaces, SameQuestion, SameLosses, SameCounts, SameGate
<1> HIDE DEF a
<1>2. /\ e \in PageType /\ SameQuestion(e, a) /\ e.at = a.at /\ e.attempts = S
      /\ SameLosses(e, a) /\ e.rejects = a.rejects
  BY <1>1 DEF PageType, SameQuestion, SameLosses, SameCounts, SameGate
<1>3. [q EXCEPT !.at = "rejects", !.attempts = S] = e
  BY DEF a
<1> QED
  BY <1>1, <1>2, <1>3 DEF SameQuestion, SameLosses, SameCounts, SameGate

\* A reading of the rejections.
LEMMA RejectsField ==
  ASSUME NEW q \in PageType, NEW S \in SUBSET Nat
  PROVE  LET e == [q EXCEPT !.at = "failures", !.rejects = S] IN
           /\ e \in PageType /\ SameQuestion(e, q) /\ e.at = "failures" /\ e.rejects = S
           /\ SameLosses(e, q) /\ e.attempts = q.attempts
<1> DEFINE a == [q EXCEPT !.at = "failures"]
           e == [a EXCEPT !.rejects = S]
<1>1. /\ a \in PageType /\ SameQuestion(a, q) /\ a.at = "failures"
      /\ SameLosses(a, q) /\ SameCounts(a, q) /\ SameGate(a, q)
  BY DEF PageType, PagePlaces, SameQuestion, SameLosses, SameCounts, SameGate
<1> HIDE DEF a
<1>2. /\ e \in PageType /\ SameQuestion(e, a) /\ e.at = a.at /\ e.rejects = S
      /\ SameLosses(e, a) /\ e.attempts = a.attempts
  BY <1>1 DEF PageType, SameQuestion, SameLosses, SameCounts, SameGate
<1>3. [q EXCEPT !.at = "failures", !.rejects = S] = e
  BY DEF a
<1> QED
  BY <1>1, <1>2, <1>3 DEF SameQuestion, SameLosses, SameCounts, SameGate

\* The answer on the limits.
LEMMA UsageField ==
  ASSUME NEW q \in PageType, NEW S \in [PauseRules -> SUBSET Int]
  PROVE  LET e == [q EXCEPT !.at = "shown", !.usage = S] IN
           /\ e \in PageType /\ SameQuestion(e, q) /\ e.at = "shown" /\ e.usage = S
           /\ SameLosses(e, q) /\ SameCounts(e, q)
<1> DEFINE a == [q EXCEPT !.at = "shown"]
           e == [a EXCEPT !.usage = S]
<1>1. /\ a \in PageType /\ SameQuestion(a, q) /\ a.at = "shown"
      /\ SameLosses(a, q) /\ SameCounts(a, q) /\ SameGate(a, q)
  BY DEF PageType, PagePlaces, SameQuestion, SameLosses, SameCounts, SameGate
<1> HIDE DEF a
<1>2. /\ e \in PageType /\ SameQuestion(e, a) /\ e.at = a.at /\ e.usage = S
      /\ SameLosses(e, a) /\ SameCounts(e, a)
  BY <1>1 DEF PageType, SameQuestion, SameLosses, SameCounts, SameGate
<1>3. [q EXCEPT !.at = "shown", !.usage = S] = e
  BY DEF a
<1> QED
  BY <1>1, <1>2, <1>3 DEF SameQuestion, SameLosses, SameCounts, SameGate

\* A reading of the incidents.
LEMMA IncidentsField ==
  ASSUME NEW q \in PageType, NEW S \in Nat
  PROVE  LET e == [q EXCEPT !.at = "unreconciled", !.incidents = S] IN
           /\ e \in PageType /\ SameQuestion(e, q) /\ e.at = "unreconciled" /\ e.incidents = S
           /\ e.unreconciled = q.unreconciled
<1> DEFINE a == [q EXCEPT !.at = "unreconciled"]
           e == [a EXCEPT !.incidents = S]
<1>1. /\ a \in PageType /\ SameQuestion(a, q) /\ a.at = "unreconciled"
      /\ SameLosses(a, q) /\ SameCounts(a, q) /\ SameGate(a, q)
  BY DEF PageType, PagePlaces, SameQuestion, SameLosses, SameCounts, SameGate
<1> HIDE DEF a
<1>2. /\ e \in PageType /\ SameQuestion(e, a) /\ e.at = a.at /\ e.incidents = S
      /\ e.unreconciled = a.unreconciled
  BY <1>1 DEF PageType, SameQuestion, SameLosses, SameCounts, SameGate
<1>3. [q EXCEPT !.at = "unreconciled", !.incidents = S] = e
  BY DEF a
<1> QED
  BY <1>1, <1>2, <1>3 DEF SameQuestion, SameLosses, SameCounts, SameGate

\* A reading of the problems.
LEMMA UnreconciledField ==
  ASSUME NEW q \in PageType, NEW S \in Nat
  PROVE  LET e == [q EXCEPT !.at = "stale", !.unreconciled = S] IN
           /\ e \in PageType /\ SameQuestion(e, q) /\ e.at = "stale" /\ e.unreconciled = S
           /\ e.incidents = q.incidents
<1> DEFINE a == [q EXCEPT !.at = "stale"]
           e == [a EXCEPT !.unreconciled = S]
<1>1. /\ a \in PageType /\ SameQuestion(a, q) /\ a.at = "stale"
      /\ SameLosses(a, q) /\ SameCounts(a, q) /\ SameGate(a, q)
  BY DEF PageType, PagePlaces, SameQuestion, SameLosses, SameCounts, SameGate
<1> HIDE DEF a
<1>2. /\ e \in PageType /\ SameQuestion(e, a) /\ e.at = a.at /\ e.unreconciled = S
      /\ e.incidents = a.incidents
  BY <1>1 DEF PageType, SameQuestion, SameLosses, SameCounts, SameGate
<1>3. [q EXCEPT !.at = "stale", !.unreconciled = S] = e
  BY DEF a
<1> QED
  BY <1>1, <1>2, <1>3 DEF SameQuestion, SameLosses, SameCounts, SameGate

\* The answer on live trading.
GatePage(q, r, t) == [q EXCEPT !.at = "shown", !.reconciled = r, !.quiet = t]

\* It changes these values only.
LEMMA GateFields ==
  ASSUME NEW q \in PageType, NEW r \in BOOLEAN, NEW t \in BOOLEAN
  PROVE  LET e == GatePage(q, r, t) IN
           /\ e \in PageType /\ SameQuestion(e, q) /\ SameGate(e, q)
           /\ e.at = "shown" /\ e.reconciled = r /\ e.quiet = t
<1> DEFINE a == [q EXCEPT !.at = "shown"]
           b == [a EXCEPT !.reconciled = r]
           e == [b EXCEPT !.quiet = t]
<1>1. a \in PageType /\ SameQuestion(a, q) /\ SameGate(a, q) /\ a.at = "shown"
  BY DEF PageType, PagePlaces, SameQuestion, SameGate
<1> HIDE DEF a
<1>2. b \in PageType /\ SameQuestion(b, a) /\ SameGate(b, a) /\ b.at = a.at /\ b.reconciled = r
  BY <1>1 DEF PageType, SameQuestion, SameGate
<1> HIDE DEF b
<1>3. /\ e \in PageType /\ SameQuestion(e, b) /\ SameGate(e, b) /\ e.at = b.at
      /\ e.reconciled = b.reconciled /\ e.quiet = t
  BY <1>2 DEF PageType, SameQuestion, SameGate
<1>4. GatePage(q, r, t) = e
  BY DEF a, b, GatePage
<1> QED
  BY <1>1, <1>2, <1>3, <1>4 DEF SameQuestion, SameGate

\* What is known when the limits are asked for.
LimitsPage(q, s, d, r, N, D) ==
  [q EXCEPT !.at = "baselines", !.kind = "limits", !.since = s, !.began = d, !.received = r, !.nav = N, !.day = D]

\* It changes these values only.
LEMMA LimitsFields ==
  ASSUME NEW q \in PageType, NEW s \in Nat, NEW d \in Nat, NEW r \in Nat, NEW N \in SUBSET (Nat \ {0}), NEW D \in SUBSET Nat
  PROVE  LET e == LimitsPage(q, s, d, r, N, D)
         IN  /\ e \in PageType /\ SameLosses(e, q) /\ SameCounts(e, q)
             /\ e.at = "baselines" /\ e.kind = "limits" /\ e.since = s /\ e.began = d /\ e.received = r
             /\ e.nav = N /\ e.day = D
<1> DEFINE a == [q EXCEPT !.at = "baselines"]
           b == [a EXCEPT !.kind = "limits"]
           c == [b EXCEPT !.since = s]
           f == [c EXCEPT !.began = d]
           g == [f EXCEPT !.received = r]
           h == [g EXCEPT !.nav = N]
           e == [h EXCEPT !.day = D]
<1>1. /\ b \in PageType /\ SameLosses(b, q) /\ SameCounts(b, q)
      /\ b.at = "baselines" /\ b.kind = "limits"
  BY DEF PageType, PagePlaces, SameLosses, SameCounts
<1> HIDE DEF b
<1>2. /\ f \in PageType /\ SameLosses(f, b) /\ SameCounts(f, b)
      /\ f.at = b.at /\ f.kind = b.kind /\ f.since = s /\ f.began = d
  BY <1>1 DEF PageType, SameLosses, SameCounts
<1> HIDE DEF f
<1>3. /\ h \in PageType /\ SameLosses(h, f) /\ SameCounts(h, f)
      /\ h.at = f.at /\ h.kind = f.kind /\ h.since = f.since /\ h.began = f.began /\ h.received = r /\ h.nav = N
  BY <1>2 DEF PageType, SameLosses, SameCounts
<1> HIDE DEF h
<1>4. /\ e \in PageType /\ SameLosses(e, h) /\ SameCounts(e, h)
      /\ e.at = h.at /\ e.kind = h.kind /\ e.since = h.since /\ e.began = h.began /\ e.received = h.received
      /\ e.nav = h.nav /\ e.day = D
  BY <1>3 DEF PageType, SameLosses, SameCounts
<1>5. LimitsPage(q, s, d, r, N, D) = e
  BY DEF b, f, h, LimitsPage
<1> QED
  BY <1>1, <1>2, <1>3, <1>4, <1>5 DEF SameLosses, SameCounts

\* What is known when the readiness is asked for.
ReadinessPage(q, d, k, O, D) ==
  [q EXCEPT !.at = "incidents", !.kind = "gate", !.began = d, !.known = k, !.oldOpen = O, !.days = D]

\* It changes these values only.
LEMMA ReadinessFields ==
  ASSUME NEW q \in PageType, NEW d \in Nat, NEW k \in Nat, NEW O \in SUBSET Nat, NEW D \in SUBSET Nat
  PROVE  LET e == ReadinessPage(q, d, k, O, D)
         IN  /\ e \in PageType
             /\ e.at = "incidents" /\ e.kind = "gate" /\ e.began = d /\ e.known = k /\ e.oldOpen = O /\ e.days = D
<1> DEFINE a == [q EXCEPT !.at = "incidents"]
           b == [a EXCEPT !.kind = "gate"]
           c == [b EXCEPT !.began = d]
           f == [c EXCEPT !.known = k]
           g == [f EXCEPT !.oldOpen = O]
           e == [g EXCEPT !.days = D]
<1>1. b \in PageType /\ b.at = "incidents" /\ b.kind = "gate"
  BY DEF PageType, PagePlaces
<1> HIDE DEF b
<1>2. f \in PageType /\ f.at = b.at /\ f.kind = b.kind /\ f.began = d /\ f.known = k
  BY <1>1 DEF PageType
<1> HIDE DEF f
<1>3. /\ e \in PageType /\ e.at = f.at /\ e.kind = f.kind /\ e.began = f.began /\ e.known = f.known
      /\ e.oldOpen = O /\ e.days = D
  BY <1>2 DEF PageType
<1>4. ReadinessPage(q, d, k, O, D) = e
  BY DEF b, f, ReadinessPage
<1> QED
  BY <1>1, <1>2, <1>3, <1>4

-----------------------------------------------------------------------------
(* Ratios and their rounding.                                            *)

\* What is assumed of the limits and of the numbers they are counted with.
LEMMA Numbers ==
  /\ Unit \in Nat \ {0} /\ RecentOrders \in Nat \ {0} /\ GateWindow \in Nat \ {0}
  /\ PageLimits \in [PauseRules -> 1 .. Unit] /\ NetAssets \subseteq Nat \ {0}
BY ConsoleAssumption

\* What a quotient is rounded down to.
LEMMA QuotientIs ==
  ASSUME NEW a \in Nat, NEW d \in Nat \ {0}
  PROVE  /\ a \div d \in Nat
         /\ d * (a \div d) <= a /\ a < d * (a \div d) + d
OBVIOUS

\* More of something is no less.
LEMMA TimesGrows ==
  ASSUME NEW a \in Nat, NEW b \in Nat, a <= b, NEW c \in Nat
  PROVE  c * a <= c * b /\ a * c <= b * c /\ c * a \in Nat /\ c * b \in Nat
OBVIOUS

\* A count reaches its limit exactly when the ratio that is shown reaches one.
LEMMA CountUses ==
  ASSUME NEW c \in Nat, NEW l \in 1 .. Unit
  PROVE  CountUse(c, l) \in Nat /\ (CountUse(c, l) < Unit <=> c < l)
<1> DEFINE a == 2 * (c * Unit) + l
           d == 2 * l
           q == a \div d
<1>1. Unit \in Nat \ {0} /\ l \in Nat \ {0} /\ l <= Unit
  BY Numbers
<1>2. c * Unit \in Nat /\ l * Unit \in Nat
  BY <1>1
<1>3. CountUse(c, l) = q
  BY <1>2 DEF CountUse, ShownRatio, Rounded
<1>4. a \in Nat /\ d \in Nat \ {0}
  BY <1>1, <1>2
<1>5. q \in Nat /\ d * q <= a /\ a < d * q + d
  BY <1>4, QuotientIs
<1>6. ASSUME c < l PROVE q < Unit
  <2>1. (c + 1) * Unit <= l * Unit
    BY <1>1, <1>6, TimesGrows
  <2>2. c * Unit + Unit <= l * Unit
    BY <1>1, <2>1
  <2>3. a < d * Unit
    <3>1. d * Unit = 2 * (l * Unit)
      BY <1>1
    <3> QED
      BY <1>1, <1>2, <2>2, <3>1
  <2>4. ~ (Unit <= q)
    <3> SUFFICES ASSUME Unit <= q PROVE FALSE
      OBVIOUS
    <3>1. d * Unit <= d * q
      BY <1>1, <1>4, <1>5, TimesGrows
    <3> HIDE DEF a, d, q
    <3>2. d * Unit \in Nat /\ d * q \in Nat
      BY <1>1, <1>4, <1>5
    <3> QED
      BY <1>4, <1>5, <2>3, <3>1, <3>2
  <2> QED
    BY <1>1, <1>5, <2>4
<1>7. ASSUME q < Unit PROVE c < l
  <2> SUFFICES ASSUME l <= c PROVE FALSE
    BY <1>1
  <2>1. l * Unit <= c * Unit
    BY <1>1, TimesGrows
  <2>2. d * (q + 1) <= d * Unit
    BY <1>1, <1>4, <1>5, <1>7, TimesGrows
  <2>3. d * (q + 1) = d * q + d /\ d * Unit = 2 * (l * Unit)
    BY <1>1, <1>4, <1>5
  <2>4. 2 * (l * Unit) <= a
    BY <1>1, <1>2, <2>1
  <2> HIDE DEF a, d, q
  <2>5. d * q \in Nat /\ d * Unit \in Nat
    BY <1>1, <1>4, <1>5
  <2> QED
    BY <1>2, <1>4, <1>5, <2>2, <2>3, <2>4, <2>5
<1> QED
  BY <1>3, <1>5, <1>6, <1>7

\* The change of a value that fell, as it is shown: q parts of Unit.
LEMMA LossIs ==
  ASSUME NEW n \in Nat \ {0}, NEW b \in Nat \ {0}, n < b
  PROVE  \E q \in Nat : /\ ShownRatio(n - b, b) = - q
                        /\ 2 * (b * q) <= b + 2 * ((b - n) * Unit)
                        /\ b + 2 * ((b - n) * Unit) < 2 * (b * q) + 2 * b
<1> DEFINE x == (b - n) * Unit
           a == b + 2 * x
           d == 2 * b
           q == a \div d
<1>1. x \in Nat \ {0} /\ (n - b) * Unit = - x
  BY Numbers
<1>2. a \in Nat /\ d \in Nat \ {0}
  BY <1>1
<1>3. q \in Nat /\ d * q <= a /\ a < d * q + d
  BY <1>2, QuotientIs
<1>4. ShownRatio(n - b, b) = - q
  <2>1. ~ (- x >= 0) /\ b - 2 * (- x) = a
    BY <1>1
  <2> HIDE DEF x, a
  <2> QED
    BY <1>1, <2>1 DEF ShownRatio, Rounded
<1>5. d * q = 2 * (b * q)
  <2> HIDE DEF q
  <2> QED
    BY <1>3
<1> HIDE DEF q, x
<1> QED
  BY <1>3, <1>4, <1>5 DEF x

\* The use of a limit on losses says no less than that the limit is reached, and little more.
LEMMA LossUses ==
  ASSUME NEW n \in Nat \ {0}, NEW b \in Nat \ {0}, NEW l \in 1 .. Unit
  PROVE  /\ LossUse(n, b, l) \in Nat
         /\ LossUse(n, b, l) < Unit => ~ Loses(n, b, l)
         /\ LossUse(n, b, l) >= Unit => 2 * (b - n) * Unit >= b * (2 * l - 1)
<1>0. Unit \in Nat \ {0} /\ l \in Nat \ {0} /\ l <= Unit
  BY Numbers
<1>1. CASE n < b
  <2>1. PICK q \in Nat : /\ ShownRatio(n - b, b) = - q
                         /\ 2 * (b * q) <= b + 2 * ((b - n) * Unit)
                         /\ b + 2 * ((b - n) * Unit) < 2 * (b * q) + 2 * b
    BY <1>1, LossIs
  <2>2. LossUse(n, b, l) = CountUse(q, l) /\ CountUse(q, l) \in Nat /\ (CountUse(q, l) < Unit <=> q < l)
    <3>1. - (- q) = q
      OBVIOUS
    <3>2. CountUse(q, l) \in Nat /\ (CountUse(q, l) < Unit <=> q < l)
      BY CountUses
    <3>3. LossUse(n, b, l) = IF CountUse(q, l) > 0 THEN CountUse(q, l) ELSE 0
      BY <2>1, <3>1 DEF LossUse, CountUse
    <3> QED
      BY <3>2, <3>3
  <2> DEFINE x == (b - n) * Unit
             y == b * q
             z == b * l
  <2>3. x \in Nat /\ y \in Nat /\ z \in Nat
    BY <1>0, <1>1
  <2>4. ASSUME q < l PROVE ~ Loses(n, b, l)
    <3>1. b * (q + 1) <= b * l
      BY <1>0, <2>4, TimesGrows
    <3>2. y + b <= z
      BY <3>1
    <3>3. x < z
      <4> HIDE DEF x, y, z
      <4> QED
        BY <2>1, <2>3, <3>2 DEF x, y
    <3>4. Loses(n, b, l) => x >= z
      BY <1>0, <1>1 DEF Loses
    <3> HIDE DEF x, y, z
    <3> QED
      BY <2>3, <3>3, <3>4
  <2>5. ASSUME ~ (q < l) PROVE 2 * (b - n) * Unit >= b * (2 * l - 1)
    <3>1. b * l <= b * q
      BY <1>0, <2>5, TimesGrows
    <3>2. 2 * z <= b + 2 * x
      <4> HIDE DEF x, y, z
      <4> QED
        BY <2>1, <2>3, <3>1 DEF x, y, z
    <3>3. 2 * (b - n) * Unit = 2 * x /\ b * (2 * l - 1) = 2 * z - b
      BY <1>0, <1>1
    <3> HIDE DEF x, y, z
    <3> QED
      BY <2>3, <3>2, <3>3
  <2>6. ~ (LossUse(n, b, l) < Unit) <=> LossUse(n, b, l) >= Unit
    BY <1>0, <2>2
  <2> QED
    BY <2>2, <2>4, <2>5, <2>6
<1>2. CASE b <= n
  <2> DEFINE a == 2 * ((n - b) * Unit) + b
             s == a \div (2 * b)
  <2>1. (n - b) * Unit \in Nat /\ a \in Nat /\ 2 * b \in Nat \ {0}
    BY <1>0, <1>2
  <2>2. ShownRatio(n - b, b) = s
    BY <2>1 DEF ShownRatio, Rounded
  <2>3. s \in Nat
    BY <2>1, QuotientIs
  <2> HIDE DEF s
  <2>4. LossUse(n, b, l) = 0
    <3> DEFINE y == s * Unit
               t == (l + 2 * y) \div (2 * l)
    <3>1. y \in Nat /\ (- s) * Unit = - y
      BY <1>0, <2>3
    <3>2. t \in Nat
      <4>1. l + 2 * y \in Nat /\ 2 * l \in Nat \ {0}
        <5> HIDE DEF y
        <5> QED
          BY <1>0, <3>1
      <4> HIDE DEF y
      <4> QED
        BY <4>1, QuotientIs
    <3>3. CASE y = 0
      <4>1. (- s) * Unit = 0
        BY <3>1, <3>3
      <4>2. ShownRatio(- s, l) = (2 * 0 + l) \div (2 * l)
        BY <4>1 DEF ShownRatio, Rounded
      <4>3. (2 * 0 + l) \div (2 * l) = 0
        BY <1>0
      <4> QED
        BY <2>2, <4>2, <4>3 DEF LossUse
    <3>4. CASE y # 0
      <4>1. ~ (- y >= 0) /\ l - 2 * (- y) = l + 2 * y
        BY <1>0, <3>1, <3>4
      <4>2. ShownRatio(- s, l) = - t
        <5> HIDE DEF y
        <5> QED
          BY <3>1, <4>1 DEF ShownRatio, Rounded
      <4>3. ~ (- t > 0)
        BY <3>2
      <4> HIDE DEF t
      <4> QED
        BY <2>2, <4>2, <4>3 DEF LossUse
    <3> QED
      BY <3>3, <3>4
  <2>5. ~ Loses(n, b, l)
    <3>1. b * Unit <= n * Unit /\ b * Unit \in Nat /\ n * Unit \in Nat
      BY <1>0, <1>2, TimesGrows
    <3>2. b * (Unit - l) = b * Unit - b * l /\ b * l \in Nat \ {0}
      BY <1>0
    <3> QED
      BY <3>1, <3>2 DEF Loses
  <2> QED
    BY <1>0, <2>4, <2>5
<1> QED
  BY <1>1, <1>2

\* Whoever loses too much against a value does so against a higher one.
LEMMA LosesMore ==
  ASSUME NEW n \in Nat, NEW b \in Nat, NEW c \in Nat, b <= c, NEW l \in 1 .. Unit, Loses(n, b, l)
  PROVE  Loses(n, c, l)
<1>1. Unit - l \in Nat /\ Unit \in Nat
  BY Numbers
<1>2. b * (Unit - l) <= c * (Unit - l) /\ b * (Unit - l) \in Nat /\ c * (Unit - l) \in Nat /\ n * Unit \in Nat
  BY <1>1, TimesGrows
<1> QED
  BY <1>2 DEF Loses

-----------------------------------------------------------------------------
(* The invariant of the two pages.                                       *)

SnapType == [day : Nat, nav : Nat \ {0}]
OrderType == [day : Nat, state : OrderState, sent : BOOLEAN]

CsTypes ==
  /\ seoulDay \in Nat \ {0} /\ early \in BOOLEAN /\ written \in 0 .. MaxFacts
  /\ snaps \in Seq(SnapType) /\ book \in Seq(OrderType) /\ troubles \in Seq(Trouble)
  /\ planDays \subseteq 0 .. seoulDay /\ explained \subseteq {Unnumbered}
  /\ resumedFrom \in 0 .. Len(book) /\ lapsed \in 0 .. Len(troubles)
  /\ page \in PageType /\ free \subseteq PauseRules /\ stopping \subseteq PauseRules
  /\ \A i \in DOMAIN troubles : troubles[i].number \in DOMAIN book \cup {Unnumbered}

\* A page is asked for of a database that its writers have kept.
AskedInv ==
  page.at = "asked" =>
    /\ \A i, j \in DOMAIN snaps : i <= j => snaps[i].day <= snaps[j].day
    /\ \A i \in DOMAIN snaps : snaps[i].day <= seoulDay
    /\ \A i \in DOMAIN book : book[i].day = seoulDay => snaps # <<>> /\ Last(snaps).day = seoulDay

Unsettled(i) ==
  troubles[i].type = "problem" /\ ~ Closed(troubles[i].number) /\ troubles[i].number \notin explained

\* What still stands is what the count of the problems finds.
StandingInv == standing \subseteq DOMAIN troubles /\ \A i \in standing : Unsettled(i)

\* What a value says of a rule: below the limit, and, where it is sure, at the limit.
Tells(rule, below, sure) == IF below THEN rule \in free ELSE sure => rule \in stopping

PeakTells(peaks) ==
  \A n \in page.nav :
    Tells("drawdown", \A b \in peaks : ~ Loses(n, b, PageLimits["drawdown"]), page.received = Len(snaps))

OpeningTells(openings) ==
  \A n \in page.nav, b \in openings :
    Tells("dailyLoss", ~ Loses(n, b, PageLimits["dailyLoss"]), page.day = {page.began})

AttemptsTell(counts) ==
  \A c \in counts : Tells("attempts", c < PageLimits["attempts"], page.day = {page.began})

RejectsTell(counts) ==
  \A c \in counts : Tells("rejects", c < PageLimits["rejects"], resumedFrom = 0)

HasSnapshot(d) == \E i \in DOMAIN snaps : snaps[i].day = d

Openings(days) == UNION {OpeningNavs(d) : d \in days}

\* The values that are read, or would be read now, say how the rules stood at some
\* moment of the reading.
ReadingsTell ==
  /\ PeakTells(IF page.at = "baselines" THEN Navs(snaps) ELSE page.peak)
  /\ OpeningTells(IF page.at \in {"baselines", "opening"} THEN Openings(page.day) ELSE page.opening)
  /\ AttemptsTell(IF page.at \in {"baselines", "opening", "attempts"}
                  THEN {AttemptsShown(page.day)} ELSE page.attempts)
  /\ page.at = "failures" => RejectsTell(page.rejects)
  /\ page.at # "baselines" => \A b, c \in page.peak : b = c

LimitsPlaces == {"baselines", "opening", "attempts", "rejects", "failures"}

LimitsInv ==
  page.kind = "limits" /\ page.at \notin {"asked", "shown"} =>
    /\ page.at \in LimitsPlaces
    /\ page.since <= lapsed /\ page.received <= Len(snaps)
    /\ PauseRules \ Stopping \subseteq free /\ Stopping \subseteq stopping
    /\ page.nav # {} => page.day # {} /\ \A d \in page.day : HasSnapshot(d)
    /\ ReadingsTell

\* No incident in the last days, as QuietIsTrue has it.
QuietSoFar ==
  \A i \in 1 .. page.known :
    \/ troubles[i].day <= page.began - GateWindow
    \/ Cardinality(page.days) < GateWindow /\ \A d \in page.days : troubles[i].day < d
    \/ troubles[i].early /\ \A d \in page.days : troubles[i].day <= d

GatePlaces == {"incidents", "unreconciled", "stale"}

\* A count of zero keeps its meaning until the page is shown.
GateInv ==
  page.kind = "gate" /\ page.at \notin {"asked", "shown"} =>
    /\ page.at \in GatePlaces
    /\ page.known <= Len(troubles) /\ page.days \subseteq 0 .. page.began
    /\ \A i \in page.oldOpen : i \in DOMAIN book /\ book[i].day < page.began
    /\ page.at # "incidents" /\ page.incidents = 0 => QuietSoFar
    /\ page.at = "stale" /\ page.unreconciled = 0 => \A i \in standing : i > page.known

CsInv ==
  /\ CsTypes /\ AskedInv /\ StandingInv /\ LimitsInv /\ GateInv
  /\ FreeIsTrue /\ AlarmIsTrue /\ ReconciledIsTrue /\ QuietIsTrue

-----------------------------------------------------------------------------
(* What the queries count.                                               *)

\* The values of the snapshots are bounded, so one of them is the highest.
LEMMA PeakIs ==
  ASSUME snaps \in Seq(SnapType), snaps # <<>>
  PROVE  Max(Navs(snaps)) \in Navs(snaps) /\ \A n \in Navs(snaps) : n <= Max(Navs(snaps))
<1> DEFINE Bounded(k) == \E N \in Nat : \A i \in 1 .. k : snaps[i].nav <= N
           bad == {k \in 0 .. Len(snaps) : ~ Bounded(k)}
<1>1. Len(snaps) \in Nat \ {0} /\ DOMAIN snaps = 1 .. Len(snaps) /\ \A i \in DOMAIN snaps : snaps[i].nav \in Nat
  <2>1. Len(snaps) \in Nat /\ DOMAIN snaps = 1 .. Len(snaps) /\ \A i \in DOMAIN snaps : snaps[i] \in SnapType
    OBVIOUS
  <2>2. Len(snaps) # 0
    OBVIOUS
  <2> QED
    BY <2>1, <2>2 DEF SnapType
<1> HIDE DEF Bounded
<1>2. bad = {}
  <2> SUFFICES ASSUME bad # {} PROVE FALSE
    OBVIOUS
  <2>0. bad \subseteq Nat /\ \A k \in bad : k \in 0 .. Len(snaps)
    BY <1>1
  <2>1. PICK k \in bad : \A m \in bad : k <= m
    <3> HIDE DEF bad
    <3> QED
      BY <2>0, SmallestNumber
  <2>2. k \in 1 .. Len(snaps) /\ ~ Bounded(k)
    <3>1. Bounded(0)
      <4>1. 1 .. 0 = {} /\ 0 \in Nat
        OBVIOUS
      <4> QED
        BY <4>1 DEF Bounded
    <3>2. k # 0
      BY <2>1, <3>1
    <3>3. k \in 0 .. Len(snaps)
      <4> HIDE DEF bad
      <4> QED
        BY <2>0
    <3>4. ~ Bounded(k)
      BY <2>1
    <3> QED
      BY <1>1, <3>2, <3>3, <3>4
  <2>3. Bounded(k - 1)
    <3>1. k - 1 \in 0 .. Len(snaps) /\ ~ (k <= k - 1)
      BY <1>1, <2>2
    <3>2. k - 1 \notin bad
      <4> HIDE DEF bad
      <4> QED
        BY <2>1, <3>1
    <3> QED
      BY <3>1, <3>2
  <2> HIDE DEF bad
  <2>4. PICK N \in Nat : \A i \in 1 .. (k - 1) : snaps[i].nav <= N
    BY <2>3 DEF Bounded
  <2>5. k \in DOMAIN snaps /\ snaps[k].nav \in Nat
    BY <1>1, <2>2
  <2>6. N + snaps[k].nav \in Nat /\ \A i \in 1 .. k : snaps[i].nav <= N + snaps[k].nav
    <3> SUFFICES ASSUME NEW i \in 1 .. k PROVE snaps[i].nav <= N + snaps[k].nav
      BY <2>5
    <3>1. snaps[i].nav \in Nat
      BY <1>1, <2>2
    <3>2. i = k \/ i \in 1 .. (k - 1)
      BY <1>1, <2>2
    <3> QED
      BY <2>4, <2>5, <3>1, <3>2
  <2>7. Bounded(k)
    BY <2>6 DEF Bounded
  <2> QED
    BY <2>2, <2>7
<1>3. Bounded(Len(snaps))
  BY <1>1, <1>2
<1>4. PICK N \in Nat : \A i \in DOMAIN snaps : snaps[i].nav <= N
  BY <1>1, <1>3 DEF Bounded
<1>5. Navs(snaps) \subseteq 0 .. N /\ snaps[1].nav \in Navs(snaps)
  BY <1>1, <1>4 DEF Navs
<1> QED
  BY <1>5, MaxIsIn

\* The first snapshot of a day is one.
LEMMA OneOpening ==
  ASSUME snaps \in Seq(SnapType), NEW d, NEW b \in OpeningNavs(d), NEW c \in OpeningNavs(d)
  PROVE  b = c
<1>1. PICK i \in DOMAIN snaps : snaps[i].day = d /\ b = snaps[i].nav /\ \A k \in DOMAIN snaps : snaps[k].day = d => i <= k
  BY DEF OpeningNavs
<1>2. PICK j \in DOMAIN snaps : snaps[j].day = d /\ c = snaps[j].nav /\ \A k \in DOMAIN snaps : snaps[k].day = d => j <= k
  BY DEF OpeningNavs
<1>3. i <= j /\ j <= i
  BY <1>1, <1>2
<1>4. DOMAIN snaps \subseteq Nat
  OBVIOUS
<1> QED
  BY <1>1, <1>2, <1>3, <1>4

\* It is the value of a snapshot.
LEMMA OpeningType ==
  ASSUME snaps \in Seq(SnapType), NEW d
  PROVE  OpeningNavs(d) \in SUBSET (Nat \ {0})
<1>1. \A b \in OpeningNavs(d) : \E i \in DOMAIN snaps : b = snaps[i].nav
  BY DEF OpeningNavs
<1>2. \A i \in DOMAIN snaps : snaps[i] \in SnapType
  OBVIOUS
<1> QED
  BY <1>1, <1>2 DEF SnapType

\* One more snapshot leaves it what it was, where the day has one.
LEMMA OpeningStays ==
  ASSUME snaps \in Seq(SnapType), NEW d, HasSnapshot(d),
         snaps' = snaps \/ \E x \in SnapType : snaps' = Append(snaps, x)
  PROVE  OpeningNavs(d)' \subseteq OpeningNavs(d) /\ HasSnapshot(d)'
<1>1. CASE snaps' = snaps
  BY <1>1 DEF OpeningNavs, HasSnapshot
<1>2. ASSUME NEW x \in SnapType, snaps' = Append(snaps, x) PROVE OpeningNavs(d)' \subseteq OpeningNavs(d) /\ HasSnapshot(d)'
  <2>1. /\ DOMAIN snaps = 1 .. Len(snaps) /\ DOMAIN snaps' = 1 .. Len(snaps) + 1 /\ Len(snaps) \in Nat
        /\ \A i \in DOMAIN snaps : snaps'[i] = snaps[i]
    BY <1>2
  <2>2. PICK k \in DOMAIN snaps : snaps[k].day = d
    BY DEF HasSnapshot
  <2>3. ASSUME NEW b \in OpeningNavs(d)' PROVE b \in OpeningNavs(d)
    <3>1. PICK i \in DOMAIN snaps' : /\ snaps'[i].day = d /\ b = snaps'[i].nav
                                     /\ \A j \in DOMAIN snaps' : snaps'[j].day = d => i <= j
      BY <2>3 DEF OpeningNavs
    <3>2. i <= k
      BY <2>1, <2>2, <3>1
    <3>3. i \in DOMAIN snaps
      BY <2>1, <2>2, <3>1, <3>2
    <3>4. \A j \in DOMAIN snaps : snaps[j].day = d => i <= j
      BY <2>1, <3>1
    <3> QED
      BY <2>1, <3>1, <3>3, <3>4 DEF OpeningNavs
  <2>4. HasSnapshot(d)'
    BY <2>1, <2>2 DEF HasSnapshot
  <2> QED
    BY <2>3, <2>4
<1> QED
  BY <1>1, <1>2

\* Some of the entries of a sequence are finitely many.
LEMMA SomeEntries ==
  ASSUME NEW S, NEW seq \in Seq(S), NEW T, T \subseteq DOMAIN seq
  PROVE  IsFiniteSet(T) /\ Cardinality(T) \in Nat /\ (Cardinality(T) = 0 <=> T = {})
<1>1. Len(seq) \in Nat /\ DOMAIN seq = 1 .. Len(seq)
  OBVIOUS
<1>2. IsFiniteSet(1 .. Len(seq))
  BY <1>1, FS_Interval
<1>3. IsFiniteSet(T)
  BY <1>1, <1>2, FS_Subset
<1> QED
  BY <1>3, FS_CardinalityType, FS_EmptySet

\* What is counted as attempts.
LEMMA AttemptsAre ==
  ASSUME book \in Seq(OrderType), NEW D
  PROVE  /\ AttemptsShown(D) \in Nat
         /\ (\A i \in DOMAIN book : book[i].day \notin D) => AttemptsShown(D) = 0
         /\ \A d : D = {d} => AttemptsShown(D) = Attempts(d)
         /\ \A d : Attempts(d) \in Nat /\ ((\A i \in DOMAIN book : book[i].day # d) => Attempts(d) = 0)
<1> DEFINE T == {i \in DOMAIN book : book[i].day \in D}
           U(d) == {i \in DOMAIN book : book[i].day = d}
<1>1. Cardinality(T) \in Nat /\ (Cardinality(T) = 0 <=> T = {})
  <2>1. T \subseteq DOMAIN book
    OBVIOUS
  <2> QED
    BY <2>1, SomeEntries
<1>2. \A d : Cardinality(U(d)) \in Nat /\ (Cardinality(U(d)) = 0 <=> U(d) = {})
  <2>1. \A d : U(d) \subseteq DOMAIN book
    OBVIOUS
  <2> QED
    BY <2>1, SomeEntries
<1>3. \A d : D = {d} => T = U(d)
  OBVIOUS
<1>4. AttemptsShown(D) = Cardinality(T) /\ \A d : Attempts(d) = Cardinality(U(d))
  BY DEF AttemptsShown, Attempts
<1>5. /\ (\A i \in DOMAIN book : book[i].day \notin D) => T = {}
      /\ \A d : (\A i \in DOMAIN book : book[i].day # d) => U(d) = {}
  OBVIOUS
<1> HIDE DEF T, U
<1> QED
  BY <1>1, <1>2, <1>3, <1>4, <1>5

\* Of all orders no fewer rejections in a row are counted than of those since the resumption.
LEMMA RejectsAre ==
  ASSUME book \in Seq(OrderType), resumedFrom \in Nat
  PROVE  RejectsFrom(1) \in Nat /\ RejectsFrom(resumedFrom + 1) \in Nat /\ RejectsFrom(resumedFrom + 1) <= RejectsFrom(1)
<1> DEFINE low(first) == IF Len(book) - RecentOrders >= first THEN Len(book) - RecentOrders + 1 ELSE first
           T(first) == {i \in low(first) .. Len(book) : \A j \in i .. Len(book) : book[j].state = "rejected"}
<1>1. Len(book) \in Nat /\ DOMAIN book = 1 .. Len(book) /\ RecentOrders \in Nat \ {0}
  BY Numbers
<1>2. ASSUME NEW f \in Nat \ {0} PROVE T(f) \subseteq T(1) /\ T(f) \subseteq DOMAIN book
  <2>1. low(f) >= 1 /\ low(f) >= low(1) /\ low(1) >= 1 /\ low(f) \in Nat /\ low(1) \in Nat
    BY <1>1
  <2> HIDE DEF low
  <2> QED
    BY <1>1, <2>1
<1>3. \A f : RejectsFrom(f) = Cardinality(T(f))
  BY DEF RejectsFrom
<1> HIDE DEF T
<1>4. T(1) \subseteq DOMAIN book /\ T(resumedFrom + 1) \subseteq T(1)
  BY <1>2
<1>5. IsFiniteSet(T(1)) /\ Cardinality(T(1)) \in Nat /\ Cardinality(T(resumedFrom + 1)) \in Nat
  BY <1>4, SomeEntries
<1>6. Cardinality(T(resumedFrom + 1)) <= Cardinality(T(1))
  BY <1>4, <1>5, FS_Subset
<1> QED
  BY <1>3, <1>5, <1>6

\* Since an earlier time no fewer failures are counted.
LEMMA FailuresAre ==
  ASSUME troubles \in Seq(Trouble), NEW f \in Nat, NEW g \in Nat, f <= g
  PROVE  FailuresAfter(f) \in Nat /\ FailuresAfter(g) \in Nat /\ FailuresAfter(g) <= FailuresAfter(f)
<1> DEFINE T(m) == {i \in DOMAIN troubles : i > m /\ troubles[i].type = "failure"}
<1>1. T(f) \subseteq DOMAIN troubles /\ T(g) \subseteq T(f)
  BY DOMAIN troubles \subseteq Nat
<1>2. \A m : FailuresAfter(m) = Cardinality(T(m))
  BY DEF FailuresAfter
<1> HIDE DEF T
<1>3. IsFiniteSet(T(f)) /\ Cardinality(T(f)) \in Nat /\ Cardinality(T(g)) \in Nat
  BY <1>1, SomeEntries
<1>4. Cardinality(T(g)) <= Cardinality(T(f))
  BY <1>1, <1>3, FS_Subset
<1> QED
  BY <1>2, <1>3, <1>4

\* The rules that stop a plan now, one by one.
LEMMA StoppingIs ==
  /\ Stopping \subseteq PauseRules
  /\ "dailyLoss" \in Stopping
       <=> \E b \in OpeningNavs(seoulDay) : Loses(Last(snaps).nav, b, PageLimits["dailyLoss"])
  /\ "drawdown" \in Stopping <=> \E b \in Navs(snaps) : Loses(Last(snaps).nav, b, PageLimits["drawdown"])
  /\ "attempts" \in Stopping <=> Attempts(seoulDay) >= PageLimits["attempts"]
  /\ "rejects" \in Stopping <=> RejectsFrom(resumedFrom + 1) >= PageLimits["rejects"]
  /\ "failures" \in Stopping <=> FailuresAfter(lapsed) >= PageLimits["failures"]
BY DEF Stopping, Stops, PauseRules

\* The limits are positive numbers.
LEMMA LimitsAre == \A rule \in PauseRules : PageLimits[rule] \in 1 .. Unit /\ PageLimits[rule] \in Nat \ {0}
BY Numbers

-----------------------------------------------------------------------------
(* The page on the limits: its readings.                                 *)

\* The page begins with nothing known.
LEMMA CsInitInv == CsInit => CsInv
<1> SUFFICES ASSUME CsInit PROVE CsInv
  OBVIOUS
<1>1. PICK d \in Databases :
        /\ seoulDay = d.today /\ snaps = d.snaps /\ book = d.book /\ planDays = d.planDays
        /\ troubles = d.troubles /\ resumedFrom = d.resumedFrom
  BY DEF CsInit
<1>2. d \in Database /\ Consistent(d)
  BY ConsoleAssumption
<1>3. /\ page = Asked /\ early \in BOOLEAN /\ explained = {} /\ lapsed = 0 /\ written = 0
      /\ free = {} /\ stopping = {}
  BY DEF CsInit
<1>4. /\ page.at = "asked" /\ page \in PageType
      /\ ~ Shown("limits") /\ ~ Shown("gate")
  BY <1>3, AskedIsPage DEF Asked, Shown
<1>5. /\ seoulDay \in Nat \ {0} /\ snaps \in Seq(SnapType) /\ book \in Seq(OrderType)
      /\ troubles \in Seq(Trouble) /\ resumedFrom \in Nat
  BY <1>1, <1>2 DEF Database, SnapType, OrderType
<1>6. CsTypes
  <2>1. /\ planDays \subseteq 0 .. seoulDay /\ resumedFrom <= Len(book)
        /\ \A i \in DOMAIN troubles : troubles[i].number \in DOMAIN book \cup {Unnumbered}
    BY <1>1, <1>2 DEF Consistent
  <2>2. Len(book) \in Nat /\ Len(troubles) \in Nat /\ MaxFacts \in Nat
    BY <1>5, ConsoleAssumption
  <2> QED
    BY <1>3, <1>4, <1>5, <2>1, <2>2 DEF CsTypes
<1>7. AskedInv
  BY <1>1, <1>2 DEF AskedInv, Consistent
<1>8. StandingInv
  <2>1. standing = {i \in DOMAIN troubles :
                      /\ troubles[i].type = "problem"
                      /\ troubles[i].number \in DOMAIN book =>
                           book[troubles[i].number].state \notin SettledStates}
    BY DEF CsInit
  <2> QED
    BY <1>3, <1>6, <2>1 DEF StandingInv, CsTypes, Unsettled, Closed
<1> QED
  BY <1>4, <1>6, <1>7, <1>8 DEF CsInv, LimitsInv, GateInv, FreeIsTrue, AlarmIsTrue, ReconciledIsTrue, QuietIsTrue

\* The facts on which the rules depend have not changed.
LEMMA SameFacts ==
  ASSUME Reads
  PROVE  /\ Stopping' = Stopping /\ Navs(snaps)' = Navs(snaps) /\ \A d : OpeningNavs(d)' = OpeningNavs(d)
         /\ \A D : AttemptsShown(D)' = AttemptsShown(D) /\ Openings(D)' = Openings(D)
<1>1. UNCHANGED factVars
  BY DEF Reads
<1>2. /\ seoulDay' = seoulDay /\ snaps' = snaps /\ book' = book /\ troubles' = troubles
      /\ resumedFrom' = resumedFrom /\ lapsed' = lapsed
  BY <1>1 DEF factVars
<1>3. /\ \A d : OpeningNavs(d)' = OpeningNavs(d) /\ Attempts(d)' = Attempts(d)
      /\ \A f : RejectsFrom(f)' = RejectsFrom(f) /\ FailuresAfter(f)' = FailuresAfter(f)
      /\ \A D : AttemptsShown(D)' = AttemptsShown(D)
      /\ Navs(snaps)' = Navs(snaps)
  BY <1>2 DEF OpeningNavs, Attempts, RejectsFrom, FailuresAfter, AttemptsShown, Navs
<1>4. \A rule : Stops(rule)' = Stops(rule)
  BY <1>2, <1>3 DEF Stops
<1> QED
  BY <1>3, <1>4 DEF Stopping, Openings

\* A reading disturbs neither the facts nor what the history says of the rules.
LEMMA ReadingKeepsTypes ==
  ASSUME CsTypes, StandingInv, Reads, page' \in PageType, page'.at # "asked",
         free' \subseteq PauseRules, stopping' \subseteq PauseRules
  PROVE  CsTypes' /\ AskedInv' /\ StandingInv'
<1>1. /\ seoulDay' = seoulDay /\ early' = early /\ snaps' = snaps /\ book' = book /\ planDays' = planDays
      /\ troubles' = troubles /\ explained' = explained /\ resumedFrom' = resumedFrom /\ lapsed' = lapsed
      /\ written' = written /\ standing' = standing
  BY DEF Reads, factVars
<1>2. CsTypes'
  BY <1>1 DEF CsTypes
<1>3. StandingInv'
  BY <1>1 DEF StandingInv, Unsettled, Closed
<1> QED
  BY <1>2, <1>3 DEF AskedInv

\* The newest snapshot when the page is asked for: its value and its day.
AskedNav == IF snaps = <<>> THEN {} ELSE {Last(snaps).nav}
AskedDay == IF snaps # <<>> THEN {Last(snaps).day} ELSE IF planDays = {} THEN {} ELSE {Max(planDays)}

\* What is known of it.
LEMMA AskedTells ==
  ASSUME CsTypes, AskedInv, page.at = "asked"
  PROVE  /\ AskedNav \in SUBSET (Nat \ {0}) /\ AskedDay \in SUBSET Nat
         /\ AskedNav # {} => AskedDay # {} /\ \A d \in AskedDay : HasSnapshot(d)
         /\ \A n \in AskedNav : "drawdown" \in Stopping <=> \E b \in Navs(snaps) : Loses(n, b, PageLimits["drawdown"])
         /\ \A n \in AskedNav, b \in Openings(AskedDay) :
              IF ~ Loses(n, b, PageLimits["dailyLoss"]) THEN "dailyLoss" \notin Stopping
              ELSE AskedDay = {seoulDay} => "dailyLoss" \in Stopping
         /\ IF AttemptsShown(AskedDay) < PageLimits["attempts"] THEN "attempts" \notin Stopping
            ELSE AskedDay = {seoulDay} => "attempts" \in Stopping
<1>0. /\ seoulDay \in Nat /\ snaps \in Seq(SnapType) /\ book \in Seq(OrderType) /\ planDays \subseteq 0 .. seoulDay
  BY DEF CsTypes
<1>1. ASSUME snaps # <<>>
      PROVE  /\ Len(snaps) \in DOMAIN snaps /\ Last(snaps) = snaps[Len(snaps)] /\ Last(snaps) \in SnapType
             /\ Last(snaps).nav \in Nat \ {0} /\ Last(snaps).day \in Nat
             /\ AskedNav = {Last(snaps).nav} /\ AskedDay = {Last(snaps).day} /\ HasSnapshot(Last(snaps).day)
             /\ \A i \in DOMAIN snaps : snaps[i].day \in Nat /\ snaps[i].day <= Last(snaps).day /\ Last(snaps).day <= seoulDay
  <2>1. Len(snaps) \in Nat /\ Len(snaps) # 0 /\ DOMAIN snaps = 1 .. Len(snaps)
    BY <1>0, <1>1
  <2>2. Len(snaps) \in DOMAIN snaps /\ \A i \in DOMAIN snaps : i <= Len(snaps) /\ snaps[i] \in SnapType
    BY <1>0, <2>1
  <2>3. Last(snaps) = snaps[Len(snaps)]
    BY DEF Last
  <2> QED
    BY <1>1, <2>2, <2>3 DEF AskedInv, SnapType, HasSnapshot, AskedNav, AskedDay
<1>2. ASSUME planDays # {} PROVE Max(planDays) \in Nat
  <2>1. Max(planDays) \in planDays
    BY <1>0, <1>2, MaxIsIn
  <2>2. Max(planDays) \in 0 .. seoulDay
    BY <1>0, <2>1
  <2> QED
    BY <2>2
<1>3. /\ AskedNav \in SUBSET (Nat \ {0}) /\ AskedDay \in SUBSET Nat
      /\ AskedNav # {} => AskedDay # {} /\ \A d \in AskedDay : HasSnapshot(d)
  BY <1>1, <1>2 DEF AskedNav, AskedDay
<1>4. \A n \in AskedNav : "drawdown" \in Stopping <=> \E b \in Navs(snaps) : Loses(n, b, PageLimits["drawdown"])
  BY <1>1, StoppingIs DEF AskedNav
<1>5. ASSUME NEW n \in AskedNav, NEW b \in Openings(AskedDay)
      PROVE  IF ~ Loses(n, b, PageLimits["dailyLoss"]) THEN "dailyLoss" \notin Stopping
             ELSE AskedDay = {seoulDay} => "dailyLoss" \in Stopping
  <2>1. snaps # <<>> /\ n = Last(snaps).nav /\ b \in OpeningNavs(Last(snaps).day)
    BY <1>1, <1>5 DEF Openings, AskedNav
  <2>2. CASE Last(snaps).day = seoulDay
    <3>1. \A c \in OpeningNavs(seoulDay) : c = b
      BY <1>0, <2>1, <2>2, OneOpening
    <3> QED
      BY <2>1, <2>2, <3>1, StoppingIs
  <2>3. CASE Last(snaps).day # seoulDay
    <3>1. OpeningNavs(seoulDay) = {}
      <4>1. \A i \in DOMAIN snaps : snaps[i].day # seoulDay
        BY <1>0, <1>1, <2>1, <2>3
      <4> QED
        BY <4>1 DEF OpeningNavs
    <3>2. "dailyLoss" \notin Stopping
      BY <3>1, StoppingIs
    <3>3. AskedDay # {seoulDay}
      BY <1>1, <2>1, <2>3
    <3> QED
      BY <3>2, <3>3
  <2> QED
    BY <2>2, <2>3
<1>6. IF AttemptsShown(AskedDay) < PageLimits["attempts"] THEN "attempts" \notin Stopping
      ELSE AskedDay = {seoulDay} => "attempts" \in Stopping
  <2>1. AttemptsShown(AskedDay) \in Nat /\ Attempts(seoulDay) \in Nat /\ PageLimits["attempts"] \in Nat \ {0}
    BY <1>0, AttemptsAre, LimitsAre DEF PauseRules
  <2>2. CASE AskedDay = {seoulDay}
    <3>1. AttemptsShown(AskedDay) = Attempts(seoulDay)
      BY <1>0, <2>2, AttemptsAre
    <3>2. "attempts" \in Stopping <=> Attempts(seoulDay) >= PageLimits["attempts"]
      BY StoppingIs
    <3> QED
      BY <2>1, <3>1, <3>2
  <2>3. CASE AskedDay # {seoulDay}
    <3>1. \A i \in DOMAIN book : book[i].day # seoulDay
      BY <1>1, <2>3 DEF AskedInv
    <3>2. Attempts(seoulDay) = 0
      BY <1>0, <3>1, AttemptsAre
    <3>3. "attempts" \notin Stopping
      <4>1. ~ (Attempts(seoulDay) >= PageLimits["attempts"])
        BY <2>1, <3>2
      <4> QED
        BY <4>1, StoppingIs
    <3> QED
      BY <2>3, <3>3
  <2> QED
    BY <2>2, <2>3
<1> QED
  BY <1>3, <1>4, <1>5, <1>6

\* The page on the limits is asked for.
LEMMA AskLimitsInv ==
  ASSUME CsInv, AskLimits
  PROVE  CsInv'
<1>0. /\ page.at = "asked" /\ CsTypes /\ AskedInv /\ StandingInv /\ Reads
      /\ stopping' = Stopping /\ free' = PauseRules \ Stopping
      /\ page' = LimitsPage(page, lapsed, seoulDay, Len(snaps), AskedNav, AskedDay)
  BY DEF AskLimits, CsInv, AskedNav, AskedDay, LimitsPage
<1>1. /\ AskedNav \in SUBSET (Nat \ {0}) /\ AskedDay \in SUBSET Nat
      /\ AskedNav # {} => AskedDay # {} /\ \A d \in AskedDay : HasSnapshot(d)
      /\ \A n \in AskedNav : "drawdown" \in Stopping <=> \E b \in Navs(snaps) : Loses(n, b, PageLimits["drawdown"])
      /\ \A n \in AskedNav, b \in Openings(AskedDay) :
           IF ~ Loses(n, b, PageLimits["dailyLoss"]) THEN "dailyLoss" \notin Stopping
           ELSE AskedDay = {seoulDay} => "dailyLoss" \in Stopping
      /\ IF AttemptsShown(AskedDay) < PageLimits["attempts"] THEN "attempts" \notin Stopping
         ELSE AskedDay = {seoulDay} => "attempts" \in Stopping
  BY <1>0, AskedTells
<1>2. page \in PageType /\ lapsed \in Nat /\ seoulDay \in Nat /\ Len(snaps) \in Nat
  BY <1>0 DEF CsTypes
<1>3. /\ page' \in PageType
      /\ page'.at = "baselines" /\ page'.kind = "limits" /\ page'.since = lapsed /\ page'.began = seoulDay
      /\ page'.received = Len(snaps) /\ page'.nav = AskedNav /\ page'.day = AskedDay
  BY <1>0, <1>1, <1>2, LimitsFields
<1>4. snaps' = snaps /\ lapsed' = lapsed
  BY <1>0 DEF Reads, factVars
<1>5. /\ Stopping' = Stopping /\ Navs(snaps)' = Navs(snaps)
      /\ \A d : OpeningNavs(d)' = OpeningNavs(d)
      /\ \A E : AttemptsShown(E)' = AttemptsShown(E) /\ Openings(E)' = Openings(E)
  BY <1>0, SameFacts
<1>6. Openings(page.day)' = Openings(AskedDay) /\ AttemptsShown(page.day)' = AttemptsShown(AskedDay)
  BY <1>3, <1>5
<1>7. LimitsInv'
  <2>1. PeakTells(Navs(snaps))'
    BY <1>0, <1>1, <1>3, <1>4, <1>5 DEF PeakTells, Tells, PauseRules
  <2>2. OpeningTells(Openings(page.day))'
    BY <1>0, <1>1, <1>3, <1>6 DEF OpeningTells, Tells, PauseRules
  <2>3. AttemptsTell({AttemptsShown(page.day)})'
    BY <1>0, <1>1, <1>3, <1>6 DEF AttemptsTell, Tells, PauseRules
  <2>4. page'.nav # {} => page'.day # {} /\ \A d \in page'.day : HasSnapshot(d)'
    BY <1>1, <1>3, <1>4 DEF HasSnapshot
  <2>5. page'.since <= lapsed' /\ page'.received <= Len(snaps')
    BY <1>2, <1>3, <1>4
  <2>6. PauseRules \ Stopping' \subseteq free' /\ Stopping' \subseteq stopping'
    BY <1>0, <1>5
  <2> QED
    BY <1>3, <2>1, <2>2, <2>3, <2>4, <2>5, <2>6 DEF LimitsInv, LimitsPlaces, ReadingsTell
<1>8. CsTypes' /\ AskedInv' /\ StandingInv'
  <2>1. free' \subseteq PauseRules /\ stopping' \subseteq PauseRules
    BY <1>0, StoppingIs
  <2> QED
    BY <1>0, <1>3, <2>1, ReadingKeepsTypes
<1> QED
  BY <1>3, <1>7, <1>8 DEF CsInv, GateInv, FreeIsTrue, AlarmIsTrue, ReconciledIsTrue, QuietIsTrue, Shown

\* What a value says of a rule stays said.
LEMMA SameTells ==
  ASSUME Reads, UNCHANGED <<free, stopping>>, SameQuestion(page', page)
  PROVE  /\ \A S : PeakTells(S) => PeakTells(S)'
         /\ \A S : OpeningTells(S) => OpeningTells(S)'
         /\ \A S : AttemptsTell(S) => AttemptsTell(S)'
         /\ \A S : RejectsTell(S) => RejectsTell(S)'
<1>1. /\ snaps' = snaps /\ resumedFrom' = resumedFrom /\ free' = free /\ stopping' = stopping
      /\ page'.nav = page.nav /\ page'.received = page.received /\ page'.day = page.day /\ page'.began = page.began
  BY DEF Reads, factVars, SameQuestion
<1>2. \A S : PeakTells(S) => PeakTells(S)'
  BY <1>1 DEF PeakTells, Tells
<1>3. \A S : OpeningTells(S) => OpeningTells(S)'
  BY <1>1 DEF OpeningTells, Tells
<1>4. \A S : AttemptsTell(S) => AttemptsTell(S)'
  BY <1>1 DEF AttemptsTell, Tells
<1>5. \A S : RejectsTell(S) => RejectsTell(S)'
  BY <1>1 DEF RejectsTell, Tells
<1> QED
  BY <1>2, <1>3, <1>4, <1>5

\* What holds while the page on the limits is read.
LEMMA LimitsAt ==
  ASSUME CsInv, page.at \in LimitsPlaces
  PROVE  /\ CsTypes /\ StandingInv /\ page \in PageType /\ page.kind = "limits"
         /\ page.since <= lapsed /\ page.received <= Len(snaps)
         /\ PauseRules \ Stopping \subseteq free /\ Stopping \subseteq stopping
         /\ page.nav # {} => page.day # {} /\ \A d \in page.day : HasSnapshot(d)
         /\ ReadingsTell
<1>1. page \in PageType /\ page.at \notin {"asked", "shown"} /\ page.at \notin {"incidents", "unreconciled", "stale"}
  BY DEF CsInv, CsTypes, LimitsPlaces
<1>2. page.kind \in {"limits", "gate"}
  BY <1>1 DEF PageType
<1>3. page.kind = "limits"
  BY <1>1, <1>2 DEF CsInv, GateInv, GatePlaces
<1> QED
  BY <1>1, <1>3 DEF CsInv, LimitsInv

\* One more reading keeps the invariant when what it read says how the rules stood.
LEMMA LimitsReading ==
  ASSUME CsInv, page.at \in LimitsPlaces, Reads, UNCHANGED <<free, stopping>>, page' \in PageType,
         SameQuestion(page', page), page'.at \in LimitsPlaces, ReadingsTell'
  PROVE  CsInv'
<1>1. /\ CsTypes /\ StandingInv /\ page \in PageType /\ page.kind = "limits"
      /\ page.since <= lapsed /\ page.received <= Len(snaps)
      /\ PauseRules \ Stopping \subseteq free /\ Stopping \subseteq stopping
      /\ page.nav # {} => page.day # {} /\ \A d \in page.day : HasSnapshot(d)
  BY LimitsAt
<1>2. snaps' = snaps /\ lapsed' = lapsed
  BY DEF Reads, factVars
<1>3. Stopping' = Stopping
  BY SameFacts
<1>4. page'.at \notin {"asked", "shown"} /\ page'.kind = "limits"
  BY <1>1 DEF LimitsPlaces, SameQuestion
<1>5. LimitsInv'
  <2>1. page'.since <= lapsed' /\ page'.received <= Len(snaps')
    BY <1>1, <1>2 DEF SameQuestion
  <2>2. page'.nav # {} => page'.day # {} /\ \A d \in page'.day : HasSnapshot(d)'
    BY <1>1, <1>2 DEF SameQuestion, HasSnapshot
  <2>3. PauseRules \ Stopping' \subseteq free' /\ Stopping' \subseteq stopping'
    BY <1>1, <1>3
  <2> QED
    BY <2>1, <2>2, <2>3 DEF LimitsInv
<1>6. CsTypes' /\ AskedInv' /\ StandingInv'
  <2>1. free' \subseteq PauseRules /\ stopping' \subseteq PauseRules
    BY <1>1 DEF CsTypes
  <2> QED
    BY <1>1, <1>4, <2>1, ReadingKeepsTypes
<1> QED
  BY <1>4, <1>5, <1>6 DEF CsInv, GateInv, FreeIsTrue, AlarmIsTrue, ReconciledIsTrue, QuietIsTrue, Shown

\* The peak is read: no value of a snapshot is above it.
LEMMA ReadPeakInv ==
  ASSUME CsInv, ReadPeak
  PROVE  CsInv'
<1> DEFINE P == IF page.day = {} \/ snaps = <<>> THEN {} ELSE {Max(Navs(snaps))}
<1>0. /\ page.at = "baselines" /\ page.at \in LimitsPlaces /\ Reads /\ UNCHANGED <<free, stopping>>
      /\ page' = [page EXCEPT !.at = "opening", !.peak = P]
  BY DEF ReadPeak, Reading, LimitsPlaces
<1>1. /\ CsTypes /\ page \in PageType /\ ReadingsTell
      /\ page.nav # {} => page.day # {} /\ \A d \in page.day : HasSnapshot(d)
  BY <1>0, LimitsAt
<1>2. snaps \in Seq(SnapType) /\ page.nav \subseteq Nat \ {0} /\ \A n \in Navs(snaps) : n \in Nat \ {0}
  <2>1. snaps \in Seq(SnapType) /\ page.nav \subseteq Nat \ {0}
    BY <1>1 DEF CsTypes, PageType
  <2>2. \A i \in DOMAIN snaps : snaps[i] \in SnapType
    BY <2>1
  <2> QED
    BY <2>1, <2>2 DEF Navs, SnapType
<1>3. snaps # <<>> => Max(Navs(snaps)) \in Navs(snaps) /\ \A n \in Navs(snaps) : n <= Max(Navs(snaps))
  BY <1>2, PeakIs
<1>4. P \in SUBSET (Nat \ {0})
  BY <1>2, <1>3
<1>5. PeakTells(P)
  <2> SUFFICES ASSUME NEW n \in page.nav
               PROVE  Tells("drawdown", \A b \in P : ~ Loses(n, b, PageLimits["drawdown"]), page.received = Len(snaps))
    BY DEF PeakTells
  <2>1. snaps # <<>> /\ page.day # {}
    BY <1>1 DEF HasSnapshot
  <2>2. P = {Max(Navs(snaps))}
    BY <2>1
  <2>3. (\A b \in P : ~ Loses(n, b, PageLimits["drawdown"]))
          <=> \A b \in Navs(snaps) : ~ Loses(n, b, PageLimits["drawdown"])
    <3>1. PageLimits["drawdown"] \in 1 .. Unit
      BY LimitsAre DEF PauseRules
    <3>2. ASSUME NEW b \in Navs(snaps), Loses(n, b, PageLimits["drawdown"])
          PROVE  Loses(n, Max(Navs(snaps)), PageLimits["drawdown"])
      <4>1. n \in Nat /\ b \in Nat /\ Max(Navs(snaps)) \in Nat /\ b <= Max(Navs(snaps))
        BY <1>2, <1>3, <2>1
      <4> QED
        BY <3>1, <3>2, <4>1, LosesMore
    <3> QED
      BY <1>3, <2>1, <2>2, <3>2
  <2>4. Tells("drawdown", \A b \in Navs(snaps) : ~ Loses(n, b, PageLimits["drawdown"]), page.received = Len(snaps))
    BY <1>0, <1>1 DEF ReadingsTell, PeakTells
  <2> QED
    BY <2>3, <2>4 DEF Tells
<1> HIDE DEF P
<1>6. /\ page' \in PageType /\ SameQuestion(page', page) /\ page'.at = "opening" /\ page'.peak = P
      /\ page'.opening = page.opening /\ SameCounts(page', page)
  BY <1>0, <1>1, <1>4, PeakField
<1>7. ReadingsTell'
  <2>1. PeakTells(page.peak)'
    BY <1>0, <1>5, <1>6, SameTells
  <2>2. page'.day = page.day
    BY <1>6 DEF SameQuestion
  <2>3. Openings(page.day)' = Openings(page.day) /\ AttemptsShown(page.day)' = AttemptsShown(page.day)
    BY <1>0, <2>2, SameFacts
  <2>4. OpeningTells(Openings(page.day)) /\ AttemptsTell({AttemptsShown(page.day)})
    BY <1>0, <1>1 DEF ReadingsTell
  <2>5. OpeningTells(Openings(page.day))' /\ AttemptsTell({AttemptsShown(page.day)})'
    BY <1>0, <1>6, <2>3, <2>4, SameTells
  <2>6. \A b, c \in page'.peak : b = c
    BY <1>6 DEF P
  <2> QED
    BY <1>6, <2>1, <2>5, <2>6 DEF ReadingsTell
<1> QED
  BY <1>0, <1>6, <1>7, LimitsReading DEF LimitsPlaces

\* The value at the opening is read.
LEMMA ReadOpeningInv ==
  ASSUME CsInv, ReadOpening
  PROVE  CsInv'
<1> DEFINE P == Openings(page.day)
<1>0. /\ page.at = "opening" /\ page.at \in LimitsPlaces /\ Reads /\ UNCHANGED <<free, stopping>>
      /\ page' = [page EXCEPT !.at = "attempts", !.opening = P]
  BY DEF ReadOpening, Reading, LimitsPlaces, Openings
<1>1. CsTypes /\ page \in PageType /\ ReadingsTell
  BY <1>0, LimitsAt
<1>2. P \in SUBSET (Nat \ {0})
  <2>1. \A d : OpeningNavs(d) \in SUBSET (Nat \ {0})
    BY <1>1, OpeningType DEF CsTypes
  <2> QED
    BY <2>1 DEF Openings
<1> HIDE DEF P
<1>3. /\ page' \in PageType /\ SameQuestion(page', page) /\ page'.at = "attempts" /\ page'.opening = P
      /\ page'.peak = page.peak /\ SameCounts(page', page)
  BY <1>0, <1>1, <1>2, OpeningField
<1>4. ReadingsTell'
  <2>1. /\ PeakTells(page.peak) /\ OpeningTells(P) /\ AttemptsTell({AttemptsShown(page.day)})
        /\ \A b, c \in page.peak : b = c
    BY <1>0, <1>1 DEF ReadingsTell, P
  <2>2. PeakTells(page.peak)' /\ OpeningTells(page.opening)'
    BY <1>0, <1>3, <2>1, SameTells
  <2>3. page'.day = page.day
    BY <1>3 DEF SameQuestion
  <2>4. AttemptsShown(page.day)' = AttemptsShown(page.day)
    BY <1>0, <2>3, SameFacts
  <2>5. AttemptsTell({AttemptsShown(page.day)})'
    BY <1>0, <1>3, <2>1, <2>4, SameTells
  <2> QED
    BY <1>3, <2>1, <2>2, <2>5 DEF ReadingsTell
<1> QED
  BY <1>0, <1>3, <1>4, LimitsReading DEF LimitsPlaces

\* The attempts are read.
LEMMA ReadAttemptsInv ==
  ASSUME CsInv, ReadAttempts
  PROVE  CsInv'
<1> DEFINE P == {AttemptsShown(page.day)}
<1>0. /\ page.at = "attempts" /\ page.at \in LimitsPlaces /\ Reads /\ UNCHANGED <<free, stopping>>
      /\ page' = [page EXCEPT !.at = "rejects", !.attempts = P]
  BY DEF ReadAttempts, Reading, LimitsPlaces
<1>1. CsTypes /\ page \in PageType /\ ReadingsTell
  BY <1>0, LimitsAt
<1>2. P \in SUBSET Nat
  BY <1>1, AttemptsAre DEF CsTypes
<1> HIDE DEF P
<1>3. /\ page' \in PageType /\ SameQuestion(page', page) /\ page'.at = "rejects" /\ page'.attempts = P
      /\ SameLosses(page', page) /\ page'.rejects = page.rejects
  BY <1>0, <1>1, <1>2, AttemptsField
<1>4. ReadingsTell'
  <2>1. /\ PeakTells(page.peak) /\ OpeningTells(page.opening) /\ AttemptsTell(P)
        /\ \A b, c \in page.peak : b = c
    BY <1>0, <1>1 DEF ReadingsTell, P
  <2>2. page'.peak = page.peak /\ page'.opening = page.opening
    BY <1>3 DEF SameLosses
  <2>3. PeakTells(page.peak)' /\ OpeningTells(page.opening)' /\ AttemptsTell(page.attempts)'
    BY <1>0, <1>3, <2>1, <2>2, SameTells
  <2> QED
    BY <1>3, <2>1, <2>2, <2>3 DEF ReadingsTell
<1> QED
  BY <1>0, <1>3, <1>4, LimitsReading DEF LimitsPlaces

\* The rejections are read, of all orders: no fewer than the gate counts, and as many
\* where nobody resumed.
LEMMA ReadRejectsInv ==
  ASSUME CsInv, ReadRejects
  PROVE  CsInv'
<1> DEFINE P == {RejectsFrom(1)}
<1>0. /\ page.at = "rejects" /\ page.at \in LimitsPlaces /\ Reads /\ UNCHANGED <<free, stopping>>
      /\ page' = [page EXCEPT !.at = "failures", !.rejects = P]
  BY DEF ReadRejects, Reading, LimitsPlaces
<1>1. /\ CsTypes /\ page \in PageType /\ ReadingsTell
      /\ PauseRules \ Stopping \subseteq free /\ Stopping \subseteq stopping
  BY <1>0, LimitsAt
<1>2. /\ RejectsFrom(1) \in Nat /\ RejectsFrom(resumedFrom + 1) \in Nat
      /\ RejectsFrom(resumedFrom + 1) <= RejectsFrom(1)
      /\ resumedFrom = 0 => RejectsFrom(resumedFrom + 1) = RejectsFrom(1)
  <2>1. resumedFrom \in Nat /\ book \in Seq(OrderType)
    BY <1>1 DEF CsTypes
  <2>2. resumedFrom = 0 => resumedFrom + 1 = 1
    OBVIOUS
  <2> QED
    BY <2>1, <2>2, RejectsAre
<1>3. RejectsTell(P)
  <2>1. "rejects" \in Stopping <=> RejectsFrom(resumedFrom + 1) >= PageLimits["rejects"]
    BY StoppingIs
  <2>2. PageLimits["rejects"] \in Nat
    BY LimitsAre DEF PauseRules
  <2>3. RejectsFrom(1) < PageLimits["rejects"] => "rejects" \in PauseRules \ Stopping
    BY <1>2, <2>1, <2>2 DEF PauseRules
  <2>4. ~ (RejectsFrom(1) < PageLimits["rejects"]) /\ resumedFrom = 0 => "rejects" \in Stopping
    BY <1>2, <2>1, <2>2
  <2> QED
    BY <1>1, <2>3, <2>4 DEF RejectsTell, Tells
<1>4. P \in SUBSET Nat
  BY <1>2
<1> HIDE DEF P
<1>5. /\ page' \in PageType /\ SameQuestion(page', page) /\ page'.at = "failures" /\ page'.rejects = P
      /\ SameLosses(page', page) /\ page'.attempts = page.attempts
  BY <1>0, <1>1, <1>4, RejectsField
<1>6. ReadingsTell'
  <2>1. /\ PeakTells(page.peak) /\ OpeningTells(page.opening) /\ AttemptsTell(page.attempts)
        /\ \A b, c \in page.peak : b = c
    BY <1>0, <1>1 DEF ReadingsTell
  <2>2. page'.peak = page.peak /\ page'.opening = page.opening
    BY <1>5 DEF SameLosses
  <2>3. PeakTells(page.peak)' /\ OpeningTells(page.opening)' /\ AttemptsTell(page.attempts)' /\ RejectsTell(page.rejects)'
    BY <1>0, <1>3, <1>5, <2>1, <2>2, SameTells
  <2> QED
    BY <1>5, <2>1, <2>2, <2>3 DEF ReadingsTell
<1> QED
  BY <1>0, <1>5, <1>6, LimitsReading DEF LimitsPlaces

\* A loss is shown as below its limit only if it is, and as at it if it is or nearly is.
LEMMA LossShown ==
  ASSUME page \in PageType, NEW rule \in PauseRules, NEW basis \in SUBSET (Nat \ {0}),
         NEW n \in page.nav, NEW b \in basis
  PROVE  LET u == LossUse(n, b, PageLimits[rule]) IN
           /\ u \in Nat
           /\ u < Unit => ~ Loses(n, b, PageLimits[rule])
           /\ u >= Unit => Loses(n, b, PageLimits[rule]) \/ RoundedUp(basis, PageLimits[rule])
<1> DEFINE l == PageLimits[rule]
<1>1. n \in Nat \ {0} /\ b \in Nat \ {0} /\ l \in 1 .. Unit
  BY LimitsAre DEF PageType
<1> HIDE DEF l
<1>2. /\ LossUse(n, b, l) \in Nat
      /\ LossUse(n, b, l) < Unit => ~ Loses(n, b, l)
      /\ LossUse(n, b, l) >= Unit => 2 * (b - n) * Unit >= b * (2 * l - 1)
  BY <1>1, LossUses
<1>3. ~ Loses(n, b, l) /\ 2 * (b - n) * Unit >= b * (2 * l - 1) => RoundedUp(basis, l)
  BY DEF RoundedUp
<1> QED
  BY <1>2, <1>3 DEF l

\* The page on the limits is shown: rule by rule it does not flatter, and raises no alarm
\* without a cause.
LEMMA ShowLimitsInv ==
  ASSUME CsInv, ShowLimits
  PROVE  CsInv'
<1> DEFINE f == FailuresAfter(page.since)
           U == UsageOf(page, f)
           FreeTrue(rule) == (\E u \in U[rule] : u < Unit) => rule \in free
           AlarmTrue(rule) == (\E u \in U[rule] : u >= Unit) => rule \in stopping \/ FalseAlarm(rule)
<1>0. /\ page.at = "failures" /\ page.at \in LimitsPlaces /\ Reads /\ UNCHANGED <<free, stopping>>
      /\ page' = [page EXCEPT !.at = "shown", !.usage = U]
  BY DEF ShowLimits, Reading, LimitsPlaces
<1>1. /\ CsTypes /\ StandingInv /\ page \in PageType /\ ReadingsTell /\ page.kind = "limits"
      /\ PauseRules \ Stopping \subseteq free /\ Stopping \subseteq stopping
      /\ page.since <= lapsed /\ page.received <= Len(snaps)
      /\ page.nav # {} => page.day # {} /\ \A d \in page.day : HasSnapshot(d)
  BY <1>0, LimitsAt
<1>2. /\ f \in Nat /\ FailuresAfter(lapsed) \in Nat /\ FailuresAfter(lapsed) <= f
      /\ lapsed = page.since => FailuresAfter(lapsed) = f
  <2>1. troubles \in Seq(Trouble) /\ page.since \in Nat /\ lapsed \in Nat
    BY <1>1 DEF CsTypes, PageType
  <2> QED
    BY <1>1, <2>1, FailuresAre
<1> HIDE DEF f
<1>3. /\ U["dailyLoss"] = {LossUse(n, b, PageLimits["dailyLoss"]) : n \in page.nav, b \in page.opening}
      /\ U["drawdown"] = {LossUse(n, b, PageLimits["drawdown"]) : n \in page.nav, b \in page.peak}
      /\ U["attempts"] = {CountUse(c, PageLimits["attempts"]) : c \in page.attempts}
      /\ U["rejects"] = {CountUse(c, PageLimits["rejects"]) : c \in page.rejects}
      /\ U["failures"] = {CountUse(f, PageLimits["failures"])}
      /\ U = [rule \in PauseRules |-> U[rule]]
  BY DEF UsageOf, PauseRules
<1> HIDE DEF U
<1>4. /\ page.opening \in SUBSET (Nat \ {0}) /\ page.peak \in SUBSET (Nat \ {0})
      /\ page.attempts \subseteq Nat /\ page.rejects \subseteq Nat
  BY <1>1 DEF PageType
<1>5. \A rule \in PauseRules, c \in Nat :
        /\ CountUse(c, PageLimits[rule]) \in Nat /\ PageLimits[rule] \in Nat
        /\ CountUse(c, PageLimits[rule]) < Unit <=> c < PageLimits[rule]
  BY CountUses, LimitsAre
<1>6. Unit \in Nat
  BY Numbers
<1>7. PeakTells(page.peak) /\ OpeningTells(page.opening) /\ AttemptsTell(page.attempts) /\ RejectsTell(page.rejects)
  BY <1>0, <1>1 DEF ReadingsTell
<1>8. U["dailyLoss"] \subseteq Int /\ FreeTrue("dailyLoss") /\ AlarmTrue("dailyLoss")
  <2>1. \A n \in page.nav, b \in page.opening : LET u == LossUse(n, b, PageLimits["dailyLoss"]) IN
          /\ u \in Nat /\ (u < Unit => ~ Loses(n, b, PageLimits["dailyLoss"]))
          /\ u >= Unit => \/ Loses(n, b, PageLimits["dailyLoss"])
                          \/ RoundedUp(page.opening, PageLimits["dailyLoss"])
    BY <1>1, <1>4, LossShown DEF PauseRules
  <2>2. \A n \in page.nav, b \in page.opening :
          Tells("dailyLoss", ~ Loses(n, b, PageLimits["dailyLoss"]), page.day = {page.began})
    BY <1>7 DEF OpeningTells
  <2>3. FalseAlarm("dailyLoss")
          <=> page.day # {page.began} \/ RoundedUp(page.opening, PageLimits["dailyLoss"])
    BY DEF FalseAlarm
  <2> QED
    BY <1>3, <2>1, <2>2, <2>3 DEF Tells
<1>9. U["drawdown"] \subseteq Int /\ FreeTrue("drawdown") /\ AlarmTrue("drawdown")
  <2>1. \A n \in page.nav, b \in page.peak : LET u == LossUse(n, b, PageLimits["drawdown"]) IN
          /\ u \in Nat /\ (u < Unit => ~ Loses(n, b, PageLimits["drawdown"]))
          /\ u >= Unit => \/ Loses(n, b, PageLimits["drawdown"])
                          \/ RoundedUp(page.peak, PageLimits["drawdown"])
    BY <1>1, <1>4, LossShown DEF PauseRules
  <2>2. \A n \in page.nav :
          Tells("drawdown", \A b \in page.peak : ~ Loses(n, b, PageLimits["drawdown"]), page.received = Len(snaps))
    BY <1>7 DEF PeakTells
  <2>3. FalseAlarm("drawdown")
          <=> page.received # Len(snaps) \/ RoundedUp(page.peak, PageLimits["drawdown"])
    BY DEF FalseAlarm
  <2>4. \A b, c \in page.peak : b = c
    BY <1>0, <1>1 DEF ReadingsTell
  <2> QED
    BY <1>3, <2>1, <2>2, <2>3, <2>4 DEF Tells
<1>10. U["attempts"] \subseteq Int /\ FreeTrue("attempts") /\ AlarmTrue("attempts")
  <2>1. \A c \in page.attempts : Tells("attempts", c < PageLimits["attempts"], page.day = {page.began})
    BY <1>7 DEF AttemptsTell
  <2>2. FalseAlarm("attempts") <=> page.day # {page.began}
    BY DEF FalseAlarm
  <2>3. \A u \in U["attempts"] : \E c \in page.attempts : u = CountUse(c, PageLimits["attempts"]) /\ c \in Nat
    BY <1>3, <1>4
  <2>4. "attempts" \in PauseRules
    BY DEF PauseRules
  <2> QED
    BY <1>5, <1>6, <2>1, <2>2, <2>3, <2>4 DEF Tells
<1>11. U["rejects"] \subseteq Int /\ FreeTrue("rejects") /\ AlarmTrue("rejects")
  <2>1. \A c \in page.rejects : Tells("rejects", c < PageLimits["rejects"], resumedFrom = 0)
    BY <1>7 DEF RejectsTell
  <2>2. FalseAlarm("rejects") <=> resumedFrom > 0
    BY DEF FalseAlarm
  <2>3. \A u \in U["rejects"] : \E c \in page.rejects : u = CountUse(c, PageLimits["rejects"]) /\ c \in Nat
    BY <1>3, <1>4
  <2>4. "rejects" \in PauseRules /\ resumedFrom \in Nat
    BY <1>1 DEF PauseRules, CsTypes
  <2> QED
    BY <1>5, <1>6, <2>1, <2>2, <2>3, <2>4 DEF Tells
<1>12. U["failures"] \subseteq Int /\ FreeTrue("failures") /\ AlarmTrue("failures")
  <2>1. "failures" \in Stopping <=> FailuresAfter(lapsed) >= PageLimits["failures"]
    BY StoppingIs
  <2>2. FalseAlarm("failures") <=> lapsed # page.since
    BY DEF FalseAlarm
  <2>3. "failures" \in PauseRules
    BY DEF PauseRules
  <2>4. f < PageLimits["failures"] => "failures" \in free
    BY <1>1, <1>2, <1>5, <2>1, <2>3
  <2>5. ~ (f < PageLimits["failures"]) /\ lapsed = page.since => "failures" \in stopping
    BY <1>1, <1>2, <1>5, <2>1, <2>3
  <2> QED
    BY <1>2, <1>3, <1>5, <1>6, <2>2, <2>3, <2>4, <2>5
<1>13. \A rule \in PauseRules : U[rule] \subseteq Int /\ FreeTrue(rule) /\ AlarmTrue(rule)
  <2> HIDE DEF FreeTrue, AlarmTrue
  <2> QED
    BY <1>8, <1>9, <1>10, <1>11, <1>12 DEF PauseRules
<1>14. U \in [PauseRules -> SUBSET Int]
  BY <1>3, <1>13
<1>15. /\ page' \in PageType /\ SameQuestion(page', page) /\ page'.at = "shown" /\ page'.usage = U
       /\ SameLosses(page', page) /\ SameCounts(page', page)
  BY <1>0, <1>1, <1>14, UsageField
<1>16. /\ snaps' = snaps /\ lapsed' = lapsed /\ resumedFrom' = resumedFrom /\ free' = free /\ stopping' = stopping
       /\ page'.day = page.day /\ page'.began = page.began /\ page'.received = page.received
       /\ page'.since = page.since /\ page'.nav = page.nav /\ page'.kind = "limits"
       /\ page'.opening = page.opening /\ page'.peak = page.peak
  BY <1>0, <1>1, <1>15 DEF Reads, factVars, SameQuestion, SameLosses
<1>17. FreeIsTrue'
  BY <1>13, <1>15, <1>16 DEF FreeIsTrue, ShownFree
<1>18. AlarmIsTrue'
  <2>1. \A rule \in PauseRules : FalseAlarm(rule) => FalseAlarm(rule)'
    BY <1>16 DEF FalseAlarm, RoundedUp
  <2> QED
    BY <1>13, <1>15, <1>16, <2>1 DEF AlarmIsTrue, ShownUsedUp
<1>19. CsTypes' /\ AskedInv' /\ StandingInv'
  <2>1. free' \subseteq PauseRules /\ stopping' \subseteq PauseRules
    BY <1>1, <1>16 DEF CsTypes
  <2> QED
    BY <1>0, <1>1, <1>15, <2>1, ReadingKeepsTypes
<1> QED
  BY <1>15, <1>16, <1>17, <1>18, <1>19 DEF CsInv, LimitsInv, GateInv, ReconciledIsTrue, QuietIsTrue, Shown

-----------------------------------------------------------------------------
(* The page on live trading: its readings.                               *)

\* What is known when the page is asked for.
LEMMA AskGateInv ==
  ASSUME CsInv, AskGate
  PROVE  CsInv'
<1> DEFINE O == {i \in DOMAIN book : book[i].day < seoulDay /\ book[i].state \in OpenStates}
           D == {d \in planDays : Cardinality({e \in planDays : e > d}) < GateWindow}
<1>0. /\ page.at = "asked" /\ CsTypes /\ AskedInv /\ StandingInv /\ Reads /\ UNCHANGED <<free, stopping>>
      /\ page' = ReadinessPage(page, seoulDay, Len(troubles), O, D)
  BY DEF AskGate, CsInv, ReadinessPage
<1>1. /\ seoulDay \in Nat /\ Len(troubles) \in Nat /\ page \in PageType
      /\ planDays \subseteq 0 .. seoulDay /\ DOMAIN book \subseteq Nat
  BY <1>0 DEF CsTypes
<1>2. O \in SUBSET Nat /\ D \in SUBSET Nat /\ D \subseteq 0 .. seoulDay
  <2>1. O \subseteq DOMAIN book /\ D \subseteq planDays
    OBVIOUS
  <2> HIDE DEF O, D
  <2> QED
    BY <1>1, <2>1
<1>3. \A i \in O : i \in DOMAIN book /\ book[i].day < seoulDay
  OBVIOUS
<1> HIDE DEF O, D
<1>4. /\ page' \in PageType
      /\ page'.at = "incidents" /\ page'.kind = "gate" /\ page'.began = seoulDay
      /\ page'.known = Len(troubles) /\ page'.oldOpen = O /\ page'.days = D
  BY <1>0, <1>1, <1>2, ReadinessFields
<1>5. book' = book /\ troubles' = troubles /\ free' = free /\ stopping' = stopping
  BY <1>0 DEF Reads, factVars
<1>6. CsTypes' /\ AskedInv' /\ StandingInv'
  <2>1. free' \subseteq PauseRules /\ stopping' \subseteq PauseRules
    BY <1>0, <1>5 DEF CsTypes
  <2> QED
    BY <1>0, <1>4, <2>1, ReadingKeepsTypes
<1>7. GateInv'
  <2>1. page'.known <= Len(troubles') /\ page'.days \subseteq 0 .. page'.began
    BY <1>1, <1>2, <1>4, <1>5
  <2>2. \A i \in page'.oldOpen : i \in DOMAIN book' /\ book'[i].day < page'.began
    BY <1>3, <1>4, <1>5
  <2> QED
    BY <1>4, <2>1, <2>2 DEF GateInv, GatePlaces
<1> QED
  BY <1>4, <1>6, <1>7 DEF CsInv, LimitsInv, FreeIsTrue, AlarmIsTrue, ReconciledIsTrue, QuietIsTrue, Shown

\* What holds while the page on live trading is read.
LEMMA GateAt ==
  ASSUME CsInv, page.at \in GatePlaces
  PROVE  /\ CsTypes /\ StandingInv /\ page \in PageType /\ page.kind = "gate"
         /\ page.known <= Len(troubles) /\ page.days \subseteq 0 .. page.began
         /\ \A i \in page.oldOpen : i \in DOMAIN book /\ book[i].day < page.began
         /\ page.at # "incidents" /\ page.incidents = 0 => QuietSoFar
         /\ page.at = "stale" /\ page.unreconciled = 0 => \A i \in standing : i > page.known
<1>1. page \in PageType /\ page.at \notin {"asked", "shown"} /\ page.at \notin LimitsPlaces
  BY DEF CsInv, CsTypes, LimitsPlaces, GatePlaces
<1>2. page.kind \in {"limits", "gate"}
  BY <1>1 DEF PageType
<1>3. page.kind = "gate"
  BY <1>1, <1>2 DEF CsInv, LimitsInv
<1> QED
  BY <1>1, <1>3 DEF CsInv, GateInv

\* A reading changes neither the incidents nor the days.
LEMMA SameQuiet ==
  ASSUME Reads, SameQuestion(page', page)
  PROVE  QuietSoFar => QuietSoFar'
<1>1. troubles' = troubles /\ page'.known = page.known /\ page'.began = page.began /\ page'.days = page.days
  BY DEF Reads, factVars, SameQuestion
<1> QED
  BY <1>1 DEF QuietSoFar

\* One more reading keeps the invariant when its count means what it should.
LEMMA GateReading ==
  ASSUME CsInv, page.at \in GatePlaces, Reads, UNCHANGED <<free, stopping>>, page' \in PageType,
         SameQuestion(page', page), page'.at \in {"unreconciled", "stale"},
         page'.incidents = 0 => QuietSoFar,
         page'.at = "stale" /\ page'.unreconciled = 0 => \A i \in standing : i > page.known
  PROVE  CsInv'
<1>1. /\ CsTypes /\ StandingInv /\ page \in PageType /\ page.kind = "gate"
      /\ page.known <= Len(troubles) /\ page.days \subseteq 0 .. page.began
      /\ \A i \in page.oldOpen : i \in DOMAIN book /\ book[i].day < page.began
  BY GateAt
<1>2. book' = book /\ troubles' = troubles /\ standing' = standing
  BY DEF Reads, factVars
<1>3. /\ page'.kind = "gate" /\ page'.known = page.known /\ page'.days = page.days
      /\ page'.began = page.began /\ page'.oldOpen = page.oldOpen
      /\ page'.at \notin {"asked", "shown"} /\ page'.at \in GatePlaces
  BY <1>1 DEF SameQuestion, GatePlaces
<1>4. GateInv'
  BY <1>1, <1>2, <1>3, SameQuiet DEF GateInv
<1>5. CsTypes' /\ AskedInv' /\ StandingInv'
  <2>1. free' \subseteq PauseRules /\ stopping' \subseteq PauseRules
    BY <1>1 DEF CsTypes
  <2> QED
    BY <1>1, <1>3, <2>1, ReadingKeepsTypes
<1> QED
  BY <1>3, <1>4, <1>5 DEF CsInv, LimitsInv, FreeIsTrue, AlarmIsTrue, ReconciledIsTrue, QuietIsTrue, Shown

\* As many days as the window reach back at least as far as the window.
LEMMA WindowReaches ==
  ASSUME NEW began \in Nat, NEW days, days \subseteq 0 .. began, days # {}, ~ (Cardinality(days) < GateWindow)
  PROVE  Min(days) <= began - GateWindow + 1
<1>1. Min(days) \in days /\ \A d \in days : Min(days) <= d
  <2>1. days \subseteq Nat
    OBVIOUS
  <2> QED
    BY <2>1, MinIsLeast
<1> DEFINE m == Min(days)
<1> HIDE DEF m
<1>2. m \in Int /\ days \subseteq m .. began /\ m <= began
  <2>1. m \in 0 .. began /\ \A d \in days : d \in 0 .. began /\ m <= d
    BY <1>1 DEF m
  <2> QED
    BY <2>1
<1>3. IsFiniteSet(m .. began) /\ Cardinality(m .. began) = began - m + 1
  BY <1>2, FS_Interval
<1>4. IsFiniteSet(days) /\ Cardinality(days) <= Cardinality(m .. began)
  BY <1>2, <1>3, FS_Subset
<1>5. Cardinality(days) \in Nat /\ GateWindow \in Nat
  BY <1>4, FS_CardinalityType, Numbers
<1> QED
  BY <1>2, <1>3, <1>4, <1>5 DEF m

\* The incidents are read: a count of zero is quiet.
LEMMA ReadIncidentsInv ==
  ASSUME CsInv, ReadIncidents
  PROVE  CsInv'
<1> DEFINE T == {i \in DOMAIN troubles : UtcDay(troubles[i]) >= Min(page.days)}
           I == IF page.days = {} THEN 0 ELSE Cardinality(T)
<1>0. /\ page.at = "incidents" /\ page.at \in GatePlaces /\ Reads /\ UNCHANGED <<free, stopping>>
      /\ page' = [page EXCEPT !.at = "unreconciled", !.incidents = I]
  BY DEF ReadIncidents, Reading, GatePlaces
<1>1. /\ CsTypes /\ page \in PageType /\ page.known <= Len(troubles) /\ page.days \subseteq 0 .. page.began
  BY <1>0, GateAt
<1>2. /\ troubles \in Seq(Trouble) /\ Len(troubles) \in Nat /\ page.known \in Nat /\ page.began \in Nat
      /\ GateWindow \in Nat \ {0}
  BY <1>1, Numbers DEF CsTypes, PageType
<1>3. Cardinality(T) \in Nat /\ (Cardinality(T) = 0 <=> T = {})
  <2>1. T \subseteq DOMAIN troubles
    OBVIOUS
  <2> HIDE DEF T
  <2> QED
    BY <1>2, <2>1, SomeEntries
<1>4. I \in Nat
  BY <1>3
<1>5. ASSUME I = 0, NEW i \in 1 .. page.known
      PROVE  \/ troubles[i].day <= page.began - GateWindow
             \/ Cardinality(page.days) < GateWindow /\ \A d \in page.days : troubles[i].day < d
             \/ troubles[i].early /\ \A d \in page.days : troubles[i].day <= d
  <2>1. i \in DOMAIN troubles /\ troubles[i].day \in Nat /\ troubles[i].early \in BOOLEAN
    <3>1. i \in DOMAIN troubles /\ troubles[i] \in Trouble
      BY <1>1, <1>2
    <3> QED
      BY <3>1 DEF Trouble
  <2>2. CASE page.days = {}
    <3>1. Cardinality(page.days) = 0
      BY <2>2, FS_EmptySet
    <3> QED
      BY <1>2, <2>2, <3>1
  <2>3. CASE page.days # {}
    <3>1. i \notin T
      BY <1>3, <1>5, <2>3
    <3>2. ~ (UtcDay(troubles[i]) >= Min(page.days))
      BY <2>1, <3>1
    <3>3. page.days \subseteq Nat
      BY <1>1, <1>2
    <3>4. Min(page.days) \in Nat /\ \A d \in page.days : d \in Nat /\ Min(page.days) <= d
      BY <2>3, <3>3, MinIsLeast
    <3>5. CASE troubles[i].early
      <4>1. troubles[i].day <= Min(page.days)
        BY <2>1, <3>2, <3>4, <3>5 DEF UtcDay
      <4> QED
        BY <2>1, <3>4, <3>5, <4>1
    <3>6. CASE ~ troubles[i].early
      <4>1. troubles[i].day < Min(page.days)
        BY <2>1, <3>2, <3>4, <3>6 DEF UtcDay
      <4>2. \A d \in page.days : troubles[i].day < d
        BY <2>1, <3>4, <4>1
      <4>3. CASE Cardinality(page.days) < GateWindow
        BY <4>2, <4>3
      <4>4. CASE ~ (Cardinality(page.days) < GateWindow)
        <5>1. Min(page.days) <= page.began - GateWindow + 1
          BY <1>1, <1>2, <2>3, <4>4, WindowReaches
        <5> QED
          BY <1>2, <2>1, <3>4, <4>1, <5>1
      <4> QED
        BY <4>3, <4>4
    <3> QED
      BY <2>1, <3>5, <3>6
  <2> QED
    BY <2>2, <2>3
<1> HIDE DEF I
<1>6. /\ page' \in PageType /\ SameQuestion(page', page) /\ page'.at = "unreconciled" /\ page'.incidents = I
      /\ page'.unreconciled = page.unreconciled
  BY <1>0, <1>1, <1>4, IncidentsField
<1>7. I = 0 => QuietSoFar
  BY <1>5 DEF QuietSoFar
<1> QED
  BY <1>0, <1>6, <1>7, GateReading

\* The problems are read: if none is counted, none still stands.
LEMMA ReadUnreconciledInv ==
  ASSUME CsInv, ReadUnreconciled
  PROVE  CsInv'
<1> DEFINE T == {i \in DOMAIN troubles :
                   /\ troubles[i].type = "problem"
                   /\ ~ Closed(troubles[i].number) /\ troubles[i].number \notin explained}
           I == Cardinality(T)
<1>0. /\ page.at = "unreconciled" /\ page.at \in GatePlaces /\ Reads /\ UNCHANGED <<free, stopping>>
      /\ page' = [page EXCEPT !.at = "stale", !.unreconciled = I]
  BY DEF ReadUnreconciled, Reading, GatePlaces
<1>1. CsTypes /\ StandingInv /\ page \in PageType /\ (page.incidents = 0 => QuietSoFar)
  BY <1>0, GateAt
<1>2. I \in Nat /\ (I = 0 <=> T = {})
  <2>1. T \subseteq DOMAIN troubles /\ troubles \in Seq(Trouble)
    BY <1>1 DEF CsTypes
  <2> HIDE DEF T
  <2> QED
    BY <2>1, SomeEntries
<1>3. standing \subseteq T
  BY <1>1 DEF StandingInv, Unsettled
<1> HIDE DEF T, I
<1>4. /\ page' \in PageType /\ SameQuestion(page', page) /\ page'.at = "stale" /\ page'.unreconciled = I
      /\ page'.incidents = page.incidents
  BY <1>0, <1>1, <1>2, UnreconciledField
<1>5. I = 0 => \A i \in standing : i > page.known
  BY <1>2, <1>3
<1> QED
  BY <1>0, <1>1, <1>4, <1>5, GateReading

\* The page on live trading is shown.
LEMMA ShowGateInv ==
  ASSUME CsInv, ShowGate
  PROVE  CsInv'
<1> DEFINE R == page.unreconciled + Cardinality(StaleOpen) = 0
           Q == page.incidents = 0
<1>0. /\ page.at = "stale" /\ page.at \in GatePlaces /\ Reads /\ UNCHANGED <<free, stopping>>
      /\ page' = GatePage(page, R, Q)
  BY DEF ShowGate, Reading, GatePlaces, GatePage
<1>1. /\ CsTypes /\ StandingInv /\ page \in PageType /\ page.kind = "gate"
      /\ \A i \in page.oldOpen : i \in DOMAIN book /\ book[i].day < page.began
      /\ page.incidents = 0 => QuietSoFar
      /\ page.unreconciled = 0 => \A i \in standing : i > page.known
  BY <1>0, GateAt
<1>2. Cardinality(StaleOpen) \in Nat /\ (Cardinality(StaleOpen) = 0 <=> StaleOpen = {}) /\ page.unreconciled \in Nat
  <2>1. StaleOpen \subseteq DOMAIN book /\ book \in Seq(OrderType)
    BY <1>1 DEF StaleOpen, CsTypes
  <2> QED
    BY <1>1, <2>1, SomeEntries DEF PageType
<1>3. R => page.unreconciled = 0 /\ StaleOpen = {}
  BY <1>2
<1>4. R \in BOOLEAN /\ Q \in BOOLEAN
  OBVIOUS
<1> HIDE DEF R, Q
<1>5. /\ page' \in PageType /\ SameQuestion(page', page)
      /\ page'.at = "shown" /\ page'.reconciled = R /\ page'.quiet = Q
  BY <1>0, <1>1, <1>4, GateFields
<1>6. /\ book' = book /\ troubles' = troubles /\ standing' = standing
      /\ page'.known = page.known /\ page'.oldOpen = page.oldOpen /\ page'.kind = "gate"
      /\ page'.began = page.began /\ page'.days = page.days
  BY <1>0, <1>1, <1>5 DEF Reads, factVars, SameQuestion
<1>7. ReconciledIsTrue'
  BY <1>1, <1>3, <1>5, <1>6 DEF ReconciledIsTrue, StaleOpen
<1>8. QuietIsTrue'
  BY <1>1, <1>5, <1>6 DEF QuietIsTrue, QuietSoFar, Q
<1>9. CsTypes' /\ AskedInv' /\ StandingInv'
  <2>1. free' \subseteq PauseRules /\ stopping' \subseteq PauseRules
    BY <1>0, <1>1 DEF CsTypes
  <2> QED
    BY <1>0, <1>1, <1>5, <2>1, ReadingKeepsTypes
<1> QED
  BY <1>5, <1>6, <1>7, <1>8, <1>9 DEF CsInv, LimitsInv, GateInv, FreeIsTrue, AlarmIsTrue, Shown

-----------------------------------------------------------------------------
(* What is stored meanwhile.                                             *)

\* What one write does to the facts that the readings depend on.
FactsGrow ==
  /\ page.at \notin {"asked", "shown"} /\ page' = page
  /\ snaps' = snaps \/ \E x \in SnapType : snaps' = Append(snaps, x)
  /\ DOMAIN book \subseteq DOMAIN book' /\ \A i \in DOMAIN book : book'[i].day = book[i].day
  /\ \A i \in DOMAIN book' \ DOMAIN book : book'[i].day = seoulDay'
  /\ Len(troubles) <= Len(troubles') /\ \A i \in DOMAIN troubles : troubles'[i] = troubles[i]
  /\ lapsed <= lapsed' /\ (resumedFrom' = 0 => resumedFrom = 0)
  /\ \A i \in standing' : i \in standing \/ i > Len(troubles)
  /\ Followed

\* What every write has in common.
LEMMA WriteTypes ==
  ASSUME CsTypes, Stored, Followed
  PROVE  /\ page.at \notin {"asked", "shown"} /\ page' = page /\ written' \in 0 .. MaxFacts
         /\ free' \subseteq PauseRules /\ stopping' \subseteq PauseRules
<1>1. written \in Nat /\ MaxFacts \in Nat /\ written < MaxFacts /\ written' = written + 1
  BY ConsoleAssumption DEF CsTypes, Stored
<1>2. Stopping' \subseteq PauseRules
  BY DEF Stopping
<1> QED
  BY <1>1, <1>2 DEF CsTypes, Stored, Followed

\* A snapshot is saved.
LEMMA SaveSnapshotGrows ==
  ASSUME CsTypes, StandingInv, NEW nav \in NetAssets, SaveSnapshot(nav)
  PROVE  CsTypes' /\ StandingInv' /\ FactsGrow
<1>1. /\ Stored /\ Followed /\ snaps' = Append(snaps, [day |-> seoulDay, nav |-> nav])
      /\ UNCHANGED <<seoulDay, early, book, planDays, troubles, explained, resumedFrom, lapsed, standing>>
  BY DEF SaveSnapshot
<1>2. [day |-> seoulDay, nav |-> nav] \in SnapType
  BY Numbers DEF CsTypes, SnapType
<1>3. snaps' \in Seq(SnapType)
  BY <1>1, <1>2 DEF CsTypes
<1>4. CsTypes'
  BY <1>1, <1>3, WriteTypes DEF CsTypes
<1>5. StandingInv'
  BY <1>1 DEF StandingInv, Unsettled, Closed
<1>6. FactsGrow
  BY <1>1, <1>2, WriteTypes DEF FactsGrow, CsTypes
<1> QED
  BY <1>4, <1>5, <1>6

\* Orders are added with their day, behind those there are.
LEMMA SavePlanGrows ==
  ASSUME CsTypes, StandingInv, NEW states \in {<<>>, <<"planned">>, <<"rejected">>}, SavePlan(states)
  PROVE  CsTypes' /\ StandingInv' /\ FactsGrow
<1> DEFINE new == [i \in DOMAIN states |-> [day |-> seoulDay, state |-> states[i], sent |-> FALSE]]
<1>1. /\ Stored /\ Followed /\ planDays' = planDays \cup {seoulDay} /\ book' = book \o new
      /\ UNCHANGED <<seoulDay, early, snaps, troubles, explained, resumedFrom, lapsed, standing>>
  BY DEF SavePlan
<1>2. seoulDay \in Nat \ {0} /\ book \in Seq(OrderType) /\ planDays \subseteq 0 .. seoulDay
  BY DEF CsTypes
<1>3. Len(states) \in Nat /\ DOMAIN states = 1 .. Len(states) /\ \A i \in DOMAIN states : states[i] \in OrderState
  BY DEF OrderState
<1>4. new \in Seq(OrderType) /\ Len(new) = Len(states) /\ DOMAIN new = DOMAIN states /\ \A i \in DOMAIN new : new[i].day = seoulDay
  <2>1. \A i \in DOMAIN states : [day |-> seoulDay, state |-> states[i], sent |-> FALSE] \in OrderType
    BY <1>2, <1>3 DEF OrderType
  <2>2. new \in [1 .. Len(states) -> OrderType]
    BY <1>3, <2>1
  <2> QED
    BY <1>3, <2>2
<1> HIDE DEF new
<1>5. /\ book' \in Seq(OrderType) /\ Len(book') = Len(book) + Len(new) /\ Len(book) \in Nat /\ Len(new) \in Nat
      /\ DOMAIN book = 1 .. Len(book) /\ DOMAIN book' = 1 .. Len(book')
      /\ \A i \in DOMAIN book : book'[i] = book[i]
      /\ \A i \in DOMAIN book' \ DOMAIN book : i - Len(book) \in DOMAIN new /\ book'[i] = new[i - Len(book)]
  <2>1. book' \in Seq(OrderType) /\ Len(book') = Len(book) + Len(new)
    <3>1. book \o new \in Seq(OrderType)
      BY <1>2, <1>4
    <3>2. Len(book \o new) = Len(book) + Len(new)
      BY <1>2, <1>4
    <3> QED
      BY <1>1, <3>1, <3>2
  <2>2. /\ Len(book) \in Nat /\ Len(new) \in Nat /\ DOMAIN new = 1 .. Len(new)
        /\ DOMAIN book = 1 .. Len(book) /\ DOMAIN book' = 1 .. Len(book')
    BY <1>2, <1>4, <2>1
  <2>3. \A i \in DOMAIN book : book'[i] = book[i]
    BY <1>1, <1>2, <1>4, <2>2
  <2>4. \A i \in DOMAIN book' \ DOMAIN book : i - Len(book) \in DOMAIN new /\ book'[i] = new[i - Len(book)]
    <3> SUFFICES ASSUME NEW i \in DOMAIN book' \ DOMAIN book
                 PROVE  i - Len(book) \in DOMAIN new /\ book'[i] = new[i - Len(book)]
      OBVIOUS
    <3>1. i \in (Len(book) + 1) .. (Len(book) + Len(new))
      BY <2>1, <2>2
    <3> QED
      BY <1>1, <1>2, <1>4, <2>2, <3>1
  <2> QED
    BY <2>1, <2>2, <2>3, <2>4
<1>6. CsTypes'
  <2>1. planDays' \subseteq 0 .. seoulDay'
    BY <1>1, <1>2
  <2>2. resumedFrom' \in 0 .. Len(book')
    BY <1>1, <1>5 DEF CsTypes
  <2>3. \A i \in DOMAIN troubles' : troubles'[i].number \in DOMAIN book' \cup {Unnumbered}
    BY <1>1, <1>5 DEF CsTypes
  <2> QED
    BY <1>1, <1>5, <2>1, <2>2, <2>3, WriteTypes DEF CsTypes
<1>7. StandingInv'
  <2>1. \A n \in DOMAIN book \cup {Unnumbered} : Closed(n)' <=> Closed(n)
    BY <1>5 DEF Closed
  <2>2. \A i \in standing : troubles[i].number \in DOMAIN book \cup {Unnumbered}
    BY DEF CsTypes, StandingInv
  <2> QED
    BY <1>1, <2>1, <2>2 DEF StandingInv, Unsettled
<1>8. FactsGrow
  <2>1. DOMAIN book \subseteq DOMAIN book' /\ \A i \in DOMAIN book : book'[i].day = book[i].day
    BY <1>5
  <2>2. \A i \in DOMAIN book' \ DOMAIN book : book'[i].day = seoulDay'
    BY <1>1, <1>4, <1>5
  <2> QED
    BY <1>1, <2>1, <2>2, WriteTypes DEF FactsGrow, CsTypes
<1> QED
  BY <1>6, <1>7, <1>8

\* An order moves to another state: the problems about it are over with its end, and no
\* order that has ended moves.
LEMMA MoveOrderGrows ==
  ASSUME CsTypes, StandingInv, NEW i \in DOMAIN book, NEW state \in OrderState, MoveOrder(i, state)
  PROVE  CsTypes' /\ StandingInv' /\ FactsGrow
<1>1. /\ Stored /\ Followed
      /\ book' = [book EXCEPT ![i].state = state, ![i].sent = @ \/ state = "submitted"]
      /\ standing' = IF state \in SettledStates THEN standing \ About(i) ELSE standing
      /\ UNCHANGED <<seoulDay, early, snaps, planDays, troubles, explained, resumedFrom, lapsed>>
  BY DEF MoveOrder
<1>2. book \in Seq(OrderType) /\ book[i] \in OrderType
  BY DEF CsTypes
<1>3. /\ book' \in Seq(OrderType) /\ Len(book') = Len(book) /\ DOMAIN book' = DOMAIN book
      /\ book'[i].state = state /\ \A k \in DOMAIN book : book'[k].day = book[k].day /\ (k # i => book'[k] = book[k])
  <2> DEFINE e == [book EXCEPT ![i].state = state]
  <2>1. /\ e \in Seq(OrderType) /\ Len(e) = Len(book) /\ DOMAIN e = DOMAIN book
        /\ e[i].state = state /\ \A k \in DOMAIN book : e[k].day = book[k].day /\ (k # i => e[k] = book[k])
    BY <1>2 DEF OrderType
  <2> HIDE DEF e
  <2> DEFINE b == e[i].sent \/ state = "submitted"
             g == [e EXCEPT ![i].sent = b]
  <2>2. e[i] \in OrderType /\ b \in BOOLEAN
    BY <2>1
  <2> HIDE DEF b
  <2>3. /\ g \in Seq(OrderType) /\ Len(g) = Len(e) /\ DOMAIN g = DOMAIN e
        /\ g[i].state = e[i].state /\ \A k \in DOMAIN e : g[k].day = e[k].day /\ (k # i => g[k] = e[k])
    BY <2>1, <2>2 DEF OrderType
  <2>4. book' = g
    BY <1>1 DEF e, b
  <2> QED
    BY <2>1, <2>3, <2>4
<1>4. CsTypes'
  BY <1>1, <1>3, WriteTypes DEF CsTypes
<1>5. StandingInv'
  <2>1. standing' \subseteq standing /\ DOMAIN troubles' = DOMAIN troubles
    BY <1>1
  <2>2. ASSUME NEW k \in standing' PROVE Unsettled(k)'
    <3>1. /\ k \in standing /\ k \in DOMAIN troubles /\ Unsettled(k)
          /\ troubles[k].number \in DOMAIN book \cup {Unnumbered}
      BY <2>1, <2>2 DEF StandingInv, CsTypes
    <3>2. ~ (Closed(troubles[k].number)')
      <4>1. CASE troubles[k].number # i
        BY <1>1, <1>3, <3>1, <4>1 DEF Unsettled, Closed
      <4>2. CASE troubles[k].number = i
        <5>1. state \notin SettledStates
          BY <1>1, <2>2, <3>1, <4>2 DEF Unsettled, About
        <5> QED
          BY <1>1, <1>3, <4>2, <5>1 DEF Closed
      <4> QED
        BY <4>1, <4>2
    <3> QED
      BY <1>1, <3>1, <3>2 DEF Unsettled
  <2> QED
    BY <2>1, <2>2 DEF StandingInv
<1>6. FactsGrow
  BY <1>1, <1>3, WriteTypes DEF FactsGrow, CsTypes
<1> QED
  BY <1>4, <1>5, <1>6

\* A trouble is added at the end.
LEMMA OccursGrows ==
  ASSUME CsTypes, NEW type \in {"problem", "failure"}, NEW n \in DOMAIN book \cup {Unnumbered}, Occurs(type, n)
  PROVE  /\ troubles' \in Seq(Trouble) /\ Len(troubles') = Len(troubles) + 1
         /\ Len(troubles) \in Nat /\ DOMAIN troubles = 1 .. Len(troubles) /\ DOMAIN troubles' = 1 .. Len(troubles')
         /\ \A i \in DOMAIN troubles : troubles'[i] = troubles[i]
         /\ troubles'[Len(troubles) + 1].type = type /\ troubles'[Len(troubles) + 1].number = n
         /\ \A i \in DOMAIN troubles' : troubles'[i].number \in DOMAIN book \cup {Unnumbered}
<1> DEFINE e == [type |-> type, number |-> n, day |-> seoulDay, early |-> early]
<1>1. DOMAIN book \subseteq Nat /\ Unnumbered \in Nat
  BY DEF CsTypes, Unnumbered
<1>2. e \in Trouble /\ e.type = type /\ e.number = n
  BY <1>1 DEF CsTypes, Trouble
<1> HIDE DEF e
<1>3. troubles' = Append(troubles, e) /\ troubles \in Seq(Trouble)
  BY DEF Occurs, CsTypes, e
<1>4. /\ troubles' \in Seq(Trouble) /\ Len(troubles') = Len(troubles) + 1
      /\ Len(troubles) \in Nat /\ DOMAIN troubles = 1 .. Len(troubles) /\ DOMAIN troubles' = 1 .. Len(troubles')
      /\ \A i \in DOMAIN troubles : troubles'[i] = troubles[i]
      /\ troubles'[Len(troubles) + 1] = e
  BY <1>2, <1>3
<1>5. \A i \in DOMAIN troubles' : i \in DOMAIN troubles \/ i = Len(troubles) + 1
  BY <1>4
<1> QED
  BY <1>2, <1>4, <1>5 DEF CsTypes

\* A failure is recorded.
LEMMA RecordFailureGrows ==
  ASSUME CsTypes, StandingInv, RecordFailure
  PROVE  CsTypes' /\ StandingInv' /\ FactsGrow
<1>1. /\ Stored /\ Followed /\ Occurs("failure", Unnumbered)
      /\ UNCHANGED <<seoulDay, early, snaps, book, planDays, explained, resumedFrom, lapsed, standing>>
  BY DEF RecordFailure
<1>2. /\ troubles' \in Seq(Trouble) /\ Len(troubles') = Len(troubles) + 1
      /\ Len(troubles) \in Nat /\ DOMAIN troubles = 1 .. Len(troubles) /\ DOMAIN troubles' = 1 .. Len(troubles')
      /\ \A i \in DOMAIN troubles : troubles'[i] = troubles[i]
      /\ \A i \in DOMAIN troubles' : troubles'[i].number \in DOMAIN book \cup {Unnumbered}
  BY <1>1, OccursGrows
<1>3. lapsed' \in 0 .. Len(troubles')
  BY <1>1, <1>2 DEF CsTypes
<1>4. CsTypes'
  BY <1>1, <1>2, <1>3, WriteTypes DEF CsTypes
<1>5. StandingInv'
  BY <1>1, <1>2 DEF StandingInv, Unsettled, Closed
<1>6. FactsGrow
  BY <1>1, <1>2, WriteTypes DEF FactsGrow, CsTypes
<1> QED
  BY <1>4, <1>5, <1>6

\* A problem is recorded, and stands unless it comes too late.
LEMMA RecordProblemGrows ==
  ASSUME CsTypes, StandingInv, NEW n \in DOMAIN book \cup {Unnumbered}, RecordProblem(n)
  PROVE  CsTypes' /\ StandingInv' /\ FactsGrow
<1>1. /\ Stored /\ Followed /\ Occurs("problem", n)
      /\ standing' = IF TooLate(n) THEN standing ELSE standing \cup {Len(troubles) + 1}
      /\ UNCHANGED <<seoulDay, early, snaps, book, planDays, explained, resumedFrom, lapsed>>
  BY DEF RecordProblem
<1>2. /\ troubles' \in Seq(Trouble) /\ Len(troubles') = Len(troubles) + 1
      /\ Len(troubles) \in Nat /\ DOMAIN troubles = 1 .. Len(troubles) /\ DOMAIN troubles' = 1 .. Len(troubles')
      /\ \A i \in DOMAIN troubles : troubles'[i] = troubles[i]
      /\ troubles'[Len(troubles) + 1].type = "problem" /\ troubles'[Len(troubles) + 1].number = n
      /\ \A i \in DOMAIN troubles' : troubles'[i].number \in DOMAIN book \cup {Unnumbered}
  BY <1>1, OccursGrows
<1>3. lapsed' \in 0 .. Len(troubles')
  BY <1>1, <1>2 DEF CsTypes
<1>4. CsTypes'
  BY <1>1, <1>2, <1>3, WriteTypes DEF CsTypes
<1>5. StandingInv'
  <2>1. PICK k \in Nat : k = Len(troubles) + 1
    BY <1>2
  <2>2. \A i \in standing : i \in DOMAIN troubles /\ i \in DOMAIN troubles' /\ Unsettled(i) /\ troubles'[i] = troubles[i]
    BY <1>2 DEF StandingInv
  <2>3. \A i \in standing : Unsettled(i)'
    BY <1>1, <2>2 DEF Unsettled, Closed
  <2>4. troubles'[k].type = "problem" /\ troubles'[k].number = n /\ k \in DOMAIN troubles'
    BY <1>2, <2>1
  <2>5. ~ TooLate(n) => Unsettled(k)'
    BY <1>1, <2>4 DEF TooLate, Unsettled, Closed
  <2>6. \A i \in standing' : i \in standing \/ (~ TooLate(n) /\ i = k)
    BY <1>1, <2>1
  <2> QED
    BY <2>2, <2>3, <2>4, <2>5, <2>6 DEF StandingInv
<1>6. FactsGrow
  <2>1. \A i \in standing' : i \in standing \/ i > Len(troubles)
    BY <1>1, <1>2
  <2> QED
    BY <1>1, <1>2, <2>1, WriteTypes DEF FactsGrow, CsTypes
<1> QED
  BY <1>4, <1>5, <1>6

\* The number that no order carries is explained: its problems are over.
LEMMA ExplainGrows ==
  ASSUME CsTypes, StandingInv, Explain
  PROVE  CsTypes' /\ StandingInv' /\ FactsGrow
<1>1. /\ Stored /\ Followed
      /\ explained' = explained \cup {Unnumbered} /\ standing' = standing \ About(Unnumbered)
      /\ UNCHANGED <<seoulDay, early, snaps, book, planDays, troubles, resumedFrom, lapsed>>
  BY DEF Explain
<1>2. CsTypes'
  BY <1>1, WriteTypes DEF CsTypes
<1>3. StandingInv'
  BY <1>1 DEF StandingInv, Unsettled, Closed, About
<1>4. FactsGrow
  BY <1>1, WriteTypes DEF FactsGrow, CsTypes
<1> QED
  BY <1>2, <1>3, <1>4

\* A person resumes, some failure leaves the window, or the day changes.
LEMMA OtherWritesGrow ==
  ASSUME CsTypes, StandingInv, Resume \/ Lapse \/ TimePasses
  PROVE  CsTypes' /\ StandingInv' /\ FactsGrow
<1>1. /\ Stored /\ Followed /\ snaps' = snaps /\ book' = book /\ planDays' = planDays /\ troubles' = troubles
      /\ explained' = explained /\ standing' = standing
  BY DEF Resume, Lapse, TimePasses
<1>2. /\ seoulDay' \in Nat \ {0} /\ planDays \subseteq 0 .. seoulDay' /\ early' \in BOOLEAN
      /\ resumedFrom' \in 0 .. Len(book) /\ (resumedFrom' = 0 => resumedFrom = 0)
      /\ lapsed' \in 0 .. Len(troubles) /\ lapsed <= lapsed'
  <2>1. /\ Len(book) \in Nat /\ Len(troubles) \in Nat /\ seoulDay \in Nat \ {0} /\ early \in BOOLEAN
        /\ planDays \subseteq 0 .. seoulDay /\ resumedFrom \in 0 .. Len(book) /\ lapsed \in 0 .. Len(troubles)
    BY DEF CsTypes
  <2>2. CASE Resume
    BY <2>1, <2>2 DEF Resume
  <2>3. CASE Lapse
    BY <2>1, <2>3 DEF Lapse
  <2>4. CASE TimePasses
    <3>1. early' = ~ early /\ seoulDay' \in {seoulDay, seoulDay + 1} /\ resumedFrom' = resumedFrom /\ lapsed' = lapsed
      BY <2>1, <2>4 DEF TimePasses
    <3> QED
      BY <2>1, <3>1
  <2> QED
    BY <2>2, <2>3, <2>4
<1>3. CsTypes'
  BY <1>1, <1>2, WriteTypes DEF CsTypes
<1>4. StandingInv'
  BY <1>1 DEF StandingInv, Unsettled, Closed
<1>5. FactsGrow
  BY <1>1, <1>2, WriteTypes DEF FactsGrow, CsTypes
<1> QED
  BY <1>3, <1>4, <1>5

\* A write leaves the readings with what they say: what was not stopped may have been
\* stopped since, and the other way round, and the history has both.
LEMMA GrowthKeepsLimits ==
  ASSUME CsInv, CsTypes', FactsGrow
  PROVE  LimitsInv'
<1>0. /\ page' = page /\ Followed /\ lapsed <= lapsed'
      /\ snaps' = snaps \/ \E x \in SnapType : snaps' = Append(snaps, x)
  BY DEF FactsGrow
<1> SUFFICES ASSUME page.kind = "limits", page.at \notin {"asked", "shown"}
             PROVE  LimitsInv'
  BY <1>0 DEF LimitsInv
<1>1. /\ page.at \in LimitsPlaces /\ CsTypes /\ page \in PageType
      /\ page.since <= lapsed /\ page.received <= Len(snaps) /\ ReadingsTell
      /\ page.nav # {} => page.day # {} /\ \A d \in page.day : HasSnapshot(d)
  BY DEF CsInv, CsTypes, LimitsInv
<1>2. free \subseteq free' /\ stopping \subseteq stopping' /\ PauseRules \ Stopping' \subseteq free' /\ Stopping' \subseteq stopping'
  BY <1>0 DEF Followed
<1>3. snaps \in Seq(SnapType) /\ book \in Seq(OrderType) /\ book' \in Seq(OrderType)
  BY <1>1 DEF CsTypes
<1>4. Len(snaps) \in Nat /\ Len(snaps') \in Nat /\ Len(snaps) <= Len(snaps') /\ (Len(snaps') = Len(snaps) => snaps' = snaps)
  BY <1>0, <1>3
<1>5. \A d : HasSnapshot(d) => HasSnapshot(d)' /\ OpeningNavs(d)' \subseteq OpeningNavs(d)
  BY <1>0, <1>3, OpeningStays
<1>6. \A rule, below, sure : Tells(rule, below, sure) => Tells(rule, below, sure)'
  BY <1>2 DEF Tells
<1>7. \A S : PeakTells(S) => PeakTells(S)'
  <2>1. page.received \in Nat
    BY <1>1 DEF PageType
  <2> QED
    BY <1>0, <1>1, <1>2, <1>4, <2>1 DEF PeakTells, Tells
<1>8. page.at = "baselines" => PeakTells(Navs(snaps))'
  <2> SUFFICES ASSUME page.at = "baselines", NEW n \in page.nav
               PROVE  Tells("drawdown", \A b \in Navs(snaps) : ~ Loses(n, b, PageLimits["drawdown"]), page.received = Len(snaps))'
    BY <1>0 DEF PeakTells
  <2>1. Tells("drawdown", \A b \in Navs(snaps) : ~ Loses(n, b, PageLimits["drawdown"]), page.received = Len(snaps))
    BY <1>1 DEF ReadingsTell, PeakTells
  <2>2. Navs(snaps) \subseteq Navs(snaps')
    <3>1. \A i \in DOMAIN snaps : i \in DOMAIN snaps' /\ snaps'[i] = snaps[i]
      BY <1>0, <1>3
    <3> QED
      BY <3>1 DEF Navs
  <2>3. page.received \in Nat
    BY <1>1 DEF PageType
  <2>4. CASE snaps' = snaps
    BY <1>0, <1>2, <2>1, <2>4 DEF Tells
  <2>5. CASE snaps' # snaps
    <3>1. page'.received # Len(snaps')
      BY <1>0, <1>1, <1>4, <2>3, <2>5
    <3>2. (\A b \in Navs(snaps') : ~ Loses(n, b, PageLimits["drawdown"]))
            => \A b \in Navs(snaps) : ~ Loses(n, b, PageLimits["drawdown"])
      BY <2>2
    <3> QED
      BY <1>2, <2>1, <3>1, <3>2 DEF Tells
  <2> QED
    BY <2>4, <2>5
<1>9. \A S : OpeningTells(S) => OpeningTells(S)'
  BY <1>0, <1>2 DEF OpeningTells, Tells
<1>10. page.at \in {"baselines", "opening"} => OpeningTells(Openings(page.day))'
  <2> SUFFICES ASSUME page.at \in {"baselines", "opening"}, NEW n \in page.nav, NEW b \in Openings(page.day)'
               PROVE  Tells("dailyLoss", ~ Loses(n, b, PageLimits["dailyLoss"]), page.day = {page.began})'
    BY <1>0 DEF OpeningTells
  <2>1. b \in Openings(page.day)
    BY <1>0, <1>1, <1>5 DEF Openings
  <2>2. Tells("dailyLoss", ~ Loses(n, b, PageLimits["dailyLoss"]), page.day = {page.began})
    BY <1>1, <2>1 DEF ReadingsTell, OpeningTells
  <2> QED
    BY <1>0, <1>2, <2>2 DEF Tells
<1>11. \A S : AttemptsTell(S) => AttemptsTell(S)'
  BY <1>0, <1>2 DEF AttemptsTell, Tells
<1>12. page.at \in {"baselines", "opening", "attempts"} => AttemptsTell({AttemptsShown(page.day)})'
  <2> SUFFICES ASSUME page.at \in {"baselines", "opening", "attempts"}
               PROVE  Tells("attempts", AttemptsShown(page.day) < PageLimits["attempts"], page.day = {page.began})'
    BY DEF AttemptsTell
  <2> DEFINE T == {i \in DOMAIN book : book[i].day \in page.day}
             V == {i \in DOMAIN book' : book'[i].day \in page.day}
             l == PageLimits["attempts"]
  <2>1. Tells("attempts", AttemptsShown(page.day) < l, page.day = {page.began})
    BY <1>1 DEF ReadingsTell, AttemptsTell
  <2>2. T \subseteq V /\ V \subseteq DOMAIN book'
    BY DEF FactsGrow
  <2>3. AttemptsShown(page.day) = Cardinality(T) /\ AttemptsShown(page.day)' = Cardinality(V)
    BY <1>0 DEF AttemptsShown
  <2>4. ASSUME T # V PROVE seoulDay' \in page.day
    <3>1. PICK i \in V : i \notin T
      BY <2>2, <2>4
    <3>2. i \in DOMAIN book' \ DOMAIN book
      BY <3>1 DEF FactsGrow
    <3> QED
      BY <3>1, <3>2 DEF FactsGrow
  <2> HIDE DEF T, V
  <2>5. IsFiniteSet(V) /\ Cardinality(V) \in Nat
    BY <1>3, <2>2, SomeEntries
  <2>6. Cardinality(T) \in Nat /\ Cardinality(T) <= Cardinality(V)
    BY <2>2, <2>5, FS_Subset, FS_CardinalityType
  <2>7. l \in Nat
    BY LimitsAre DEF PauseRules
  <2>8. ASSUME AttemptsShown(page.day)' < l PROVE "attempts" \in free'
    <3>1. AttemptsShown(page.day) < l
      BY <2>3, <2>6, <2>5, <2>7, <2>8
    <3> QED
      BY <1>2, <2>1, <3>1 DEF Tells
  <2>9. ASSUME ~ (AttemptsShown(page.day)' < l), page.day = {page.began} PROVE "attempts" \in stopping'
    <3>1. CASE T = V
      BY <1>2, <2>1, <2>3, <2>9, <3>1 DEF Tells
    <3>2. CASE T # V
      <4>1. seoulDay' = page.began
        BY <2>4, <2>9, <3>2
      <4>2. Attempts(seoulDay)' = Cardinality(V)
        BY <2>9, <4>1 DEF Attempts, V
      <4>3. Attempts(seoulDay)' >= PageLimits["attempts"]
        BY <2>3, <2>5, <2>7, <2>9, <4>2
      <4>4. "attempts" \in Stopping'
        BY <4>3 DEF Stopping, Stops, PauseRules
      <4> QED
        BY <1>2, <4>4
    <3> QED
      BY <3>1, <3>2
  <2> QED
    BY <1>0, <2>8, <2>9 DEF Tells
<1>13. \A S : RejectsTell(S) => RejectsTell(S)'
  BY <1>0, <1>2 DEF RejectsTell, Tells, FactsGrow
<1>14. ReadingsTell'
  <2>1. PeakTells(IF page.at = "baselines" THEN Navs(snaps) ELSE page.peak)'
    BY <1>0, <1>1, <1>7, <1>8 DEF ReadingsTell
  <2>2. OpeningTells(IF page.at \in {"baselines", "opening"} THEN Openings(page.day) ELSE page.opening)'
    BY <1>0, <1>1, <1>9, <1>10 DEF ReadingsTell
  <2>3. AttemptsTell(IF page.at \in {"baselines", "opening", "attempts"} THEN {AttemptsShown(page.day)} ELSE page.attempts)'
    BY <1>0, <1>1, <1>11, <1>12 DEF ReadingsTell
  <2>4. page.at = "failures" => RejectsTell(page.rejects)'
    BY <1>0, <1>1, <1>13 DEF ReadingsTell
  <2>5. page'.at # "baselines" => \A b, c \in page'.peak : b = c
    BY <1>0, <1>1 DEF ReadingsTell
  <2> QED
    BY <1>0, <2>1, <2>2, <2>3, <2>4, <2>5 DEF ReadingsTell
<1>15. page'.since <= lapsed' /\ page'.received <= Len(snaps')
  <2>1. page.since \in Nat /\ page.received \in Nat /\ lapsed \in Nat /\ lapsed' \in Nat
    BY <1>1 DEF CsTypes, PageType
  <2> QED
    BY <1>0, <1>1, <1>4, <2>1
<1>16. page'.nav # {} => page'.day # {} /\ \A d \in page'.day : HasSnapshot(d)'
  BY <1>0, <1>1, <1>5
<1> QED
  BY <1>0, <1>1, <1>2, <1>14, <1>15, <1>16 DEF LimitsInv

\* A write leaves a count of zero with its meaning.
LEMMA GrowthKeepsGate ==
  ASSUME CsInv, CsTypes', StandingInv', FactsGrow
  PROVE  GateInv'
<1>0. /\ page' = page /\ Len(troubles) <= Len(troubles') /\ \A i \in DOMAIN troubles : troubles'[i] = troubles[i]
      /\ DOMAIN book \subseteq DOMAIN book' /\ \A i \in DOMAIN book : book'[i].day = book[i].day
      /\ \A i \in standing' : i \in standing \/ i > Len(troubles)
  BY DEF FactsGrow
<1> SUFFICES ASSUME page.kind = "gate", page.at \notin {"asked", "shown"}
             PROVE  GateInv'
  BY <1>0 DEF GateInv
<1>1. /\ page.at \in GatePlaces /\ CsTypes /\ page \in PageType /\ StandingInv
      /\ page.known <= Len(troubles) /\ page.days \subseteq 0 .. page.began
      /\ \A i \in page.oldOpen : i \in DOMAIN book /\ book[i].day < page.began
      /\ page.at # "incidents" /\ page.incidents = 0 => QuietSoFar
      /\ page.at = "stale" /\ page.unreconciled = 0 => \A i \in standing : i > page.known
  BY DEF CsInv, CsTypes, GateInv
<1>2. /\ page.known \in Nat /\ Len(troubles) \in Nat /\ Len(troubles') \in Nat
      /\ DOMAIN troubles = 1 .. Len(troubles) /\ DOMAIN troubles' = 1 .. Len(troubles')
  <2>1. page.known \in Nat /\ troubles \in Seq(Trouble) /\ troubles' \in Seq(Trouble)
    BY <1>1 DEF CsTypes, PageType
  <2> QED
    BY <2>1
<1>3. page'.known <= Len(troubles')
  BY <1>0, <1>1, <1>2
<1>4. QuietSoFar => QuietSoFar'
  <2>1. \A i \in 1 .. page.known : i \in DOMAIN troubles /\ troubles'[i] = troubles[i]
    BY <1>0, <1>1, <1>2
  <2> QED
    BY <1>0, <2>1 DEF QuietSoFar
<1>5. (\A i \in standing : i > page.known) => \A i \in standing' : i > page.known
  <2>1. \A i \in standing' : i > Len(troubles) => i > page.known
    <3>1. \A i \in standing' : i \in Nat
      BY <1>2 DEF StandingInv
    <3> QED
      BY <1>1, <1>2, <3>1
  <2> QED
    BY <1>0, <2>1
<1> QED
  BY <1>0, <1>1, <1>3, <1>4, <1>5 DEF GateInv

\* Whatever is stored meanwhile keeps the invariant.
LEMMA WritesInv ==
  ASSUME CsInv, CsWrites
  PROVE  CsInv'
<1>1. CsTypes /\ StandingInv
  BY DEF CsInv
<1>2. CsTypes' /\ StandingInv' /\ FactsGrow
  <2>1. CASE \E nav \in NetAssets : SaveSnapshot(nav)
    BY <1>1, <2>1, SaveSnapshotGrows
  <2>2. CASE \E states \in {<<>>, <<"planned">>, <<"rejected">>} : SavePlan(states)
    BY <1>1, <2>2, SavePlanGrows
  <2>3. CASE \E i \in DOMAIN book, state \in OrderState : MoveOrder(i, state)
    BY <1>1, <2>3, MoveOrderGrows
  <2>4. CASE \E n \in DOMAIN book \cup {Unnumbered} : RecordProblem(n)
    BY <1>1, <2>4, RecordProblemGrows
  <2>5. CASE RecordFailure
    BY <1>1, <2>5, RecordFailureGrows
  <2>6. CASE Explain
    BY <1>1, <2>6, ExplainGrows
  <2>7. CASE Resume \/ Lapse \/ TimePasses
    BY <1>1, <2>7, OtherWritesGrow
  <2> QED
    BY <2>1, <2>2, <2>3, <2>4, <2>5, <2>6, <2>7 DEF CsWrites
<1>3. LimitsInv' /\ GateInv'
  BY <1>2, GrowthKeepsLimits, GrowthKeepsGate
<1>4. page' = page /\ page.at \notin {"asked", "shown"}
  BY <1>2 DEF FactsGrow
<1> QED
  BY <1>2, <1>3, <1>4 DEF CsInv, AskedInv, FreeIsTrue, AlarmIsTrue, ReconciledIsTrue, QuietIsTrue, Shown

\* A step that changes nothing keeps it.
LEMMA IdleConsole ==
  ASSUME CsInv, UNCHANGED csVars
  PROVE  CsInv'
<1>1. /\ seoulDay' = seoulDay /\ early' = early /\ snaps' = snaps /\ book' = book /\ planDays' = planDays
      /\ troubles' = troubles /\ explained' = explained /\ resumedFrom' = resumedFrom /\ lapsed' = lapsed
      /\ written' = written /\ page' = page /\ standing' = standing /\ free' = free /\ stopping' = stopping
      /\ UNCHANGED factVars
  BY DEF csVars, factVars, csHistory
<1>2. Stopping' = Stopping
  BY <1>1, SameFacts DEF Reads
<1>3. ReadingsTell' <=> ReadingsTell
  BY <1>1 DEF ReadingsTell, PeakTells, OpeningTells, AttemptsTell, RejectsTell, Tells, Openings, OpeningNavs, AttemptsShown, Navs
<1>4. LimitsInv'
  BY <1>1, <1>2, <1>3 DEF CsInv, LimitsInv, HasSnapshot
<1>5. CsTypes' /\ StandingInv' /\ AskedInv'
  BY <1>1 DEF CsInv, CsTypes, StandingInv, AskedInv, Unsettled, Closed
<1>6. GateInv'
  BY <1>1 DEF CsInv, GateInv, QuietSoFar
<1>7. FreeIsTrue' /\ AlarmIsTrue' /\ ReconciledIsTrue' /\ QuietIsTrue'
  BY <1>1 DEF CsInv, FreeIsTrue, AlarmIsTrue, ReconciledIsTrue, QuietIsTrue, Shown, ShownFree, ShownUsedUp, FalseAlarm, RoundedUp
<1> QED
  BY <1>4, <1>5, <1>6, <1>7 DEF CsInv

\* Neither of the two pages flatters, whatever is stored while it is put together: a limit
\* shown as free did let a plan pass, an alarm has a cause, reconciled means that no known
\* problem stands, and quiet means no incident in the last days.
THEOREM ConsoleCorrect == CsSpec => ConsoleContract
<1>1. CsInit => CsInv
  BY CsInitInv
<1>2. CsInv /\ [CsNext]_csVars => CsInv'
  <2> SUFFICES ASSUME CsInv, [CsNext]_csVars PROVE CsInv'
    OBVIOUS
  <2>1. CASE CsWrites
    BY <2>1, WritesInv
  <2>2. CASE CsReads
    BY <2>2, AskLimitsInv, ReadPeakInv, ReadOpeningInv, ReadAttemptsInv, ReadRejectsInv, ShowLimitsInv,
       AskGateInv, ReadIncidentsInv, ReadUnreconciledInv, ShowGateInv DEF CsReads
  <2>3. CASE UNCHANGED csVars
    BY <2>3, IdleConsole
  <2> QED
    BY <2>1, <2>2, <2>3 DEF CsNext
<1>3. CsInv' => FreeIsTrue' /\ AlarmIsTrue' /\ ReconciledIsTrue' /\ QuietIsTrue'
  BY DEF CsInv
<1> QED
  BY <1>1, <1>2, <1>3, PTL DEF CsSpec, ConsoleContract
=============================================================================
