---------------------------- MODULE RiskRequests ----------------------------
(*************************************************************************)
(* The plan requests on which RiskEngine is checked.                     *)
(*************************************************************************)
EXTENDS RiskEngine

\* The policy's limits in tenths, so that a few hundred won are enough.
TenthLimits ==
  [total |-> 8, minCash |-> 2, symbol |-> 4, sector |-> 6, unclassified |-> 5, order |-> 2,
   dailyBuy |-> 6, dailyLoss |-> 1, drawdown |-> 2, openOrders |-> 3, attempts |-> 3,
   rejects |-> 2, failures |-> 2]

TwoCandidates ==
  {<<[symbol |-> "a", side |-> "buy"], [symbol |-> "b", side |-> s]>> : s \in {"buy", "sell"}}

Q(state, price, limit, sector) == [state |-> state, price |-> price, limit |-> limit, sector |-> sector]

Base ==
  [candidates |-> <<[symbol |-> "a", side |-> "buy"]>>, nav |-> 200, openNav |-> 200, peakNav |-> 200,
   settled |-> 1500, cash |-> 1500, held |-> [a |-> 0, b |-> 0], orderable |-> [a |-> 0, b |-> 0],
   valued |-> [a |-> 0, b |-> 0],
   quotes |-> [a |-> Q("active", 100, 100, "s"), b |-> Q("active", 100, 100, "s")],
   pending |-> [a |-> 0, b |-> 0],
   open |-> 0, attempts |-> 0, bought |-> 0, rejects |-> 0, failures |-> 0,
   running |-> TRUE, marketOpen |-> TRUE, reconciled |-> TRUE]

GateRequests ==
  {[Base EXCEPT !.running = r, !.failures = f, !.marketOpen = m, !.reconciled = k,
                !.openNav = n[1], !.peakNav = n[2], !.attempts = t, !.rejects = j] :
     r \in BOOLEAN, f \in {1, 2}, m \in BOOLEAN, k \in BOOLEAN,
     n \in {<<0, 0>>, <<222, 249>>, <<222, 250>>, <<223, 230>>}, t \in {2, 3}, j \in {1, 2}}

BuyRequests ==
  {[Base EXCEPT !.candidates = c, !.quotes = [a |-> qa, b |-> qb], !.pending = p,
                !.held = [a |-> ha, b |-> hb], !.orderable = [a |-> ha, b |-> ob],
                !.valued = [a |-> 95 * ha, b |-> 95 * hb],
                !.cash = m, !.settled = m, !.open = o, !.bought = d] :
     c \in TwoCandidates,
     qa \in {Q("active", 100, 100, "s"), Q("active", 100, 101, NoSector), Q("active", 450, 450, "s"),
             Q("active", 100, 102, "s"), Q("missing", 1, 1, NoSector)},
     qb \in {Q("active", 100, 99, "s"), Q("suspended", 100, 100, "s"), Q("active", 150, 150, NoSector)},
     p \in {[a |-> 0, b |-> 0], [a |-> 300, b |-> 500]},
     ha \in {0, 7}, hb \in {0, 5}, ob \in {0, 5}, m \in {750, 1500}, o \in {0, 2}, d \in {0, 900}}

\* A holding within less than a share of its target.
AtTarget ==
  [Base EXCEPT !.nav = 201, !.held = [a |-> 7, b |-> 0], !.orderable = [a |-> 7, b |-> 0],
               !.quotes = [a |-> Q("active", 100, 101, "s"), b |-> Q("active", 100, 100, "s")]]

MCRequests == {AtTarget} \cup GateRequests \cup {r \in BuyRequests : r.orderable["b"] <= r.held["b"]}
=============================================================================
