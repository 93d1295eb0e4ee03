---------------------------- MODULE PlanningProofs ----------------------------
(*************************************************************************)
(* What the plans guarantee, for any number of processes, symbols and    *)
(* orders and for any limits; and what the claims of the scheduled jobs  *)
(* that make them guarantee, for any number of workers, messages and     *)
(* faults and for any lease and key span.                                *)
(*************************************************************************)
EXTENDS ScheduledJobs, Planning, SumTheorems, TLAPS

\* Where a process that plans can be.
Places == {"idle", "holdings", "blocked", "snapshot", "counters", "recent", "quotes", "pending",
           "failures", "pause", "note", "write"}

\* What an evaluation is asked about, and what it makes.
Candidates == [symbol : Symbols, side : {"buy", "sell"}]

MadeOrders == [id : OrderId, quantity : Nat, state : {"planned", "rejected"}]

\* What a process that plans keeps.
PlanRecords ==
  [at : Places, strategy : {"signal", "manual"}, candidates : Seq(Candidates), now : Nat,
   resumed : BOOLEAN, cash : Nat, held : [Symbols -> Nat], fresh : SUBSET OrderId, open : Nat,
   attempts : Nat, bought : Nat, rejects : Nat, unknown : SUBSET Symbols,
   suspended : SUBSET Symbols, pending : [Symbols -> Nat], made : Seq(MadeOrders),
   short : Seq(NoteDetails), block : {"none", "failures", "unreconciled", "attempts", "rejects"}]

\* Stored orders, and the shares the broker executed of them.
Book(stored, done) ==
  /\ IsFiniteSet(DOMAIN stored) /\ DOMAIN stored \subseteq OrderId
  /\ stored \in [DOMAIN stored -> OrderRow] /\ done \in [DOMAIN stored -> Nat]
  /\ \A i \in DOMAIN stored : stored[i].filled <= done[i] /\ done[i] <= stored[i].quantity

\* Every variable has its type, and no order is executed further than it goes.
PlanTypes ==
  /\ switch \in AutomationState /\ resumedAt \in Nat /\ clock \in Nat /\ failures \in Nat
  /\ notes \in [NoteDetails -> Nat]
  /\ Book(rows, executed)
  /\ cash \in Nat /\ held \in [Symbols -> Nat]
  /\ plan \in [Planners -> PlanRecords]

\* Plans are made one at a time.
OneAtATime == ~ overlapped => \A p, q \in Planners : AtWork(p) /\ AtWork(q) => p = q

\* Trades do not change the net asset value.
AccountFits == TotalCap + MinCash <= cash + Total(held, Symbols)

\* The orders a plan has made fit what it has read.
MadeFits(c, made) ==
  /\ \A k \in DOMAIN made : made[k].id.sequence = k
  /\ \A x \in Symbols :
       Purchased(made, {x}) > 0 => c.held[x] + c.pending[x] + Purchased(made, {x}) <= SymbolCap
  /\ Purchased(made, Symbols) > 0 =>
       /\ Total(c.held, Symbols) + Total(c.pending, Symbols) + Purchased(made, Symbols) <= TotalCap
       /\ c.bought + Purchased(made, Symbols) <= DailyCap

\* Shares that purchases of the symbols S may still buy, order by order.
OutOf(stored, done, S) ==
  [i \in DOMAIN stored |->
     IF stored[i].state \in PendingStates /\ i.side = "buy" /\ i.symbol \in S
     THEN stored[i].quantity - done[i] ELSE 0]

\* Shares the purchases of the day are for, order by order.
BuyOf(stored) ==
  [i \in DOMAIN stored |->
     IF stored[i].state \in BuyCounted /\ i.side = "buy" THEN stored[i].quantity ELSE 0]

OutstandingIn(stored, done, S) == Total(OutOf(stored, done, S), DOMAIN stored)

BoughtIn(stored) == Total(BuyOf(stored), DOMAIN stored)

RejectedSince(stored, since) ==
  {i \in DOMAIN stored : stored[i].state = "rejected" /\ stored[i].created >= since}

\* Shares of x that a plan missed in the account and will find as pending, order by order.
StillOf(fresh, stored, done, x) ==
  [i \in DOMAIN stored |->
     IF i \in fresh /\ i.side = "buy" /\ i.symbol = x THEN done[i] - stored[i].filled ELSE 0]

StillPending(fresh, stored, done, x) == Total(StillOf(fresh, stored, done, x), DOMAIN stored)

\* The orders that stand at the broker.
OpenIn(stored) == {i \in DOMAIN stored : stored[i].state \in OpenStates}

\* What a plan has read still covers the account and the orders.
ReadsFit(c, stored, done, account) ==
  /\ c.at \in {"counters", "recent", "quotes", "pending"} =>
       /\ c.fresh \subseteq OpenIn(stored)
       /\ \A x \in Symbols : account[x] <= c.held[x] + StillPending(c.fresh, stored, done, x)
  /\ c.at \in {"failures", "pause", "note", "write"} =>
       /\ \A x \in Symbols : account[x] + OutstandingIn(stored, done, {x}) <= c.held[x] + c.pending[x]
       /\ Total(account, Symbols) + OutstandingIn(stored, done, Symbols)
            <= Total(c.held, Symbols) + Total(c.pending, Symbols)
  /\ c.at \in {"recent", "quotes", "pending", "failures", "pause", "note", "write"} =>
       BoughtIn(stored) <= c.bought

\* What a plan has decided fits what it has read.
PlanFits(c, stored, since) ==
  /\ c.at \in {"idle", "holdings", "blocked", "snapshot"} => c.fresh = {}
  /\ c.at \in {"pause", "note", "write"} => MadeFits(c, c.made)
  /\ c.at \in {"quotes", "pending", "failures"} /\ ~ c.resumed =>
       c.rejects <= Cardinality(RejectedSince(stored, since))

\* Every plan has decided within what it has read.
PlansFit == \A p \in Planners : PlanFits(plan[p], rows, resumedAt)

\* A plan that writes a note has found none, and nobody writes beside it.
NotesFit ==
  /\ \A p \in Planners :
       plan[p].at = "write" =>
         plan[p].short # <<>> /\ (~ overlapped => notes[Head(plan[p].short)] = 0)
  /\ ~ overlapped => \A d \in NoteDetails : notes[d] <= 1

\* The limits, on what is in the account and what the stored orders may still buy.
Limits(stored, done, account) ==
  /\ \A x \in Symbols :
       OutstandingIn(stored, done, {x}) > 0 => account[x] + OutstandingIn(stored, done, {x}) <= SymbolCap
  /\ OutstandingIn(stored, done, Symbols) > 0 =>
       Total(account, Symbols) + OutstandingIn(stored, done, Symbols) <= TotalCap
  /\ BoughtIn(stored) <= DailyCap

\* Plans made one after the other, none of which missed a fill: the limits hold, and
\* what the plan at work has read covers everything that can still happen.
LedgerFits ==
  ~ overlapped /\ ~ missed =>
    /\ Limits(rows, executed, held)
    /\ \A p \in Planners : ReadsFit(plan[p], rows, executed, held)

\* The inductive invariant.
PlanInvariant ==
  PlanTypes /\ OneAtATime /\ AccountFits /\ PlansFit /\ NotesFit /\ LedgerFits

-----------------------------------------------------------------------------
(* Sums.                                                                 *)

\* The sums of the module are those the sum theorems speak of.
LEMMA PlanSumsAreTotals ==
  /\ \A ids, shares : SharesOf(ids, shares) = Total(shares, ids)
  /\ \A made, S : Purchased(made, S) =
       Total([k \in DOMAIN made |-> made[k].quantity],
             {k \in DOMAIN made : made[k].id.side = "buy" /\ made[k].id.symbol \in S})
  BY DEF SharesOf, Purchased, Total

\* A sum over a part is the sum over the whole of the function that is zero elsewhere.
LEMMA SumWithin ==
  ASSUME NEW f, NEW g, NEW S, IsFiniteSet(S), NEW R \in SUBSET S,
         \A x \in R : g[x] = f[x] /\ f[x] \in Int, \A x \in S \ R : g[x] = 0
  PROVE  Total(f, R) = Total(g, S)
<1>1. IsFiniteSet(R) /\ IsFiniteSet(S \ R)
  BY FS_Subset
<1>2. R \cup (S \ R) = S /\ R \cap (S \ R) = {} /\ \A x \in R \cup (S \ R) : g[x] \in Int
  OBVIOUS
<1>3. Total(g, S) = Total(g, R) + Total(g, S \ R)
  BY <1>1, <1>2, SumUnion
<1>4. Total(g, S \ R) = 0 /\ Total(f, R) = Total(g, R) /\ Total(g, R) \in Int
  BY <1>1, <1>2, SumZero, SumSame, SumType
<1> QED
  BY <1>3, <1>4

\* A part of numbers that are not negative adds up to no more than the whole.
LEMMA SumOfPart ==
  ASSUME NEW f, NEW S, IsFiniteSet(S), NEW R \in SUBSET S, \A x \in S : f[x] \in Nat
  PROVE  Total(f, R) <= Total(f, S) /\ Total(f, R) \in Nat /\ Total(f, S) \in Nat
<1>1. IsFiniteSet(R) /\ IsFiniteSet(S \ R)
  BY FS_Subset
<1>2. R \cup (S \ R) = S /\ R \cap (S \ R) = {} /\ \A x \in R \cup (S \ R) : f[x] \in Int
  OBVIOUS
<1>3. Total(f, S) = Total(f, R) + Total(f, S \ R)
  BY <1>1, <1>2, SumUnion
<1>4. Total(f, R) \in Nat /\ Total(f, S \ R) \in Nat
  BY <1>1, SumNat
<1> QED
  BY <1>3, <1>4

\* The members of S with a key of K.
Keyed(S, key, K) == {x \in S : key[x] \in K}

\* g is the sum of f, key by key.
AddedByKey(g, f, S, key, K) == \A y \in K : g[y] = Total(f, Keyed(S, key, {y}))

\* What is added up symbol by symbol is added up once.
LEMMA SumByKey ==
  ASSUME NEW f, NEW g, NEW S, NEW key, NEW K, IsFiniteSet(S), IsFiniteSet(K),
         \A x \in S : f[x] \in Int, AddedByKey(g, f, S, key, K)
  PROVE  Total(g, K) = Total(f, Keyed(S, key, K))
<1> DEFINE part(T) == {x \in S : key[x] \in T}
           W == {T \in SUBSET K : Total(g, T) # Total(f, part(T))}
<1>10. part(K) = Keyed(S, key, K)
  BY DEF Keyed
<1>1. SUFFICES ASSUME W # {} PROVE FALSE
  BY <1>10
<1>2. PICK T \in W : \A U \in SUBSET T : U # T => U \notin W
  <2>1. W \subseteq SUBSET K /\ W # {} /\ IsFiniteSet(K)
    BY <1>1
  <2> HIDE DEF W
  <2> QED
    BY <2>1, SmallestSubset
<1>3. T # {}
  <2>1. part({}) = {}
    OBVIOUS
  <2> QED
    BY <1>2, <2>1, SumEmpty
<1> DEFINE p == Picked(T)
           Q == T \ {p}
           own == {x \in S : key[x] = p}
<1>4. p \in T /\ IsFiniteSet(T)
  BY <1>2, <1>3, PickedIsIn, FS_Subset
<1>5. Total(g, Q) = Total(f, part(Q))
  BY <1>2, <1>4
<1>6. Total(g, T) = g[p] + Total(g, Q)
  BY <1>3, <1>4, SumPicked
<1>7. g[p] = Total(f, own)
  <2>1. g[p] = Total(f, Keyed(S, key, {p})) /\ own = Keyed(S, key, {p})
    BY <1>2, <1>4 DEF Keyed, AddedByKey
  <2> QED
    BY <2>1
<1>8. part(T) = own \cup part(Q) /\ own \cap part(Q) = {} /\ own \subseteq S /\ part(Q) \subseteq S
  BY <1>4
<1>9. Total(f, part(T)) = Total(f, own) + Total(f, part(Q))
  <2> HIDE DEF p, Q, own, part
  <2>1. IsFiniteSet(own) /\ IsFiniteSet(part(Q)) /\ \A x \in own \cup part(Q) : f[x] \in Int
    BY <1>8, FS_Subset
  <2> QED
    BY <1>8, <2>1, SumUnion
<1> QED
  BY <1>2, <1>5, <1>6, <1>7, <1>9

\* The symbols are as many as the sorted sequence names.
LEMMA SymbolsFinite == IsFiniteSet(Symbols)
<1>1. IsFiniteSet(DOMAIN SymbolOrder) /\ SymbolOrder \in Seq(Symbols) /\ Range(SymbolOrder) = Symbols
  <2>1. Len(SymbolOrder) \in Int /\ 1 \in Int /\ DOMAIN SymbolOrder = 1..Len(SymbolOrder)
    BY PlanningAssumption
  <2> QED
    BY <2>1, FS_Interval, PlanningAssumption
<1>2. SymbolOrder \in Surjection(DOMAIN SymbolOrder, Symbols)
  BY <1>1 DEF Surjection, Range
<1> QED
  BY <1>1, <1>2, FS_Surjection

-----------------------------------------------------------------------------
(* What the stored orders add up to.                                     *)

\* Both are sums over all orders.
LEMMA BookSums ==
  ASSUME NEW stored, NEW done, Book(stored, done)
  PROVE  /\ \A S : /\ \A i \in DOMAIN stored : OutOf(stored, done, S)[i] \in Nat
                   /\ Total([i \in DOMAIN stored |-> stored[i].quantity - done[i]],
                            {i \in DOMAIN stored : /\ stored[i].state \in PendingStates
                                                   /\ i.side = "buy" /\ i.symbol \in S})
                      = Total(OutOf(stored, done, S), DOMAIN stored)
                   /\ Total(OutOf(stored, done, S), DOMAIN stored) \in Nat
         /\ \A i \in DOMAIN stored : BuyOf(stored)[i] \in Nat
         /\ Total([i \in DOMAIN stored |-> stored[i].quantity],
                  {i \in DOMAIN stored : stored[i].state \in BuyCounted /\ i.side = "buy"})
            = Total(BuyOf(stored), DOMAIN stored)
         /\ Total(BuyOf(stored), DOMAIN stored) \in Nat
<1>1. \A i \in DOMAIN stored : /\ stored[i].quantity \in Nat /\ done[i] \in Nat
                               /\ stored[i].quantity - done[i] \in Nat
  BY DEF Book, OrderRow
<1>2. IsFiniteSet(DOMAIN stored)
  BY DEF Book
<1>3. ASSUME NEW S
      PROVE  /\ \A i \in DOMAIN stored : OutOf(stored, done, S)[i] \in Nat
             /\ Total([i \in DOMAIN stored |-> stored[i].quantity - done[i]],
                      {i \in DOMAIN stored : /\ stored[i].state \in PendingStates
                                             /\ i.side = "buy" /\ i.symbol \in S})
                = Total(OutOf(stored, done, S), DOMAIN stored)
             /\ Total(OutOf(stored, done, S), DOMAIN stored) \in Nat
  <2> DEFINE f == [i \in DOMAIN stored |-> stored[i].quantity - done[i]]
             R == {i \in DOMAIN stored : /\ stored[i].state \in PendingStates
                                         /\ i.side = "buy" /\ i.symbol \in S}
             g == OutOf(stored, done, S)
  <2>1. \A i \in DOMAIN stored : g[i] \in Nat
    BY <1>1 DEF OutOf
  <2>2. R \in SUBSET DOMAIN stored /\ (\A i \in R : g[i] = f[i] /\ f[i] \in Int)
        /\ \A i \in DOMAIN stored \ R : g[i] = 0
    BY <1>1 DEF OutOf
  <2> HIDE DEF f, g, R
  <2>3. Total(f, R) = Total(g, DOMAIN stored) /\ Total(g, DOMAIN stored) \in Nat
    BY <1>2, <2>1, <2>2, SumWithin, SumNat
  <2> QED
    BY <2>1, <2>3 DEF f, g, R
<1>4. /\ \A i \in DOMAIN stored : BuyOf(stored)[i] \in Nat
      /\ Total([i \in DOMAIN stored |-> stored[i].quantity],
               {i \in DOMAIN stored : stored[i].state \in BuyCounted /\ i.side = "buy"})
         = Total(BuyOf(stored), DOMAIN stored)
      /\ Total(BuyOf(stored), DOMAIN stored) \in Nat
  <2> DEFINE f == [i \in DOMAIN stored |-> stored[i].quantity]
             R == {i \in DOMAIN stored : stored[i].state \in BuyCounted /\ i.side = "buy"}
             g == BuyOf(stored)
  <2>1. \A i \in DOMAIN stored : g[i] \in Nat
    BY <1>1 DEF BuyOf
  <2>2. R \in SUBSET DOMAIN stored /\ (\A i \in R : g[i] = f[i] /\ f[i] \in Int)
        /\ \A i \in DOMAIN stored \ R : g[i] = 0
    BY <1>1 DEF BuyOf
  <2> HIDE DEF f, g, R
  <2>3. Total(f, R) = Total(g, DOMAIN stored) /\ Total(g, DOMAIN stored) \in Nat
    BY <1>2, <2>1, <2>2, SumWithin, SumNat
  <2> QED
    BY <2>1, <2>3 DEF f, g, R
<1> QED
  BY <1>3, <1>4

\* The module's sums, before and after a step.
LEMMA SumsOfBook ==
  /\ Book(rows, executed) =>
       /\ \A S : Outstanding(S) = Total(OutOf(rows, executed, S), DOMAIN rows) /\ Outstanding(S) \in Nat
       /\ Bought = Total(BuyOf(rows), DOMAIN rows) /\ Bought \in Nat
  /\ Book(rows', executed') =>
       /\ \A S : Outstanding(S)' = Total(OutOf(rows', executed', S), DOMAIN rows') /\ Outstanding(S)' \in Nat
       /\ Bought' = Total(BuyOf(rows'), DOMAIN rows') /\ Bought' \in Nat
<1> DEFINE Out(stored, done, S) ==
             Total([i \in DOMAIN stored |-> stored[i].quantity - done[i]],
                   {i \in DOMAIN stored : /\ stored[i].state \in PendingStates
                                          /\ i.side = "buy" /\ i.symbol \in S})
           Buy(stored) ==
             Total([i \in DOMAIN stored |-> stored[i].quantity],
                   {i \in DOMAIN stored : stored[i].state \in BuyCounted /\ i.side = "buy"})
<1>1. \A S : Outstanding(S) = Out(rows, executed, S)
  <2> SUFFICES ASSUME NEW S PROVE Outstanding(S) = Out(rows, executed, S)
    OBVIOUS
  <2>1. {i \in Ids(PendingStates) : i.side = "buy" /\ i.symbol \in S} =
        {i \in DOMAIN rows : rows[i].state \in PendingStates /\ i.side = "buy" /\ i.symbol \in S}
    BY DEF Ids
  <2> QED
    BY <2>1, PlanSumsAreTotals DEF Outstanding, NotExecuted
<1>2. \A S : Outstanding(S)' = Out(rows', executed', S)
  <2> SUFFICES ASSUME NEW S PROVE Outstanding(S)' = Out(rows', executed', S)
    OBVIOUS
  <2>1. {i \in Ids(PendingStates)' : i.side = "buy" /\ i.symbol \in S} =
        {i \in DOMAIN rows' : rows'[i].state \in PendingStates /\ i.side = "buy" /\ i.symbol \in S}
    BY DEF Ids, PendingStates
  <2>2. Outstanding(S)' = SharesOf({i \in Ids(PendingStates)' : i.side = "buy" /\ i.symbol \in S}, NotExecuted')
    BY DEF Outstanding, SharesOf
  <2> QED
    BY <2>1, <2>2, PlanSumsAreTotals DEF NotExecuted
<1>3. Bought = Buy(rows)
  <2>1. {i \in Ids(BuyCounted) : i.side = "buy"} =
        {i \in DOMAIN rows : rows[i].state \in BuyCounted /\ i.side = "buy"}
    BY DEF Ids
  <2> QED
    BY <2>1, PlanSumsAreTotals DEF Bought, Ordered
<1>4. Bought' = Buy(rows')
  <2>1. {i \in Ids(BuyCounted)' : i.side = "buy"} =
        {i \in DOMAIN rows' : rows'[i].state \in BuyCounted /\ i.side = "buy"}
    BY DEF Ids, BuyCounted
  <2>2. Bought' = SharesOf({i \in Ids(BuyCounted)' : i.side = "buy"}, Ordered')
    BY DEF Bought, SharesOf
  <2> QED
    BY <2>1, <2>2, PlanSumsAreTotals DEF Ordered
<1>5. ASSUME Book(rows, executed)
      PROVE  /\ \A S : Outstanding(S) = Total(OutOf(rows, executed, S), DOMAIN rows) /\ Outstanding(S) \in Nat
             /\ Bought = Total(BuyOf(rows), DOMAIN rows) /\ Bought \in Nat
  <2>1. /\ \A S : /\ Out(rows, executed, S) = Total(OutOf(rows, executed, S), DOMAIN rows)
                  /\ Total(OutOf(rows, executed, S), DOMAIN rows) \in Nat
        /\ Buy(rows) = Total(BuyOf(rows), DOMAIN rows) /\ Total(BuyOf(rows), DOMAIN rows) \in Nat
    BY <1>5, BookSums
  <2> HIDE DEF Out, Buy
  <2> QED
    BY <1>1, <1>3, <2>1
<1>6. ASSUME Book(rows', executed')
      PROVE  /\ \A S : Outstanding(S)' = Total(OutOf(rows', executed', S), DOMAIN rows') /\ Outstanding(S)' \in Nat
             /\ Bought' = Total(BuyOf(rows'), DOMAIN rows') /\ Bought' \in Nat
  <2>1. /\ \A S : /\ Out(rows', executed', S) = Total(OutOf(rows', executed', S), DOMAIN rows')
                  /\ Total(OutOf(rows', executed', S), DOMAIN rows') \in Nat
        /\ Buy(rows') = Total(BuyOf(rows'), DOMAIN rows') /\ Total(BuyOf(rows'), DOMAIN rows') \in Nat
    BY <1>6, BookSums
  <2> HIDE DEF Out, Buy
  <2> QED
    BY <1>2, <1>4, <2>1
<1> QED
  BY <1>5, <1>6

\* Both sums are numbers.
LEMMA BookNumbers ==
  ASSUME NEW stored, NEW done, Book(stored, done)
  PROVE  (\A S : OutstandingIn(stored, done, S) \in Nat) /\ BoughtIn(stored) \in Nat
  BY BookSums DEF OutstandingIn, BoughtIn

\* Orders that only move along add up to no more.
LEMMA BookSettles ==
  ASSUME NEW stored, NEW done, Book(stored, done), NEW moved, NEW made, Book(moved, made),
         DOMAIN moved = DOMAIN stored,
         \A i \in DOMAIN stored :
           /\ moved[i].quantity = stored[i].quantity /\ done[i] <= made[i]
           /\ moved[i].state \in PendingStates => stored[i].state \in PendingStates
           /\ moved[i].state \in BuyCounted => stored[i].state \in BuyCounted
  PROVE  /\ \A S : Total(OutOf(moved, made, S), DOMAIN moved) <= Total(OutOf(stored, done, S), DOMAIN stored)
         /\ Total(BuyOf(moved), DOMAIN moved) <= Total(BuyOf(stored), DOMAIN stored)
<1>1. IsFiniteSet(DOMAIN stored)
  BY DEF Book
<1>2. \A i \in DOMAIN stored : /\ stored[i].quantity \in Nat /\ done[i] \in Nat /\ made[i] \in Nat
                               /\ done[i] <= stored[i].quantity /\ made[i] <= stored[i].quantity
  BY DEF Book, OrderRow
<1>3. ASSUME NEW S
      PROVE  Total(OutOf(moved, made, S), DOMAIN moved) <= Total(OutOf(stored, done, S), DOMAIN stored)
  <2> DEFINE f == OutOf(moved, made, S)
             g == OutOf(stored, done, S)
  <2>1. \A i \in DOMAIN stored : f[i] \in Int /\ g[i] \in Int /\ f[i] <= g[i]
    BY <1>2 DEF OutOf
  <2> HIDE DEF f, g
  <2>2. Total(f, DOMAIN stored) <= Total(g, DOMAIN stored)
    BY <1>1, <2>1, SumGrows
  <2> QED
    BY <2>2 DEF f, g
<1>4. Total(BuyOf(moved), DOMAIN moved) <= Total(BuyOf(stored), DOMAIN stored)
  <2> DEFINE f == BuyOf(moved)
             g == BuyOf(stored)
  <2>1. \A i \in DOMAIN stored : f[i] \in Int /\ g[i] \in Int /\ f[i] <= g[i]
    BY <1>2 DEF BuyOf
  <2> HIDE DEF f, g
  <2>2. Total(f, DOMAIN stored) <= Total(g, DOMAIN stored)
    BY <1>1, <2>1, SumGrows
  <2> QED
    BY <2>2 DEF f, g
<1> QED
  BY <1>3, <1>4

\* Shares of one order are executed.
LEMMA BookExecutes ==
  ASSUME NEW stored, NEW done, Book(stored, done), NEW i \in DOMAIN stored, NEW n \in Nat,
         n <= stored[i].quantity - done[i], stored[i].state \in PendingStates
  PROVE  /\ Book(stored, [done EXCEPT ![i] = @ + n])
         /\ \A S : Total(OutOf(stored, [done EXCEPT ![i] = @ + n], S), DOMAIN stored) =
              Total(OutOf(stored, done, S), DOMAIN stored)
              - (IF i.side = "buy" /\ i.symbol \in S THEN n ELSE 0)
<1> DEFINE made == [done EXCEPT ![i] = @ + n]
<1>1. IsFiniteSet(DOMAIN stored) /\ stored \in [DOMAIN stored -> OrderRow] /\ done \in [DOMAIN stored -> Nat]
  BY DEF Book
<1>2. \A j \in DOMAIN stored : stored[j].quantity \in Nat /\ stored[j].filled \in Nat /\ done[j] \in Nat
  BY <1>1 DEF OrderRow
<1>3. made[i] = done[i] + n /\ (\A j \in DOMAIN stored \ {i} : made[j] = done[j])
      /\ made \in [DOMAIN stored -> Nat]
  <2>1. done[i] + n \in Nat
    BY <1>2
  <2> QED
    BY <1>1, <2>1
<1>4. Book(stored, made)
  <2>1. \A j \in DOMAIN stored : stored[j].filled <= made[j] /\ made[j] <= stored[j].quantity
    <3>1. \A j \in DOMAIN stored : stored[j].filled <= done[j] /\ done[j] <= stored[j].quantity
      BY DEF Book
    <3> HIDE DEF made
    <3>2. stored[i].filled <= made[i] /\ made[i] <= stored[i].quantity
      BY <1>2, <1>3, <3>1
    <3> QED
      BY <1>3, <3>1, <3>2
  <2> HIDE DEF made
  <2> QED
    BY <1>3, <2>1 DEF Book
<1>5. ASSUME NEW S
      PROVE  Total(OutOf(stored, made, S), DOMAIN stored) =
               Total(OutOf(stored, done, S), DOMAIN stored)
               - (IF i.side = "buy" /\ i.symbol \in S THEN n ELSE 0)
  <2> DEFINE f == OutOf(stored, done, S)
             g == OutOf(stored, made, S)
  <2>1. /\ \A j \in DOMAIN stored : f[j] \in Int /\ g[j] \in Int
        /\ \A j \in DOMAIN stored \ {i} : f[j] = g[j]
        /\ g[i] = f[i] - (IF i.side = "buy" /\ i.symbol \in S THEN n ELSE 0)
    <3> HIDE DEF made
    <3>1. made[i] \in Nat /\ \A j \in DOMAIN stored : made[j] \in Nat
      BY <1>3
    <3> QED
      BY <1>2, <1>3, <3>1 DEF OutOf
  <2> HIDE DEF f, g
  <2>2. Total(g, DOMAIN stored) = Total(f, DOMAIN stored) + g[i] - f[i]
    BY <1>1, <2>1, SumChange
  <2>3. Total(f, DOMAIN stored) \in Int
    BY <1>1, <2>1, SumType
  <2>4. Total(g, DOMAIN stored) = Total(f, DOMAIN stored) - (IF i.side = "buy" /\ i.symbol \in S THEN n ELSE 0)
    BY <2>1, <2>2, <2>3
  <2> QED
    BY <2>4 DEF f, g
<1> QED
  BY <1>4, <1>5

\* What a step may do to the orders and to the account unless it stores a plan.
Settles ==
  /\ \A x \in Symbols : /\ OutstandingIn(rows', executed', {x}) <= OutstandingIn(rows, executed, {x})
                        /\ held'[x] + OutstandingIn(rows', executed', {x}) <= held[x] + OutstandingIn(rows, executed, {x})
  /\ OutstandingIn(rows', executed', Symbols) <= OutstandingIn(rows, executed, Symbols)
  /\ Total(held', Symbols) + OutstandingIn(rows', executed', Symbols) <= Total(held, Symbols) + OutstandingIn(rows, executed, Symbols)
  /\ BoughtIn(rows') <= BoughtIn(rows)
  /\ cash' + Total(held', Symbols) = cash + Total(held, Symbols)

\* A sum over the symbols.
LEMMA SymbolSums ==
  ASSUME NEW h \in [Symbols -> Nat]
  PROVE  Total(h, Symbols) \in Nat /\ \A x \in Symbols : h[x] <= Total(h, Symbols)
  BY SymbolsFinite, SumNat

\* A step that touches neither the orders nor the account.
LEMMA RestSettles ==
  ASSUME PlanTypes, UNCHANGED <<rows, accountVars>>
  PROVE  Settles
<1>1. Book(rows, executed) /\ Book(rows', executed') /\ rows' = rows /\ executed' = executed /\ held' = held /\ cash' = cash
  BY DEF PlanTypes, accountVars
<1>2. /\ \A S : OutstandingIn(rows', executed', S) = OutstandingIn(rows, executed, S) /\ OutstandingIn(rows, executed, S) \in Nat
      /\ BoughtIn(rows') = BoughtIn(rows) /\ BoughtIn(rows) \in Nat
  BY <1>1, BookNumbers
<1>3. held \in [Symbols -> Nat] /\ Total(held, Symbols) \in Nat
  BY SymbolSums DEF PlanTypes
<1> QED
  BY <1>1, <1>2, <1>3 DEF Settles

\* A step that moves orders along.
LEMMA MovesSettle ==
  ASSUME PlanTypes, Book(rows', executed'), UNCHANGED accountVars, DOMAIN rows' = DOMAIN rows,
         \A i \in DOMAIN rows :
           /\ rows'[i].quantity = rows[i].quantity
           /\ rows'[i].state \in PendingStates => rows[i].state \in PendingStates
           /\ rows'[i].state \in BuyCounted => rows[i].state \in BuyCounted
  PROVE  Settles
<1>1. Book(rows, executed) /\ executed' = executed /\ held' = held /\ cash' = cash
  BY DEF PlanTypes, accountVars
<1>2. \A i \in DOMAIN rows : executed[i] <= executed'[i]
  BY <1>1 DEF Book
<1>3. /\ \A S : OutstandingIn(rows', executed', S) <= OutstandingIn(rows, executed, S) /\ OutstandingIn(rows, executed, S) \in Nat /\ OutstandingIn(rows', executed', S) \in Nat
      /\ BoughtIn(rows') <= BoughtIn(rows)
  <2>1. /\ \A S : Total(OutOf(rows', executed', S), DOMAIN rows') <= Total(OutOf(rows, executed, S), DOMAIN rows)
        /\ Total(BuyOf(rows'), DOMAIN rows') <= Total(BuyOf(rows), DOMAIN rows)
    BY <1>1, <1>2, BookSettles
  <2> QED
    BY <1>1, <2>1, BookNumbers DEF OutstandingIn, BoughtIn
<1>4. held \in [Symbols -> Nat] /\ Total(held, Symbols) \in Nat
  BY SymbolSums DEF PlanTypes
<1>5. cash \in Nat /\ \A x \in Symbols : held[x] \in Nat
  BY <1>4 DEF PlanTypes
<1> QED
  BY <1>1, <1>3, <1>4, <1>5 DEF Settles

\* Shares that are executed go from the orders to the account or from the account.
LEMMA ExecuteSettles ==
  ASSUME PlanTypes, NEW i \in DOMAIN rows, NEW n, Execute(i, n)
  PROVE  Settles /\ Book(rows', executed') /\ cash' \in Nat /\ held' \in [Symbols -> Nat]
<1> DEFINE x == i.symbol
           d == IF i.side = "buy" THEN n ELSE 0 - n
<1>1. /\ Book(rows, executed) /\ cash \in Nat /\ held \in [Symbols -> Nat] /\ rows' = rows
      /\ rows[i].state \in PendingStates /\ n \in 1..(rows[i].quantity - executed[i])
      /\ executed' = [executed EXCEPT ![i] = @ + n]
      /\ IF i.side = "buy" THEN cash >= n ELSE held[i.symbol] >= n
      /\ cash' = IF i.side = "buy" THEN cash - n ELSE cash + n
      /\ held' = [held EXCEPT ![i.symbol] = IF i.side = "buy" THEN @ + n ELSE @ - n]
  BY DEF PlanTypes, Execute, PendingStates
<1>2. x \in Symbols /\ i \in OrderId /\ rows[i].quantity \in Nat /\ executed[i] \in Nat
  BY <1>1 DEF Book, OrderId, OrderRow
<1>3. n \in Nat /\ n > 0 /\ n <= rows[i].quantity - executed[i] /\ d \in Int
  BY <1>1, <1>2
<1>4. /\ Book(rows', executed')
      /\ \A S : Total(OutOf(rows', executed', S), DOMAIN rows') =
                  Total(OutOf(rows, executed, S), DOMAIN rows)
                  - (IF i.side = "buy" /\ i.symbol \in S THEN n ELSE 0)
  <2>1. /\ Book(rows, [executed EXCEPT ![i] = @ + n])
        /\ \A S : Total(OutOf(rows, [executed EXCEPT ![i] = @ + n], S), DOMAIN rows) =
                    Total(OutOf(rows, executed, S), DOMAIN rows)
                    - (IF i.side = "buy" /\ i.symbol \in S THEN n ELSE 0)
    <3>1. /\ Book(rows, executed) /\ i \in DOMAIN rows /\ n \in Nat
          /\ n <= rows[i].quantity - executed[i] /\ rows[i].state \in PendingStates
      BY <1>1, <1>3
    <3> QED
      BY ONLY <3>1, BookExecutes
  <2> QED
    BY <1>1, <2>1
<1>5. /\ \A S : /\ OutstandingIn(rows', executed', S) = OutstandingIn(rows, executed, S) - (IF i.side = "buy" /\ x \in S THEN n ELSE 0)
                /\ OutstandingIn(rows, executed, S) \in Nat /\ OutstandingIn(rows', executed', S) \in Nat
      /\ BoughtIn(rows') = BoughtIn(rows) /\ BoughtIn(rows) \in Nat
  BY <1>1, <1>4, BookNumbers DEF OutstandingIn
<1>6. /\ \A y \in Symbols : held[y] \in Nat /\ held'[y] \in Nat
      /\ \A y \in Symbols \ {x} : held'[y] = held[y]
      /\ held'[x] = held[x] + d /\ cash' = cash - d /\ cash' \in Nat /\ held' \in [Symbols -> Nat]
  <2>1. held[x] \in Nat
    BY <1>1, <1>2
  <2>2. held[x] + d \in Nat /\ cash - d \in Nat /\ cash' = cash - d
        /\ held' = [held EXCEPT ![x] = held[x] + d]
    <3>1. CASE i.side = "buy"
      BY <1>1, <1>3, <2>1, <3>1
    <3>2. CASE i.side # "buy"
      <4>1. d = 0 - n /\ held[x] >= n /\ cash' = cash + n
            /\ held' = [held EXCEPT ![x] = held[x] - n]
        BY <1>1, <3>2
      <4>2. held[x] + d \in Nat /\ cash - d \in Nat /\ cash' = cash - d /\ held[x] + d = held[x] - n
        <5> HIDE DEF d, x
        <5> QED
          BY <1>1, <1>3, <2>1, <4>1
      <4> QED
        BY <4>1, <4>2
    <3> QED
      BY <3>1, <3>2
  <2> HIDE DEF x, d
  <2> QED
    BY <1>1, <1>2, <2>2
<1> HIDE DEF x, d
<1>7. Total(held', Symbols) = Total(held, Symbols) + d /\ Total(held, Symbols) \in Nat
  <2>1. \A y \in Symbols : held[y] \in Int /\ held'[y] \in Int
    BY <1>6
  <2>2. Total(held', Symbols) = Total(held, Symbols) + held'[x] - held[x]
    BY <1>2, <1>6, <2>1, SymbolsFinite, SumChange
  <2>3. Total(held, Symbols) \in Nat /\ held[x] \in Nat
    BY <1>1, <1>2, SymbolSums
  <2> QED
    BY <1>3, <1>6, <2>2, <2>3
<1>8. d <= (IF i.side = "buy" THEN n ELSE 0)
  BY <1>3 DEF d
<1>9. Settles
  <2>1. ASSUME NEW y \in Symbols
        PROVE  OutstandingIn(rows', executed', {y}) <= OutstandingIn(rows, executed, {y}) /\ held'[y] + OutstandingIn(rows', executed', {y}) <= held[y] + OutstandingIn(rows, executed, {y})
    <3>1. CASE y = x
      BY <1>3, <1>5, <1>6, <1>8, <3>1
    <3>2. CASE y # x
      BY <1>5, <1>6, <3>2
    <3> QED
      BY <3>1, <3>2
  <2>2. /\ OutstandingIn(rows', executed', Symbols) <= OutstandingIn(rows, executed, Symbols)
        /\ Total(held', Symbols) + OutstandingIn(rows', executed', Symbols) <= Total(held, Symbols) + OutstandingIn(rows, executed, Symbols)
    <3>1. OutstandingIn(rows', executed', Symbols) = OutstandingIn(rows, executed, Symbols) - (IF i.side = "buy" THEN n ELSE 0)
      BY <1>2, <1>5
    <3>2. OutstandingIn(rows, executed, Symbols) \in Nat
      BY <1>5
    <3> QED
      BY <1>3, <1>7, <1>8, <3>1, <3>2
  <2>3. cash' + Total(held', Symbols) = cash + Total(held, Symbols)
    BY <1>1, <1>3, <1>6, <1>7
  <2> QED
    BY <1>5, <2>1, <2>2, <2>3 DEF Settles
<1> QED
  BY <1>4, <1>6, <1>9

-----------------------------------------------------------------------------
(* Orders that are made and stored.                                      *)

\* The shares of the purchases of the symbols S, order by order.
Wanted(made, S) ==
  [k \in DOMAIN made |->
     IF made[k].id.side = "buy" /\ made[k].id.symbol \in S THEN made[k].quantity ELSE 0]

\* The purchases among the orders that are made, as a sum over all of them.
LEMMA PurchasedIs ==
  ASSUME NEW made \in Seq(MadeOrders), NEW S
  PROVE  /\ IsFiniteSet(DOMAIN made) /\ \A k \in DOMAIN made : Wanted(made, S)[k] \in Nat
         /\ Purchased(made, S) = Total(Wanted(made, S), DOMAIN made) /\ Purchased(made, S) \in Nat
<1> DEFINE f == [k \in DOMAIN made |-> made[k].quantity]
           R == {k \in DOMAIN made : made[k].id.side = "buy" /\ made[k].id.symbol \in S}
           g == Wanted(made, S)
<1>1. IsFiniteSet(DOMAIN made)
  <2>1. Len(made) \in Int /\ 1 \in Int /\ DOMAIN made = 1..Len(made)
    OBVIOUS
  <2> QED
    BY <2>1, FS_Interval
<1>2. \A k \in DOMAIN made : made[k].quantity \in Nat
  <2>1. \A k \in DOMAIN made : made[k] \in MadeOrders
    OBVIOUS
  <2> QED
    BY <2>1 DEF MadeOrders
<1>3. R \in SUBSET DOMAIN made /\ (\A k \in R : g[k] = f[k] /\ f[k] \in Int)
      /\ (\A k \in DOMAIN made \ R : g[k] = 0) /\ \A k \in DOMAIN made : g[k] \in Nat
  BY <1>2 DEF Wanted
<1>4. Purchased(made, S) = Total(f, R)
  BY PlanSumsAreTotals
<1> HIDE DEF f, R, g
<1>5. Total(f, R) = Total(g, DOMAIN made) /\ Total(g, DOMAIN made) \in Nat
  BY <1>1, <1>3, SumWithin, SumNat
<1> QED
  BY <1>1, <1>3, <1>4, <1>5 DEF g

\* One more order.
LEMMA PurchasedMore ==
  ASSUME NEW made \in Seq(MadeOrders), NEW o \in MadeOrders, NEW S
  PROVE  Purchased(Append(made, o), S) =
           Purchased(made, S) + (IF o.id.side = "buy" /\ o.id.symbol \in S THEN o.quantity ELSE 0)
<1> DEFINE n == Len(made)
           more == Append(made, o)
           f == Wanted(made, S)
           g == Wanted(more, S)
<1>1. n \in Nat /\ more \in Seq(MadeOrders) /\ DOMAIN made = 1..n /\ DOMAIN more = 1..(n + 1)
      /\ more[n + 1] = o /\ \A k \in 1..n : more[k] = made[k]
  OBVIOUS
<1>2. /\ Purchased(made, S) = Total(f, 1..n) /\ Purchased(made, S) \in Nat
      /\ Purchased(more, S) = Total(g, 1..(n + 1)) /\ \A k \in 1..(n + 1) : g[k] \in Int
  <2>1. Purchased(made, S) = Total(f, DOMAIN made) /\ Purchased(made, S) \in Nat
    BY PurchasedIs
  <2>2. /\ Purchased(more, S) = Total(g, DOMAIN more)
        /\ \A k \in DOMAIN more : g[k] \in Nat
    <3> HIDE DEF more
    <3> QED
      BY <1>1, PurchasedIs
  <2> HIDE DEF n, more, f, g
  <2> QED
    BY <1>1, <2>1, <2>2
<1>3. /\ g[n + 1] = IF o.id.side = "buy" /\ o.id.symbol \in S THEN o.quantity ELSE 0
      /\ \A k \in 1..n : f[k] = g[k]
  BY <1>1 DEF Wanted
<1> HIDE DEF n, more, f, g
<1>4. IsFiniteSet(1..n) /\ Total(g, 1..(n + 1)) = g[n + 1] + Total(g, 1..n)
  BY <1>1, <1>2, SumLast
<1>5. Total(g, 1..n) = Total(f, 1..n)
  BY <1>3, <1>4, SumSame
<1>6. o.quantity \in Nat
  BY DEF MadeOrders
<1>7. Purchased(more, S) = Purchased(made, S) + (IF o.id.side = "buy" /\ o.id.symbol \in S THEN o.quantity ELSE 0)
  BY <1>2, <1>3, <1>4, <1>5, <1>6
<1> QED
  BY <1>7 DEF more

\* No order, no purchase.
LEMMA PurchasedNone == \A S : Purchased(<<>>, S) = 0
<1> SUFFICES ASSUME NEW S PROVE Purchased(<<>>, S) = 0
  OBVIOUS
<1>1. <<>> \in Seq(MadeOrders) /\ DOMAIN <<>> = {}
  OBVIOUS
<1> QED
  BY <1>1, PurchasedIs, SumEmpty

\* Some of the orders that are made come to those that are stored.
LEMMA SumOfStored ==
  ASSUME NEW D, IsFiniteSet(D), NEW M, IsFiniteSet(M), NEW K \in SUBSET M, NEW b,
         \A k \in K : b[k] \notin D, \A j, k \in K : b[j] = b[k] => j = k,
         NEW f, NEW g, NEW w, \A i \in D : f[i] \in Nat /\ g[i] = f[i],
         \A k \in M : w[k] \in Nat, \A k \in K : g[b[k]] \in Nat /\ g[b[k]] <= w[k]
  PROVE  Total(g, D \cup {b[k] : k \in K}) <= Total(f, D) + Total(w, M)
<1> DEFINE h == [k \in K |-> g[b[k]]]
           N == {b[k] : k \in K}
<1>1. IsFiniteSet(K)
  BY FS_Subset
<1>2. IsFiniteSet(N)
  <2> DEFINE r == [k \in K |-> b[k]]
  <2>1. r \in Surjection(K, N)
    BY DEF Surjection
  <2> QED
    BY <1>1, <2>1, FS_Surjection
<1>3. \A k \in K : h[k] \in Int /\ g[b[k]] = h[k] /\ w[k] \in Int /\ h[k] <= w[k]
  OBVIOUS
<1>4. D \cap N = {} /\ \A i \in D \cup N : g[i] \in Int
  OBVIOUS
<1>5. Total(g, N) = Total(h, K)
  <2> HIDE DEF h
  <2> QED
    BY <1>1, <1>3, SumRenamed
<1> HIDE DEF h, N
<1>6. Total(h, K) <= Total(w, K) /\ Total(h, K) \in Int
  BY <1>1, <1>3, SumGrows, SumType
<1>7. Total(w, K) <= Total(w, M) /\ Total(w, K) \in Nat /\ Total(w, M) \in Nat
  BY SumOfPart
<1>8. Total(g, D) = Total(f, D) /\ Total(f, D) \in Nat
  BY SumSame, SumNat
<1>9. Total(g, D \cup N) = Total(g, D) + Total(g, N)
  BY <1>2, <1>4, SumUnion
<1>10. Total(g, D \cup N) <= Total(f, D) + Total(w, M)
  BY <1>5, <1>6, <1>7, <1>8, <1>9
<1> QED
  BY <1>10 DEF N

\* What a plan leaves among the stored orders.
LEMMA SaveStores ==
  ASSUME PlanTypes, NEW p \in Planners,
         \A k \in DOMAIN plan[p].made : plan[p].made[k].id.sequence = k,
         rows' = Stored(p), executed' = [i \in DOMAIN rows' |-> IF i \in DOMAIN rows THEN executed[i] ELSE 0]
  PROVE  /\ Book(rows', executed')
         /\ \A i \in DOMAIN rows : i \in DOMAIN rows' /\ rows'[i] = rows[i] /\ executed'[i] = executed[i]
         /\ \A S : OutstandingIn(rows', executed', S) <= OutstandingIn(rows, executed, S) + Purchased(plan[p].made, S)
         /\ BoughtIn(rows') <= BoughtIn(rows) + Purchased(plan[p].made, Symbols)
<1> DEFINE made == plan[p].made
           D == DOMAIN rows
           M == DOMAIN made
           K == {k \in M : made[k].id \notin D}
           b == [k \in M |-> made[k].id]
           N == {b[k] : k \in K}
<1>1. /\ Book(rows, executed) /\ made \in Seq(MadeOrders) /\ plan[p].now \in Nat
      /\ IsFiniteSet(D) /\ IsFiniteSet(M)
  <2>1. plan[p] \in PlanRecords /\ Book(rows, executed)
    BY DEF PlanTypes
  <2>2. made \in Seq(MadeOrders) /\ plan[p].now \in Nat
    BY <2>1 DEF PlanRecords
  <2> QED
    BY <2>1, <2>2, PurchasedIs DEF Book
<1>2. \A k \in M : /\ made[k] \in MadeOrders /\ made[k].id \in OrderId
                   /\ made[k].quantity \in Nat /\ made[k].state \in {"planned", "rejected"}
                   /\ b[k] = made[k].id
  <2>1. \A k \in M : made[k] \in MadeOrders
    BY <1>1
  <2> QED
    BY <2>1 DEF MadeOrders
<1>3. \A j, k \in M : made[j].id = made[k].id => j = k
  OBVIOUS
<1>4. DOMAIN NewRows(p) = {made[k].id : k \in M}
  <2>1. DOMAIN NewRows(p) = {o.id : o \in Range(made)}
    BY DEF NewRows
  <2> QED
    BY <2>1 DEF Range
<1>5. \A k \in M : NewRows(p)[made[k].id] =
        [state |-> made[k].state, quantity |-> made[k].quantity, filled |-> 0, created |-> plan[p].now]
  <2> SUFFICES ASSUME NEW k \in M
               PROVE  NewRows(p)[made[k].id] =
                        [state |-> made[k].state, quantity |-> made[k].quantity, filled |-> 0,
                         created |-> plan[p].now]
    OBVIOUS
  <2> DEFINE o == CHOOSE o \in Range(made) : o.id = made[k].id
  <2>1. made[k] \in Range(made)
    BY DEF Range
  <2>2. o \in Range(made) /\ o.id = made[k].id
    BY <2>1
  <2>3. PICK j \in M : o = made[j]
    BY <2>2 DEF Range
  <2>4. o = made[k]
    BY <1>3, <2>2, <2>3
  <2>5. NewRows(p)[made[k].id] = RowOf(p, o)
    BY <2>1 DEF NewRows
  <2> HIDE DEF o
  <2> QED
    BY <2>4, <2>5 DEF RowOf
<1>6. /\ DOMAIN rows' = D \cup N
      /\ \A i \in D : i \in DOMAIN rows' /\ rows'[i] = rows[i] /\ executed'[i] = executed[i]
      /\ \A k \in K : /\ b[k] \notin D /\ b[k] \in DOMAIN rows' /\ executed'[b[k]] = 0
                      /\ rows'[b[k]] = [state |-> made[k].state, quantity |-> made[k].quantity,
                                        filled |-> 0, created |-> plan[p].now]
      /\ DOMAIN executed' = DOMAIN rows'
  <2>1. DOMAIN rows' = D \cup DOMAIN NewRows(p)
        /\ \A i \in DOMAIN rows' : rows'[i] = IF i \in D THEN rows[i] ELSE NewRows(p)[i]
    BY DEF Stored
  <2>2. D \cup DOMAIN NewRows(p) = D \cup N
    BY <1>4
  <2>3. \A k \in K : b[k] \notin D /\ b[k] \in DOMAIN rows' /\ b[k] = made[k].id /\ k \in M
    BY <2>1, <2>2
  <2>4. \A i \in DOMAIN rows' : executed'[i] = IF i \in D THEN executed[i] ELSE 0
    OBVIOUS
  <2> HIDE DEF M, K, b, N, made
  <2>5. \A k \in K : rows'[b[k]] = NewRows(p)[made[k].id] /\ executed'[b[k]] = 0
    BY <2>1, <2>3, <2>4
  <2> QED
    BY <1>5, <2>1, <2>2, <2>3, <2>4, <2>5
<1>7. \A k \in K : k \in M
  OBVIOUS
<1>12. DOMAIN rows' = D \cup N /\ IsFiniteSet(D) /\ IsFiniteSet(M)
  BY <1>1, <1>6
<1>13. \A k \in K : /\ rows'[b[k]].state = made[k].state /\ rows'[b[k]].quantity = made[k].quantity
                    /\ rows'[b[k]].filled = 0 /\ rows'[b[k]] \in OrderRow
                    /\ executed'[b[k]] = 0 /\ b[k] \notin D /\ b[k] \in DOMAIN rows' /\ b[k] \in OrderId
  <2> SUFFICES ASSUME NEW k \in K
               PROVE  /\ rows'[b[k]].state = made[k].state /\ rows'[b[k]].quantity = made[k].quantity
                      /\ rows'[b[k]].filled = 0 /\ rows'[b[k]] \in OrderRow
                      /\ executed'[b[k]] = 0 /\ b[k] \notin D /\ b[k] \in DOMAIN rows' /\ b[k] \in OrderId
    OBVIOUS
  <2> DEFINE r == [state |-> made[k].state, quantity |-> made[k].quantity,
                   filled |-> 0, created |-> plan[p].now]
  <2>1. rows'[b[k]] = r /\ executed'[b[k]] = 0 /\ b[k] \notin D /\ b[k] \in DOMAIN rows'
    BY <1>6
  <2>2. k \in M /\ made[k].quantity \in Nat /\ made[k].state \in OrderState /\ b[k] \in OrderId
    BY <1>2, <1>7 DEF OrderState
  <2> HIDE DEF K, M, D, b, made
  <2>3. r \in OrderRow /\ r.state = made[k].state /\ r.quantity = made[k].quantity /\ r.filled = 0
    BY <1>1, <2>2 DEF OrderRow
  <2> QED
    BY <2>1, <2>2, <2>3
<1>8. \A i \in N : \E k \in K : i = b[k]
  OBVIOUS
<1>9. Book(rows', executed')
  <2>1. IsFiniteSet(DOMAIN rows')
    <3> DEFINE r == [k \in K |-> b[k]]
    <3>1. r \in Surjection(K, N) /\ K \in SUBSET M
      BY DEF Surjection
    <3>2. IsFiniteSet(N)
      <4> HIDE DEF r, K, N, M
      <4> QED
        BY <1>1, <3>1, FS_Subset, FS_Surjection
    <3> HIDE DEF D, K, N, M
    <3> QED
      BY <1>12, <3>2, FS_Union
  <2>2. \A i \in D : /\ i \in OrderId /\ rows[i] \in OrderRow /\ executed[i] \in Nat
                     /\ rows[i].filled <= executed[i] /\ executed[i] <= rows[i].quantity
    BY <1>1 DEF Book
  <2> HIDE DEF K, N, M, D, b, made
  <2>3. \A k \in K : /\ b[k] \in OrderId /\ rows'[b[k]] \in OrderRow /\ executed'[b[k]] = 0
                     /\ rows'[b[k]].filled = 0 /\ rows'[b[k]].quantity \in Nat
    BY <1>13 DEF OrderRow
  <2>4. \A i \in DOMAIN rows' : /\ i \in OrderId /\ rows'[i] \in OrderRow /\ executed'[i] \in Nat
                                /\ rows'[i].filled <= executed'[i] /\ executed'[i] <= rows'[i].quantity
    <3>1. \A i \in D : rows'[i] = rows[i] /\ executed'[i] = executed[i]
      BY <1>6
    <3>2. ASSUME NEW i \in N
          PROVE  /\ i \in OrderId /\ rows'[i] \in OrderRow /\ executed'[i] \in Nat
                 /\ rows'[i].filled <= executed'[i] /\ executed'[i] <= rows'[i].quantity
      <4>1. PICK k \in K : i = b[k]
        BY <1>8
      <4> QED
        BY <2>3, <4>1
    <3> QED
      BY <1>12, <2>2, <3>1, <3>2
  <2>5. rows' = [i \in DOMAIN rows' |-> rows'[i]] /\ executed' = [i \in DOMAIN rows' |-> executed'[i]]
    BY DEF Stored
  <2>6. rows' \in [DOMAIN rows' -> OrderRow] /\ executed' \in [DOMAIN rows' -> Nat] /\ DOMAIN rows' \subseteq OrderId
    BY <2>4, <2>5
  <2> QED
    BY <2>1, <2>4, <2>6 DEF Book
<1>10. ASSUME NEW S
       PROVE  OutstandingIn(rows', executed', S) <= OutstandingIn(rows, executed, S) + Purchased(made, S)
  <2> DEFINE f == OutOf(rows, executed, S)
             g == OutOf(rows', executed', S)
             w == Wanted(made, S)
  <2>1. \A i \in D : f[i] \in Nat /\ g[i] = f[i]
    <3>1. \A i \in D : f[i] \in Nat
      BY <1>1, BookSums
    <3> QED
      BY <1>6, <3>1 DEF OutOf
  <2>2. /\ Purchased(made, S) = Total(w, M) /\ \A k \in M : w[k] \in Nat
    BY <1>1, PurchasedIs
  <2>3. \A k \in K : g[b[k]] \in Nat /\ g[b[k]] <= w[k]
    <3> SUFFICES ASSUME NEW k \in K PROVE g[b[k]] \in Nat /\ g[b[k]] <= w[k]
      OBVIOUS
    <3>1. k \in M /\ b[k] = made[k].id /\ made[k].quantity \in Nat
      BY <1>2, <1>7
    <3>2. w[k] = IF made[k].id.side = "buy" /\ made[k].id.symbol \in S THEN made[k].quantity ELSE 0
      BY <3>1 DEF Wanted
    <3>3. b[k] \in DOMAIN rows' /\ rows'[b[k]].quantity = made[k].quantity /\ executed'[b[k]] = 0
      BY <1>13
    <3> HIDE DEF b, made, M, K, w
    <3>4. g[b[k]] = IF rows'[b[k]].state \in PendingStates /\ b[k].side = "buy" /\ b[k].symbol \in S
                    THEN rows'[b[k]].quantity - executed'[b[k]] ELSE 0
      BY <3>3 DEF OutOf
    <3> QED
      BY <3>1, <3>2, <3>3, <3>4
  <2>4. K \in SUBSET M /\ (\A k \in K : b[k] \notin D) /\ (\A j, k \in K : b[j] = b[k] => j = k)
    BY <1>3, <1>6
  <2> HIDE DEF f, g, w, K, M, D, b, made
  <2>5. Total(g, D \cup {b[k] : k \in K}) <= Total(f, D) + Total(w, M)
    <3>1. /\ IsFiniteSet(D) /\ IsFiniteSet(M) /\ \A k \in M : w[k] \in Nat
      BY <1>12, <2>2
    <3> QED
      BY <2>1, <2>3, <2>4, <3>1, SumOfStored
  <2>6. OutstandingIn(rows, executed, S) = Total(f, D) /\ OutstandingIn(rows', executed', S) = Total(g, DOMAIN rows')
    BY DEF f, g, D, OutstandingIn
  <2>7. DOMAIN rows' = D \cup {b[k] : k \in K}
    BY <1>12 DEF N
  <2> QED
    BY <2>2, <2>5, <2>6, <2>7
<1>11. BoughtIn(rows') <= BoughtIn(rows) + Purchased(made, Symbols)
  <2> DEFINE f == BuyOf(rows)
             g == BuyOf(rows')
             w == Wanted(made, Symbols)
  <2>1. \A i \in D : f[i] \in Nat /\ g[i] = f[i]
    <3>1. \A i \in D : f[i] \in Nat
      BY <1>1, BookSums
    <3> QED
      BY <1>6, <3>1 DEF BuyOf
  <2>2. /\ Purchased(made, Symbols) = Total(w, M) /\ \A k \in M : w[k] \in Nat
    BY <1>1, PurchasedIs
  <2>3. \A k \in K : g[b[k]] \in Nat /\ g[b[k]] <= w[k]
    <3> SUFFICES ASSUME NEW k \in K PROVE g[b[k]] \in Nat /\ g[b[k]] <= w[k]
      OBVIOUS
    <3>1. k \in M /\ b[k] = made[k].id /\ made[k].quantity \in Nat /\ made[k].id.symbol \in Symbols
      BY <1>2, <1>7 DEF OrderId
    <3>2. w[k] = IF made[k].id.side = "buy" THEN made[k].quantity ELSE 0
      BY <3>1 DEF Wanted
    <3>3. b[k] \in DOMAIN rows' /\ rows'[b[k]].quantity = made[k].quantity
      BY <1>13
    <3> HIDE DEF b, made, M, K, w
    <3>4. g[b[k]] = IF rows'[b[k]].state \in BuyCounted /\ b[k].side = "buy" THEN rows'[b[k]].quantity ELSE 0
      BY <3>3 DEF BuyOf
    <3> QED
      BY <3>1, <3>2, <3>3, <3>4
  <2>4. K \in SUBSET M /\ (\A k \in K : b[k] \notin D) /\ (\A j, k \in K : b[j] = b[k] => j = k)
    BY <1>3, <1>6
  <2> HIDE DEF f, g, w, K, M, D, b, made
  <2>5. Total(g, D \cup {b[k] : k \in K}) <= Total(f, D) + Total(w, M)
    <3>1. /\ IsFiniteSet(D) /\ IsFiniteSet(M) /\ \A k \in M : w[k] \in Nat
      BY <1>12, <2>2
    <3> QED
      BY <2>1, <2>3, <2>4, <3>1, SumOfStored
  <2>6. BoughtIn(rows) = Total(f, D) /\ BoughtIn(rows') = Total(g, DOMAIN rows')
    BY DEF f, g, D, BoughtIn
  <2>7. DOMAIN rows' = D \cup {b[k] : k \in K}
    BY <1>12 DEF N
  <2> QED
    BY <2>2, <2>5, <2>6, <2>7
<1> QED
  BY <1>6, <1>9, <1>10, <1>11

-----------------------------------------------------------------------------
(* Recursions along a sequence, and what an evaluation makes.            *)

\* The smallest of a few numbers is one of them and no more than any.
LEMMA LeastOfTwo ==
  ASSUME NEW a \in Int, NEW b \in Int
  PROVE  Least({a, b}) \in {a, b} /\ Least({a, b}) <= a /\ Least({a, b}) <= b
<1> DEFINE S == {a, b}
<1>1. \E n \in S : \A m \in S : n <= m
  OBVIOUS
<1>2. Least(S) \in S /\ \A m \in S : Least(S) <= m
  BY <1>1 DEF Least
<1> QED
  BY <1>2

\* The same of four numbers, the limits of a room.
LEMMA LeastOfFour ==
  ASSUME NEW a \in Int, NEW b \in Int, NEW c \in Int, NEW d \in Int
  PROVE  /\ Least({a, b, c, d}) \in Int
         /\ Least({a, b, c, d}) <= a /\ Least({a, b, c, d}) <= b
         /\ Least({a, b, c, d}) <= c /\ Least({a, b, c, d}) <= d
         /\ Least({a, b, c, d}) \in {a, b, c, d}
<1> DEFINE S == {a, b, c, d}
<1>1. \E n \in S : \A m \in S : n <= m
  OBVIOUS
<1>2. Least(S) \in S /\ \A m \in S : Least(S) <= m
  BY <1>1 DEF Least
<1> QED
  BY <1>2

\* The candidates that are named up to a place of the sorted symbols.
Namings(side, symbols) ==
  CHOOSE upTo : upTo = [k \in 0..Len(SymbolOrder) |->
    IF k = 0 THEN <<>>
    ELSE IF SymbolOrder[k] \in symbols
    THEN Append(upTo[k - 1], Candidate(SymbolOrder[k], side)) ELSE upTo[k - 1]]

\* Candidates are named for the symbols.
LEMMA NamedCandidates ==
  ASSUME NEW side \in {"buy", "sell"}, NEW symbols
  PROVE  Named(side, symbols) \in Seq(Candidates)
<1> DEFINE N == Len(SymbolOrder)
           names(g, n) == g = [k \in 0..n |->
             IF k = 0 THEN <<>>
             ELSE IF SymbolOrder[k] \in symbols
             THEN Append(g[k - 1], Candidate(SymbolOrder[k], side)) ELSE g[k - 1]]
<1>1. N \in Nat /\ \A k \in 1..N : SymbolOrder[k] \in Symbols
  BY PlanningAssumption
<1>2. \E g : names(g, N)
  <2> DEFINE W == {n \in Nat : ~ \E g : names(g, n)}
  <2> SUFFICES ASSUME W # {} PROVE FALSE
    BY <1>1
  <2>1. PICK n \in W : \A m \in W : n <= m
    <3>1. W \subseteq Nat /\ W # {}
      OBVIOUS
    <3> HIDE DEF W
    <3> QED
      BY <3>1, SmallestNumber
  <2>2. n \in Nat /\ ~ \E g : names(g, n)
    OBVIOUS
  <2>3. n # 0
    <3>1. names([k \in 0..0 |-> <<>>], 0)
      OBVIOUS
    <3> QED
      BY <2>2, <3>1
  <2>4. PICK f : names(f, n - 1)
    <3>1. n - 1 \in Nat /\ ~ (n <= n - 1)
      BY <2>2, <2>3
    <3>2. n - 1 \notin W
      <4> HIDE DEF W
      <4> QED
        BY <2>1, <3>1
    <3> HIDE DEF names
    <3> QED
      BY <3>1, <3>2
  <2> DEFINE h == [k \in 0..n |->
               IF k = 0 THEN <<>>
               ELSE IF SymbolOrder[k] \in symbols
               THEN Append(f[k - 1], Candidate(SymbolOrder[k], side)) ELSE f[k - 1]]
  <2>5. \A k \in 0..(n - 1) : f[k] = h[k]
    <3>1. \A k \in 0..(n - 1) : f[k] =
            IF k = 0 THEN <<>>
            ELSE IF SymbolOrder[k] \in symbols
            THEN Append(f[k - 1], Candidate(SymbolOrder[k], side)) ELSE f[k - 1]
      BY <2>4, Zenon
    <3>2. \A k \in 0..(n - 1) : k \in 0..n
      BY <2>2
    <3> QED
      BY <3>1, <3>2, Zenon
  <2>6. \A k \in 1..n : k - 1 \in 0..(n - 1)
    BY <2>2
  <2>7. \A k \in 0..n : k # 0 => f[k - 1] = h[k - 1]
    <3> HIDE DEF h, names
    <3> QED
      BY <2>2, <2>5, <2>6
  <2>8. names(h, n)
    BY <2>7
  <2> QED
    BY <2>2, <2>8
<1>3. names(Namings(side, symbols), N) /\ Named(side, symbols) = Namings(side, symbols)[N]
  <2>1. names(Namings(side, symbols), N)
    BY <1>2 DEF Namings
  <2>2. Named(side, symbols) = Namings(side, symbols)[N]
    BY DEF Named, Namings
  <2> QED
    BY <2>1, <2>2
<1>4. \A n \in 0..N : Namings(side, symbols)[n] \in Seq(Candidates)
  <2> DEFINE g == Namings(side, symbols)
             W == {n \in 0..N : g[n] \notin Seq(Candidates)}
  <2> SUFFICES ASSUME W # {} PROVE FALSE
    OBVIOUS
  <2>1. PICK n \in W : \A m \in W : n <= m
    <3>1. W \subseteq Nat /\ W # {}
      BY <1>1
    <3> HIDE DEF W
    <3> QED
      BY <3>1, SmallestNumber
  <2>2. g[0] = <<>>
    <3>1. 0 \in 0..N
      BY <1>1
    <3> QED
      BY <1>3, <3>1, Zenon
  <2>3. n # 0 /\ n \in 1..N /\ n - 1 \in 0..N
    <3>1. n # 0 /\ n \in 0..N
      <4>1. n \in 0..N /\ g[n] \notin Seq(Candidates) /\ <<>> \in Seq(Candidates)
        BY <2>1
      <4> HIDE DEF g, N
      <4> QED
        BY <2>2, <4>1
    <3> QED
      BY <1>1, <3>1
  <2>4. g[n - 1] \in Seq(Candidates)
    BY <1>1, <2>1, <2>3
  <2>5. g[n] = IF SymbolOrder[n] \in symbols THEN Append(g[n - 1], Candidate(SymbolOrder[n], side)) ELSE g[n - 1]
    BY <1>1, <1>3, <2>3
  <2>6. Candidate(SymbolOrder[n], side) \in Candidates
    BY <1>1, <2>3 DEF Candidate, Candidates
  <2> HIDE DEF g
  <2>7. g[n] \in Seq(Candidates)
    BY <2>4, <2>5, <2>6
  <2> QED
    BY <2>1, <2>7 DEF g
<1> QED
  BY <1>1, <1>3, <1>4

\* The candidates of a signal, whatever is held.
LEMMA SignalCandidatesType ==
  \A h : SignalCandidates(h) \in Seq(Candidates)
<1> SUFFICES ASSUME NEW h PROVE SignalCandidates(h) \in Seq(Candidates)
  OBVIOUS
<1>1. Named("buy", Targets \ h) \in Seq(Candidates) /\ Named("sell", h \ Targets) \in Seq(Candidates)
  BY NamedCandidates
<1> QED
  BY <1>1 DEF SignalCandidates

\* What is decided about the candidates up to a place.
Evaluations(c) ==
  CHOOSE upTo : upTo = [k \in 0..Len(c.candidates) |->
    IF k = 0 THEN NoDecision ELSE Judged(c, upTo[k - 1], c.candidates[k])]

\* Each result is that of the candidate before, with one candidate more.
LEMMA EvaluationsRecur ==
  ASSUME NEW c, Len(c.candidates) \in Nat
  PROVE  /\ Evaluated(c) = Evaluations(c)[Len(c.candidates)]
         /\ Evaluations(c)[0] = NoDecision
         /\ \A k \in 1..Len(c.candidates) :
              Evaluations(c)[k] = Judged(c, Evaluations(c)[k - 1], c.candidates[k])
<1> DEFINE N == Len(c.candidates)
           judges(g, n) == g = [k \in 0..n |->
             IF k = 0 THEN NoDecision ELSE Judged(c, g[k - 1], c.candidates[k])]
<1>1. \E g : judges(g, N)
  <2> DEFINE W == {n \in Nat : ~ \E g : judges(g, n)}
  <2> SUFFICES ASSUME W # {} PROVE FALSE
    OBVIOUS
  <2>1. PICK n \in W : \A m \in W : n <= m
    <3>1. W \subseteq Nat /\ W # {}
      OBVIOUS
    <3> HIDE DEF W
    <3> QED
      BY <3>1, SmallestNumber
  <2>2. n \in Nat /\ ~ \E g : judges(g, n)
    OBVIOUS
  <2>3. n # 0
    <3>1. judges([k \in 0..0 |-> NoDecision], 0)
      OBVIOUS
    <3> QED
      BY <2>2, <3>1
  <2>4. PICK f : judges(f, n - 1)
    <3>1. n - 1 \in Nat /\ ~ (n <= n - 1)
      BY <2>2, <2>3
    <3>2. n - 1 \notin W
      <4> HIDE DEF W
      <4> QED
        BY <2>1, <3>1
    <3> HIDE DEF judges
    <3> QED
      BY <3>1, <3>2
  <2> DEFINE h == [k \in 0..n |-> IF k = 0 THEN NoDecision ELSE Judged(c, f[k - 1], c.candidates[k])]
  <2>5. \A k \in 0..(n - 1) : f[k] = h[k]
    <3>1. \A k \in 0..(n - 1) : f[k] = IF k = 0 THEN NoDecision ELSE Judged(c, f[k - 1], c.candidates[k])
      BY <2>4, Zenon
    <3>2. \A k \in 0..(n - 1) : k \in 0..n
      BY <2>2
    <3> QED
      BY <3>1, <3>2, Zenon
  <2>6. \A k \in 1..n : k - 1 \in 0..(n - 1)
    BY <2>2
  <2>7. \A k \in 0..n : k # 0 => f[k - 1] = h[k - 1]
    <3> HIDE DEF h, judges
    <3> QED
      BY <2>2, <2>5, <2>6
  <2>8. judges(h, n)
    BY <2>7
  <2> QED
    BY <2>2, <2>8
<1>2. judges(Evaluations(c), N)
  BY <1>1 DEF Evaluations
<1>3. Evaluated(c) = Evaluations(c)[N]
  BY DEF Evaluated, Evaluations
<1>4. 0 \in 0..N /\ \A k \in 1..N : k \in 0..N /\ k # 0
  OBVIOUS
<1> HIDE DEF N
<1>5. Evaluations(c)[0] = NoDecision
  BY <1>2, <1>4, Zenon
<1>6. \A k \in 1..N : Evaluations(c)[k] = Judged(c, Evaluations(c)[k - 1], c.candidates[k])
  BY <1>2, <1>4, Zenon
<1> QED
  BY <1>3, <1>5, <1>6 DEF N

\* A result of some candidates: it fits what the plan has read.
Decisions(c) ==
  {res \in [made : Seq(MadeOrders), short : Seq(NoteDetails)] : MadeFits(c, res.made)}

\* The limits are numbers.
LEMMA LimitsAreNumbers ==
  /\ SymbolCap \in Nat /\ TotalCap \in Nat /\ MinCash \in Nat /\ DailyCap \in Nat
  /\ MaxAttempts \in Nat /\ MaxRejects \in Nat /\ MaxFailures \in Nat
  BY PlanningAssumption

\* The elements of a sequence of four.
LEMMA RangeOfFour ==
  ASSUME NEW a, NEW b, NEW c, NEW d
  PROVE  Range(<<a, b, c, d>>) = {a, b, c, d}
<1> DEFINE f == <<a, b, c, d>>
<1>1. DOMAIN f = {1, 2, 3, 4} /\ f[1] = a /\ f[2] = b /\ f[3] = c /\ f[4] = d
  <2>1. DOMAIN f = 1..4
    OBVIOUS
  <2>2. 1..4 = {1, 2, 3, 4}
    OBVIOUS
  <2>3. f[1] = a /\ f[2] = b /\ f[3] = c /\ f[4] = d
    OBVIOUS
  <2> QED
    BY <2>1, <2>2, <2>3, Zenon
<1> HIDE DEF f
<1>2. Range(f) = {f[k] : k \in {1, 2, 3, 4}}
  BY <1>1 DEF Range
<1>3. {f[k] : k \in {1, 2, 3, 4}} = {f[1], f[2], f[3], f[4]}
  OBVIOUS
<1> QED
  BY <1>1, <1>2, <1>3 DEF f

\* The least of some of the first four numbers is one of them.
LEMMA LeastIsOne ==
  ASSUME NEW S \in SUBSET {1, 2, 3, 4}, S # {}
  PROVE  Least(S) \in S
<1>1. \E n \in S : \A m \in S : n <= m
  <2>1. \A m \in S : m \in Int /\ (m = 1 \/ m = 2 \/ m = 3 \/ m = 4)
    OBVIOUS
  <2>2. CASE 1 \in S
    BY <2>1, <2>2
  <2>3. CASE 1 \notin S /\ 2 \in S
    BY <2>1, <2>3
  <2>4. CASE 1 \notin S /\ 2 \notin S /\ 3 \in S
    BY <2>1, <2>4
  <2>5. CASE 1 \notin S /\ 2 \notin S /\ 3 \notin S
    <3>1. 4 \in S
      BY <2>1, <2>5
    <3> QED
      BY <2>1, <2>5, <3>1
  <2> QED
    BY <2>2, <2>3, <2>4, <2>5
<1> QED
  BY <1>1 DEF Least

\* The room for a purchase is what one of the limits leaves, and no more than each.
LEMMA RoomIs ==
  ASSUME NEW c \in PlanRecords, NEW made \in Seq(MadeOrders), NEW x \in Symbols
  PROVE  /\ Room(c, made, x) \in Int
         /\ Room(c, made, x) <= SymbolCap - c.held[x] - c.pending[x] - Purchased(made, {x})
         /\ Room(c, made, x) <= TotalCap - Total(c.held, Symbols) - Total(c.pending, Symbols)
                                - Purchased(made, Symbols)
         /\ Room(c, made, x) <= DailyCap - c.bought - Purchased(made, Symbols)
         /\ \E k \in {1, 2, 3, 4} : Rooms(c, made, x)[k] = Room(c, made, x)
<1> DEFINE one == Purchased(made, {x})
           all == Purchased(made, Symbols)
           h == Total(c.held, Symbols)
           q == Total(c.pending, Symbols)
           ofSymbol == SymbolCap - c.held[x] - c.pending[x] - one
           ofTotal == TotalCap - h - q - all
           ofCash == c.cash - MinCash - all
           ofDay == DailyCap - c.bought - all
<1>1. c.held \in [Symbols -> Nat] /\ c.pending \in [Symbols -> Nat] /\ c.cash \in Nat /\ c.bought \in Nat
  BY DEF PlanRecords
<1>2. c.held[x] \in Nat /\ c.pending[x] \in Nat /\ h \in Nat /\ q \in Nat
  BY <1>1, SymbolSums
<1>3. one \in Nat /\ all \in Nat
  BY PurchasedIs
<1>4. Room(c, made, x) = Least({ofSymbol, ofTotal, ofCash, ofDay})
  <2>1. Rooms(c, made, x) = <<ofSymbol, ofTotal, ofCash, ofDay>>
    BY DEF Rooms, Total
  <2> HIDE DEF ofSymbol, ofTotal, ofCash, ofDay
  <2>2. Range(Rooms(c, made, x)) = {ofSymbol, ofTotal, ofCash, ofDay}
    BY <2>1, RangeOfFour
  <2> QED
    BY <2>2 DEF Room
<1>5. ofSymbol \in Int /\ ofTotal \in Int /\ ofCash \in Int /\ ofDay \in Int
  <2> HIDE DEF one, all, h, q
  <2> QED
    <3>1. ofSymbol \in Int
      BY <1>2, <1>3, LimitsAreNumbers, SMTT(30)
    <3>2. ofTotal \in Int
      BY <1>2, <1>3, LimitsAreNumbers, SMTT(30)
    <3>3. ofCash \in Int /\ ofDay \in Int
      BY <1>1, <1>3, LimitsAreNumbers
    <3> QED
      BY <3>1, <3>2, <3>3
<1>6. /\ Room(c, made, x) \in Int /\ Room(c, made, x) <= ofSymbol
      /\ Room(c, made, x) <= ofTotal /\ Room(c, made, x) <= ofDay
  <2> HIDE DEF ofSymbol, ofTotal, ofCash, ofDay
  <2> QED
    <3> DEFINE l == Least({ofSymbol, ofTotal, ofCash, ofDay})
    <3>1. l \in Int /\ l <= ofSymbol /\ l <= ofTotal /\ l <= ofDay
      BY <1>5, LeastOfFour
    <3> HIDE DEF l
    <3> QED
      BY <1>4, <3>1 DEF l
<1>7. \E k \in {1, 2, 3, 4} : Rooms(c, made, x)[k] = Room(c, made, x)
  <2>1. Rooms(c, made, x) = <<ofSymbol, ofTotal, ofCash, ofDay>>
    BY DEF Rooms, Total
  <2> HIDE DEF ofSymbol, ofTotal, ofCash, ofDay
  <2>2. Room(c, made, x) \in {ofSymbol, ofTotal, ofCash, ofDay}
    <3>1. Least({ofSymbol, ofTotal, ofCash, ofDay}) \in {ofSymbol, ofTotal, ofCash, ofDay}
      BY <1>5, LeastOfFour
    <3> QED
      BY <1>4, <3>1, Zenon
  <2>3. /\ <<ofSymbol, ofTotal, ofCash, ofDay>>[1] = ofSymbol
        /\ <<ofSymbol, ofTotal, ofCash, ofDay>>[2] = ofTotal
        /\ <<ofSymbol, ofTotal, ofCash, ofDay>>[3] = ofCash
        /\ <<ofSymbol, ofTotal, ofCash, ofDay>>[4] = ofDay
    OBVIOUS
  <2> QED
    BY <2>1, <2>2, <2>3, Zenon
<1> QED
  BY <1>6, <1>7

\* The rule a note names is one of the four.
LEMMA BindingIs ==
  ASSUME NEW c \in PlanRecords, NEW made \in Seq(MadeOrders), NEW x \in Symbols
  PROVE  Binding(c, made, x) \in Range(BuyRules)
<1> DEFINE S == {k \in DOMAIN BuyRules : Rooms(c, made, x)[k] = Room(c, made, x)}
<1>1. DOMAIN BuyRules = {1, 2, 3, 4}
  BY DEF BuyRules
<1>2. S \in SUBSET {1, 2, 3, 4} /\ S # {}
  BY <1>1, RoomIs
<1>3. Binding(c, made, x) = BuyRules[Least(S)]
  BY DEF Binding
<1> HIDE DEF S
<1>4. Least(S) \in DOMAIN BuyRules
  BY <1>1, <1>2, LeastIsOne
<1> QED
  BY <1>3, <1>4 DEF Range

\* An order that is not a purchase of shares, or is within the room, fits.
LEMMA PlannedFits ==
  ASSUME NEW c \in PlanRecords, NEW made \in Seq(MadeOrders), MadeFits(c, made), NEW cand \in Candidates,
         NEW quantity \in Nat, NEW state \in {"planned", "rejected"},
         cand.side = "buy" /\ quantity > 0 => quantity <= Room(c, made, cand.symbol)
  PROVE  /\ Planned(c, made, cand, quantity, state) \in Seq(MadeOrders)
         /\ MadeFits(c, Planned(c, made, cand, quantity, state))
<1> DEFINE n == Len(made)
           id == [strategy |-> c.strategy, side |-> cand.side, symbol |-> cand.symbol, sequence |-> n + 1]
           o == [id |-> id, quantity |-> quantity, state |-> state]
           more == Append(made, o)
           x == cand.symbol
           bought == IF cand.side = "buy" THEN quantity ELSE 0
<1>1. /\ c.strategy \in {"signal", "manual"} /\ c.bought \in Nat
      /\ c.held \in [Symbols -> Nat] /\ c.pending \in [Symbols -> Nat]
  BY DEF PlanRecords
<1>2. cand.side \in {"buy", "sell"} /\ x \in Symbols /\ n \in Nat /\ n + 1 \in Nat \ {0}
  BY DEF Candidates
<1>3. id \in OrderId
  <2> HIDE DEF n, x
  <2>1. id = [strategy |-> c.strategy, side |-> cand.side, symbol |-> x, sequence |-> n + 1]
    BY DEF x
  <2> QED
    BY <1>1, <1>2, <2>1 DEF OrderId
<1>4. o \in MadeOrders /\ o.id = id /\ o.quantity = quantity /\ id.side = cand.side /\ id.symbol = x
      /\ id.sequence = n + 1
  <2>1. id.side = cand.side /\ id.symbol = x /\ id.sequence = n + 1
    OBVIOUS
  <2> HIDE DEF id
  <2> QED
    BY <1>3, <2>1 DEF MadeOrders
<1>5. more = Planned(c, made, cand, quantity, state)
  BY DEF Planned
<1> HIDE DEF id, o, x
<1>6. /\ more \in Seq(MadeOrders) /\ DOMAIN more = 1..(n + 1) /\ DOMAIN made = 1..n
      /\ more[n + 1] = o /\ \A k \in 1..n : more[k] = made[k]
  BY <1>4
<1>7. \A S : /\ Purchased(more, S) = Purchased(made, S) + (IF cand.side = "buy" /\ x \in S THEN quantity ELSE 0)
             /\ Purchased(made, S) \in Nat
  BY <1>4, PurchasedMore, PurchasedIs
<1>8. /\ \A k \in DOMAIN made : made[k].id.sequence = k
      /\ \A y \in Symbols :
           Purchased(made, {y}) > 0 => c.held[y] + c.pending[y] + Purchased(made, {y}) <= SymbolCap
      /\ Purchased(made, Symbols) > 0 =>
           /\ Total(c.held, Symbols) + Total(c.pending, Symbols) + Purchased(made, Symbols) <= TotalCap
           /\ c.bought + Purchased(made, Symbols) <= DailyCap
  BY DEF MadeFits
<1>9. bought > 0 =>
        /\ bought <= SymbolCap - c.held[x] - c.pending[x] - Purchased(made, {x})
        /\ bought <= TotalCap - Total(c.held, Symbols) - Total(c.pending, Symbols) - Purchased(made, Symbols)
        /\ bought <= DailyCap - c.bought - Purchased(made, Symbols)
  <2> SUFFICES ASSUME bought > 0
               PROVE /\ bought <= SymbolCap - c.held[x] - c.pending[x] - Purchased(made, {x})
                     /\ bought <= TotalCap - Total(c.held, Symbols) - Total(c.pending, Symbols)
                                  - Purchased(made, Symbols)
                     /\ bought <= DailyCap - c.bought - Purchased(made, Symbols)
    OBVIOUS
  <2> DEFINE room == Room(c, made, x)
             toSymbol == SymbolCap - c.held[x] - c.pending[x] - Purchased(made, {x})
             toTotal == TotalCap - Total(c.held, Symbols) - Total(c.pending, Symbols) - Purchased(made, Symbols)
             toDay == DailyCap - c.bought - Purchased(made, Symbols)
  <2>1. bought = quantity /\ quantity <= room
    BY DEF x
  <2>2. room \in Int /\ room <= toSymbol /\ room <= toTotal /\ room <= toDay
    BY <1>2, RoomIs
  <2>3. c.held[x] \in Nat /\ c.pending[x] \in Nat /\ Total(c.held, Symbols) \in Nat /\ Total(c.pending, Symbols) \in Nat
        /\ Purchased(made, {x}) \in Nat /\ Purchased(made, Symbols) \in Nat
    BY <1>1, <1>2, <1>7, SymbolSums
  <2>4. toSymbol \in Int /\ toTotal \in Int
    <3>1. toSymbol \in Int
      BY <2>3, LimitsAreNumbers, SMTT(30)
    <3>2. toTotal \in Int
      BY <2>3, LimitsAreNumbers, SMTT(30)
    <3> QED
      BY <3>1, <3>2
  <2>5. toDay \in Int
    BY <1>1, <2>3, LimitsAreNumbers
  <2> HIDE DEF bought, room, toSymbol, toTotal, toDay
  <2>6. bought <= toSymbol /\ bought <= toTotal /\ bought <= toDay
    BY <2>1, <2>2, <2>4, <2>5
  <2> QED
    BY <2>6 DEF toSymbol, toTotal, toDay
<1>10. \A k \in DOMAIN more : more[k].id.sequence = k
  <2>1. o.id.sequence = n + 1 /\ \A k \in 1..n : made[k].id.sequence = k
    BY <1>4, <1>6, <1>8
  <2> HIDE DEF more, n
  <2>2. ASSUME NEW k \in 1..(n + 1) PROVE more[k].id.sequence = k
    <3>1. CASE k = n + 1
      BY <1>6, <2>1, <3>1
    <3>2. CASE k # n + 1
      <4>1. k \in 1..n
        BY <1>2, <3>2
      <4> QED
        BY <1>6, <2>1, <4>1
    <3> QED
      BY <3>1, <3>2
  <2> QED
    BY <1>6, <2>2
<1> HIDE DEF more, n
<1>11. ASSUME NEW y \in Symbols, Purchased(more, {y}) > 0
       PROVE  c.held[y] + c.pending[y] + Purchased(more, {y}) <= SymbolCap
  <2>1. c.held[y] \in Nat /\ c.pending[y] \in Nat /\ Purchased(made, {y}) \in Nat
    BY <1>1, <1>7
  <2>2. CASE y = x /\ bought > 0
    <3>1. Purchased(more, {y}) = Purchased(made, {y}) + bought
      BY <1>7, <2>2 DEF bought
    <3>2. bought \in Nat /\ bought <= SymbolCap - c.held[y] - c.pending[y] - Purchased(made, {y})
      BY <1>9, <2>2
    <3> HIDE DEF bought
    <3> QED
      BY <2>1, <3>1, <3>2, LimitsAreNumbers
  <2>3. CASE ~ (y = x /\ bought > 0)
    <3>1. Purchased(more, {y}) = Purchased(made, {y})
      BY <1>7, <2>1, <2>3 DEF bought
    <3> QED
      BY <1>8, <1>11, <3>1
  <2> QED
    BY <2>2, <2>3
<1>12. ASSUME Purchased(more, Symbols) > 0
       PROVE  /\ Total(c.held, Symbols) + Total(c.pending, Symbols) + Purchased(more, Symbols) <= TotalCap
              /\ c.bought + Purchased(more, Symbols) <= DailyCap
  <2>1. Total(c.held, Symbols) \in Nat /\ Total(c.pending, Symbols) \in Nat /\ Purchased(made, Symbols) \in Nat
    BY <1>1, <1>7, SymbolSums
  <2>2. Purchased(more, Symbols) = Purchased(made, Symbols) + bought /\ bought \in Nat
    BY <1>2, <1>7 DEF bought
  <2> HIDE DEF bought
  <2>3. CASE bought > 0
    <3>1. /\ bought <= TotalCap - Total(c.held, Symbols) - Total(c.pending, Symbols) - Purchased(made, Symbols)
          /\ bought <= DailyCap - c.bought - Purchased(made, Symbols)
      BY <1>9, <2>3
    <3>2. Total(c.held, Symbols) + Total(c.pending, Symbols) + Purchased(more, Symbols) <= TotalCap
      BY <2>1, <2>2, <3>1, LimitsAreNumbers
    <3>3. c.bought + Purchased(more, Symbols) <= DailyCap
      BY <1>1, <2>1, <2>2, <3>1, LimitsAreNumbers
    <3> QED
      BY <3>2, <3>3
  <2>4. CASE ~ (bought > 0)
    <3>1. Purchased(more, Symbols) = Purchased(made, Symbols)
      BY <2>1, <2>2, <2>4
    <3> QED
      BY <1>8, <1>12, <3>1
  <2> QED
    BY <2>3, <2>4
<1>13. MadeFits(c, more)
  BY <1>10, <1>11, <1>12 DEF MadeFits
<1> QED
  BY <1>5, <1>6, <1>13

\* One more candidate, and the result still fits.
LEMMA JudgedFits ==
  ASSUME NEW c \in PlanRecords, NEW res \in Decisions(c), NEW cand \in Candidates
  PROVE  Judged(c, res, cand) \in Decisions(c)
<1> DEFINE x == cand.symbol
           room == Room(c, res.made, x)
           want == SymbolCap - c.held[x]
<1>1. /\ res \in [made : Seq(MadeOrders), short : Seq(NoteDetails)]
      /\ res.made \in Seq(MadeOrders) /\ res.short \in Seq(NoteDetails) /\ MadeFits(c, res.made)
  BY DEF Decisions
<1>2. x \in Symbols /\ c.held \in [Symbols -> Nat] /\ c.held[x] \in Nat
  BY DEF Candidates, PlanRecords
<1>3. room \in Int /\ want \in Int
  <2>1. room \in Int
    BY <1>1, <1>2, RoomIs
  <2>2. want \in Int
    BY <1>2, LimitsAreNumbers
  <2> QED
    BY <2>1, <2>2
<1>4. ASSUME NEW made \in Seq(MadeOrders), MadeFits(c, made)
      PROVE  [res EXCEPT !.made = made] \in Decisions(c)
  BY <1>1, <1>4 DEF Decisions
<1> HIDE DEF room, want
<1>5. CASE x \in c.unknown \cup c.suspended
  <2>1. Judged(c, res, cand) = [res EXCEPT !.made = Planned(c, res.made, cand, 0, "rejected")]
    BY <1>5, <1>1 DEF Judged
  <2>2. /\ Planned(c, res.made, cand, 0, "rejected") \in Seq(MadeOrders)
        /\ MadeFits(c, Planned(c, res.made, cand, 0, "rejected"))
    BY <1>1, PlannedFits
  <2> QED
    BY <1>4, <2>1, <2>2
<1>6. CASE x \notin c.unknown \cup c.suspended /\ cand.side = "sell"
  <2>1. CASE c.held[x] = 0
    BY <1>6, <2>1 DEF Judged
  <2>2. CASE c.held[x] # 0
    <3>1. Judged(c, res, cand) = [res EXCEPT !.made = Planned(c, res.made, cand, c.held[x], "planned")]
      BY <1>1, <1>6, <2>2 DEF Judged
    <3>2. /\ Planned(c, res.made, cand, c.held[x], "planned") \in Seq(MadeOrders)
          /\ MadeFits(c, Planned(c, res.made, cand, c.held[x], "planned"))
      BY <1>1, <1>2, <1>6, PlannedFits
    <3> QED
      BY <1>4, <3>1, <3>2
  <2> QED
    BY <2>1, <2>2
<1>7. CASE x \notin c.unknown \cup c.suspended /\ cand.side # "sell"
  <2>1. CASE want <= 0
    BY <1>7, <2>1 DEF Judged, want
  <2>2. CASE ~ (want <= 0) /\ room <= 0
    <3> DEFINE note == <<x, Binding(c, res.made, x)>>
    <3>1. Judged(c, res, cand) = [res EXCEPT !.short = Append(res.short, note)]
      BY <1>1, <1>7, <2>2 DEF Judged, want, room, NoRoom
    <3> QED
      <4> DEFINE s == Append(res.short, note)
                 r == [res EXCEPT !.short = s]
      <4>1. s \in Seq(NoteDetails)
        <5>1. note \in NoteDetails
          BY <1>1, <1>2, BindingIs DEF NoteDetails
        <5> HIDE DEF note
        <5> QED
          BY <1>1, <5>1
      <4> HIDE DEF note
      <4> HIDE DEF s
      <4>2. r \in [made : Seq(MadeOrders), short : Seq(NoteDetails)] /\ r.made = res.made
        BY <1>1, <4>1
      <4> HIDE DEF r
      <4>3. r \in Decisions(c)
        BY <1>1, <4>2 DEF Decisions
      <4> QED
        BY <3>1, <4>3 DEF r, s
  <2>3. CASE ~ (want <= 0) /\ ~ (room <= 0)
    <3> DEFINE q == Least({want, room})
    <3>1. Judged(c, res, cand) = [res EXCEPT !.made = Planned(c, res.made, cand, q, "planned")]
      BY <1>1, <1>7, <2>3 DEF Judged, want, room, NoRoom
    <3>2. q \in Nat /\ q <= room
      BY <1>3, <2>3, LeastOfTwo
    <3> HIDE DEF q
    <3>3. /\ Planned(c, res.made, cand, q, "planned") \in Seq(MadeOrders)
          /\ MadeFits(c, Planned(c, res.made, cand, q, "planned"))
      BY <1>1, <3>2, PlannedFits DEF room
    <3> QED
      BY <1>4, <3>1, <3>3
  <2> QED
    BY <2>1, <2>2, <2>3
<1> QED
  BY <1>5, <1>6, <1>7

\* The orders an evaluation makes fit what the plan has read.
LEMMA EvaluatedFits ==
  ASSUME NEW c \in PlanRecords
  PROVE  Evaluated(c) \in Decisions(c) /\ NoDecision \in Decisions(c)
<1> DEFINE N == Len(c.candidates)
           g == Evaluations(c)
<1>1. N \in Nat /\ \A k \in 1..N : c.candidates[k] \in Candidates
  BY DEF PlanRecords
<1>2. NoDecision \in Decisions(c)
  <2>1. MadeFits(c, <<>>)
    BY PurchasedNone DEF MadeFits
  <2>2. NoDecision = [made |-> <<>>, short |-> <<>>]
    BY DEF NoDecision
  <2> QED
    BY <2>1, <2>2 DEF Decisions
<1>3. \A n \in 0..N : g[n] \in Decisions(c)
  <2> DEFINE W == {n \in 0..N : g[n] \notin Decisions(c)}
  <2> SUFFICES ASSUME W # {} PROVE FALSE
    OBVIOUS
  <2>1. PICK n \in W : \A m \in W : n <= m
    <3>1. W \subseteq Nat /\ W # {}
      BY <1>1
    <3> HIDE DEF W
    <3> QED
      BY <3>1, SmallestNumber
  <2>2. g[0] = NoDecision /\ Evaluated(c) = g[N] /\ \A k \in 1..N : g[k] = Judged(c, g[k - 1], c.candidates[k])
    BY <1>1, EvaluationsRecur
  <2>3. n \in 0..N /\ g[n] \notin Decisions(c)
    BY <2>1
  <2> HIDE DEF g, N
  <2>4. n \in 1..N /\ n - 1 \in 0..N /\ ~ (n <= n - 1)
    <3>1. n # 0
      BY <1>2, <2>2, <2>3
    <3> QED
      BY <1>1, <2>3, <3>1
  <2>5. g[n - 1] \in Decisions(c)
    BY <2>1, <2>4
  <2> QED
    BY <1>1, <2>2, <2>3, <2>4, <2>5, JudgedFits
<1>4. Evaluated(c) = g[N]
  BY <1>1, EvaluationsRecur
<1> HIDE DEF g, N
<1> QED
  BY <1>1, <1>2, <1>3, <1>4

-----------------------------------------------------------------------------
(* What a step preserves.                                                *)

\* Numbers of the account.
LEMMA AccountNumbers ==
  ASSUME PlanTypes
  PROVE  /\ Book(rows, executed) /\ cash \in Nat /\ held \in [Symbols -> Nat]
         /\ Total(held, Symbols) \in Nat /\ \A x \in Symbols : held[x] \in Nat
         /\ (\A S : OutstandingIn(rows, executed, S) \in Nat) /\ BoughtIn(rows) \in Nat
<1>1. Book(rows, executed) /\ cash \in Nat /\ held \in [Symbols -> Nat]
  BY DEF PlanTypes
<1> QED
  BY <1>1, SymbolSums, BookNumbers

\* The orders and the account go on to fit the limits.
LEMMA LimitsSettle ==
  ASSUME PlanTypes, Book(rows', executed'), held' \in [Symbols -> Nat], Settles,
         Limits(rows, executed, held)
  PROVE  Limits(rows', executed', held')
<1>1. /\ Total(held, Symbols) \in Nat /\ \A x \in Symbols : held[x] \in Nat
      /\ (\A S : OutstandingIn(rows, executed, S) \in Nat) /\ BoughtIn(rows) \in Nat
  BY AccountNumbers
<1>2. /\ Total(held', Symbols) \in Nat /\ \A x \in Symbols : held'[x] \in Nat
      /\ (\A S : OutstandingIn(rows', executed', S) \in Nat) /\ BoughtIn(rows') \in Nat
  BY SymbolSums, BookNumbers
<1>3. ASSUME NEW x \in Symbols, OutstandingIn(rows', executed', {x}) > 0
      PROVE  held'[x] + OutstandingIn(rows', executed', {x}) <= SymbolCap
  <2> DEFINE a == OutstandingIn(rows, executed, {x})
             b == OutstandingIn(rows', executed', {x})
  <2>1. a \in Nat /\ b \in Nat /\ b > 0 /\ b <= a /\ held'[x] + b <= held[x] + a
    BY <1>1, <1>2, <1>3 DEF Settles
  <2>2. a > 0 => held[x] + a <= SymbolCap
    BY DEF Limits
  <2>3. held[x] \in Nat /\ held'[x] \in Nat
    BY <1>1, <1>2
  <2> HIDE DEF a, b
  <2>4. held'[x] + b <= SymbolCap
    BY <2>1, <2>2, <2>3, LimitsAreNumbers
  <2> QED
    BY <2>4 DEF b
<1>4. ASSUME OutstandingIn(rows', executed', Symbols) > 0
      PROVE  Total(held', Symbols) + OutstandingIn(rows', executed', Symbols) <= TotalCap
  <2> DEFINE a == OutstandingIn(rows, executed, Symbols)
             b == OutstandingIn(rows', executed', Symbols)
  <2>1. a \in Nat /\ b \in Nat /\ b > 0 /\ b <= a
        /\ Total(held', Symbols) + b <= Total(held, Symbols) + a
    BY <1>1, <1>2, <1>4 DEF Settles
  <2>2. a > 0 => Total(held, Symbols) + a <= TotalCap
    BY DEF Limits
  <2> HIDE DEF a, b
  <2>3. Total(held', Symbols) + b <= TotalCap
    BY <1>1, <1>2, <2>1, <2>2, LimitsAreNumbers
  <2> QED
    BY <2>3 DEF b
<1>5. BoughtIn(rows') <= DailyCap
  <2>1. BoughtIn(rows') <= BoughtIn(rows) /\ BoughtIn(rows) <= DailyCap
    BY DEF Settles, Limits
  <2> QED
    BY <1>1, <1>2, <2>1, LimitsAreNumbers
<1> QED
  BY <1>3, <1>4, <1>5 DEF Limits

\* What a plan read after its last reading of the orders, or before its first, goes on to
\* cover the account and the orders; between them, what it has missed matters.
LEMMA ReadsSettle ==
  ASSUME PlanTypes, Book(rows', executed'), held' \in [Symbols -> Nat], Settles,
         NEW c \in PlanRecords, NEW d \in PlanRecords, ReadsFit(c, rows, executed, held),
         d.at = c.at, d.held = c.held, d.pending = c.pending, d.bought = c.bought,
         c.at \in {"counters", "recent", "quotes", "pending"} =>
           /\ d.fresh \subseteq OpenIn(rows')
           /\ \A x \in Symbols : held'[x] <= d.held[x] + StillPending(d.fresh, rows', executed', x)
  PROVE  ReadsFit(d, rows', executed', held')
<1>1. /\ Total(held, Symbols) \in Nat /\ \A x \in Symbols : held[x] \in Nat
      /\ (\A S : OutstandingIn(rows, executed, S) \in Nat) /\ BoughtIn(rows) \in Nat
  BY AccountNumbers
<1>2. /\ Total(held', Symbols) \in Nat /\ \A x \in Symbols : held'[x] \in Nat
      /\ (\A S : OutstandingIn(rows', executed', S) \in Nat) /\ BoughtIn(rows') \in Nat
  BY SymbolSums, BookNumbers
<1>3. c.bought \in Nat /\ c.held \in [Symbols -> Nat] /\ c.pending \in [Symbols -> Nat]
  BY DEF PlanRecords
<1>4. /\ Total(c.held, Symbols) \in Nat /\ Total(c.pending, Symbols) \in Nat
      /\ \A x \in Symbols : c.held[x] \in Nat /\ c.pending[x] \in Nat
  BY <1>3, SymbolSums
<1>5. ASSUME c.at \in {"failures", "pause", "note", "write"}
      PROVE  /\ \A x \in Symbols : held'[x] + OutstandingIn(rows', executed', {x}) <= c.held[x] + c.pending[x]
             /\ Total(held', Symbols) + OutstandingIn(rows', executed', Symbols)
                  <= Total(c.held, Symbols) + Total(c.pending, Symbols)
  <2>1. ASSUME NEW x \in Symbols
        PROVE  held'[x] + OutstandingIn(rows', executed', {x}) <= c.held[x] + c.pending[x]
    <3> DEFINE a == held[x] + OutstandingIn(rows, executed, {x})
               b == held'[x] + OutstandingIn(rows', executed', {x})
               m == c.held[x] + c.pending[x]
    <3>1. b <= a /\ a <= m
      BY <1>5 DEF Settles, ReadsFit
    <3>2. a \in Nat /\ b \in Nat /\ m \in Nat
      BY <1>1, <1>2, <1>4
    <3> HIDE DEF a, b, m
    <3>3. b <= m
      BY <3>1, <3>2
    <3> QED
      BY <3>3 DEF b, m
  <2>2. Total(held', Symbols) + OutstandingIn(rows', executed', Symbols)
          <= Total(c.held, Symbols) + Total(c.pending, Symbols)
    <3> DEFINE a == Total(held, Symbols) + OutstandingIn(rows, executed, Symbols)
               b == Total(held', Symbols) + OutstandingIn(rows', executed', Symbols)
               m == Total(c.held, Symbols) + Total(c.pending, Symbols)
    <3>1. b <= a /\ a <= m
      BY <1>5 DEF Settles, ReadsFit
    <3>2. a \in Nat /\ b \in Nat /\ m \in Nat
      BY <1>1, <1>2, <1>4
    <3> HIDE DEF a, b, m
    <3>3. b <= m
      BY <3>1, <3>2
    <3> QED
      BY <3>3 DEF b, m
  <2> QED
    BY <2>1, <2>2
<1>6. ASSUME c.at \in {"recent", "quotes", "pending", "failures", "pause", "note", "write"}
      PROVE  BoughtIn(rows') <= c.bought
  <2>1. BoughtIn(rows') <= BoughtIn(rows) /\ BoughtIn(rows) <= c.bought
    BY <1>6 DEF Settles, ReadsFit
  <2> QED
    BY <1>1, <1>2, <1>3, <2>1
<1> QED
  BY <1>5, <1>6 DEF ReadsFit

\* The net asset value stays.
LEMMA AccountSettles ==
  ASSUME PlanTypes, AccountFits, Settles
  PROVE  AccountFits'
<1>1. cash' + Total(held', Symbols) = cash + Total(held, Symbols)
  BY DEF Settles
<1>2. AccountFits' <=> TotalCap + MinCash <= cash' + Total(held', Symbols)
  BY DEF AccountFits
<1> QED
  BY <1>1, <1>2 DEF AccountFits

\* A step of one plan that leaves the orders and the account alone.
PlanGoes(p, r) ==
  /\ r \in PlanRecords /\ plan' = [plan EXCEPT ![p] = r]
  /\ rows' = rows /\ executed' = executed /\ cash' = cash /\ held' = held
  /\ resumedAt' = resumedAt /\ missed' = missed /\ (overlapped => overlapped')
  /\ switch' \in AutomationState /\ clock' \in Nat /\ failures' \in Nat /\ notes' \in [NoteDetails -> Nat]
  /\ r.at \notin {"idle", "holdings"} /\ ~ overlapped' =>
       AtWork(p) \/ \A o \in Planners \ {p} : ~ AtWork(o)

\* Everything but the notes.
LEMMA PlanGoesOn ==
  ASSUME PlanInvariant, NEW p \in Planners, NEW r, PlanGoes(p, r), PlanFits(r, rows, resumedAt),
         ~ overlapped' /\ ~ missed => ReadsFit(r, rows, executed, held)
  PROVE  PlanTypes' /\ OneAtATime' /\ AccountFits' /\ PlansFit' /\ LedgerFits'
<1>1. plan \in [Planners -> PlanRecords]
  BY DEF PlanInvariant, PlanTypes
<1>2. /\ plan' \in [Planners -> PlanRecords] /\ plan'[p] = r
      /\ \A q \in Planners \ {p} : plan'[q] = plan[q]
  BY <1>1 DEF PlanGoes
<1>3. /\ rows' = rows /\ executed' = executed /\ cash' = cash /\ held' = held
      /\ resumedAt' = resumedAt /\ missed' = missed /\ (overlapped => overlapped')
  BY DEF PlanGoes
<1>4. PlanTypes'
  BY <1>2, <1>3 DEF PlanInvariant, PlanTypes, PlanGoes
<1>5. OneAtATime'
  <2> SUFFICES ASSUME ~ overlapped', NEW o \in Planners, NEW q \in Planners, AtWork(o)', AtWork(q)'
               PROVE  o = q
    BY DEF OneAtATime
  <2>1. ~ overlapped /\ \A u, v \in Planners : AtWork(u) /\ AtWork(v) => u = v
    BY <1>3 DEF PlanInvariant, OneAtATime
  <2>2. \A u \in Planners \ {p} : AtWork(u)' => AtWork(u)
    BY <1>2 DEF AtWork
  <2>3. AtWork(p)' => AtWork(p) \/ \A u \in Planners \ {p} : ~ AtWork(u)
    BY <1>2 DEF AtWork, PlanGoes
  <2> QED
    BY <2>1, <2>2, <2>3
<1>6. AccountFits'
  BY <1>3 DEF PlanInvariant, AccountFits
<1>7. PlansFit'
  <2> SUFFICES ASSUME NEW q \in Planners PROVE PlanFits(plan'[q], rows, resumedAt)
    BY <1>3 DEF PlansFit
  <2> QED
    BY <1>2 DEF PlanInvariant, PlansFit
<1>8. LedgerFits'
  <2> SUFFICES ASSUME ~ overlapped', ~ missed'
               PROVE  /\ Limits(rows, executed, held)
                      /\ \A q \in Planners : ReadsFit(plan'[q], rows, executed, held)
    BY <1>3 DEF LedgerFits
  <2>1. Limits(rows, executed, held) /\ \A q \in Planners : ReadsFit(plan[q], rows, executed, held)
    BY <1>3 DEF PlanInvariant, LedgerFits
  <2> QED
    BY <1>2, <1>3, <2>1
<1> QED
  BY <1>4, <1>5, <1>6, <1>7, <1>8

\* The notes, when none is written.
LEMMA NotesStay ==
  ASSUME PlanInvariant, NEW p \in Planners, NEW r, PlanGoes(p, r), notes' = notes,
         r.at = "write" => r.short # <<>> /\ (~ overlapped' => notes[Head(r.short)] = 0)
  PROVE  NotesFit'
<1>1. plan \in [Planners -> PlanRecords] /\ (overlapped => overlapped') /\ plan' = [plan EXCEPT ![p] = r]
  BY DEF PlanInvariant, PlanTypes, PlanGoes
<1>2. plan'[p] = r /\ \A q \in Planners \ {p} : plan'[q] = plan[q]
  BY <1>1
<1>3. /\ \A q \in Planners :
           plan[q].at = "write" => plan[q].short # <<>> /\ (~ overlapped => notes[Head(plan[q].short)] = 0)
      /\ ~ overlapped => \A d \in NoteDetails : notes[d] <= 1
  BY DEF PlanInvariant, NotesFit
<1>4. \A q \in Planners :
        plan'[q].at = "write" => plan'[q].short # <<>> /\ (~ overlapped' => notes[Head(plan'[q].short)] = 0)
  BY <1>1, <1>2, <1>3
<1> QED
  BY <1>1, <1>3, <1>4 DEF NotesFit

-----------------------------------------------------------------------------
(* The steps of a plan that leave the orders alone.                      *)

\* A process without a plan.
LEMMA IdleIs == Idle \in PlanRecords /\ Idle.at = "idle" /\ Idle.fresh = {}
<1>1. NoShares \in [Symbols -> Nat]
  BY DEF NoShares
<1> QED
  BY <1>1 DEF Idle, PlanRecords, Places

\* What is known of the record of a plan.
LEMMA PlanRecordOf ==
  ASSUME PlanInvariant, NEW p \in Planners
  PROVE  /\ plan[p] \in PlanRecords /\ PlanFits(plan[p], rows, resumedAt)
         /\ plan[p].at \in {"idle", "holdings", "blocked", "snapshot"} => plan[p].fresh = {}
         /\ switch \in AutomationState /\ clock \in Nat /\ failures \in Nat /\ notes \in [NoteDetails -> Nat]
         /\ resumedAt \in Nat
<1>1. plan[p] \in PlanRecords
  BY DEF PlanInvariant, PlanTypes
<1>2. PlanFits(plan[p], rows, resumedAt)
  BY DEF PlanInvariant, PlansFit
<1> QED
  BY <1>1, <1>2 DEF PlanInvariant, PlanTypes, PlanFits

\* A plan that is over or has not read the account yet.
LEMMA PlanRests ==
  ASSUME PlanInvariant, NEW p \in Planners, NEW r, PlanGoes(p, r), notes' = notes,
         r.at \in {"idle", "holdings", "blocked", "snapshot"}, r.fresh = {}
  PROVE  PlanInvariant'
<1>1. PlanFits(r, rows, resumedAt) /\ ReadsFit(r, rows, executed, held) /\ r.at # "write"
  BY DEF PlanFits, ReadsFit
<1> QED
  BY <1>1, PlanGoesOn, NotesStay DEF PlanInvariant

\* A plan that is given up or ends without an order.
LEMMA PlanEnds ==
  ASSUME PlanInvariant, NEW p \in Planners, plan' = [plan EXCEPT ![p] = Idle],
         UNCHANGED <<switch, resumedAt, clock, notes, rows, accountVars, overlapped, missed>>,
         failures' \in Nat
  PROVE  PlanInvariant'
<1>1. PlanGoes(p, Idle)
  BY IdleIs, PlanRecordOf DEF PlanGoes, accountVars
<1> QED
  BY <1>1, IdleIs, PlanRests

\* A plan begins.
LEMMA BeginKeeps ==
  ASSUME PlanInvariant, NEW p \in Planners, plan[p].at \in {"idle", "holdings"},
         NEW strategy \in {"signal", "manual"}, NEW candidates \in Seq(Candidates),
         Begin(p, strategy, candidates)
  PROVE  PlanInvariant'
<1> DEFINE r == [plan[p] EXCEPT !.at = IF switch = "running" THEN "snapshot" ELSE "blocked",
                                !.strategy = strategy, !.candidates = candidates, !.now = clock]
<1>1. plan[p] \in PlanRecords /\ plan[p].fresh = {} /\ switch \in AutomationState /\ clock \in Nat
      /\ failures \in Nat /\ notes \in [NoteDetails -> Nat]
  BY PlanRecordOf
<1>2. r \in PlanRecords /\ r.fresh = {} /\ r.at \in {"blocked", "snapshot"}
  BY <1>1 DEF PlanRecords, Places
<1>3. plan' = [plan EXCEPT ![p] = r] /\ notes' = notes
  BY DEF Begin, ruleVars
<1>4. clock + 1 \in Nat
  BY <1>1
<1> HIDE DEF r
<1>5. PlanGoes(p, r)
  BY <1>1, <1>2, <1>3, <1>4 DEF PlanGoes, Begin, accountVars
<1> QED
  BY <1>2, <1>3, <1>5, PlanRests

\* A person asks for a plan.
LEMMA StartManualKeeps ==
  ASSUME PlanInvariant, NEW p \in Planners, NEW x \in Symbols, NEW side \in {"buy", "sell"},
         StartManual(p, x, side)
  PROVE  PlanInvariant'
<1>1. Candidate(x, side) \in Candidates
  BY DEF Candidate, Candidates
<1>2. <<Candidate(x, side)>> \in Seq(Candidates)
  BY <1>1
<1> QED
  BY <1>2, BeginKeeps DEF StartManual

\* The scheduled job asks for a plan.
LEMMA StartSignalKeeps ==
  ASSUME PlanInvariant, NEW p \in Planners, StartSignal(p)
  PROVE  PlanInvariant'
<1> DEFINE r == [plan[p] EXCEPT !.at = "holdings"]
<1>1. plan[p] \in PlanRecords /\ plan[p].fresh = {}
  BY PlanRecordOf DEF StartSignal
<1>2. r \in PlanRecords /\ r.fresh = {} /\ r.at = "holdings"
  BY <1>1 DEF PlanRecords, Places
<1>3. plan' = [plan EXCEPT ![p] = r] /\ notes' = notes
  BY DEF StartSignal, ruleVars
<1> HIDE DEF r
<1>4. PlanGoes(p, r)
  BY <1>2, <1>3, PlanRecordOf DEF PlanGoes, StartSignal, ruleVars, accountVars, historyVars
<1> QED
  BY <1>2, <1>3, <1>4, PlanRests

\* The holdings are fetched, and the plan begins unless there is no candidate.
LEMMA HoldingsKeeps ==
  ASSUME PlanInvariant, NEW p \in Planners, Holdings(p)
  PROVE  PlanInvariant'
<1> DEFINE c == SignalCandidates({x \in Symbols : held[x] > 0})
<1>1. c \in Seq(Candidates)
  BY SignalCandidatesType
<1>2. CASE c = <<>>
  BY <1>2, PlanRecordOf, PlanEnds DEF Holdings, ruleVars, historyVars
<1>3. CASE c # <<>>
  <2>1. Begin(p, "signal", c) /\ plan[p].at = "holdings"
    BY <1>3 DEF Holdings
  <2> HIDE DEF c
  <2> QED
    BY <1>1, <2>1, BeginKeeps
<1> QED
  BY <1>2, <1>3

\* A call of the broker fails.
LEMMA CallFailsKeeps ==
  ASSUME PlanInvariant, NEW p \in Planners, CallFails(p)
  PROVE  PlanInvariant'
<1>1. failures' \in Nat
  BY PlanRecordOf DEF CallFails
<1> QED
  BY <1>1, PlanEnds DEF CallFails

\* A plan that a stopped switch blocked.
LEMMA SaveBlockedKeeps ==
  ASSUME PlanInvariant, NEW p \in Planners, SaveBlocked(p)
  PROVE  PlanInvariant'
  BY PlanRecordOf, PlanEnds DEF SaveBlocked, ruleVars, historyVars

\* A plan at work goes from one reading to the next.
LEMMA ReadingGoes ==
  ASSUME PlanInvariant, NEW p \in Planners, NEW r \in PlanRecords, plan' = [plan EXCEPT ![p] = r],
         UNCHANGED <<ruleVars, rows, accountVars, historyVars>>, AtWork(p), r.at # "write"
  PROVE  /\ PlanGoes(p, r)
         /\ PlanFits(r, rows, resumedAt)
            /\ (~ overlapped /\ ~ missed => ReadsFit(r, rows, executed, held)) => PlanInvariant'
<1>1. PlanGoes(p, r) /\ notes' = notes /\ overlapped' = overlapped
  BY PlanRecordOf DEF PlanGoes, ruleVars, accountVars, historyVars
<1> QED
  BY <1>1, PlanGoesOn, NotesStay DEF PlanInvariant
\* What a plan has missed is a number of shares.
LEMMA StillNumbers ==
  ASSUME NEW stored, NEW done, Book(stored, done), NEW fresh, NEW x
  PROVE  /\ \A i \in DOMAIN stored : StillOf(fresh, stored, done, x)[i] \in Nat
         /\ StillPending(fresh, stored, done, x) \in Nat
<1>1. \A i \in DOMAIN stored : /\ stored[i].filled \in Nat /\ done[i] \in Nat
                               /\ stored[i].filled <= done[i]
  BY DEF Book, OrderRow
<1>2. IsFiniteSet(DOMAIN stored)
  BY DEF Book
<1>3. \A i \in DOMAIN stored : StillOf(fresh, stored, done, x)[i] \in Nat
  BY <1>1 DEF StillOf
<1> QED
  BY <1>2, <1>3, SumNat DEF StillPending

\* The account is read.
LEMMA SnapshotKeeps ==
  ASSUME PlanInvariant, NEW p \in Planners, Snapshot(p)
  PROVE  PlanInvariant'
<1> DEFINE r == [plan[p] EXCEPT !.at = "counters", !.cash = cash, !.held = held]
<1>1. plan[p] \in PlanRecords /\ plan[p].fresh = {} /\ AtWork(p)
  BY PlanRecordOf DEF Snapshot, AtWork
<1>2. Book(rows, executed) /\ cash \in Nat /\ held \in [Symbols -> Nat] /\ \A x \in Symbols : held[x] \in Nat
  BY AccountNumbers DEF PlanInvariant
<1>3. r \in PlanRecords /\ r.fresh = {} /\ r.at = "counters" /\ r.held = held
  BY <1>1, <1>2 DEF PlanRecords, Places
<1>4. plan' = [plan EXCEPT ![p] = r] /\ UNCHANGED <<ruleVars, rows, accountVars, historyVars>>
  BY DEF Snapshot
<1> HIDE DEF r
<1>5. PlanFits(r, rows, resumedAt)
  BY <1>3 DEF PlanFits
<1>6. ReadsFit(r, rows, executed, held)
  <2>1. \A x \in Symbols : held[x] <= held[x] + StillPending({}, rows, executed, x)
    <3> SUFFICES ASSUME NEW x \in Symbols PROVE held[x] <= held[x] + StillPending({}, rows, executed, x)
      OBVIOUS
    <3>1. StillPending({}, rows, executed, x) \in Nat
      BY <1>2, StillNumbers
    <3> QED
      BY <1>2, <3>1
  <2> QED
    BY <1>3, <2>1 DEF ReadsFit
<1> QED
  BY <1>1, <1>3, <1>4, <1>5, <1>6, ReadingGoes

\* A plan that goes on reading: what it has read of the account is what it was.
LEMMA ReadGoesOn ==
  ASSUME PlanInvariant, NEW p \in Planners, plan[p].at \in {"counters", "recent", "quotes", "pending"},
         NEW r \in PlanRecords, r.fresh = plan[p].fresh, r.held = plan[p].held
  PROVE  ~ overlapped /\ ~ missed =>
           /\ r.fresh \subseteq OpenIn(rows)
           /\ \A x \in Symbols : held[x] <= r.held[x] + StillPending(r.fresh, rows, executed, x)
  BY DEF PlanInvariant, LedgerFits, ReadsFit

\* The stored orders are counted.
LEMMA CountOrdersKeeps ==
  ASSUME PlanInvariant, NEW p \in Planners, CountOrders(p)
  PROVE  PlanInvariant'
<1> DEFINE open == Cardinality(Ids(OpenStates))
           attempts == Cardinality(DOMAIN rows)
           r == [plan[p] EXCEPT !.at = "recent", !.open = open, !.attempts = attempts, !.bought = Bought]
<1>1. plan[p] \in PlanRecords /\ plan[p].at = "counters" /\ AtWork(p)
  BY PlanRecordOf DEF CountOrders, AtWork
<1>2. Book(rows, executed) /\ BoughtIn(rows) \in Nat /\ IsFiniteSet(DOMAIN rows)
  BY AccountNumbers DEF PlanInvariant, Book
<1>3. Bought \in Nat /\ Bought = BoughtIn(rows)
  BY <1>2, SumsOfBook DEF BoughtIn
<1>4. open \in Nat /\ attempts \in Nat
  <2>1. Ids(OpenStates) \subseteq DOMAIN rows
    BY DEF Ids
  <2> QED
    BY <1>2, <2>1, FS_Subset, FS_CardinalityType
<1> HIDE DEF open, attempts
<1>5. r \in PlanRecords /\ r.at = "recent" /\ r.bought = Bought /\ r.fresh = plan[p].fresh
      /\ r.held = plan[p].held
  BY <1>1, <1>3, <1>4 DEF PlanRecords, Places
<1>6. plan' = [plan EXCEPT ![p] = r] /\ UNCHANGED <<ruleVars, rows, accountVars, historyVars>>
  BY DEF CountOrders, open, attempts
<1> HIDE DEF r
<1>7. PlanFits(r, rows, resumedAt)
  BY <1>5 DEF PlanFits
<1>8. ~ overlapped /\ ~ missed => ReadsFit(r, rows, executed, held)
  <2>1. ~ overlapped /\ ~ missed =>
           /\ r.fresh \subseteq OpenIn(rows)
           /\ \A x \in Symbols : held[x] <= r.held[x] + StillPending(r.fresh, rows, executed, x)
    BY <1>1, <1>5, ReadGoesOn
  <2>2. BoughtIn(rows) <= r.bought
    BY <1>2, <1>3, <1>5
  <2> QED
    BY <1>5, <2>1, <2>2 DEF ReadsFit
<1> QED
  BY <1>1, <1>5, <1>6, <1>7, <1>8, ReadingGoes

\* The recent rejections are counted.
LEMMA CountRejectsKeeps ==
  ASSUME PlanInvariant, NEW p \in Planners, CountRejects(p)
  PROVE  PlanInvariant'
<1> DEFINE r == [plan[p] EXCEPT !.at = "quotes", !.rejects = Rejects]
<1>1. plan[p] \in PlanRecords /\ plan[p].at = "recent" /\ AtWork(p)
  BY PlanRecordOf DEF CountRejects, AtWork
<1>2. Book(rows, executed) /\ IsFiniteSet(DOMAIN rows)
  BY AccountNumbers DEF PlanInvariant, Book
<1>3. Rejects \in Nat /\ Rejects <= Cardinality(RejectedSince(rows, resumedAt))
  <2> DEFINE R == {i \in Recent : /\ rows[i].state = "rejected"
                                  /\ \A j \in Recent : Newer(j, i) => rows[j].state = "rejected"}
  <2>1. R \subseteq RejectedSince(rows, resumedAt) /\ RejectedSince(rows, resumedAt) \subseteq DOMAIN rows
    BY DEF Recent, RejectedSince
  <2>2. Rejects = Cardinality(R)
    BY DEF Rejects
  <2> HIDE DEF R
  <2> QED
    BY <1>2, <2>1, <2>2, FS_Subset, FS_CardinalityType
<1>4. r \in PlanRecords /\ r.at = "quotes" /\ r.bought = plan[p].bought /\ r.fresh = plan[p].fresh
      /\ r.held = plan[p].held /\ r.rejects = Rejects
  BY <1>1, <1>3 DEF PlanRecords, Places
<1>5. plan' = [plan EXCEPT ![p] = r] /\ UNCHANGED <<ruleVars, rows, accountVars, historyVars>>
  BY DEF CountRejects
<1> HIDE DEF r
<1>6. PlanFits(r, rows, resumedAt)
  BY <1>3, <1>4 DEF PlanFits
<1>7. ~ overlapped /\ ~ missed => ReadsFit(r, rows, executed, held)
  <2>1. ~ overlapped /\ ~ missed =>
           /\ r.fresh \subseteq OpenIn(rows)
           /\ \A x \in Symbols : held[x] <= r.held[x] + StillPending(r.fresh, rows, executed, x)
    BY <1>1, <1>4, ReadGoesOn
  <2>2. ~ overlapped /\ ~ missed => BoughtIn(rows) <= r.bought
    BY <1>1, <1>4 DEF PlanInvariant, LedgerFits, ReadsFit
  <2> QED
    BY <1>4, <2>1, <2>2 DEF ReadsFit
<1> QED
  BY <1>1, <1>4, <1>5, <1>6, <1>7, ReadingGoes

\* The quotes are read.
LEMMA QuotesKeeps ==
  ASSUME PlanInvariant, NEW p \in Planners, NEW unknown \in SUBSET Symbols, NEW suspended \in SUBSET Symbols,
         Quotes(p, unknown, suspended)
  PROVE  PlanInvariant'
<1> DEFINE r == [plan[p] EXCEPT !.at = "pending", !.unknown = unknown, !.suspended = suspended]
<1>1. plan[p] \in PlanRecords /\ plan[p].at = "quotes" /\ AtWork(p) /\ PlanFits(plan[p], rows, resumedAt)
  BY PlanRecordOf DEF Quotes, AtWork
<1>2. r \in PlanRecords /\ r.at = "pending" /\ r.bought = plan[p].bought /\ r.fresh = plan[p].fresh
      /\ r.held = plan[p].held /\ r.rejects = plan[p].rejects /\ r.resumed = plan[p].resumed
  BY <1>1 DEF PlanRecords, Places
<1>3. plan' = [plan EXCEPT ![p] = r] /\ UNCHANGED <<ruleVars, rows, accountVars, historyVars>>
  BY DEF Quotes
<1> HIDE DEF r
<1>4. PlanFits(r, rows, resumedAt)
  BY <1>1, <1>2 DEF PlanFits
<1>5. ~ overlapped /\ ~ missed => ReadsFit(r, rows, executed, held)
  <2>1. ~ overlapped /\ ~ missed =>
           /\ r.fresh \subseteq OpenIn(rows)
           /\ \A x \in Symbols : held[x] <= r.held[x] + StillPending(r.fresh, rows, executed, x)
    BY <1>1, <1>2, ReadGoesOn
  <2>2. ~ overlapped /\ ~ missed => BoughtIn(rows) <= r.bought
    BY <1>1, <1>2 DEF PlanInvariant, LedgerFits, ReadsFit
  <2> QED
    BY <1>2, <2>1, <2>2 DEF ReadsFit
<1> QED
  BY <1>1, <1>2, <1>3, <1>4, <1>5, ReadingGoes
\* Two sums are added up member by member.
LEMMA SumPlus ==
  ASSUME NEW f, NEW g, NEW h, NEW S, IsFiniteSet(S),
         \A x \in S : f[x] \in Int /\ g[x] \in Int /\ h[x] = f[x] + g[x]
  PROVE  Total(h, S) = Total(f, S) + Total(g, S)
<1> DEFINE W == {T \in SUBSET S : Total(h, T) # Total(f, T) + Total(g, T)}
<1>1. SUFFICES ASSUME W # {} PROVE FALSE
  OBVIOUS
<1>2. PICK T \in W : \A U \in SUBSET T : U # T => U \notin W
  <2>1. W \subseteq SUBSET S /\ W # {} /\ IsFiniteSet(S)
    BY <1>1
  <2> HIDE DEF W
  <2> QED
    BY <2>1, SmallestSubset
<1>3. T # {}
  <2>1. Total(h, {}) = 0 /\ Total(f, {}) = 0 /\ Total(g, {}) = 0
    BY SumEmpty
  <2>2. Total(h, T) # Total(f, T) + Total(g, T)
    BY <1>2
  <2> HIDE DEF W
  <2>3. T = {} => Total(h, T) = 0 /\ Total(f, T) = 0 /\ Total(g, T) = 0
    BY <2>1
  <2> QED
    BY <2>2, <2>3
<1> DEFINE e == Picked(T)
           Q == T \ {e}
<1>4. e \in T /\ e \in S /\ IsFiniteSet(T) /\ Q \in SUBSET S /\ Q \in SUBSET T /\ Q # T
  BY <1>2, <1>3, PickedIsIn, FS_Subset
<1>5. Total(h, Q) = Total(f, Q) + Total(g, Q)
  BY <1>2, <1>4
<1>6. /\ Total(h, T) = h[e] + Total(h, Q) /\ Total(f, T) = f[e] + Total(f, Q)
      /\ Total(g, T) = g[e] + Total(g, Q)
  BY <1>3, <1>4, SumPicked
<1>7. f[e] \in Int /\ g[e] \in Int /\ h[e] = f[e] + g[e] /\ Total(f, Q) \in Int /\ Total(g, Q) \in Int
  <2> HIDE DEF e, Q
  <2>1. IsFiniteSet(Q) /\ (\A x \in Q : f[x] \in Int) /\ \A x \in Q : g[x] \in Int
    BY <1>4, FS_Subset
  <2> QED
    BY <1>4, <2>1, SumType
<1>8. Total(h, T) = Total(f, T) + Total(g, T)
  <2> HIDE DEF e, Q
  <2> QED
    BY <1>5, <1>6, <1>7
<1> QED
  BY <1>2, <1>8

\* What the symbols may still buy is what all may still buy.
LEMMA OutstandingBySymbol ==
  ASSUME NEW stored, NEW done, Book(stored, done),
         NEW g, \A x \in Symbols : g[x] = OutstandingIn(stored, done, {x})
  PROVE  Total(g, Symbols) = OutstandingIn(stored, done, Symbols)
<1> DEFINE D == DOMAIN stored
           f == OutOf(stored, done, Symbols)
           key == [i \in D |-> i.symbol]
<1>1. IsFiniteSet(D) /\ \A i \in D : i.symbol \in Symbols
  BY DEF Book, OrderId
<1>2. \A i \in D : f[i] \in Nat /\ f[i] \in Int
  <2>1. \A i \in DOMAIN stored : OutOf(stored, done, Symbols)[i] \in Nat
    BY BookSums
  <2> QED
    BY <2>1
<1>3. ASSUME NEW x \in Symbols
      PROVE  g[x] = Total(f, Keyed(D, key, {x}))
  <2> DEFINE one == OutOf(stored, done, {x})
             R == Keyed(D, key, {x})
  <2>1. /\ R \in SUBSET D /\ (\A i \in R : one[i] = f[i] /\ f[i] \in Int)
        /\ \A i \in D \ R : one[i] = 0
    BY <1>1, <1>2 DEF OutOf, Keyed
  <2>2. g[x] = Total(one, D)
    BY DEF OutstandingIn
  <2> HIDE DEF one, R, f, D, key
  <2>3. Total(f, R) = Total(one, D)
    BY <1>1, <2>1, SumWithin
  <2> QED
    BY <2>2, <2>3 DEF R
<1>4. Keyed(D, key, Symbols) = D
  BY <1>1 DEF Keyed
<1>5. OutstandingIn(stored, done, Symbols) = Total(f, D)
  BY DEF OutstandingIn
<1> HIDE DEF D, f, key
<1>6. Total(g, Symbols) = Total(f, Keyed(D, key, Symbols))
  <2>1. \A i \in D : f[i] \in Int
    BY <1>2
  <2>2. AddedByKey(g, f, D, key, Symbols)
    BY <1>3 DEF AddedByKey
  <2>3. IsFiniteSet(D) /\ IsFiniteSet(Symbols)
    BY <1>1, SymbolsFinite
  <2> QED
    BY <2>1, <2>2, <2>3, SumByKey
<1> QED
  BY <1>4, <1>5, <1>6

\* Shares of x that are not recorded yet, order by order.
PendOf(stored, x) ==
  [i \in DOMAIN stored |->
     IF stored[i].state \in PendingStates /\ i.symbol = x THEN stored[i].quantity - stored[i].filled ELSE 0]

\* What is found as pending covers what may still be bought and what was missed.
LEMMA PendingCovers ==
  ASSUME Book(rows, executed), NEW fresh, fresh \subseteq OpenIn(rows), NEW x
  PROVE  /\ PendingOf(x) \in Nat
         /\ StillPending(fresh, rows, executed, x) + OutstandingIn(rows, executed, {x}) <= PendingOf(x)
<1> DEFINE D == DOMAIN rows
           f == NotRecorded
           R == {i \in Ids(PendingStates) : i.symbol = x}
           g == PendOf(rows, x)
           s == StillOf(fresh, rows, executed, x)
           o == OutOf(rows, executed, {x})
           h == [i \in D |-> s[i] + o[i]]
<1>1. \A i \in D : /\ rows[i].quantity \in Nat /\ rows[i].filled \in Nat /\ executed[i] \in Nat
                   /\ rows[i].filled <= executed[i] /\ executed[i] <= rows[i].quantity
  BY DEF Book, OrderRow
<1>2. IsFiniteSet(D)
  BY DEF Book
<1>3. /\ R \in SUBSET D /\ (\A i \in R : g[i] = f[i] /\ f[i] \in Int)
      /\ (\A i \in D \ R : g[i] = 0) /\ \A i \in D : g[i] \in Nat /\ g[i] \in Int
  BY <1>1 DEF Ids, NotRecorded, PendOf
<1>4. PendingOf(x) = Total(f, R)
  BY PlanSumsAreTotals DEF PendingOf
<1>5. \A i \in D : s[i] \in Nat /\ o[i] \in Nat
  BY StillNumbers, BookSums
<1>6. \A i \in D : i \in fresh => rows[i].state \in PendingStates
  BY DEF OpenIn, PendingStates
<1>7. ASSUME NEW i \in D PROVE s[i] + o[i] <= g[i]
  <2>1. s[i] = IF i \in fresh /\ i.side = "buy" /\ i.symbol = x THEN executed[i] - rows[i].filled ELSE 0
    BY DEF StillOf
  <2>2. o[i] = IF rows[i].state \in PendingStates /\ i.side = "buy" /\ i.symbol = x
               THEN rows[i].quantity - executed[i] ELSE 0
    BY DEF OutOf
  <2>3. g[i] = IF rows[i].state \in PendingStates /\ i.symbol = x
               THEN rows[i].quantity - rows[i].filled ELSE 0
    BY DEF PendOf
  <2> HIDE DEF s, o, g
  <2> QED
    BY <1>1, <1>6, <2>1, <2>2, <2>3
<1>8. \A i \in D : h[i] = s[i] + o[i]
  OBVIOUS
<1>9. StillPending(fresh, rows, executed, x) = Total(s, D) /\ OutstandingIn(rows, executed, {x}) = Total(o, D)
  BY DEF StillPending, OutstandingIn
<1> HIDE DEF D, f, R, g, s, o, h
<1>10. Total(f, R) = Total(g, D) /\ Total(g, D) \in Nat
  BY <1>2, <1>3, SumWithin, SumNat
<1>11. \A i \in D : s[i] \in Int /\ o[i] \in Int /\ h[i] \in Int /\ g[i] \in Int /\ h[i] <= g[i]
  BY <1>3, <1>5, <1>7, <1>8
<1>12. Total(h, D) = Total(s, D) + Total(o, D)
  BY <1>2, <1>8, <1>11, SumPlus
<1>13. Total(h, D) <= Total(g, D)
  BY <1>2, <1>11, SumGrows
<1> QED
  BY <1>4, <1>9, <1>10, <1>12, <1>13

\* The pending orders are read, the last of the readings about orders.
LEMMA PendingKeeps ==
  ASSUME PlanInvariant, NEW p \in Planners, Pending(p)
  PROVE  PlanInvariant'
<1> DEFINE q == [x \in Symbols |-> PendingOf(x)]
           r == [plan[p] EXCEPT !.at = "failures", !.pending = q]
<1>1. plan[p] \in PlanRecords /\ plan[p].at = "pending" /\ AtWork(p) /\ PlanFits(plan[p], rows, resumedAt)
  BY PlanRecordOf DEF Pending, AtWork
<1>2. /\ Book(rows, executed) /\ held \in [Symbols -> Nat] /\ (\A x \in Symbols : held[x] \in Nat)
      /\ \A S : OutstandingIn(rows, executed, S) \in Nat
  BY AccountNumbers DEF PlanInvariant
<1>3. q \in [Symbols -> Nat] /\ \A x \in Symbols : q[x] = PendingOf(x) /\ q[x] \in Nat
  <2>1. {} \subseteq OpenIn(rows)
    OBVIOUS
  <2>2. \A x \in Symbols : PendingOf(x) \in Nat
    BY <1>2, <2>1, PendingCovers
  <2> QED
    BY <2>2
<1> HIDE DEF q
<1>4. r \in PlanRecords /\ r.at = "failures" /\ r.bought = plan[p].bought /\ r.fresh = plan[p].fresh
      /\ r.held = plan[p].held /\ r.rejects = plan[p].rejects /\ r.resumed = plan[p].resumed /\ r.pending = q
  BY <1>1, <1>3 DEF PlanRecords, Places
<1>5. plan' = [plan EXCEPT ![p] = r] /\ UNCHANGED <<ruleVars, rows, accountVars, historyVars>>
  BY DEF Pending, q
<1> HIDE DEF r
<1>6. PlanFits(r, rows, resumedAt)
  BY <1>1, <1>4 DEF PlanFits
<1>7. ASSUME ~ overlapped, ~ missed
      PROVE  ReadsFit(r, rows, executed, held)
  <2> DEFINE f == [x \in Symbols |-> held[x] + OutstandingIn(rows, executed, {x})]
             g == [x \in Symbols |-> r.held[x] + q[x]]
             out == [x \in Symbols |-> OutstandingIn(rows, executed, {x})]
  <2>1. /\ r.fresh \subseteq OpenIn(rows)
        /\ \A x \in Symbols : held[x] <= r.held[x] + StillPending(r.fresh, rows, executed, x)
    BY <1>1, <1>4, <1>7, ReadGoesOn
  <2>2. r.held \in [Symbols -> Nat] /\ \A x \in Symbols : r.held[x] \in Nat
    BY <1>4 DEF PlanRecords
  <2>3. ASSUME NEW x \in Symbols
        PROVE  held[x] + OutstandingIn(rows, executed, {x}) <= r.held[x] + q[x]
    <3>1. /\ StillPending(r.fresh, rows, executed, x) + OutstandingIn(rows, executed, {x}) <= q[x]
          /\ StillPending(r.fresh, rows, executed, x) \in Nat
      BY <1>2, <1>3, <2>1, PendingCovers, StillNumbers
    <3> QED
      BY <1>2, <1>3, <2>1, <2>2, <3>1
  <2>4. \A x \in Symbols : /\ held[x] \in Int /\ out[x] \in Int /\ f[x] = held[x] + out[x]
                           /\ r.held[x] \in Int /\ q[x] \in Int /\ g[x] = r.held[x] + q[x]
                           /\ f[x] \in Int /\ g[x] \in Int /\ f[x] <= g[x]
    BY <1>2, <1>3, <2>2, <2>3
  <2>5. \A x \in Symbols : out[x] = OutstandingIn(rows, executed, {x})
    OBVIOUS
  <2> HIDE DEF f, g, out
  <2>6. Total(f, Symbols) = Total(held, Symbols) + Total(out, Symbols)
    BY <2>4, SymbolsFinite, SumPlus
  <2>7. Total(g, Symbols) = Total(r.held, Symbols) + Total(q, Symbols)
    BY <2>4, SymbolsFinite, SumPlus
  <2>8. Total(f, Symbols) <= Total(g, Symbols)
    BY <2>4, SymbolsFinite, SumGrows
  <2>9. Total(out, Symbols) = OutstandingIn(rows, executed, Symbols)
    BY <1>2, <2>5, OutstandingBySymbol
  <2>10. Total(held, Symbols) + OutstandingIn(rows, executed, Symbols)
           <= Total(r.held, Symbols) + Total(r.pending, Symbols)
    BY <1>4, <2>6, <2>7, <2>8, <2>9
  <2>11. BoughtIn(rows) <= r.bought
    BY <1>1, <1>4, <1>7 DEF PlanInvariant, LedgerFits, ReadsFit
  <2> QED
    BY <1>4, <2>3, <2>10, <2>11 DEF ReadsFit
<1> QED
  BY <1>1, <1>4, <1>5, <1>6, <1>7, ReadingGoes
-----------------------------------------------------------------------------
(* From the decision to the notes.                                       *)

\* A plan after its readings, with what it has read: what it decided goes on to fit.
LEMMA DecidedGoesOn ==
  ASSUME PlanInvariant, NEW p \in Planners, plan[p].at \in {"failures", "pause", "note", "write"},
         NEW r \in PlanRecords, r.at \in {"pause", "note", "write"},
         r.held = plan[p].held, r.pending = plan[p].pending, r.bought = plan[p].bought,
         MadeFits(plan[p], r.made)
  PROVE  /\ PlanFits(r, rows, resumedAt)
         /\ ~ overlapped /\ ~ missed => ReadsFit(r, rows, executed, held)
<1>1. MadeFits(r, r.made)
  BY DEF MadeFits
<1>2. PlanFits(r, rows, resumedAt)
  BY <1>1 DEF PlanFits
<1>3. ~ overlapped /\ ~ missed => ReadsFit(plan[p], rows, executed, held)
  BY DEF PlanInvariant, LedgerFits
<1>4. ~ overlapped /\ ~ missed => ReadsFit(r, rows, executed, held)
  BY <1>3 DEF ReadsFit
<1> QED
  BY <1>2, <1>4

\* What has been decided fits what was read.
LEMMA DecidedFits ==
  ASSUME PlanInvariant, NEW p \in Planners, plan[p].at \in {"pause", "note", "write"}
  PROVE  MadeFits(plan[p], plan[p].made)
  BY PlanRecordOf DEF PlanFits

\* The candidates are judged.
LEMMA EvaluateKeeps ==
  ASSUME PlanInvariant, NEW p \in Planners, Evaluate(p)
  PROVE  PlanInvariant'
<1> DEFINE v == Verdict(plan[p], failures)
           res == IF v.block = "none" THEN Evaluated(plan[p]) ELSE NoDecision
           r == [plan[p] EXCEPT !.at = IF v.pause THEN "pause" ELSE "note",
                                !.made = res.made, !.short = res.short, !.block = v.block]
<1>1. plan[p] \in PlanRecords /\ plan[p].at = "failures" /\ AtWork(p)
  BY PlanRecordOf DEF Evaluate, AtWork
<1>2. v.block \in {"none", "failures", "unreconciled", "attempts", "rejects"}
  BY DEF Verdict
<1>3. plan' = [plan EXCEPT ![p] = r] /\ UNCHANGED <<ruleVars, rows, accountVars, historyVars>>
  BY DEF Evaluate
<1>4. res \in Decisions(plan[p])
  <2> HIDE DEF v
  <2> QED
    BY <1>1, EvaluatedFits
<1> HIDE DEF v, res
<1>5. res.made \in Seq(MadeOrders) /\ res.short \in Seq(NoteDetails) /\ MadeFits(plan[p], res.made)
  BY <1>4 DEF Decisions
<1>6. /\ r \in PlanRecords /\ r.at \in {"pause", "note"} /\ r.held = plan[p].held
      /\ r.pending = plan[p].pending /\ r.bought = plan[p].bought /\ r.made = res.made
  BY <1>1, <1>2, <1>5 DEF PlanRecords, Places
<1> HIDE DEF r
<1>7. /\ PlanFits(r, rows, resumedAt)
      /\ ~ overlapped /\ ~ missed => ReadsFit(r, rows, executed, held)
  BY <1>1, <1>5, <1>6, DecidedGoesOn
<1> QED
  BY <1>1, <1>3, <1>6, <1>7, ReadingGoes

\* The trading is paused, or the plan is given up.
LEMMA PauseKeeps ==
  ASSUME PlanInvariant, NEW p \in Planners, Pause(p)
  PROVE  PlanInvariant'
<1>1. plan[p] \in PlanRecords /\ plan[p].at = "pause" /\ AtWork(p) /\ failures \in Nat /\ clock \in Nat
      /\ notes \in [NoteDetails -> Nat]
  BY PlanRecordOf DEF Pause, AtWork
<1>2. CASE AutomationMayBecome(switch, "paused")
  <2> DEFINE r == [plan[p] EXCEPT !.at = "note"]
  <2>1. /\ r \in PlanRecords /\ r.at = "note" /\ r.held = plan[p].held
        /\ r.pending = plan[p].pending /\ r.bought = plan[p].bought /\ r.made = plan[p].made
    BY <1>1 DEF PlanRecords, Places
  <2>2. plan' = [plan EXCEPT ![p] = r] /\ switch' = "paused"
    BY <1>2 DEF Pause
  <2> HIDE DEF r
  <2>3. PlanGoes(p, r) /\ notes' = notes /\ overlapped' = overlapped
    BY <1>1, <2>1, <2>2 DEF PlanGoes, Pause, accountVars, historyVars, AutomationState
  <2>4. /\ PlanFits(r, rows, resumedAt)
        /\ ~ overlapped /\ ~ missed => ReadsFit(r, rows, executed, held)
    BY <1>1, <2>1, DecidedFits, DecidedGoesOn
  <2> QED
    BY <2>1, <2>3, <2>4, PlanGoesOn, NotesStay DEF PlanInvariant
<1>3. CASE ~ AutomationMayBecome(switch, "paused")
  BY <1>1, <1>3, PlanEnds DEF Pause, historyVars
<1> QED
  BY <1>2, <1>3

\* It is looked up whether the lack of room was noted.
LEMMA LookUpNoteKeeps ==
  ASSUME PlanInvariant, NEW p \in Planners, LookUpNote(p)
  PROVE  PlanInvariant'
<1>1. /\ plan[p] \in PlanRecords /\ plan[p].at = "note" /\ AtWork(p) /\ plan[p].short # <<>>
      /\ plan[p].short \in Seq(NoteDetails) /\ notes \in [NoteDetails -> Nat]
      /\ UNCHANGED <<ruleVars, rows, accountVars, historyVars>>
  BY PlanRecordOf DEF LookUpNote, AtWork, PlanRecords
<1>2. CASE HasNote(Head(plan[p].short))
  <2> DEFINE s == Tail(plan[p].short)
             r == [plan[p] EXCEPT !.short = s]
  <2>1. s \in Seq(NoteDetails)
    BY <1>1
  <2>2. plan' = [plan EXCEPT ![p] = r]
    BY <1>2 DEF LookUpNote
  <2> HIDE DEF s
  <2>3. /\ r \in PlanRecords /\ r.at = "note" /\ r.held = plan[p].held
        /\ r.pending = plan[p].pending /\ r.bought = plan[p].bought /\ r.made = plan[p].made
    BY <1>1, <2>1 DEF PlanRecords
  <2> HIDE DEF r
  <2>4. /\ PlanFits(r, rows, resumedAt)
        /\ ~ overlapped /\ ~ missed => ReadsFit(r, rows, executed, held)
    BY <1>1, <2>3, DecidedFits, DecidedGoesOn
  <2> QED
    BY <1>1, <2>2, <2>3, <2>4, ReadingGoes
<1>3. CASE ~ HasNote(Head(plan[p].short))
  <2> DEFINE r == [plan[p] EXCEPT !.at = "write"]
  <2>1. plan' = [plan EXCEPT ![p] = r]
    BY <1>3 DEF LookUpNote
  <2>2. /\ r \in PlanRecords /\ r.at = "write" /\ r.held = plan[p].held /\ r.short = plan[p].short
        /\ r.pending = plan[p].pending /\ r.bought = plan[p].bought /\ r.made = plan[p].made
    BY <1>1 DEF PlanRecords, Places
  <2> HIDE DEF r
  <2>3. PlanGoes(p, r) /\ notes' = notes /\ overlapped' = overlapped
    BY <1>1, <2>1, <2>2, PlanRecordOf DEF PlanGoes, ruleVars, accountVars, historyVars
  <2>4. /\ PlanFits(r, rows, resumedAt)
        /\ ~ overlapped /\ ~ missed => ReadsFit(r, rows, executed, held)
    BY <1>1, <2>2, DecidedFits, DecidedGoesOn
  <2>5. notes[Head(r.short)] = 0
    <3>1. Head(plan[p].short) \in NoteDetails
      BY <1>1
    <3>2. notes[Head(plan[p].short)] \in Nat
      BY <1>1, <3>1
    <3> QED
      BY <1>3, <2>2, <3>2 DEF HasNote
  <2> QED
    BY <1>1, <2>2, <2>3, <2>4, <2>5, PlanGoesOn, NotesStay DEF PlanInvariant
<1> QED
  BY <1>2, <1>3

\* The lack of room is noted.
LEMMA WriteNoteKeeps ==
  ASSUME PlanInvariant, NEW p \in Planners, WriteNote(p)
  PROVE  PlanInvariant'
<1> DEFINE d == Head(plan[p].short)
           s == Tail(plan[p].short)
           r == [plan[p] EXCEPT !.at = "note", !.short = s]
<1>1. /\ plan[p] \in PlanRecords /\ plan[p].at = "write" /\ AtWork(p) /\ plan[p].short \in Seq(NoteDetails)
      /\ notes \in [NoteDetails -> Nat] /\ switch \in AutomationState /\ clock \in Nat /\ failures \in Nat
  BY PlanRecordOf DEF WriteNote, AtWork, PlanRecords
<1>2. plan[p].short # <<>> /\ (~ overlapped => notes[d] = 0)
  BY <1>1 DEF PlanInvariant, NotesFit
<1>3. d \in NoteDetails /\ s \in Seq(NoteDetails)
  BY <1>1, <1>2
<1>4. plan' = [plan EXCEPT ![p] = r] /\ notes' = [notes EXCEPT ![d] = @ + 1]
      /\ UNCHANGED <<switch, resumedAt, clock, failures, rows, accountVars, historyVars>>
  BY DEF WriteNote
<1> HIDE DEF d, s
<1>5. /\ r \in PlanRecords /\ r.at = "note" /\ r.held = plan[p].held
      /\ r.pending = plan[p].pending /\ r.bought = plan[p].bought /\ r.made = plan[p].made
  BY <1>1, <1>3 DEF PlanRecords, Places
<1> HIDE DEF r
<1>6. notes[d] \in Nat /\ notes' \in [NoteDetails -> Nat] /\ notes'[d] = notes[d] + 1
      /\ \A y \in NoteDetails \ {d} : notes'[y] = notes[y]
  <2>1. notes[d] \in Nat
    BY <1>1, <1>3
  <2> QED
    BY <1>1, <1>3, <1>4, <2>1
<1>7. PlanGoes(p, r) /\ overlapped' = overlapped
  BY <1>1, <1>4, <1>5, <1>6 DEF PlanGoes, accountVars, historyVars
<1>8. /\ PlanFits(r, rows, resumedAt)
      /\ ~ overlapped /\ ~ missed => ReadsFit(r, rows, executed, held)
  BY <1>1, <1>5, DecidedFits, DecidedGoesOn
<1>9. PlanTypes' /\ OneAtATime' /\ AccountFits' /\ PlansFit' /\ LedgerFits'
  BY <1>7, <1>8, PlanGoesOn
<1>10. NotesFit'
  <2>1. plan \in [Planners -> PlanRecords]
    BY DEF PlanInvariant, PlanTypes
  <2>2. plan'[p] = r /\ \A q \in Planners \ {p} : plan'[q] = plan[q]
    BY <1>4, <2>1
  <2>3. ASSUME NEW q \in Planners, plan'[q].at = "write"
        PROVE  plan'[q].short # <<>> /\ (~ overlapped' => notes'[Head(plan'[q].short)] = 0)
    <3>1. q # p /\ plan'[q] = plan[q]
      BY <1>5, <2>2, <2>3
    <3>2. AtWork(q) /\ plan[q].short # <<>>
      BY <2>3, <3>1 DEF AtWork, PlanInvariant, NotesFit
    <3>3. overlapped
      BY <1>1, <3>1, <3>2 DEF PlanInvariant, OneAtATime
    <3> QED
      BY <1>7, <3>1, <3>2, <3>3
  <2>4. ~ overlapped' => \A y \in NoteDetails : notes'[y] <= 1
    <3> SUFFICES ASSUME ~ overlapped, NEW y \in NoteDetails PROVE notes'[y] <= 1
      BY <1>7
    <3>1. \A z \in NoteDetails : notes[z] <= 1
      BY DEF PlanInvariant, NotesFit
    <3>2. CASE y = d
      BY <1>2, <1>6, <3>2
    <3>3. CASE y # d
      BY <1>6, <3>1, <3>3
    <3> QED
      BY <3>2, <3>3
  <2> QED
    BY <2>3, <2>4 DEF NotesFit
<1> QED
  BY <1>9, <1>10 DEF PlanInvariant
-----------------------------------------------------------------------------
(* Orders are stored, and orders move.                                   *)

\* Rejections stay, so what a plan has counted is not more than there are.
LEMMA RejectionsStay ==
  ASSUME Book(rows, executed), Book(rows', executed'),
         \A i \in DOMAIN rows : rows[i].state = "rejected" =>
           i \in DOMAIN rows' /\ rows'[i].state = "rejected" /\ rows'[i].created = rows[i].created,
         NEW c \in PlanRecords, NEW since, PlanFits(c, rows, since)
  PROVE  PlanFits(c, rows', since)
<1> DEFINE A == RejectedSince(rows, since)
           B == RejectedSince(rows', since)
<1>1. A \subseteq B /\ B \subseteq DOMAIN rows' /\ IsFiniteSet(DOMAIN rows')
  BY DEF RejectedSince, Book
<1> HIDE DEF A, B
<1>2. Cardinality(A) <= Cardinality(B) /\ Cardinality(A) \in Nat /\ Cardinality(B) \in Nat
  BY <1>1, FS_Subset, FS_CardinalityType
<1>3. c.rejects \in Nat
  BY DEF PlanRecords
<1>4. c.rejects <= Cardinality(A) => c.rejects <= Cardinality(B)
  BY <1>2, <1>3
<1> QED
  BY <1>4 DEF PlanFits, A, B

\* A plan is stored.
LEMMA SaveKeeps ==
  ASSUME PlanInvariant, NEW p \in Planners, Save(p)
  PROVE  PlanInvariant'
<1> DEFINE c == plan[p]
           made == c.made
<1>1. /\ c \in PlanRecords /\ c.at = "note" /\ AtWork(p) /\ failures \in Nat
      /\ plan' = [plan EXCEPT ![p] = Idle] /\ MadeFits(c, made)
      /\ UNCHANGED <<switch, resumedAt, clock, failures, notes, cash, held, overlapped, missed>>
  BY PlanRecordOf, DecidedFits DEF Save, AtWork, ruleVars, historyVars
<1>2. CASE UNCHANGED <<rows, executed>>
  BY <1>1, <1>2, PlanEnds DEF accountVars
<1>3. CASE /\ rows' = Stored(p)
           /\ executed' = [i \in DOMAIN rows' |-> IF i \in DOMAIN rows THEN executed[i] ELSE 0]
  <2>1. PlanTypes /\ Book(rows, executed) /\ plan \in [Planners -> PlanRecords]
    BY DEF PlanInvariant, PlanTypes
  <2>2. /\ Book(rows', executed')
        /\ \A i \in DOMAIN rows : i \in DOMAIN rows' /\ rows'[i] = rows[i] /\ executed'[i] = executed[i]
        /\ \A S : OutstandingIn(rows', executed', S) <= OutstandingIn(rows, executed, S) + Purchased(made, S)
        /\ BoughtIn(rows') <= BoughtIn(rows) + Purchased(made, Symbols)
    <3>1. \A k \in DOMAIN made : made[k].id.sequence = k
      BY <1>1 DEF MadeFits
    <3> QED
      BY <1>3, <2>1, <3>1, SaveStores
  <2>3. plan'[p] = Idle /\ (\A q \in Planners \ {p} : plan'[q] = plan[q]) /\ plan' \in [Planners -> PlanRecords]
    BY <1>1, <2>1, IdleIs
  <2>4. PlanTypes'
    BY <1>1, <2>1, <2>2, <2>3 DEF PlanTypes
  <2>5. OneAtATime'
    <3> SUFFICES ASSUME ~ overlapped', NEW o \in Planners, NEW q \in Planners, AtWork(o)', AtWork(q)'
                 PROVE  o = q
      BY DEF OneAtATime
    <3>1. \A u \in Planners : AtWork(u)' => AtWork(u)
      BY <2>3, IdleIs DEF AtWork
    <3> QED
      BY <1>1, <3>1 DEF PlanInvariant, OneAtATime
  <2>6. AccountFits'
    BY <1>1 DEF PlanInvariant, AccountFits
  <2>7. PlansFit'
    <3> SUFFICES ASSUME NEW q \in Planners PROVE PlanFits(plan'[q], rows', resumedAt)
      BY <1>1 DEF PlansFit
    <3>1. CASE q = p
      BY <2>3, <3>1, IdleIs DEF PlanFits
    <3>2. CASE q # p
      <4>1. plan'[q] = plan[q] /\ plan[q] \in PlanRecords /\ PlanFits(plan[q], rows, resumedAt)
        BY <2>3, <3>2, PlanRecordOf
      <4> QED
        BY <2>1, <2>2, <4>1, RejectionsStay
    <3> QED
      BY <3>1, <3>2
  <2>8. NotesFit'
    <3>1. \A q \in Planners : plan'[q].at = "write" => plan'[q] = plan[q]
      BY <2>3, IdleIs
    <3> QED
      BY <1>1, <3>1 DEF PlanInvariant, NotesFit
  <2>9. ASSUME ~ overlapped, ~ missed
        PROVE  /\ Limits(rows', executed', held)
               /\ \A q \in Planners : ReadsFit(plan'[q], rows', executed', held)
    <3>1. Limits(rows, executed, held) /\ ReadsFit(c, rows, executed, held)
      BY <2>9 DEF PlanInvariant, LedgerFits
    <3>2. /\ Total(held, Symbols) \in Nat /\ (\A x \in Symbols : held[x] \in Nat)
          /\ (\A S : OutstandingIn(rows, executed, S) \in Nat) /\ BoughtIn(rows) \in Nat
      BY <2>1, AccountNumbers
    <3>3. (\A S : OutstandingIn(rows', executed', S) \in Nat) /\ BoughtIn(rows') \in Nat
      BY <2>2, BookNumbers
    <3>4. /\ made \in Seq(MadeOrders) /\ c.bought \in Nat /\ c.held \in [Symbols -> Nat]
          /\ c.pending \in [Symbols -> Nat] /\ \A S : Purchased(made, S) \in Nat
      <4>1. made \in Seq(MadeOrders)
        BY <1>1 DEF PlanRecords
      <4> QED
        BY <1>1, <4>1, PurchasedIs DEF PlanRecords
    <3>5. /\ Total(c.held, Symbols) \in Nat /\ Total(c.pending, Symbols) \in Nat
          /\ \A x \in Symbols : c.held[x] \in Nat /\ c.pending[x] \in Nat
      BY <3>4, SymbolSums
    <3>6. ASSUME NEW x \in Symbols, OutstandingIn(rows', executed', {x}) > 0
          PROVE  held[x] + OutstandingIn(rows', executed', {x}) <= SymbolCap
      <4> DEFINE a == OutstandingIn(rows, executed, {x})
                 b == OutstandingIn(rows', executed', {x})
                 n == Purchased(made, {x})
                 h == held[x]
                 m == c.held[x] + c.pending[x]
      <4>1. a \in Nat /\ b \in Nat /\ n \in Nat /\ h \in Nat /\ m \in Nat /\ b > 0 /\ b <= a + n
        <5>1. h \in Nat /\ m \in Nat
          BY <3>2, <3>5
        <5>2. a \in Nat /\ b \in Nat /\ n \in Nat
          BY <3>2, <3>3, <3>4
        <5>3. b > 0 /\ b <= a + n
          BY <2>2, <3>6
        <5> QED
          BY <5>1, <5>2, <5>3
      <4>2. a > 0 => h + a <= SymbolCap
        BY <3>1 DEF Limits
      <4>3. h + a <= m
        BY <1>1, <3>1 DEF ReadsFit
      <4>4. n > 0 => m + n <= SymbolCap
        BY <1>1 DEF MadeFits
      <4> HIDE DEF a, b, n, h, m
      <4>5. h + b <= SymbolCap
        BY <4>1, <4>2, <4>3, <4>4, LimitsAreNumbers
      <4> QED
        BY <4>5 DEF h, b
    <3>7. ASSUME OutstandingIn(rows', executed', Symbols) > 0
          PROVE  Total(held, Symbols) + OutstandingIn(rows', executed', Symbols) <= TotalCap
      <4> DEFINE a == OutstandingIn(rows, executed, Symbols)
                 b == OutstandingIn(rows', executed', Symbols)
                 n == Purchased(made, Symbols)
                 h == Total(held, Symbols)
                 m == Total(c.held, Symbols) + Total(c.pending, Symbols)
      <4>1. a \in Nat /\ b \in Nat /\ n \in Nat /\ h \in Nat /\ m \in Nat /\ b > 0 /\ b <= a + n
        BY <2>2, <3>2, <3>3, <3>4, <3>5, <3>7
      <4>2. a > 0 => h + a <= TotalCap
        BY <3>1 DEF Limits
      <4>3. h + a <= m
        BY <1>1, <3>1 DEF ReadsFit
      <4>4. n > 0 => m + n <= TotalCap
        BY <1>1 DEF MadeFits
      <4> HIDE DEF a, b, n, h, m
      <4>5. h + b <= TotalCap
        BY <4>1, <4>2, <4>3, <4>4, LimitsAreNumbers
      <4> QED
        BY <4>5 DEF h, b
    <3>8. BoughtIn(rows') <= DailyCap
      <4> DEFINE a == BoughtIn(rows)
                 b == BoughtIn(rows')
                 n == Purchased(made, Symbols)
                 m == c.bought
      <4>1. a \in Nat /\ b \in Nat /\ n \in Nat /\ m \in Nat /\ b <= a + n
        BY <2>2, <3>2, <3>3, <3>4
      <4>2. a <= DailyCap /\ a <= m /\ (n > 0 => m + n <= DailyCap)
        BY <1>1, <3>1 DEF Limits, ReadsFit, MadeFits
      <4> HIDE DEF a, b, n, m
      <4>3. b <= DailyCap
        BY <4>1, <4>2, LimitsAreNumbers
      <4> QED
        BY <4>3 DEF b
    <3>9. ASSUME NEW q \in Planners PROVE ReadsFit(plan'[q], rows', executed', held)
      <4>1. plan'[q].at \in {"idle", "holdings"}
        <5>1. CASE q = p
          BY <2>3, <5>1, IdleIs
        <5>2. CASE q # p
          BY <1>1, <2>3, <2>9, <5>2 DEF PlanInvariant, OneAtATime, AtWork
        <5> QED
          BY <5>1, <5>2
      <4> QED
        BY <4>1 DEF ReadsFit
    <3> QED
      BY <3>6, <3>7, <3>8, <3>9 DEF Limits
  <2>10. LedgerFits'
    BY <1>1, <2>9 DEF LedgerFits
  <2> QED
    BY <2>4, <2>5, <2>6, <2>7, <2>8, <2>10 DEF PlanInvariant
<1> QED
  BY <1>2, <1>3 DEF Save

\* One order moves along.
LEMMA OrderMoves ==
  ASSUME PlanInvariant, NEW i \in DOMAIN rows, NEW r \in OrderRow, rows' = [rows EXCEPT ![i] = r],
         UNCHANGED <<ruleVars, accountVars, plan, overlapped>>, missed => missed',
         r.quantity = rows[i].quantity, r.filled <= executed[i], rows[i].state # "rejected",
         r.state \in PendingStates => rows[i].state \in PendingStates,
         r.state \in BuyCounted => rows[i].state \in BuyCounted,
         ~ missed' => rows[i].state \notin OpenStates \/ ~ Misses(i)
  PROVE  PlanInvariant'
<1>1. PlanTypes /\ Book(rows, executed) /\ plan \in [Planners -> PlanRecords] /\ held \in [Symbols -> Nat]
  BY DEF PlanInvariant, PlanTypes
<1>2. /\ executed' = executed /\ cash' = cash /\ held' = held /\ plan' = plan /\ overlapped' = overlapped
      /\ switch' = switch /\ resumedAt' = resumedAt /\ clock' = clock /\ failures' = failures /\ notes' = notes
  BY DEF ruleVars, accountVars
<1>3. DOMAIN rows' = DOMAIN rows /\ rows'[i] = r /\ \A j \in DOMAIN rows \ {i} : rows'[j] = rows[j]
  OBVIOUS
<1>4. Book(rows', executed')
  <2>1. rows' \in [DOMAIN rows' -> OrderRow] /\ executed' \in [DOMAIN rows' -> Nat]
        /\ IsFiniteSet(DOMAIN rows') /\ DOMAIN rows' \subseteq OrderId
    BY <1>1, <1>2 DEF Book
  <2>2. \A j \in DOMAIN rows : rows[j].filled <= executed[j] /\ executed[j] <= rows[j].quantity
    BY <1>1 DEF Book
  <2>3. \A j \in DOMAIN rows' : rows'[j].filled <= executed'[j] /\ executed'[j] <= rows'[j].quantity
    BY <1>2, <1>3, <2>2
  <2> QED
    BY <2>1, <2>3 DEF Book
<1>5. Settles
  <2>1. \A j \in DOMAIN rows :
          /\ rows'[j].quantity = rows[j].quantity
          /\ rows'[j].state \in PendingStates => rows[j].state \in PendingStates
          /\ rows'[j].state \in BuyCounted => rows[j].state \in BuyCounted
    BY <1>3
  <2> QED
    BY <1>1, <1>3, <1>4, <2>1, MovesSettle
<1>6. PlanTypes'
  BY <1>1, <1>2, <1>4 DEF PlanTypes
<1>7. OneAtATime' /\ NotesFit'
  BY <1>2 DEF PlanInvariant, OneAtATime, NotesFit, AtWork
<1>8. AccountFits'
  BY <1>1, <1>5, AccountSettles DEF PlanInvariant
<1>9. PlansFit'
  <2> SUFFICES ASSUME NEW q \in Planners PROVE PlanFits(plan[q], rows', resumedAt)
    BY <1>2 DEF PlansFit
  <2>1. \A j \in DOMAIN rows : rows[j].state = "rejected" =>
          j \in DOMAIN rows' /\ rows'[j].state = "rejected" /\ rows'[j].created = rows[j].created
    BY <1>3
  <2>2. plan[q] \in PlanRecords /\ PlanFits(plan[q], rows, resumedAt)
    BY PlanRecordOf
  <2> QED
    BY <1>1, <1>4, <2>1, <2>2, RejectionsStay
<1>10. ASSUME ~ overlapped, ~ missed'
       PROVE  /\ Limits(rows', executed', held')
              /\ \A q \in Planners : ReadsFit(plan[q], rows', executed', held')
  <2>1. Limits(rows, executed, held) /\ \A q \in Planners : ReadsFit(plan[q], rows, executed, held)
    BY <1>10 DEF PlanInvariant, LedgerFits
  <2>2. ASSUME NEW q \in Planners PROVE ReadsFit(plan[q], rows', executed', held')
    <3> DEFINE c == plan[q]
    <3>1. c \in PlanRecords /\ ReadsFit(c, rows, executed, held)
      BY <1>1, <2>1
    <3>2. ASSUME c.at \in {"counters", "recent", "quotes", "pending"}
          PROVE  /\ c.fresh \subseteq OpenIn(rows')
                 /\ \A x \in Symbols : held'[x] <= c.held[x] + StillPending(c.fresh, rows', executed', x)
      <4>1. /\ c.fresh \subseteq OpenIn(rows)
            /\ \A x \in Symbols : held[x] <= c.held[x] + StillPending(c.fresh, rows, executed, x)
        BY <3>1, <3>2 DEF ReadsFit
      <4>2. i \notin c.fresh
        BY <1>10, <3>2, <4>1 DEF Misses, OpenIn
      <4>3. c.fresh \subseteq OpenIn(rows')
        BY <1>3, <4>1, <4>2 DEF OpenIn
      <4>4. \A x : StillOf(c.fresh, rows', executed', x) = StillOf(c.fresh, rows, executed, x)
        <5> HIDE DEF c
        <5> QED
          BY <1>2, <1>3, <4>2 DEF StillOf
      <4>5. \A x : StillPending(c.fresh, rows', executed', x) = StillPending(c.fresh, rows, executed, x)
        BY <1>3, <4>4 DEF StillPending
      <4> QED
        BY <1>2, <4>1, <4>3, <4>5
    <3> HIDE DEF c
    <3>3. ReadsFit(c, rows', executed', held')
      BY <1>1, <1>2, <1>4, <1>5, <3>1, <3>2, ReadsSettle
    <3> QED
      BY <3>3 DEF c
  <2>3. Limits(rows', executed', held')
    BY <1>1, <1>2, <1>4, <1>5, <2>1, LimitsSettle
  <2> QED
    BY <2>2, <2>3
<1>11. LedgerFits'
  <2> SUFFICES ASSUME ~ overlapped', ~ missed'
               PROVE  /\ Limits(rows', executed', held')
                      /\ \A q \in Planners : ReadsFit(plan'[q], rows', executed', held')
    BY DEF LedgerFits
  <2>1. ~ overlapped /\ plan' = plan
    BY <1>2
  <2>2. /\ Limits(rows', executed', held')
        /\ \A q \in Planners : ReadsFit(plan[q], rows', executed', held')
    BY <1>10, <2>1
  <2> QED
    BY <2>1, <2>2
<1> QED
  BY <1>6, <1>7, <1>8, <1>9, <1>11 DEF PlanInvariant
\* What is known of a stored order.
LEMMA RowOfBook ==
  ASSUME PlanInvariant, NEW i \in DOMAIN rows
  PROVE  /\ rows[i] \in OrderRow /\ rows[i].quantity \in Nat /\ rows[i].filled \in Nat /\ executed[i] \in Nat
         /\ rows[i].filled <= executed[i] /\ executed[i] <= rows[i].quantity /\ i \in OrderId
         /\ rows = [j \in DOMAIN rows |-> rows[j]]
<1>1. Book(rows, executed)
  BY DEF PlanInvariant, PlanTypes
<1>2. /\ rows[i] \in OrderRow /\ executed[i] \in Nat /\ i \in OrderId /\ rows = [j \in DOMAIN rows |-> rows[j]]
      /\ rows[i].filled <= executed[i] /\ executed[i] <= rows[i].quantity
  BY <1>1 DEF Book
<1> QED
  BY <1>2 DEF OrderRow

\* An order changes its state and nothing else.
LEMMA MoveIs ==
  ASSUME PlanInvariant, NEW i \in DOMAIN rows, NEW state \in OrderState, Moves(i, state)
  PROVE  \E r \in OrderRow :
           /\ rows' = [rows EXCEPT ![i] = r] /\ r.state = state /\ r.quantity = rows[i].quantity
           /\ r.filled = rows[i].filled
<1> DEFINE r == [rows[i] EXCEPT !.state = state]
<1>1. r \in OrderRow /\ r.state = state /\ r.quantity = rows[i].quantity /\ r.filled = rows[i].filled
  BY RowOfBook DEF OrderRow
<1>2. rows' = [rows EXCEPT ![i] = r]
  BY DEF Moves
<1> QED
  BY <1>1, <1>2

\* An order is submitted, refused or withdrawn.
LEMMA PlannedMoves ==
  ASSUME PlanInvariant, NEW i \in DOMAIN rows, Submit(i) \/ BrokerRefuses(i) \/ Withdraw(i)
  PROVE  PlanInvariant'
<1>1. PICK state \in {"submitted", "rejected", "canceled"} : Moves(i, state)
  BY DEF Submit, BrokerRefuses, Withdraw
<1>2. /\ rows[i].state = "planned" /\ UNCHANGED <<ruleVars, accountVars, plan, overlapped>>
      /\ missed' = missed
  BY DEF Submit, BrokerRefuses, Withdraw, historyVars
<1>3. PICK r \in OrderRow : /\ rows' = [rows EXCEPT ![i] = r] /\ r.state = state
                            /\ r.quantity = rows[i].quantity /\ r.filled = rows[i].filled
  <2>1. state \in OrderState
    BY DEF OrderState
  <2> QED
    BY <1>1, <2>1, MoveIs
<1>4. r.filled <= executed[i]
  BY <1>3, RowOfBook
<1> QED
  BY <1>2, <1>3, <1>4, OrderMoves DEF PendingStates, BuyCounted, OpenStates

\* Executed shares are recorded.
LEMMA RecordFillKeeps ==
  ASSUME PlanInvariant, NEW i \in DOMAIN rows, RecordFill(i)
  PROVE  PlanInvariant'
<1> DEFINE state == IF executed[i] = rows[i].quantity THEN "filled" ELSE "partially_filled"
           r == [rows[i] EXCEPT !.filled = executed[i], !.state = state]
<1>1. r \in OrderRow /\ r.state \in {"filled", "partially_filled"} /\ r.quantity = rows[i].quantity
      /\ r.filled = executed[i] /\ r.filled <= executed[i]
  <2>1. rows[i] \in OrderRow /\ executed[i] \in Nat
    BY RowOfBook
  <2>2. state \in {"filled", "partially_filled"} /\ state \in OrderState
    BY DEF OrderState
  <2> HIDE DEF state
  <2>3. r \in OrderRow /\ r.state = state /\ r.quantity = rows[i].quantity /\ r.filled = executed[i]
    BY <2>1, <2>2 DEF OrderRow
  <2> QED
    BY <2>1, <2>2, <2>3
<1>2. rows' = [rows EXCEPT ![i] = r] /\ rows[i].state \in OpenStates /\ missed' = (missed \/ Misses(i))
      /\ UNCHANGED <<ruleVars, accountVars, plan, overlapped>>
  BY DEF RecordFill
<1> HIDE DEF r
<1> QED
  BY <1>1, <1>2, OrderMoves DEF PendingStates, BuyCounted, OpenStates

\* An open order is canceled.
LEMMA CancelKeeps ==
  ASSUME PlanInvariant, NEW i \in DOMAIN rows, Cancel(i)
  PROVE  PlanInvariant'
<1> DEFINE r == [rows[i] EXCEPT !.filled = executed[i], !.state = "canceled"]
<1>1. r \in OrderRow /\ r.state = "canceled" /\ r.quantity = rows[i].quantity
      /\ r.filled = executed[i] /\ r.filled <= executed[i]
  <2>1. rows[i] \in OrderRow /\ executed[i] \in Nat /\ "canceled" \in OrderState
    BY RowOfBook DEF OrderState
  <2>2. r \in OrderRow /\ r.state = "canceled" /\ r.quantity = rows[i].quantity /\ r.filled = executed[i]
    BY <2>1 DEF OrderRow
  <2> QED
    BY <2>1, <2>2
<1>2. rows' = [rows EXCEPT ![i] = r] /\ rows[i].state \in OpenStates /\ missed' = (missed \/ Misses(i))
      /\ UNCHANGED <<ruleVars, accountVars, plan, overlapped>>
  BY DEF Cancel
<1> HIDE DEF r
<1> QED
  BY <1>1, <1>2, OrderMoves DEF PendingStates, BuyCounted, OpenStates

\* A plan that reads sees in the account what it will not find as pending, and no more.
LEMMA StillGrows ==
  ASSUME PlanInvariant, NEW i \in DOMAIN rows, NEW n, Execute(i, n), NEW fresh, NEW x \in Symbols
  PROVE  held'[x] + StillPending(fresh, rows, executed, x)
           <= held[x] + StillPending(fresh \cup {i}, rows', executed', x)
<1> DEFINE D == DOMAIN rows
           f == StillOf(fresh, rows, executed, x)
           g == StillOf(fresh \cup {i}, rows', executed', x)
           d == IF i.side = "buy" /\ i.symbol = x THEN n ELSE 0
<1>1. /\ PlanTypes /\ Book(rows, executed) /\ held \in [Symbols -> Nat] /\ IsFiniteSet(D) /\ held[x] \in Nat
      /\ rows' = rows /\ executed' = [executed EXCEPT ![i] = @ + n] /\ n \in 1..(rows[i].quantity - executed[i])
      /\ held' = [held EXCEPT ![i.symbol] = IF i.side = "buy" THEN @ + n ELSE @ - n]
  BY DEF PlanInvariant, PlanTypes, Book, Execute
<1>2. /\ rows[i].quantity \in Nat /\ rows[i].filled \in Nat /\ executed[i] \in Nat
      /\ rows[i].filled <= executed[i] /\ i.symbol \in Symbols
  BY RowOfBook DEF OrderId
<1>3. n \in Nat /\ d \in Nat
  BY <1>1, <1>2
<1>4. Book(rows', executed')
  BY <1>1, ExecuteSettles
<1>5. (\A j \in D : f[j] \in Nat /\ f[j] \in Int) /\ \A j \in D : g[j] \in Nat /\ g[j] \in Int
  <2>1. \A j \in D : f[j] \in Nat
    BY <1>1, StillNumbers
  <2>2. \A j \in DOMAIN rows' : g[j] \in Nat
    BY <1>4, StillNumbers
  <2> HIDE DEF f, g
  <2> QED
    BY <1>1, <2>1, <2>2
<1>6. executed'[i] = executed[i] + n /\ \A j \in D \ {i} : executed'[j] = executed[j]
  <2>1. executed \in [D -> Nat]
    BY <1>1 DEF Book
  <2> QED
    BY <1>1, <2>1
<1>7. \A j \in D \ {i} : f[j] = g[j]
  BY <1>1, <1>6 DEF StillOf
<1>8. f[i] + d <= g[i]
  <2>1. f[i] = IF i \in fresh /\ i.side = "buy" /\ i.symbol = x THEN executed[i] - rows[i].filled ELSE 0
    BY DEF StillOf
  <2>2. g[i] = IF i.side = "buy" /\ i.symbol = x THEN executed'[i] - rows[i].filled ELSE 0
    BY <1>1 DEF StillOf
  <2> HIDE DEF f, g
  <2> QED
    BY <1>2, <1>3, <1>6, <2>1, <2>2
<1>9. held'[x] \in Int /\ held'[x] <= held[x] + d
  <2>1. CASE i.symbol = x
    <3>1. held'[x] = IF i.side = "buy" THEN held[x] + n ELSE held[x] - n
      BY <1>1, <2>1
    <3> QED
      BY <1>1, <1>3, <2>1, <3>1
  <2>2. CASE i.symbol # x
    <3>1. held'[x] = held[x]
      BY <1>1, <2>2
    <3> QED
      BY <1>1, <1>3, <3>1
  <2> QED
    BY <2>1, <2>2
<1>10. StillPending(fresh, rows, executed, x) = Total(f, D)
       /\ StillPending(fresh \cup {i}, rows', executed', x) = Total(g, D)
  BY <1>1 DEF StillPending
<1> HIDE DEF D, f, g, d
<1>11. i \in D
  BY DEF D
<1>12. Total(g, D) = Total(f, D) + g[i] - f[i] /\ Total(f, D) \in Int
  BY <1>1, <1>5, <1>7, <1>11, SumChange, SumType
<1> QED
  BY <1>1, <1>3, <1>5, <1>8, <1>9, <1>10, <1>11, <1>12

\* Shares are executed.
LEMMA ExecuteKeeps ==
  ASSUME PlanInvariant, NEW i \in DOMAIN rows, NEW n, Execute(i, n)
  PROVE  PlanInvariant'
<1>1. /\ PlanTypes /\ Book(rows, executed) /\ plan \in [Planners -> PlanRecords] /\ i \in OrderId
      /\ held \in [Symbols -> Nat]
  BY RowOfBook DEF PlanInvariant, PlanTypes
<1>2. Settles /\ Book(rows', executed') /\ cash' \in Nat /\ held' \in [Symbols -> Nat]
  BY <1>1, ExecuteSettles
<1>3. /\ rows' = rows /\ overlapped' = overlapped /\ missed' = missed /\ rows[i].state \in OpenStates
      /\ switch' = switch /\ resumedAt' = resumedAt /\ clock' = clock /\ failures' = failures /\ notes' = notes
      /\ plan' = [p \in Planners |->
           IF HasSnapshot(p) THEN [plan[p] EXCEPT !.fresh = @ \cup {i}] ELSE plan[p]]
  BY DEF Execute, ruleVars, historyVars
<1>4. ASSUME NEW p \in Planners
      PROVE  /\ plan'[p] \in PlanRecords /\ plan'[p].at = plan[p].at /\ plan'[p].short = plan[p].short
             /\ plan'[p].held = plan[p].held /\ plan'[p].pending = plan[p].pending
             /\ plan'[p].bought = plan[p].bought /\ plan'[p].made = plan[p].made
             /\ plan'[p].rejects = plan[p].rejects /\ plan'[p].resumed = plan[p].resumed
             /\ plan'[p].fresh = IF HasSnapshot(p) THEN plan[p].fresh \cup {i} ELSE plan[p].fresh
  <2>1. plan[p] \in PlanRecords
    BY <1>1
  <2>2. CASE HasSnapshot(p)
    <3> DEFINE s == plan[p].fresh \cup {i}
    <3>1. plan'[p] = [plan[p] EXCEPT !.fresh = s]
      BY <1>3, <2>2
    <3>2. s \in SUBSET OrderId
      BY <1>1, <2>1 DEF PlanRecords
    <3>3. plan'[p].fresh = s
      BY <2>1, <3>1 DEF PlanRecords
    <3> HIDE DEF s
    <3>4. /\ plan'[p] \in PlanRecords /\ plan'[p].at = plan[p].at /\ plan'[p].short = plan[p].short
          /\ plan'[p].held = plan[p].held /\ plan'[p].pending = plan[p].pending
          /\ plan'[p].bought = plan[p].bought /\ plan'[p].made = plan[p].made
          /\ plan'[p].rejects = plan[p].rejects /\ plan'[p].resumed = plan[p].resumed
      BY <2>1, <3>1, <3>2 DEF PlanRecords
    <3> QED
      BY <2>2, <3>3, <3>4 DEF s
  <2>3. CASE ~ HasSnapshot(p)
    BY <1>3, <2>1, <2>3
  <2> QED
    BY <2>2, <2>3
<1>5. PlanTypes'
  <2>1. plan' \in [Planners -> PlanRecords]
    <3>1. \A p \in Planners : plan'[p] \in PlanRecords
      BY <1>4
    <3>2. plan' = [p \in Planners |-> plan'[p]]
      BY <1>3
    <3> QED
      BY <3>1, <3>2
  <2> QED
    BY <1>1, <1>2, <1>3, <2>1 DEF PlanTypes
<1>6. OneAtATime' /\ NotesFit'
  <2>1. \A p \in Planners : AtWork(p)' <=> AtWork(p)
    BY <1>4 DEF AtWork
  <2> QED
    BY <1>3, <1>4, <2>1 DEF PlanInvariant, OneAtATime, NotesFit
<1>7. AccountFits'
  BY <1>1, <1>2, AccountSettles DEF PlanInvariant
<1>8. PlansFit'
  <2> SUFFICES ASSUME NEW p \in Planners PROVE PlanFits(plan'[p], rows, resumedAt)
    BY <1>3 DEF PlansFit
  <2>1. PlanFits(plan[p], rows, resumedAt)
    BY PlanRecordOf
  <2>2. plan[p].at \in {"idle", "holdings", "blocked", "snapshot"} => ~ HasSnapshot(p)
    BY DEF HasSnapshot
  <2> QED
    BY <1>4, <2>1, <2>2 DEF PlanFits, MadeFits
<1>9. ASSUME ~ overlapped, ~ missed
      PROVE  /\ Limits(rows', executed', held')
             /\ \A p \in Planners : ReadsFit(plan'[p], rows', executed', held')
  <2>1. Limits(rows, executed, held) /\ \A p \in Planners : ReadsFit(plan[p], rows, executed, held)
    BY <1>9 DEF PlanInvariant, LedgerFits
  <2>2. ASSUME NEW p \in Planners PROVE ReadsFit(plan'[p], rows', executed', held')
    <3> DEFINE c == plan[p]
               d == plan'[p]
    <3>1. /\ c \in PlanRecords /\ ReadsFit(c, rows, executed, held) /\ d \in PlanRecords /\ d.at = c.at
          /\ d.held = c.held /\ d.pending = c.pending /\ d.bought = c.bought
      BY <1>1, <1>4, <2>1
    <3>2. ASSUME c.at \in {"counters", "recent", "quotes", "pending"}
          PROVE  /\ d.fresh \subseteq OpenIn(rows')
                 /\ \A x \in Symbols : held'[x] <= d.held[x] + StillPending(d.fresh, rows', executed', x)
      <4>1. /\ c.fresh \subseteq OpenIn(rows)
            /\ \A x \in Symbols : held[x] <= c.held[x] + StillPending(c.fresh, rows, executed, x)
        BY <3>1, <3>2 DEF ReadsFit
      <4>2. d.fresh = c.fresh \cup {i}
        BY <1>4, <3>2 DEF HasSnapshot
      <4>3. d.fresh \subseteq OpenIn(rows')
        BY <1>3, <4>1, <4>2 DEF OpenIn
      <4>4. ASSUME NEW x \in Symbols
            PROVE  held'[x] <= d.held[x] + StillPending(d.fresh, rows', executed', x)
        <5> DEFINE a == StillPending(c.fresh, rows, executed, x)
                   b == StillPending(d.fresh, rows', executed', x)
        <5>1. held'[x] + a <= held[x] + b /\ held[x] <= c.held[x] + a
          BY <4>1, <4>2, StillGrows
        <5>2. a \in Nat /\ b \in Nat /\ held[x] \in Nat /\ held'[x] \in Nat /\ c.held[x] \in Nat
          <6>1. a \in Nat /\ b \in Nat
            BY <1>1, <1>2, StillNumbers
          <6>2. held[x] \in Nat /\ held'[x] \in Nat
            BY <1>1, <1>2
          <6>3. c.held[x] \in Nat
            BY <3>1 DEF PlanRecords
          <6> QED
            BY <6>1, <6>2, <6>3
        <5> HIDE DEF a, b, c, d
        <5>3. held'[x] <= d.held[x] + b
          BY <3>1, <5>1, <5>2
        <5> QED
          BY <5>3 DEF b
      <4> QED
        BY <4>3, <4>4
    <3> HIDE DEF c, d
    <3>3. ReadsFit(d, rows', executed', held')
      BY <1>1, <1>2, <3>1, <3>2, ReadsSettle
    <3> QED
      BY <3>3 DEF d
  <2>3. Limits(rows', executed', held')
    BY <1>1, <1>2, <2>1, LimitsSettle
  <2> QED
    BY <2>2, <2>3
<1>10. LedgerFits'
  <2> SUFFICES ASSUME ~ overlapped', ~ missed'
               PROVE  /\ Limits(rows', executed', held')
                      /\ \A q \in Planners : ReadsFit(plan'[q], rows', executed', held')
    BY DEF LedgerFits
  <2>1. ~ overlapped /\ ~ missed
    BY <1>3
  <2> QED
    BY <1>9, <2>1
<1> QED
  BY <1>5, <1>6, <1>7, <1>8, <1>10 DEF PlanInvariant
-----------------------------------------------------------------------------
(* The switch and the time, the first state, and every step.             *)

\* A step that concerns neither orders nor plans; a resumption is marked in the plans at work.
LEMMA OthersKeep ==
  ASSUME PlanInvariant, UNCHANGED <<notes, rows, accountVars, historyVars>>,
         switch' \in AutomationState, resumedAt' \in Nat, clock' \in Nat, failures' \in Nat,
         plan' \in [Planners -> PlanRecords],
         \A p \in Planners :
           /\ plan'[p].at = plan[p].at /\ plan'[p].fresh = plan[p].fresh /\ plan'[p].held = plan[p].held
           /\ plan'[p].pending = plan[p].pending /\ plan'[p].bought = plan[p].bought
           /\ plan'[p].made = plan[p].made /\ plan'[p].short = plan[p].short
           /\ plan'[p].rejects = plan[p].rejects
           /\ \/ plan'[p].resumed = TRUE \/ ~ AtWork(p)
              \/ resumedAt' = resumedAt /\ plan'[p].resumed = plan[p].resumed
  PROVE  PlanInvariant'
<1>1. /\ rows' = rows /\ executed' = executed /\ cash' = cash /\ held' = held /\ notes' = notes
      /\ overlapped' = overlapped /\ missed' = missed
  BY DEF accountVars, historyVars
<1>2. PlanTypes'
  BY <1>1 DEF PlanInvariant, PlanTypes
<1>3. OneAtATime' /\ NotesFit'
  <2>1. \A p \in Planners : AtWork(p)' <=> AtWork(p)
    BY DEF AtWork
  <2> QED
    BY <1>1, <2>1 DEF PlanInvariant, OneAtATime, NotesFit
<1>4. AccountFits'
  BY <1>1 DEF PlanInvariant, AccountFits
<1>5. PlansFit'
  <2> SUFFICES ASSUME NEW p \in Planners PROVE PlanFits(plan'[p], rows, resumedAt')
    BY <1>1 DEF PlansFit
  <2>1. PlanFits(plan[p], rows, resumedAt)
    BY PlanRecordOf
  <2>2. plan'[p].at \in {"quotes", "pending", "failures"} => AtWork(p)
    BY DEF AtWork
  <2> QED
    BY <2>1, <2>2 DEF PlanFits, MadeFits
<1>6. LedgerFits'
  <2> SUFFICES ASSUME ~ overlapped', ~ missed'
               PROVE  /\ Limits(rows, executed, held)
                      /\ \A q \in Planners : ReadsFit(plan'[q], rows, executed, held)
    BY <1>1 DEF LedgerFits
  <2>1. Limits(rows, executed, held) /\ \A q \in Planners : ReadsFit(plan[q], rows, executed, held)
    BY <1>1 DEF PlanInvariant, LedgerFits
  <2> QED
    BY <2>1 DEF ReadsFit
<1> QED
  BY <1>2, <1>3, <1>4, <1>5, <1>6 DEF PlanInvariant

\* A person pauses, and the failures get old.
LEMMA PausesAndPassesKeep ==
  ASSUME PlanInvariant, PersonPauses \/ WindowPasses
  PROVE  PlanInvariant'
<1>1. /\ plan' = plan /\ resumedAt' = resumedAt /\ clock' = clock
      /\ UNCHANGED <<notes, rows, accountVars, historyVars>>
      /\ switch' \in {switch, "paused"} /\ failures' \in {failures, 0}
  BY DEF PersonPauses, WindowPasses
<1>2. /\ switch \in AutomationState /\ resumedAt \in Nat /\ clock \in Nat /\ failures \in Nat
      /\ plan \in [Planners -> PlanRecords] /\ "paused" \in AutomationState
  BY DEF PlanInvariant, PlanTypes, AutomationState
<1> QED
  BY <1>1, <1>2, OthersKeep

\* A person resumes the trading.
LEMMA PersonResumesKeeps ==
  ASSUME PlanInvariant, PersonResumes
  PROVE  PlanInvariant'
<1>1. /\ switch \in AutomationState /\ resumedAt \in Nat /\ clock \in Nat /\ failures \in Nat
      /\ plan \in [Planners -> PlanRecords] /\ "running" \in AutomationState
  BY DEF PlanInvariant, PlanTypes, AutomationState
<1>2. /\ switch' = "running" /\ resumedAt' = clock /\ clock' = clock + 1 /\ failures' = failures
      /\ plan' = [p \in Planners |-> IF AtWork(p) THEN [plan[p] EXCEPT !.resumed = TRUE] ELSE plan[p]]
      /\ UNCHANGED <<notes, rows, accountVars, historyVars>>
  BY DEF PersonResumes
<1>3. ASSUME NEW p \in Planners
      PROVE  /\ plan'[p] \in PlanRecords
             /\ plan'[p].at = plan[p].at /\ plan'[p].fresh = plan[p].fresh /\ plan'[p].held = plan[p].held
             /\ plan'[p].pending = plan[p].pending /\ plan'[p].bought = plan[p].bought
             /\ plan'[p].made = plan[p].made /\ plan'[p].short = plan[p].short
             /\ plan'[p].rejects = plan[p].rejects
             /\ plan'[p].resumed = TRUE \/ ~ AtWork(p)
  <2>1. plan[p] \in PlanRecords
    BY <1>1
  <2>2. CASE AtWork(p)
    <3>1. plan'[p] = [plan[p] EXCEPT !.resumed = TRUE]
      BY <1>2, <2>2
    <3> QED
      BY <2>1, <3>1 DEF PlanRecords
  <2>3. CASE ~ AtWork(p)
    BY <1>2, <2>1, <2>3
  <2> QED
    BY <2>2, <2>3
<1>4. plan' \in [Planners -> PlanRecords]
  <2>1. plan' = [p \in Planners |-> plan'[p]]
    BY <1>2
  <2> QED
    BY <1>3, <2>1
<1>5. switch' \in AutomationState /\ resumedAt' \in Nat /\ clock' \in Nat /\ failures' \in Nat
  BY <1>1, <1>2
<1> QED
  BY <1>2, <1>3, <1>4, <1>5, OthersKeep

\* The first state.
LEMMA PlanningStarts == PlanningInit => PlanInvariant
<1> SUFFICES ASSUME PlanningInit PROVE PlanInvariant
  OBVIOUS
<1>1. /\ switch = "running" /\ resumedAt = 0 /\ clock = 1 /\ failures = 0
      /\ notes = [d \in NoteDetails |-> 0] /\ rows = <<>> /\ executed = <<>>
      /\ plan = [p \in Planners |-> Idle] /\ overlapped = FALSE /\ missed = FALSE
  BY DEF PlanningInit
<1>2. PICK a \in Accounts : cash = a.cash /\ held = a.held
  BY DEF PlanningInit
<1>3. cash \in Nat /\ held \in [Symbols -> Nat] /\ AccountFits
  <2>1. a \in [cash : Nat, held : [Symbols -> Nat]]
    BY PlanningAssumption
  <2>2. TotalCap + MinCash <= a.cash + SumFunctionOnSet(a.held, Symbols)
    BY RatiosAssumption
  <2> QED
    BY <1>2, <2>1, <2>2 DEF AccountFits, Total
<1>4. DOMAIN rows = {} /\ Book(rows, executed)
  <2>1. DOMAIN rows = {} /\ rows \in [DOMAIN rows -> OrderRow] /\ executed \in [DOMAIN rows -> Nat]
    BY <1>1
  <2> QED
    BY <2>1, FS_EmptySet DEF Book
<1>5. \A p \in Planners : plan[p] = Idle
  BY <1>1
<1>6. PlanTypes
  <2>1. plan \in [Planners -> PlanRecords] /\ switch \in AutomationState
    BY <1>1, IdleIs DEF AutomationState
  <2> QED
    BY <1>1, <1>3, <1>4, <2>1 DEF PlanTypes
<1>7. OneAtATime /\ PlansFit /\ NotesFit
  BY <1>1, <1>5, IdleIs DEF OneAtATime, AtWork, PlansFit, PlanFits, NotesFit
<1>8. LedgerFits
  <2>1. (\A S : OutstandingIn(rows, executed, S) = 0) /\ BoughtIn(rows) = 0
    BY <1>4, SumEmpty DEF OutstandingIn, BoughtIn
  <2>2. Limits(rows, executed, held)
    BY <2>1, LimitsAreNumbers DEF Limits
  <2>3. \A p \in Planners : ReadsFit(plan[p], rows, executed, held)
    BY <1>5, IdleIs DEF ReadsFit
  <2> QED
    BY <2>2, <2>3 DEF LedgerFits
<1> QED
  BY <1>3, <1>6, <1>7, <1>8 DEF PlanInvariant

\* Every step of a process that plans.
LEMMA PlanStepKeeps ==
  ASSUME PlanInvariant, NEW p \in Planners, PlanStep(p)
  PROVE  PlanInvariant'
<1>1. CASE Holdings(p)
  BY <1>1, HoldingsKeeps
<1>2. CASE CallFails(p)
  BY <1>2, CallFailsKeeps
<1>3. CASE Snapshot(p)
  BY <1>3, SnapshotKeeps
<1>4. CASE CountOrders(p)
  BY <1>4, CountOrdersKeeps
<1>5. CASE CountRejects(p)
  BY <1>5, CountRejectsKeeps
<1>6. CASE \E u, s \in SUBSET Symbols : Quotes(p, u, s)
  BY <1>6, QuotesKeeps
<1>7. CASE Pending(p)
  BY <1>7, PendingKeeps
<1>8. CASE Evaluate(p)
  BY <1>8, EvaluateKeeps
<1>9. CASE Pause(p)
  BY <1>9, PauseKeeps
<1>10. CASE LookUpNote(p)
  BY <1>10, LookUpNoteKeeps
<1>11. CASE WriteNote(p)
  BY <1>11, WriteNoteKeeps
<1>12. CASE Save(p)
  BY <1>12, SaveKeeps
<1>13. CASE SaveBlocked(p)
  BY <1>13, SaveBlockedKeeps
<1> QED
  BY <1>1, <1>2, <1>3, <1>4, <1>5, <1>6, <1>7, <1>8, <1>9, <1>10, <1>11, <1>12, <1>13 DEF PlanStep

\* Every step.
LEMMA PlanningKeeps == PlanInvariant /\ [PlanningNext]_planningVars => PlanInvariant'
<1> SUFFICES ASSUME PlanInvariant, [PlanningNext]_planningVars PROVE PlanInvariant'
  OBVIOUS
<1>1. ASSUME NEW p \in Planners, PlanStep(p) PROVE PlanInvariant'
  BY <1>1, PlanStepKeeps
<1>2. ASSUME NEW p \in Planners, StartSignal(p) PROVE PlanInvariant'
  BY <1>2, StartSignalKeeps
<1>3. ASSUME NEW p \in Planners, NEW x \in Symbols, NEW side \in {"buy", "sell"}, StartManual(p, x, side)
      PROVE  PlanInvariant'
  BY <1>3, StartManualKeeps
<1>4. ASSUME NEW i \in DOMAIN rows, Submit(i) \/ BrokerRefuses(i) \/ Withdraw(i) PROVE PlanInvariant'
  BY <1>4, PlannedMoves
<1>5. ASSUME NEW i \in DOMAIN rows, RecordFill(i) PROVE PlanInvariant'
  BY <1>5, RecordFillKeeps
<1>6. ASSUME NEW i \in DOMAIN rows, Cancel(i) PROVE PlanInvariant'
  BY <1>6, CancelKeeps
<1>7. ASSUME NEW i \in DOMAIN rows, NEW n \in 1..SymbolCap, Execute(i, n) PROVE PlanInvariant'
  BY <1>7, ExecuteKeeps
<1>8. ASSUME PersonPauses \/ WindowPasses PROVE PlanInvariant'
  BY <1>8, PausesAndPassesKeep
<1>9. ASSUME PersonResumes PROVE PlanInvariant'
  BY <1>9, PersonResumesKeeps
<1>10. ASSUME UNCHANGED planningVars PROVE PlanInvariant'
  <2>1. /\ plan' = plan /\ switch' = switch /\ resumedAt' = resumedAt /\ clock' = clock /\ failures' = failures
        /\ UNCHANGED <<notes, rows, accountVars, historyVars>>
    BY <1>10 DEF planningVars, ruleVars
  <2>2. /\ switch \in AutomationState /\ resumedAt \in Nat /\ clock \in Nat /\ failures \in Nat
        /\ plan \in [Planners -> PlanRecords]
    BY DEF PlanInvariant, PlanTypes
  <2> QED
    BY <2>1, <2>2, OthersKeep
<1> QED
  BY <1>1, <1>2, <1>3, <1>4, <1>5, <1>6, <1>7, <1>8, <1>9, <1>10 DEF PlanningNext
-----------------------------------------------------------------------------
(* What follows.                                                         *)

\* Plans made one after the other fit together.
LEMMA InvariantFitsTogether == PlanInvariant => PlansFitTogether /\ NotedOnce
<1> SUFFICES ASSUME PlanInvariant PROVE PlansFitTogether /\ NotedOnce
  OBVIOUS
<1>1. /\ Book(rows, executed) /\ cash \in Nat /\ Total(held, Symbols) \in Nat
      /\ \A S : OutstandingIn(rows, executed, S) \in Nat
  BY AccountNumbers DEF PlanInvariant
<1>2. /\ \A S : Outstanding(S) = OutstandingIn(rows, executed, S)
      /\ Bought = BoughtIn(rows)
  BY <1>1, SumsOfBook DEF OutstandingIn, BoughtIn
<1>3. NotedOnce
  BY DEF PlanInvariant, NotesFit, NotedOnce
<1>4. ASSUME ~ overlapped, ~ missed
      PROVE  /\ \A x \in Symbols : Outstanding({x}) > 0 => held[x] + Outstanding({x}) <= SymbolCap
             /\ Outstanding(Symbols) > 0 => Total(held, Symbols) + Outstanding(Symbols) <= TotalCap
             /\ Outstanding(Symbols) > 0 => cash - Outstanding(Symbols) >= MinCash
             /\ Bought <= DailyCap
  <2>1. Limits(rows, executed, held)
    BY <1>4 DEF PlanInvariant, LedgerFits
  <2>2. /\ \A x \in Symbols : Outstanding({x}) > 0 => held[x] + Outstanding({x}) <= SymbolCap
        /\ Outstanding(Symbols) > 0 => Total(held, Symbols) + Outstanding(Symbols) <= TotalCap
        /\ Bought <= DailyCap
    BY <1>2, <2>1 DEF Limits
  <2>3. Outstanding(Symbols) > 0 => cash - Outstanding(Symbols) >= MinCash
    <3> DEFINE o == Outstanding(Symbols)
               h == Total(held, Symbols)
    <3>1. o \in Nat /\ h \in Nat
      BY <1>1, <1>2
    <3>2. TotalCap + MinCash <= cash + h
      BY DEF PlanInvariant, AccountFits
    <3>3. o > 0 => h + o <= TotalCap
      BY <2>2
    <3> HIDE DEF o, h
    <3>4. o > 0 => cash - o >= MinCash
      BY <1>1, <3>1, <3>2, <3>3, LimitsAreNumbers
    <3> QED
      BY <3>4 DEF o
  <2> QED
    BY <2>2, <2>3
<1>5. PlansFitTogether
  <2>1. SharesOf({i \in Ids({"planned", "submitted", "partially_filled", "filled"}) : i.side = "buy"}, Ordered)
          = Bought
    BY DEF Bought, BuyCounted
  <2>2. SumFunctionOnSet(held, Symbols) = Total(held, Symbols)
    BY DEF Total
  <2> QED
    BY <1>4, <2>1, <2>2 DEF PlansFitTogether
<1> QED
  BY <1>3, <1>5

\* A row keeps its quantity and moves along the graph.
LEMMA RowsStay ==
  ASSUME PlanInvariant, [PlanningNext]_planningVars
  PROVE  RowsAreNeverRewritten
<1>1. ASSUME rows' = rows PROVE RowsAreNeverRewritten
  BY <1>1 DEF RowsAreNeverRewritten
<1>2. ASSUME NEW i \in DOMAIN rows, NEW r, rows' = [rows EXCEPT ![i] = r],
             r.quantity = rows[i].quantity, r.state \in OrderTransitions[rows[i].state]
      PROVE  RowsAreNeverRewritten
  BY <1>2 DEF RowsAreNeverRewritten, OrderMayBecome
<1>3. ASSUME NEW p \in Planners, PlanStep(p) PROVE RowsAreNeverRewritten
  <2>1. CASE rows' = rows
    BY <1>1, <2>1
  <2>2. CASE rows' # rows
    <3>1. Save(p)
      BY <1>3, <2>2 DEF PlanStep, Holdings, Begin, CallFails, Snapshot, CountOrders, CountRejects, Quotes,
           Pending, Evaluate, Pause, LookUpNote, WriteNote, SaveBlocked
    <3>2. rows' = Stored(p)
      BY <2>2, <3>1 DEF Save
    <3>3. \A i \in DOMAIN rows : i \in DOMAIN rows' /\ rows'[i] = rows[i]
      BY <3>2 DEF Stored
    <3> QED
      BY <3>3 DEF RowsAreNeverRewritten
  <2> QED
    BY <2>1, <2>2
<1>4. ASSUME NEW i \in DOMAIN rows, Submit(i) \/ BrokerRefuses(i) \/ Withdraw(i)
      PROVE  RowsAreNeverRewritten
  <2>1. PICK state \in {"submitted", "rejected", "canceled"} : Moves(i, state)
    BY <1>4 DEF Submit, BrokerRefuses, Withdraw
  <2>2. rows[i].state = "planned"
    BY <1>4 DEF Submit, BrokerRefuses, Withdraw
  <2>3. state \in OrderState
    BY DEF OrderState
  <2>4. PICK r \in OrderRow : rows' = [rows EXCEPT ![i] = r] /\ r.state = state /\ r.quantity = rows[i].quantity
    BY <2>1, <2>3, MoveIs
  <2>5. state \in OrderTransitions[rows[i].state]
    BY <2>2 DEF OrderTransitions
  <2> QED
    BY <1>2, <2>4, <2>5
<1>5. ASSUME NEW i \in DOMAIN rows, RecordFill(i) PROVE RowsAreNeverRewritten
  <2> DEFINE state == IF executed[i] = rows[i].quantity THEN "filled" ELSE "partially_filled"
             r == [rows[i] EXCEPT !.filled = executed[i], !.state = state]
  <2>1. rows' = [rows EXCEPT ![i] = r] /\ rows[i].state \in OpenStates
    BY <1>5 DEF RecordFill
  <2>2. r.state = state /\ r.quantity = rows[i].quantity
    BY RowOfBook DEF OrderRow
  <2>3. state \in OrderTransitions[rows[i].state]
    BY <2>1 DEF OrderTransitions, OpenStates
  <2> HIDE DEF r, state
  <2> QED
    BY <1>2, <2>1, <2>2, <2>3
<1>6. ASSUME NEW i \in DOMAIN rows, Cancel(i) PROVE RowsAreNeverRewritten
  <2> DEFINE r == [rows[i] EXCEPT !.filled = executed[i], !.state = "canceled"]
  <2>1. rows' = [rows EXCEPT ![i] = r] /\ rows[i].state \in OpenStates
    BY <1>6 DEF Cancel
  <2>2. r.state = "canceled" /\ r.quantity = rows[i].quantity
    BY RowOfBook DEF OrderRow
  <2>3. "canceled" \in OrderTransitions[rows[i].state]
    BY <2>1 DEF OrderTransitions, OpenStates
  <2> HIDE DEF r
  <2> QED
    BY <1>2, <2>1, <2>2, <2>3
<1>7. ASSUME NEW p \in Planners,
             StartSignal(p) \/ \E x \in Symbols, side \in {"buy", "sell"} : StartManual(p, x, side)
      PROVE  RowsAreNeverRewritten
  <2>1. rows' = rows
    BY <1>7 DEF StartSignal, StartManual, Begin
  <2> QED
    BY <1>1, <2>1
<1>8. ASSUME PersonPauses \/ PersonResumes \/ WindowPasses \/ UNCHANGED planningVars
             \/ \E i \in DOMAIN rows, n \in 1..SymbolCap : Execute(i, n)
      PROVE  RowsAreNeverRewritten
  <2>1. rows' = rows
    BY <1>8 DEF PersonPauses, PersonResumes, WindowPasses, planningVars, Execute
  <2> QED
    BY <1>1, <2>1
<1> QED
  BY <1>3, <1>4, <1>5, <1>6, <1>7, <1>8 DEF PlanningNext

\* A plan that is not interrupted by a resumption counts the rejections since the last one.
LEMMA StartsAreFresh ==
  ASSUME PlanInvariant, [PlanningNext]_planningVars
  PROVE  FreshStart
<1> SUFFICES ASSUME NEW p \in Planners, plan[p].at = "failures", plan'[p].at = "pause",
                    plan'[p].block = "rejects", ~ plan[p].resumed
             PROVE  Cardinality({i \in Ids({"rejected"}) : rows[i].created >= resumedAt}) >= MaxRejects
  BY DEF FreshStart
<1>1. plan \in [Planners -> PlanRecords] /\ plan[p] \in PlanRecords /\ PlanFits(plan[p], rows, resumedAt)
  BY PlanRecordOf DEF PlanInvariant, PlanTypes
<1>2. ASSUME NEW q \in Planners, NEW r, plan' = [plan EXCEPT ![q] = r], q # p PROVE FALSE
  BY <1>1, <1>2
<1>3. ASSUME NEW q \in Planners, PlanStep(q), ~ Evaluate(q) PROVE FALSE
  <2>1. \E r : plan' = [plan EXCEPT ![q] = r]
    BY <1>3 DEF PlanStep, Holdings, Begin, CallFails, Snapshot, CountOrders, CountRejects, Quotes,
         Pending, Pause, LookUpNote, WriteNote, Save, SaveBlocked
  <2>2. plan[q].at # "failures"
    BY <1>3 DEF PlanStep, Holdings, CallFails, Snapshot, CountOrders, CountRejects, Quotes,
         Pending, Pause, LookUpNote, WriteNote, Save, SaveBlocked
  <2> QED
    BY <1>2, <2>1, <2>2
<1>4. ASSUME NEW q \in Planners,
             StartSignal(q) \/ \E x \in Symbols, side \in {"buy", "sell"} : StartManual(q, x, side)
      PROVE  FALSE
  <2>1. \E r : plan' = [plan EXCEPT ![q] = r]
    BY <1>4 DEF StartSignal, StartManual, Begin
  <2>2. plan[q].at = "idle"
    BY <1>4 DEF StartSignal, StartManual
  <2> QED
    BY <1>2, <2>1, <2>2
<1>5. ASSUME plan'[p].at = plan[p].at PROVE FALSE
  BY <1>5
<1>6. ASSUME \E i \in DOMAIN rows : \/ Submit(i) \/ BrokerRefuses(i) \/ Withdraw(i) \/ RecordFill(i) \/ Cancel(i)
                                    \/ \E n \in 1..SymbolCap : Execute(i, n)
      PROVE  FALSE
  <2>1. plan' = plan \/ \E i : plan' = [q \in Planners |->
          IF HasSnapshot(q) THEN [plan[q] EXCEPT !.fresh = @ \cup {i}] ELSE plan[q]]
    BY <1>6 DEF Submit, BrokerRefuses, Withdraw, RecordFill, Cancel, Execute
  <2>2. plan'[p].at = plan[p].at
    <3>1. ASSUME NEW i, plan' = [q \in Planners |->
                   IF HasSnapshot(q) THEN [plan[q] EXCEPT !.fresh = @ \cup {i}] ELSE plan[q]]
          PROVE  plan'[p].at = plan[p].at
      <4>1. plan'[p] = plan[p] \/ plan'[p] = [plan[p] EXCEPT !.fresh = @ \cup {i}]
        BY <3>1
      <4> QED
        BY <1>1, <4>1 DEF PlanRecords
    <3> QED
      BY <2>1, <3>1
  <2> QED
    BY <1>5, <2>2
<1>7. ASSUME PersonPauses \/ PersonResumes \/ WindowPasses \/ UNCHANGED planningVars PROVE FALSE
  <2>1. plan' = plan \/ plan' = [q \in Planners |->
          IF AtWork(q) THEN [plan[q] EXCEPT !.resumed = TRUE] ELSE plan[q]]
    BY <1>7 DEF PersonPauses, PersonResumes, WindowPasses, planningVars
  <2>2. plan'[p].at = plan[p].at
    <3>1. plan'[p] = plan[p] \/ plan'[p] = [plan[p] EXCEPT !.resumed = TRUE]
      BY <2>1
    <3> QED
      BY <1>1, <3>1 DEF PlanRecords
  <2> QED
    BY <1>5, <2>2
<1>8. PICK q \in Planners : Evaluate(q)
  BY <1>3, <1>4, <1>6, <1>7 DEF PlanningNext
<1>9. q = p
  <2>1. \E r : plan' = [plan EXCEPT ![q] = r]
    BY <1>8 DEF Evaluate
  <2> QED
    BY <1>2, <2>1
<1>10. plan[p].rejects >= MaxRejects
  <2> DEFINE v == Verdict(plan[p], failures)
  <2>1. plan'[p].block = v.block
    BY <1>1, <1>8, <1>9 DEF Evaluate, PlanRecords
  <2> QED
    BY <2>1 DEF Verdict
<1>11. plan[p].rejects <= Cardinality(RejectedSince(rows, resumedAt))
  BY <1>1 DEF PlanFits
<1>12. RejectedSince(rows, resumedAt) = {i \in Ids({"rejected"}) : rows[i].created >= resumedAt}
  BY DEF RejectedSince, Ids
<1>13. Cardinality(RejectedSince(rows, resumedAt)) \in Nat /\ plan[p].rejects \in Nat
  <2>1. RejectedSince(rows, resumedAt) \subseteq DOMAIN rows /\ IsFiniteSet(DOMAIN rows)
    BY DEF RejectedSince, PlanInvariant, PlanTypes, Book
  <2> QED
    BY <1>1, <2>1, FS_Subset, FS_CardinalityType DEF PlanRecords
<1> QED
  BY <1>10, <1>11, <1>12, <1>13, LimitsAreNumbers

\* Plans that are made one after the other respect the limits together, no lack of
\* room is noted twice, no row is written again, and what a person resumed counts anew.
THEOREM PlansCorrect == PlanningSpec => PlanningContract
<1>1. PlanningInit => PlanInvariant
  BY PlanningStarts
<1>2. PlanInvariant /\ [PlanningNext]_planningVars => PlanInvariant'
  BY PlanningKeeps
<1>3. PlanInvariant => PlansFitTogether /\ NotedOnce
  BY InvariantFitsTogether
<1>4. PlanInvariant /\ [PlanningNext]_planningVars => RowsAreNeverRewritten /\ FreshStart
  BY RowsStay, StartsAreFresh
<1> QED
  BY <1>1, <1>2, <1>3, <1>4, PTL DEF PlanningSpec, PlanningContract

-----------------------------------------------------------------------------
(* The scheduled jobs.                                                   *)

\* The key of a worker is one of the keys of the ledger.
LEMMA KeyOfWorker ==
  ASSUME TypeOK, NEW w \in Workers
  PROVE  KeyOf(w) \in Keys
  BY DEF TypeOK, Worker, KeyOf, Keys

\* What any step of a worker does to the ledger: nothing, the upsert of its own
\* claim, or the result of the run it owns.
LEMMA LedgerStep ==
  ASSUME TypeOK, [Next]_vars, ledger' # ledger \/ reporter' # reporter
  PROVE  \E w \in Workers : Claim(w) \/ Settle(w)
  BY DEF Next, WorkerStep, Tick, Start, Skip, Operate, LoseLease, Escape, Crash,
         Restart, vars

\* A counter of a function of counters may be raised.
LEMMA CountGrows ==
  ASSUME NEW S, NEW f \in [S -> Nat], NEW x
  PROVE  [f EXCEPT ![x] = @ + 1] \in [S -> Nat]
<1>1. CASE x \in S
  <2>1. f[x] \in Nat
    BY <1>1
  <2>2. f[x] + 1 \in Nat
    BY <2>1
  <2> QED
    BY <2>2
<1>2. CASE x \notin S
  BY <1>2
<1> QED
  BY <1>1, <1>2

\* Rows, workers and counters keep their types.
THEOREM TypeCorrect == Spec => []TypeOK
<1> USE ScheduledAssumption
<1>1. Init => TypeOK
  BY DEF Init, TypeOK, Row, NoRow, Worker, Resting, Times, Results, Phases, NoToken
<1>2. TypeOK /\ [Next]_vars => TypeOK'
  <2> SUFFICES ASSUME TypeOK, [Next]_vars PROVE TypeOK'
    OBVIOUS
  <2>1. CASE Tick
    BY <2>1 DEF Tick, TypeOK, Times
  <2>2. ASSUME NEW w \in Workers, NEW s \in Slots, Start(w, s) PROVE TypeOK'
    <3>1. tokens + 1 \in Tokens
      BY <2>2 DEF Start, TypeOK, Tokens
    <3>2. s \in Times /\ now \in Times
      BY DEF TypeOK, Times
    <3>3. worker' \in [Workers -> Worker]
      BY <2>2, <3>1, <3>2 DEF Start, TypeOK, Worker, Phases, Results
    <3> QED
      BY <2>2, <3>1, <3>3 DEF Start, TypeOK, Tokens
  <2>3. ASSUME NEW w \in Workers, Claim(w) PROVE TypeOK'
    <3>1. worker[w].token \in Tokens \cup {NoToken} /\ worker[w].started \in Times
      BY DEF TypeOK, Worker
    <3>2. ledger[KeyOf(w)] \in Row
      BY KeyOfWorker DEF TypeOK
    <3>3. Claimed(ledger[KeyOf(w)], w) \in Row
      BY <3>1, <3>2 DEF Claimed, Row, Times
    <3>4. ledger' \in [Keys -> Row]
      BY <2>3, <3>3 DEF Claim, TypeOK
    <3>5. worker' \in [Workers -> Worker]
      BY <2>3 DEF Claim, TypeOK, Worker, Phases
    <3> QED
      BY <2>3, <3>4, <3>5 DEF Claim, TypeOK
  <2>4. Resting \in Worker /\ [Resting EXCEPT !.phase = "down"] \in Worker
    BY DEF Resting, Worker, Phases, Times, Results, NoToken
  <2>5. ASSUME NEW w \in Workers, Operate(w) PROVE TypeOK'
    <3>1. PICK result \in Results :
            /\ worker' = [worker EXCEPT ![w].phase = "settle", ![w].result = result]
            /\ runs' = IF result = "succeeded"
                       THEN [runs EXCEPT ![worker[w].slot] = @ + 1] ELSE runs
      BY <2>5 DEF Operate
    <3>2. worker' \in [Workers -> Worker]
      BY <3>1, ZenonT(60) DEF TypeOK, Worker, Phases
    <3>3. runs' \in [Slots -> Nat]
      <4>1. runs \in [Slots -> Nat]
        BY DEF TypeOK
      <4>2. [runs EXCEPT ![worker[w].slot] = @ + 1] \in [Slots -> Nat]
        BY <4>1, CountGrows
      <4> QED
        BY <3>1, <4>1, <4>2
    <3> QED
      BY <2>5, <3>2, <3>3 DEF Operate, TypeOK
  <2>6. ASSUME NEW w \in Workers, Settle(w) PROVE TypeOK'
    <3>1. ledger' \in [Keys -> Row]
      BY <2>6, ZenonT(60) DEF Settle, TypeOK, Row, Worker
    <3>2. reporter' \in [Keys -> Tokens \cup {NoToken}]
      BY <2>6 DEF Settle, TypeOK, Worker
    <3> QED
      BY <2>4, <2>6, <3>1, <3>2 DEF Settle, TypeOK
  <2>7. ASSUME NEW w \in Workers, Skip(w) \/ LoseLease(w) \/ Restart(w) PROVE TypeOK'
    BY <2>4, <2>7 DEF Skip, LoseLease, Restart, TypeOK
  <2>8. ASSUME NEW w \in Workers, Escape(w) \/ Crash(w) PROVE TypeOK'
    BY <2>4, <2>8 DEF Escape, Crash, TypeOK
  <2>9. CASE UNCHANGED vars
    BY <2>9 DEF vars, TypeOK
  <2> QED
    BY <2>1, <2>2, <2>3, <2>5, <2>6, <2>7, <2>8, <2>9 DEF Next, WorkerStep
<1> QED
  BY <1>1, <1>2, PTL DEF Spec

-----------------------------------------------------------------------------
Busy(w) == worker[w].phase \in {"claim", "run", "settle"}

\* Every run has a token of its own, drawn before now; a run that has not claimed
\* yet is nowhere in the ledger.
TokensAreFresh ==
  /\ \A w \in Workers : Busy(w) => worker[w].token \in 1..tokens /\ worker[w].started <= now
  /\ \A v, w \in Workers : Busy(v) /\ Busy(w) /\ worker[v].token = worker[w].token => v = w
  /\ \A k \in Keys : ledger[k].owner <= tokens
  /\ \A w \in Workers, k \in Keys :
       worker[w].phase = "claim" => ledger[k].owner # worker[w].token

\* A row that its owner still works on expires with the owner's lease.
ExpiryIsOwners ==
  \A w \in Workers :
    Active(w) /\ Owns(w) => ledger[KeyOf(w)].expires = worker[w].started + Lease

Inv == TypeOK /\ TokensAreFresh /\ ExpiryIsOwners /\ LeaseIsRespected

\* The invariant holds initially.
LEMMA InvInit == Init => Inv
<1> SUFFICES ASSUME Init PROVE TokensAreFresh /\ ExpiryIsOwners /\ LeaseIsRespected /\ TypeOK
  BY DEF Inv
<1>1. TypeOK
  BY ScheduledAssumption
  DEF Init, TypeOK, Row, NoRow, Worker, Resting, Times, Results, Phases, NoToken
<1>2. \A w \in Workers : ~ Busy(w) /\ ~ Active(w)
  BY DEF Init, Busy, Active, Resting
<1>3. \A w \in Workers : worker[w].phase # "claim"
  BY DEF Init, Resting
<1>4. \A k \in Keys : ledger[k].owner <= tokens
  BY DEF Init, NoRow, NoToken
<1> QED
  BY <1>1, <1>2, <1>3, <1>4 DEF TokensAreFresh, ExpiryIsOwners, LeaseIsRespected

\* Tokens stay fresh: a token is drawn once, and only its run writes it.
LEMMA TokensStayFresh ==
  ASSUME TypeOK, TypeOK', TokensAreFresh, [Next]_vars
  PROVE  TokensAreFresh'
<1> USE DEF TokensAreFresh
<1>1. tokens \in Nat /\ now \in Nat
  BY ScheduledAssumption DEF TypeOK, Times
<1>2. CASE Tick
  <2>1. \A w \in Workers : worker[w].started \in Nat
    BY DEF TypeOK, Worker, Times
  <2> QED
    BY <1>1, <1>2, <2>1 DEF Tick, Busy
<1>3. ASSUME NEW w \in Workers, NEW s \in Slots, Start(w, s) PROVE TokensAreFresh'
  <2>1. /\ tokens' = tokens + 1 /\ now' = now /\ ledger' = ledger
        /\ worker'[w].token = tokens + 1 /\ worker'[w].started = now
        /\ worker'[w].phase = "claim"
        /\ \A v \in Workers : v # w => worker'[v] = worker[v]
    BY <1>3 DEF Start, TypeOK
  <2>2. \A v \in Workers : Busy(v) => worker[v].token \in 1..tokens
    OBVIOUS
  <2>3. \A k \in Keys : ledger[k].owner \in Nat /\ ledger[k].owner <= tokens
    BY DEF TypeOK, Row, Tokens, NoToken
  <2> QED
    BY <1>1, <2>1, <2>2, <2>3 DEF Busy
<1>4. ASSUME NEW w \in Workers, Claim(w) PROVE TokensAreFresh'
  <2>1. /\ tokens' = tokens /\ now' = now
        /\ worker[w].phase = "claim" /\ worker'[w].phase = "run"
        /\ worker'[w].token = worker[w].token /\ worker'[w].started = worker[w].started
        /\ \A v \in Workers : v # w => worker'[v] = worker[v]
    BY <1>4 DEF Claim, TypeOK, Worker
  <2>2. /\ ledger'[KeyOf(w)].owner = worker[w].token
        /\ \A k \in Keys : k # KeyOf(w) => ledger'[k] = ledger[k]
    BY <1>4, KeyOfWorker DEF Claim, Claimed, TypeOK
  <2>3. worker[w].token \in 1..tokens
    BY <2>1 DEF Busy
  <2>4. \A v \in Workers : v # w /\ Busy(v) => worker[v].token # worker[w].token
    BY <2>1 DEF Busy
  <2> QED
    BY <1>1, <2>1, <2>2, <2>3, <2>4 DEF Busy
<1>5. ASSUME NEW w \in Workers, Settle(w) PROVE TokensAreFresh'
  <2>1. /\ tokens' = tokens /\ now' = now /\ worker'[w] = Resting
        /\ \A v \in Workers : v # w => worker'[v] = worker[v]
    BY <1>5 DEF Settle, TypeOK
  <2>2. \A k \in Keys : ledger'[k].owner = ledger[k].owner
    BY <1>5 DEF Settle, TypeOK, Row
  <2> QED
    BY <2>1, <2>2 DEF Busy, Resting
<1>6. ASSUME NEW w \in Workers,
             Skip(w) \/ LoseLease(w) \/ Escape(w) \/ Crash(w) \/ Restart(w)
      PROVE  TokensAreFresh'
  <2>1. /\ tokens' = tokens /\ now' = now /\ ledger' = ledger
        /\ worker'[w].phase \in {"idle", "down"}
        /\ \A v \in Workers : v # w => worker'[v] = worker[v]
    BY <1>6 DEF Skip, LoseLease, Escape, Crash, Restart, Resting, TypeOK
  <2> QED
    BY <2>1 DEF Busy
<1>7. ASSUME NEW w \in Workers, Operate(w) PROVE TokensAreFresh'
  <2>1. /\ tokens' = tokens /\ now' = now /\ ledger' = ledger
        /\ worker[w].phase = "run" /\ worker'[w].phase = "settle"
        /\ worker'[w].token = worker[w].token /\ worker'[w].started = worker[w].started
        /\ \A v \in Workers : v # w => worker'[v] = worker[v]
    BY <1>7 DEF Operate, TypeOK, Worker
  <2> QED
    BY <2>1 DEF Busy
<1>8. CASE UNCHANGED vars
  BY <1>8 DEF vars, Busy
<1> QED
  BY <1>2, <1>3, <1>4, <1>5, <1>6, <1>7, <1>8 DEF Next, WorkerStep

\* A step that leaves the ledger and the active workers alone, or takes a worker
\* out of its operation, keeps what is said of leases.
LEMMA QuietStep ==
  ASSUME TypeOK, ExpiryIsOwners, LeaseIsRespected, ledger' = ledger, now' \in Nat, now' >= now,
         \A v \in Workers : Active(v)' =>
           /\ Active(v)
           /\ worker'[v].token = worker[v].token
           /\ worker'[v].started = worker[v].started
  PROVE  ExpiryIsOwners' /\ LeaseIsRespected'
<1> SUFFICES ASSUME NEW v \in Workers, Active(v)'
             PROVE  /\ Owns(v)' => ledger'[KeyOf(v)'].expires = worker'[v].started + Lease
                    /\ Owns(v)' \/ worker'[v].started + Lease <= now'
  BY DEF ExpiryIsOwners, LeaseIsRespected
<1>1. /\ Active(v)
      /\ worker'[v].token = worker[v].token
      /\ worker'[v].started = worker[v].started
  OBVIOUS
<1>2. KeyOf(v)' = KeyOf(v) /\ Owns(v)' = Owns(v)
  BY <1>1 DEF KeyOf, Owns
<1>3. now \in Nat /\ worker[v].started + Lease \in Nat
  BY ScheduledAssumption DEF TypeOK, Worker, Times
<1> QED
  BY <1>1, <1>2, <1>3 DEF ExpiryIsOwners, LeaseIsRespected

\* Leases are respected by every step: a claim takes over a row only when its
\* lease ran out before the claimer started, and a result is written by the owner.
LEMMA LeasesStayRespected ==
  ASSUME Inv, TypeOK', [Next]_vars
  PROVE  ExpiryIsOwners' /\ LeaseIsRespected'
<1> USE DEF Inv
<1>1. now \in Nat /\ now' \in Nat /\ Lease \in Nat
      /\ \A v \in Workers : worker[v].started \in Nat /\ worker'[v].started \in Nat
  BY ScheduledAssumption DEF TypeOK, Worker, Times
<1>2. CASE Tick \/ UNCHANGED vars
  <2>1. ledger' = ledger /\ worker' = worker /\ now' >= now
    BY <1>1, <1>2 DEF Tick, vars
  <2> QED
    BY <1>1, <2>1, QuietStep DEF Active
<1>3. ASSUME NEW w \in Workers,
             \/ \E s \in Slots : Start(w, s)
             \/ Skip(w) \/ Operate(w) \/ LoseLease(w) \/ Escape(w) \/ Crash(w) \/ Restart(w)
      PROVE  ExpiryIsOwners' /\ LeaseIsRespected'
  <2>1. ledger' = ledger /\ now' = now
        /\ \A v \in Workers : v # w => worker'[v] = worker[v]
    BY <1>3 DEF Start, Skip, Operate, LoseLease, Escape, Crash, Restart, TypeOK
  <2>2. \/ ~ Active(w)'
        \/ /\ Active(w)
           /\ worker'[w].token = worker[w].token
           /\ worker'[w].started = worker[w].started
    <3>1. CASE Operate(w)
      BY <3>1 DEF Operate, Active, TypeOK, Worker
    <3>2. CASE \E s \in Slots : Start(w, s)
      BY <3>2 DEF Start, Active, TypeOK
    <3>3. CASE Skip(w) \/ LoseLease(w) \/ Escape(w) \/ Crash(w) \/ Restart(w)
      BY <3>3 DEF Skip, LoseLease, Escape, Crash, Restart, Resting, Active, TypeOK
    <3> QED
      BY <1>3, <3>1, <3>2, <3>3
  <2>3. \A v \in Workers : Active(v)' =>
           /\ Active(v)
           /\ worker'[v].token = worker[v].token
           /\ worker'[v].started = worker[v].started
    BY <2>1, <2>2 DEF Active
  <2> QED
    BY <1>1, <2>1, <2>3, QuietStep
<1>4. ASSUME NEW w \in Workers, Claim(w) PROVE ExpiryIsOwners' /\ LeaseIsRespected'
  <2>1. /\ now' = now
        /\ worker[w].phase = "claim" /\ worker'[w].phase = "run"
        /\ worker'[w].token = worker[w].token /\ worker'[w].started = worker[w].started
        /\ \A v \in Workers : v # w => worker'[v] = worker[v]
    BY <1>4 DEF Claim, TypeOK, Worker
  <2>2. /\ ledger'[KeyOf(w)] = Claimed(ledger[KeyOf(w)], w)
        /\ \A k \in Keys : k # KeyOf(w) => ledger'[k] = ledger[k]
    BY <1>4, KeyOfWorker DEF Claim, TypeOK
  <2>3. KeyOf(w)' = KeyOf(w) /\ Owns(w)'
        /\ ledger'[KeyOf(w)'].expires = worker'[w].started + Lease
    BY <2>1, <2>2 DEF KeyOf, Owns, Claimed
  <2>4. worker[w].started <= now
    BY <2>1 DEF TokensAreFresh, Busy
  <2>5. ASSUME NEW v \in Workers, v # w, Active(v)'
        PROVE  /\ Owns(v)' => ledger'[KeyOf(v)'].expires = worker'[v].started + Lease
               /\ Owns(v)' \/ worker'[v].started + Lease <= now'
    <3>1. worker'[v] = worker[v] /\ KeyOf(v)' = KeyOf(v) /\ Active(v) /\ KeyOf(v) \in Keys
      BY <2>1, <2>5, KeyOfWorker DEF KeyOf, Active
    <3>2. CASE KeyOf(v) # KeyOf(w)
      <4>1. Owns(v)' = Owns(v)
        BY <2>2, <3>1, <3>2 DEF Owns
      <4> QED
        BY <2>1, <2>2, <3>1, <3>2, <4>1 DEF ExpiryIsOwners, LeaseIsRespected
    <3>3. CASE KeyOf(v) = KeyOf(w)
      <4>1. worker[v].token # worker[w].token
        BY <2>1, <2>5, <3>1 DEF TokensAreFresh, Busy, Active
      <4>2. ~ Owns(v)'
        BY <2>2, <3>1, <3>3, <4>1 DEF Owns, Claimed
      <4>3. worker[v].started + Lease <= now
        <5>1. CASE Owns(v)
          <6>1. ledger[KeyOf(w)].expires <= worker[w].started
            BY <1>4, <3>3, <5>1 DEF Claim, Claimable, Owns
          <6>2. ledger[KeyOf(w)].expires = worker[v].started + Lease
            BY <3>1, <3>3, <5>1 DEF ExpiryIsOwners
          <6> QED
            BY <1>1, <2>4, <6>1, <6>2
        <5>2. CASE ~ Owns(v)
          BY <3>1, <5>2 DEF LeaseIsRespected
        <5> QED
          BY <5>1, <5>2
      <4> QED
        BY <2>1, <3>1, <4>2, <4>3
    <3> QED
      BY <3>2, <3>3
  <2> QED
    BY <2>3, <2>5 DEF ExpiryIsOwners, LeaseIsRespected
<1>5. ASSUME NEW w \in Workers, Settle(w) PROVE ExpiryIsOwners' /\ LeaseIsRespected'
  <2>1. /\ now' = now /\ worker'[w] = Resting
        /\ \A v \in Workers : v # w => worker'[v] = worker[v]
        /\ \A k \in Keys : k # KeyOf(w) => ledger'[k] = ledger[k]
        /\ worker[w].phase = "settle" /\ Owns(w)
    BY <1>5 DEF Settle, TypeOK
  <2>2. ~ Active(w)'
    BY <2>1 DEF Active, Resting
  <2>3. ASSUME NEW v \in Workers, Active(v)'
        PROVE  /\ Owns(v)' => ledger'[KeyOf(v)'].expires = worker'[v].started + Lease
               /\ Owns(v)' \/ worker'[v].started + Lease <= now'
    <3>1. /\ v # w /\ worker'[v] = worker[v] /\ KeyOf(v)' = KeyOf(v)
          /\ Active(v) /\ KeyOf(v) \in Keys
      BY <2>1, <2>2, <2>3, KeyOfWorker DEF KeyOf, Active
    <3>2. CASE KeyOf(v) # KeyOf(w)
      <4>1. Owns(v)' = Owns(v)
        BY <2>1, <3>1, <3>2 DEF Owns
      <4> QED
        BY <2>1, <3>1, <3>2, <4>1 DEF ExpiryIsOwners, LeaseIsRespected
    <3>3. CASE KeyOf(v) = KeyOf(w)
      <4>1. worker[v].token # worker[w].token
        BY <2>1, <3>1 DEF TokensAreFresh, Busy, Active
      <4>2. ~ Owns(v)
        BY <2>1, <3>3, <4>1 DEF Owns
      <4>3. ledger'[KeyOf(w)].owner = ledger[KeyOf(w)].owner
        BY <1>5, KeyOfWorker DEF Settle, TypeOK, Row
      <4>4. ~ Owns(v)'
        BY <2>1, <3>1, <3>3, <4>1, <4>3 DEF Owns
      <4>5. worker[v].started + Lease <= now
        BY <3>1, <4>2 DEF LeaseIsRespected
      <4> QED
        BY <2>1, <3>1, <4>4, <4>5
    <3> QED
      BY <3>2, <3>3
  <2> QED
    BY <2>3 DEF ExpiryIsOwners, LeaseIsRespected
<1> QED
  BY <1>2, <1>3, <1>4, <1>5 DEF Next, WorkerStep

\* The inductive invariant of the claims.
THEOREM InvCorrect == Spec => []Inv
<1>1. Inv /\ TypeOK' /\ [Next]_vars => Inv'
  BY TokensStayFresh, LeasesStayRespected DEF Inv
<1> QED
  BY <1>1, InvInit, TypeCorrect, PTL DEF Spec

\* A worker that is still at its operation holds its key, unless its lease has run
\* out: no valid lease is taken away.
THEOREM LeaseCorrect == Spec => []LeaseIsRespected
<1>1. Inv => LeaseIsRespected
  BY DEF Inv
<1> QED
  BY <1>1, InvCorrect, PTL

-----------------------------------------------------------------------------
\* A claim is a grant of the abstract ledger, to a run that does not hold the key.
LEMMA ClaimGrants ==
  ASSUME Inv, NEW w \in Workers, Claim(w),
         NEW k, k = KeyOf(w), NEW h, h = worker[w].token
  PROVE  Ledger!Grant(k, h)
<1>1. KeyOf(w) \in Keys /\ worker[w].phase = "claim"
  BY KeyOfWorker DEF Inv, Claim
<1>2. /\ ledger \in [Keys -> Row]
      /\ ledger' = [ledger EXCEPT ![KeyOf(w)] = Claimed(@, w)]
      /\ reporter' = reporter
  BY DEF Inv, TypeOK, Claim
<1>3. Claimable(ledger[KeyOf(w)], worker[w].started)
  BY DEF Claim
<1>4. ledger[KeyOf(w)].owner # worker[w].token /\ worker[w].token # NoToken
  <2>1. worker[w].token \in 1..tokens
    BY <1>1 DEF Inv, TokensAreFresh, Busy
  <2>2. tokens \in Nat
    BY DEF Inv, TypeOK
  <2> QED
    BY <1>1, <2>1, <2>2 DEF Inv, TokensAreFresh, NoToken
<1> QED
  BY <1>1, <1>2, <1>3, <1>4
  DEF Ledger!Grant, Ledger!Final, Claimable, Claimed, NoToken

\* The report of the owner is a report of the abstract ledger.
LEMMA SettleReports ==
  ASSUME Inv, NEW w \in Workers, Settle(w),
         NEW k, k = KeyOf(w), NEW h, h = worker[w].token, NEW result, result = worker[w].result
  PROVE  Ledger!Report(k, h, result)
<1>1. KeyOf(w) \in Keys
  BY KeyOfWorker DEF Inv
<1>2. /\ ledger \in [Keys -> Row] /\ Owns(w)
      /\ ledger' = [ledger EXCEPT ![KeyOf(w)].state = worker[w].result]
      /\ reporter' = [reporter EXCEPT ![KeyOf(w)] = worker[w].token]
      /\ worker[w].result \in Results
  BY DEF Inv, TypeOK, Worker, Settle
<1> QED
  BY <1>1, <1>2 DEF Ledger!Report, Ledger!Nobody, Owns, Row, Results, NoToken

\* The claims keep the promise of the abstract ledger.
THEOREM LedgerCorrect == Spec => KeepsLedger
<1>1. Init => Ledger!LedgerInit
  BY DEF Init, NoRow, NoToken, Ledger!LedgerInit, Ledger!Nobody
<1>2. Inv /\ [Next]_vars => [Ledger!LedgerNext]_Ledger!ledgerVars
  <2> SUFFICES ASSUME Inv, [Next]_vars
               PROVE  [Ledger!LedgerNext]_Ledger!ledgerVars
    OBVIOUS
  <2>1. CASE ledger' = ledger /\ reporter' = reporter
    BY <2>1 DEF Ledger!ledgerVars
  <2>2. CASE ledger' # ledger \/ reporter' # reporter
    <3>1. PICK w \in Workers : Claim(w) \/ Settle(w)
      BY <2>2, LedgerStep DEF Inv
    <3>2. KeyOf(w) \in Keys /\ worker[w].result \in Results
      BY KeyOfWorker DEF Inv, TypeOK, Worker
    <3>3. worker[w].token \in Tokens
      <4>1. Busy(w)
        BY <3>1 DEF Claim, Settle, Busy
      <4>2. worker[w].token \in 1..tokens /\ tokens \in 0..MaxRuns
        BY <4>1 DEF Inv, TypeOK, TokensAreFresh
      <4> QED
        BY <4>2, ScheduledAssumption DEF Tokens
    <3>4. PICK k \in Keys, h \in Tokens, result \in Results :
            k = KeyOf(w) /\ h = worker[w].token /\ result = worker[w].result
      BY <3>2, <3>3
    <3>5. Ledger!Grant(k, h) \/ Ledger!Report(k, h, result)
      BY <3>1, <3>4, ClaimGrants, SettleReports
    <3>6. result \in Ledger!Final \cup {"failed"}
      BY DEF Ledger!Final, Results
    <3> QED
      BY <3>5, <3>6 DEF Ledger!LedgerNext
  <2> QED
    BY <2>1, <2>2
<1> QED
  BY <1>1, <1>2, InvCorrect, PTL DEF Spec, KeepsLedger, Ledger!LedgerSpec
===============================================================================
