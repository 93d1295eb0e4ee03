------------------------------ MODULE Strategies ------------------------------
(*************************************************************************)
(* The pure rules of the strategies: which symbols a round selects and   *)
(* when a moving-average signal is given (src/backend/src/auto_stock_    *)
(* trading/domain/strategies).  A series of closes is a sequence with    *)
(* one entry per trading day, NoClose on a day without a confirmed bar;  *)
(* returns are compared as exact fractions.                              *)
(*************************************************************************)
EXTENDS Integers, Sequences, FiniteSetsExt, SequencesExt

NoClose == 0

Ratio(n, d) == [n |-> n, d |-> d]
Greater(x, y) == x.n * y.d > y.n * x.d

\* The place of every symbol: the best value first, equals by their symbol.
\* symbols is the alphabet in order.
PlaceOf(symbols, s) == CHOOSE i \in DOMAIN symbols : symbols[i] = s
InOrder(symbols, chosen, value) ==
  SetToSortSeq(chosen, LAMBDA x, y : \/ Greater(value[x], value[y])
                                     \/ ~ Greater(value[y], value[x]) /\ PlaceOf(symbols, x) < PlaceOf(symbols, y))

Firsts(seq, k) == SubSeq(seq, 1, IF k < Len(seq) THEN k ELSE Len(seq))
\* The symbols next in the ranking, which a holder may keep.
Band(seq, k) == SubSeq(seq, k + 1, IF 2 * k < Len(seq) THEN 2 * k ELSE Len(seq))

-----------------------------------------------------------------------------
\* momentum.py: the close over the close lookback days before (the return plus one).

HasMomentum(closes, day, basis) == closes[day] # NoClose /\ closes[basis] # NoClose
Momentum(closes, day, basis) == Ratio(closes[day], closes[basis])
Gained(return) == return.n > return.d

RankedByMomentum(symbols, series, day, basis) ==
  LET candidates == {s \in DOMAIN series : HasMomentum(series[s], day, basis)}
  IN  InOrder(symbols, candidates, [s \in candidates |-> Momentum(series[s], day, basis)])

-----------------------------------------------------------------------------
\* etf_allocation.py: who lost takes shelter in the proxy for cash, and one place
\* is enough for it.

Sheltered(ranked, k, series, day, basis, proxy) ==
  LET place(s) == IF Gained(Momentum(series[s], day, basis)) THEN s ELSE proxy
      fold(chosen, s) == IF place(s) \in ToSet(chosen) THEN chosen ELSE Append(chosen, place(s))
  IN  FoldLeft(fold, <<>>, Firsts(ranked, k))

-----------------------------------------------------------------------------
\* composite_rank.py: annual reports [year, receipt, filed, roe, eps], Unknown where
\* an account is missing.

Unknown == -1000

Later(x, y) == x.year > y.year \/ (x.year = y.year /\ x.receipt > y.receipt)
UsableOn(facts, day) == {f \in facts : f.filed < day}
PointInTime(usable) == CHOOSE f \in usable : \A g \in usable \ {f} : Later(f, g)

IsCandidate(closes, facts, day, basis) ==
  /\ UsableOn(facts, day) # {}
  /\ LET f == PointInTime(UsableOn(facts, day)) IN f.roe # Unknown /\ f.eps # Unknown
  /\ HasMomentum(closes, day, basis)

\* Twice the rank: the first and the last place of all the symbols of one value.
SharedRank(value, s) ==
  LET better == Cardinality({t \in DOMAIN value : Greater(value[t], value[s])})
      equals == Cardinality({t \in DOMAIN value : ~ Greater(value[t], value[s]) /\ ~ Greater(value[s], value[t])})
  IN  2 * better + equals + 1

CompositeRanked(symbols, series, facts, day, basis) ==
  LET candidates == {s \in DOMAIN series : IsCandidate(series[s], facts[s], day, basis)}
      known(s) == PointInTime(UsableOn(facts[s], day))
      earnings == [s \in candidates |-> Ratio(known(s).eps, series[s][day])]
      quality == [s \in candidates |-> Ratio(known(s).roe, 1)]
      momentum == [s \in candidates |-> Momentum(series[s], day, basis)]
      score(s) == SharedRank(earnings, s) + SharedRank(quality, s) + SharedRank(momentum, s)
  IN  InOrder(symbols, candidates, [s \in candidates |-> Ratio(-score(s), 1)])

-----------------------------------------------------------------------------
\* ma_rsi.py and indicators.py: moving averages as sums, Wilder's averages of gains
\* and losses as sums over a common denominator.

SumOf(closes, day, period) == FoldSet(LAMBDA i, x : x + closes[i], 0, day - period + 1 .. day)

\* The short average against the long one: positive when above.
Spread(closes, day, short, long) == SumOf(closes, day, short) * long - SumOf(closes, day, long) * short

Rise(closes, i) == IF closes[i] > closes[i - 1] THEN closes[i] - closes[i - 1] ELSE 0
Fall(closes, i) == IF closes[i] < closes[i - 1] THEN closes[i - 1] - closes[i] ELSE 0

Wilder(step(_, _), closes, period, day) ==
  LET average[i \in period + 1 .. day] ==
        IF i = period + 1
        THEN FoldSet(LAMBDA j, x : x + step(closes, j), 0, 2 .. i)
        ELSE average[i - 1] * (period - 1) + step(closes, i) * period ^ (i - period - 1)
  IN  average[day]

\* rsi >= limit, without a division: 50 when nothing moved.
Overbought(closes, day, period, limit) ==
  LET gain == Wilder(Rise, closes, period, day)
      loss == Wilder(Fall, closes, period, day)
  IN  IF gain = 0 /\ loss = 0 THEN 50 >= limit ELSE 100 * gain >= limit * (gain + loss)

MaRsiSignal(closes, day, short, long, period, limit) ==
  IF day - 1 < long \/ day - 1 < period THEN "none"
  ELSE LET before == Spread(closes, day - 1, short, long)
           now == Spread(closes, day, short, long)
       IN  IF (before >= 0 /\ now < 0) \/ Overbought(closes, day, period, limit) THEN "sell"
           ELSE IF before <= 0 /\ now > 0 THEN "buy"
           ELSE "none"
===============================================================================
