---------------------------- MODULE RepairProofs ----------------------------
(*************************************************************************)
(* One order and the five who may write its row: for any number of       *)
(* fills, revisions, attestations, replays and explanations, in any      *)
(* order.                                                                *)
(*************************************************************************)
EXTENDS OrderRepair, SumTheorems, WellFoundedInduction, TLAPS

Kinds == {"execution", "cancel", "revision"}

\* Notifications while the broker has given len numbers.
Notices(len) ==
  {n \in [kind : Kinds, own : 0..len, number : 1..len, quantity : Nat, orderQuantity : Nat] :
     /\ n.kind = "cancel" => n.quantity > 0
     /\ n.kind = "execution" => n.own = n.number}

Frames(len) == {f \in Seq(Notices(len)) : f # <<>>}

StoredNotices(len) ==
  {s \in [frame : Frames(len), i : Nat, problem : BOOLEAN, resolved : BOOLEAN] : s.i \in 1..Len(s.frame)}

RowStates == {"submitted", "partially_filled", "filled", "canceled"}

OrderRows(len) == [state : RowStates, quantity : Nat, filled : Nat, number : 1..len]

BookRow == [quantity : Nat, filled : Nat, open : BOOLEAN]

\* What each sum of the model adds up.
Queued(frames, kind) == SumFunction([k \in DOMAIN frames |-> InFrame(frames[k], 1, kind)])

Hand(l, kind) == IF l.at = "idle" THEN 0 ELSE InFrame(l.frame, l.i, kind)

WaitingIn(st) == {k \in DOMAIN st : st[k].problem /\ ~ st[k].resolved}

SumWaiting(st, kind) ==
  SumFunctionOnSet([k \in DOMAIN st |-> Amount(st[k].frame[st[k].i], kind)], WaitingIn(st))

FilledOf(b) == SumFunction([n \in 1..Len(b) |-> b[n].filled])
QuantityOf(b) == SumFunction([n \in 1..Len(b) |-> b[n].quantity])
-----------------------------------------------------------------------------
(* Sums over frames, channels, stored notifications and numbers.         *)

\* Amounts are naturals.
LEMMA AmountType ==
  ASSUME NEW len \in Nat, NEW n \in Notices(len), NEW kind
  PROVE  Amount(n, kind) \in Nat
  BY DEF Amount, Notices

\* The sums are those the sum theorems speak of.
LEMMA SumsAreTotals ==
  /\ \A f, i, kind : InFrame(f, i, kind) = Total([j \in DOMAIN f |-> Amount(f[j], kind)], i..Len(f))
  /\ \A c, kind : Queued(c, kind) = Total([k \in DOMAIN c |-> InFrame(c[k], 1, kind)], DOMAIN c)
  /\ \A st, kind : SumWaiting(st, kind) =
       Total([k \in DOMAIN st |-> Amount(st[k].frame[st[k].i], kind)], WaitingIn(st))
  /\ \A b : FilledOf(b) = Total([n \in 1..Len(b) |-> b[n].filled], 1..Len(b))
  /\ \A b : QuantityOf(b) = Total([n \in 1..Len(b) |-> b[n].quantity], 1..Len(b))
  BY DEF InFrame, Queued, SumWaiting, FilledOf, QuantityOf, SumFunction, Total

\* What is left of a frame is its next notification and the rest.
LEMMA FrameStep ==
  ASSUME NEW len \in Nat, NEW f \in Seq(Notices(len)), NEW i \in 1..Len(f), NEW kind
  PROVE  /\ InFrame(f, i, kind) = Amount(f[i], kind) + InFrame(f, i + 1, kind)
         /\ InFrame(f, i + 1, kind) \in Nat /\ Amount(f[i], kind) \in Nat
         /\ i = Len(f) => InFrame(f, i + 1, kind) = 0
<1> DEFINE a == [j \in DOMAIN f |-> Amount(f[j], kind)]
           S == i..Len(f)
           R == (i + 1)..Len(f)
<1>1. Len(f) \in Nat /\ DOMAIN f = 1..Len(f) /\ \A j \in 1..Len(f) : f[j] \in Notices(len)
  OBVIOUS
<1>2. \A j \in 1..Len(f) : a[j] \in Nat /\ a[j] = Amount(f[j], kind)
  BY <1>1, AmountType
<1>3. /\ i \in S /\ S \ {i} = R /\ S \subseteq 1..Len(f) /\ R \subseteq 1..Len(f)
      /\ i = Len(f) => R = {}
  <2> DEFINE m == Len(f)
  <2>1. i \in Nat /\ i >= 1 /\ m \in Nat /\ i <= m
    BY <1>1
  <2> HIDE DEF m
  <2>2. i \in i..m /\ (i..m) \ {i} = (i + 1)..m /\ i..m \subseteq 1..m /\ (i + 1)..m \subseteq 1..m
    BY <2>1
  <2>3. i = m => (i + 1)..m = {}
    BY <2>1
  <2> QED
    BY <2>2, <2>3 DEF m
<1>4. IsFiniteSet(S) /\ IsFiniteSet(R)
  <2>1. i \in Int /\ i + 1 \in Int /\ Len(f) \in Int
    BY <1>1
  <2> QED
    BY <2>1, FS_Interval
<1>5. InFrame(f, i, kind) = Total(a, S) /\ InFrame(f, i + 1, kind) = Total(a, R)
  BY SumsAreTotals
<1> HIDE DEF a, S, R
<1>9. (\A x \in S : a[x] \in Int) /\ (\A x \in R : a[x] \in Nat)
  BY <1>2, <1>3
<1>6. Total(a, S) = a[i] + Total(a, S \ {i})
  BY <1>9, <1>3, <1>4, SumOneOut
<1>7. Total(a, R) \in Nat
  BY <1>9, <1>4, SumNat
<1>8. Total(a, {}) = 0
  BY SumEmpty
<1> QED
  BY <1>2, <1>3, <1>5, <1>6, <1>7, <1>8

\* So is what is left of a frame,
LEMMA FrameType ==
  ASSUME NEW len \in Nat, NEW f \in Frames(len), NEW i \in 1..Len(f), NEW kind
  PROVE  InFrame(f, i, kind) \in Nat
  BY FrameStep DEF Frames

\* A frame of one notification, and one that a notification joins.
LEMMA FrameOne ==
  ASSUME NEW len \in Nat, NEW n \in Notices(len), NEW kind
  PROVE  InFrame(<<n>>, 1, kind) = Amount(n, kind)
<1> DEFINE f == <<n>>
<1>1. f \in Seq(Notices(len)) /\ Len(f) = 1 /\ f[1] = n /\ 1 \in 1..Len(f)
  OBVIOUS
<1>2. Amount(n, kind) \in Nat
  BY AmountType
<1> HIDE DEF f
<1>3. InFrame(f, 1, kind) = Amount(f[1], kind) + InFrame(f, 1 + 1, kind) /\ InFrame(f, 1 + 1, kind) = 0
  BY <1>1, FrameStep
<1> QED
  BY <1>1, <1>2, <1>3 DEF f

\* and a notification that joins a frame is added.
LEMMA FrameJoined ==
  ASSUME NEW len \in Nat, NEW f \in Frames(len), NEW n \in Notices(len), NEW kind
  PROVE  InFrame(Append(f, n), 1, kind) = InFrame(f, 1, kind) + Amount(n, kind)
<1> DEFINE m == Len(f)
           g == Append(f, n)
           a == [j \in DOMAIN f |-> Amount(f[j], kind)]
           b == [j \in DOMAIN g |-> Amount(g[j], kind)]
<1>1. /\ m \in Nat /\ DOMAIN f = 1..m /\ Len(g) = m + 1 /\ DOMAIN g = 1..(m + 1) /\ g[m + 1] = n
      /\ \A j \in 1..m : g[j] = f[j] /\ f[j] \in Notices(len)
  BY DEF Frames
<1>7. Amount(n, kind) \in Nat /\ \A j \in 1..m : Amount(f[j], kind) \in Nat
  BY <1>1, AmountType
<1>2. /\ \A j \in 1..m : b[j] = a[j] /\ a[j] \in Nat
      /\ b[m + 1] = Amount(n, kind) /\ Amount(n, kind) \in Nat
  <2>1. m + 1 \in 1..(m + 1) /\ \A j \in 1..m : j \in 1..(m + 1)
    BY <1>1
  <2>2. b[m + 1] = Amount(g[m + 1], kind)
    BY <1>1, <2>1
  <2>3. \A j \in 1..m : b[j] = Amount(g[j], kind) /\ a[j] = Amount(f[j], kind)
    BY <1>1, <2>1
  <2> QED
    BY <1>1, <1>7, <2>2, <2>3
<1>3. \A j \in 1..(m + 1) : b[j] \in Int
  <2> HIDE DEF m, b, a, g
  <2>1. \A j \in 1..(m + 1) : j \in 1..m \/ j = m + 1
    BY <1>1
  <2> QED
    BY <1>2, <2>1
<1>4. InFrame(f, 1, kind) = Total(a, 1..m) /\ InFrame(g, 1, kind) = Total(b, 1..(m + 1))
  BY <1>1, SumsAreTotals
<1> HIDE DEF m, g, a, b
<1>5. IsFiniteSet(1..m) /\ Total(b, 1..(m + 1)) = b[m + 1] + Total(b, 1..m)
  BY <1>1, <1>3, SumLast
<1>6. Total(b, 1..m) = Total(a, 1..m) /\ Total(a, 1..m) \in Nat
  <2> DEFINE S == 1..m
  <2>1. IsFiniteSet(S) /\ \A j \in S : b[j] = a[j] /\ a[j] \in Nat
    BY <1>2, <1>5
  <2> HIDE DEF S
  <2>2. Total(b, S) = Total(a, S) /\ Total(a, S) \in Nat
    BY <2>1, SumSame, SumNat
  <2> QED
    BY <2>2 DEF S
<1> QED
  BY <1>2, <1>4, <1>5, <1>6 DEF g

\* A channel of frames.
LEMMA QueuedType ==
  ASSUME NEW len \in Nat, NEW c \in Seq(Frames(len)), NEW kind
  PROVE  Queued(c, kind) \in Nat /\ \A k \in DOMAIN c : InFrame(c[k], 1, kind) \in Nat
<1> DEFINE q == [k \in DOMAIN c |-> InFrame(c[k], 1, kind)]
<1>1. Len(c) \in Nat /\ DOMAIN c = 1..Len(c) /\ \A k \in 1..Len(c) : c[k] \in Frames(len)
  OBVIOUS
<1>2. \A f \in Frames(len) : 1 \in 1..Len(f)
  BY DEF Frames
<1>3. \A k \in 1..Len(c) : InFrame(c[k], 1, kind) \in Nat
  BY <1>1, <1>2, FrameType
<1>4. \A k \in DOMAIN c : q[k] \in Nat
  BY <1>1, <1>3
<1>5. IsFiniteSet(DOMAIN c)
  <2>1. 1 \in Int /\ Len(c) \in Int
    BY <1>1
  <2> QED
    BY <1>1, <2>1, FS_Interval
<1>6. Queued(c, kind) = Total(q, DOMAIN c)
  BY SumsAreTotals
<1> HIDE DEF q
<1> QED
  BY <1>1, <1>3, <1>4, <1>5, <1>6, SumNat

\* An empty channel carries nothing.
LEMMA QueuedNone == \A kind : Queued(<<>>, kind) = 0
<1>1. DOMAIN <<>> = {}
  OBVIOUS
<1> QED
  BY <1>1, SumsAreTotals, SumEmpty

\* A frame comes last.
LEMMA QueuedMore ==
  ASSUME NEW len \in Nat, NEW c \in Seq(Frames(len)), NEW f \in Frames(len), NEW kind
  PROVE  Queued(Append(c, f), kind) = Queued(c, kind) + InFrame(f, 1, kind)
<1> DEFINE m == Len(c)
           d == Append(c, f)
           a == [k \in DOMAIN c |-> InFrame(c[k], 1, kind)]
           b == [k \in DOMAIN d |-> InFrame(d[k], 1, kind)]
<1>1. /\ m \in Nat /\ DOMAIN c = 1..m /\ DOMAIN d = 1..(m + 1) /\ d[m + 1] = f
      /\ \A k \in 1..m : d[k] = c[k] /\ c[k] \in Frames(len)
  OBVIOUS
<1>2. InFrame(f, 1, kind) \in Nat
  <2>1. 1 \in 1..Len(f)
    BY DEF Frames
  <2> QED
    BY <2>1, FrameType
<1>8. \A k \in DOMAIN c : InFrame(c[k], 1, kind) \in Nat
  BY QueuedType
<1>3. /\ \A k \in 1..m : b[k] = a[k] /\ a[k] \in Nat
      /\ b[m + 1] = InFrame(f, 1, kind)
  <2>1. m + 1 \in 1..(m + 1) /\ \A j \in 1..m : j \in 1..(m + 1)
    BY <1>1
  <2>2. b[m + 1] = InFrame(d[m + 1], 1, kind)
    BY <1>1, <2>1
  <2>3. \A j \in 1..m : b[j] = InFrame(d[j], 1, kind) /\ a[j] = InFrame(c[j], 1, kind)
    BY <1>1, <2>1
  <2> QED
    BY <1>1, <1>8, <2>2, <2>3
<1>4. \A k \in 1..(m + 1) : b[k] \in Int
  <2> HIDE DEF m, b, a, d
  <2>1. \A k \in 1..(m + 1) : k \in 1..m \/ k = m + 1
    BY <1>1
  <2> QED
    BY <1>2, <1>3, <2>1
<1>5. Queued(c, kind) = Total(a, 1..m) /\ Queued(d, kind) = Total(b, 1..(m + 1))
  BY <1>1, SumsAreTotals
<1> HIDE DEF m, d, a, b
<1>6. IsFiniteSet(1..m) /\ Total(b, 1..(m + 1)) = b[m + 1] + Total(b, 1..m)
  BY <1>1, <1>4, SumLast
<1>7. Total(b, 1..m) = Total(a, 1..m) /\ Total(a, 1..m) \in Nat
  <2> DEFINE S == 1..m
  <2>1. IsFiniteSet(S) /\ \A j \in S : b[j] = a[j] /\ a[j] \in Nat
    BY <1>3, <1>6
  <2> HIDE DEF S
  <2>2. Total(b, S) = Total(a, S) /\ Total(a, S) \in Nat
    BY <2>1, SumSame, SumNat
  <2> QED
    BY <2>2 DEF S
<1> QED
  BY <1>2, <1>3, <1>5, <1>6, <1>7 DEF d

\* The last frame grows.
LEMMA QueuedJoined ==
  ASSUME NEW len \in Nat, NEW c \in Seq(Frames(len)), c # <<>>, NEW n \in Notices(len), NEW kind
  PROVE  Queued([c EXCEPT ![Len(c)] = Append(@, n)], kind) = Queued(c, kind) + Amount(n, kind)
<1> DEFINE m == Len(c)
           d == [c EXCEPT ![Len(c)] = Append(@, n)]
           a == [k \in DOMAIN c |-> InFrame(c[k], 1, kind)]
           b == [k \in DOMAIN d |-> InFrame(d[k], 1, kind)]
           S == DOMAIN c
<1>1. /\ m \in 1..m /\ m \in Nat /\ S = 1..m /\ DOMAIN d = S /\ d[m] = Append(c[m], n) /\ c[m] \in Frames(len)
      /\ \A k \in S \ {m} : d[k] = c[k]
  OBVIOUS
<1>2. InFrame(d[m], 1, kind) = InFrame(c[m], 1, kind) + Amount(n, kind) /\ Amount(n, kind) \in Nat
  BY <1>1, FrameJoined, AmountType
<1>3. \A k \in S : InFrame(c[k], 1, kind) \in Nat
  BY QueuedType
<1>4. /\ \A k \in S : a[k] \in Int
      /\ \A k \in S \ {m} : a[k] = b[k]
      /\ a[m] \in Nat /\ b[m] = a[m] + Amount(n, kind)
  BY <1>1, <1>2, <1>3
<1>5. IsFiniteSet(S)
  <2>1. 1 \in Int /\ m \in Int
    BY <1>1
  <2> HIDE DEF m
  <2> QED
    BY <1>1, <2>1, FS_Interval
<1>6. Queued(c, kind) = Total(a, S) /\ Queued(d, kind) = Total(b, S)
  BY <1>1, SumsAreTotals
<1>7. Queued(c, kind) \in Nat
  BY QueuedType
<1>9. m \in S
  BY <1>1
<1> HIDE DEF m, d, a, b, S
<1>10. \A k \in S : a[k] \in Int /\ b[k] \in Int
  BY <1>2, <1>4
<1>8. Total(b, S) = Total(a, S) + b[m] - a[m]
  BY <1>4, <1>5, <1>9, <1>10, SumChange
<1> QED
  BY <1>2, <1>4, <1>6, <1>7, <1>8 DEF d

\* The first frame is taken.
LEMMA QueuedLess ==
  ASSUME NEW len \in Nat, NEW c \in Seq(Frames(len)), c # <<>>, NEW kind
  PROVE  Queued(c, kind) = InFrame(Head(c), 1, kind) + Queued(Tail(c), kind)
<1> DEFINE m == Len(c)
           d == Tail(c)
           a == [k \in DOMAIN c |-> InFrame(c[k], 1, kind)]
           b == [k \in DOMAIN d |-> InFrame(d[k], 1, kind)]
<1>1. /\ m \in Nat /\ m > 0 /\ DOMAIN c = 1..m /\ DOMAIN d = 1..(m - 1) /\ Head(c) = c[1] /\ 1 \in 1..m
      /\ \A k \in 1..(m - 1) : d[k] = c[k + 1] /\ k + 1 \in 1..m
  OBVIOUS
<1>5. \A k \in DOMAIN c : InFrame(c[k], 1, kind) \in Nat
  BY QueuedType
<1>2. \A k \in 1..m : a[k] = InFrame(c[k], 1, kind) /\ a[k] \in Int
  BY <1>1, <1>5
<1>3. \A k \in 1..(m - 1) : b[k] = a[k + 1]
  BY <1>1
<1>4. Queued(c, kind) = Total(a, 1..m) /\ Queued(d, kind) = Total(b, 1..(m - 1))
  BY <1>1, SumsAreTotals
<1>6. a[1] = InFrame(Head(c), 1, kind)
  BY <1>1, <1>2
<1> HIDE DEF m, a, b, d
<1>7. \A k \in 1..m : a[k] \in Int
  BY <1>2
<1>8. Total(a, 1..m) = a[1] + Total(b, 1..(m - 1))
  BY <1>1, <1>3, <1>7, SumFirst
<1> QED
  BY <1>4, <1>6, <1>8 DEF d

\* Stored notifications that wait.
LEMMA WaitingType ==
  ASSUME NEW len \in Nat, NEW st \in Seq(StoredNotices(len)), NEW kind
  PROVE  /\ SumWaiting(st, kind) \in Nat /\ IsFiniteSet(WaitingIn(st)) /\ WaitingIn(st) \subseteq DOMAIN st
         /\ \A k \in DOMAIN st : Amount(st[k].frame[st[k].i], kind) \in Nat
<1> DEFINE a == [k \in DOMAIN st |-> Amount(st[k].frame[st[k].i], kind)]
           S == WaitingIn(st)
<1>1. Len(st) \in Nat /\ DOMAIN st = 1..Len(st) /\ \A k \in 1..Len(st) : st[k] \in StoredNotices(len)
  OBVIOUS
<1>2. \A s \in StoredNotices(len) : s.frame[s.i] \in Notices(len)
  BY DEF StoredNotices, Frames
<1>3. \A k \in DOMAIN st : Amount(st[k].frame[st[k].i], kind) \in Nat
  BY <1>1, <1>2, AmountType
<1>4. S \subseteq DOMAIN st
  BY DEF WaitingIn
<1>5. IsFiniteSet(S)
  <2>1. 1 \in Int /\ Len(st) \in Int
    BY <1>1
  <2>2. IsFiniteSet(DOMAIN st)
    BY <1>1, <2>1, FS_Interval
  <2> QED
    BY <1>4, <2>2, FS_Subset
<1>6. \A k \in S : a[k] \in Nat
  BY <1>3, <1>4
<1>7. SumWaiting(st, kind) = Total(a, S)
  BY SumsAreTotals
<1> HIDE DEF a, S
<1>8. Total(a, S) \in Nat
  BY <1>5, <1>6, SumNat
<1> QED
  BY <1>3, <1>4, <1>5, <1>7, <1>8 DEF S

\* One more is stored.
LEMMA WaitingMore ==
  ASSUME NEW len \in Nat, NEW st \in Seq(StoredNotices(len)), NEW s \in StoredNotices(len), ~ s.resolved, NEW kind
  PROVE  SumWaiting(Append(st, s), kind) =
           SumWaiting(st, kind) + (IF s.problem THEN Amount(s.frame[s.i], kind) ELSE 0)
<1> DEFINE m == Len(st)
           d == Append(st, s)
           a == [k \in DOMAIN st |-> Amount(st[k].frame[st[k].i], kind)]
           b == [k \in DOMAIN d |-> Amount(d[k].frame[d[k].i], kind)]
           S == WaitingIn(st)
           R == WaitingIn(d)
<1>1. /\ m \in Nat /\ DOMAIN st = 1..m /\ DOMAIN d = 1..(m + 1) /\ d[m + 1] = s
      /\ \A k \in 1..m : d[k] = st[k]
  OBVIOUS
<1>2. S \subseteq 1..m /\ IsFiniteSet(S) /\ SumWaiting(st, kind) \in Nat /\ \A k \in S : a[k] \in Nat
  BY <1>1, WaitingType
<1>3. m + 1 \notin S /\ R = IF s.problem THEN S \cup {m + 1} ELSE S
  BY <1>1, <1>2 DEF WaitingIn
<1>4. Amount(s.frame[s.i], kind) \in Nat
  <2>1. s.frame[s.i] \in Notices(len)
    BY DEF StoredNotices, Frames
  <2> QED
    BY <2>1, AmountType
<1>5. b[m + 1] = Amount(s.frame[s.i], kind) /\ \A k \in S : b[k] = a[k]
  BY <1>1, <1>2
<1>6. SumWaiting(st, kind) = Total(a, S) /\ SumWaiting(d, kind) = Total(b, R)
  BY SumsAreTotals
<1> HIDE DEF m, d, a, b, S, R
<1>7. Total(b, S) = Total(a, S)
  BY <1>2, <1>5, SumSame
<1>8. Total(b, S \cup {m + 1}) = b[m + 1] + Total(b, S)
  <2>1. b[m + 1] \in Int /\ \A k \in S : b[k] \in Int
    BY <1>2, <1>4, <1>5
  <2> QED
    BY <1>2, <1>3, <2>1, SumOneMore
<1> QED
  BY <1>2, <1>3, <1>4, <1>5, <1>6, <1>7, <1>8 DEF d

\* One is replayed.
LEMMA WaitingLess ==
  ASSUME NEW len \in Nat, NEW st \in Seq(StoredNotices(len)), NEW e \in WaitingIn(st), NEW kind
  PROVE  SumWaiting(st, kind) =
           Amount(st[e].frame[st[e].i], kind) + SumWaiting([st EXCEPT ![e].resolved = TRUE], kind)
<1> DEFINE d == [st EXCEPT ![e].resolved = TRUE]
           a == [k \in DOMAIN st |-> Amount(st[k].frame[st[k].i], kind)]
           b == [k \in DOMAIN d |-> Amount(d[k].frame[d[k].i], kind)]
           S == WaitingIn(st)
           R == WaitingIn(d)
<1>1. /\ DOMAIN st = 1..Len(st) /\ DOMAIN d = DOMAIN st /\ e \in DOMAIN st
      /\ \A k \in DOMAIN st : st[k] \in StoredNotices(len)
      /\ d[e] = [st[e] EXCEPT !.resolved = TRUE] /\ \A k \in DOMAIN st \ {e} : d[k] = st[k]
  BY DEF WaitingIn
<1>2. \A k \in DOMAIN st : d[k].frame = st[k].frame /\ d[k].i = st[k].i /\ d[k].problem = st[k].problem
  BY <1>1 DEF StoredNotices
<1>3. d[e].resolved = TRUE
  BY <1>1 DEF StoredNotices
<1>4. R = S \ {e} /\ e \in S
  BY <1>1, <1>2, <1>3 DEF WaitingIn
<1>5. b = a
  BY <1>1, <1>2
<1>10. IsFiniteSet(S) /\ S \subseteq DOMAIN st /\ \A k \in DOMAIN st : Amount(st[k].frame[st[k].i], kind) \in Nat
  BY WaitingType
<1>6. IsFiniteSet(S) /\ \A k \in S : a[k] \in Int
  BY <1>10
<1>7. SumWaiting(st, kind) = Total(a, S) /\ SumWaiting(d, kind) = Total(b, R)
  BY SumsAreTotals
<1>8. a[e] = Amount(st[e].frame[st[e].i], kind)
  BY <1>1
<1> HIDE DEF d, a, b, S, R
<1>9. Total(a, S) = a[e] + Total(a, S \ {e})
  BY <1>4, <1>6, SumOneOut
<1> QED
  BY <1>4, <1>5, <1>7, <1>8, <1>9 DEF d
-----------------------------------------------------------------------------
(* Reading what is stored, and what the writers hold.                    *)

\* A set of naturals has a smallest element.
LEMMA SmallestIsIn ==
  ASSUME NEW T, T \subseteq Nat, T # {}
  PROVE  Min(T) \in T
<1>1. \E x \in T : \A y \in T : ~ (<<y, x>> \in OpToRel(<, Nat))
  BY NatLessThanWellFounded, WFMin, Zenon
<1>2. \E x \in T : \A y \in T : ~ (y < x)
  BY <1>1, Zenon DEF OpToRel
<1>3. \E x \in T : \A y \in T : x <= y
  BY <1>2
<1> QED
  BY <1>3 DEF Min
-----------------------------------------------------------------------------
(* Types.  Len(book) numbers exist: what names a number fits any longer  *)
(* book too.                                                             *)

Listeners(len) ==
  {AtRest} \cup
  {l \in [at : {"read"}, frame : Frames(len), i : Nat, blocked : BOOLEAN]
         \cup [at : {"write"}, frame : Frames(len), i : Nat, blocked : BOOLEAN,
               order : OrderRows(len), stale : BOOLEAN]
         \cup [at : {"dead"}, frame : Frames(len), i : Nat] : l.i \in 1..Len(l.frame)}

Revisers(len) ==
  {AtRest} \cup [at : {"check", "send"}, number : 1..len] \cup [at : {"record"}, new : 1..len]

Attestors ==
  {AtRest} \cup [at : {"check", "write"}, state : {"partially_filled", "filled", "canceled"},
                 filled : Nat, stale : BOOLEAN]

Replayers(len) ==
  {AtRest} \cup [at : {"read"}, todo : SUBSET Nat, j : Nat]
           \cup [at : {"write"}, todo : SUBSET Nat, j : Nat, order : OrderRows(len), stale : BOOLEAN]

Resolvers(len) == {AtRest} \cup [at : {"save"}, number : 0..len]

ShapeType == shape \in [size : Nat \ {0}, frame : Nat \ {0}]

BookFits ==
  /\ book \in Seq(BookRow) /\ book # <<>>
  /\ \A n \in Numbers : book[n].filled <= book[n].quantity /\ (book[n].open => book[n].filled < book[n].quantity)

ProcessTypes ==
  /\ listener \in Listeners(Len(book)) /\ reviser \in Revisers(Len(book)) /\ attestor \in Attestors
  /\ replayer \in Replayers(Len(book)) /\ resolver \in Resolvers(Len(book))

\* A replay works on stored notifications, and is at one of the frame of the oldest.
Placed(r, st) ==
  r # AtRest =>
    /\ r.todo \subseteq DOMAIN st /\ r.todo # {}
    /\ r.j \in 1..Len(st[Min(r.todo)].frame)

CountTypes == unheard \in Nat /\ dropped \in Nat /\ muddled \in BOOLEAN

RepairTypes ==
  /\ ShapeType /\ BookFits /\ row \in OrderRows(Len(book))
  /\ channel \in Seq(Frames(Len(book))) /\ stored \in Seq(StoredNotices(Len(book)))
  /\ problems \subseteq 0..Len(book)
  /\ ProcessTypes /\ Placed(replayer, stored) /\ CountTypes

\* A new number of the broker's leaves what names the others as it is.
LEMMA LongerBook ==
  ASSUME NEW m \in Nat, NEW n \in Nat, m <= n
  PROVE  /\ 1..m \subseteq 1..n /\ 0..m \subseteq 0..n
         /\ Notices(m) \subseteq Notices(n) /\ Frames(m) \subseteq Frames(n)
         /\ Seq(Frames(m)) \subseteq Seq(Frames(n))
         /\ StoredNotices(m) \subseteq StoredNotices(n) /\ Seq(StoredNotices(m)) \subseteq Seq(StoredNotices(n))
         /\ OrderRows(m) \subseteq OrderRows(n)
<1>1. 1..m \subseteq 1..n /\ 0..m \subseteq 0..n
  OBVIOUS
<1>2. Notices(m) \subseteq Notices(n)
  BY <1>1 DEF Notices
<1>3. Frames(m) \subseteq Frames(n)
  BY <1>2 DEF Frames
<1>4. StoredNotices(m) \subseteq StoredNotices(n)
  BY <1>3 DEF StoredNotices
<1>5. Seq(Frames(m)) \subseteq Seq(Frames(n)) /\ Seq(StoredNotices(m)) \subseteq Seq(StoredNotices(n))
  BY <1>3, <1>4
<1>6. OrderRows(m) \subseteq OrderRows(n)
  BY <1>1 DEF OrderRows
<1> QED
  BY <1>1, <1>2, <1>3, <1>4, <1>5, <1>6

\* The same of the processes.
LEMMA LongerBookProcesses ==
  ASSUME NEW m \in Nat, NEW n \in Nat, m <= n
  PROVE  /\ Listeners(m) \subseteq Listeners(n) /\ Revisers(m) \subseteq Revisers(n)
         /\ Replayers(m) \subseteq Replayers(n) /\ Resolvers(m) \subseteq Resolvers(n)
<1>1. 1..m \subseteq 1..n /\ 0..m \subseteq 0..n /\ Frames(m) \subseteq Frames(n) /\ OrderRows(m) \subseteq OrderRows(n)
  BY LongerBook
<1>2. Listeners(m) \subseteq Listeners(n)
  BY <1>1 DEF Listeners
<1>3. Revisers(m) \subseteq Revisers(n) /\ Resolvers(m) \subseteq Resolvers(n)
  BY <1>1 DEF Revisers, Resolvers
<1>4. Replayers(m) \subseteq Replayers(n)
  BY <1>1 DEF Replayers
<1> QED
  BY <1>2, <1>3, <1>4

\* What a listener at work holds.
LEMMA ListenerHolds ==
  ASSUME NEW len \in Nat, NEW l \in Listeners(len), l # AtRest
  PROVE  /\ l.at \in {"read", "write", "dead"} /\ l.at # "idle"
         /\ l.frame \in Frames(len) /\ l.i \in 1..Len(l.frame) /\ l.frame[l.i] \in Notices(len)
         /\ l.at \in {"read", "write"} => l.blocked \in BOOLEAN
         /\ l.at = "write" => l.order \in OrderRows(len) /\ l.stale \in BOOLEAN
<1>1. /\ l.at \in {"read", "write", "dead"} /\ l.frame \in Frames(len) /\ l.i \in 1..Len(l.frame)
      /\ l.at \in {"read", "write"} => l.blocked \in BOOLEAN
      /\ l.at = "write" => l.order \in OrderRows(len) /\ l.stale \in BOOLEAN
  BY DEF Listeners, AtRest
<1>2. \A f \in Frames(len) : \A i \in 1..Len(f) : f[i] \in Notices(len)
  BY DEF Frames
<1> QED
  BY <1>1, <1>2

\* A reading that others overtook is marked, and nothing else of it changes.
LEMMA StaleListener ==
  ASSUME NEW len \in Nat, NEW l \in Listeners(len)
  PROVE  /\ Stale(l) \in Listeners(len) /\ (Stale(l) = AtRest <=> l = AtRest)
         /\ Stale(l).at = l.at
         /\ l # AtRest => Stale(l).frame = l.frame /\ Stale(l).i = l.i
         /\ l.at = "write" => Stale(l).order = l.order /\ Stale(l).stale = TRUE
<1>1. CASE l.at = "write"
  <2>1. Stale(l) = [l EXCEPT !.stale = TRUE]
    BY <1>1 DEF Stale, Listeners, AtRest
  <2>2. /\ l \in [at : {"write"}, frame : Frames(len), i : Nat, blocked : BOOLEAN,
                  order : OrderRows(len), stale : BOOLEAN]
        /\ l.i \in 1..Len(l.frame)
    BY <1>1 DEF Listeners, AtRest
  <2>3. Stale(l) = [at |-> "write", frame |-> l.frame, i |-> l.i, blocked |-> l.blocked,
                    order |-> l.order, stale |-> TRUE]
    BY <2>1, <2>2
  <2>4. Stale(l) \in Listeners(len)
    BY <2>2, <2>3 DEF Listeners
  <2>5. l # AtRest /\ Stale(l) # AtRest
    BY <1>1, <2>3 DEF AtRest
  <2> QED
    BY <1>1, <2>3, <2>4, <2>5
<1>2. CASE l.at # "write"
  <2>1. Stale(l) = l
    BY <1>2 DEF Stale, Listeners, AtRest
  <2> QED
    BY <1>2, <2>1
<1> QED
  BY <1>1, <1>2

\* The mark of an overtaken reading changes nothing else: the attestor's,
LEMMA StaleAttestor ==
  ASSUME NEW a \in Attestors
  PROVE  /\ Stale(a) \in Attestors /\ (Stale(a) = AtRest <=> a = AtRest) /\ Stale(a).at = a.at
         /\ a # AtRest => Stale(a).state = a.state /\ Stale(a).filled = a.filled /\ Stale(a).stale = TRUE
<1>1. CASE a = AtRest
  BY <1>1 DEF Stale, Attestors, AtRest
<1>2. CASE a # AtRest
  <2>1. Stale(a) = [a EXCEPT !.stale = TRUE]
    BY <1>2 DEF Stale, Attestors
  <2> QED
    BY <1>2, <2>1 DEF Attestors, AtRest
<1> QED
  BY <1>1, <1>2

\* and the replay's.
LEMMA StaleReplayer ==
  ASSUME NEW len \in Nat, NEW r \in Replayers(len)
  PROVE  /\ Stale(r) \in Replayers(len) /\ (Stale(r) = AtRest <=> r = AtRest) /\ Stale(r).at = r.at
         /\ r # AtRest => Stale(r).todo = r.todo /\ Stale(r).j = r.j
         /\ r.at = "write" => Stale(r).order = r.order /\ Stale(r).stale = TRUE
<1>1. CASE r.at = "write"
  <2>1. Stale(r) = [r EXCEPT !.stale = TRUE]
    BY <1>1 DEF Stale, Replayers, AtRest
  <2>2. r \in [at : {"write"}, todo : SUBSET Nat, j : Nat, order : OrderRows(len), stale : BOOLEAN]
    BY <1>1 DEF Replayers, AtRest
  <2>3. Stale(r) = [at |-> "write", todo |-> r.todo, j |-> r.j, order |-> r.order, stale |-> TRUE]
    BY <2>1, <2>2
  <2>4. Stale(r) \in Replayers(len)
    BY <2>2, <2>3 DEF Replayers
  <2>5. r # AtRest /\ Stale(r) # AtRest
    BY <1>1, <2>3 DEF AtRest
  <2> QED
    BY <1>1, <2>3, <2>4, <2>5
<1>2. CASE r.at # "write"
  <2>1. Stale(r) = r
    BY <1>2 DEF Stale, Replayers, AtRest
  <2> QED
    BY <1>2, <2>1
<1> QED
  BY <1>1, <1>2

\* What a notification makes of an order.
LEMMA AppliedIs ==
  ASSUME NEW len \in Nat, NEW order \in OrderRows(len), NEW n \in Notices(len), ~ Problem(order, n)
  PROVE  /\ Applied(order, n) \in OrderRows(len)
         /\ n.kind = "execution" =>
              /\ Applied(order, n).filled = order.filled + n.quantity
              /\ Applied(order, n).quantity = order.quantity
              /\ Applied(order, n).state \in {"filled", "partially_filled"}
              /\ Applied(order, n).state = "filled" => order.filled + n.quantity = order.quantity
         /\ n.kind = "cancel" =>
              /\ Applied(order, n).filled = order.filled
              /\ \/ /\ Applied(order, n).state = "canceled" /\ Applied(order, n).quantity = order.quantity
                    /\ n.quantity = order.quantity - order.filled
                 \/ /\ Applied(order, n).state = order.state
                    /\ Applied(order, n).quantity = order.quantity - n.quantity
                    /\ Applied(order, n).quantity # order.quantity
         /\ n.kind = "revision" => Applied(order, n) = order
         /\ order.state \in OpenStates
<1>1. n.kind \in Kinds /\ n.quantity \in Nat /\ (n.kind = "cancel" => n.quantity > 0)
  BY DEF Notices
<1>2. /\ order.quantity \in Nat /\ order.filled \in Nat /\ order.state \in RowStates
      /\ order = [state |-> order.state, quantity |-> order.quantity, filled |-> order.filled, number |-> order.number]
  BY DEF OrderRows
<1>3. order.state \in OpenStates
  BY <1>2 DEF Problem, NotificationTerminal, RowStates, OpenStates
<1>4. CASE n.kind = "execution"
  <2>1. Applied(order, n) = Executed(order, n)
    BY <1>4 DEF Applied
  <2>2. Executed(order, n) = [state |-> IF order.filled + n.quantity = order.quantity THEN "filled" ELSE "partially_filled",
                              quantity |-> order.quantity, filled |-> order.filled + n.quantity,
                              number |-> order.number]
    <3>1. CASE order.filled + n.quantity = order.quantity
      <4>1. Executed(order, n) = [order EXCEPT !.filled = order.filled + n.quantity, !.state = "filled"]
        BY <3>1 DEF Executed
      <4> QED
        BY <1>2, <3>1, <4>1
    <3>2. CASE order.filled + n.quantity # order.quantity
      <4>1. Executed(order, n) = [order EXCEPT !.filled = order.filled + n.quantity, !.state = "partially_filled"]
        BY <3>2 DEF Executed
      <4> QED
        BY <1>2, <3>2, <4>1
    <3> QED
      BY <3>1, <3>2
  <2>3. Executed(order, n) \in OrderRows(len)
    BY <1>1, <1>2, <2>2 DEF OrderRows, RowStates
  <2> QED
    BY <1>3, <1>4, <2>1, <2>2, <2>3
<1>5. CASE n.kind = "cancel"
  <2>1. Applied(order, n) = Cancelled(order, n) /\ n.quantity <= order.quantity - order.filled
    BY <1>1, <1>2, <1>5 DEF Applied, Problem
  <2>2. CASE n.quantity >= order.quantity - order.filled
    <3>1. Cancelled(order, n) = [state |-> "canceled", quantity |-> order.quantity, filled |-> order.filled,
                                 number |-> order.number]
      BY <1>2, <2>2 DEF Cancelled
    <3>2. Cancelled(order, n) \in OrderRows(len)
      BY <1>2, <3>1 DEF OrderRows, RowStates
    <3> QED
      BY <1>1, <1>2, <1>3, <1>5, <2>1, <2>2, <3>1, <3>2
  <2>3. CASE ~ (n.quantity >= order.quantity - order.filled)
    <3>1. Cancelled(order, n) = [state |-> order.state, quantity |-> order.quantity - n.quantity,
                                 filled |-> order.filled, number |-> order.number]
      BY <1>1, <1>2, <1>5, <2>3 DEF Cancelled
    <3>2. order.quantity - n.quantity \in Nat /\ order.quantity - n.quantity # order.quantity
      BY <1>1, <1>2, <1>5, <2>1
    <3>3. Cancelled(order, n) \in OrderRows(len)
      BY <1>2, <3>1, <3>2 DEF OrderRows
    <3> QED
      BY <1>3, <1>5, <2>1, <3>1, <3>2, <3>3
  <2> QED
    BY <2>2, <2>3
<1>6. CASE n.kind = "revision"
  <2>1. Applied(order, n) = order
    BY <1>6 DEF Applied
  <2> QED
    BY <1>3, <1>6, <2>1
<1> QED
  BY <1>1, <1>4, <1>5, <1>6 DEF Kinds
-----------------------------------------------------------------------------
(* The broker's book and what it sends.                                  *)

\* What is executed and what is ordered, as totals over the numbers.
LEMMA BookSums ==
  ASSUME NEW b \in Seq(BookRow)
  PROVE  /\ FilledOf(b) \in Nat /\ QuantityOf(b) \in Nat
         /\ (\A n \in 1..Len(b) : b[n].filled <= b[n].quantity) =>
              /\ FilledOf(b) <= QuantityOf(b)
              /\ FilledOf(b) = QuantityOf(b) => \A n \in 1..Len(b) : b[n].filled = b[n].quantity
<1> DEFINE m == Len(b)
           S == 1..m
           f == [n \in 1..m |-> b[n].filled]
           q == [n \in 1..m |-> b[n].quantity]
<1>1. m \in Nat /\ \A n \in 1..m : b[n] \in BookRow
  OBVIOUS
<1>2. \A n \in S : f[n] = b[n].filled /\ q[n] = b[n].quantity /\ f[n] \in Nat /\ q[n] \in Nat
  BY <1>1 DEF BookRow
<1>3. FilledOf(b) = Total(f, S) /\ QuantityOf(b) = Total(q, S)
  BY SumsAreTotals
<1>4. IsFiniteSet(S)
  <2>1. 1 \in Int /\ m \in Int
    BY <1>1
  <2> HIDE DEF m
  <2> QED
    BY <2>1, FS_Interval
<1> HIDE DEF m, S, f, q
<1>5. Total(f, S) \in Nat /\ Total(q, S) \in Nat
  BY <1>2, <1>4, SumNat
<1>6. ASSUME \A n \in S : b[n].filled <= b[n].quantity
      PROVE  /\ Total(f, S) <= Total(q, S)
             /\ Total(f, S) = Total(q, S) => \A n \in S : b[n].filled = b[n].quantity
  <2>1. \A n \in S : f[n] \in Int /\ q[n] \in Int /\ f[n] <= q[n]
    BY <1>2, <1>6
  <2>2. Total(f, S) <= Total(q, S)
    BY <1>4, <2>1, SumGrows
  <2>3. ASSUME Total(f, S) = Total(q, S) PROVE \A n \in S : f[n] = q[n]
    BY <1>4, <2>1, <2>3, SumEqual
  <2> QED
    BY <1>2, <2>2, <2>3
<1> QED
  BY <1>3, <1>5, <1>6 DEF S, m

\* One number changes.
LEMMA BookChanged ==
  ASSUME NEW b \in Seq(BookRow), NEW n \in 1..Len(b), NEW r \in BookRow
  PROVE  /\ [b EXCEPT ![n] = r] \in Seq(BookRow) /\ Len([b EXCEPT ![n] = r]) = Len(b)
         /\ [b EXCEPT ![n] = r][n] = r
         /\ \A k \in 1..Len(b) : k # n => [b EXCEPT ![n] = r][k] = b[k]
         /\ FilledOf([b EXCEPT ![n] = r]) = FilledOf(b) + r.filled - b[n].filled
         /\ QuantityOf([b EXCEPT ![n] = r]) = QuantityOf(b) + r.quantity - b[n].quantity
<1> DEFINE c == [b EXCEPT ![n] = r]
           m == Len(b)
           S == 1..m
           f == [k \in 1..m |-> b[k].filled]
           g == [k \in 1..m |-> c[k].filled]
           p == [k \in 1..m |-> b[k].quantity]
           q == [k \in 1..m |-> c[k].quantity]
<1>1. /\ m \in Nat /\ (\A k \in 1..m : b[k] \in BookRow) /\ n \in S
      /\ c \in Seq(BookRow) /\ Len(c) = m /\ c[n] = r /\ \A k \in 1..m : k # n => c[k] = b[k]
  OBVIOUS
<1>2. \A k \in S : c[k] \in BookRow
  BY <1>1
<1>3. /\ FilledOf(b) = Total(f, S) /\ FilledOf(c) = Total(g, S)
      /\ QuantityOf(b) = Total(p, S) /\ QuantityOf(c) = Total(q, S)
  BY <1>1, SumsAreTotals
<1>4. IsFiniteSet(S)
  <2>1. 1 \in Int /\ m \in Int
    BY <1>1
  <2> HIDE DEF m
  <2> QED
    BY <2>1, FS_Interval
<1> HIDE DEF c
<1>5. /\ \A k \in S : f[k] = b[k].filled /\ g[k] = c[k].filled /\ p[k] = b[k].quantity /\ q[k] = c[k].quantity
      /\ \A k \in S : f[k] \in Int /\ g[k] \in Int /\ p[k] \in Int /\ q[k] \in Int
  <2>1. \A k \in S : f[k] = b[k].filled /\ g[k] = c[k].filled /\ p[k] = b[k].quantity /\ q[k] = c[k].quantity
    OBVIOUS
  <2>4. \A k \in S : b[k] \in BookRow
    BY <1>1
  <2>2. \A k \in S : b[k].filled \in Int /\ b[k].quantity \in Int
    BY <2>4, SMTT(30) DEF BookRow
  <2>3. \A k \in S : c[k].filled \in Int /\ c[k].quantity \in Int
    BY <1>2 DEF BookRow
  <2> QED
    BY <2>1, <2>2, <2>3
<1>6. (\A k \in S \ {n} : f[k] = g[k]) /\ (\A k \in S \ {n} : p[k] = q[k])
  BY <1>1, <1>5
<1> HIDE DEF m, S, f, g, p, q
<1>10. n \in S
  BY <1>1
<1>9. (\A k \in S : f[k] \in Int /\ g[k] \in Int) /\ (\A k \in S : p[k] \in Int /\ q[k] \in Int)
  BY <1>5
<1>7. Total(g, S) = Total(f, S) + g[n] - f[n]
  <2>1. (\A k \in S : f[k] \in Int /\ g[k] \in Int) /\ \A k \in S \ {n} : f[k] = g[k]
    BY <1>6, <1>9
  <2> QED
    BY <1>4, <1>10, <2>1, SumChange
<1>8. Total(q, S) = Total(p, S) + q[n] - p[n]
  <2>1. (\A k \in S : p[k] \in Int /\ q[k] \in Int) /\ \A k \in S \ {n} : p[k] = q[k]
    BY <1>6, <1>9
  <2> QED
    BY <1>4, <1>10, <2>1, SumChange
<1> QED
  BY <1>1, <1>3, <1>5, <1>7, <1>8 DEF c, m

\* A number is added.
LEMMA BookLonger ==
  ASSUME NEW b \in Seq(BookRow), NEW r \in BookRow
  PROVE  /\ FilledOf(Append(b, r)) = FilledOf(b) + r.filled
         /\ QuantityOf(Append(b, r)) = QuantityOf(b) + r.quantity
<1> DEFINE c == Append(b, r)
           m == Len(b)
           f == [k \in 1..m |-> b[k].filled]
           g == [k \in 1..(m + 1) |-> c[k].filled]
           p == [k \in 1..m |-> b[k].quantity]
           q == [k \in 1..(m + 1) |-> c[k].quantity]
           S == 1..m
<1>1. /\ m \in Nat /\ (\A k \in 1..m : b[k] \in BookRow)
      /\ Len(c) = m + 1 /\ c[m + 1] = r /\ \A k \in 1..m : c[k] = b[k]
  OBVIOUS
<1>2. /\ FilledOf(b) = Total(f, 1..m) /\ FilledOf(c) = Total(g, 1..(m + 1))
      /\ QuantityOf(b) = Total(p, 1..m) /\ QuantityOf(c) = Total(q, 1..(m + 1))
  BY <1>1, SumsAreTotals
<1>3. m + 1 \in 1..(m + 1) /\ \A k \in 1..m : k \in 1..(m + 1)
  BY <1>1
<1> HIDE DEF c
<1>4. g[m + 1] = r.filled /\ q[m + 1] = r.quantity /\ r.filled \in Nat /\ r.quantity \in Nat
  BY <1>1, <1>3 DEF BookRow
<1>5. \A k \in 1..m : f[k] = b[k].filled /\ p[k] = b[k].quantity /\ f[k] \in Nat /\ p[k] \in Nat
  BY <1>1 DEF BookRow
<1>6. \A k \in 1..m : g[k] = f[k] /\ q[k] = p[k]
  BY <1>1, <1>3, <1>5
<1> HIDE DEF m, f, g, p, q
<1>7. \A k \in 1..(m + 1) : k \in 1..m \/ k = m + 1
  BY <1>1
<1>8. \A k \in 1..(m + 1) : g[k] \in Int /\ q[k] \in Int
  BY <1>4, <1>5, <1>6, <1>7
<1>9. IsFiniteSet(1..m) /\ Total(g, 1..(m + 1)) = g[m + 1] + Total(g, 1..m)
  BY <1>1, <1>8, SumLast
<1>10. Total(q, 1..(m + 1)) = q[m + 1] + Total(q, 1..m)
  BY <1>1, <1>8, SumLast
<1>11. S = 1..m
  OBVIOUS
<1> HIDE DEF S
<1>12. Total(g, S) = Total(f, S) /\ Total(q, S) = Total(p, S) /\ Total(f, S) \in Nat /\ Total(p, S) \in Nat
  <2>1. IsFiniteSet(S) /\ (\A k \in S : g[k] = f[k]) /\ (\A k \in S : q[k] = p[k])
    BY <1>6, <1>9, <1>11
  <2>2. (\A k \in S : f[k] \in Nat) /\ (\A k \in S : p[k] \in Nat)
    BY <1>5, <1>11
  <2>3. Total(g, S) = Total(f, S) /\ Total(q, S) = Total(p, S)
    BY <2>1, SumSame
  <2>4. Total(f, S) \in Nat /\ Total(p, S) \in Nat
    BY <2>1, <2>2, SumNat
  <2> QED
    BY <2>3, <2>4
<1> QED
  BY <1>2, <1>4, <1>9, <1>10, <1>11, <1>12 DEF c
\* What is notified is under way once more.
LEMMA NoticeSent ==
  ASSUME NEW len \in Nat, channel \in Seq(Frames(len)), NEW n \in Notices(len), Notify(n)
  PROVE  /\ channel' \in Seq(Frames(len))
         /\ Queued(channel', "execution") = Queued(channel, "execution") + Amount(n, "execution")
         /\ Queued(channel', "cancel") = Queued(channel, "cancel") + Amount(n, "cancel")
<1>1. CASE channel' = Append(channel, <<n>>)
  <2> DEFINE f == <<n>>
  <2>1. f \in Frames(len)
    BY DEF Frames
  <2>2. \A kind : InFrame(f, 1, kind) = Amount(n, kind)
    BY FrameOne
  <2>3. channel' = Append(channel, f)
    BY <1>1
  <2> HIDE DEF f
  <2>4. channel' \in Seq(Frames(len))
    BY <2>1, <2>3
  <2>5. \A kind : Queued(channel', kind) = Queued(channel, kind) + InFrame(f, 1, kind)
    BY <2>1, <2>3, QueuedMore
  <2> QED
    BY <2>2, <2>4, <2>5
<1>2. CASE channel # <<>> /\ channel' = [channel EXCEPT ![Len(channel)] = Append(@, n)]
  <2>1. channel' \in Seq(Frames(len))
    <3> DEFINE m == Len(channel)
    <3>1. m \in 1..m /\ DOMAIN channel = 1..m /\ channel[m] \in Frames(len)
      BY <1>2
    <3>2. Append(channel[m], n) \in Frames(len)
      BY <3>1 DEF Frames
    <3> QED
      BY <1>2, <3>1, <3>2
  <2>2. \A kind : Queued(channel', kind) = Queued(channel, kind) + Amount(n, kind)
    BY <1>2, QueuedJoined
  <2> QED
    BY <2>1, <2>2
<1> QED
  BY <1>1, <1>2 DEF Notify

\* What the broker's steps have in common: executed shares are notified, cancelled ones
\* leave the book for a notification, and nothing that has ended is opened again.
Traded ==
  /\ IsWorking
  /\ Len(book') \in {Len(book), Len(book) + 1} /\ BookFits'
  /\ channel' \in Seq(Frames(Len(book')))
  /\ FilledOf(book') + Queued(channel, "execution") = FilledOf(book) + Queued(channel', "execution")
  /\ QuantityOf(book') + Queued(channel', "cancel") = QuantityOf(book) + Queued(channel, "cancel")
  /\ \A m \in Numbers : book'[m].open => book[m].open

\* The broker's numbers, one by one.
LEMMA BookTypes ==
  ASSUME BookFits
  PROVE  /\ book \in Seq(BookRow) /\ Len(book) \in Nat /\ Len(book) >= 1 /\ DOMAIN book = Numbers
         /\ \A n \in Numbers :
              /\ book[n] = [quantity |-> book[n].quantity, filled |-> book[n].filled, open |-> book[n].open]
              /\ book[n].quantity \in Nat /\ book[n].filled \in Nat /\ book[n].open \in BOOLEAN
              /\ book[n].filled <= book[n].quantity
              /\ book[n].open => Unfilled(n) \in Nat /\ Unfilled(n) > 0
<1>1. book \in Seq(BookRow) /\ Len(book) \in Nat /\ Len(book) >= 1 /\ DOMAIN book = Numbers
  BY DEF BookFits, Numbers
<1>2. \A n \in Numbers : book[n] \in BookRow
  BY <1>1
<1>3. \A n \in Numbers :
        /\ book[n] = [quantity |-> book[n].quantity, filled |-> book[n].filled, open |-> book[n].open]
        /\ book[n].quantity \in Nat /\ book[n].filled \in Nat /\ book[n].open \in BOOLEAN
  BY <1>2 DEF BookRow
<1> QED
  BY <1>1, <1>3 DEF BookFits, Unfilled

\* A fill.
LEMMA FillsTrade ==
  ASSUME ShapeType, BookFits, channel \in Seq(Frames(Len(book))), NEW n \in Numbers, Fills(n)
  PROVE  Traded /\ Len(book') = Len(book)
<1> DEFINE len == Len(book)
<1>1. PICK q \in 1..Unfilled(n), quoted \in Quoted(n) :
        /\ book[n].open
        /\ book' = [book EXCEPT ![n].filled = @ + q, ![n].open = q < Unfilled(n)]
        /\ Notify([kind |-> "execution", own |-> n, number |-> n, quantity |-> q, orderQuantity |-> quoted])
  BY DEF Fills
<1> DEFINE left == q < Unfilled(n)
           r == [book[n] EXCEPT !.filled = book[n].filled + q, !.open = left]
           note == [kind |-> "execution", own |-> n, number |-> n, quantity |-> q, orderQuantity |-> quoted]
<1>2. /\ book \in Seq(BookRow) /\ len \in Nat /\ n \in 1..len /\ DOMAIN book = 1..len
      /\ book[n] = [quantity |-> book[n].quantity, filled |-> book[n].filled, open |-> book[n].open]
      /\ book[n].quantity \in Nat /\ book[n].filled \in Nat /\ Unfilled(n) \in Nat
  BY <1>1, BookTypes DEF Numbers
<1>3. q \in Nat /\ q > 0 /\ q <= Unfilled(n) /\ Unfilled(n) = book[n].quantity - book[n].filled
  BY <1>2 DEF Unfilled
<1>15. left \in BOOLEAN /\ (left => q < Unfilled(n))
  OBVIOUS
<1>16. book' = [book EXCEPT ![n].filled = @ + q, ![n].open = left]
  BY <1>1
<1> HIDE DEF left
<1>4. book' = [book EXCEPT ![n] = r]
  BY <1>2, <1>16
<1>5. r \in BookRow /\ r.filled = book[n].filled + q /\ r.quantity = book[n].quantity
      /\ r.filled <= r.quantity /\ (r.open => r.filled < r.quantity)
  <2>1. book[n] \in BookRow /\ book[n].filled + q \in Nat
    BY <1>2, <1>3
  <2>2. r \in BookRow /\ r.filled = book[n].filled + q /\ r.quantity = book[n].quantity /\ (r.open <=> left)
    <3> DEFINE b == book[n]
               x == book[n].filled + q
    <3>1. r = [b EXCEPT !.filled = x, !.open = left] /\ b \in BookRow /\ x \in Nat
      BY <2>1
    <3> HIDE DEF b, x, r
    <3>2. r \in BookRow /\ r.filled = x /\ r.quantity = b.quantity /\ (r.open <=> left)
      BY <1>15, <3>1 DEF BookRow
    <3> QED
      BY <3>2 DEF b, x
  <2> QED
    BY <1>2, <1>3, <1>15, <2>2
<1>6. note \in Notices(len) /\ Notify(note) /\ Amount(note, "execution") = q /\ Amount(note, "cancel") = 0
  <2>1. quoted \in Nat
    BY <1>2 DEF Quoted, ShapeType
  <2>2. note \in Notices(len)
    BY <1>2, <1>3, <2>1 DEF Notices, Kinds
  <2> QED
    BY <1>1, <2>2 DEF Amount
<1> HIDE DEF r, note
<1>7. /\ book' \in Seq(BookRow) /\ Len(book') = len /\ book'[n] = r
      /\ \A k \in 1..len : k # n => book'[k] = book[k]
      /\ FilledOf(book') = FilledOf(book) + r.filled - book[n].filled
      /\ QuantityOf(book') = QuantityOf(book) + r.quantity - book[n].quantity
  <2>1. book \in Seq(BookRow) /\ n \in 1..Len(book) /\ r \in BookRow
    BY <1>2, <1>5
  <2> DEFINE c == [book EXCEPT ![n] = r]
  <2>2. /\ c \in Seq(BookRow) /\ Len(c) = Len(book) /\ c[n] = r
        /\ \A k \in 1..Len(book) : k # n => c[k] = book[k]
        /\ FilledOf(c) = FilledOf(book) + r.filled - book[n].filled
        /\ QuantityOf(c) = QuantityOf(book) + r.quantity - book[n].quantity
    BY <2>1, BookChanged
  <2>3. book' = c
    BY <1>4
  <2> HIDE DEF c
  <2> QED
    BY <2>2, <2>3
<1>8. FilledOf(book) \in Nat /\ QuantityOf(book) \in Nat
  BY <1>2, BookSums
<1>9. FilledOf(book') = FilledOf(book) + q /\ QuantityOf(book') = QuantityOf(book)
  BY <1>2, <1>3, <1>5, <1>7, <1>8
<1>10. /\ channel' \in Seq(Frames(len))
       /\ Queued(channel', "execution") = Queued(channel, "execution") + q
       /\ Queued(channel', "cancel") = Queued(channel, "cancel") + 0
  BY <1>2, <1>6, NoticeSent
<1>11. Queued(channel, "execution") \in Nat /\ Queued(channel, "cancel") \in Nat
  BY <1>2, QueuedType
<1>12. BookFits'
  BY <1>2, <1>5, <1>7 DEF BookFits, Numbers
<1>13. IsWorking
  BY <1>1 DEF IsWorking
<1>14. \A m \in Numbers : book'[m].open => book[m].open
  BY <1>1, <1>7 DEF Numbers
<1> QED
  BY <1>3, <1>7, <1>8, <1>9, <1>10, <1>11, <1>12, <1>13, <1>14 DEF Traded
\* A cancel of the rest, or of a part of it.
LEMMA CancelTrades ==
  ASSUME ShapeType, BookFits, channel \in Seq(Frames(Len(book))), row \in OrderRows(Len(book)), CancelRest
  PROVE  Traded /\ Len(book') = Len(book)
<1> DEFINE len == Len(book)
           n == row.number
<1>1. PICK q \in 1..Unfilled(n) :
        /\ book[n].open
        /\ book' = [book EXCEPT ![n].quantity = @ - q, ![n].open = q < Unfilled(n)]
        /\ Notify([kind |-> "cancel", own |-> CancelNumber, number |-> n, quantity |-> q,
                   orderQuantity |-> shape.size])
  BY DEF CancelRest
<1> DEFINE left == q < Unfilled(n)
           r == [book[n] EXCEPT !.quantity = book[n].quantity - q, !.open = left]
           note == [kind |-> "cancel", own |-> CancelNumber, number |-> n, quantity |-> q,
                    orderQuantity |-> shape.size]
<1>17. n \in Numbers
  BY DEF OrderRows, Numbers
<1>2. /\ book \in Seq(BookRow) /\ len \in Nat /\ n \in 1..len /\ DOMAIN book = 1..len
      /\ book[n] \in BookRow
      /\ book[n].quantity \in Nat /\ book[n].filled \in Nat /\ Unfilled(n) \in Nat
  BY <1>1, <1>17, BookTypes DEF Numbers
<1>3. q \in Nat /\ q > 0 /\ q <= Unfilled(n) /\ Unfilled(n) = book[n].quantity - book[n].filled
  BY <1>2 DEF Unfilled
<1>15. left \in BOOLEAN /\ (left => q < Unfilled(n))
  OBVIOUS
<1>16. book' = [book EXCEPT ![n].quantity = @ - q, ![n].open = left]
  BY <1>1
<1>6. note \in Notices(len) /\ Notify(note) /\ Amount(note, "execution") = 0 /\ Amount(note, "cancel") = q
  <2>1. note \in Notices(len)
    BY <1>2, <1>3 DEF Notices, Kinds, CancelNumber, ShapeType
  <2> QED
    BY <1>1, <2>1 DEF Amount
<1> HIDE DEF n, left
<1>4. book' = [book EXCEPT ![n] = r]
  BY <1>2, <1>16
<1>5. r \in BookRow /\ r.filled = book[n].filled /\ r.quantity = book[n].quantity - q
      /\ r.filled <= r.quantity /\ (r.open => r.filled < r.quantity)
  <2>1. book[n].quantity - q \in Nat
    BY <1>2, <1>3
  <2>2. r \in BookRow /\ r.filled = book[n].filled /\ r.quantity = book[n].quantity - q /\ (r.open <=> left)
    <3> DEFINE b == book[n]
               x == book[n].quantity - q
    <3>1. r = [b EXCEPT !.quantity = x, !.open = left] /\ b \in BookRow /\ x \in Nat
      BY <1>2, <2>1
    <3> HIDE DEF b, x, r
    <3>2. r \in BookRow /\ r.filled = b.filled /\ r.quantity = x /\ (r.open <=> left)
      BY <1>15, <3>1 DEF BookRow
    <3> QED
      BY <3>2 DEF b, x
  <2> HIDE DEF r
  <2> QED
    BY <1>2, <1>3, <1>15, <2>2
<1> HIDE DEF r, note
<1>7. /\ book' \in Seq(BookRow) /\ Len(book') = len /\ book'[n] = r
      /\ \A k \in 1..len : k # n => book'[k] = book[k]
      /\ FilledOf(book') = FilledOf(book) + r.filled - book[n].filled
      /\ QuantityOf(book') = QuantityOf(book) + r.quantity - book[n].quantity
  <2>1. book \in Seq(BookRow) /\ n \in 1..Len(book) /\ r \in BookRow
    BY <1>2, <1>5
  <2> DEFINE c == [book EXCEPT ![n] = r]
  <2>2. /\ c \in Seq(BookRow) /\ Len(c) = Len(book) /\ c[n] = r
        /\ \A k \in 1..Len(book) : k # n => c[k] = book[k]
        /\ FilledOf(c) = FilledOf(book) + r.filled - book[n].filled
        /\ QuantityOf(c) = QuantityOf(book) + r.quantity - book[n].quantity
    BY <2>1, BookChanged
  <2>3. book' = c
    BY <1>4
  <2> HIDE DEF c
  <2> QED
    BY <2>2, <2>3
<1>8. FilledOf(book) \in Nat /\ QuantityOf(book) \in Nat
  BY <1>2, BookSums
<1>9. FilledOf(book') = FilledOf(book) /\ QuantityOf(book') = QuantityOf(book) - q
  BY <1>2, <1>3, <1>5, <1>7, <1>8
<1>10. /\ channel' \in Seq(Frames(len))
       /\ Queued(channel', "execution") = Queued(channel, "execution") + 0
       /\ Queued(channel', "cancel") = Queued(channel, "cancel") + q
  BY <1>2, <1>6, NoticeSent
<1>11. Queued(channel, "execution") \in Nat /\ Queued(channel, "cancel") \in Nat
  BY <1>2, QueuedType
<1>12. BookFits'
  <2>1. book' # <<>>
    BY <1>2, <1>7
  <2>2. \A k \in 1..len : book'[k].filled <= book'[k].quantity
                         /\ (book'[k].open => book'[k].filled < book'[k].quantity)
    <3> SUFFICES ASSUME NEW k \in 1..len
                 PROVE  book'[k].filled <= book'[k].quantity
                        /\ (book'[k].open => book'[k].filled < book'[k].quantity)
      OBVIOUS
    <3>1. CASE k = n
      BY <1>5, <1>7, <3>1
    <3>2. CASE k # n
      <4>1. book'[k] = book[k]
        BY <1>7, <3>2
      <4> QED
        BY <4>1 DEF BookFits, Numbers
    <3> QED
      BY <3>1, <3>2
  <2> QED
    BY <1>7, <2>1, <2>2 DEF BookFits, Numbers
<1>13. IsWorking
  BY <1>1, <1>17 DEF IsWorking, n
<1>14. \A m \in Numbers : book'[m].open => book[m].open
  BY <1>1, <1>7 DEF Numbers, n
<1> QED
  BY <1>3, <1>7, <1>8, <1>9, <1>10, <1>11, <1>12, <1>13, <1>14 DEF Traded

\* A revision at the broker: the rest goes over to a new number.
LEMMA RevisionTrades ==
  ASSUME ShapeType, BookFits, channel \in Seq(Frames(Len(book))), NEW n \in Numbers, Revised(n)
  PROVE  Traded /\ Len(book') = Len(book) + 1 /\ ~ book'[n].open
<1> DEFINE len == Len(book)
           r == [book[n] EXCEPT !.open = FALSE, !.quantity = book[n].filled]
           s == [quantity |-> Unfilled(n), filled |-> 0, open |-> TRUE]
           c == [book EXCEPT ![n] = r]
<1>1. PICK quoted \in Quoted(n) :
        Notify([kind |-> "revision", own |-> len + 1, number |-> n, quantity |-> Unfilled(n),
                orderQuantity |-> quoted])
  BY DEF Revised
<1>2. book[n].open /\ book' = Append([book EXCEPT ![n].open = FALSE, ![n].quantity = book[n].filled], s)
  BY DEF Revised
<1> DEFINE note == [kind |-> "revision", own |-> len + 1, number |-> n, quantity |-> Unfilled(n),
                    orderQuantity |-> quoted]
<1>3. /\ book \in Seq(BookRow) /\ len \in Nat /\ n \in 1..len /\ DOMAIN book = 1..len
      /\ book[n] \in BookRow
      /\ book[n].quantity \in Nat /\ book[n].filled \in Nat /\ Unfilled(n) \in Nat /\ Unfilled(n) > 0
      /\ Unfilled(n) = book[n].quantity - book[n].filled
  <2>1. book[n].open
    BY <1>2
  <2>2. /\ book \in Seq(BookRow) /\ len \in Nat /\ n \in 1..len /\ DOMAIN book = 1..len
        /\ book[n].quantity \in Nat /\ book[n].filled \in Nat /\ Unfilled(n) \in Nat /\ Unfilled(n) > 0
    BY <2>1, BookTypes DEF Numbers
  <2>3. book[n] \in BookRow
    BY <2>2
  <2> QED
    BY <2>2, <2>3 DEF Unfilled
<1>4. note \in Notices(len + 1) /\ Notify(note) /\ Amount(note, "execution") = 0 /\ Amount(note, "cancel") = 0
  <2>1. quoted \in Nat
    BY <1>3 DEF Quoted, ShapeType
  <2>2. note \in Notices(len + 1)
    BY <1>3, <2>1 DEF Notices, Kinds
  <2> QED
    BY <1>1, <2>2 DEF Amount
<1>5. book' = Append(c, s)
  BY <1>2, <1>3
<1>6. r \in BookRow /\ r.filled = book[n].filled /\ r.quantity = book[n].filled /\ ~ r.open
  <2> DEFINE b == book[n]
             x == book[n].filled
  <2>1. r = [b EXCEPT !.open = FALSE, !.quantity = x] /\ b \in BookRow /\ x \in Nat /\ x = b.filled
    BY <1>3
  <2> HIDE DEF b, x, r
  <2>2. r \in BookRow /\ r.filled = b.filled /\ r.quantity = x /\ ~ r.open
    BY <2>1 DEF BookRow
  <2> QED
    BY <2>1, <2>2 DEF b, x
<1>7. s \in BookRow /\ s.filled = 0 /\ s.quantity = Unfilled(n) /\ s.filled < s.quantity
  BY <1>3 DEF BookRow
<1> HIDE DEF r, s, note
<1>8. /\ c \in Seq(BookRow) /\ Len(c) = len /\ c[n] = r
      /\ \A k \in 1..len : k # n => c[k] = book[k]
      /\ FilledOf(c) = FilledOf(book) + r.filled - book[n].filled
      /\ QuantityOf(c) = QuantityOf(book) + r.quantity - book[n].quantity
  <2>1. book \in Seq(BookRow) /\ n \in 1..Len(book) /\ r \in BookRow
    BY <1>3, <1>6
  <2> QED
    BY <2>1, BookChanged
<1> HIDE DEF c
<1>9. /\ book' \in Seq(BookRow) /\ Len(book') = len + 1 /\ book'[len + 1] = s
      /\ \A k \in 1..len : book'[k] = c[k]
      /\ \A k \in 1..(len + 1) : k \in 1..len \/ k = len + 1
  <2>1. book' \in Seq(BookRow) /\ Len(book') = Len(c) + 1 /\ book'[Len(c) + 1] = s
        /\ \A k \in 1..Len(c) : book'[k] = c[k]
    BY <1>5, <1>7, <1>8
  <2>2. \A k \in 1..(len + 1) : k \in 1..len \/ k = len + 1
    BY <1>3
  <2> QED
    BY <1>8, <2>1, <2>2
<1>10. FilledOf(book') = FilledOf(c) + s.filled /\ QuantityOf(book') = QuantityOf(c) + s.quantity
  BY <1>5, <1>7, <1>8, BookLonger
<1>11. FilledOf(book) \in Nat /\ QuantityOf(book) \in Nat
  BY <1>3, BookSums
<1>12. FilledOf(book') = FilledOf(book) /\ QuantityOf(book') = QuantityOf(book)
  BY <1>3, <1>6, <1>7, <1>8, <1>10, <1>11
<1>13. /\ channel' \in Seq(Frames(len + 1))
       /\ Queued(channel', "execution") = Queued(channel, "execution") + 0
       /\ Queued(channel', "cancel") = Queued(channel, "cancel") + 0
  <2>1. len + 1 \in Nat /\ channel \in Seq(Frames(len + 1))
    BY <1>3, LongerBook
  <2> QED
    BY <1>4, <2>1, NoticeSent
<1>14. Queued(channel, "execution") \in Nat /\ Queued(channel, "cancel") \in Nat
  BY <1>3, QueuedType
<1>15. BookFits'
  <2>1. book' # <<>>
    BY <1>3, <1>9
  <2>2. \A k \in 1..(len + 1) : book'[k].filled <= book'[k].quantity
                               /\ (book'[k].open => book'[k].filled < book'[k].quantity)
    <3> SUFFICES ASSUME NEW k \in 1..(len + 1)
                 PROVE  book'[k].filled <= book'[k].quantity
                        /\ (book'[k].open => book'[k].filled < book'[k].quantity)
      OBVIOUS
    <3>1. CASE k = len + 1
      BY <1>3, <1>7, <1>9, <3>1
    <3>2. CASE k = n
      BY <1>3, <1>6, <1>8, <1>9, <3>2
    <3>3. CASE k \in 1..len /\ k # n
      <4>1. book'[k] = book[k]
        BY <1>8, <1>9, <3>3
      <4> QED
        BY <3>3, <4>1 DEF BookFits, Numbers
    <3> QED
      BY <1>9, <3>1, <3>2, <3>3
  <2> QED
    BY <1>9, <2>1, <2>2 DEF BookFits, Numbers
<1>16. IsWorking
  BY <1>2 DEF IsWorking
<1>17. (\A m \in Numbers : book'[m].open => book[m].open) /\ ~ book'[n].open
  <2>1. book'[n] = r
    BY <1>3, <1>8, <1>9
  <2>2. \A m \in 1..len : m # n => book'[m] = book[m]
    BY <1>8, <1>9
  <2> QED
    BY <1>2, <1>6, <2>1, <2>2 DEF Numbers
<1> QED
  BY <1>3, <1>9, <1>11, <1>12, <1>13, <1>14, <1>15, <1>16, <1>17 DEF Traded
-----------------------------------------------------------------------------
(* What is to come, before a step and after it.                          *)

\* What is to come is in the channel, in the listener's hand or waiting.
LEMMA ToComeIs ==
  ASSUME NEW kind
  PROVE  /\ ToCome(kind) = Queued(channel, kind) + Hand(listener, kind) + SumWaiting(stored, kind)
         /\ ToCome(kind)' = Queued(channel', kind) + Hand(listener', kind) + SumWaiting(stored', kind)
  BY DEF ToCome, UnderWay, StillWaiting, Queued, Hand, SumWaiting, WaitingIn, Waiting, Own

\* What is executed, over all numbers.
LEMMA DoneIs == Done = FilledOf(book) /\ Done' = FilledOf(book')
  BY DEF Done, FilledOf, Numbers

\* What the listener has in hand is a natural.
LEMMA HandType ==
  ASSUME NEW len \in Nat, NEW l \in Listeners(len), NEW kind
  PROVE  Hand(l, kind) \in Nat
<1>1. CASE l = AtRest
  BY <1>1 DEF Hand, AtRest
<1>2. CASE l # AtRest
  <2>1. l.at # "idle" /\ l.frame \in Frames(len) /\ l.i \in 1..Len(l.frame)
    BY <1>2, ListenerHolds
  <2>2. InFrame(l.frame, l.i, kind) \in Nat
    BY <2>1, FrameType
  <2> QED
    BY <2>1, <2>2 DEF Hand
<1> QED
  BY <1>1, <1>2

\* The totals of the parts are naturals.
LEMMA PartsType ==
  ASSUME RepairTypes, NEW kind
  PROVE  /\ Len(book) \in Nat
         /\ Queued(channel, kind) \in Nat /\ Hand(listener, kind) \in Nat /\ SumWaiting(stored, kind) \in Nat
         /\ ToCome(kind) \in Nat
         /\ FilledOf(book) \in Nat /\ QuantityOf(book) \in Nat
<1> DEFINE len == Len(book)
<1>1. /\ len \in Nat /\ book \in Seq(BookRow) /\ channel \in Seq(Frames(len)) /\ stored \in Seq(StoredNotices(len))
      /\ listener \in Listeners(len)
  BY DEF RepairTypes, BookFits, ProcessTypes
<1> HIDE DEF len
<1>2. Queued(channel, kind) \in Nat
  BY <1>1, QueuedType
<1>3. Hand(listener, kind) \in Nat
  BY <1>1, HandType
<1>4. SumWaiting(stored, kind) \in Nat
  BY <1>1, WaitingType
<1>5. FilledOf(book) \in Nat /\ QuantityOf(book) \in Nat
  BY <1>1, BookSums
<1>6. ToCome(kind) = Queued(channel, kind) + Hand(listener, kind) + SumWaiting(stored, kind)
  BY ToComeIs
<1> QED
  BY <1>1, <1>2, <1>3, <1>4, <1>5, <1>6 DEF len

\* The listener is through with one notification.
LEMMA NextTakes ==
  ASSUME NEW len \in Nat, listener \in Listeners(len), listener.at \in {"read", "write"},
         NEW blocked \in BOOLEAN, NextNotification(blocked), NEW kind
  PROVE  /\ listener' \in Listeners(len) /\ listener'.at \in {"idle", "read"}
         /\ Hand(listener, kind) = Amount(Notice, kind) + Hand(listener', kind)
         /\ Hand(listener', kind) \in Nat /\ Amount(Notice, kind) \in Nat
<1> DEFINE f == listener.frame
           i == listener.i
<1>1. listener # AtRest
  BY DEF AtRest
<1>2. /\ f \in Frames(len) /\ i \in 1..Len(f) /\ listener.at # "idle" /\ f[i] \in Notices(len)
  BY <1>1, ListenerHolds
<1>3. f \in Seq(Notices(len)) /\ Len(f) \in Nat
  BY <1>2 DEF Frames
<1>4. /\ InFrame(f, i, kind) = Amount(f[i], kind) + InFrame(f, i + 1, kind)
      /\ InFrame(f, i + 1, kind) \in Nat /\ Amount(f[i], kind) \in Nat
      /\ i = Len(f) => InFrame(f, i + 1, kind) = 0
  BY <1>2, <1>3, FrameStep
<1>5. Hand(listener, kind) = InFrame(f, i, kind) /\ Amount(Notice, kind) = Amount(f[i], kind)
  BY <1>2 DEF Hand, Notice
<1>6. CASE i < Len(f)
  <2>1. listener' = [at |-> "read", frame |-> f, i |-> i + 1, blocked |-> blocked]
    BY <1>6 DEF NextNotification
  <2>2. i + 1 \in 1..Len(f)
    BY <1>2, <1>3, <1>6
  <2> HIDE DEF f, i
  <2>3. listener' \in Listeners(len)
    BY <1>2, <1>3, <2>1, <2>2 DEF Listeners
  <2>4. Hand(listener', kind) = InFrame(f, i + 1, kind) /\ listener'.at = "read"
    BY <2>1 DEF Hand
  <2> QED
    BY <1>4, <1>5, <2>3, <2>4
<1>7. CASE i = Len(f)
  <2>1. listener' = AtRest
    BY <1>3, <1>7 DEF NextNotification
  <2>2. listener' \in Listeners(len) /\ Hand(listener', kind) = 0 /\ listener'.at = "idle"
    BY <2>1 DEF Listeners, Hand, AtRest
  <2> QED
    BY <1>4, <1>5, <1>7, <2>2
<1> QED
  BY <1>2, <1>3, <1>6, <1>7

\* What the listener stores.
LEMMA StoredRowIs ==
  ASSUME NEW len \in Nat, listener \in Listeners(len), listener # AtRest, NEW problem \in BOOLEAN
  PROVE  /\ StoredRow(problem) \in StoredNotices(len)
         /\ ~ StoredRow(problem).resolved /\ (StoredRow(problem).problem <=> problem)
         /\ StoredRow(problem).frame[StoredRow(problem).i] = Notice
<1>1. listener.frame \in Frames(len) /\ listener.i \in 1..Len(listener.frame)
  BY ListenerHolds
<1>2. StoredRow(problem) \in StoredNotices(len)
  BY <1>1 DEF StoredRow, StoredNotices, Frames
<1>3. /\ ~ StoredRow(problem).resolved /\ (StoredRow(problem).problem <=> problem)
      /\ StoredRow(problem).frame[StoredRow(problem).i] = Notice
  BY DEF StoredRow, Notice
<1> QED
  BY <1>2, <1>3
\* A frame is taken from the channel.
LEMMA ReceiveMoves ==
  ASSUME NEW len \in Nat, channel \in Seq(Frames(len)), stored \in Seq(StoredNotices(len)), Receive,
         NEW kind
  PROVE  /\ listener' \in Listeners(len) /\ channel' \in Seq(Frames(len))
         /\ listener'.at = "read"
         /\ ToCome(kind)' = ToCome(kind)
<1>1. /\ listener.at = "idle" /\ channel # <<>>
      /\ listener' = [at |-> "read", frame |-> Head(channel), i |-> 1, blocked |-> FALSE]
      /\ channel' = Tail(channel) /\ stored' = stored
  BY DEF Receive, storeVars
<1>2. Head(channel) \in Frames(len) /\ channel' \in Seq(Frames(len))
  BY <1>1
<1>3. 1 \in 1..Len(Head(channel))
  BY <1>2 DEF Frames
<1>4. listener' \in Listeners(len)
  BY <1>1, <1>2, <1>3 DEF Listeners
<1>5. Queued(channel, kind) = InFrame(Head(channel), 1, kind) + Queued(channel', kind)
  BY <1>1, QueuedLess
<1>6. InFrame(Head(channel), 1, kind) \in Nat /\ Queued(channel', kind) \in Nat
  BY <1>2, <1>3, FrameType, QueuedType
<1>7. Hand(listener, kind) = 0 /\ Hand(listener', kind) = InFrame(Head(channel), 1, kind)
  BY <1>1 DEF Hand
<1>8. SumWaiting(stored, kind) \in Nat
  BY WaitingType
<1>9. /\ ToCome(kind) = Queued(channel, kind) + Hand(listener, kind) + SumWaiting(stored, kind)
      /\ ToCome(kind)' = Queued(channel', kind) + Hand(listener', kind) + SumWaiting(stored, kind)
  BY <1>1, ToComeIs
<1>10. ToCome(kind)' = ToCome(kind)
  BY <1>5, <1>6, <1>7, <1>8, <1>9
<1> QED
  BY <1>1, <1>2, <1>4, <1>10

\* A notification is stored: as a problem it still waits, otherwise it is done with.
LEMMA StoreMoves ==
  ASSUME NEW len \in Nat, channel \in Seq(Frames(len)), stored \in Seq(StoredNotices(len)),
         listener \in Listeners(len), listener.at \in {"read", "write"},
         NEW problem \in BOOLEAN, stored' = Append(stored, StoredRow(problem)), channel' = channel,
         NEW blocked \in BOOLEAN, NextNotification(blocked), NEW kind
  PROVE  /\ listener' \in Listeners(len) /\ stored' \in Seq(StoredNotices(len))
         /\ listener'.at \in {"idle", "read"}
         /\ Amount(Notice, kind) \in Nat /\ ToCome(kind)' \in Nat
         /\ ToCome(kind) = ToCome(kind)' + (IF problem THEN 0 ELSE Amount(Notice, kind))
<1> DEFINE s == StoredRow(problem)
<1>1. listener # AtRest
  BY DEF AtRest
<1>2. s \in StoredNotices(len) /\ ~ s.resolved /\ (s.problem <=> problem) /\ s.frame[s.i] = Notice
  BY <1>1, StoredRowIs
<1> HIDE DEF s
<1>3. SumWaiting(Append(stored, s), kind) =
        SumWaiting(stored, kind) + (IF s.problem THEN Amount(s.frame[s.i], kind) ELSE 0)
  BY <1>2, WaitingMore
<1>4. stored' = Append(stored, s)
  BY DEF s
<1>5. SumWaiting(stored', kind) = SumWaiting(stored, kind) + (IF problem THEN Amount(Notice, kind) ELSE 0)
  BY <1>2, <1>3, <1>4
<1>6. /\ listener' \in Listeners(len) /\ listener'.at \in {"idle", "read"}
      /\ Hand(listener, kind) = Amount(Notice, kind) + Hand(listener', kind)
      /\ Hand(listener', kind) \in Nat /\ Amount(Notice, kind) \in Nat
  BY NextTakes
<1>7. stored' \in Seq(StoredNotices(len))
  BY <1>2, <1>4
<1>8. Queued(channel, kind) \in Nat /\ SumWaiting(stored, kind) \in Nat
  BY QueuedType, WaitingType
<1>9. /\ ToCome(kind) = Queued(channel, kind) + Hand(listener, kind) + SumWaiting(stored, kind)
      /\ ToCome(kind)' = Queued(channel, kind) + Hand(listener', kind) + SumWaiting(stored', kind)
  BY ToComeIs
<1> QED
  BY <1>5, <1>6, <1>7, <1>8, <1>9

\* A stored notification is marked as replayed.
LEMMA ResolveMoves ==
  ASSUME NEW len \in Nat, stored \in Seq(StoredNotices(len)), NEW e \in DOMAIN stored,
         stored' = [stored EXCEPT ![e].resolved = TRUE], NEW kind
  PROVE  /\ stored' \in Seq(StoredNotices(len)) /\ DOMAIN stored' = DOMAIN stored
         /\ \A k \in DOMAIN stored : /\ stored'[k].frame = stored[k].frame /\ stored'[k].i = stored[k].i
                                     /\ stored'[k].problem = stored[k].problem
         /\ WaitingIn(stored') = WaitingIn(stored) \ {e}
         /\ SumWaiting(stored', kind) \in Nat
         /\ SumWaiting(stored, kind) = SumWaiting(stored', kind)
              + (IF e \in WaitingIn(stored) THEN Amount(Own(e), kind) ELSE 0)
<1>1. /\ DOMAIN stored = 1..Len(stored) /\ \A k \in DOMAIN stored : stored[k] \in StoredNotices(len)
      /\ DOMAIN stored' = DOMAIN stored /\ stored'[e] = [stored[e] EXCEPT !.resolved = TRUE]
      /\ \A k \in DOMAIN stored \ {e} : stored'[k] = stored[k]
  OBVIOUS
<1>2. /\ stored'[e] \in StoredNotices(len) /\ stored'[e].frame = stored[e].frame /\ stored'[e].i = stored[e].i
      /\ stored'[e].problem = stored[e].problem /\ stored'[e].resolved = TRUE
  BY <1>1 DEF StoredNotices
<1>3. stored' \in Seq(StoredNotices(len))
  BY <1>2
<1>4. \A k \in DOMAIN stored : /\ stored'[k].frame = stored[k].frame /\ stored'[k].i = stored[k].i
                               /\ stored'[k].problem = stored[k].problem
  BY <1>1, <1>2
<1>5. WaitingIn(stored') = WaitingIn(stored) \ {e}
  BY <1>1, <1>2 DEF WaitingIn
<1>6. SumWaiting(stored', kind) \in Nat /\ SumWaiting(stored, kind) \in Nat
  BY <1>3, WaitingType
<1>9. ASSUME e \in WaitingIn(stored)
      PROVE  SumWaiting(stored, kind) = SumWaiting(stored', kind) + Amount(Own(e), kind)
  <2>1. SumWaiting(stored, kind) = Amount(stored[e].frame[stored[e].i], kind) + SumWaiting(stored', kind)
    BY <1>9, WaitingLess, ZenonT(40)
  <2>2. Amount(Own(e), kind) \in Nat
    BY WaitingType DEF Own
  <2>3. SumWaiting(stored, kind) = SumWaiting(stored', kind) + Amount(Own(e), kind)
    BY <1>6, <2>1, <2>2 DEF Own
  <2> QED
    BY <2>3
<1>10. ASSUME e \notin WaitingIn(stored)
       PROVE  SumWaiting(stored, kind) = SumWaiting(stored', kind) + 0
  <2> DEFINE a == [k \in DOMAIN stored |-> Amount(stored[k].frame[stored[k].i], kind)]
             b == [k \in DOMAIN stored' |-> Amount(stored'[k].frame[stored'[k].i], kind)]
  <2>1. WaitingIn(stored') = WaitingIn(stored)
    BY <1>5, <1>10
  <2>2. b = a
    BY <1>1, <1>4
  <2>3. SumWaiting(stored, kind) = Total(a, WaitingIn(stored)) /\ SumWaiting(stored', kind) = Total(b, WaitingIn(stored'))
    BY SumsAreTotals
  <2> HIDE DEF a, b
  <2>4. SumWaiting(stored, kind) = SumWaiting(stored', kind)
    BY <2>1, <2>2, <2>3
  <2> QED
    BY <1>6, <2>4
<1> QED
  BY <1>1, <1>3, <1>4, <1>5, <1>6, <1>9, <1>10

-----------------------------------------------------------------------------
(* Where a replay is.                                                    *)

\* Stored notifications keep their frames, so a replay keeps its place.
LEMMA PlaceKept ==
  ASSUME NEW r, NEW q, NEW st, NEW new, Placed(r, st), DOMAIN st \subseteq DOMAIN new,
         DOMAIN st \subseteq Nat,
         \A k \in DOMAIN st : new[k].frame = st[k].frame,
         q = AtRest <=> r = AtRest, r # AtRest => q.todo = r.todo /\ q.j = r.j
  PROVE  Placed(q, new)
<1> SUFFICES ASSUME q # AtRest
             PROVE  q.todo \subseteq DOMAIN new /\ q.todo # {} /\ q.j \in 1..Len(new[Min(q.todo)].frame)
  BY DEF Placed
<1>1. r # AtRest /\ q.todo = r.todo /\ q.j = r.j
  OBVIOUS
<1>2. r.todo \subseteq DOMAIN st /\ r.todo # {} /\ r.j \in 1..Len(st[Min(r.todo)].frame)
  BY <1>1 DEF Placed
<1>3. Min(r.todo) \in r.todo
  BY <1>2, SmallestIsIn
<1> QED
  BY <1>1, <1>2, <1>3

\* The notification that is replayed.
LEMMA ReplayedIs ==
  ASSUME NEW len \in Nat, replayer \in Replayers(len), replayer # AtRest, Placed(replayer, stored),
         stored \in Seq(StoredNotices(len))
  PROVE  /\ Entry \in replayer.todo /\ replayer.todo \subseteq DOMAIN stored /\ replayer.todo \subseteq Nat
         /\ DOMAIN stored \subseteq Nat
         /\ stored[Entry] \in StoredNotices(len) /\ stored[Entry].frame \in Frames(len)
         /\ Len(stored[Entry].frame) \in Nat /\ Len(stored[Entry].frame) >= 1
         /\ replayer.j \in 1..Len(stored[Entry].frame) /\ Replayed \in Notices(len)
         /\ replayer.at \in {"read", "write"}
         /\ replayer.at = "write" => replayer.order \in OrderRows(len) /\ replayer.stale \in BOOLEAN
<1>1. /\ replayer.todo \subseteq DOMAIN stored /\ replayer.todo # {}
      /\ replayer.j \in 1..Len(stored[Entry].frame)
  BY DEF Placed, Entry
<1>2. DOMAIN stored \subseteq Nat /\ \A k \in DOMAIN stored : stored[k] \in StoredNotices(len)
  OBVIOUS
<1>3. Entry \in replayer.todo
  BY <1>1, <1>2, SmallestIsIn DEF Entry
<1>4. stored[Entry] \in StoredNotices(len)
  BY <1>1, <1>2, <1>3
<1>5. stored[Entry].frame \in Frames(len)
  BY <1>4 DEF StoredNotices
<1>6. Len(stored[Entry].frame) \in Nat /\ Len(stored[Entry].frame) >= 1 /\ Replayed \in Notices(len)
  BY <1>1, <1>5 DEF Frames, Replayed
<1>7. /\ replayer.at \in {"read", "write"}
      /\ replayer.at = "write" => replayer.order \in OrderRows(len) /\ replayer.stale \in BOOLEAN
  BY DEF Replayers, AtRest
<1> QED
  BY <1>1, <1>2, <1>3, <1>4, <1>5, <1>6, <1>7

\* One notification further, or one entry further, or the end.
LEMMA ReplayGoesOn ==
  ASSUME NEW len \in Nat, replayer \in Replayers(len), replayer # AtRest, Placed(replayer, stored),
         stored \in Seq(StoredNotices(len)), NextReplay
  PROVE  /\ replayer' \in Replayers(len) /\ Placed(replayer', stored) /\ replayer'.at \in {"idle", "read"}
         /\ replayer' # AtRest => replayer'.todo \subseteq replayer.todo
         /\ replayer' # AtRest /\ replayer.j = Len(stored[Entry].frame) => Entry \notin replayer'.todo
<1>1. /\ Entry \in replayer.todo /\ replayer.todo \subseteq DOMAIN stored /\ replayer.todo \subseteq Nat
      /\ DOMAIN stored \subseteq Nat
      /\ Len(stored[Entry].frame) \in Nat /\ replayer.j \in 1..Len(stored[Entry].frame)
      /\ \A k \in DOMAIN stored : stored[k].frame \in Frames(len)
  <2>1. \A k \in DOMAIN stored : stored[k].frame \in Frames(len)
    BY DEF StoredNotices
  <2> QED
    BY <2>1, ReplayedIs
<1>2. CASE replayer.j < Len(stored[Entry].frame)
  <2>1. replayer' = [at |-> "read", todo |-> replayer.todo, j |-> replayer.j + 1]
    BY <1>1, <1>2 DEF NextReplay
  <2>2. replayer.j + 1 \in 1..Len(stored[Entry].frame) /\ replayer.j + 1 \in Nat
    BY <1>1, <1>2
  <2>3. replayer' \in Replayers(len) /\ replayer' # AtRest
    BY <1>1, <2>1, <2>2 DEF Replayers, AtRest
  <2>4. Placed(replayer', stored)
    BY <1>1, <2>1, <2>2 DEF Placed, Entry
  <2> QED
    BY <1>1, <1>2, <2>1, <2>3, <2>4
<1>3. CASE replayer.j = Len(stored[Entry].frame) /\ replayer.todo # {Entry}
  <2>1. replayer' = [at |-> "read", todo |-> replayer.todo \ {Entry}, j |-> 1]
    BY <1>1, <1>3 DEF NextReplay
  <2> DEFINE rest == replayer.todo \ {Entry}
  <2>2. rest \subseteq Nat /\ rest \subseteq DOMAIN stored /\ rest # {}
    BY <1>1, <1>3
  <2>3. replayer' \in Replayers(len)
    BY <2>1, <2>2 DEF Replayers
  <2>4. Min(rest) \in rest
    BY <2>2, SmallestIsIn
  <2>5. 1 \in 1..Len(stored[Min(rest)].frame)
    BY <1>1, <2>2, <2>4 DEF Frames
  <2>6. Placed(replayer', stored)
    BY <2>1, <2>2, <2>5 DEF Placed
  <2> QED
    BY <2>1, <2>3, <2>6
<1>4. CASE ~ (replayer.j < Len(stored[Entry].frame)) /\ ~ (replayer.j = Len(stored[Entry].frame) /\ replayer.todo # {Entry})
  <2>1. replayer' = AtRest
    BY <1>4 DEF NextReplay
  <2> QED
    BY <2>1 DEF Replayers, Placed, AtRest
<1> QED
  BY <1>2, <1>3, <1>4
-----------------------------------------------------------------------------
(* Types are kept.                                                       *)

\* The broker's steps are those of FillsTrade, CancelTrades and RevisionTrades.
LEMMA TypesTraded ==
  ASSUME RepairTypes, Traded, UNCHANGED <<shape, row, stored, problems, listener, attestor, replayer, resolver>>,
         UNCHANGED <<unheard, dropped, muddled>>, reviser' \in Revisers(Len(book'))
  PROVE  RepairTypes'
<1> DEFINE len == Len(book)
           new == Len(book')
<1>1. /\ row \in OrderRows(len) /\ stored \in Seq(StoredNotices(len)) /\ problems \subseteq 0..len
      /\ listener \in Listeners(len) /\ attestor \in Attestors /\ replayer \in Replayers(len)
      /\ resolver \in Resolvers(len) /\ Placed(replayer, stored) /\ len \in Nat
  BY DEF RepairTypes, ProcessTypes, BookFits
<1>2. BookFits' /\ channel' \in Seq(Frames(new)) /\ new \in Nat /\ len <= new
  BY <1>1 DEF Traded
<1> HIDE DEF len, new
<1>3. /\ row \in OrderRows(new) /\ stored \in Seq(StoredNotices(new)) /\ problems \subseteq 0..new
  BY <1>1, <1>2, LongerBook
<1>4. /\ listener \in Listeners(new) /\ replayer \in Replayers(new) /\ resolver \in Resolvers(new)
  BY <1>1, <1>2, LongerBookProcesses
<1>5. ShapeType' /\ CountTypes' /\ Placed(replayer, stored)'
  BY <1>1 DEF RepairTypes, ShapeType, CountTypes, Placed
<1> QED
  BY <1>1, <1>2, <1>3, <1>4, <1>5 DEF RepairTypes, ProcessTypes, new

\* Types, actor by actor.
LEMMA TypesBroker ==
  ASSUME RepairTypes, (\E n \in Numbers : Fills(n)) \/ CancelRest \/ SendRevision
  PROVE  RepairTypes'
<1>1. /\ ShapeType /\ BookFits /\ channel \in Seq(Frames(Len(book))) /\ row \in OrderRows(Len(book))
      /\ reviser \in Revisers(Len(book)) /\ Len(book) \in Nat
  BY DEF RepairTypes, ProcessTypes, BookFits
<1>2. ASSUME NEW n \in Numbers, Fills(n) PROVE RepairTypes'
  <2>1. Traded /\ Len(book') = Len(book)
    BY <1>1, <1>2, FillsTrade
  <2>2. UNCHANGED <<shape, row, stored, problems, listener, attestor, replayer, resolver, reviser,
                    unheard, dropped, muddled>>
    BY <1>2 DEF Fills, storeVars, processVars, repairBounds, repairHistory
  <2> QED
    BY <1>1, <2>1, <2>2, TypesTraded
<1>3. CASE CancelRest
  <2>1. Traded /\ Len(book') = Len(book)
    BY <1>1, <1>3, CancelTrades
  <2>2. UNCHANGED <<shape, row, stored, problems, listener, attestor, replayer, resolver, reviser,
                    unheard, dropped, muddled>>
    BY <1>3 DEF CancelRest, storeVars, processVars, repairBounds, repairHistory
  <2> QED
    BY <1>1, <2>1, <2>2, TypesTraded
<1>4. CASE SendRevision
  <2>1. UNCHANGED <<shape, row, stored, problems, listener, attestor, replayer, resolver,
                    unheard, dropped, muddled>>
    BY <1>4 DEF SendRevision, storeVars, repairBounds
  <2>2. reviser.number \in Numbers
    BY <1>1, <1>4 DEF SendRevision, Revisers, AtRest, Numbers
  <2>3. CASE Revised(reviser.number) /\ reviser' \in {AtRest, [at |-> "record", new |-> Len(book) + 1]}
    <3>1. Traded /\ Len(book') = Len(book) + 1
      BY <1>1, <2>2, <2>3, RevisionTrades
    <3>2. reviser' \in Revisers(Len(book'))
      BY <1>1, <2>3, <3>1 DEF Revisers
    <3> QED
      BY <2>1, <3>1, <3>2, TypesTraded
  <2>4. CASE reviser' = AtRest /\ UNCHANGED brokerVars
    <3>1. ShapeType' /\ BookFits' /\ CountTypes' /\ Placed(replayer, stored)'
      BY <2>1, <2>4 DEF RepairTypes, ShapeType, BookFits, Numbers, CountTypes, Placed, brokerVars
    <3>2. reviser' \in Revisers(Len(book))
      BY <2>4 DEF Revisers
    <3> QED
      BY <2>1, <2>4, <3>1, <3>2 DEF RepairTypes, ProcessTypes, brokerVars
  <2> QED
    BY <1>4, <2>3, <2>4 DEF SendRevision
<1> QED
  BY <1>2, <1>3, <1>4

\* Steps that leave the book alone.
LEMMA TypesFrame ==
  ASSUME RepairTypes, UNCHANGED <<shape, book>>,
         row' \in OrderRows(Len(book)), channel' \in Seq(Frames(Len(book))),
         stored' \in Seq(StoredNotices(Len(book))), problems' \subseteq 0..Len(book),
         listener' \in Listeners(Len(book)), reviser' \in Revisers(Len(book)), attestor' \in Attestors,
         replayer' \in Replayers(Len(book)), resolver' \in Resolvers(Len(book)),
         Placed(replayer', stored'), unheard' \in Nat, dropped' \in Nat, muddled' \in BOOLEAN
  PROVE  RepairTypes'
<1>1. ShapeType' /\ BookFits' /\ CountTypes'
  BY DEF RepairTypes, ShapeType, BookFits, Numbers, CountTypes
<1>2. Placed(replayer, stored)'
  BY DEF Placed
<1> QED
  BY <1>1, <1>2 DEF RepairTypes, ProcessTypes

\* The types, laid out for use.
LEMMA TypesNow ==
  ASSUME RepairTypes
  PROVE  /\ Len(book) \in Nat
         /\ row \in OrderRows(Len(book)) /\ channel \in Seq(Frames(Len(book)))
         /\ stored \in Seq(StoredNotices(Len(book))) /\ problems \subseteq 0..Len(book)
         /\ listener \in Listeners(Len(book)) /\ reviser \in Revisers(Len(book)) /\ attestor \in Attestors
         /\ replayer \in Replayers(Len(book)) /\ resolver \in Resolvers(Len(book))
         /\ Placed(replayer, stored) /\ unheard \in Nat /\ dropped \in Nat /\ muddled \in BOOLEAN
  BY DEF RepairTypes, ProcessTypes, CountTypes, BookFits

\* One more stored notification leaves a replay where it is.
LEMMA PlaceAppended ==
  ASSUME NEW len \in Nat, NEW s, NEW q, NEW r, NEW st \in Seq(StoredNotices(len)), Placed(r, st),
         q = AtRest <=> r = AtRest, r # AtRest => q.todo = r.todo /\ q.j = r.j
  PROVE  Placed(q, Append(st, s))
<1> DEFINE new == Append(st, s)
<1>1. DOMAIN st \subseteq DOMAIN new /\ DOMAIN st \subseteq Nat /\ \A k \in DOMAIN st : new[k].frame = st[k].frame
  OBVIOUS
<1> HIDE DEF new
<1>2. Placed(q, new)
  BY <1>1, PlaceKept
<1> QED
  BY <1>2 DEF new
\* What the listener writes of the result: state and executed shares, or the quantity.
LEMMA WrittenIs ==
  ASSUME NEW len \in Nat, NEW r \in OrderRows(len), NEW order \in OrderRows(len), NEW n \in Notices(len),
         ~ Problem(order, n)
  PROVE  /\ Written(r, order, n) \in OrderRows(len) /\ Written(r, order, n).number = r.number
         /\ Applied(order, n).state # order.state =>
              /\ Written(r, order, n).state = Applied(order, n).state
              /\ Written(r, order, n).filled = Applied(order, n).filled
              /\ Written(r, order, n).quantity = r.quantity
         /\ Applied(order, n).state = order.state =>
              /\ Written(r, order, n).state = r.state /\ Written(r, order, n).filled = r.filled
              /\ n.kind = "cancel" => Written(r, order, n).quantity = order.quantity - n.quantity
              /\ n.kind # "cancel" => Written(r, order, n).quantity = r.quantity
<1> DEFINE new == Applied(order, n)
           w == Written(r, order, n)
<1>1. /\ new \in OrderRows(len)
      /\ n.kind = "execution" => new.quantity = order.quantity
      /\ n.kind = "cancel" => \/ new.state = "canceled" /\ new.quantity = order.quantity
                              \/ /\ new.state = order.state /\ new.quantity = order.quantity - n.quantity
                                 /\ new.quantity # order.quantity
      /\ n.kind = "revision" => new = order
      /\ order.state \in OpenStates
      /\ n.kind \in Kinds
  BY AppliedIs DEF Notices
<1>2. w = CASE new.state # order.state       -> [r EXCEPT !.state = new.state, !.filled = new.filled]
            [] new.quantity # order.quantity -> [r EXCEPT !.quantity = new.quantity]
            [] OTHER                         -> r
  BY DEF Written
<1> HIDE DEF new, w
<1>3. CASE new.state # order.state
  <2>1. new.quantity = order.quantity
    BY <1>1, <1>3 DEF Kinds
  <2>2. w = [r EXCEPT !.state = new.state, !.filled = new.filled]
    BY <1>2, <1>3, <2>1
  <2>3. w \in OrderRows(len)
    BY <1>1, <2>2 DEF OrderRows
  <2>4. w.number = r.number /\ w.state = new.state /\ w.filled = new.filled /\ w.quantity = r.quantity
    BY <1>1, <2>2 DEF OrderRows
  <2> QED
    BY <1>3, <2>3, <2>4 DEF new, w
<1>4. CASE new.state = order.state /\ new.quantity # order.quantity
  <2>1. w = [r EXCEPT !.quantity = new.quantity]
    BY <1>2, <1>4
  <2>2. n.kind = "cancel" /\ new.quantity = order.quantity - n.quantity
    BY <1>1, <1>4 DEF Kinds
  <2>3. w \in OrderRows(len)
    BY <1>1, <2>1 DEF OrderRows
  <2>4. w.number = r.number /\ w.state = r.state /\ w.filled = r.filled /\ w.quantity = new.quantity
    BY <1>1, <2>1 DEF OrderRows
  <2> QED
    BY <1>4, <2>2, <2>3, <2>4 DEF new, w
<1>5. CASE new.state = order.state /\ new.quantity = order.quantity
  <2>1. w = r
    BY <1>2, <1>5
  <2>2. n.kind # "cancel"
    BY <1>1, <1>5 DEF OpenStates
  <2> QED
    BY <1>5, <2>1, <2>2 DEF new, w
<1> QED
  BY <1>3, <1>4, <1>5

\* The listener's steps.
LEMMA TypesListener ==
  ASSUME RepairTypes, Receive \/ Find \/ Unmatched \/ Refuse \/ Apply \/ Raise
  PROVE  RepairTypes'
<1> DEFINE len == Len(book)
<1>1. /\ len \in Nat
      /\ row \in OrderRows(len) /\ channel \in Seq(Frames(len))
      /\ stored \in Seq(StoredNotices(len)) /\ problems \subseteq 0..len
      /\ listener \in Listeners(len) /\ reviser \in Revisers(len) /\ attestor \in Attestors
      /\ replayer \in Replayers(len) /\ resolver \in Resolvers(len)
      /\ Placed(replayer, stored) /\ unheard \in Nat /\ dropped \in Nat /\ muddled \in BOOLEAN
  BY TypesNow
<1>2. ASSUME listener.at \in {"read", "write"}
      PROVE  /\ listener # AtRest /\ listener.frame \in Frames(len) /\ listener.i \in 1..Len(listener.frame)
             /\ listener.i \in Nat
             /\ listener.blocked \in BOOLEAN /\ Notice \in Notices(len)
             /\ listener.at = "write" => listener.order \in OrderRows(len) /\ listener.stale \in BOOLEAN
  <2>1. listener # AtRest
    BY <1>2 DEF AtRest
  <2>2. /\ listener.frame \in Frames(len) /\ listener.i \in 1..Len(listener.frame)
        /\ listener.blocked \in BOOLEAN /\ Notice \in Notices(len)
        /\ listener.at = "write" => listener.order \in OrderRows(len) /\ listener.stale \in BOOLEAN
    BY <1>1, <1>2, <2>1, ListenerHolds DEF Notice
  <2> QED
    BY <2>1, <2>2
<1>3. ASSUME NEW problem \in BOOLEAN, NEW blocked \in BOOLEAN, listener.at \in {"read", "write"},
             stored' = Append(stored, StoredRow(problem)), channel' = channel, NextNotification(blocked)
      PROVE  listener' \in Listeners(len) /\ stored' \in Seq(StoredNotices(len))
  BY <1>1, <1>3, StoreMoves
<1> HIDE DEF len
<1>4. CASE Receive
  <2>1. listener' \in Listeners(len) /\ channel' \in Seq(Frames(len))
    BY <1>1, <1>4, ReceiveMoves
  <2>2. UNCHANGED <<shape, book, row, stored, problems, reviser, attestor, replayer, resolver,
                    unheard, dropped, muddled>>
    BY <1>4 DEF Receive, storeVars, repairBounds, repairHistory
  <2> QED
    BY <1>1, <2>1, <2>2, TypesFrame DEF len
<1>5. CASE Find
  <2>1. UNCHANGED <<shape, book, channel, row, stored, problems, reviser, attestor, replayer, resolver,
                    unheard, dropped, muddled>>
    BY <1>5 DEF Find, storeVars, brokerVars, repairBounds, repairHistory
  <2>2. listener' = [at |-> "write", frame |-> listener.frame, i |-> listener.i,
                     blocked |-> listener.blocked, order |-> row, stale |-> FALSE]
    BY <1>5 DEF Find
  <2>3. listener' \in Listeners(len)
    <3>1. listener.at = "read"
      BY <1>5 DEF Find
    <3> QED
      BY <1>1, <1>2, <2>2, <3>1 DEF Listeners
  <2> QED
    BY <1>1, <2>1, <2>3, TypesFrame DEF len
<1>6. CASE Raise
  <2>1. UNCHANGED <<shape, book, channel, row, stored, problems, reviser, attestor, replayer, resolver,
                    unheard, dropped, muddled>>
    BY <1>6 DEF Raise, storeVars, brokerVars, repairBounds, repairHistory
  <2>2. listener' = [at |-> "dead", frame |-> listener.frame, i |-> listener.i] /\ listener.at = "write"
    BY <1>6 DEF Raise
  <2>3. listener' \in Listeners(len)
    BY <1>1, <1>2, <2>2 DEF Listeners
  <2> QED
    BY <1>1, <2>1, <2>3, TypesFrame DEF len
<1>7. ASSUME Unmatched \/ Refuse PROVE RepairTypes'
  <2>1. /\ UNCHANGED <<shape, book, channel, row, reviser, attestor, replayer, resolver,
                       unheard, dropped, muddled>>
        /\ listener.at \in {"read", "write"}
        /\ stored' = Append(stored, StoredRow(TRUE)) /\ NextNotification(TRUE)
        /\ problems' \in {problems \cup {Notice.number}, problems \cup {Notice.own}}
    BY <1>7 DEF Unmatched, Refuse, brokerVars, repairBounds, repairHistory
  <2>2. listener' \in Listeners(len) /\ stored' \in Seq(StoredNotices(len))
    BY <1>3, <2>1
  <2>3. problems' \subseteq 0..len
    <3>1. Notice.number \in 0..len /\ Notice.own \in 0..len
      BY <1>1, <1>2, <2>1 DEF Notices
    <3> QED
      BY <1>1, <2>1, <3>1
  <2>4. Placed(replayer', stored')
    BY <1>1, <2>1, PlaceAppended
  <2> QED
    BY <1>1, <2>1, <2>2, <2>3, <2>4, TypesFrame DEF len
<1>8. CASE Apply
  <2>1. /\ UNCHANGED <<shape, book, channel, problems, reviser, resolver, unheard>>
        /\ listener.at = "write" /\ ~ Problem(listener.order, Notice)
        /\ row' = Written(row, listener.order, Notice)
        /\ stored' = Append(stored, StoredRow(FALSE)) /\ NextNotification(listener.blocked)
        /\ attestor' = Stale(attestor) /\ replayer' \in {replayer, Stale(replayer)}
    BY <1>8 DEF Apply, Refused, brokerVars, repairBounds
  <2>2. listener.order \in OrderRows(len) /\ listener.stale \in BOOLEAN /\ listener.blocked \in BOOLEAN
        /\ Notice \in Notices(len)
    BY <1>2, <2>1
  <2>3. row' \in OrderRows(len)
    BY <1>1, <2>1, <2>2, WrittenIs
  <2>4. listener' \in Listeners(len) /\ stored' \in Seq(StoredNotices(len))
    BY <1>3, <2>1, <2>2
  <2>5. attestor' \in Attestors
    BY <1>1, <2>1, StaleAttestor
  <2>6. replayer' \in Replayers(len) /\ (replayer' = AtRest <=> replayer = AtRest)
        /\ (replayer # AtRest => replayer'.todo = replayer.todo /\ replayer'.j = replayer.j)
    BY <1>1, <2>1, StaleReplayer
  <2>7. Placed(replayer', stored')
    BY <1>1, <2>1, <2>6, PlaceAppended
  <2>8. dropped' \in Nat /\ muddled' \in BOOLEAN
    <3>1. Amount(Notice, "execution") \in Nat
      BY <1>1, <2>2, AmountType
    <3> QED
      BY <1>1, <1>8, <2>2, <3>1 DEF Apply
  <2> QED
    BY <1>1, <2>1, <2>3, <2>4, <2>5, <2>6, <2>7, <2>8, TypesFrame DEF len
<1> QED
  BY <1>4, <1>5, <1>6, <1>7, <1>8
\* Those of a revision,
LEMMA TypesReviser ==
  ASSUME RepairTypes, StartRevision \/ CheckRevision \/ RecordRevision \/ PersonGoesOn
  PROVE  RepairTypes'
<1> DEFINE len == Len(book)
<1>1. /\ len \in Nat
      /\ row \in OrderRows(len) /\ channel \in Seq(Frames(len))
      /\ stored \in Seq(StoredNotices(len)) /\ problems \subseteq 0..len
      /\ listener \in Listeners(len) /\ reviser \in Revisers(len) /\ attestor \in Attestors
      /\ replayer \in Replayers(len) /\ resolver \in Resolvers(len)
      /\ Placed(replayer, stored) /\ unheard \in Nat /\ dropped \in Nat /\ muddled \in BOOLEAN
  BY TypesNow
<1> HIDE DEF len
<1>2. UNCHANGED <<shape, book, channel, stored, problems, listener, attestor, replayer, resolver,
                  unheard, dropped, muddled>>
  BY DEF StartRevision, CheckRevision, RecordRevision, PersonGoesOn, storeVars, brokerVars, processVars,
         repairBounds, repairHistory
<1>3. row' \in OrderRows(len) /\ reviser' \in Revisers(len)
  <2>1. CASE StartRevision
    <3>1. row' = row /\ reviser' = [at |-> "check", number |-> row.number] /\ row.number \in 1..len
      BY <1>1, <2>1 DEF StartRevision, storeVars, OrderRows
    <3> QED
      BY <1>1, <3>1 DEF Revisers
  <2>2. CASE CheckRevision
    <3>1. row' = row /\ reviser.at = "check" /\ reviser' \in {AtRest, [reviser EXCEPT !.at = "send"]}
      BY <2>2 DEF CheckRevision, storeVars
    <3>2. reviser \in [at : {"check", "send"}, number : 1..len]
      BY <1>1, <3>1 DEF Revisers, AtRest
    <3>3. [reviser EXCEPT !.at = "send"] \in [at : {"check", "send"}, number : 1..len]
      BY <3>2
    <3> QED
      BY <1>1, <3>1, <3>3 DEF Revisers
  <2>3. CASE RecordRevision
    <3>1. row' = [row EXCEPT !.number = reviser.new] /\ reviser.at = "record" /\ reviser' = AtRest
      BY <2>3 DEF RecordRevision, Renumbered
    <3>2. reviser.new \in 1..len
      BY <1>1, <3>1 DEF Revisers, AtRest
    <3> QED
      BY <1>1, <3>1, <3>2 DEF Revisers, OrderRows
  <2>4. CASE PersonGoesOn
    BY <1>1, <2>4 DEF PersonGoesOn, storeVars, processVars
  <2> QED
    BY <2>1, <2>2, <2>3, <2>4
<1> QED
  BY <1>1, <1>2, <1>3, TypesFrame DEF len

\* of an attestation,
LEMMA TypesAttestor ==
  ASSUME RepairTypes, LookAtScreen \/ CheckAttestation \/ WriteAttestation
  PROVE  RepairTypes'
<1> DEFINE len == Len(book)
<1>1. /\ len \in Nat
      /\ row \in OrderRows(len) /\ channel \in Seq(Frames(len))
      /\ stored \in Seq(StoredNotices(len)) /\ problems \subseteq 0..len
      /\ listener \in Listeners(len) /\ reviser \in Revisers(len) /\ attestor \in Attestors
      /\ replayer \in Replayers(len) /\ resolver \in Resolvers(len)
      /\ Placed(replayer, stored) /\ unheard \in Nat /\ dropped \in Nat /\ muddled \in BOOLEAN
  BY TypesNow
<1>7. Done \in Nat
  BY PartsType, DoneIs
<1> HIDE DEF len
<1>2. UNCHANGED <<shape, book, channel, stored, problems, reviser, resolver>>
  BY DEF LookAtScreen, CheckAttestation, WriteAttestation, storeVars, brokerVars, repairBounds
<1>3. CASE LookAtScreen
  <2>1. UNCHANGED <<row, listener, replayer, unheard, dropped, muddled>>
    BY <1>3 DEF LookAtScreen, storeVars, repairHistory
  <2>2. PICK state \in {"partially_filled", "filled", "canceled"} :
          attestor' = [at |-> "check", state |-> state, filled |-> Done, stale |-> ToCome("execution") > 0]
    BY <1>3 DEF LookAtScreen
  <2>3. attestor' \in Attestors
    BY <1>7, <2>2 DEF Attestors
  <2> QED
    BY <1>1, <1>2, <2>1, <2>3, TypesFrame DEF len
<1>4. CASE CheckAttestation
  <2>1. UNCHANGED <<row, listener, replayer, unheard, dropped, muddled>>
    BY <1>4 DEF CheckAttestation, storeVars, repairHistory
  <2>2. attestor.at = "check" /\ attestor' \in {AtRest, [attestor EXCEPT !.at = "write"]}
    BY <1>4 DEF CheckAttestation
  <2>3. attestor' \in Attestors
    <3> DEFINE A == [at : {"check", "write"}, state : {"partially_filled", "filled", "canceled"},
                     filled : Nat, stale : BOOLEAN]
    <3>1. attestor \in A
      BY <1>1, <2>2 DEF Attestors, AtRest
    <3>2. [attestor EXCEPT !.at = "write"] \in A
      BY <3>1
    <3>3. A \subseteq Attestors /\ AtRest \in Attestors
      BY DEF Attestors
    <3> QED
      BY <2>2, <3>2, <3>3
  <2> QED
    BY <1>1, <1>2, <2>1, <2>3, TypesFrame DEF len
<1>5. CASE WriteAttestation
  <2>1. attestor.at = "write" /\ attestor' = AtRest
    BY <1>5 DEF WriteAttestation
  <2>2. attestor' \in Attestors
    BY <2>1 DEF Attestors
  <2>3. /\ attestor.state \in RowStates /\ attestor.filled \in Nat /\ attestor.stale \in BOOLEAN
    BY <1>1, <2>1 DEF Attestors, RowStates, AtRest
  <2>4. CASE OrderMayBecome(row.state, attestor.state)
    <3>1. /\ row' = [row EXCEPT !.state = attestor.state, !.filled = attestor.filled]
          /\ unheard' = 0 /\ dropped' = 0 /\ muddled' = (muddled \/ attestor.stale)
          /\ listener' = Stale(listener) /\ replayer' = Stale(replayer)
      BY <1>5, <2>4 DEF WriteAttestation
    <3>2. row' \in OrderRows(len)
      BY <1>1, <2>3, <3>1 DEF OrderRows
    <3>3. listener' \in Listeners(len)
      BY <1>1, <3>1, StaleListener
    <3>4. replayer' \in Replayers(len) /\ (replayer' = AtRest <=> replayer = AtRest)
          /\ (replayer # AtRest => replayer'.todo = replayer.todo /\ replayer'.j = replayer.j)
      BY <1>1, <3>1, StaleReplayer
    <3>5. Placed(replayer', stored')
      BY <1>1, <1>2, <3>4, PlaceKept
    <3>6. muddled' \in BOOLEAN
      BY <1>1, <2>3, <3>1
    <3> QED
      BY <1>1, <1>2, <2>2, <3>1, <3>2, <3>3, <3>4, <3>5, <3>6, TypesFrame DEF len
  <2>5. CASE ~ OrderMayBecome(row.state, attestor.state)
    <3>1. UNCHANGED <<row, unheard, dropped, muddled, listener, replayer>>
      BY <1>5, <2>5 DEF WriteAttestation
    <3> QED
      BY <1>1, <1>2, <2>2, <3>1, TypesFrame DEF len
  <2> QED
    BY <2>4, <2>5
<1> QED
  BY <1>3, <1>4, <1>5

\* of an explanation,
LEMMA TypesResolver ==
  ASSUME RepairTypes, (\E n \in Numbers \cup {CancelNumber} : StartExplaining(n)) \/ SaveExplanation
  PROVE  RepairTypes'
<1> DEFINE len == Len(book)
<1>1. /\ len \in Nat
      /\ row \in OrderRows(len) /\ channel \in Seq(Frames(len))
      /\ stored \in Seq(StoredNotices(len)) /\ problems \subseteq 0..len
      /\ listener \in Listeners(len) /\ reviser \in Revisers(len) /\ attestor \in Attestors
      /\ replayer \in Replayers(len) /\ resolver \in Resolvers(len)
      /\ Placed(replayer, stored) /\ unheard \in Nat /\ dropped \in Nat /\ muddled \in BOOLEAN
  BY TypesNow
<1> HIDE DEF len
<1>2. /\ UNCHANGED <<shape, book, channel, row, stored, problems, listener, reviser, attestor, replayer,
                     unheard, dropped, muddled>>
      /\ resolver' = AtRest \/ \E n \in problems : resolver' = [at |-> "save", number |-> n]
  BY DEF StartExplaining, Explainable, SaveExplanation, storeVars, brokerVars, repairBounds, repairHistory
<1>3. resolver' \in Resolvers(len)
  BY <1>1, <1>2 DEF Resolvers
<1> QED
  BY <1>1, <1>2, <1>3, TypesFrame DEF len
\* and of a replay, which applies only what is no problem.
LEMMA TypesReplayer ==
  ASSUME RepairTypes, StartReplay \/ ReadReplay \/ WriteReplay,
         replayer.at = "write" => ~ Problem(replayer.order, Replayed)
  PROVE  RepairTypes'
<1> DEFINE len == Len(book)
<1>1. /\ len \in Nat
      /\ row \in OrderRows(len) /\ channel \in Seq(Frames(len))
      /\ stored \in Seq(StoredNotices(len)) /\ problems \subseteq 0..len
      /\ listener \in Listeners(len) /\ reviser \in Revisers(len) /\ attestor \in Attestors
      /\ replayer \in Replayers(len) /\ resolver \in Resolvers(len)
      /\ Placed(replayer, stored) /\ unheard \in Nat /\ dropped \in Nat /\ muddled \in BOOLEAN
  BY TypesNow
<1> HIDE DEF len
<1>2. UNCHANGED <<shape, book, channel, problems, reviser, resolver, unheard, dropped>>
  BY DEF StartReplay, ReadReplay, WriteReplay, storeVars, brokerVars, repairBounds, repairHistory
<1>3. ASSUME replayer.at \in {"read", "write"}
      PROVE  /\ replayer # AtRest /\ Entry \in replayer.todo /\ Entry \in DOMAIN stored
             /\ replayer.todo \subseteq Nat /\ replayer.j \in Nat
             /\ Replayed \in Notices(len)
             /\ replayer.at = "write" => replayer.order \in OrderRows(len) /\ replayer.stale \in BOOLEAN
  <2>1. replayer # AtRest
    BY <1>3 DEF AtRest
  <2>2. /\ Entry \in replayer.todo /\ replayer.todo \subseteq DOMAIN stored /\ replayer.todo \subseteq Nat
        /\ replayer.j \in 1..Len(stored[Entry].frame) /\ Replayed \in Notices(len)
        /\ replayer.at = "write" => replayer.order \in OrderRows(len) /\ replayer.stale \in BOOLEAN
    BY <1>1, <2>1, ReplayedIs
  <2> QED
    BY <2>1, <2>2
<1>4. ASSUME replayer.at \in {"read", "write"}, NextReplay
      PROVE  replayer' \in Replayers(len) /\ Placed(replayer', stored)
  BY <1>1, <1>3, <1>4, ReplayGoesOn
<1>5. CASE StartReplay
  <2>1. /\ UNCHANGED <<row, stored, listener, attestor, muddled>>
        /\ Waiting # {} /\ replayer' = [at |-> "read", todo |-> Waiting, j |-> 1]
    BY <1>5 DEF StartReplay, Listed, storeVars, repairHistory
  <2>2. Waiting \subseteq DOMAIN stored /\ Waiting \subseteq Nat
    BY <1>1 DEF Waiting
  <2>3. replayer' \in Replayers(len)
    BY <2>1, <2>2 DEF Replayers
  <2>4. Min(Waiting) \in Waiting
    BY <2>1, <2>2, SmallestIsIn
  <2>5. 1 \in 1..Len(stored[Min(Waiting)].frame)
    <3>1. stored[Min(Waiting)] \in StoredNotices(len)
      BY <1>1, <2>2, <2>4
    <3> QED
      BY <3>1 DEF StoredNotices, Frames
  <2>6. Placed(replayer', stored')
    BY <2>1, <2>2, <2>5 DEF Placed
  <2> QED
    BY <1>1, <1>2, <2>1, <2>3, <2>6, TypesFrame DEF len
<1>6. CASE ReadReplay
  <2>1. UNCHANGED <<row, stored, listener, attestor, muddled>> /\ replayer.at = "read"
    BY <1>6 DEF ReadReplay, storeVars, repairHistory
  <2>2. CASE Replayable(row, Replayed)
    <3>1. replayer' = [at |-> "write", todo |-> replayer.todo, j |-> replayer.j, order |-> row, stale |-> FALSE]
      BY <1>6, <2>2 DEF ReadReplay
    <3>2. replayer' \in Replayers(len)
      BY <1>1, <1>3, <2>1, <3>1 DEF Replayers
    <3>3. Placed(replayer', stored')
      BY <1>1, <1>3, <2>1, <3>1 DEF Placed
    <3> QED
      BY <1>1, <1>2, <2>1, <3>2, <3>3, TypesFrame DEF len
  <2>3. CASE ~ Replayable(row, Replayed)
    <3>1. NextReplay
      BY <1>6, <2>3 DEF ReadReplay
    <3>2. replayer' \in Replayers(len) /\ Placed(replayer', stored')
      BY <1>4, <2>1, <3>1
    <3> QED
      BY <1>1, <1>2, <2>1, <3>2, TypesFrame DEF len
  <2> QED
    BY <2>2, <2>3
<1>7. CASE WriteReplay
  <2> DEFINE new == Applied(replayer.order, Replayed)
  <2>1. replayer.at = "write"
    BY <1>7 DEF WriteReplay
  <2>2. CASE OrderMayBecome(row.state, new.state)
    <3>1. /\ row' = [row EXCEPT !.state = new.state, !.filled = new.filled]
          /\ stored' = [stored EXCEPT ![Entry].resolved = TRUE]
          /\ muddled' = (muddled \/ replayer.stale \/ Len(stored[Entry].frame) > 1)
          /\ listener' = Stale(listener) /\ attestor' = Stale(attestor)
          /\ NextReplay
      BY <1>7, <2>2 DEF WriteReplay
    <3>2. new \in OrderRows(len)
      BY <1>1, <1>3, <2>1, AppliedIs
    <3> HIDE DEF new
    <3>3. row' \in OrderRows(len)
      BY <1>1, <3>1, <3>2 DEF OrderRows
    <3>4. /\ stored' \in Seq(StoredNotices(len)) /\ DOMAIN stored' = DOMAIN stored
          /\ \A k \in DOMAIN stored : stored'[k].frame = stored[k].frame
      BY <1>1, <1>3, <2>1, <3>1, ResolveMoves
    <3>5. listener' \in Listeners(len) /\ attestor' \in Attestors
      BY <1>1, <3>1, StaleListener, StaleAttestor
    <3>6. replayer' \in Replayers(len) /\ Placed(replayer', stored)
      BY <1>4, <2>1, <3>1
    <3>7. Placed(replayer', stored')
      <4>1. DOMAIN stored \subseteq Nat
        BY <1>1
      <4> QED
        BY <3>4, <3>6, <4>1, PlaceKept
    <3>8. muddled' \in BOOLEAN
      BY <1>1, <1>3, <2>1, <3>1
    <3> QED
      BY <1>1, <1>2, <3>3, <3>4, <3>5, <3>6, <3>7, <3>8, TypesFrame DEF len
  <2>3. CASE ~ OrderMayBecome(row.state, new.state)
    <3>1. UNCHANGED <<row, stored, muddled, listener, attestor>> /\ replayer' = AtRest
      BY <1>7, <2>3 DEF WriteReplay
    <3>2. replayer' \in Replayers(len) /\ Placed(replayer', stored')
      BY <3>1 DEF Replayers, Placed
    <3> QED
      BY <1>1, <1>2, <3>1, <3>2, TypesFrame DEF len
  <2> QED
    BY <2>2, <2>3
<1> QED
  BY <1>5, <1>6, <1>7

\* No step leaves the types.
LEMMA TypesKept ==
  ASSUME RepairTypes, [RepairNext]_repairVars, replayer.at = "write" => ~ Problem(replayer.order, Replayed)
  PROVE  RepairTypes'
<1>1. CASE UNCHANGED repairVars
  <2>1. UNCHANGED <<shape, book, channel, row, stored, problems, listener, reviser, attestor, replayer,
                    resolver, unheard, dropped, muddled>>
    BY <1>1 DEF repairVars, storeVars, brokerVars, processVars, repairBounds, repairHistory
  <2> QED
    BY <2>1, TypesNow, TypesFrame
<1>2. CASE RepairNext
  BY <1>2, TypesBroker, TypesListener, TypesReviser, TypesAttestor, TypesReplayer, TypesResolver DEF RepairNext
<1> QED
  BY <1>1, <1>2
-----------------------------------------------------------------------------
(* Who holds a number.                                                   *)

\* A revision goes by the number of the row; when the broker has taken it, that number
\* is closed.
ReviserFits ==
  /\ reviser.at \in {"check", "send"} => reviser.number = row.number
  /\ reviser.at = "record" => ~ book[row.number].open

\* What a person explained, or is about to.
Explained == resolved \cup (IF resolver.at = "save" THEN {resolver.number} ELSE {})

ResolverFits ==
  /\ Explained \subseteq problems
  /\ \A n \in Explained : n = row.number \/ (reviser.at = "record" /\ reviser.new = n) => n \in hasty

NumbersFit == NumberIsHeld /\ ReviserFits /\ ResolverFits

\* A revision that is recording, by its fields.
LEMMA RecordIs ==
  ASSUME NEW len, NEW r \in Revisers(len), NEW n
  PROVE  /\ r = [at |-> "record", new |-> n] <=> r.at = "record" /\ r.new = n
         /\ r.at \in {"idle", "check", "send", "record"}
         /\ r.at = "record" => r.new \in 1..len
         /\ r.at \in {"check", "send"} => r.number \in 1..len
  BY DEF Revisers, AtRest

\* Steps that have to do with no number.
LEMMA NumbersFrame ==
  ASSUME NumbersFit, row'.number = row.number, UNCHANGED <<reviser, resolver, resolved, lost, hasty>>,
         problems \subseteq problems', Len(book') = Len(book), row.number \in Numbers,
         \A m \in Numbers : book'[m].open => book[m].open
  PROVE  NumbersFit'
<1>1. NumberIsHeld'
  BY DEF NumbersFit, NumberIsHeld, Numbers
<1>2. ReviserFits'
  BY DEF NumbersFit, ReviserFits
<1>3. ResolverFits'
  BY DEF NumbersFit, ResolverFits, Explained
<1> QED
  BY <1>1, <1>2, <1>3 DEF NumbersFit

\* The row keeps its number wherever state, quantity or executed shares are written.
LEMMA NumberStays ==
  ASSUME RepairTypes, [RepairNext]_repairVars, ~ RecordRevision
  PROVE  row'.number = row.number
<1> DEFINE len == Len(book)
<1>1. row \in OrderRows(len) /\ len \in Nat /\ listener \in Listeners(len)
  BY TypesNow
<1> HIDE DEF len
<1>2. CASE Apply
  <2>1. listener.at = "write" /\ ~ Problem(listener.order, Notice) /\ row' = Written(row, listener.order, Notice)
    BY <1>2 DEF Apply, Refused
  <2>2. listener # AtRest
    BY <2>1 DEF AtRest
  <2>3. listener.order \in OrderRows(len) /\ Notice \in Notices(len)
    BY <1>1, <2>1, <2>2, ListenerHolds DEF Notice
  <2> QED
    BY <1>1, <2>1, <2>3, WrittenIs
<1>3. ASSUME NEW state, NEW filled, row' = [row EXCEPT !.state = state, !.filled = filled]
      PROVE  row'.number = row.number
  BY <1>1, <1>3 DEF OrderRows
<1>4. CASE WriteAttestation
  BY <1>3, <1>4 DEF WriteAttestation
<1>5. CASE WriteReplay
  BY <1>3, <1>5 DEF WriteReplay
<1>6. CASE UNCHANGED repairVars
  BY <1>6 DEF repairVars, storeVars
<1>7. CASE (\E n \in Numbers : Fills(n)) \/ CancelRest \/ SendRevision
  BY <1>7 DEF Fills, CancelRest, SendRevision, storeVars
<1>8. CASE Receive \/ Find \/ Unmatched \/ Refuse \/ Raise
  BY <1>8 DEF Receive, Find, Unmatched, Refuse, Raise, storeVars
<1>9. CASE PersonGoesOn \/ StartRevision \/ CheckRevision \/ LookAtScreen \/ CheckAttestation
  BY <1>9 DEF PersonGoesOn, StartRevision, CheckRevision, LookAtScreen, CheckAttestation, storeVars
<1>10. CASE StartReplay \/ ReadReplay \/ SaveExplanation \/ \E n \in Numbers \cup {CancelNumber} : StartExplaining(n)
  BY <1>10 DEF StartReplay, ReadReplay, SaveExplanation, StartExplaining, storeVars
<1> QED
  BY <1>2, <1>4, <1>5, <1>6, <1>7, <1>8, <1>9, <1>10 DEF RepairNext

\* The broker closes a number and opens the next, or nothing happens.
LEMMA NumbersSend ==
  ASSUME RepairTypes, NumbersFit, SendRevision
  PROVE  NumbersFit'
<1> DEFINE len == Len(book)
           n == reviser.number
<1>1. /\ len \in Nat /\ row \in OrderRows(len) /\ reviser \in Revisers(len)
      /\ BookFits /\ ShapeType /\ channel \in Seq(Frames(len)) /\ problems \subseteq 0..len
  BY TypesNow DEF RepairTypes
<1>2. /\ UNCHANGED <<row, problems, resolved, resolver, hasty>> /\ reviser.at = "send"
  BY DEF SendRevision, storeVars
<1>3. n = row.number /\ n \in Numbers
  BY <1>1, <1>2 DEF NumbersFit, ReviserFits, OrderRows, Numbers
<1>4. CASE reviser' = AtRest /\ UNCHANGED <<book, lost>>
  <2>1. NumberIsHeld'
    <3>1. \A m : reviser # [at |-> "record", new |-> m]
      BY <1>1, <1>2, RecordIs
    <3> QED
      BY <1>2, <1>4, <3>1 DEF NumbersFit, NumberIsHeld, Numbers
  <2>2. ReviserFits' /\ ResolverFits'
    BY <1>2, <1>4 DEF NumbersFit, ReviserFits, ResolverFits, Explained, AtRest
  <2> QED
    BY <2>1, <2>2 DEF NumbersFit
<1>5. ASSUME Revised(n),
             \/ reviser' = [at |-> "record", new |-> len + 1] /\ lost' = lost
             \/ reviser' = AtRest /\ lost' = lost \cup {len + 1}
      PROVE  NumbersFit'
  <2>1. Len(book') = len + 1 /\ ~ book'[n].open /\ \A m \in Numbers : book'[m].open => book[m].open
    BY <1>1, <1>3, <1>5, RevisionTrades DEF Traded
  <2>2. NumberIsHeld'
    <3> SUFFICES ASSUME NEW m \in 1..(len + 1), book'[m].open
                 PROVE  m = row.number \/ reviser' = [at |-> "record", new |-> m] \/ m \in lost'
      BY <1>2, <2>1 DEF NumberIsHeld, Numbers
    <3>1. CASE m = len + 1
      BY <1>5, <3>1
    <3>2. CASE m \in 1..len
      <4>1. book[m].open
        BY <2>1, <3>2 DEF Numbers
      <4>2. m = row.number \/ m \in lost
        <5>1. reviser # [at |-> "record", new |-> m]
          BY <1>1, <1>2, RecordIs
        <5> QED
          BY <3>2, <4>1, <5>1 DEF NumbersFit, NumberIsHeld, Numbers
      <4> QED
        BY <1>5, <4>2
    <3> QED
      BY <1>1, <3>1, <3>2
  <2>3. ReviserFits'
    BY <1>2, <1>3, <1>5, <2>1 DEF ReviserFits, AtRest
  <2>4. Explained' = Explained /\ len + 1 \notin Explained
    BY <1>1, <1>2 DEF Explained, NumbersFit, ResolverFits
  <2>5. ResolverFits'
    BY <1>2, <1>5, <2>4 DEF NumbersFit, ResolverFits, AtRest
  <2> QED
    BY <2>2, <2>3, <2>5 DEF NumbersFit
<1> QED
  BY <1>4, <1>5 DEF SendRevision, brokerVars

\* The rest of a revision: the new number gets into the row.
LEMMA NumbersReviser ==
  ASSUME RepairTypes, NumbersFit, StartRevision \/ CheckRevision \/ RecordRevision
  PROVE  NumbersFit'
<1> DEFINE len == Len(book)
<1>1. /\ len \in Nat /\ row \in OrderRows(len) /\ reviser \in Revisers(len) /\ BookFits
  BY TypesNow DEF RepairTypes
<1>2. /\ UNCHANGED <<book, problems, resolved, resolver, lost, hasty>>
  BY DEF StartRevision, CheckRevision, RecordRevision, storeVars, brokerVars, repairHistory
<1>6. Explained' = Explained
  BY <1>2 DEF Explained
<1>3. CASE StartRevision \/ CheckRevision
  <2>1. row' = row /\ reviser.at \in {"idle", "check"}
        /\ (reviser' = AtRest \/ reviser' = [at |-> "check", number |-> row.number]
            \/ (reviser.at = "check" /\ reviser' = [reviser EXCEPT !.at = "send"]))
    BY <1>3 DEF StartRevision, CheckRevision, storeVars
  <2>2. reviser'.at \in {"idle", "check", "send"} /\ (reviser'.at # "idle" => reviser'.number = row.number)
    <3>1. CASE reviser' = AtRest \/ reviser' = [at |-> "check", number |-> row.number]
      BY <3>1 DEF AtRest
    <3>2. CASE reviser.at = "check" /\ reviser' = [reviser EXCEPT !.at = "send"]
      <4>1. reviser \in [at : {"check", "send"}, number : 1..len]
        BY <1>1, <3>2 DEF Revisers, AtRest
      <4>2. reviser'.at = "send" /\ reviser'.number = reviser.number
        BY <3>2, <4>1
      <4> QED
        BY <3>2, <4>2 DEF NumbersFit, ReviserFits
    <3> QED
      BY <2>1, <3>1, <3>2
  <2>3. NumberIsHeld'
    <3>1. \A m : reviser # [at |-> "record", new |-> m]
      BY <2>1
    <3> QED
      BY <1>2, <2>1, <3>1 DEF NumbersFit, NumberIsHeld, Numbers
  <2>4. ReviserFits'
    BY <2>1, <2>2 DEF ReviserFits
  <2>5. ResolverFits'
    BY <1>2, <1>6, <2>1, <2>2 DEF NumbersFit, ResolverFits
  <2> QED
    BY <2>3, <2>4, <2>5 DEF NumbersFit
<1>4. CASE RecordRevision
  <2>1. reviser.at = "record" /\ row' = [row EXCEPT !.number = reviser.new] /\ reviser' = AtRest
    BY <1>4 DEF RecordRevision, Renumbered
  <2>2. row'.number = reviser.new
    BY <1>1, <2>1 DEF OrderRows
  <2>3. NumberIsHeld'
    <3> SUFFICES ASSUME NEW m \in Numbers, book[m].open
                 PROVE  m = row'.number \/ m \in lost
      BY <1>2 DEF NumberIsHeld, Numbers
    <3>1. m # row.number
      BY <2>1 DEF NumbersFit, ReviserFits
    <3>2. reviser = [at |-> "record", new |-> m] => reviser.new = m
      OBVIOUS
    <3> QED
      BY <2>2, <3>1, <3>2 DEF NumbersFit, NumberIsHeld
  <2>4. ReviserFits'
    BY <2>1 DEF ReviserFits, AtRest
  <2>5. ResolverFits'
    BY <1>2, <1>6, <2>1, <2>2 DEF NumbersFit, ResolverFits, AtRest
  <2> QED
    BY <2>3, <2>4, <2>5 DEF NumbersFit
<1> QED
  BY <1>3, <1>4

\* An explanation is of a number that is not the row's, or it was hasty.
LEMMA NumbersResolver ==
  ASSUME RepairTypes, NumbersFit,
         (\E n \in Numbers \cup {CancelNumber} : StartExplaining(n)) \/ SaveExplanation
  PROVE  NumbersFit'
<1>1. UNCHANGED <<book, row, problems, reviser, lost>> /\ reviser \in Revisers(Len(book))
  <2>1. reviser \in Revisers(Len(book))
    BY TypesNow
  <2>2. UNCHANGED <<book, row, problems, reviser, lost>>
    BY DEF StartExplaining, SaveExplanation, storeVars, brokerVars, repairHistory
  <2> QED
    BY <2>1, <2>2
<1>2. NumberIsHeld' /\ ReviserFits'
  BY <1>1 DEF NumbersFit, NumberIsHeld, ReviserFits, Numbers
<1>3. CASE SaveExplanation
  <2>1. Explained' = Explained /\ hasty' = hasty
    BY <1>3 DEF SaveExplanation, Explained, AtRest, repairHistory
  <2> QED
    BY <1>1, <1>2, <2>1 DEF NumbersFit, ResolverFits
<1>4. ASSUME NEW n \in Numbers \cup {CancelNumber}, StartExplaining(n) PROVE NumbersFit'
  <2>1. /\ n \in problems /\ n # row.number /\ Explained' = Explained \cup {n}
        /\ hasty' = IF reviser = [at |-> "record", new |-> n] THEN hasty \cup {n} ELSE hasty
    BY <1>4 DEF StartExplaining, Explainable, Explained, storeVars, AtRest
  <2>2. reviser = [at |-> "record", new |-> n] <=> reviser.at = "record" /\ reviser.new = n
    BY <1>1, RecordIs
  <2>3. ResolverFits'
    BY <1>1, <2>1, <2>2 DEF NumbersFit, ResolverFits
  <2> QED
    BY <1>2, <2>3 DEF NumbersFit
<1> QED
  BY <1>3, <1>4

\* No step leaves a number that is open unheld.
LEMMA NumbersKept ==
  ASSUME RepairTypes, NumbersFit, [RepairNext]_repairVars
  PROVE  NumbersFit'
<1>1. /\ ShapeType /\ BookFits /\ channel \in Seq(Frames(Len(book))) /\ row \in OrderRows(Len(book))
  BY TypesNow DEF RepairTypes
<1>2. row.number \in Numbers
  BY <1>1 DEF OrderRows, Numbers
<1>3. ASSUME Traded, Len(book') = Len(book), UNCHANGED <<row, reviser, resolver, resolved, lost, hasty, problems>>
      PROVE  NumbersFit'
  BY <1>2, <1>3, NumbersFrame DEF Traded
<1>4. ASSUME NEW n \in Numbers, Fills(n) PROVE NumbersFit'
  BY <1>1, <1>3, <1>4, FillsTrade DEF Fills, storeVars, processVars, repairHistory
<1>5. CASE CancelRest
  BY <1>1, <1>3, <1>5, CancelTrades DEF CancelRest, storeVars, processVars, repairHistory
<1>6. ASSUME UNCHANGED <<book, reviser, resolver, resolved, lost, hasty>>, problems \subseteq problems', ~ RecordRevision
      PROVE  NumbersFit'
  BY <1>2, <1>6, NumberStays, NumbersFrame
<1>7. ASSUME Receive \/ Find \/ Unmatched \/ Refuse \/ Apply \/ Raise
      PROVE  UNCHANGED <<book, reviser, resolver, resolved, lost, hasty>> /\ problems \subseteq problems'
  BY <1>7 DEF Receive, Find, Unmatched, Refuse, Apply, Raise, storeVars, brokerVars, repairHistory
<1>8. ASSUME PersonGoesOn \/ LookAtScreen \/ CheckAttestation \/ WriteAttestation
      PROVE  UNCHANGED <<book, reviser, resolver, resolved, lost, hasty>> /\ problems \subseteq problems'
  BY <1>8 DEF PersonGoesOn, LookAtScreen, CheckAttestation, WriteAttestation, storeVars, brokerVars,
              processVars, repairHistory
<1>9. ASSUME StartReplay \/ ReadReplay \/ WriteReplay
      PROVE  UNCHANGED <<book, reviser, resolver, resolved, lost, hasty>> /\ problems \subseteq problems'
  BY <1>9 DEF StartReplay, ReadReplay, WriteReplay, storeVars, brokerVars, repairHistory
<1>10. ASSUME UNCHANGED repairVars
       PROVE  UNCHANGED <<book, reviser, resolver, resolved, lost, hasty>> /\ problems \subseteq problems'
  BY <1>10 DEF repairVars, storeVars, brokerVars, processVars, repairHistory
<1>11. CASE RecordRevision \/ StartRevision \/ CheckRevision \/ SendRevision
  BY <1>11, NumbersReviser, NumbersSend
<1>12. CASE SaveExplanation \/ \E n \in Numbers \cup {CancelNumber} : StartExplaining(n)
  BY <1>12, NumbersResolver
<1> QED
  BY <1>4, <1>5, <1>6, <1>7, <1>8, <1>9, <1>10, <1>11, <1>12 DEF RepairNext
-----------------------------------------------------------------------------
(* Where the shares are.                                                 *)

Reads(order, r) == order.filled = r.filled /\ order.state = r.state

\* The listener writes what it read: the quantity is its own to change, state and
\* executed shares are as it read them, or it is marked as overtaken.
ListenFits(l, r) ==
  l.at = "write" => l.order.quantity = r.quantity /\ (l.stale \/ Reads(l.order, r))

\* A person who found no number open read all there is; otherwise the reading and what
\* is to come make up what is executed.
AttestFits ==
  attestor # AtRest =>
    /\ attestor.state \in {"filled", "canceled"} => ~ IsWorking /\ attestor.filled = Done
    /\ attestor.stale \/ Done = attestor.filled + ToCome("execution")

\* A replay goes through what waits, and writes what it read.
ReplayFits(r, st, rw, m) ==
  /\ r # AtRest => m \/ r.todo \subseteq WaitingIn(st)
  /\ r.at = "write" => /\ rw.quantity <= r.order.quantity
                       /\ r.stale \/ Reads(r.order, rw)
                       /\ ~ Problem(r.order, st[Min(r.todo)].frame[r.j])

\* An execution that waits has its number on record as a problem.
Filed(st, ps) ==
  \A k \in DOMAIN st :
    st[k].problem /\ st[k].frame[st[k].i].kind = "execution" => st[k].frame[st[k].i].number \in ps

\* The book and what is still to be cancelled ask for no more than the row does.
QuantityFits == QuantityOf(book) + ToCome("cancel") <= row.quantity

SharesFit ==
  /\ ListenFits(listener, row) /\ AttestFits /\ ReplayFits(replayer, stored, row, muddled)
  /\ Filed(stored, problems) /\ (unheard > 0 => 1 \in problems)
  /\ QuantityFits /\ EveryShareAccounted /\ RepairedEndIsTrue

\* What a replay is about to write is no problem.
LEMMA ReplayedFits ==
  ASSUME ReplayFits(replayer, stored, row, muddled)
  PROVE  replayer.at = "write" => ~ Problem(replayer.order, Replayed)
  BY DEF ReplayFits, Replayed, Entry

\* What is executed and what is to come grow together.
LEMMA SharesTraded ==
  ASSUME RepairTypes, SharesFit, Traded,
         UNCHANGED <<row, stored, listener, attestor, replayer, problems, unheard, dropped, muddled>>
  PROVE  SharesFit'
<1> DEFINE e == "execution"
           c == "cancel"
<1>1. /\ Queued(channel, e) \in Nat /\ Hand(listener, e) \in Nat /\ SumWaiting(stored, e) \in Nat
      /\ Queued(channel, c) \in Nat /\ Hand(listener, c) \in Nat /\ SumWaiting(stored, c) \in Nat
      /\ FilledOf(book) \in Nat /\ QuantityOf(book) \in Nat
      /\ ToCome(e) \in Nat /\ ToCome(c) \in Nat
  BY PartsType
<1>2. /\ row.filled \in Nat /\ row.quantity \in Nat /\ unheard \in Nat /\ dropped \in Nat /\ attestor \in Attestors
  BY TypesNow DEF OrderRows
<1>3. /\ ToCome(e) = Queued(channel, e) + Hand(listener, e) + SumWaiting(stored, e)
      /\ ToCome(e)' = Queued(channel', e) + Hand(listener, e) + SumWaiting(stored, e)
      /\ ToCome(c) = Queued(channel, c) + Hand(listener, c) + SumWaiting(stored, c)
      /\ ToCome(c)' = Queued(channel', c) + Hand(listener, c) + SumWaiting(stored, c)
  BY ToComeIs
<1>4. /\ FilledOf(book') \in Nat /\ QuantityOf(book') \in Nat
      /\ Queued(channel', e) \in Nat /\ Queued(channel', c) \in Nat
  <2>1. book' \in Seq(BookRow) /\ channel' \in Seq(Frames(Len(book'))) /\ Len(book') \in Nat
    BY DEF Traded, BookFits
  <2> QED
    BY <2>1, BookSums, QueuedType
<1>5. /\ FilledOf(book') + Queued(channel, e) = FilledOf(book) + Queued(channel', e)
      /\ QuantityOf(book') + Queued(channel', c) = QuantityOf(book) + Queued(channel, c)
      /\ IsWorking
  BY DEF Traded
<1>15. \A x, y, h, s, f, g \in Nat : g + x = f + y => g + (x + h + s) = f + (y + h + s)
  OBVIOUS
<1> HIDE DEF e, c
<1>6. FilledOf(book') + ToCome(e) = FilledOf(book) + ToCome(e)'
  BY <1>1, <1>3, <1>4, <1>5, <1>15 DEF e
<1>7. QuantityOf(book') + ToCome(c)' = QuantityOf(book) + ToCome(c)
  BY <1>1, <1>3, <1>4, <1>5, <1>15 DEF c
<1> USE DEF e, c
<1>8. ToCome(e)' \in Nat
  BY <1>1, <1>3, <1>4
<1>9. Done = FilledOf(book) /\ Done' = FilledOf(book')
  BY DoneIs
<1>10. ListenFits(listener, row)' /\ ReplayFits(replayer, stored, row, muddled)' /\ Filed(stored, problems)'
       /\ (unheard' > 0 => 1 \in problems')
  BY DEF SharesFit, ListenFits, ReplayFits, Filed
<1>11. QuantityFits'
  BY <1>7 DEF SharesFit, QuantityFits
<1>12. EveryShareAccounted'
  <2> SUFFICES ASSUME ~ muddled PROVE FilledOf(book') = row.filled + unheard + dropped + ToCome(e)'
    BY <1>9 DEF EveryShareAccounted
  <2>1. FilledOf(book) = row.filled + unheard + dropped + ToCome(e)
    BY <1>9 DEF SharesFit, EveryShareAccounted
  <2>3. FilledOf(book) \in Nat /\ FilledOf(book') \in Nat /\ ToCome(e) \in Nat /\ ToCome(e)' \in Nat
    BY <1>1, <1>4, <1>8
  <2>4. row.filled \in Nat /\ unheard \in Nat /\ dropped \in Nat
    BY <1>2
  <2> DEFINE held == row.filled + unheard + dropped
             x == ToCome(e)
             y == ToCome(e)'
             f == FilledOf(book)
             g == FilledOf(book')
  <2>5. held \in Nat /\ x \in Nat /\ y \in Nat /\ f \in Nat /\ g \in Nat
    BY <2>3, <2>4
  <2>6. g + x = f + y /\ f = held + x
    BY <1>6, <2>1
  <2> HIDE DEF held, x, y, f, g
  <2>7. g = held + y
    BY <2>5, <2>6
  <2> QED
    BY <2>7 DEF held, x, y, f, g
<1>13. RepairedEndIsTrue'
  BY <1>5 DEF SharesFit, RepairedEndIsTrue
<1>14. AttestFits'
  <2> SUFFICES ASSUME attestor # AtRest
               PROVE  /\ attestor.state \notin {"filled", "canceled"}
                      /\ attestor.stale \/ FilledOf(book') = attestor.filled + ToCome(e)'
    BY <1>9 DEF AttestFits
  <2>1. attestor.state \notin {"filled", "canceled"}
    BY <1>5 DEF SharesFit, AttestFits
  <2>2. attestor.stale \/ FilledOf(book) = attestor.filled + ToCome(e)
    BY <1>9 DEF SharesFit, AttestFits
  <2>3. attestor.filled \in Nat
    BY <1>2 DEF Attestors
  <2>4. attestor.stale \/ FilledOf(book') = attestor.filled + ToCome(e)'
    BY <1>1, <1>4, <1>6, <1>8, <2>2, <2>3
  <2> QED
    BY <2>1, <2>4
<1> QED
  BY <1>10, <1>11, <1>12, <1>13, <1>14 DEF SharesFit

\* Steps after which every share is where it was.
Quiet ==
  /\ UNCHANGED <<book, unheard, dropped, muddled>>
  /\ row'.state = row.state /\ row'.filled = row.filled /\ row'.quantity = row.quantity
  /\ ToCome("execution")' = ToCome("execution") /\ ToCome("cancel")' = ToCome("cancel")

\* Such a step keeps the shares in place when each process still fits.
LEMMA SharesQuiet ==
  ASSUME SharesFit, Quiet, ListenFits(listener', row), AttestFits', ReplayFits(replayer', stored', row, muddled),
         Filed(stored', problems'), problems \subseteq problems'
  PROVE  SharesFit'
<1>1. Done' = Done /\ (IsWorking' <=> IsWorking)
  BY DEF Quiet, Done, IsWorking, Numbers
<1>2. ListenFits(listener, row)' /\ ReplayFits(replayer, stored, row, muddled)'
  BY DEF Quiet, ListenFits, ReplayFits, Reads
<1>3. QuantityFits'
  BY DEF SharesFit, QuantityFits, Quiet
<1>4. EveryShareAccounted'
  BY <1>1 DEF SharesFit, EveryShareAccounted, Quiet
<1>5. RepairedEndIsTrue'
  BY <1>1 DEF SharesFit, RepairedEndIsTrue, Quiet
<1>6. Filed(stored, problems)' /\ (unheard' > 0 => 1 \in problems')
  BY DEF SharesFit, Quiet, Filed
<1> QED
  BY <1>2, <1>3, <1>4, <1>5, <1>6 DEF SharesFit

\* An attestation that such a step leaves alone still fits.
LEMMA AttestorQuiet ==
  ASSUME AttestFits, Quiet, attestor' = attestor
  PROVE  AttestFits'
<1>1. Done' = Done /\ (IsWorking' <=> IsWorking)
  BY DEF Quiet, Done, IsWorking, Numbers
<1> QED
  BY <1>1 DEF AttestFits, Quiet

\* What a step that moves no notification leaves.
LEMMA QuietIs ==
  ASSUME UNCHANGED <<book, channel, stored, unheard, dropped, muddled>>,
         row'.state = row.state, row'.filled = row.filled, row'.quantity = row.quantity,
         Hand(listener', "execution") = Hand(listener, "execution"),
         Hand(listener', "cancel") = Hand(listener, "cancel")
  PROVE  Quiet
  BY ToComeIs DEF Quiet
\* What is stored is appended.
LEMMA WaitingAppended ==
  ASSUME NEW len, NEW st \in Seq(StoredNotices(len)), NEW s
  PROVE  /\ WaitingIn(st) \subseteq WaitingIn(Append(st, s))
         /\ DOMAIN st \subseteq DOMAIN Append(st, s)
         /\ \A k \in DOMAIN st : Append(st, s)[k] = st[k]
         /\ \A k \in DOMAIN Append(st, s) : k \in DOMAIN st \/ Append(st, s)[k] = s
<1> DEFINE new == Append(st, s)
<1>1. /\ Len(st) \in Nat /\ DOMAIN st = 1..Len(st) /\ DOMAIN new = 1..(Len(st) + 1)
      /\ new[Len(st) + 1] = s /\ \A k \in DOMAIN st : new[k] = st[k]
  OBVIOUS
<1> HIDE DEF new
<1>2. DOMAIN st \subseteq DOMAIN new /\ \A k \in DOMAIN new : k \in DOMAIN st \/ k = Len(st) + 1
  BY <1>1
<1>3. WaitingIn(st) \subseteq WaitingIn(new)
  BY <1>1, <1>2 DEF WaitingIn
<1> QED
  BY <1>1, <1>2, <1>3 DEF new

\* A replay keeps its place, and its reading is that of the row or marked.
Follows(r, q, rw, rx) ==
  /\ q = AtRest <=> r = AtRest
  /\ q.at = r.at
  /\ r # AtRest => q.todo = r.todo /\ q.j = r.j
  /\ r.at = "write" => q.order = r.order /\ (q.stale = TRUE \/ (q.stale = r.stale /\ Reads(rx, rw)))

\* Nothing that is stored, and nothing that waits, is taken away.
Grows(st, new) ==
  /\ DOMAIN st \subseteq DOMAIN new /\ \A k \in DOMAIN st : new[k].frame = st[k].frame
  /\ WaitingIn(st) \subseteq WaitingIn(new)

\* A replay that others leave where it is, or overtake.
LEMMA ReplayKept ==
  ASSUME NEW len \in Nat, NEW r \in Replayers(len), NEW st \in Seq(StoredNotices(len)), NEW rw, NEW m,
         Placed(r, st), ReplayFits(r, st, rw, m),
         NEW q, NEW new, NEW rx, NEW mx,
         Follows(r, q, rw, rx), Grows(st, new), rw.quantity \in Nat, rx.quantity \in Nat, rx.quantity <= rw.quantity, m => mx
  PROVE  ReplayFits(q, new, rx, mx)
<1>3. /\ q = AtRest <=> r = AtRest
      /\ q.at = r.at
      /\ r # AtRest => q.todo = r.todo /\ q.j = r.j
      /\ r.at = "write" => q.order = r.order /\ (q.stale = TRUE \/ (q.stale = r.stale /\ Reads(rx, rw)))
  BY DEF Follows
<1>4. /\ DOMAIN st \subseteq DOMAIN new /\ \A k \in DOMAIN st : new[k].frame = st[k].frame
      /\ WaitingIn(st) \subseteq WaitingIn(new)
  BY DEF Grows
<1>1. q # AtRest => mx \/ q.todo \subseteq WaitingIn(new)
  BY <1>3, <1>4 DEF ReplayFits
<1>2. ASSUME q.at = "write"
      PROVE  /\ rx.quantity <= q.order.quantity /\ (q.stale \/ Reads(q.order, rx))
             /\ ~ Problem(q.order, new[Min(q.todo)].frame[q.j])
  <2>1. /\ rw.quantity <= r.order.quantity /\ (r.stale \/ Reads(r.order, rw))
        /\ ~ Problem(r.order, st[Min(r.todo)].frame[r.j])
    BY <1>2, <1>3 DEF ReplayFits
  <2>2. r # AtRest
    BY <1>2, <1>3 DEF AtRest
  <2>3. r.todo \subseteq DOMAIN st /\ r.todo # {} /\ DOMAIN st \subseteq Nat
    BY <2>2 DEF Placed
  <2>4. Min(r.todo) \in DOMAIN st
    BY <2>3, SmallestIsIn
  <2>5. new[Min(q.todo)].frame[q.j] = st[Min(r.todo)].frame[r.j]
    BY <1>3, <1>4, <2>2, <2>4
  <2>6. r.order.quantity \in Nat
    <3>1. r.at = "write"
      BY <1>2, <1>3
    <3>2. r.order \in OrderRows(len)
      BY <3>1 DEF Replayers, AtRest
    <3> QED
      BY <3>2 DEF OrderRows
  <2>7. rx.quantity <= q.order.quantity
    BY <1>2, <1>3, <2>1, <2>6
  <2>8. q.stale \/ Reads(q.order, rx)
    BY <1>2, <1>3, <2>1 DEF Reads
  <2> QED
    BY <1>2, <1>3, <2>1, <2>5, <2>7, <2>8
<1> QED
  BY <1>1, <1>2 DEF ReplayFits

\* The listener takes a frame, finds the order or not, refuses or dies.
LEMMA SharesListener ==
  ASSUME RepairTypes, SharesFit, Receive \/ Find \/ Unmatched \/ Refuse \/ Raise
  PROVE  SharesFit'
<1> DEFINE len == Len(book)
<1>1. /\ len \in Nat /\ row \in OrderRows(len) /\ channel \in Seq(Frames(len))
      /\ stored \in Seq(StoredNotices(len))
      /\ listener \in Listeners(len) /\ replayer \in Replayers(len) /\ Placed(replayer, stored)
      /\ row.quantity \in Nat
  BY TypesNow DEF OrderRows
<1>2. ListenFits(listener, row) /\ AttestFits /\ ReplayFits(replayer, stored, row, muddled) /\ Filed(stored, problems)
  BY DEF SharesFit
<1>3. UNCHANGED <<book, row, attestor, replayer, unheard, dropped, muddled>>
  BY DEF Receive, Find, Unmatched, Refuse, Raise, storeVars, brokerVars, repairHistory
<1> HIDE DEF len
<1>4. ASSUME Quiet, UNCHANGED <<stored, problems>>, ListenFits(listener', row)
      PROVE  SharesFit'
  <2>1. ReplayFits(replayer', stored', row, muddled) /\ Filed(stored', problems')
    BY <1>2, <1>3, <1>4
  <2> QED
    BY <1>2, <1>3, <1>4, <2>1, AttestorQuiet, SharesQuiet
<1>5. CASE Receive
  <2>1. listener'.at = "read" /\ \A kind : ToCome(kind)' = ToCome(kind)
    BY <1>1, <1>5, ReceiveMoves
  <2>2. UNCHANGED <<stored, problems>>
    BY <1>5 DEF Receive, storeVars
  <2>3. Quiet
    BY <1>3, <2>1 DEF Quiet
  <2> QED
    BY <1>4, <2>1, <2>2, <2>3 DEF ListenFits
<1>6. CASE Find
  <2>1. /\ UNCHANGED <<channel, stored, problems>> /\ listener.at = "read"
        /\ listener' = [at |-> "write", frame |-> listener.frame, i |-> listener.i,
                        blocked |-> listener.blocked, order |-> row, stale |-> FALSE]
    BY <1>6 DEF Find, storeVars, brokerVars
  <2>2. Quiet
    BY <1>3, <2>1, QuietIs DEF Hand
  <2>3. ListenFits(listener', row)
    BY <2>1 DEF ListenFits, Reads
  <2> QED
    BY <1>4, <2>1, <2>2, <2>3
<1>7. CASE Raise
  <2>1. /\ UNCHANGED <<channel, stored, problems>> /\ listener.at = "write"
        /\ listener' = [at |-> "dead", frame |-> listener.frame, i |-> listener.i]
    BY <1>7 DEF Raise, storeVars, brokerVars
  <2>2. Quiet
    BY <1>3, <2>1, QuietIs DEF Hand
  <2> QED
    BY <1>4, <2>1, <2>2 DEF ListenFits
<1>8. ASSUME Unmatched \/ Refuse PROVE SharesFit'
  <2>1. /\ channel' = channel /\ listener.at \in {"read", "write"}
        /\ stored' = Append(stored, StoredRow(TRUE)) /\ NextNotification(TRUE)
        /\ problems' \in {problems \cup {Notice.number}, problems \cup {Notice.own}}
        /\ (Unmatched => problems' = problems \cup {Notice.number})
    BY <1>8 DEF Unmatched, Refuse, brokerVars
  <2>2. listener'.at \in {"idle", "read"} /\ \A kind : ToCome(kind)' = ToCome(kind)
    <3>1. ASSUME NEW kind
          PROVE  listener'.at \in {"idle", "read"} /\ ToCome(kind)' \in Nat /\ ToCome(kind) = ToCome(kind)' + 0
      BY <1>1, <2>1, StoreMoves
    <3> QED
      BY <3>1
  <2>3. Quiet
    BY <1>3, <2>2 DEF Quiet
  <2>4. listener # AtRest
    BY <2>1 DEF AtRest
  <2>5. Notice \in Notices(len)
    BY <1>1, <2>4, ListenerHolds DEF Notice
  <2>6. ReplayFits(replayer', stored', row, muddled)
    <3>1. /\ WaitingIn(stored) \subseteq WaitingIn(stored') /\ DOMAIN stored \subseteq DOMAIN stored'
          /\ \A k \in DOMAIN stored : stored'[k].frame = stored[k].frame
      BY <1>1, <2>1, WaitingAppended, ZenonT(40)
    <3>2. Follows(replayer, replayer', row, row)
      BY <1>3 DEF Follows, Reads
    <3>3. row.quantity <= row.quantity
      BY <1>1
    <3>4. Grows(stored, stored')
      BY <3>1 DEF Grows
    <3> QED
      BY <1>1, <1>2, <3>2, <3>3, <3>4, ReplayKept
  <2>7. Filed(stored', problems')
    <3> DEFINE s == StoredRow(TRUE)
    <3>1. \A k \in DOMAIN stored' : (k \in DOMAIN stored /\ stored'[k] = stored[k]) \/ stored'[k] = s
      BY <1>1, <2>1, WaitingAppended
    <3>2. s.frame[s.i] = Notice
      BY <1>1, <2>4, StoredRowIs
    <3>3. Notice.kind = "execution" => Notice.own = Notice.number
      BY <2>5 DEF Notices
    <3> HIDE DEF s
    <3>4. Notice.kind = "execution" => Notice.number \in problems'
      BY <2>1, <3>3
    <3> QED
      BY <1>2, <2>1, <3>1, <3>2, <3>4 DEF Filed
  <2>8. ListenFits(listener', row)
    BY <2>2 DEF ListenFits
  <2> QED
    BY <1>2, <1>3, <2>1, <2>3, <2>6, <2>7, <2>8, AttestorQuiet, SharesQuiet
<1> QED
  BY <1>5, <1>6, <1>7, <1>8
\* Steps that touch neither the book nor what is under way, stored or held.
LEMMA SharesElsewhere ==
  ASSUME RepairTypes, SharesFit,
         UNCHANGED <<book, channel, stored, problems, listener, attestor, replayer, unheard, dropped, muddled>>,
         row'.state = row.state, row'.filled = row.filled, row'.quantity = row.quantity
  PROVE  SharesFit'
<1>1. Quiet
  BY QuietIs
<1>2. ListenFits(listener', row) /\ ReplayFits(replayer', stored', row, muddled) /\ Filed(stored', problems')
  BY DEF SharesFit
<1>3. AttestFits'
  BY <1>1, AttestorQuiet DEF SharesFit
<1> QED
  BY <1>1, <1>2, <1>3, SharesQuiet

\* A revision, an explanation and a person who goes on leave the shares alone.
LEMMA SharesReviser ==
  ASSUME RepairTypes, SharesFit,
         \/ StartRevision \/ CheckRevision \/ RecordRevision \/ PersonGoesOn \/ SaveExplanation
         \/ (\E n \in Numbers \cup {CancelNumber} : StartExplaining(n)) \/ UNCHANGED repairVars
  PROVE  SharesFit'
<1>1. row \in OrderRows(Len(book))
  BY TypesNow
<1>2. CASE RecordRevision
  <2>1. UNCHANGED <<book, channel, stored, problems, listener, attestor, replayer, unheard, dropped, muddled>>
    BY <1>2 DEF RecordRevision, brokerVars, repairHistory
  <2>2. row'.state = row.state /\ row'.filled = row.filled /\ row'.quantity = row.quantity
    BY <1>1, <1>2 DEF RecordRevision, Renumbered, OrderRows
  <2> QED
    BY <2>1, <2>2, SharesElsewhere
<1>3. CASE StartRevision \/ CheckRevision \/ PersonGoesOn \/ SaveExplanation
  <2>1. UNCHANGED <<row, book, channel, stored, problems, listener, attestor, replayer, unheard, dropped, muddled>>
    BY <1>3 DEF StartRevision, CheckRevision, PersonGoesOn, SaveExplanation, storeVars, brokerVars,
                processVars, repairHistory
  <2> QED
    BY <2>1, SharesElsewhere
<1>4. CASE (\E n \in Numbers \cup {CancelNumber} : StartExplaining(n)) \/ UNCHANGED repairVars
  <2>1. UNCHANGED <<row, book, channel, stored, problems, listener, attestor, replayer, unheard, dropped, muddled>>
    BY <1>4 DEF StartExplaining, repairVars, storeVars, brokerVars, processVars, repairHistory
  <2> QED
    BY <2>1, SharesElsewhere
<1> QED
  BY <1>2, <1>3, <1>4

\* The broker notifies what it executes, cancels or revises.
LEMMA SharesBroker ==
  ASSUME RepairTypes, SharesFit, (\E n \in Numbers : Fills(n)) \/ CancelRest \/ SendRevision
  PROVE  SharesFit'
<1>1. /\ ShapeType /\ BookFits /\ channel \in Seq(Frames(Len(book))) /\ row \in OrderRows(Len(book))
      /\ reviser \in Revisers(Len(book))
  BY TypesNow DEF RepairTypes
<1>2. UNCHANGED <<row, stored, listener, attestor, replayer, problems, unheard, dropped, muddled>>
  BY DEF Fills, CancelRest, SendRevision, storeVars, processVars, repairHistory
<1>3. ASSUME NEW n \in Numbers, Fills(n) PROVE SharesFit'
  BY <1>1, <1>2, <1>3, FillsTrade, SharesTraded
<1>4. CASE CancelRest
  BY <1>1, <1>2, <1>4, CancelTrades, SharesTraded
<1>5. CASE SendRevision
  <2>1. reviser.number \in Numbers
    BY <1>1, <1>5, RecordIs DEF SendRevision, Numbers
  <2>2. CASE Revised(reviser.number)
    BY <1>1, <1>2, <2>1, <2>2, RevisionTrades, SharesTraded
  <2>3. CASE UNCHANGED brokerVars
    <3>1. UNCHANGED <<book, channel>>
      BY <2>3 DEF brokerVars
    <3> QED
      BY <1>2, <3>1, SharesElsewhere
  <2> QED
    BY <1>5, <2>2, <2>3 DEF SendRevision
<1> QED
  BY <1>3, <1>4, <1>5

\* When as many are executed as the row asks for, nothing is left to work on.
LEMMA AllExecuted ==
  ASSUME BookFits, NEW x \in Nat, QuantityOf(book) <= x, x <= FilledOf(book)
  PROVE  ~ IsWorking /\ x = Done
<1>1. /\ book \in Seq(BookRow) /\ \A n \in 1..Len(book) : book[n].filled <= book[n].quantity
  BY DEF BookFits, Numbers
<1>2. /\ FilledOf(book) \in Nat /\ QuantityOf(book) \in Nat /\ FilledOf(book) <= QuantityOf(book)
      /\ FilledOf(book) = QuantityOf(book) => \A n \in 1..Len(book) : book[n].filled = book[n].quantity
  BY <1>1, BookSums
<1>3. FilledOf(book) = QuantityOf(book) /\ x = FilledOf(book)
  BY <1>2
<1>4. \A n \in Numbers : ~ book[n].open
  <2>1. \A n \in Numbers : book[n].quantity \in Nat /\ (book[n].open => book[n].filled < book[n].quantity)
    BY BookTypes DEF BookFits
  <2> QED
    BY <1>2, <1>3, <2>1 DEF Numbers
<1> QED
  BY <1>3, <1>4, DoneIs DEF IsWorking

\* A notification that ends the order, applied to what the row holds, finds nothing left
\* at the broker.
LEMMA EndReached ==
  ASSUME RepairTypes, QuantityFits, NEW order \in OrderRows(Len(book)), NEW n \in Notices(Len(book)),
         ~ Problem(order, n), order.filled = row.filled, row.quantity <= order.quantity,
         Applied(order, n).state \in {"filled", "canceled"},
         Amount(n, "cancel") <= ToCome("cancel"), Applied(order, n).filled <= Done
  PROVE  ~ IsWorking /\ Applied(order, n).filled = Done
<1> DEFINE new == Applied(order, n)
<1>1. Len(book) \in Nat /\ BookFits /\ row.filled \in Nat /\ row.quantity \in Nat
  BY TypesNow DEF RepairTypes, OrderRows
<1>2. order.filled \in Nat /\ order.quantity \in Nat /\ n.quantity \in Nat /\ n.kind \in Kinds
  BY DEF OrderRows, Notices
<1>3. QuantityOf(book) \in Nat /\ ToCome("cancel") \in Nat /\ FilledOf(book) \in Nat
  BY PartsType
<1>4. QuantityOf(book) + ToCome("cancel") <= row.quantity
  BY DEF QuantityFits
<1>5. new.filled \in Nat /\ QuantityOf(book) <= new.filled
  <2>1. CASE n.kind = "execution"
    <3>1. new.filled = order.filled + n.quantity /\ new.state \in {"filled", "partially_filled"}
          /\ (new.state = "filled" => order.filled + n.quantity = order.quantity)
      BY <1>1, <2>1, AppliedIs
    <3>2. new.filled = order.quantity
      BY <3>1
    <3> HIDE DEF new
    <3> QED
      BY <1>1, <1>2, <1>3, <1>4, <3>2
  <2>2. CASE n.kind = "cancel"
    <3>1. /\ new.filled = order.filled /\ order.state \in OpenStates
          /\ \/ new.state = "canceled" /\ n.quantity = order.quantity - order.filled
             \/ new.state = order.state
      BY <1>1, <2>2, AppliedIs
    <3>2. n.quantity = order.quantity - order.filled
      BY <3>1 DEF OpenStates
    <3>3. n.quantity <= ToCome("cancel")
      BY <2>2 DEF Amount
    <3> HIDE DEF new
    <3> QED
      BY <1>1, <1>2, <1>3, <1>4, <3>1, <3>2, <3>3
  <2>3. CASE n.kind = "revision"
    <3>1. new = order /\ order.state \in OpenStates
      BY <1>1, <2>3, AppliedIs
    <3> QED
      BY <3>1 DEF OpenStates
  <2> QED
    BY <1>2, <2>1, <2>2, <2>3 DEF Kinds
<1>6. new.filled <= FilledOf(book)
  BY DoneIs
<1> HIDE DEF new
<1>7. ~ IsWorking /\ new.filled = Done
  BY <1>1, <1>5, <1>6, AllExecuted
<1> QED
  BY <1>7 DEF new
\* An attestation takes the place of everything that was unheard or dropped.
LEMMA SharesAttestor ==
  ASSUME RepairTypes, SharesFit, LookAtScreen \/ CheckAttestation \/ WriteAttestation
  PROVE  SharesFit'
<1> DEFINE len == Len(book)
<1>1. /\ len \in Nat /\ row \in OrderRows(len) /\ stored \in Seq(StoredNotices(len))
      /\ listener \in Listeners(len) /\ replayer \in Replayers(len) /\ Placed(replayer, stored)
      /\ attestor \in Attestors
  BY TypesNow
<1>8. row.quantity \in Nat /\ row.quantity <= row.quantity
  BY <1>1 DEF OrderRows
<1>2. ListenFits(listener, row) /\ AttestFits /\ ReplayFits(replayer, stored, row, muddled) /\ Filed(stored, problems)
  BY DEF SharesFit
<1>9. Done \in Nat /\ ToCome("execution") \in Nat
  BY PartsType, DoneIs
<1>3. UNCHANGED <<book, channel, stored, problems>>
  BY DEF LookAtScreen, CheckAttestation, WriteAttestation, storeVars, brokerVars
<1>7. Done' = Done /\ (IsWorking' <=> IsWorking)
  BY <1>3 DEF Done, IsWorking, Numbers
<1> HIDE DEF len
<1>4. ASSUME UNCHANGED <<row, listener, replayer, unheard, dropped, muddled>>, AttestFits'
      PROVE  SharesFit'
  <2>1. Quiet
    BY <1>3, <1>4, QuietIs
  <2>2. ListenFits(listener', row) /\ ReplayFits(replayer', stored', row, muddled) /\ Filed(stored', problems')
    BY <1>2, <1>3, <1>4
  <2> QED
    BY <1>3, <1>4, <2>1, <2>2, SharesQuiet
<1>10. ASSUME UNCHANGED <<row, listener, unheard, dropped, muddled>> PROVE ToCome("execution")' = ToCome("execution")
  BY <1>3, <1>10, ToComeIs
<1>5. CASE LookAtScreen
  <2>1. UNCHANGED <<row, listener, replayer, unheard, dropped, muddled>>
    BY <1>5 DEF LookAtScreen, storeVars, repairHistory
  <2>2. PICK state \in (IF IsWorking THEN {"partially_filled"} ELSE {"filled", "canceled"}) :
          attestor' = [at |-> "check", state |-> state, filled |-> Done, stale |-> ToCome("execution") > 0]
    BY <1>5 DEF LookAtScreen
  <2>3. /\ attestor'.state = state /\ attestor'.filled = Done
        /\ attestor'.stale \/ ToCome("execution") = 0
    <3> DEFINE outstanding == ToCome("execution") > 0
    <3>1. outstanding \/ ToCome("execution") = 0
      BY <1>9
    <3> HIDE DEF outstanding
    <3>2. attestor'.state = state /\ attestor'.filled = Done /\ (attestor'.stale <=> outstanding)
      BY <2>2 DEF outstanding
    <3> QED
      BY <3>1, <3>2
  <2>4. state \in {"filled", "canceled"} => ~ IsWorking
    OBVIOUS
  <2>5. AttestFits'
    <3>1. ToCome("execution")' = ToCome("execution")
      BY <1>10, <2>1
    <3>2. attestor'.stale \/ Done = Done + ToCome("execution")
      BY <1>9, <2>3
    <3> QED
      BY <1>7, <2>3, <2>4, <3>1, <3>2 DEF AttestFits
  <2> QED
    BY <1>4, <2>1, <2>5
<1>6. CASE CheckAttestation
  <2>1. UNCHANGED <<row, listener, replayer, unheard, dropped, muddled>>
    BY <1>6 DEF CheckAttestation, storeVars, repairHistory
  <2>2. ToCome("execution")' = ToCome("execution")
    BY <1>10, <2>1
  <2>3. CASE attestor' = AtRest
    <3>1. AttestFits'
      BY <2>3 DEF AttestFits
    <3> QED
      BY <1>4, <2>1, <3>1
  <2>4. CASE attestor.at = "check" /\ attestor' = [attestor EXCEPT !.at = "write"]
    <3>1. attestor # AtRest
      BY <2>4 DEF AtRest
    <3>2. attestor \in [at : {"check", "write"}, state : {"partially_filled", "filled", "canceled"},
                        filled : Nat, stale : BOOLEAN]
      BY <1>1, <3>1 DEF Attestors
    <3>3. attestor'.state = attestor.state /\ attestor'.filled = attestor.filled /\ attestor'.stale = attestor.stale
      BY <2>4, <3>2
    <3>4. AttestFits'
      BY <1>2, <1>7, <2>2, <3>1, <3>3 DEF AttestFits
    <3> QED
      BY <1>4, <2>1, <3>4
  <2> QED
    BY <1>6, <2>3, <2>4 DEF CheckAttestation
<1>11. CASE WriteAttestation
  <2>1. attestor.at = "write" /\ attestor' = AtRest /\ attestor # AtRest
    BY <1>11 DEF WriteAttestation, AtRest
  <2>2. AttestFits'
    BY <2>1 DEF AttestFits
  <2>3. CASE ~ OrderMayBecome(row.state, attestor.state)
    <3>1. UNCHANGED <<row, unheard, dropped, muddled, listener, replayer>>
      BY <1>11, <2>3 DEF WriteAttestation
    <3> QED
      BY <1>4, <2>2, <3>1
  <2>4. CASE OrderMayBecome(row.state, attestor.state)
    <3>1. /\ row' = [row EXCEPT !.state = attestor.state, !.filled = attestor.filled]
          /\ unheard' = 0 /\ dropped' = 0 /\ muddled' = (muddled \/ attestor.stale)
          /\ listener' = Stale(listener) /\ replayer' = Stale(replayer)
      BY <1>11, <2>4 DEF WriteAttestation
    <3>2. row'.state = attestor.state /\ row'.filled = attestor.filled /\ row'.quantity = row.quantity
      BY <1>1, <3>1 DEF OrderRows
    <3>3. ListenFits(listener, row)'
      <4>1. /\ listener'.at = listener.at
            /\ listener.at = "write" => listener'.order = listener.order /\ listener'.stale = TRUE
        BY <1>1, <3>1, StaleListener
      <4> QED
        BY <1>2, <3>2, <4>1 DEF ListenFits
    <3>4. ReplayFits(replayer, stored, row, muddled)'
      <4>1. Follows(replayer, replayer', row, row')
        BY <1>1, <3>1, StaleReplayer DEF Follows
      <4>2. Grows(stored, stored')
        BY <1>3 DEF Grows
      <4>3. row'.quantity \in Nat /\ row'.quantity <= row.quantity /\ (muddled => muddled')
        BY <1>8, <3>1, <3>2
      <4>4. ReplayFits(replayer', stored', row', muddled')
        BY <1>1, <1>2, <1>8, <4>1, <4>2, <4>3, ReplayKept
      <4> QED
        BY <4>4 DEF ReplayFits, Reads
    <3>5. \A kind : ToCome(kind)' = ToCome(kind)
      <4>1. \A kind : Hand(listener', kind) = Hand(listener, kind)
        <5>1. CASE listener = AtRest
          BY <1>1, <3>1, <5>1, StaleListener DEF Hand, AtRest
        <5>2. CASE listener # AtRest
          <6>1. listener'.at = listener.at /\ listener'.frame = listener.frame /\ listener'.i = listener.i
            BY <1>1, <3>1, <5>2, StaleListener
          <6> QED
            BY <6>1 DEF Hand
        <5> QED
          BY <5>1, <5>2
      <4> QED
        BY <1>3, <4>1, ToComeIs
    <3>6. QuantityFits'
      BY <1>3, <3>2, <3>5 DEF SharesFit, QuantityFits
    <3>7. EveryShareAccounted'
      <4> SUFFICES ASSUME ~ muddled'
                   PROVE  Done = attestor.filled + 0 + 0 + ToCome("execution")
        BY <1>7, <3>1, <3>2, <3>5 DEF EveryShareAccounted
      <4>1. Done = attestor.filled + ToCome("execution")
        BY <1>2, <2>1, <3>1 DEF AttestFits
      <4>2. attestor.filled \in Nat
        BY <1>1, <2>1 DEF Attestors
      <4> QED
        BY <1>9, <4>1, <4>2
    <3>8. RepairedEndIsTrue'
      BY <1>2, <1>7, <2>1, <3>2 DEF RepairedEndIsTrue, AttestFits
    <3>9. Filed(stored, problems)' /\ (unheard' > 0 => 1 \in problems')
      BY <1>2, <1>3, <3>1 DEF Filed
    <3> QED
      BY <2>2, <3>3, <3>4, <3>6, <3>7, <3>8, <3>9 DEF SharesFit
  <2> QED
    BY <2>3, <2>4
<1> QED
  BY <1>5, <1>6, <1>11
\* An accepted notification adds what it reports as executed.
LEMMA FilledApplied ==
  ASSUME NEW len \in Nat, NEW order \in OrderRows(len), NEW n \in Notices(len), ~ Problem(order, n)
  PROVE  Applied(order, n).filled = order.filled + Amount(n, "execution")
<1>1. order.filled \in Nat /\ n.quantity \in Nat /\ n.kind \in Kinds
  BY DEF OrderRows, Notices
<1>2. CASE n.kind = "execution"
  BY <1>1, <1>2, AppliedIs DEF Amount
<1>3. CASE n.kind \in {"cancel", "revision"}
  <2>1. Applied(order, n).filled = order.filled /\ Amount(n, "execution") = 0
    BY <1>3, AppliedIs DEF Amount
  <2> QED
    BY <1>1, <2>1
<1> QED
  BY <1>1, <1>2, <1>3 DEF Kinds

\* An attestation that a write overtakes.
LEMMA AttestorOvertaken ==
  ASSUME attestor \in Attestors, AttestFits, attestor' = Stale(attestor), book' = book
  PROVE  AttestFits'
<1>1. Done' = Done /\ (IsWorking' <=> IsWorking)
  BY DEF Done, IsWorking, Numbers
<1>2. /\ attestor' = AtRest <=> attestor = AtRest
      /\ attestor # AtRest => attestor'.state = attestor.state /\ attestor'.filled = attestor.filled
                              /\ attestor'.stale = TRUE
  BY StaleAttestor
<1> QED
  BY <1>1, <1>2 DEF AttestFits

\* The listener writes the row: what a notification reports leaves what is to come.
LEMMA SharesApply ==
  ASSUME RepairTypes, SharesFit, Apply
  PROVE  SharesFit'
<1> DEFINE len == Len(book)
           order == listener.order
           n == Notice
           new == Applied(order, n)
           e == "execution"
           c == "cancel"
<1>1. /\ len \in Nat /\ row \in OrderRows(len) /\ channel \in Seq(Frames(len))
      /\ stored \in Seq(StoredNotices(len)) /\ attestor \in Attestors
      /\ listener \in Listeners(len) /\ replayer \in Replayers(len) /\ Placed(replayer, stored)
      /\ unheard \in Nat /\ dropped \in Nat
  BY TypesNow
<1>2. /\ ListenFits(listener, row) /\ AttestFits /\ ReplayFits(replayer, stored, row, muddled)
      /\ Filed(stored, problems) /\ QuantityFits /\ EveryShareAccounted /\ RepairedEndIsTrue
  BY DEF SharesFit
<1>3. /\ UNCHANGED <<book, channel, problems, unheard>>
      /\ listener.at = "write" /\ ~ Problem(order, n)
      /\ row' = Written(row, order, n)
      /\ stored' = Append(stored, StoredRow(FALSE))
      /\ dropped' = IF StateMoves THEN dropped ELSE dropped + Amount(n, e)
      /\ muddled' = (muddled \/ (StateMoves /\ listener.stale))
      /\ attestor' = Stale(attestor)
      /\ replayer' = IF StateMoves THEN Stale(replayer) ELSE replayer
      /\ NextNotification(listener.blocked)
  BY DEF Apply, Refused, brokerVars
<1>4. StateMoves <=> new.state # order.state
  BY DEF StateMoves
<1>5. listener # AtRest /\ order \in OrderRows(len) /\ n \in Notices(len) /\ listener.blocked \in BOOLEAN
  <2>1. listener # AtRest
    BY <1>3 DEF AtRest
  <2> QED
    BY <1>1, <1>3, <2>1, ListenerHolds DEF Notice
<1>6. order.quantity = row.quantity /\ (listener.stale \/ Reads(order, row))
  BY <1>2, <1>3 DEF ListenFits
<1>7. /\ listener'.at \in {"idle", "read"}
      /\ Amount(n, e) \in Nat /\ ToCome(e)' \in Nat /\ ToCome(e) = ToCome(e)' + Amount(n, e)
      /\ Amount(n, c) \in Nat /\ ToCome(c)' \in Nat /\ ToCome(c) = ToCome(c)' + Amount(n, c)
  <2>1. ASSUME NEW kind
        PROVE  /\ listener'.at \in {"idle", "read"} /\ Amount(n, kind) \in Nat /\ ToCome(kind)' \in Nat
               /\ ToCome(kind) = ToCome(kind)' + (IF FALSE THEN 0 ELSE Amount(n, kind))
    <3> HIDE DEF len
    <3> QED
      BY <1>1, <1>3, <1>5, StoreMoves
  <2> QED
    BY <2>1
<1>8. /\ row.quantity \in Nat /\ row.filled \in Nat /\ row'.quantity \in Nat /\ order.filled \in Nat /\ n.quantity \in Nat
      /\ QuantityOf(book) \in Nat
  <2>1. row' \in OrderRows(len)
    BY <1>1, <1>3, <1>5, WrittenIs
  <2> QED
    BY <1>1, <1>5, <2>1, PartsType DEF OrderRows, Notices
<1> HIDE DEF len, order, n, new
<1>9. /\ new.state # order.state => row'.state = new.state /\ row'.filled = new.filled /\ row'.quantity = row.quantity
      /\ new.state = order.state => /\ row'.state = row.state /\ row'.filled = row.filled
                                    /\ n.kind = "cancel" => row'.quantity = row.quantity - n.quantity
                                    /\ n.kind # "cancel" => row'.quantity = row.quantity
  BY <1>1, <1>3, <1>5, <1>6, WrittenIs DEF new
<1>10. new.filled = order.filled + Amount(n, e)
  BY <1>1, <1>3, <1>5, FilledApplied DEF new
<1>11. QuantityFits' /\ row'.quantity <= row.quantity
  <2>1. QuantityOf(book) + ToCome(c) <= row.quantity
    BY <1>2 DEF QuantityFits
  <2>2. CASE new.state = order.state /\ n.kind = "cancel"
    <3>1. row'.quantity = row.quantity - n.quantity /\ Amount(n, c) = n.quantity
      BY <1>9, <2>2 DEF Amount
    <3>2. QuantityOf(book) + ToCome(c)' <= row'.quantity /\ row'.quantity <= row.quantity
      BY <1>7, <1>8, <2>1, <3>1
    <3> QED
      BY <1>3, <3>2 DEF QuantityFits
  <2>3. CASE ~ (new.state = order.state /\ n.kind = "cancel")
    <3>1. row'.quantity = row.quantity
      BY <1>9, <2>3
    <3>2. QuantityOf(book) + ToCome(c)' <= row'.quantity /\ row'.quantity <= row.quantity
      BY <1>7, <1>8, <2>1, <3>1
    <3> QED
      BY <1>3, <3>2 DEF QuantityFits
  <2> QED
    BY <2>2, <2>3
<1>12. Done' = Done /\ (IsWorking' <=> IsWorking) /\ Done \in Nat
  BY <1>3, PartsType, DoneIs DEF IsWorking, Numbers
<1>13. ASSUME ~ muddled'
       PROVE  Done = row'.filled + unheard + dropped' + ToCome(e)'
  <2>1. ~ muddled /\ (new.state # order.state => Reads(order, row))
    BY <1>3, <1>4, <1>6, <1>13
  <2>2. Done = row.filled + unheard + dropped + ToCome(e)
    BY <1>2, <2>1 DEF EveryShareAccounted
  <2>3. CASE new.state # order.state
    <3>1. row'.filled = row.filled + Amount(n, e) /\ dropped' = dropped
      BY <1>3, <1>4, <1>9, <1>10, <2>1, <2>3 DEF Reads
    <3> HIDE DEF e
    <3> QED
      BY <1>1, <1>7, <1>8, <2>2, <3>1, SMTT(30)
  <2>4. CASE new.state = order.state
    <3>1. row'.filled = row.filled /\ dropped' = dropped + Amount(n, e)
      BY <1>3, <1>4, <1>9, <2>4
    <3> HIDE DEF e
    <3> QED
      BY <1>1, <1>7, <1>8, <2>2, <3>1, SMTT(30)
  <2> QED
    BY <2>3, <2>4
<1>14. EveryShareAccounted'
  BY <1>3, <1>12, <1>13 DEF EveryShareAccounted
<1>15. RepairedEndIsTrue'
  <2> SUFFICES ASSUME row'.state \in {"filled", "canceled"}, ~ muddled'
               PROVE  ~ IsWorking /\ row'.filled = Done
    BY <1>12 DEF RepairedEndIsTrue
  <2>1. CASE new.state # order.state
    <3>1. Reads(order, row) /\ row'.state = new.state /\ row'.filled = new.filled
      BY <1>3, <1>4, <1>6, <1>9, <2>1
    <3>2. Done = new.filled + unheard + dropped' + ToCome(e)'
      BY <1>13, <3>1
    <3>3. new.filled \in Nat /\ dropped' \in Nat
      <4>1. new.filled \in Nat
        <5> HIDE DEF e
        <5> QED
          BY <1>7, <1>8, <1>10
      <4>2. dropped' \in Nat
        BY <1>1, <1>3, <1>4, <2>1
      <4> QED
        BY <4>1, <4>2
    <3>4. new.filled <= Done
      BY <1>1, <1>7, <1>12, <3>2, <3>3, SMTT(30)
    <3>5. Amount(n, c) <= ToCome(c)
      BY <1>7
    <3>6. order.filled = row.filled /\ row.quantity <= order.quantity
      BY <1>6, <1>8, <3>1 DEF Reads
    <3>7. new.state \in {"filled", "canceled"}
      BY <3>1
    <3>8. ~ IsWorking /\ new.filled = Done
      BY <1>2, <1>3, <1>5, <3>4, <3>5, <3>6, <3>7, EndReached DEF new, len
    <3> QED
      BY <3>1, <3>8
  <2>2. CASE new.state = order.state
    <3>1. row'.state = row.state /\ row'.filled = row.filled /\ ~ muddled
      BY <1>3, <1>9, <2>2
    <3> QED
      BY <1>2, <3>1 DEF RepairedEndIsTrue
  <2> QED
    BY <2>1, <2>2
<1>16. ListenFits(listener, row)'
  BY <1>7 DEF ListenFits
<1>17. AttestFits'
  BY <1>1, <1>2, <1>3, AttestorOvertaken
<1>18. ReplayFits(replayer, stored, row, muddled)'
  <2>1. Follows(replayer, replayer', row, row')
    <3>1. CASE new.state # order.state
      <4>1. replayer' = Stale(replayer)
        BY <1>3, <1>4, <3>1
      <4> QED
        BY <1>1, <4>1, StaleReplayer DEF Follows
    <3>2. CASE new.state = order.state
      BY <1>3, <1>4, <1>9, <3>2 DEF Follows, Reads
    <3> QED
      BY <3>1, <3>2
  <2>2. Grows(stored, stored')
    BY <1>1, <1>3, WaitingAppended DEF Grows
  <2>3. muddled => muddled'
    BY <1>3
  <2>4. ReplayFits(replayer', stored', row', muddled')
    BY <1>1, <1>2, <1>8, <1>11, <2>1, <2>2, <2>3, ReplayKept
  <2> QED
    BY <2>4 DEF ReplayFits, Reads
<1>19. Filed(stored, problems)'
  <2> DEFINE s == StoredRow(FALSE)
  <2>1. \A k \in DOMAIN stored' : (k \in DOMAIN stored /\ stored'[k] = stored[k]) \/ stored'[k] = s
    BY <1>1, <1>3, WaitingAppended
  <2>2. ~ s.problem
    BY <1>1, <1>5, StoredRowIs
  <2> HIDE DEF s
  <2>3. Filed(stored', problems')
    BY <1>2, <1>3, <2>1, <2>2 DEF Filed
  <2> QED
    BY <2>3 DEF Filed
<1>20. unheard' > 0 => 1 \in problems'
  BY <1>3 DEF SharesFit
<1> QED
  BY <1>11, <1>14, <1>15, <1>16, <1>17, <1>18, <1>19, <1>20 DEF SharesFit

\* A replay writes what waited, of a frame of one notification.
LEMMA SharesReplayer ==
  ASSUME RepairTypes, SharesFit, StartReplay \/ ReadReplay \/ WriteReplay
  PROVE  SharesFit'
<1> DEFINE len == Len(book)
           e == "execution"
           c == "cancel"
<1>1. /\ len \in Nat /\ row \in OrderRows(len) /\ channel \in Seq(Frames(len))
      /\ stored \in Seq(StoredNotices(len)) /\ attestor \in Attestors
      /\ listener \in Listeners(len) /\ replayer \in Replayers(len) /\ Placed(replayer, stored)
      /\ unheard \in Nat /\ dropped \in Nat
  BY TypesNow
<1>2. /\ ListenFits(listener, row) /\ AttestFits /\ ReplayFits(replayer, stored, row, muddled)
      /\ Filed(stored, problems) /\ QuantityFits /\ EveryShareAccounted /\ RepairedEndIsTrue
      /\ unheard > 0 => 1 \in problems
  BY DEF SharesFit
<1>3. UNCHANGED <<book, channel, problems, unheard, dropped>>
  BY DEF StartReplay, ReadReplay, WriteReplay, storeVars, brokerVars, repairBounds, repairHistory
<1>4. row.quantity \in Nat /\ row.filled \in Nat /\ Done \in Nat /\ ToCome(e) \in Nat /\ ToCome(c) \in Nat
      /\ QuantityOf(book) \in Nat
  BY <1>1, PartsType, DoneIs DEF OrderRows
<1> HIDE DEF len
<1>5. ASSUME UNCHANGED <<row, stored, muddled, listener, attestor>>,
             ReplayFits(replayer', stored, row, muddled)
      PROVE  SharesFit'
  <2>1. Quiet
    BY <1>3, <1>5, QuietIs
  <2>2. AttestFits'
    BY <1>2, <1>5, <2>1, AttestorQuiet
  <2>3. ListenFits(listener', row) /\ ReplayFits(replayer', stored', row, muddled) /\ Filed(stored', problems')
    BY <1>2, <1>3, <1>5
  <2> QED
    BY <1>3, <2>1, <2>2, <2>3, SharesQuiet
<1>6. CASE StartReplay
  <2>1. /\ UNCHANGED <<row, stored, listener, attestor, muddled>>
        /\ replayer' = [at |-> "read", todo |-> Waiting, j |-> 1]
    BY <1>6 DEF StartReplay, Listed, storeVars, repairHistory
  <2>2. Waiting = WaitingIn(stored)
    BY DEF Waiting, WaitingIn
  <2>3. ReplayFits(replayer', stored, row, muddled)
    BY <2>1, <2>2 DEF ReplayFits
  <2> QED
    BY <1>5, <2>1, <2>3
<1>7. ASSUME replayer.at \in {"read", "write"}
      PROVE  /\ replayer # AtRest /\ Entry \in replayer.todo /\ Entry \in DOMAIN stored
             /\ stored[Entry] \in StoredNotices(len)
             /\ Len(stored[Entry].frame) \in Nat /\ replayer.j \in 1..Len(stored[Entry].frame)
             /\ Replayed \in Notices(len)
             /\ replayer.at = "write" => replayer.order \in OrderRows(len)
  <2>1. replayer # AtRest
    BY <1>7 DEF AtRest
  <2> QED
    BY <1>1, <2>1, ReplayedIs
<1>8. ASSUME replayer.at \in {"read", "write"}, NextReplay
      PROVE  /\ replayer'.at \in {"idle", "read"}
             /\ replayer' # AtRest => replayer'.todo \subseteq replayer.todo
             /\ replayer' # AtRest /\ replayer.j = Len(stored[Entry].frame) => Entry \notin replayer'.todo
  BY <1>1, <1>7, <1>8, ReplayGoesOn
<1>9. CASE ReadReplay
  <2>1. UNCHANGED <<row, stored, listener, attestor, muddled>> /\ replayer.at = "read"
    BY <1>9 DEF ReadReplay, storeVars, repairHistory
  <2>2. muddled \/ replayer.todo \subseteq WaitingIn(stored)
    BY <1>2, <1>7, <2>1 DEF ReplayFits
  <2>3. CASE Replayable(row, Replayed)
    <3>1. replayer' = [at |-> "write", todo |-> replayer.todo, j |-> replayer.j, order |-> row, stale |-> FALSE]
      BY <1>9, <2>3 DEF ReadReplay
    <3>2. replayer'.todo = replayer.todo /\ replayer'.j = replayer.j /\ replayer'.order = row
      BY <3>1
    <3>3. ~ Problem(row, stored[Min(replayer.todo)].frame[replayer.j])
      BY <2>3 DEF Replayable, Replayed, Entry
    <3>4. row.quantity <= row.quantity
      BY <1>4
    <3>5. ReplayFits(replayer', stored, row, muddled)
      BY <2>2, <3>2, <3>3, <3>4 DEF ReplayFits, Reads
    <3> QED
      BY <1>5, <2>1, <3>5
  <2>4. CASE ~ Replayable(row, Replayed)
    <3>1. NextReplay
      BY <1>9, <2>4 DEF ReadReplay
    <3>2. ReplayFits(replayer', stored, row, muddled)
      BY <1>8, <2>1, <2>2, <3>1 DEF ReplayFits
    <3> QED
      BY <1>5, <2>1, <3>2
  <2> QED
    BY <2>3, <2>4
<1>10. CASE WriteReplay
  <2> DEFINE order == replayer.order
             n == Replayed
             new == Applied(order, n)
  <2>1. replayer.at = "write"
    BY <1>10 DEF WriteReplay
  <2>2. CASE ~ OrderMayBecome(row.state, new.state)
    <3>1. UNCHANGED <<row, stored, muddled, listener, attestor>> /\ replayer' = AtRest
      BY <1>10, <2>2 DEF WriteReplay
    <3>2. ReplayFits(replayer', stored, row, muddled)
      BY <3>1 DEF ReplayFits, AtRest
    <3> QED
      BY <1>5, <3>1, <3>2
  <2>3. CASE OrderMayBecome(row.state, new.state)
    <3>1. /\ row' = [row EXCEPT !.state = new.state, !.filled = new.filled]
          /\ stored' = [stored EXCEPT ![Entry].resolved = TRUE]
          /\ muddled' = (muddled \/ replayer.stale \/ Len(stored[Entry].frame) > 1)
          /\ listener' = Stale(listener) /\ attestor' = Stale(attestor)
          /\ NextReplay
      BY <1>10, <2>3 DEF WriteReplay
    <3>2. /\ Entry \in replayer.todo /\ Entry \in DOMAIN stored /\ stored[Entry] \in StoredNotices(len)
          /\ Len(stored[Entry].frame) \in Nat /\ replayer.j \in 1..Len(stored[Entry].frame)
          /\ n \in Notices(len) /\ order \in OrderRows(len)
      BY <1>7, <2>1
    <3>3. /\ muddled \/ replayer.todo \subseteq WaitingIn(stored)
          /\ row.quantity <= order.quantity /\ (replayer.stale \/ Reads(order, row)) /\ ~ Problem(order, n)
      BY <1>2, <1>7, <2>1 DEF ReplayFits, Replayed, Entry
    <3> HIDE DEF order, n, new
    <3>4. row'.state = new.state /\ row'.filled = new.filled /\ row'.quantity = row.quantity
      BY <1>1, <3>1 DEF OrderRows
    <3>5. \A kind : Hand(listener', kind) = Hand(listener, kind)
      <4>1. CASE listener = AtRest
        BY <1>1, <3>1, <4>1, StaleListener DEF Hand, AtRest
      <4>2. CASE listener # AtRest
        <5>1. listener'.at = listener.at /\ listener'.frame = listener.frame /\ listener'.i = listener.i
          BY <1>1, <3>1, <4>2, StaleListener
        <5> QED
          BY <5>1 DEF Hand
      <4> QED
        BY <4>1, <4>2
    <3>6. ASSUME NEW kind
          PROVE  /\ ToCome(kind)' \in Nat
                 /\ Entry \notin WaitingIn(stored) => ToCome(kind) = ToCome(kind)'
                 /\ Entry \in WaitingIn(stored) =>
                      Amount(Own(Entry), kind) \in Nat /\ ToCome(kind) = ToCome(kind)' + Amount(Own(Entry), kind)
      <4> DEFINE q == Queued(channel, kind)
                 h == Hand(listener, kind)
                 w == SumWaiting(stored, kind)
                 x == SumWaiting(stored', kind)
                 a == Amount(Own(Entry), kind)
      <4>1. q \in Nat /\ h \in Nat /\ w \in Nat
        BY PartsType
      <4>2. x \in Nat /\ w = x + (IF Entry \in WaitingIn(stored) THEN a ELSE 0)
        BY <1>1, <3>1, <3>2, ResolveMoves
      <4>3. a \in Nat
        <5>1. Own(Entry) \in Notices(len)
          BY <3>2 DEF Own, StoredNotices, Frames
        <5> QED
          BY <1>1, <5>1, AmountType
      <4>4. ToCome(kind) = q + h + w /\ ToCome(kind)' = q + h + x
        <5>1. Queued(channel', kind) = q /\ Hand(listener', kind) = h
          BY <1>3, <3>5
        <5> QED
          BY <5>1, ToComeIs
      <4> HIDE DEF q, h, w, x, a
      <4>5. q + h + x \in Nat
        BY <4>1, <4>2
      <4>6. Entry \notin WaitingIn(stored) => w = x
        BY <4>1, <4>2
      <4>7. Entry \in WaitingIn(stored) => q + h + w = (q + h + x) + a
        BY <4>1, <4>2, <4>3
      <4> QED
        BY <4>3, <4>4, <4>5, <4>6, <4>7 DEF a
    <3>7. Done' = Done /\ (IsWorking' <=> IsWorking)
      BY <1>3 DEF Done, IsWorking, Numbers
    <3>8. QuantityFits'
      <4>1. ToCome(c)' \in Nat /\ ToCome(c)' <= ToCome(c)
        <5> DEFINE t == ToCome(c)'
                   s == ToCome(c)
                   a == Amount(Own(Entry), c)
        <5>1. /\ t \in Nat /\ (Entry \notin WaitingIn(stored) => s = t)
              /\ Entry \in WaitingIn(stored) => a \in Nat /\ s = t + a
          BY <3>6
        <5> HIDE DEF t, s, a
        <5>2. t <= s
          BY <5>1
        <5> QED
          BY <5>1, <5>2 DEF t, s
      <4>2. QuantityOf(book) + ToCome(c) <= row.quantity
        BY <1>2 DEF QuantityFits
      <4>3. QuantityOf(book) + ToCome(c)' <= row.quantity
        BY <1>4, <4>1, <4>2
      <4> QED
        BY <1>3, <3>4, <4>3 DEF QuantityFits
    <3>9. ASSUME ~ muddled'
          PROVE  /\ Reads(order, row) /\ ~ muddled
                 /\ \A kind : /\ Amount(n, kind) \in Nat /\ ToCome(kind)' \in Nat
                              /\ ToCome(kind) = ToCome(kind)' + Amount(n, kind)
      <4>1. ~ muddled /\ ~ replayer.stale /\ ~ (Len(stored[Entry].frame) > 1)
        BY <3>1, <3>9
      <4>2. Entry \in WaitingIn(stored)
        BY <3>2, <3>3, <4>1
      <4>3. replayer.j = 1 /\ stored[Entry].i = 1
        BY <3>2, <4>1 DEF StoredNotices
      <4>4. Own(Entry) = n
        BY <4>3 DEF n, Own, Replayed
      <4> QED
        BY <3>3, <3>6, <4>1, <4>2, <4>4
    <3>10. new.filled = order.filled + Amount(n, e)
      BY <1>1, <3>2, <3>3, FilledApplied DEF new
    <3>11. ASSUME ~ muddled'
           PROVE  Done = row'.filled + unheard + dropped + ToCome(e)'
      <4> DEFINE t == ToCome(e)'
                 s == ToCome(e)
                 a == Amount(n, e)
      <4>1. Done = row.filled + unheard + dropped + s
        BY <1>2, <3>9, <3>11 DEF EveryShareAccounted
      <4>2. a \in Nat /\ t \in Nat /\ s = t + a
        BY <3>9, <3>11
      <4>3. row'.filled = row.filled + a
        BY <3>4, <3>9, <3>10, <3>11 DEF Reads
      <4> HIDE DEF t, s, a
      <4>4. Done = row'.filled + unheard + dropped + t
        BY <1>1, <1>4, <4>1, <4>2, <4>3, SMTT(30)
      <4> QED
        BY <4>4 DEF t
    <3>12. EveryShareAccounted'
      BY <1>3, <3>7, <3>11 DEF EveryShareAccounted
    <3>13. RepairedEndIsTrue'
      <4> SUFFICES ASSUME row'.state \in {"filled", "canceled"}, ~ muddled'
                   PROVE  ~ IsWorking /\ row'.filled = Done
        BY <3>7 DEF RepairedEndIsTrue
      <4>1. Reads(order, row)
        BY <3>9
      <4>2. new.filled <= Done
        <5> DEFINE t == ToCome(e)'
        <5>1. Done = new.filled + unheard + dropped + t /\ t \in Nat
          BY <3>4, <3>9, <3>11
        <5>2. new.filled \in Nat
          <6>1. new \in OrderRows(len)
            BY <1>1, <3>2, <3>3, AppliedIs DEF new
          <6> QED
            BY <6>1 DEF OrderRows
        <5> HIDE DEF t
        <5> QED
          BY <1>1, <5>1, <5>2
      <4>3. Amount(n, c) <= ToCome(c)
        <5> DEFINE t == ToCome(c)'
                   a == Amount(n, c)
        <5>1. a \in Nat /\ t \in Nat /\ ToCome(c) = t + a
          BY <3>9
        <5> HIDE DEF t, a
        <5>2. a <= ToCome(c)
          BY <5>1
        <5> QED
          BY <5>2 DEF a
      <4>4. new.state \in {"filled", "canceled"} /\ order.filled = row.filled
        BY <3>4, <4>1 DEF Reads
      <4>5. ~ IsWorking /\ new.filled = Done
        BY <1>2, <3>2, <3>3, <4>2, <4>3, <4>4, EndReached DEF new, len
      <4> QED
        BY <3>4, <4>5
    <3>14. ListenFits(listener, row)'
      <4>1. /\ listener'.at = listener.at
            /\ listener.at = "write" => listener'.order = listener.order /\ listener'.stale = TRUE
        BY <1>1, <3>1, StaleListener
      <4> QED
        BY <1>2, <3>4, <4>1 DEF ListenFits
    <3>15. AttestFits'
      BY <1>1, <1>2, <1>3, <3>1, AttestorOvertaken
    <3>16. ReplayFits(replayer, stored, row, muddled)'
      <4>1. replayer'.at \in {"idle", "read"}
        BY <1>8, <2>1, <3>1
      <4>2. ASSUME replayer' # AtRest, ~ muddled'
            PROVE  replayer'.todo \subseteq WaitingIn(stored')
        <5>1. ~ muddled /\ ~ (Len(stored[Entry].frame) > 1)
          BY <3>1, <4>2
        <5>2. replayer.j = Len(stored[Entry].frame)
          BY <3>2, <5>1
        <5>3. replayer'.todo \subseteq replayer.todo /\ Entry \notin replayer'.todo
          BY <1>8, <2>1, <3>1, <4>2, <5>2
        <5>4. WaitingIn(stored') = WaitingIn(stored) \ {Entry}
          BY <1>1, <3>1, <3>2, ResolveMoves
        <5> QED
          BY <3>3, <5>1, <5>3, <5>4
      <4>3. ReplayFits(replayer', stored', row', muddled')
        BY <4>1, <4>2 DEF ReplayFits
      <4> QED
        BY <4>3 DEF ReplayFits, Reads
    <3>17. Filed(stored, problems)'
      <4>1. /\ DOMAIN stored' = DOMAIN stored
            /\ \A k \in DOMAIN stored : /\ stored'[k].frame = stored[k].frame /\ stored'[k].i = stored[k].i
                                        /\ stored'[k].problem = stored[k].problem
        BY <1>1, <3>1, <3>2, ResolveMoves
      <4>2. Filed(stored', problems')
        BY <1>2, <1>3, <4>1 DEF Filed
      <4> QED
        BY <4>2 DEF Filed
    <3> QED
      BY <1>2, <1>3, <3>8, <3>12, <3>13, <3>14, <3>15, <3>16, <3>17 DEF SharesFit
  <2> QED
    BY <2>2, <2>3
<1> QED
  BY <1>6, <1>9, <1>10

\* No step loses a share.
LEMMA SharesKept ==
  ASSUME RepairTypes, SharesFit, [RepairNext]_repairVars
  PROVE  SharesFit'
BY SharesBroker, SharesListener, SharesApply, SharesReviser, SharesAttestor, SharesReplayer DEF RepairNext
-----------------------------------------------------------------------------
(* How it begins, and what follows from it all.                          *)

\* At first the order has one number and nobody works on it.
LEMMA FirstTypes ==
  ASSUME RepairInit
  PROVE  /\ RepairTypes /\ unheard \in Nat
         /\ FilledOf(book) = unheard /\ QuantityOf(book) = shape.size
         /\ \A kind : ToCome(kind) = 0
<1> DEFINE r == [quantity |-> shape.size, filled |-> unheard, open |-> TRUE]
<1>1. ShapeType
  BY RepairAssumption DEF RepairInit, ShapeType
<1>2. unheard \in Nat /\ unheard < shape.size /\ shape.size \in Nat
  BY <1>1 DEF RepairInit, ShapeType
<1>3. r \in BookRow /\ book = <<r>> /\ Len(book) = 1 /\ book[1] = r
  BY <1>2 DEF RepairInit, BookRow
<1>4. BookFits
  BY <1>2, <1>3 DEF BookFits, Numbers
<1>5. row \in OrderRows(Len(book))
  BY <1>2, <1>3 DEF RepairInit, OrderRows, RowStates
<1>6. /\ channel = <<>> /\ stored = <<>> /\ problems \subseteq 0..1
      /\ listener = AtRest /\ reviser = AtRest /\ attestor = AtRest /\ replayer = AtRest /\ resolver = AtRest
      /\ dropped = 0 /\ muddled = FALSE
  BY DEF RepairInit
<1>7. channel \in Seq(Frames(Len(book))) /\ stored \in Seq(StoredNotices(Len(book)))
  BY <1>6
<1>8. ProcessTypes
  BY <1>6 DEF ProcessTypes, Listeners, Revisers, Attestors, Replayers, Resolvers
<1>9. RepairTypes
  BY <1>1, <1>2, <1>3, <1>4, <1>5, <1>6, <1>7, <1>8 DEF RepairTypes, Placed, CountTypes
<1>10. FilledOf(book) = unheard /\ QuantityOf(book) = shape.size
  <2>1. FilledOf(<<>>) = 0 /\ QuantityOf(<<>>) = 0
    <3>1. \A f : Total(f, 1..0) = 0
      BY SumEmpty
    <3>2. Len(<<>>) = 0
      OBVIOUS
    <3> QED
      BY <3>1, <3>2, SumsAreTotals
  <2>2. book = Append(<<>>, r) /\ <<>> \in Seq(BookRow)
    BY <1>3
  <2>3. r.filled = unheard /\ r.quantity = shape.size
    OBVIOUS
  <2> HIDE DEF r
  <2>4. FilledOf(book) = FilledOf(<<>>) + r.filled /\ QuantityOf(book) = QuantityOf(<<>>) + r.quantity
    BY <1>3, <2>2, BookLonger
  <2> QED
    BY <1>2, <2>1, <2>3, <2>4
<1>11. \A kind : ToCome(kind) = 0
  <2> TAKE kind
  <2>1. Queued(channel, kind) = 0 /\ Hand(listener, kind) = 0
    BY <1>6, QueuedNone DEF Hand, AtRest
  <2>2. SumWaiting(stored, kind) = 0
    <3>1. WaitingIn(<<>>) = {}
      BY DEF WaitingIn
    <3> QED
      BY <1>6, <3>1, SumsAreTotals, SumEmpty
  <2> QED
    BY <2>1, <2>2, ToComeIs
<1> QED
  BY <1>2, <1>9, <1>10, <1>11

\* At first the unheard shares are all there are.
LEMMA FirstFits ==
  ASSUME RepairInit
  PROVE  NumbersFit /\ SharesFit
<1>1. /\ RepairTypes /\ unheard \in Nat /\ FilledOf(book) = unheard /\ QuantityOf(book) = shape.size
      /\ \A kind : ToCome(kind) = 0
  BY FirstTypes
<1>2. /\ row = [state |-> "submitted", quantity |-> shape.size, filled |-> 0, number |-> 1]
      /\ Len(book) = 1 /\ stored = <<>> /\ resolved = {} /\ dropped = 0
      /\ listener = AtRest /\ reviser = AtRest /\ attestor = AtRest /\ replayer = AtRest /\ resolver = AtRest
      /\ unheard > 0 => problems = {1}
  BY <1>1 DEF RepairInit
<1>3. NumbersFit
  BY <1>2 DEF NumbersFit, NumberIsHeld, ReviserFits, ResolverFits, Explained, Numbers, AtRest
<1>4. ListenFits(listener, row) /\ AttestFits /\ ReplayFits(replayer, stored, row, muddled) /\ Filed(stored, problems)
  BY <1>2 DEF ListenFits, AttestFits, ReplayFits, Filed, AtRest
<1>5. shape.size \in Nat
  BY <1>1 DEF RepairTypes, ShapeType
<1>6. QuantityFits
  BY <1>1, <1>2, <1>5 DEF QuantityFits
<1>7. EveryShareAccounted
  BY <1>1, <1>2, DoneIs DEF EveryShareAccounted
<1>8. RepairedEndIsTrue
  BY <1>2 DEF RepairedEndIsTrue
<1> QED
  BY <1>2, <1>3, <1>4, <1>6, <1>7, <1>8 DEF SharesFit

\* When all is quiet, shares that are missing in the row wait to be replayed or were
\* executed before the first session: their number is on record.
LEMMA DivergenceCounted ==
  ASSUME RepairTypes, SharesFit
  PROVE  GateCountsDivergence
<1> SUFFICES ASSUME channel = <<>>, listener = AtRest, ~ muddled, dropped = 0, resolved = {}, row.filled # Done
             PROVE  Unreconciled # {}
  BY DEF GateCountsDivergence
<1> DEFINE e == "execution"
<1>1. /\ Filed(stored, problems) /\ (unheard > 0 => 1 \in problems) /\ EveryShareAccounted /\ RepairedEndIsTrue
  BY DEF SharesFit
<1>2. /\ Len(book) \in Nat /\ row \in OrderRows(Len(book)) /\ stored \in Seq(StoredNotices(Len(book)))
      /\ unheard \in Nat
  BY TypesNow
<1>3. row.state \in RowStates /\ row.filled \in Nat
  BY <1>2 DEF OrderRows
<1>4. row.state \notin Settled
  BY <1>1, <1>3 DEF RepairedEndIsTrue, Settled, RowStates
<1>5. Unreconciled = problems
  BY <1>4 DEF Unreconciled
<1>6. Done = row.filled + unheard + SumWaiting(stored, e)
  <2>1. ToCome(e) = SumWaiting(stored, e)
    <3>1. Queued(channel, e) = 0 /\ Hand(listener, e) = 0
      BY QueuedNone DEF Hand, AtRest
    <3>2. SumWaiting(stored, e) \in Nat
      BY PartsType
    <3> QED
      BY <3>1, <3>2, ToComeIs
  <2>2. SumWaiting(stored, e) \in Nat
    BY PartsType
  <2>3. Done = row.filled + unheard + 0 + ToCome(e)
    BY <1>1 DEF EveryShareAccounted
  <2> HIDE DEF e
  <2> QED
    BY <1>2, <1>3, <2>1, <2>2, <2>3
<1>7. CASE unheard > 0
  BY <1>1, <1>5, <1>7
<1>8. CASE unheard = 0
  <2>1. SumWaiting(stored, e) # 0
    BY <1>3, <1>6, <1>8
  <2>2. PICK k \in WaitingIn(stored) : Amount(stored[k].frame[stored[k].i], e) # 0
    <3> DEFINE f == [k \in DOMAIN stored |-> Amount(stored[k].frame[stored[k].i], e)]
    <3>1. SumWaiting(stored, e) = Total(f, WaitingIn(stored))
      BY SumsAreTotals
    <3>2. IsFiniteSet(WaitingIn(stored)) /\ WaitingIn(stored) \subseteq DOMAIN stored
      BY <1>2, WaitingType
    <3>3. (\A k \in WaitingIn(stored) : f[k] = 0) => Total(f, WaitingIn(stored)) = 0
      <4> HIDE DEF f
      <4> QED
        BY <3>2, SumZero
    <3> QED
      BY <2>1, <3>1, <3>2, <3>3
  <2>3. stored[k].problem /\ stored[k].frame[stored[k].i].kind = "execution"
    BY <2>2 DEF WaitingIn, Amount
  <2>4. stored[k].frame[stored[k].i].number \in problems
    BY <1>1, <2>2, <2>3 DEF Filed, WaitingIn
  <2> QED
    BY <1>5, <2>4
<1> QED
  BY <1>2, <1>7, <1>8

\* What the five writers of one order owe to each other, for every quantity, every
\* number of fills, revisions, replays, attestations and explanations, and every order
\* in which their transactions come: each executed share is in the row, under way,
\* waiting or known to be lost; the number the broker works on is held; an order stored
\* as ended has ended; the readiness gate counts what is missing; and no explanation
\* hides an order that is ours.  FillNotificationListener, OrderReviser,
\* NotificationReplay, OrderAttestor and resolve_problems.
THEOREM RepairCorrect == RepairSpec => []RepairContract
<1> DEFINE Inv == RepairTypes /\ NumbersFit /\ SharesFit
<1>1. RepairInit => Inv
  BY FirstTypes, FirstFits
<1>2. Inv /\ [RepairNext]_repairVars => Inv'
  <2> SUFFICES ASSUME RepairTypes, NumbersFit, SharesFit, [RepairNext]_repairVars
               PROVE  RepairTypes' /\ NumbersFit' /\ SharesFit'
    OBVIOUS
  <2>1. replayer.at = "write" => ~ Problem(replayer.order, Replayed)
    BY ReplayedFits DEF SharesFit
  <2> QED
    BY <2>1, TypesKept, NumbersKept, SharesKept
<1>3. Inv => RepairContract
  <2> SUFFICES ASSUME RepairTypes, NumbersFit, SharesFit
               PROVE  RepairContract
    OBVIOUS
  <2>1. ExplainedIsForeign
    BY DEF NumbersFit, ResolverFits, Explained, ExplainedIsForeign
  <2> QED
    BY <2>1, DivergenceCounted DEF RepairContract, NumbersFit, SharesFit
<1> QED
  BY <1>1, <1>2, <1>3, PTL DEF RepairSpec
====
