----------------------------- MODULE SumTheorems -----------------------------
(*************************************************************************)
(* Facts about the sum of a function over a finite set, as the library   *)
(* defines it (SumFunctionOnSet): a recursive function over the subsets  *)
(* that takes out one element after the other.                           *)
(*                                                                       *)
(* All rest on SmallestSubset: a set of subsets of a finite set that is  *)
(* not empty has a member of which no smaller subset belongs to it.  The *)
(* counterexamples to a claim, if there were any, are such a set.        *)
(*************************************************************************)
EXTENDS Functions, Integers, FiniteSetTheorems, WellFoundedInduction, TLAPS

Picked(T) == CHOOSE x \in T : TRUE

\* g adds up f over every subset of S as the library does.
Adds(g, f, S) == g = [T \in SUBSET S |-> IF T = {} THEN 0 ELSE f[Picked(T)] + g[T \ {Picked(T)}]]

Iter(f, S) == CHOOSE g : Adds(g, f, S)

Total(f, S) == SumFunctionOnSet(f, S)

\* A set with an element has a picked one.
LEMMA PickedIsIn == \A T : T # {} => Picked(T) \in T
  BY DEF Picked

\* Counterexamples among the subsets of a finite set have a smallest one.
LEMMA SmallestSubset ==
  ASSUME NEW S, IsFiniteSet(S), NEW W, W \subseteq SUBSET S, W # {}
  PROVE  \E T \in W : \A U \in SUBSET T : U # T => U \notin W
<1>1. IsWellFoundedOn(StrictSubsetOrdering(S), SUBSET S)
  BY FS_StrictSubsetOrderingWellFounded, FS_FiniteSubsetsOfFinite
<1>2. PICK T \in W : \A U \in W : ~ (<<U, T>> \in StrictSubsetOrdering(S))
  BY <1>1, WFMin
<1> QED
  BY <1>2 DEF StrictSubsetOrdering

\* A set of numbers has a smallest one.
LEMMA SmallestNumber ==
  ASSUME NEW T, T \subseteq Nat, T # {}
  PROVE  \E m \in T : \A n \in T : m <= n
<1>1. \E x \in T : \A y \in T : ~ (<<y, x>> \in OpToRel(<, Nat))
  BY NatLessThanWellFounded, WFMin, Zenon
<1>2. \E x \in T : \A y \in T : ~ (y < x)
  BY <1>1, Zenon DEF OpToRel
<1> QED
  BY <1>2

\* The library's sum, by name.
LEMMA SumIsIter ==
  ASSUME NEW f, NEW S
  PROVE  Total(f, S) = Iter(f, S)[S]
BY DEF Total, SumFunctionOnSet, FoldFunctionOnSet, MapThenFoldSet, Picked, Iter, Adds

\* Two recursions over sets of which one contains the other agree.
LEMMA AddsAgree ==
  ASSUME NEW f, NEW S, IsFiniteSet(S), NEW R \in SUBSET S, NEW g, NEW h, Adds(g, f, S), Adds(h, f, R)
  PROVE  \A T \in SUBSET R : g[T] = h[T]
<1> DEFINE W == {T \in SUBSET R : g[T] # h[T]}
<1> SUFFICES ASSUME W # {} PROVE FALSE
  OBVIOUS
<1>1. IsFiniteSet(R) /\ W # {}
  BY FS_Subset
<1>2. PICK T \in W : \A U \in SUBSET T : U # T => U \notin W
  <2>1. W \subseteq SUBSET R /\ W # {} /\ IsFiniteSet(R)
    BY <1>1
  <2> HIDE DEF W
  <2> QED
    BY <2>1, SmallestSubset
<1>3. /\ g[T] = IF T = {} THEN 0 ELSE f[Picked(T)] + g[T \ {Picked(T)}]
      /\ h[T] = IF T = {} THEN 0 ELSE f[Picked(T)] + h[T \ {Picked(T)}]
  BY <1>2 DEF Adds
<1>4. T # {}
  BY <1>2, <1>3
<1>5. T \ {Picked(T)} \in SUBSET T /\ T \ {Picked(T)} # T
  BY <1>4, PickedIsIn
<1>6. g[T \ {Picked(T)}] = h[T \ {Picked(T)}]
  BY <1>2, <1>5
<1> QED
  BY <1>2, <1>3, <1>6

\* The recursion over a finite set is well-defined.
LEMMA IterAdds ==
  ASSUME NEW f, NEW S, IsFiniteSet(S)
  PROVE  Adds(Iter(f, S), f, S)
<1> DEFINE W == {T \in SUBSET S : ~ \E g : Adds(g, f, T)}
<1>1. SUFFICES ASSUME W # {} PROVE FALSE
  <2>1. S \notin W => \E g : Adds(g, f, S)
    OBVIOUS
  <2> QED
    BY <2>1 DEF Iter
<1>2. PICK T \in W : \A U \in SUBSET T : U # T => U \notin W
  <2>1. W \subseteq SUBSET S /\ W # {} /\ IsFiniteSet(S)
    BY <1>1
  <2> HIDE DEF W
  <2> QED
    BY <2>1, SmallestSubset
<1>3. ASSUME NEW U \in SUBSET T, U # T
      PROVE  Adds(Iter(f, U), f, U) /\ IsFiniteSet(U)
  <2>1. U \in SUBSET S /\ \E g : Adds(g, f, U)
    BY <1>2, <1>3
  <2> QED
    BY <2>1, FS_Subset DEF Iter
<1> DEFINE rest(U) == U \ {Picked(U)}
           g == [U \in SUBSET T |-> IF U = {} THEN 0 ELSE f[Picked(U)] + Iter(f, rest(U))[rest(U)]]
<1>4. ASSUME NEW V \in SUBSET T, V # T
      PROVE  g[V] = Iter(f, V)[V]
  <2>1. Iter(f, V)[V] = IF V = {} THEN 0 ELSE f[Picked(V)] + Iter(f, V)[rest(V)]
    BY <1>3, <1>4 DEF Adds
  <2>2. CASE V = {}
    BY <2>1, <2>2
  <2>3. CASE V # {}
    <3>1. rest(V) \in SUBSET V /\ rest(V) \in SUBSET T /\ rest(V) # T
      BY <1>4, <2>3, PickedIsIn
    <3>2. Iter(f, V)[rest(V)] = Iter(f, rest(V))[rest(V)]
      <4>1. Adds(Iter(f, V), f, V) /\ IsFiniteSet(V) /\ Adds(Iter(f, rest(V)), f, rest(V))
        BY <1>3, <1>4, <3>1
      <4>2. \A X \in SUBSET rest(V) : Iter(f, V)[X] = Iter(f, rest(V))[X]
        <5> HIDE DEF rest
        <5> QED
          BY <3>1, <4>1, AddsAgree
      <4> QED
        BY <4>2
    <3> QED
      BY <2>1, <2>3, <3>2
  <2> QED
    BY <2>2, <2>3
<1>5. \A U \in SUBSET T : U # {} => rest(U) \in SUBSET T /\ rest(U) # T
  BY PickedIsIn
<1>6. \A U \in SUBSET T : U # {} => g[rest(U)] = Iter(f, rest(U))[rest(U)]
  BY <1>4, <1>5
<1>7. g = [U \in SUBSET T |-> IF U = {} THEN 0 ELSE f[Picked(U)] + g[rest(U)]]
  <2> DEFINE k == [U \in SUBSET T |-> IF U = {} THEN 0 ELSE f[Picked(U)] + g[rest(U)]]
  <2>1. \A U \in SUBSET T : g[U] = k[U]
    BY <1>6
  <2> QED
    BY <2>1
<1>8. Adds(g, f, T)
  BY <1>7 DEF Adds
<1> QED
  BY <1>2, <1>8

-----------------------------------------------------------------------------
\* The sum over no element is 0.
LEMMA SumEmpty ==
  ASSUME NEW f
  PROVE  Total(f, {}) = 0
<1>1. Adds(Iter(f, {}), f, {})
  BY IterAdds, FS_EmptySet
<1> QED
  BY <1>1, SumIsIter DEF Adds

\* The picked element is added to the sum of the others.
LEMMA SumPicked ==
  ASSUME NEW f, NEW S, IsFiniteSet(S), S # {}
  PROVE  Total(f, S) = f[Picked(S)] + Total(f, S \ {Picked(S)})
<1> DEFINE R == S \ {Picked(S)}
<1>1. Adds(Iter(f, S), f, S) /\ Adds(Iter(f, R), f, R) /\ R \in SUBSET S
  BY IterAdds, FS_Subset
<1>2. Iter(f, S)[S] = f[Picked(S)] + Iter(f, S)[R]
  BY <1>1 DEF Adds
<1>3. \A T \in SUBSET R : Iter(f, S)[T] = Iter(f, R)[T]
  <2> HIDE DEF R
  <2> QED
    BY <1>1, AddsAgree
<1> QED
  BY <1>2, <1>3, SumIsIter

\* Integers have an integer sum.
LEMMA SumType ==
  ASSUME NEW f, NEW S, IsFiniteSet(S), \A x \in S : f[x] \in Int
  PROVE  Total(f, S) \in Int
<1> DEFINE W == {T \in SUBSET S : Total(f, T) \notin Int}
<1>1. SUFFICES ASSUME W # {} PROVE FALSE
  OBVIOUS
<1>2. PICK T \in W : \A U \in SUBSET T : U # T => U \notin W
  <2>1. W \subseteq SUBSET S /\ W # {} /\ IsFiniteSet(S)
    BY <1>1
  <2> HIDE DEF W
  <2> QED
    BY <2>1, SmallestSubset
<1>3. T # {}
  <2>1. Total(f, T) \notin Int
    BY <1>2
  <2> QED
    BY <2>1, SumEmpty
<1>4. Picked(T) \in T /\ IsFiniteSet(T)
  BY <1>2, <1>3, PickedIsIn, FS_Subset
<1>5. Total(f, T \ {Picked(T)}) \in Int
  BY <1>2, <1>4
<1>6. Total(f, T) = f[Picked(T)] + Total(f, T \ {Picked(T)})
  BY <1>3, <1>4, SumPicked
<1> QED
  BY <1>2, <1>4, <1>5, <1>6

\* Any element can be taken out first.
LEMMA SumOneOut ==
  ASSUME NEW f, NEW S, IsFiniteSet(S), \A x \in S : f[x] \in Int, NEW e \in S
  PROVE  Total(f, S) = f[e] + Total(f, S \ {e})
<1> DEFINE W == {T \in SUBSET S : \E x \in T : Total(f, T) # f[x] + Total(f, T \ {x})}
<1>1. SUFFICES ASSUME W # {} PROVE FALSE
  OBVIOUS
<1>2. PICK T \in W : \A U \in SUBSET T : U # T => U \notin W
  <2>1. W \subseteq SUBSET S /\ W # {} /\ IsFiniteSet(S)
    BY <1>1
  <2> HIDE DEF W
  <2> QED
    BY <2>1, SmallestSubset
<1>3. PICK x \in T : Total(f, T) # f[x] + Total(f, T \ {x})
  BY <1>2
<1> DEFINE p == Picked(T)
<1>4. p \in T /\ IsFiniteSet(T)
  BY <1>2, <1>3, PickedIsIn, FS_Subset
<1>5. Total(f, T) = f[p] + Total(f, T \ {p})
  BY <1>3, <1>4, SumPicked
<1>6. x # p
  BY <1>3, <1>5
<1> HIDE DEF p
<1>7. Total(f, T \ {p}) = f[x] + Total(f, (T \ {p}) \ {x})
  <2>1. T \ {p} \in SUBSET T /\ T \ {p} # T /\ T \ {p} \in SUBSET S /\ x \in T \ {p}
    BY <1>2, <1>3, <1>4, <1>6
  <2> QED
    BY <1>2, <2>1
<1>8. Total(f, T \ {x}) = f[p] + Total(f, (T \ {x}) \ {p})
  <2>1. T \ {x} \in SUBSET T /\ T \ {x} # T /\ T \ {x} \in SUBSET S /\ p \in T \ {x}
    BY <1>2, <1>3, <1>4, <1>6
  <2> QED
    BY <1>2, <2>1
<1>9. (T \ {p}) \ {x} = (T \ {x}) \ {p}
  OBVIOUS
<1>10. f[x] \in Int /\ f[p] \in Int /\ Total(f, (T \ {x}) \ {p}) \in Int
  <2>1. IsFiniteSet((T \ {x}) \ {p}) /\ \A y \in T : y \in S
    BY <1>2, <1>4, FS_Subset
  <2> QED
    BY <1>4, <2>1, SumType
<1>11. f[p] + (f[x] + Total(f, (T \ {x}) \ {p})) = f[x] + (f[p] + Total(f, (T \ {x}) \ {p}))
  BY <1>10
<1> QED
  BY <1>3, <1>5, <1>7, <1>8, <1>9, <1>11

\* An element more.
LEMMA SumOneMore ==
  ASSUME NEW f, NEW S, IsFiniteSet(S), \A x \in S : f[x] \in Int, NEW e, e \notin S, f[e] \in Int
  PROVE  Total(f, S \cup {e}) = f[e] + Total(f, S)
<1>1. IsFiniteSet(S \cup {e})
  BY FS_AddElement
<1>2. (S \cup {e}) \ {e} = S
  OBVIOUS
<1> QED
  BY <1>1, <1>2, SumOneOut

\* Functions that agree on the set have one sum.
LEMMA SumSame ==
  ASSUME NEW f, NEW g, NEW S, IsFiniteSet(S), \A x \in S : f[x] = g[x]
  PROVE  Total(f, S) = Total(g, S)
<1> DEFINE W == {T \in SUBSET S : Total(f, T) # Total(g, T)}
<1>1. SUFFICES ASSUME W # {} PROVE FALSE
  OBVIOUS
<1>2. PICK T \in W : \A U \in SUBSET T : U # T => U \notin W
  <2>1. W \subseteq SUBSET S /\ W # {} /\ IsFiniteSet(S)
    BY <1>1
  <2> HIDE DEF W
  <2> QED
    BY <2>1, SmallestSubset
<1>3. T # {}
  BY <1>2, SumEmpty
<1>4. Picked(T) \in T /\ IsFiniteSet(T)
  BY <1>2, <1>3, PickedIsIn, FS_Subset
<1>5. Total(f, T \ {Picked(T)}) = Total(g, T \ {Picked(T)})
  BY <1>2, <1>4
<1>6. /\ Total(f, T) = f[Picked(T)] + Total(f, T \ {Picked(T)})
      /\ Total(g, T) = g[Picked(T)] + Total(g, T \ {Picked(T)})
  BY <1>3, <1>4, SumPicked
<1> QED
  BY <1>2, <1>4, <1>5, <1>6

\* A value that changes, changes the sum by as much.
LEMMA SumChange ==
  ASSUME NEW f, NEW g, NEW S, IsFiniteSet(S), \A x \in S : f[x] \in Int /\ g[x] \in Int,
         NEW e \in S, \A x \in S \ {e} : f[x] = g[x]
  PROVE  Total(g, S) = Total(f, S) + g[e] - f[e]
<1>1. Total(f, S) = f[e] + Total(f, S \ {e}) /\ Total(g, S) = g[e] + Total(g, S \ {e})
  BY SumOneOut
<1>2. IsFiniteSet(S \ {e})
  BY FS_Subset
<1>3. Total(f, S \ {e}) = Total(g, S \ {e}) /\ Total(f, S \ {e}) \in Int /\ f[e] \in Int /\ g[e] \in Int
  BY <1>2, SumSame, SumType
<1> QED
  BY <1>1, <1>3

\* Larger values have a larger sum.
LEMMA SumGrows ==
  ASSUME NEW f, NEW g, NEW S, IsFiniteSet(S), \A x \in S : f[x] \in Int /\ g[x] \in Int /\ f[x] <= g[x]
  PROVE  Total(f, S) <= Total(g, S)
<1> DEFINE W == {T \in SUBSET S : ~ (Total(f, T) <= Total(g, T))}
<1>1. SUFFICES ASSUME W # {} PROVE FALSE
  OBVIOUS
<1>2. PICK T \in W : \A U \in SUBSET T : U # T => U \notin W
  <2>1. W \subseteq SUBSET S /\ W # {} /\ IsFiniteSet(S)
    BY <1>1
  <2> HIDE DEF W
  <2> QED
    BY <2>1, SmallestSubset
<1>3. T # {}
  <2>1. ~ (Total(f, T) <= Total(g, T))
    BY <1>2
  <2> QED
    BY <2>1, SumEmpty
<1>4. Picked(T) \in T /\ IsFiniteSet(T) /\ Picked(T) \in S
  BY <1>2, <1>3, PickedIsIn, FS_Subset
<1>5. Total(f, T \ {Picked(T)}) <= Total(g, T \ {Picked(T)})
  BY <1>2, <1>4
<1>6. /\ Total(f, T) = f[Picked(T)] + Total(f, T \ {Picked(T)})
      /\ Total(g, T) = g[Picked(T)] + Total(g, T \ {Picked(T)})
  BY <1>3, <1>4, SumPicked
<1>7. IsFiniteSet(T \ {Picked(T)}) /\ \A x \in T \ {Picked(T)} : f[x] \in Int /\ g[x] \in Int
  BY <1>2, <1>4, FS_Subset
<1>8. Total(f, T \ {Picked(T)}) \in Int /\ Total(g, T \ {Picked(T)}) \in Int
  BY <1>7, SumType
<1> QED
  BY <1>2, <1>4, <1>5, <1>6, <1>8

\* Values that are no larger, with the same sum, are the same.
LEMMA SumEqual ==
  ASSUME NEW f, NEW g, NEW S, IsFiniteSet(S), \A x \in S : f[x] \in Int /\ g[x] \in Int /\ f[x] <= g[x],
         Total(f, S) = Total(g, S)
  PROVE  \A x \in S : f[x] = g[x]
<1>0. ASSUME NEW a \in Int, NEW b \in Int, NEW c \in Int, NEW d \in Int, a <= b, c <= d, a + c = b + d
      PROVE  a = b
  BY <1>0
<1>6. SUFFICES ASSUME NEW e \in S PROVE f[e] = g[e]
  OBVIOUS
<1>1. Total(f, S) = f[e] + Total(f, S \ {e}) /\ Total(g, S) = g[e] + Total(g, S \ {e})
  BY SumOneOut
<1>2. IsFiniteSet(S \ {e})
  BY FS_Subset
<1>3. Total(f, S \ {e}) <= Total(g, S \ {e})
  BY <1>2, SumGrows
<1>4. Total(f, S \ {e}) \in Int /\ Total(g, S \ {e}) \in Int
  BY <1>2, SumType
<1>5. f[e] \in Int /\ g[e] \in Int /\ f[e] <= g[e]
  OBVIOUS
<1>7. f[e] + Total(f, S \ {e}) = g[e] + Total(g, S \ {e})
  BY <1>1
<1> QED
  BY <1>0, <1>3, <1>4, <1>5, <1>7

\* Zeros have the sum zero.
LEMMA SumZero ==
  ASSUME NEW f, NEW S, IsFiniteSet(S), \A x \in S : f[x] = 0
  PROVE  Total(f, S) = 0
<1> DEFINE W == {T \in SUBSET S : Total(f, T) # 0}
<1>1. SUFFICES ASSUME W # {} PROVE FALSE
  OBVIOUS
<1>2. PICK T \in W : \A U \in SUBSET T : U # T => U \notin W
  <2>1. W \subseteq SUBSET S /\ W # {} /\ IsFiniteSet(S)
    BY <1>1
  <2> HIDE DEF W
  <2> QED
    BY <2>1, SmallestSubset
<1>3. T # {}
  BY <1>2, SumEmpty
<1>4. Picked(T) \in T /\ IsFiniteSet(T)
  BY <1>2, <1>3, PickedIsIn, FS_Subset
<1>5. Total(f, T \ {Picked(T)}) = 0
  BY <1>2, <1>4
<1> QED
  BY <1>2, <1>3, <1>4, <1>5, SumPicked

\* Numbers that are not negative have such a sum, and none is larger than it.
LEMMA SumNat ==
  ASSUME NEW f, NEW S, IsFiniteSet(S), \A x \in S : f[x] \in Nat
  PROVE  Total(f, S) \in Nat /\ \A x \in S : f[x] <= Total(f, S)
<1>1. ASSUME NEW T \in SUBSET S
      PROVE  Total(f, T) \in Nat
  <2> DEFINE z == [x \in S |-> 0]
  <2>1. IsFiniteSet(T) /\ \A x \in T : f[x] \in Int /\ z[x] \in Int /\ z[x] <= f[x] /\ z[x] = 0
    BY FS_Subset
  <2> HIDE DEF z
  <2>2. Total(z, T) = 0 /\ Total(z, T) <= Total(f, T) /\ Total(f, T) \in Int
    BY <2>1, SumZero, SumGrows, SumType
  <2> QED
    BY <2>2
<1>2. ASSUME NEW x \in S
      PROVE  f[x] <= Total(f, S)
  <2>1. Total(f, S) = f[x] + Total(f, S \ {x})
    BY SumOneOut
  <2>2. Total(f, S \ {x}) \in Nat
    BY <1>1
  <2> QED
    BY <2>1, <2>2
<1> QED
  BY <1>1, <1>2

\* The sum over two sets without a common element.
LEMMA SumUnion ==
  ASSUME NEW f, NEW S, NEW R, IsFiniteSet(S), IsFiniteSet(R), S \cap R = {},
         \A x \in S \cup R : f[x] \in Int
  PROVE  Total(f, S \cup R) = Total(f, S) + Total(f, R)
<1> DEFINE W == {T \in SUBSET R : Total(f, S \cup T) # Total(f, S) + Total(f, T)}
<1>0. Total(f, S) \in Int
  BY SumType
<1>1. SUFFICES ASSUME W # {} PROVE FALSE
  OBVIOUS
<1>2. PICK T \in W : \A U \in SUBSET T : U # T => U \notin W
  <2>1. W \subseteq SUBSET R /\ W # {} /\ IsFiniteSet(R)
    BY <1>1
  <2> HIDE DEF W
  <2> QED
    BY <2>1, SmallestSubset
<1>3. T # {}
  <2>1. Total(f, S \cup T) # Total(f, S) + Total(f, T)
    BY <1>2
  <2>2. T = {} => S \cup T = S
    OBVIOUS
  <2> QED
    BY <1>0, <2>1, <2>2, SumEmpty
<1> DEFINE p == Picked(T)
           Q == T \ {p}
<1>4. p \in T /\ IsFiniteSet(T) /\ IsFiniteSet(Q) /\ IsFiniteSet(S \cup Q)
  BY <1>2, <1>3, PickedIsIn, FS_Subset, FS_Union
<1>5. Total(f, S \cup Q) = Total(f, S) + Total(f, Q)
  BY <1>2, <1>4
<1>6. Total(f, T) = f[p] + Total(f, Q)
  BY <1>3, <1>4, SumPicked
<1>7. (S \cup Q) \cup {p} = S \cup T /\ p \notin S \cup Q /\ \A x \in S \cup Q : f[x] \in Int /\ f[p] \in Int
  BY <1>2, <1>4
<1>8. Total(f, S \cup T) = f[p] + Total(f, S \cup Q)
  <2> HIDE DEF p, Q
  <2>1. f[p] \in Int
    BY <1>2, <1>4
  <2>2. Total(f, (S \cup Q) \cup {p}) = f[p] + Total(f, S \cup Q)
    BY <1>4, <1>7, <2>1, SumOneMore
  <2> QED
    BY <1>7, <2>2
<1>9. Total(f, Q) \in Int /\ f[p] \in Int
  BY <1>2, <1>4, SumType
<1> QED
  BY <1>0, <1>2, <1>5, <1>6, <1>8, <1>9

\* Other names for the elements: a sum over the images of a one-to-one renaming.
LEMMA SumRenamed ==
  ASSUME NEW f, NEW g, NEW S, NEW b, IsFiniteSet(S), \A x \in S : g[x] \in Int /\ f[b[x]] = g[x],
         \A x, y \in S : b[x] = b[y] => x = y
  PROVE  Total(f, {b[x] : x \in S}) = Total(g, S)
<1> DEFINE image(T) == {b[x] : x \in T}
           W == {T \in SUBSET S : Total(f, image(T)) # Total(g, T)}
<1>1. SUFFICES ASSUME W # {} PROVE FALSE
  OBVIOUS
<1>2. PICK T \in W : \A U \in SUBSET T : U # T => U \notin W
  <2>1. W \subseteq SUBSET S /\ W # {} /\ IsFiniteSet(S)
    BY <1>1
  <2> HIDE DEF W
  <2> QED
    BY <2>1, SmallestSubset
<1>3. T # {}
  <2>1. image({}) = {}
    OBVIOUS
  <2> QED
    BY <1>2, <2>1, SumEmpty
<1> DEFINE p == Picked(T)
           Q == T \ {p}
<1>4. p \in T /\ IsFiniteSet(T) /\ IsFiniteSet(Q)
  BY <1>2, <1>3, PickedIsIn, FS_Subset
<1>5. Total(f, image(Q)) = Total(g, Q)
  BY <1>2, <1>4
<1>6. Total(g, T) = g[p] + Total(g, Q)
  BY <1>3, <1>4, SumPicked
<1>7. image(T) = image(Q) \cup {b[p]} /\ b[p] \notin image(Q)
  BY <1>2, <1>4
<1>8. IsFiniteSet(image(Q))
  <2> DEFINE h == [x \in Q |-> b[x]]
  <2>1. h \in Surjection(Q, image(Q))
    BY DEF Surjection
  <2> QED
    BY <1>4, <2>1, FS_Surjection
<1>9. \A y \in image(Q) : f[y] \in Int
  BY <1>2
<1>10. f[b[p]] \in Int /\ f[b[p]] = g[p]
  BY <1>2, <1>4
<1>11. Total(f, image(T)) = f[b[p]] + Total(f, image(Q))
  <2> HIDE DEF p, Q, image
  <2> QED
    BY <1>7, <1>8, <1>9, <1>10, SumOneMore
<1> QED
  BY <1>2, <1>5, <1>6, <1>10, <1>11

-----------------------------------------------------------------------------
(* Sums along a sequence.                                                *)

\* One more at the end.
LEMMA SumLast ==
  ASSUME NEW f, NEW n \in Nat, \A i \in 1..(n + 1) : f[i] \in Int
  PROVE  IsFiniteSet(1..n) /\ Total(f, 1..(n + 1)) = f[n + 1] + Total(f, 1..n)
<1>1. IsFiniteSet(1..n)
  <2>1. n \in Int /\ 1 \in Int
    OBVIOUS
  <2> QED
    BY <2>1, FS_Interval
<1>2. n + 1 \notin 1..n /\ (1..n) \cup {n + 1} = 1..(n + 1) /\ n + 1 \in 1..(n + 1)
  OBVIOUS
<1>3. f[n + 1] \in Int /\ \A i \in 1..n : f[i] \in Int
  BY <1>2
<1> HIDE DEF Total
<1>4. Total(f, (1..n) \cup {n + 1}) = f[n + 1] + Total(f, 1..n)
  BY <1>1, <1>2, <1>3, SumOneMore
<1> QED
  BY <1>1, <1>2, <1>4

\* One less at the front.
LEMMA SumFirst ==
  ASSUME NEW f, NEW g, NEW n \in Nat, n > 0, \A i \in 1..n : f[i] \in Int,
         \A i \in 1..(n - 1) : g[i] = f[i + 1]
  PROVE  Total(f, 1..n) = f[1] + Total(g, 1..(n - 1))
<1> DEFINE S == 1..(n - 1)
           b == [i \in S |-> i + 1]
<1>1. IsFiniteSet(1..n) /\ IsFiniteSet(S)
  <2>1. n \in Int /\ 1 \in Int /\ n - 1 \in Int
    OBVIOUS
  <2> QED
    BY <2>1, FS_Interval
<1>2. {b[x] : x \in S} = (1..n) \ {1}
  <2>1. ASSUME NEW y \in (1..n) \ {1} PROVE \E x \in S : b[x] = y
    <3>1. y - 1 \in S /\ b[y - 1] = y
      BY <2>1
    <3> QED
      BY <3>1
  <2>2. \A x \in S : b[x] \in (1..n) \ {1}
    OBVIOUS
  <2> QED
    BY <2>1, <2>2
<1>3. \A x \in S : g[x] \in Int /\ f[b[x]] = g[x]
  OBVIOUS
<1>4. \A x, y \in S : b[x] = b[y] => x = y
  OBVIOUS
<1>5. 1 \in 1..n
  OBVIOUS
<1> HIDE DEF S, b
<1>6. Total(f, {b[x] : x \in S}) = Total(g, S)
  BY <1>1, <1>3, <1>4, SumRenamed
<1>7. Total(f, 1..n) = f[1] + Total(f, (1..n) \ {1})
  <2>1. \A i \in 1..n : f[i] \in Int
    OBVIOUS
  <2> DEFINE R == 1..n
  <2> HIDE DEF R
  <2>2. IsFiniteSet(R) /\ 1 \in R /\ \A i \in R : f[i] \in Int
    BY <1>1, <1>5, <2>1 DEF R
  <2>3. Total(f, R) = f[1] + Total(f, R \ {1})
    BY <2>2, SumOneOut
  <2> QED
    BY <2>3 DEF R
<1> QED
  BY <1>2, <1>6, <1>7 DEF S
=============================================================================
