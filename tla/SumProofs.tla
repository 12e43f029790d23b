------------------------------- MODULE SumProofs ------------------------------
(***************************************************************************)
(* What the proofs of the other modules know of finite sets: their sums,   *)
(* counts and orders, and functions that are defined by recursion. A sum   *)
(* over a finite set is the sum over the set without one element, plus     *)
(* that element; it is a natural number when its terms are; it grows with  *)
(* its terms and with the set; and it changes by d when one term does. A   *)
(* fold is defined by recursion over the subsets, so each fact is proved   *)
(* of a subset that is minimal among those that contradict it, of which    *)
(* there is none; and in the same way of the least number.                 *)
(***************************************************************************)
EXTENDS Integers, Functions, FiniteSetTheorems, WellFoundedInduction, TLAPS

Pick(U) == CHOOSE x \in U : TRUE

\* g sums f over each subset of S, as SumFunctionOnSet does.
Sums(f, S, g) ==
  g = [U \in SUBSET S |-> IF U = {} THEN 0 ELSE f[Pick(U)] + g[U \ {Pick(U)}]]
SumsOf(f, S) == CHOOSE g : Sums(f, S, g)
-----------------------------------------------------------------------------
LEMMA MinimalSubset ==
  ASSUME NEW S, IsFiniteSet(S), NEW B \in SUBSET (SUBSET S), B # {}
  PROVE  \E T \in B : \A U \in B : U \subseteq T => U = T
<1>1. SUBSET S = FiniteSubsetsOf(S)
  BY FS_FiniteSubsetsOfFinite
<1>2. PICK T \in B : \A U \in B : ~(<<U, T>> \in StrictSubsetOrdering(S))
  BY <1>1, FS_StrictSubsetOrderingWellFounded, WFMin
<1>3. QED
  BY <1>2 DEF StrictSubsetOrdering

LEMMA PickIn == ASSUME NEW U, U # {} PROVE Pick(U) \in U
BY DEF Pick

LEMMA SumsAgree ==
  ASSUME NEW f, NEW S, IsFiniteSet(S), NEW T, NEW g, NEW h, Sums(f, S, g), Sums(f, T, h)
  PROVE  \A U \in SUBSET S : U \subseteq T => g[U] = h[U]
<1> DEFINE B == {U \in SUBSET S : U \subseteq T /\ g[U] # h[U]}
<1>1. ASSUME B # {} PROVE FALSE
  <2>1. PICK U \in B : \A V \in B : V \subseteq U => V = U
    <3>1. B \in SUBSET (SUBSET S)
      OBVIOUS
    <3> HIDE DEF B
    <3>2. QED
      BY <1>1, <3>1, MinimalSubset
  <2> DEFINE V == U \ {Pick(U)}
  <2>2. U = {} => g[U] = 0 /\ h[U] = 0
    BY DEF Sums
  <2>3. U # {} => g[U] = f[Pick(U)] + g[V] /\ h[U] = f[Pick(U)] + h[V]
    BY DEF Sums
  <2>4. U # {} => V # U /\ V \subseteq U /\ V \in SUBSET S
    BY PickIn
  <2>5. U # {} => g[V] = h[V]
    BY <2>1, <2>4
  <2>6. QED
    BY <2>1, <2>2, <2>3, <2>5
<1>2. QED
  BY <1>1

LEMMA SumsExist == ASSUME NEW f, NEW S, IsFiniteSet(S) PROVE Sums(f, S, SumsOf(f, S))
<1> DEFINE B == {T \in SUBSET S : ~ \E g : Sums(f, T, g)}
<1>1. ASSUME B # {} PROVE FALSE
  <2>1. PICK T \in B : \A U \in B : U \subseteq T => U = T
    <3>1. B \in SUBSET (SUBSET S)
      OBVIOUS
    <3> HIDE DEF B
    <3>2. QED
      BY <1>1, <3>1, MinimalSubset
  <2>2. \A U \in SUBSET T : U # T => Sums(f, U, SumsOf(f, U))
    BY <2>1 DEF SumsOf
  <2>3. T # {}
    <3> SUFFICES ASSUME T = {} PROVE FALSE
      OBVIOUS
    <3> DEFINE g == [U \in SUBSET {} |-> 0]
    <3>1. Sums(f, {}, g)
      BY DEF Sums
    <3>2. QED
      BY <3>1
  <2> DEFINE P == T \ {Pick(T)}
             g == [U \in SUBSET T |->
                     IF U = T THEN f[Pick(T)] + SumsOf(f, P)[P] ELSE SumsOf(f, U)[U]]
  <2>4. P # T /\ P \in SUBSET T
    BY <2>3, PickIn
  <2>5. ASSUME NEW U \in SUBSET T
        PROVE  g[U] = IF U = {} THEN 0 ELSE f[Pick(U)] + g[U \ {Pick(U)}]
    <3>1. CASE U = T
      BY <2>3, <2>4, <3>1
    <3>2. CASE U # T /\ U = {}
      BY <2>2, <3>2 DEF Sums
    <3>3. CASE U # T /\ U # {}
      <4> DEFINE V == U \ {Pick(U)}
      <4>1. V \in SUBSET T /\ V # T /\ V \subseteq U
        BY <3>3
      <4>2. SumsOf(f, U)[U] = f[Pick(U)] + SumsOf(f, U)[V]
        BY <2>2, <3>3 DEF Sums
      <4>3. IsFiniteSet(U)
        BY FS_Subset
      <4>4. SumsOf(f, U)[V] = SumsOf(f, V)[V]
        <5>1. Sums(f, U, SumsOf(f, U)) /\ Sums(f, V, SumsOf(f, V))
          BY <2>2, <3>3, <4>1
        <5>2. V \in SUBSET U
          OBVIOUS
        <5> HIDE DEF V
        <5>3. QED
          BY <4>3, <5>1, <5>2, SumsAgree
      <4>5. QED
        BY <3>3, <4>1, <4>2, <4>4
    <3>4. QED
      BY <3>1, <3>2, <3>3
  <2>6. Sums(f, T, g)
    <3>1. g = [U \in SUBSET T |-> g[U]]
      OBVIOUS
    <3> HIDE DEF g
    <3>2. QED
      BY <2>5, <3>1 DEF Sums
  <2>7. QED
    BY <2>6
<1>2. QED
  BY <1>1 DEF SumsOf

LEMMA SumIs == ASSUME NEW f, NEW S PROVE SumFunctionOnSet(f, S) = SumsOf(f, S)[S]
BY DEF SumFunctionOnSet, FoldFunctionOnSet, MapThenFoldSet, SumsOf, Sums, Pick

LEMMA SumUnfolds ==
  ASSUME NEW f, NEW S, IsFiniteSet(S)
  PROVE  SumFunctionOnSet(f, S) =
           IF S = {} THEN 0 ELSE f[Pick(S)] + SumFunctionOnSet(f, S \ {Pick(S)})
<1> DEFINE R == S \ {Pick(S)}
<1>1. Sums(f, S, SumsOf(f, S))
  BY SumsExist
<1>2. SumsOf(f, S)[S] = IF S = {} THEN 0 ELSE f[Pick(S)] + SumsOf(f, S)[R]
  BY <1>1 DEF Sums
<1>3. SumsOf(f, S)[R] = SumsOf(f, R)[R]
  <2>1. R \subseteq S /\ R \in SUBSET S
    OBVIOUS
  <2> HIDE DEF R
  <2>2. IsFiniteSet(R)
    BY <2>1, FS_Subset
  <2>3. Sums(f, R, SumsOf(f, R))
    BY <2>2, SumsExist
  <2>4. QED
    BY <1>1, <2>1, <2>3, SumsAgree
<1>4. QED
  BY <1>2, <1>3, SumIs

LEMMA SumOfNone == ASSUME NEW f PROVE SumFunctionOnSet(f, {}) = 0
BY SumUnfolds, FS_EmptySet

LEMMA SumOfZeros ==
  ASSUME NEW f, NEW S, IsFiniteSet(S), \A x \in S : f[x] = 0
  PROVE  SumFunctionOnSet(f, S) = 0
<1> DEFINE B == {T \in SUBSET S : SumFunctionOnSet(f, T) # 0}
<1>1. ASSUME B # {} PROVE FALSE
  <2>1. PICK T \in B : \A U \in B : U \subseteq T => U = T
    <3>1. B \in SUBSET (SUBSET S)
      OBVIOUS
    <3> HIDE DEF B
    <3>2. QED
      BY <1>1, <3>1, MinimalSubset
  <2>2. IsFiniteSet(T)
    BY FS_Subset
  <2>3. T # {}
    BY SumOfNone
  <2> DEFINE R == T \ {Pick(T)}
  <2>4. Pick(T) \in T /\ SumFunctionOnSet(f, T) = f[Pick(T)] + SumFunctionOnSet(f, R)
    BY <2>2, <2>3, PickIn, SumUnfolds
  <2>5. SumFunctionOnSet(f, R) = 0
    BY <2>1, <2>4
  <2>6. QED
    BY <2>4, <2>5
<1>2. QED
  BY <1>1

LEMMA SumIsNat ==
  ASSUME NEW f, NEW S, IsFiniteSet(S), \A x \in S : f[x] \in Nat
  PROVE  SumFunctionOnSet(f, S) \in Nat
<1> DEFINE B == {T \in SUBSET S : SumFunctionOnSet(f, T) \notin Nat}
<1>1. ASSUME B # {} PROVE FALSE
  <2>1. PICK T \in B : \A U \in B : U \subseteq T => U = T
    <3>1. B \in SUBSET (SUBSET S)
      OBVIOUS
    <3> HIDE DEF B
    <3>2. QED
      BY <1>1, <3>1, MinimalSubset
  <2>2. IsFiniteSet(T)
    BY FS_Subset
  <2>3. CASE T = {}
    BY <2>3, SumOfNone
  <2>4. CASE T # {}
    <3> DEFINE R == T \ {Pick(T)}
    <3>1. Pick(T) \in T
      BY <2>4, PickIn
    <3>2. SumFunctionOnSet(f, T) = f[Pick(T)] + SumFunctionOnSet(f, R)
      BY <2>2, <2>4, SumUnfolds
    <3>3. SumFunctionOnSet(f, R) \in Nat
      BY <2>1, <3>1
    <3>4. f[Pick(T)] \in Nat
      BY <3>1
    <3>5. QED
      BY <3>2, <3>3, <3>4
  <2>5. QED
    BY <2>3, <2>4
<1>2. QED
  BY <1>1, FS_Subset

LEMMA SumIsInt ==
  ASSUME NEW f, NEW S, IsFiniteSet(S), \A x \in S : f[x] \in Int
  PROVE  SumFunctionOnSet(f, S) \in Int
<1> DEFINE B == {T \in SUBSET S : SumFunctionOnSet(f, T) \notin Int}
<1>1. ASSUME B # {} PROVE FALSE
  <2>1. PICK T \in B : \A U \in B : U \subseteq T => U = T
    <3>1. B \in SUBSET (SUBSET S)
      OBVIOUS
    <3> HIDE DEF B
    <3>2. QED
      BY <1>1, <3>1, MinimalSubset
  <2>2. IsFiniteSet(T)
    BY FS_Subset
  <2>3. CASE T = {}
    BY <2>3, SumOfNone
  <2>4. CASE T # {}
    <3> DEFINE R == T \ {Pick(T)}
    <3>1. Pick(T) \in T
      BY <2>4, PickIn
    <3>2. SumFunctionOnSet(f, T) = f[Pick(T)] + SumFunctionOnSet(f, R)
      BY <2>2, <2>4, SumUnfolds
    <3>3. SumFunctionOnSet(f, R) \in Int
      BY <2>1, <3>1
    <3>4. f[Pick(T)] \in Int
      BY <3>1
    <3>5. QED
      BY <3>2, <3>3, <3>4
  <2>5. QED
    BY <2>3, <2>4
<1>2. QED
  BY <1>1, FS_Subset

LEMMA SumsOfEqualsAreEqual ==
  ASSUME NEW f, NEW g, NEW S, IsFiniteSet(S), \A x \in S : f[x] = g[x]
  PROVE  SumFunctionOnSet(f, S) = SumFunctionOnSet(g, S)
<1> DEFINE B == {T \in SUBSET S : SumFunctionOnSet(f, T) # SumFunctionOnSet(g, T)}
<1>1. ASSUME B # {} PROVE FALSE
  <2>1. PICK T \in B : \A U \in B : U \subseteq T => U = T
    <3>1. B \in SUBSET (SUBSET S)
      OBVIOUS
    <3> HIDE DEF B
    <3>2. QED
      BY <1>1, <3>1, MinimalSubset
  <2>2. IsFiniteSet(T)
    BY FS_Subset
  <2>3. CASE T = {}
    BY <2>3, SumOfNone
  <2>4. CASE T # {}
    <3> DEFINE R == T \ {Pick(T)}
    <3>1. Pick(T) \in T
      BY <2>4, PickIn
    <3>2. SumFunctionOnSet(f, T) = f[Pick(T)] + SumFunctionOnSet(f, R)
      BY <2>2, <2>4, SumUnfolds
    <3>3. SumFunctionOnSet(g, T) = g[Pick(T)] + SumFunctionOnSet(g, R)
      BY <2>2, <2>4, SumUnfolds
    <3>4. SumFunctionOnSet(f, R) = SumFunctionOnSet(g, R)
      BY <2>1, <3>1
    <3>5. QED
      BY <3>1, <3>2, <3>3, <3>4
  <2>5. QED
    BY <2>3, <2>4
<1>2. QED
  BY <1>1

LEMMA SumTakesOut ==
  ASSUME NEW f, NEW S, IsFiniteSet(S), \A x \in S : f[x] \in Int, NEW y \in S
  PROVE  SumFunctionOnSet(f, S) = f[y] + SumFunctionOnSet(f, S \ {y})
<1> DEFINE B == {T \in SUBSET S :
                   \E z \in T : SumFunctionOnSet(f, T) # f[z] + SumFunctionOnSet(f, T \ {z})}
<1>1. ASSUME B # {} PROVE FALSE
  <2>1. PICK T \in B : \A U \in B : U \subseteq T => U = T
    <3>1. B \in SUBSET (SUBSET S)
      OBVIOUS
    <3> HIDE DEF B
    <3>2. QED
      BY <1>1, <3>1, MinimalSubset
  <2>2. PICK z \in T : SumFunctionOnSet(f, T) # f[z] + SumFunctionOnSet(f, T \ {z})
    OBVIOUS
  <2> DEFINE p == Pick(T)
             R == T \ {p}
             Z == T \ {z}
             Q == R \ {z}
  <2>3. p \in T /\ SumFunctionOnSet(f, T) = f[p] + SumFunctionOnSet(f, R)
    <3>1. IsFiniteSet(T)
      BY FS_Subset
    <3>2. QED
      BY <2>2, <3>1, PickIn, SumUnfolds
  <2>4. z # p
    BY <2>2, <2>3
  <2>5. SumFunctionOnSet(f, R) = f[z] + SumFunctionOnSet(f, Q)
    <3>1. R \in SUBSET S /\ R \subseteq T /\ R # T /\ z \in R
      BY <2>3, <2>4
    <3>2. QED
      BY <2>1, <3>1
  <2>6. SumFunctionOnSet(f, Z) = f[p] + SumFunctionOnSet(f, Q)
    <3>1. Z \in SUBSET S /\ Z \subseteq T /\ Z # T /\ p \in Z
      BY <2>3, <2>4
    <3>2. Z \ {p} = Q
      OBVIOUS
    <3>3. QED
      BY <2>1, <3>1, <3>2
  <2>7. f[p] \in Int /\ f[z] \in Int
    BY <2>3
  <2>8. SumFunctionOnSet(f, Q) \in Int
    <3>1. Q \subseteq S
      OBVIOUS
    <3> HIDE DEF Q
    <3>2. IsFiniteSet(Q) /\ \A x \in Q : f[x] \in Int
      BY <3>1, FS_Subset
    <3>3. QED
      BY <3>2, SumIsInt
  <2>9. QED
    BY <2>2, <2>3, <2>5, <2>6, <2>7, <2>8
<1>2. QED
  BY <1>1

LEMMA SumChanges ==
  ASSUME NEW f, NEW g, NEW S, IsFiniteSet(S), NEW y \in S,
         \A x \in S : f[x] \in Int /\ g[x] \in Int,
         \A x \in S : x # y => f[x] = g[x]
  PROVE  SumFunctionOnSet(g, S) = SumFunctionOnSet(f, S) + g[y] - f[y]
<1> DEFINE R == S \ {y}
<1>1. R \subseteq S /\ \A x \in R : f[x] = g[x] /\ f[x] \in Int
  OBVIOUS
<1>2. SumFunctionOnSet(f, S) = f[y] + SumFunctionOnSet(f, R)
  BY SumTakesOut
<1>3. SumFunctionOnSet(g, S) = g[y] + SumFunctionOnSet(g, R)
  BY SumTakesOut
<1> HIDE DEF R
<1>4. IsFiniteSet(R)
  BY <1>1, FS_Subset
<1>5. SumFunctionOnSet(f, R) = SumFunctionOnSet(g, R) /\ SumFunctionOnSet(f, R) \in Int
  BY <1>1, <1>4, SumsOfEqualsAreEqual, SumIsInt
<1>6. QED
  BY <1>2, <1>3, <1>5

LEMMA SumAdds ==
  ASSUME NEW f, NEW g, NEW h, NEW S, IsFiniteSet(S),
         \A x \in S : f[x] \in Int /\ g[x] \in Int /\ h[x] = f[x] + g[x]
  PROVE  SumFunctionOnSet(h, S) = SumFunctionOnSet(f, S) + SumFunctionOnSet(g, S)
<1> DEFINE B == {T \in SUBSET S :
                   SumFunctionOnSet(h, T) # SumFunctionOnSet(f, T) + SumFunctionOnSet(g, T)}
<1>1. ASSUME B # {} PROVE FALSE
  <2>1. PICK T \in B : \A U \in B : U \subseteq T => U = T
    <3>1. B \in SUBSET (SUBSET S)
      OBVIOUS
    <3> HIDE DEF B
    <3>2. QED
      BY <1>1, <3>1, MinimalSubset
  <2>2. IsFiniteSet(T)
    BY FS_Subset
  <2>3. CASE T = {}
    BY <2>3, SumOfNone
  <2>4. CASE T # {}
    <3> DEFINE p == Pick(T)
               R == T \ {p}
    <3>1. p \in T
      BY <2>4, PickIn
    <3>2. /\ SumFunctionOnSet(f, T) = f[p] + SumFunctionOnSet(f, R)
          /\ SumFunctionOnSet(g, T) = g[p] + SumFunctionOnSet(g, R)
          /\ SumFunctionOnSet(h, T) = h[p] + SumFunctionOnSet(h, R)
      BY <2>2, <2>4, SumUnfolds
    <3>3. SumFunctionOnSet(h, R) = SumFunctionOnSet(f, R) + SumFunctionOnSet(g, R)
      BY <2>1, <3>1
    <3>4. f[p] \in Int /\ g[p] \in Int /\ h[p] = f[p] + g[p]
      BY <3>1
    <3>5. R \subseteq S
      OBVIOUS
    <3> HIDE DEF R, p
    <3>6. IsFiniteSet(R) /\ \A x \in R : f[x] \in Int /\ g[x] \in Int
      BY <3>5, FS_Subset
    <3>7. SumFunctionOnSet(f, R) \in Int /\ SumFunctionOnSet(g, R) \in Int
      BY <3>6, SumIsInt
    <3>8. QED
      BY <3>2, <3>3, <3>4, <3>7
  <2>5. QED
    BY <2>3, <2>4
<1>2. QED
  BY <1>1

\* A finite set of numbers that is not empty has a least one.
LEMMA LeastExists ==
  ASSUME NEW S, IsFiniteSet(S), S # {}
  PROVE  (\A i \in S : i \in Nat) => \E i \in S : \A j \in S : i <= j
<1> DEFINE Below(i) == {j \in S : j < i}
<1>1. PICK B : B = {Below(i) : i \in S}
  OBVIOUS
<1>2. B \in SUBSET (SUBSET S) /\ B # {}
  BY <1>1
<1>3. PICK T \in B : \A U \in B : U \subseteq T => U = T
  BY <1>2, MinimalSubset
<1> HAVE \A i \in S : i \in Nat
<1>4. PICK i \in S : T = Below(i)
  BY <1>1
<1>5. ASSUME NEW j \in S, ~(i <= j) PROVE FALSE
  <2>1. i \in Nat /\ j \in Nat /\ j < i
    BY <1>5
  <2>2. \A k \in S : k < j => k < i
    BY <2>1
  <2>3. Below(j) \subseteq Below(i)
    BY <2>2
  <2>4. j \in Below(i) /\ j \notin Below(j)
    BY <2>1
  <2>5. QED
    BY <1>1, <1>3, <1>4, <2>3, <2>4
<1>6. QED
  BY <1>5


-----------------------------------------------------------------------------
(***************************************************************************)
(* The first n elements of a finite set in an order, as a page of a list   *)
(* shows them, without the sequence they would be: those with fewer than n *)
(* earlier ones.                                                           *)
(***************************************************************************)
\* r puts the elements of S in one order: the pairs of an earlier and a later one.
Orders(r, S) ==
  /\ \A x \in S : <<x, x>> \notin r
  /\ \A x, y, z \in S : <<x, y>> \in r /\ <<y, z>> \in r => <<x, z>> \in r
  /\ \A x, y \in S : x = y \/ <<x, y>> \in r \/ <<y, x>> \in r
Earlier(r, S, x) == {y \in S : <<y, x>> \in r}
\* The first n elements of S.
Foremost(r, S, n) == {x \in S : Cardinality(Earlier(r, S, x)) < n}

LEMMA OrdersSubset == ASSUME NEW r, NEW S, Orders(r, S), NEW T \in SUBSET S PROVE Orders(r, T)
BY DEF Orders

LEMMA EarlierCount ==
  ASSUME NEW r, NEW S, IsFiniteSet(S), NEW x
  PROVE  IsFiniteSet(Earlier(r, S, x)) /\ Cardinality(Earlier(r, S, x)) \in Nat
<1>1. Earlier(r, S, x) \subseteq S
  BY DEF Earlier
<1>2. QED
  BY <1>1, FS_Subset, FS_CardinalityType

\* What is earlier has fewer before it.
LEMMA EarlierGrows ==
  ASSUME NEW r, NEW S, Orders(r, S), NEW x \in S, NEW y \in S, <<y, x>> \in r
  PROVE  /\ Earlier(r, S, y) \subseteq Earlier(r, S, x)
         /\ y \in Earlier(r, S, x) /\ y \notin Earlier(r, S, y)
BY DEF Orders, Earlier

\* A finite set that is not empty has a first element.
LEMMA FirstExists ==
  ASSUME NEW r, NEW S, Orders(r, S), IsFiniteSet(S), S # {}
  PROVE  \E x \in S : \A y \in S : <<y, x>> \notin r
<1>1. PICK B : B = {Earlier(r, S, x) : x \in S}
  OBVIOUS
<1>2. B \in SUBSET (SUBSET S) /\ B # {}
  BY <1>1 DEF Earlier
<1>3. PICK T \in B : \A U \in B : U \subseteq T => U = T
  BY <1>2, MinimalSubset
<1>4. PICK x \in S : T = Earlier(r, S, x)
  BY <1>1
<1>5. ASSUME NEW y \in S, <<y, x>> \in r PROVE FALSE
  BY <1>1, <1>3, <1>4, <1>5, EarlierGrows
<1>6. QED
  BY <1>5

\* And a last one.
LEMMA LastExists ==
  ASSUME NEW r, NEW S, Orders(r, S), IsFiniteSet(S), S # {}
  PROVE  \E x \in S : \A y \in S : <<x, y>> \notin r
<1> DEFINE back == {p \in S \X S : <<p[2], p[1]>> \in r}
<1>1. \A x, y \in S : <<x, y>> \in back <=> <<y, x>> \in r
  OBVIOUS
<1>2. Orders(back, S)
  BY <1>1 DEF Orders
<1> HIDE DEF back
<1>3. PICK x \in S : \A y \in S : <<y, x>> \notin back
  BY <1>2, FirstExists
<1>4. QED
  BY <1>1, <1>3

\* Who comes before one of the first n is one of them.
LEMMA ForemostIsFirst ==
  ASSUME NEW r, NEW S, Orders(r, S), IsFiniteSet(S), NEW n \in Nat,
         NEW x \in Foremost(r, S, n), NEW y \in S, <<y, x>> \in r
  PROVE  y \in Foremost(r, S, n)
<1>1. x \in S /\ Cardinality(Earlier(r, S, x)) < n
  BY DEF Foremost
<1>2. Earlier(r, S, y) \subseteq Earlier(r, S, x)
  BY <1>1, EarlierGrows
<1>3. Cardinality(Earlier(r, S, y)) <= Cardinality(Earlier(r, S, x))
  BY <1>2, EarlierCount, FS_Subset
<1>4. Cardinality(Earlier(r, S, y)) \in Nat /\ Cardinality(Earlier(r, S, x)) \in Nat
  BY EarlierCount
<1>5. QED
  BY <1>1, <1>3, <1>4 DEF Foremost

LEMMA ForemostFinite ==
  ASSUME NEW r, NEW S, IsFiniteSet(S), NEW n
  PROVE  /\ Foremost(r, S, n) \subseteq S /\ IsFiniteSet(Foremost(r, S, n))
         /\ Cardinality(Foremost(r, S, n)) \in Nat
<1>1. Foremost(r, S, n) \subseteq S
  BY DEF Foremost
<1>2. QED
  BY <1>1, FS_Subset, FS_CardinalityType

\* The first n are at most n.
LEMMA ForemostCount ==
  ASSUME NEW r, NEW S, Orders(r, S), IsFiniteSet(S), NEW n \in Nat
  PROVE  Cardinality(Foremost(r, S, n)) <= n
<1> DEFINE F == Foremost(r, S, n)
<1>1. F \subseteq S /\ IsFiniteSet(F) /\ Cardinality(F) \in Nat
  BY ForemostFinite
<1>2. CASE F = {}
  BY <1>2, FS_EmptySet
<1>3. CASE F # {}
  <2>1. Orders(r, F)
    BY <1>1, OrdersSubset
  <2>2. PICK x \in F : \A y \in F : <<x, y>> \notin r
    <3> HIDE DEF F
    <3>1. QED
      BY <1>1, <1>3, <2>1, LastExists
  <2>3. F \ {x} \subseteq Earlier(r, S, x)
    BY <1>1, <2>1, <2>2 DEF Orders, Earlier
  <2>4. Cardinality(F \ {x}) <= Cardinality(Earlier(r, S, x))
    BY <2>3, EarlierCount, FS_Subset
  <2>5. Cardinality(F \ {x}) = Cardinality(F) - 1
    <3> HIDE DEF F
    <3>1. QED
      BY <1>1, <2>2, FS_RemoveElement
  <2>6. Cardinality(Earlier(r, S, x)) < n /\ Cardinality(Earlier(r, S, x)) \in Nat
    BY <2>2, EarlierCount DEF Foremost
  <2> HIDE DEF F
  <2>7. Cardinality(F) <= n
    BY <1>1, <2>4, <2>5, <2>6
  <2>8. QED
    BY <2>7 DEF F
<1>4. QED
  BY <1>2, <1>3

\* They are n unless they are all.
LEMMA ForemostIsFull ==
  ASSUME NEW r, NEW S, Orders(r, S), IsFiniteSet(S), NEW n \in Nat, Foremost(r, S, n) # S
  PROVE  Cardinality(Foremost(r, S, n)) = n
<1> DEFINE F == Foremost(r, S, n)
           R == S \ F
<1>1. F \subseteq S /\ IsFiniteSet(F) /\ Cardinality(F) \in Nat /\ Cardinality(F) <= n
  BY ForemostFinite, ForemostCount
<1>2. R # {} /\ R \in SUBSET S
  BY <1>1
<1>3. PICK x \in R : \A y \in R : <<y, x>> \notin r
  <2> HIDE DEF R
  <2>1. Orders(r, R) /\ IsFiniteSet(R)
    BY <1>2, OrdersSubset, FS_Subset
  <2>2. QED
    BY <1>2, <2>1, FirstExists
<1>4. Earlier(r, S, x) \subseteq F
  BY <1>3 DEF Earlier
<1>5. Cardinality(Earlier(r, S, x)) <= Cardinality(F)
  <2> HIDE DEF F
  <2>1. QED
    BY <1>1, <1>4, FS_Subset
<1>6. ~(Cardinality(Earlier(r, S, x)) < n) /\ Cardinality(Earlier(r, S, x)) \in Nat
  BY <1>3, EarlierCount DEF Foremost
<1> HIDE DEF F, R
<1>7. Cardinality(F) = n
  BY <1>1, <1>5, <1>6
<1>8. QED
  BY <1>7 DEF F

\* The first n of the first m.
LEMMA ForemostOfForemost ==
  ASSUME NEW r, NEW S, Orders(r, S), IsFiniteSet(S), NEW n \in Nat, NEW m \in Nat, n <= m
  PROVE  Foremost(r, Foremost(r, S, m), n) = Foremost(r, S, n)
<1> DEFINE F == Foremost(r, S, m)
<1>1. ASSUME NEW x \in F PROVE Earlier(r, F, x) = Earlier(r, S, x)
  <2>1. F \subseteq S
    BY DEF Foremost
  <2>2. \A y \in S : <<y, x>> \in r => y \in F
    BY ForemostIsFirst
  <2> HIDE DEF F
  <2>3. QED
    BY <2>1, <2>2 DEF Earlier
<1>2. ASSUME NEW x \in S, Cardinality(Earlier(r, S, x)) < n PROVE x \in F
  BY <1>2, EarlierCount DEF Foremost
<1>3. F \subseteq S
  BY DEF Foremost
<1> HIDE DEF F
<1>4. Foremost(r, F, n) = Foremost(r, S, n)
  BY <1>1, <1>2, <1>3 DEF Foremost
<1>5. QED
  BY <1>4 DEF F

\* One more than a page is read: if that is no more than the page, it is all there is.
LEMMA NothingBeyond ==
  ASSUME NEW r, NEW S, Orders(r, S), IsFiniteSet(S), NEW n \in Nat,
         Foremost(r, S, n) = Foremost(r, S, n + 1)
  PROVE  Foremost(r, S, n) = S
<1>1. Cardinality(Foremost(r, S, n)) <= n /\ Cardinality(Foremost(r, S, n)) \in Nat
  BY ForemostCount, ForemostFinite
<1>2. Foremost(r, S, n + 1) # S => Cardinality(Foremost(r, S, n + 1)) = n + 1
  BY ForemostIsFull
<1>3. QED
  BY <1>1, <1>2

\* The first n and the first m of the others are the first n + m.
LEMMA ForemostAdds ==
  ASSUME NEW r, NEW S, Orders(r, S), IsFiniteSet(S), NEW n \in Nat, NEW m \in Nat,
         NEW R, R = S \ Foremost(r, S, n)
  PROVE  Foremost(r, S, n + m) = Foremost(r, S, n) \cup Foremost(r, R, m)
<1> DEFINE F == Foremost(r, S, n)
           G == Foremost(r, R, m)
<1>0. R = S \ F
  OBVIOUS
<1>1. /\ F \subseteq S /\ IsFiniteSet(F) /\ Cardinality(F) \in Nat /\ Cardinality(F) <= n
      /\ F # S => Cardinality(F) = n
  BY ForemostFinite, ForemostCount, ForemostIsFull
<1>2. IsFiniteSet(R) /\ Orders(r, R) /\ R \subseteq S
  BY <1>1, FS_Subset, OrdersSubset
<1>3. /\ G \subseteq R /\ IsFiniteSet(G) /\ Cardinality(G) \in Nat /\ Cardinality(G) <= m
      /\ G # R => Cardinality(G) = m
  BY <1>2, ForemostFinite, ForemostCount, ForemostIsFull
<1>4. ASSUME NEW x \in R
      PROVE  /\ Earlier(r, S, x) = F \cup Earlier(r, R, x) /\ F \cap Earlier(r, R, x) = {}
             /\ Cardinality(Earlier(r, S, x)) = n + Cardinality(Earlier(r, R, x))
             /\ Cardinality(Earlier(r, R, x)) \in Nat
  <2>1. \A y \in F : <<y, x>> \in r
    <3>1. SUFFICES ASSUME NEW y \in F, <<y, x>> \notin r PROVE FALSE
      OBVIOUS
    <3>2. <<x, y>> \in r
      BY <1>1, <3>1 DEF Orders
    <3>3. QED
      BY <3>2, ForemostIsFirst
  <2>2. Earlier(r, S, x) = F \cup Earlier(r, R, x) /\ F \cap Earlier(r, R, x) = {}
    <3> HIDE DEF F
    <3>1. QED
      BY <1>0, <1>1, <2>1 DEF Earlier
  <2>3. IsFiniteSet(Earlier(r, R, x)) /\ Cardinality(Earlier(r, R, x)) \in Nat
    BY <1>2, EarlierCount
  <2>4. F # S
    OBVIOUS
  <2> HIDE DEF F
  <2>5. Cardinality(F \cup Earlier(r, R, x)) =
          Cardinality(F) + Cardinality(Earlier(r, R, x)) - Cardinality(F \cap Earlier(r, R, x))
    BY <1>1, <2>3, FS_Union
  <2>6. Cardinality(F \cap Earlier(r, R, x)) = 0
    BY <2>2, FS_EmptySet
  <2>7. Cardinality(F) = n
    BY <1>1, <2>4
  <2>8. Cardinality(Earlier(r, S, x)) = n + Cardinality(Earlier(r, R, x)) - 0
    BY <2>2, <2>5, <2>6, <2>7, Zenon
  <2>9. QED
    BY <2>2, <2>3, <2>8
<1>5. ASSUME NEW x \in R PROVE x \in G <=> x \in Foremost(r, S, n + m)
  <2>1. x \in G <=> Cardinality(Earlier(r, R, x)) < m
    BY DEF Foremost
  <2>2. x \in Foremost(r, S, n + m) <=> Cardinality(Earlier(r, S, x)) < n + m
    BY <1>2 DEF Foremost
  <2>3. PICK a, b : a = Cardinality(Earlier(r, R, x)) /\ b = Cardinality(Earlier(r, S, x))
    OBVIOUS
  <2>4. a \in Nat /\ b = n + a
    BY <1>4, <2>3
  <2>5. a < m <=> b < n + m
    BY <2>4
  <2>6. QED
    BY <2>1, <2>2, <2>3, <2>5, Zenon
<1>6. ASSUME NEW x \in F PROVE x \in Foremost(r, S, n + m)
  BY EarlierCount DEF Foremost
<1>7. Foremost(r, S, n + m) \subseteq F \cup R
  BY DEF Foremost
<1> HIDE DEF F, G
<1>8. F \cup G = Foremost(r, S, n + m)
  BY <1>1, <1>3, <1>5, <1>6, <1>7, <1>0
<1>9. QED
  BY <1>8 DEF F, G
-----------------------------------------------------------------------------
\* Of the numbers that contradict a claim there is one whose predecessor does not.
LEMMA LeastIn ==
  ASSUME NEW N \in Nat, NEW B \in SUBSET (0 .. N), B # {}
  PROVE  \E n \in B : n \in 0 .. N /\ (n # 0 => n \in 1 .. N /\ n - 1 \in (0 .. N) \ B)
<1>1. IsFiniteSet(B) /\ \A i \in B : i \in Nat
  <2>1. IsFiniteSet(0 .. N)
    BY FS_Interval
  <2>2. IsFiniteSet(B)
    BY <2>1, FS_Subset
  <2>3. \A i \in 0 .. N : i \in Nat
    OBVIOUS
  <2>4. QED
    BY <2>2, <2>3, Zenon
<1>2. PICK n \in B : \A m \in B : n <= m
  BY <1>1, LeastExists
<1>3. QED
  BY <1>1, <1>2

\* A function is defined by recursion: what step makes of it, one number after the other.
Recurs(g, base, N, step) == g[0] = base /\ \A n \in 1 .. N : g[n] = step[n][g[n - 1]]

LEMMA RecursionExists ==
  ASSUME NEW R, NEW base \in R, NEW N \in Nat, NEW step \in [1 .. N -> [R -> R]]
  PROVE  \E g \in [0 .. N -> R] : Recurs(g, base, N, step)
<1> DEFINE Good(n) == \E g \in [0 .. n -> R] :
                        g[0] = base /\ \A i \in 1 .. n : g[i] = step[i][g[i - 1]]
           B == {n \in 0 .. N : ~Good(n)}
<1>1. Good(0)
  <2> DEFINE g == [i \in 0 .. 0 |-> base]
  <2>1. g \in [0 .. 0 -> R] /\ g[0] = base
    OBVIOUS
  <2>2. \A i \in 1 .. 0 : g[i] = step[i][g[i - 1]]
    OBVIOUS
  <2> HIDE DEF g
  <2>3. QED
    BY <2>1, <2>2, Zenon
<1>2. ASSUME NEW n \in 1 .. N, Good(n - 1) PROVE Good(n)
  <2>1. PICK g \in [0 .. n - 1 -> R] :
               g[0] = base /\ \A i \in 1 .. n - 1 : g[i] = step[i][g[i - 1]]
    BY <1>2
  <2> DEFINE h == [i \in 0 .. n |-> IF i = n THEN step[n][g[n - 1]] ELSE g[i]]
  <2>2. n - 1 \in 0 .. n - 1 /\ g[n - 1] \in R /\ step[n] \in [R -> R]
    BY <2>1
  <2>3. h \in [0 .. n -> R]
    BY <2>1, <2>2
  <2>4. h[0] = base
    BY <2>1
  <2>5. ASSUME NEW i \in 1 .. n PROVE h[i] = step[i][h[i - 1]]
    <3>1. CASE i = n
      BY <2>2, <3>1
    <3>2. CASE i # n
      BY <2>1, <3>2
    <3>3. QED
      BY <3>1, <3>2
  <2> HIDE DEF h
  <2>6. QED
    BY <2>3, <2>4, <2>5
<1>3. ASSUME B # {} PROVE FALSE
  <2> HIDE DEF Good
  <2>1. PICK n \in B : n \in 0 .. N /\ (n # 0 => n \in 1 .. N /\ n - 1 \in (0 .. N) \ B)
    <3>1. B \in SUBSET (0 .. N)
      OBVIOUS
    <3> HIDE DEF B
    <3>2. QED
      BY <1>3, <3>1, LeastIn
  <2>2. QED
    BY <1>1, <1>2, <2>1
<1>4. N \notin B
  BY <1>3
<1>5. Good(N)
  <2> HIDE DEF Good
  <2>1. QED
    BY <1>4
<1>6. QED
  BY <1>5 DEF Recurs
===============================================================================
