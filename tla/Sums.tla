-------------------------------- MODULE Sums --------------------------------
(***************************************************************************)
(* Sums of the values of a function over finite sets: SumFunctionOnSet of  *)
(* the community modules, which adds them in an order that CHOOSE picks,   *)
(* is what one expects of a sum, whatever the order.                       *)
(***************************************************************************)
EXTENDS Functions, FiniteSetTheorems, TLAPS

\* What does not hold of all subsets of a finite set fails first for one whose smaller subsets
\* all satisfy it.
LEMMA SmallestSubset ==
    ASSUME NEW S, IsFiniteSet(S), NEW T \in SUBSET SUBSET S, T # {}
    PROVE  \E s \in T : \A r \in T : r \subseteq s => r = s
<1>1. T \subseteq FiniteSubsetsOf(S)
  BY FS_FiniteSubsetsOfFinite
<1>2. PICK s \in T : \A r \in T : ~(<<r, s>> \in StrictSubsetOrdering(S))
  BY <1>1, FS_StrictSubsetOrderingWellFounded, WFMin
<1>3. \A r \in T : r \subseteq s => r = s
  BY <1>2 DEF StrictSubsetOrdering
<1> QED BY <1>3

\* A set of numbers that is not empty has a smallest one.
LEMMA LeastNumber ==
    ASSUME NEW S, \A x \in S : x \in Nat, S # {}
    PROVE  \E x \in S : \A y \in S : y >= x
<1>1. PICK top \in S : TRUE
  OBVIOUS
<1>2. top \in Nat
  BY <1>1
<1> DEFINE below(x) == 0..x
           all == 0..top
           T == {below(x) : x \in S \cap 0..top}
<1>3. PICK s \in T : \A r \in T : r \subseteq s => r = s
  <2>1. T \in SUBSET SUBSET all
    BY <1>2
  <2>2. below(top) \in T
    BY <1>1, <1>2
  <2>3. IsFiniteSet(all)
    BY <1>2, FS_Interval
  <2> HIDE DEF T, all
  <2> QED BY ONLY <2>1, <2>2, <2>3, SmallestSubset
<1>4. PICK x \in S \cap 0..top : s = below(x)
  BY <1>3
<1>5. ASSUME NEW y \in S PROVE y >= x
  <2>1. CASE y > top
    BY <1>2, <1>4, <2>1
  <2>2. CASE ~(y > top) /\ ~(y >= x)
    <3>1. y \in S \cap 0..top /\ y < x /\ x \in Nat
      BY <1>2, <1>4, <2>2
    <3>2. below(y) \in T /\ below(y) \subseteq s
      BY <1>4, <3>1
    <3>3. x \in s /\ x \notin below(y)
      BY <1>4, <3>1
    <3> QED BY <1>3, <3>2, <3>3
  <2> QED BY <2>1, <2>2
<1> QED BY <1>4, <1>5

-----------------------------------------------------------------------------
(* The recursive function behind a sum.                                    *)

Picked(s) == CHOOSE x \in s : TRUE

Adds(f, S, g) ==
    g = [s \in SUBSET S |-> IF s = {} THEN 0 ELSE f[Picked(s)] + g[s \ {Picked(s)}]]

\* The element picked from a nonempty set is one of its elements.
LEMMA PickedIn == \A s : s # {} => Picked(s) \in s
  BY DEF Picked

\* The recursion of such a function at a nonempty set.
LEMMA AddsStep ==
    ASSUME NEW f, NEW S, NEW g, Adds(f, S, g), NEW s \in SUBSET S, s # {}
    PROVE  g[s] = f[Picked(s)] + g[s \ {Picked(s)}]
  BY DEF Adds

\* And at the empty set.
LEMMA AddsEmpty == ASSUME NEW f, NEW S, NEW g, Adds(f, S, g) PROVE g[{}] = 0
  BY DEF Adds

\* Two such functions agree where both are defined.
LEMMA AddsAgree ==
    ASSUME NEW f, NEW S, NEW R, IsFiniteSet(R), NEW g, NEW h, Adds(f, S, g), Adds(f, R, h), R \subseteq S
    PROVE  \A s \in SUBSET R : g[s] = h[s]
<1> DEFINE Bad == {s \in SUBSET R : g[s] # h[s]}
<1>1. CASE Bad = {}
  BY <1>1
<1>2. CASE Bad # {}
  <2>1. PICK s \in Bad : \A r \in Bad : r \subseteq s => r = s
    <3>1. Bad \in SUBSET SUBSET R /\ Bad # {}
      BY <1>2
    <3> HIDE DEF Bad
    <3> QED BY <3>1, SmallestSubset
  <2>2. s # {}
    BY AddsEmpty
  <2>3. s \ {Picked(s)} \notin Bad
    BY <2>1, <2>2, PickedIn
  <2>4. g[s \ {Picked(s)}] = h[s \ {Picked(s)}]
    BY <2>3
  <2>5. g[s] = h[s]
    BY <2>2, <2>4, AddsStep
  <2> QED BY <2>5
<1> QED BY <1>1, <1>2

\* There is one for every finite set.
LEMMA AddsExists ==
    ASSUME NEW f, NEW S, IsFiniteSet(S)
    PROVE  \E g : Adds(f, S, g)
<1> DEFINE G(s) == CHOOSE g : Adds(f, s, g)
           Bad == {s \in SUBSET S : ~ \E g : Adds(f, s, g)}
<1>1. \A s \in SUBSET S : s \notin Bad => Adds(f, s, G(s))
  OBVIOUS
<1> HIDE DEF G
<1>2. CASE Bad = {}
  BY <1>2
<1>3. CASE Bad # {}
  <2>1. PICK s \in Bad : \A r \in Bad : r \subseteq s => r = s
    <3>1. Bad \in SUBSET SUBSET S /\ Bad # {}
      BY <1>3
    <3> HIDE DEF Bad
    <3> QED BY <3>1, SmallestSubset
  <2>2. \A r \in SUBSET s : r # s => IsFiniteSet(r) /\ Adds(f, r, G(r))
    BY <1>1, <2>1, FS_Subset
  <2> DEFINE v(r) == IF r = {} THEN 0 ELSE f[Picked(r)] + G(r \ {Picked(r)})[r \ {Picked(r)}]
             k == [r \in SUBSET s |-> v(r)]
  <2>3. ASSUME NEW r \in SUBSET s, r # s PROVE v(r) = G(r)[r]
    <3>1. CASE r = {}
      BY <2>2, <2>3, <3>1, AddsEmpty
    <3>2. CASE r # {}
      <4> DEFINE q == r \ {Picked(r)}
      <4>1. q \in SUBSET r /\ q \in SUBSET s /\ q # s
        BY <2>3
      <4>2. Adds(f, r, G(r)) /\ Adds(f, q, G(q)) /\ IsFiniteSet(q)
        BY <2>2, <2>3, <4>1
      <4>3. G(r)[q] = G(q)[q]
        <5>1. q \in SUBSET q
          OBVIOUS
        <5> HIDE DEF q
        <5> QED BY <4>1, <4>2, <5>1, AddsAgree
      <4>4. G(r)[r] = f[Picked(r)] + G(r)[q]
        BY <3>2, <4>2, AddsStep
      <4> QED BY <3>2, <4>3, <4>4
    <3> QED BY <3>1, <3>2
  <2>4. ASSUME NEW r \in SUBSET s, r # {} PROVE v(r) = f[Picked(r)] + k[r \ {Picked(r)}]
    <3>1. r \ {Picked(r)} \in SUBSET s /\ r \ {Picked(r)} # s
      BY <2>4, PickedIn
    <3>2. k[r \ {Picked(r)}] = G(r \ {Picked(r)})[r \ {Picked(r)}]
      BY <3>1, <2>3
    <3> QED BY <2>4, <3>2
  <2>5. Adds(f, s, k)
    BY <2>4 DEF Adds
  <2> QED BY <2>1, <2>5
<1> QED BY <1>2, <1>3

\* The sum over a finite set is what such a function computes.
LEMMA SumIsAdded ==
    ASSUME NEW f, NEW S, IsFiniteSet(S)
    PROVE  \E g : Adds(f, S, g) /\ SumFunctionOnSet(f, S) = g[S]
<1>1. \E g : Adds(f, S, g)
  BY AddsExists
<1> QED BY <1>1 DEF SumFunctionOnSet, FoldFunctionOnSet, MapThenFoldSet, Adds, Picked

\* The function of a set gives the sums of its subsets.
LEMMA AddsAreSums ==
    ASSUME NEW f, NEW S, IsFiniteSet(S), NEW g, Adds(f, S, g), NEW s \in SUBSET S
    PROVE  g[s] = SumFunctionOnSet(f, s)
<1>1. IsFiniteSet(s)
  BY FS_Subset
<1>2. PICK h : Adds(f, s, h) /\ SumFunctionOnSet(f, s) = h[s]
  BY <1>1, SumIsAdded
<1>3. g[s] = h[s]
  BY <1>1, <1>2, AddsAgree
<1> QED BY <1>2, <1>3

-----------------------------------------------------------------------------
(* What a sum is.                                                          *)

\* Nothing sums to zero.
LEMMA SumEmpty == \A f : SumFunctionOnSet(f, {}) = 0
  BY SumIsAdded, AddsEmpty, FS_EmptySet

\* A sum is the value at the picked element and the sum of the rest.
LEMMA SumPicked ==
    ASSUME NEW f, NEW S, IsFiniteSet(S), S # {}
    PROVE  SumFunctionOnSet(f, S) = f[Picked(S)] + SumFunctionOnSet(f, S \ {Picked(S)})
<1>1. PICK g : Adds(f, S, g) /\ SumFunctionOnSet(f, S) = g[S]
  BY SumIsAdded
<1>2. g[S] = f[Picked(S)] + g[S \ {Picked(S)}]
  BY <1>1, AddsStep
<1>3. g[S \ {Picked(S)}] = SumFunctionOnSet(f, S \ {Picked(S)})
  BY <1>1, AddsAreSums
<1> QED BY <1>1, <1>2, <1>3

\* Integers sum to an integer.
LEMMA SumInteger ==
    ASSUME NEW S, IsFiniteSet(S), NEW f, \A x \in S : f[x] \in Int
    PROVE  SumFunctionOnSet(f, S) \in Int
<1> DEFINE Bad == {s \in SUBSET S : SumFunctionOnSet(f, s) \notin Int}
<1>1. CASE Bad = {}
  BY <1>1
<1>2. CASE Bad # {}
  <2>1. PICK s \in Bad : \A r \in Bad : r \subseteq s => r = s
    <3>1. Bad \in SUBSET SUBSET S /\ Bad # {}
      BY <1>2
    <3> HIDE DEF Bad
    <3> QED BY <3>1, SmallestSubset
  <2>2. s # {} /\ IsFiniteSet(s)
    <3>1. s \in SUBSET S /\ s # {}
      BY SumEmpty
    <3> QED BY <3>1, FS_Subset
  <2>3. SumFunctionOnSet(f, s \ {Picked(s)}) \in Int
    BY <2>1, <2>2, PickedIn
  <2>4. f[Picked(s)] \in Int
    BY <2>2, PickedIn
  <2>5. SumFunctionOnSet(f, s) \in Int
    BY <2>2, <2>3, <2>4, SumPicked
  <2> QED BY <2>5
<1> QED BY <1>1, <1>2

\* Whichever element is taken out.
LEMMA SumWithout ==
    ASSUME NEW S, IsFiniteSet(S), NEW f, \A y \in S : f[y] \in Int, NEW x \in S
    PROVE  SumFunctionOnSet(f, S) = f[x] + SumFunctionOnSet(f, S \ {x})
<1> DEFINE Splits(s, y) == SumFunctionOnSet(f, s) = f[y] + SumFunctionOnSet(f, s \ {y})
           Bad == {s \in SUBSET S : \E y \in s : ~Splits(s, y)}
<1>1. CASE Bad = {}
  BY <1>1
<1>2. CASE Bad # {}
  <2>1. PICK s \in Bad : \A r \in Bad : r \subseteq s => r = s
    <3>1. Bad \in SUBSET SUBSET S /\ Bad # {}
      BY <1>2
    <3> HIDE DEF Bad
    <3> QED BY <3>1, SmallestSubset
  <2>2. PICK y \in s : ~Splits(s, y)
    OBVIOUS
  <2> DEFINE c == Picked(s)
  <2>3. c \in s /\ s \in SUBSET S /\ y \in S /\ c \in S
    BY PickedIn
  <2>4. \A r \in SUBSET s : r # s => \A z \in r : Splits(r, z)
    BY <2>1, <2>3
  <2>5. \A r \in SUBSET s : SumFunctionOnSet(f, r) \in Int
    BY <2>3, FS_Subset, SumInteger
  <2>6. Splits(s, c)
    BY <2>3, SumPicked, FS_Subset
  <2>7. c # y
    BY <2>2, <2>6
  <2> HIDE DEF c, Bad
  <2>8. Splits(s \ {c}, y) /\ Splits(s \ {y}, c)
    <3>1. s \ {c} # s /\ y \in s \ {c} /\ s \ {y} # s /\ c \in s \ {y}
      BY <2>3, <2>7
    <3> HIDE DEF Splits
    <3> QED BY <2>4, <3>1
  <2>9. (s \ {c}) \ {y} = (s \ {y}) \ {c}
    OBVIOUS
  <2>10. /\ SumFunctionOnSet(f, s \ {y}) \in Int /\ SumFunctionOnSet(f, (s \ {y}) \ {c}) \in Int
         /\ f[c] \in Int /\ f[y] \in Int
    BY <2>3, <2>5
  <2>11. Splits(s, y)
    <3> DEFINE whole == SumFunctionOnSet(f, s)
               noC == SumFunctionOnSet(f, s \ {c})
               noY == SumFunctionOnSet(f, s \ {y})
               neither == SumFunctionOnSet(f, (s \ {y}) \ {c})
    <3>1. whole = f[c] + noC /\ noC = f[y] + neither /\ noY = f[c] + neither
      BY <2>6, <2>8, <2>9
    <3>2. noY \in Int /\ neither \in Int /\ f[c] \in Int /\ f[y] \in Int
      BY <2>10
    <3>3. Splits(s, y) <=> whole = f[y] + noY
      OBVIOUS
    <3> HIDE DEF Splits, whole, noC, noY, neither
    <3> QED BY <3>1, <3>2, <3>3
  <2> QED BY <2>2, <2>11
<1> QED BY <1>1, <1>2

\* One more element adds its value.
LEMMA SumWith ==
    ASSUME NEW S, IsFiniteSet(S), NEW f, \A y \in S : f[y] \in Int, NEW x, x \notin S, f[x] \in Int
    PROVE  SumFunctionOnSet(f, S \cup {x}) = f[x] + SumFunctionOnSet(f, S)
<1>1. IsFiniteSet(S \cup {x})
  BY FS_AddElement
<1>2. (S \cup {x}) \ {x} = S
  OBVIOUS
<1>3. \A y \in S \cup {x} : f[y] \in Int
  OBVIOUS
<1> QED BY <1>1, <1>2, <1>3, SumWithout

\* A sum depends on the values at the elements, and grows with them.
LEMMA SumOrdered ==
    ASSUME NEW S, IsFiniteSet(S), NEW f, NEW g, \A x \in S : f[x] \in Int /\ g[x] \in Int /\ f[x] <= g[x]
    PROVE  SumFunctionOnSet(f, S) <= SumFunctionOnSet(g, S)
<1> DEFINE Bad == {s \in SUBSET S : ~(SumFunctionOnSet(f, s) <= SumFunctionOnSet(g, s))}
<1>1. CASE Bad = {}
  BY <1>1
<1>2. CASE Bad # {}
  <2>1. PICK s \in Bad : \A r \in Bad : r \subseteq s => r = s
    <3>1. Bad \in SUBSET SUBSET S /\ Bad # {}
      BY <1>2
    <3> HIDE DEF Bad
    <3> QED BY <3>1, SmallestSubset
  <2> DEFINE c == Picked(s)
             t == s \ {c}
  <2>2. s # {} /\ s \in SUBSET S
    <3>1. SumFunctionOnSet(f, {}) <= SumFunctionOnSet(g, {})
      BY SumEmpty
    <3> QED BY <3>1
  <2>3. c \in s /\ t \in SUBSET S /\ c \in S /\ t # s /\ t \subseteq s
    BY <2>2, PickedIn
  <2>4. SumFunctionOnSet(f, t) <= SumFunctionOnSet(g, t)
    BY <2>1, <2>3
  <2>5. SumFunctionOnSet(f, t) \in Int /\ SumFunctionOnSet(g, t) \in Int
    BY <2>3, FS_Subset, SumInteger
  <2>6. SumFunctionOnSet(f, s) = f[c] + SumFunctionOnSet(f, t)
    BY <2>2, SumPicked, FS_Subset
  <2>7. SumFunctionOnSet(g, s) = g[c] + SumFunctionOnSet(g, t)
    BY <2>2, SumPicked, FS_Subset
  <2>8. SumFunctionOnSet(f, s) <= SumFunctionOnSet(g, s)
    <3> HIDE DEF c, t, Bad
    <3> QED BY <2>3, <2>4, <2>5, <2>6, <2>7
  <2> QED BY <2>8
<1> QED BY <1>1, <1>2

\* The sum depends on the values alone.
LEMMA SumSame ==
    ASSUME NEW S, IsFiniteSet(S), NEW f, NEW g, \A x \in S : f[x] \in Int /\ f[x] = g[x]
    PROVE  SumFunctionOnSet(f, S) = SumFunctionOnSet(g, S)
<1>1. SumFunctionOnSet(f, S) <= SumFunctionOnSet(g, S) /\ SumFunctionOnSet(g, S) <= SumFunctionOnSet(f, S)
  BY SumOrdered
<1>2. SumFunctionOnSet(f, S) \in Int /\ SumFunctionOnSet(g, S) \in Int
  BY SumInteger
<1> QED BY <1>1, <1>2

\* Of what is not negative, a part amounts to no more than the whole.
LEMMA SumWithin ==
    ASSUME NEW S, IsFiniteSet(S), NEW f, \A x \in S : f[x] \in Nat, NEW T \in SUBSET S
    PROVE  SumFunctionOnSet(f, T) \in Nat /\ SumFunctionOnSet(f, T) <= SumFunctionOnSet(f, S)
<1>1. \A s \in SUBSET S : SumFunctionOnSet(f, s) \in Nat
  <2> SUFFICES ASSUME NEW s \in SUBSET S PROVE SumFunctionOnSet(f, s) \in Nat
    OBVIOUS
  <2> DEFINE z == [x \in S |-> 0]
             NotZero == {r \in SUBSET s : SumFunctionOnSet(z, r) # 0}
  <2>1. IsFiniteSet(s) /\ SumFunctionOnSet(f, s) \in Int
    BY FS_Subset, SumInteger
  <2>2. NotZero = {}
    <3> SUFFICES ASSUME NotZero # {} PROVE FALSE
      OBVIOUS
    <3>1. PICK r \in NotZero : \A q \in NotZero : q \subseteq r => q = r
      <4>1. NotZero \in SUBSET SUBSET s
        OBVIOUS
      <4> HIDE DEF NotZero
      <4> QED BY <4>1, <2>1, SmallestSubset
    <3>2. r # {} /\ r \in SUBSET s /\ IsFiniteSet(r)
      <4>1. r \in SUBSET s /\ r # {}
        BY SumEmpty
      <4> QED BY <4>1, <2>1, FS_Subset
    <3>3. Picked(r) \in r /\ SumFunctionOnSet(z, r \ {Picked(r)}) = 0
      BY <3>1, <3>2, PickedIn
    <3>4. SumFunctionOnSet(z, r) = z[Picked(r)] + SumFunctionOnSet(z, r \ {Picked(r)})
      BY <3>2, SumPicked
    <3>5. z[Picked(r)] = 0
      BY <3>2, <3>3
    <3> QED BY <3>1, <3>3, <3>4, <3>5
  <2>3. SumFunctionOnSet(z, s) = 0
    BY <2>2
  <2>4. SumFunctionOnSet(z, s) <= SumFunctionOnSet(f, s)
    <3>1. \A x \in s : z[x] \in Int /\ f[x] \in Int /\ z[x] <= f[x]
      OBVIOUS
    <3> HIDE DEF z, NotZero
    <3> QED BY <3>1, <2>1, SumOrdered
  <2> HIDE DEF z, NotZero
  <2> QED BY <2>1, <2>3, <2>4
<1> DEFINE Bad == {s \in SUBSET S : T \subseteq s /\ ~(SumFunctionOnSet(f, T) <= SumFunctionOnSet(f, s))}
<1>2. CASE Bad = {}
  BY <1>1, <1>2
<1>3. CASE Bad # {}
  <2>1. PICK s \in Bad : \A r \in Bad : r \subseteq s => r = s
    <3>1. Bad \in SUBSET SUBSET S /\ Bad # {}
      BY <1>3
    <3> HIDE DEF Bad
    <3> QED BY <3>1, SmallestSubset
  <2>2. s \in SUBSET S /\ T \subseteq s /\ T # s
    BY <1>1
  <2>3. PICK x \in s : x \notin T
    BY <2>2
  <2>4. s \ {x} \in SUBSET S /\ T \subseteq s \ {x} /\ s \ {x} # s /\ x \in S
    BY <2>2, <2>3
  <2>5. SumFunctionOnSet(f, T) <= SumFunctionOnSet(f, s \ {x})
    BY <2>1, <2>4
  <2>6. SumFunctionOnSet(f, s) = f[x] + SumFunctionOnSet(f, s \ {x})
    BY <2>2, SumWithout, FS_Subset
  <2>7. SumFunctionOnSet(f, T) <= SumFunctionOnSet(f, s)
    <3>1. SumFunctionOnSet(f, s \ {x}) \in Nat /\ SumFunctionOnSet(f, T) \in Nat /\ f[x] \in Nat
      BY <1>1, <2>4
    <3> HIDE DEF Bad
    <3> QED BY <2>5, <2>6, <3>1
  <2> QED BY <2>7
<1> QED BY <1>2, <1>3

-----------------------------------------------------------------------------
(* Sums of several functions, and of several sets.                         *)

GrowsBy(F, f, S) ==
    F[{}] = 0 /\ \A s \in SUBSET S, x \in S : x \notin s => F[s \cup {x}] = f[x] + F[s]

\* What is nothing for no elements and grows by the value of each further element is the sum.
LEMMA SumUnique ==
    ASSUME NEW S, IsFiniteSet(S), NEW f, \A x \in S : f[x] \in Int, NEW F, GrowsBy(F, f, S)
    PROVE  \A s \in SUBSET S : F[s] = SumFunctionOnSet(f, s)
<1> DEFINE Bad == {s \in SUBSET S : F[s] # SumFunctionOnSet(f, s)}
<1>1. CASE Bad = {}
  BY <1>1
<1>2. CASE Bad # {}
  <2>1. PICK s \in Bad : \A r \in Bad : r \subseteq s => r = s
    <3>1. Bad \in SUBSET SUBSET S /\ Bad # {}
      BY <1>2
    <3> HIDE DEF Bad
    <3> QED BY <3>1, SmallestSubset
  <2>2. s # {} /\ s \in SUBSET S
    BY SumEmpty DEF GrowsBy
  <2> DEFINE c == Picked(s)
             t == s \ {c}
  <2>3. c \in s /\ t \in SUBSET S /\ c \in S /\ t # s /\ t \subseteq s /\ c \notin t /\ t \cup {c} = s
    BY <2>2, PickedIn
  <2>4. F[t] = SumFunctionOnSet(f, t)
    BY <2>1, <2>3
  <2>5. SumFunctionOnSet(f, s) = f[c] + SumFunctionOnSet(f, t)
    BY <2>2, SumPicked, FS_Subset
  <2>6. F[s] = f[c] + F[t]
    <3> HIDE DEF c, t, Bad
    <3> QED BY <2>3 DEF GrowsBy
  <2> QED BY <2>4, <2>5, <2>6
<1> QED BY <1>1, <1>2

\* The sum of a sum of two functions.
LEMMA SumPlus ==
    ASSUME NEW S, IsFiniteSet(S), NEW f, NEW g, \A x \in S : f[x] \in Int /\ g[x] \in Int
    PROVE  SumFunctionOnSet([x \in S |-> f[x] + g[x]], S) = SumFunctionOnSet(f, S) + SumFunctionOnSet(g, S)
<1> DEFINE h == [x \in S |-> f[x] + g[x]]
           F == [s \in SUBSET S |-> SumFunctionOnSet(f, s) + SumFunctionOnSet(g, s)]
<1>1. \A x \in S : h[x] \in Int /\ h[x] = f[x] + g[x]
  OBVIOUS
<1>2. F[{}] = 0
  BY SumEmpty
<1>3. ASSUME NEW s \in SUBSET S, NEW x \in S, x \notin s
      PROVE  F[s \cup {x}] = h[x] + F[s]
  <2>1. IsFiniteSet(s) /\ s \cup {x} \in SUBSET S
    BY FS_Subset
  <2>2. SumFunctionOnSet(f, s) \in Int /\ SumFunctionOnSet(g, s) \in Int
    BY <2>1, SumInteger
  <2>3. SumFunctionOnSet(f, s \cup {x}) = f[x] + SumFunctionOnSet(f, s)
    BY <2>1, <1>3, SumWith
  <2>4. SumFunctionOnSet(g, s \cup {x}) = g[x] + SumFunctionOnSet(g, s)
    BY <2>1, <1>3, SumWith
  <2>5. F[s \cup {x}] = SumFunctionOnSet(f, s \cup {x}) + SumFunctionOnSet(g, s \cup {x})
    BY <2>1
  <2>6. F[s] = SumFunctionOnSet(f, s) + SumFunctionOnSet(g, s)
    OBVIOUS
  <2>7. f[x] \in Int /\ g[x] \in Int /\ h[x] = f[x] + g[x]
    BY <1>1
  <2> HIDE DEF h, F
  <2> QED BY <2>2, <2>3, <2>4, <2>5, <2>6, <2>7
<1>4. F[S] = SumFunctionOnSet(f, S) + SumFunctionOnSet(g, S)
  OBVIOUS
<1> HIDE DEF h, F
<1>5. GrowsBy(F, h, S)
  BY <1>2, <1>3 DEF GrowsBy
<1>6. F[S] = SumFunctionOnSet(h, S)
  BY <1>1, <1>5, SumUnique
<1> QED BY <1>4, <1>6 DEF h

\* The sum of a multiple.
LEMMA SumTimes ==
    ASSUME NEW S, IsFiniteSet(S), NEW f, \A x \in S : f[x] \in Int, NEW k \in Int
    PROVE  SumFunctionOnSet([x \in S |-> k * f[x]], S) = k * SumFunctionOnSet(f, S)
<1> DEFINE h == [x \in S |-> k * f[x]]
           F == [s \in SUBSET S |-> k * SumFunctionOnSet(f, s)]
<1>1. \A x \in S : h[x] \in Int /\ h[x] = k * f[x]
  OBVIOUS
<1>2. F[{}] = 0
  BY SumEmpty
<1>3. ASSUME NEW s \in SUBSET S, NEW x \in S, x \notin s
      PROVE  F[s \cup {x}] = h[x] + F[s]
  <2>1. IsFiniteSet(s) /\ s \cup {x} \in SUBSET S
    BY FS_Subset
  <2>2. SumFunctionOnSet(f, s) \in Int
    BY <2>1, SumInteger
  <2>3. SumFunctionOnSet(f, s \cup {x}) = f[x] + SumFunctionOnSet(f, s)
    BY <2>1, <1>3, SumWith
  <2>4. F[s \cup {x}] = k * SumFunctionOnSet(f, s \cup {x})
    BY <2>1
  <2>5. F[s] = k * SumFunctionOnSet(f, s)
    OBVIOUS
  <2>6. f[x] \in Int /\ h[x] = k * f[x]
    BY <1>1
  <2>7. \A i, j \in Int : k * (i + j) = k * i + k * j
    OBVIOUS
  <2> HIDE DEF h, F
  <2> QED BY <2>2, <2>3, <2>4, <2>5, <2>6, <2>7
<1>4. F[S] = k * SumFunctionOnSet(f, S)
  OBVIOUS
<1> HIDE DEF h, F
<1>5. GrowsBy(F, h, S)
  BY <1>2, <1>3 DEF GrowsBy
<1>6. F[S] = SumFunctionOnSet(h, S)
  BY <1>1, <1>5, SumUnique
<1> QED BY <1>4, <1>6 DEF h

\* Nothing at every element is nothing altogether.
LEMMA SumZero ==
    ASSUME NEW S, IsFiniteSet(S), NEW f, \A x \in S : f[x] = 0
    PROVE  SumFunctionOnSet(f, S) = 0
<1> DEFINE F == [s \in SUBSET S |-> 0]
<1>1. F[{}] = 0 /\ F[S] = 0
  OBVIOUS
<1>2. \A s \in SUBSET S, x \in S : x \notin s => F[s \cup {x}] = f[x] + F[s]
  OBVIOUS
<1>3. \A x \in S : f[x] \in Int
  OBVIOUS
<1> HIDE DEF F
<1>4. GrowsBy(F, f, S)
  BY <1>1, <1>2 DEF GrowsBy
<1>5. F[S] = SumFunctionOnSet(f, S)
  BY <1>3, <1>4, SumUnique
<1> QED BY <1>1, <1>5

\* Two sets without a common element.
LEMMA SumUnion ==
    ASSUME NEW S, NEW T, IsFiniteSet(S), IsFiniteSet(T), S \cap T = {},
           NEW f, \A x \in S \cup T : f[x] \in Int
    PROVE  SumFunctionOnSet(f, S \cup T) = SumFunctionOnSet(f, S) + SumFunctionOnSet(f, T)
<1> DEFINE F == [s \in SUBSET T |-> SumFunctionOnSet(f, S \cup s) - SumFunctionOnSet(f, S)]
<1>1. SumFunctionOnSet(f, S) \in Int
  BY SumInteger
<1>2. \A s \in SUBSET T : IsFiniteSet(S \cup s) /\ SumFunctionOnSet(f, S \cup s) \in Int
  <2> SUFFICES ASSUME NEW s \in SUBSET T PROVE IsFiniteSet(S \cup s) /\ SumFunctionOnSet(f, S \cup s) \in Int
    OBVIOUS
  <2>1. IsFiniteSet(S \cup s)
    BY FS_Subset, FS_Union
  <2> QED BY <2>1, SumInteger
<1>3. F[{}] = 0
  <2>1. S \cup {} = S
    OBVIOUS
  <2>2. F[{}] = SumFunctionOnSet(f, S) - SumFunctionOnSet(f, S)
    BY <2>1
  <2> HIDE DEF F
  <2> QED BY <1>1, <2>2
<1>4. ASSUME NEW s \in SUBSET T, NEW x \in T, x \notin s
      PROVE  F[s \cup {x}] = f[x] + F[s]
  <2>1. S \cup (s \cup {x}) = (S \cup s) \cup {x} /\ x \notin S \cup s /\ s \cup {x} \in SUBSET T
    BY <1>4
  <2>2. SumFunctionOnSet(f, (S \cup s) \cup {x}) = f[x] + SumFunctionOnSet(f, S \cup s)
    <3>1. IsFiniteSet(S \cup s) /\ f[x] \in Int /\ \A y \in S \cup s : f[y] \in Int
      BY <1>2
    <3> HIDE DEF F
    <3> QED BY <2>1, <3>1, SumWith
  <2>3. F[s \cup {x}] = SumFunctionOnSet(f, (S \cup s) \cup {x}) - SumFunctionOnSet(f, S)
    BY <2>1
  <2>4. F[s] = SumFunctionOnSet(f, S \cup s) - SumFunctionOnSet(f, S)
    OBVIOUS
  <2>5. SumFunctionOnSet(f, S \cup s) \in Int /\ f[x] \in Int
    BY <1>2
  <2> HIDE DEF F
  <2> QED BY <1>1, <2>2, <2>3, <2>4, <2>5
<1>5. F[T] = SumFunctionOnSet(f, S \cup T) - SumFunctionOnSet(f, S)
  OBVIOUS
<1>6. SumFunctionOnSet(f, S \cup T) \in Int
  BY <1>2
<1> HIDE DEF F
<1>7. GrowsBy(F, f, T)
  BY <1>3, <1>4 DEF GrowsBy
<1>8. F[T] = SumFunctionOnSet(f, T)
  BY <1>7, SumUnique
<1> QED BY <1>1, <1>5, <1>6, <1>8

\* The only element with a value.
LEMMA SumOne ==
    ASSUME NEW S, IsFiniteSet(S), NEW f, \A y \in S : f[y] \in Int, NEW x \in S, \A y \in S : y # x => f[y] = 0
    PROVE  SumFunctionOnSet(f, S) = f[x]
<1>1. IsFiniteSet(S \ {x})
  BY FS_Subset
<1>2. SumFunctionOnSet(f, S \ {x}) = 0
  BY <1>1, SumZero
<1>3. SumFunctionOnSet(f, S) = f[x] + SumFunctionOnSet(f, S \ {x})
  BY SumWithout
<1> QED BY <1>2, <1>3

\* The sum over a part is that of a function without value elsewhere.
LEMMA SumWhere ==
    ASSUME NEW S, IsFiniteSet(S), NEW f, \A x \in S : f[x] \in Int, NEW T \in SUBSET S
    PROVE  SumFunctionOnSet([x \in S |-> IF x \in T THEN f[x] ELSE 0], S) = SumFunctionOnSet(f, T)
<1> DEFINE g == [x \in S |-> IF x \in T THEN f[x] ELSE 0]
           rest == S \ T
<1>1. IsFiniteSet(T) /\ IsFiniteSet(rest) /\ T \cap rest = {} /\ T \cup rest = S
  BY FS_Subset
<1>2. \A x \in T \cup rest : g[x] \in Int
  OBVIOUS
<1>3. (\A x \in T : g[x] \in Int /\ g[x] = f[x]) /\ (\A x \in rest : g[x] = 0)
  OBVIOUS
<1> HIDE DEF g, rest
<1>4. SumFunctionOnSet(g, T \cup rest) = SumFunctionOnSet(g, T) + SumFunctionOnSet(g, rest)
  BY <1>1, <1>2, SumUnion
<1>5. SumFunctionOnSet(g, rest) = 0
  BY <1>1, <1>3, SumZero
<1>6. SumFunctionOnSet(g, T) = SumFunctionOnSet(f, T)
  BY <1>1, <1>3, SumSame
<1>7. SumFunctionOnSet(f, T) \in Int
  BY <1>1, SumInteger
<1> QED BY <1>1, <1>4, <1>5, <1>6, <1>7 DEF g

\* The sum of a difference of two functions.
LEMMA SumMinus ==
    ASSUME NEW S, IsFiniteSet(S), NEW f, NEW g, \A x \in S : f[x] \in Int /\ g[x] \in Int
    PROVE  SumFunctionOnSet([x \in S |-> f[x] - g[x]], S) = SumFunctionOnSet(f, S) - SumFunctionOnSet(g, S)
<1> DEFINE less == [x \in S |-> (-1) * g[x]]
           h == [x \in S |-> f[x] - g[x]]
           i == [x \in S |-> f[x] + less[x]]
<1>1. \A x \in S : less[x] \in Int
  OBVIOUS
<1>2. \A x \in S : h[x] \in Int /\ h[x] = i[x]
  OBVIOUS
<1>3. SumFunctionOnSet(f, S) \in Int /\ SumFunctionOnSet(g, S) \in Int
  BY SumInteger
<1>4. SumFunctionOnSet(less, S) = (-1) * SumFunctionOnSet(g, S)
  BY SumTimes
<1> HIDE DEF h, less
<1>5. SumFunctionOnSet(i, S) = SumFunctionOnSet(f, S) + SumFunctionOnSet(less, S)
  BY <1>1, SumPlus
<1> HIDE DEF i
<1>6. SumFunctionOnSet(h, S) = SumFunctionOnSet(i, S)
  BY <1>2, SumSame
<1>7. SumFunctionOnSet(h, S) = SumFunctionOnSet(f, S) - SumFunctionOnSet(g, S)
  BY <1>3, <1>4, <1>5, <1>6
<1> QED BY <1>7 DEF h

\* The same value at every element.
LEMMA SumConstant ==
    ASSUME NEW S, IsFiniteSet(S), NEW k \in Int, NEW f, \A x \in S : f[x] = k
    PROVE  SumFunctionOnSet(f, S) = k * Cardinality(S)
<1> DEFINE F == [s \in SUBSET S |-> k * Cardinality(s)]
<1>1. \A x \in S : f[x] \in Int
  OBVIOUS
<1>2. F[{}] = 0
  BY FS_EmptySet
<1>3. ASSUME NEW s \in SUBSET S, NEW x \in S, x \notin s
      PROVE  F[s \cup {x}] = f[x] + F[s]
  <2>1. IsFiniteSet(s) /\ s \cup {x} \in SUBSET S
    BY FS_Subset
  <2>2. Cardinality(s \cup {x}) = Cardinality(s) + 1 /\ Cardinality(s) \in Nat
    BY <2>1, <1>3, FS_AddElement, FS_CardinalityType
  <2>3. F[s \cup {x}] = k * Cardinality(s \cup {x}) /\ F[s] = k * Cardinality(s)
    BY <2>1
  <2>4. \A n \in Nat : k * (n + 1) = k + k * n
    OBVIOUS
  <2> HIDE DEF F
  <2> QED BY <2>2, <2>3, <2>4
<1>4. F[S] = k * Cardinality(S)
  OBVIOUS
<1> HIDE DEF F
<1>5. GrowsBy(F, f, S)
  BY <1>2, <1>3 DEF GrowsBy
<1>6. F[S] = SumFunctionOnSet(f, S)
  BY <1>1, <1>5, SumUnique
<1> QED BY <1>4, <1>6

\* One value, wherever it is.
LEMMA SumAt ==
    ASSUME NEW S, IsFiniteSet(S), NEW x, NEW k \in Int, NEW f, \A y \in S : f[y] = IF x = y THEN k ELSE 0
    PROVE  SumFunctionOnSet(f, S) = IF x \in S THEN k ELSE 0
<1>1. CASE x \in S
  <2>1. (\A y \in S : f[y] \in Int) /\ f[x] = k /\ \A y \in S : y # x => f[y] = 0
    BY <1>1
  <2>2. SumFunctionOnSet(f, S) = f[x]
    BY <1>1, <2>1, SumOne
  <2> QED BY <1>1, <2>1, <2>2
<1>2. CASE x \notin S
  <2>1. \A y \in S : f[y] = 0
    BY <1>2
  <2>2. SumFunctionOnSet(f, S) = 0
    BY <2>1, SumZero
  <2> QED BY <1>2, <2>2
<1> QED BY <1>1, <1>2

\* Rows first or columns first.
LEMMA SumSwap ==
    ASSUME NEW A, NEW V, IsFiniteSet(A), IsFiniteSet(V), NEW f, \A a \in A, v \in V : f[a][v] \in Int
    PROVE  SumFunctionOnSet([a \in A |-> SumFunctionOnSet(f[a], V)], A)
             = SumFunctionOnSet([v \in V |-> SumFunctionOnSet([a \in A |-> f[a][v]], A)], V)
<1> DEFINE row == [a \in A |-> SumFunctionOnSet(f[a], V)]
           column == [v \in V |-> [a \in A |-> f[a][v]]]
           part(s) == [v \in V |-> SumFunctionOnSet(column[v], s)]
           F == [s \in SUBSET A |-> SumFunctionOnSet(part(s), V)]
<1>1. \A a \in A : row[a] = SumFunctionOnSet(f[a], V) /\ row[a] \in Int
  BY SumInteger
<1>2. \A v \in V, a \in A : column[v][a] = f[a][v] /\ column[v][a] \in Int
  OBVIOUS
<1>3. \A s \in SUBSET A, v \in V : part(s)[v] = SumFunctionOnSet(column[v], s)
  OBVIOUS
<1>4. \A s \in SUBSET A : IsFiniteSet(s)
  BY FS_Subset
<1>5. \A s \in SUBSET A : F[s] = SumFunctionOnSet(part(s), V)
  OBVIOUS
<1>6. \A s \in SUBSET A, v \in V : part(s)[v] \in Int
  <2> HIDE DEF row, column, part, F
  <2> SUFFICES ASSUME NEW s \in SUBSET A, NEW v \in V PROVE part(s)[v] \in Int
    OBVIOUS
  <2>1. \A a \in s : column[v][a] \in Int
    BY <1>2
  <2>2. SumFunctionOnSet(column[v], s) \in Int
    BY <2>1, <1>4, SumInteger
  <2> QED BY <2>2, <1>3
<1>7. F[{}] = 0
  <2>1. \A v \in V : part({})[v] = 0
    BY <1>3, SumEmpty
  <2>2. F[{}] = SumFunctionOnSet(part({}), V)
    BY <1>5
  <2> HIDE DEF part, F
  <2> QED BY <2>1, <2>2, SumZero
<1>8. ASSUME NEW s \in SUBSET A, NEW x \in A, x \notin s
      PROVE  F[s \cup {x}] = row[x] + F[s]
  <2> DEFINE t == s \cup {x}
             both == [v \in V |-> f[x][v] + part(s)[v]]
  <2>1. t \in SUBSET A
    OBVIOUS
  <2>2. \A v \in V : part(t)[v] = f[x][v] + part(s)[v]
    <3> HIDE DEF row, F
    <3> SUFFICES ASSUME NEW v \in V PROVE part(t)[v] = f[x][v] + part(s)[v]
      OBVIOUS
    <3>1. part(t)[v] = SumFunctionOnSet(column[v], s \cup {x}) /\ part(s)[v] = SumFunctionOnSet(column[v], s)
      OBVIOUS
    <3>2. \A a \in s : column[v][a] \in Int
      BY <1>2
    <3>3. column[v][x] \in Int /\ column[v][x] = f[x][v]
      BY <1>2
    <3> HIDE DEF column, part
    <3>4. SumFunctionOnSet(column[v], s \cup {x}) = column[v][x] + SumFunctionOnSet(column[v], s)
      BY <1>4, <1>8, <3>2, <3>3, SumWith
    <3> QED BY <3>1, <3>3, <3>4
  <2>3. \A v \in V : part(t)[v] \in Int /\ both[v] = f[x][v] + part(s)[v]
    BY <1>6, <2>1
  <2>4. \A v \in V : f[x][v] \in Int /\ part(s)[v] \in Int
    BY <1>6
  <2>5. F[t] = SumFunctionOnSet(part(t), V) /\ F[s] = SumFunctionOnSet(part(s), V)
    BY <1>5, <2>1
  <2> DEFINE old == part(s)
             new == part(t)
             r == f[x]
  <2>6. SumFunctionOnSet(new, V) = SumFunctionOnSet(both, V)
    <3>1. \A v \in V : new[v] \in Int /\ new[v] = both[v]
      BY <2>2, <2>3
    <3> HIDE DEF new, both, part, row, F
    <3> QED BY <3>1, SumSame
  <2>7. SumFunctionOnSet(both, V) = SumFunctionOnSet(r, V) + SumFunctionOnSet(old, V)
    <3>1. both = [v \in V |-> r[v] + old[v]] /\ \A v \in V : r[v] \in Int /\ old[v] \in Int
      BY <2>4
    <3> HIDE DEF old, new, both, part, row, F, r
    <3> QED BY <3>1, SumPlus
  <2> HIDE DEF part, F, both
  <2> QED BY <1>1, <2>5, <2>6, <2>7
<1>9. SumFunctionOnSet(part(A), V) = F[A]
  BY <1>5
<1>10. part(A) = [v \in V |-> SumFunctionOnSet([a \in A |-> f[a][v]], A)]
  OBVIOUS
<1> HIDE DEF row, column, part, F
<1>11. \A a \in A : row[a] \in Int
  BY <1>1
<1>12. GrowsBy(F, row, A)
  BY <1>7, <1>8 DEF GrowsBy
<1>13. F[A] = SumFunctionOnSet(row, A)
  BY <1>11, <1>12, SumUnique
<1> QED BY <1>9, <1>10, <1>13 DEF row

\* Class by class.
LEMMA SumByClass ==
    ASSUME NEW V, NEW C, IsFiniteSet(V), IsFiniteSet(C), NEW f, \A v \in V : f[v] \in Int, NEW k, \A v \in V : k[v] \in C
    PROVE  SumFunctionOnSet([c \in C |-> SumFunctionOnSet(f, {v \in V : k[v] = c})], C) = SumFunctionOnSet(f, V)
<1> DEFINE m == [c \in C |-> [v \in V |-> IF v \in {u \in V : k[u] = c} THEN f[v] ELSE 0]]
           byClass == [c \in C |-> SumFunctionOnSet(f, {v \in V : k[v] = c})]
           byRow == [c \in C |-> SumFunctionOnSet(m[c], V)]
           byColumn == [v \in V |-> SumFunctionOnSet([c \in C |-> m[c][v]], C)]
<1>1. \A c \in C, v \in V : m[c][v] \in Int
  OBVIOUS
<1>2. \A c \in C : byRow[c] = byClass[c] /\ byRow[c] \in Int
  <2> SUFFICES ASSUME NEW c \in C PROVE byRow[c] = byClass[c] /\ byRow[c] \in Int
    OBVIOUS
  <2> DEFINE T == {u \in V : k[u] = c}
  <2>1. T \in SUBSET V /\ m[c] = [v \in V |-> IF v \in T THEN f[v] ELSE 0]
    OBVIOUS
  <2>2. byRow[c] = SumFunctionOnSet(m[c], V) /\ byClass[c] = SumFunctionOnSet(f, T)
    OBVIOUS
  <2>3. SumFunctionOnSet(m[c], V) \in Int
    <3>1. \A v \in V : m[c][v] \in Int
      BY <1>1
    <3> HIDE DEF m, byRow, byClass, byColumn, T
    <3> QED BY <3>1, SumInteger
  <2> HIDE DEF m, byRow, byClass, byColumn, T
  <2>4. SumFunctionOnSet([v \in V |-> IF v \in T THEN f[v] ELSE 0], V) = SumFunctionOnSet(f, T)
    BY <2>1, SumWhere
  <2> QED BY <2>1, <2>2, <2>3, <2>4
<1>3. \A v \in V : byColumn[v] = f[v] /\ byColumn[v] \in Int
  <2> SUFFICES ASSUME NEW v \in V PROVE byColumn[v] = f[v]
    OBVIOUS
  <2> DEFINE g == [c \in C |-> m[c][v]]
  <2>1. byColumn[v] = SumFunctionOnSet(g, C)
    OBVIOUS
  <2>2. /\ \A c \in C : g[c] \in Int
        /\ k[v] \in C /\ g[k[v]] = f[v]
        /\ \A c \in C : c # k[v] => g[c] = 0
    OBVIOUS
  <2> HIDE DEF m, byRow, byClass, byColumn, g
  <2>3. SumFunctionOnSet(g, C) = g[k[v]]
    BY <2>2, SumOne
  <2> QED BY <2>1, <2>2, <2>3
<1> HIDE DEF m, byRow, byClass, byColumn
<1>4. SumFunctionOnSet(byRow, C) = SumFunctionOnSet(byColumn, V)
  BY <1>1, SumSwap DEF byRow, byColumn
<1>5. SumFunctionOnSet(byRow, C) = SumFunctionOnSet(byClass, C)
  BY <1>2, SumSame
<1>6. SumFunctionOnSet(byColumn, V) = SumFunctionOnSet(f, V)
  BY <1>3, SumSame
<1> QED BY <1>4, <1>5, <1>6 DEF byClass

-----------------------------------------------------------------------------
(* The same of SumFunction, which adds all values of a function.           *)

\* The sum of the values at a part of the domain.
LEMMA SumOfPart ==
    ASSUME NEW S, IsFiniteSet(S), NEW f \in [S -> Int], NEW T \in SUBSET S
    PROVE  SumFunction([x \in T |-> f[x]]) = SumFunctionOnSet(f, T)
<1> DEFINE g == [x \in T |-> f[x]]
<1>1. SumFunction(g) = SumFunctionOnSet(g, T)
  BY DEF SumFunction
<1>2. IsFiniteSet(T) /\ \A x \in T : g[x] \in Int /\ g[x] = f[x]
  BY FS_Subset
<1> HIDE DEF g
<1>3. SumFunctionOnSet(g, T) = SumFunctionOnSet(f, T)
  BY <1>2, SumSame
<1> QED BY <1>1, <1>3 DEF g

\* One value, and the sum of the others.
LEMMA SumOfOthers ==
    ASSUME NEW S, IsFiniteSet(S), NEW f \in [S -> Int], NEW x \in S
    PROVE  SumFunction(f) = f[x] + SumFunction([y \in S \ {x} |-> f[y]])
<1>1. SumFunction(f) = SumFunctionOnSet(f, S)
  BY DEF SumFunction
<1>2. SumFunctionOnSet(f, S) = f[x] + SumFunctionOnSet(f, S \ {x})
  BY SumWithout
<1>3. S \ {x} \in SUBSET S
  OBVIOUS
<1> QED BY <1>1, <1>2, <1>3, SumOfPart

\* Values that are not negative have such a sum.
LEMMA SumOfNaturals ==
    ASSUME NEW S, IsFiniteSet(S), NEW f \in [S -> Nat]
    PROVE  SumFunction(f) \in Nat
<1>1. SumFunctionOnSet(f, S) \in Nat
  BY SumWithin
<1> QED BY <1>1 DEF SumFunction

\* A part of what is not negative amounts to no more than the whole.
LEMMA SumOfFewer ==
    ASSUME NEW S, IsFiniteSet(S), NEW f \in [S -> Nat], NEW T \in SUBSET S
    PROVE  SumFunction([x \in T |-> f[x]]) <= SumFunction(f)
<1>1. f \in [S -> Int]
  OBVIOUS
<1>2. SumFunction([x \in T |-> f[x]]) = SumFunctionOnSet(f, T)
  BY <1>1, SumOfPart
<1>3. SumFunctionOnSet(f, T) <= SumFunctionOnSet(f, S)
  BY SumWithin
<1> QED BY <1>2, <1>3 DEF SumFunction
=============================================================================
