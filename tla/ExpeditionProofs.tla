-------------------------- MODULE ExpeditionProofs --------------------------
(***************************************************************************)
(* Proofs about Expedition.  As in IslandProofs, induction is over sets    *)
(* that are not operators: numbers, and the subsets of a finite set.       *)
(***************************************************************************)
EXTENDS Expedition, SequenceTheorems, FiniteSetTheorems, WellFoundedInduction, TLAPS

-----------------------------------------------------------------------------
(* Induction.                                                              *)

\* A set of numbers has a least element.
LEMMA LeastNumber ==
  ASSUME NEW T, T \subseteq Nat, T # {}
  PROVE  \E x \in T : \A y \in T : x <= y
<1> DEFINE R == OpToRel(<, Nat)
<1>1. \A x, y \in Nat : y < x => <<y, x>> \in R
  BY DEF OpToRel
<1>2. IsWellFoundedOn(R, Nat)
  BY NatLessThanWellFounded
<1> HIDE DEF R
<1>3. PICK x \in T : \A y \in T : ~ (<<y, x>> \in R)
  BY <1>2, WFMin
<1>4. \A y \in T : ~ (y < x)
  BY <1>1, <1>3
<1> QED BY <1>4

\* Induction: a set with zero and with every successor has every number.
LEMMA AllNumbers ==
  ASSUME NEW T, 0 \in T, \A n \in Nat : n \in T => n + 1 \in T
  PROVE  \A n \in Nat : n \in T
<1> DEFINE U == Nat \ T
<1>1. SUFFICES ASSUME U # {} PROVE FALSE
  OBVIOUS
<1>2. PICK x \in U : \A y \in U : x <= y
  <2>1. U \subseteq Nat
    OBVIOUS
  <2> HIDE DEF U
  <2> QED BY <1>1, <2>1, LeastNumber
<1>3. x # 0 /\ x - 1 \in Nat /\ ~ (x <= x - 1)
  OBVIOUS
<1>4. x - 1 \in T
  BY <1>2, <1>3
<1> QED BY <1>3, <1>4

\* ... and one with the empty set, and with every set that it has when an
\* element is taken out, has every part of a finite set.
LEMMA AllParts ==
  ASSUME NEW S, IsFiniteSet(S), NEW T, {} \in T,
         \A s \in SUBSET S : s # {} /\ (\A x \in s : s \ {x} \in T) => s \in T
  PROVE  \A s \in SUBSET S : s \in T
<1> DEFINE U == {n \in Nat : \A s \in SUBSET S : Cardinality(s) = n => s \in T}
<1>1. \A s \in SUBSET S : IsFiniteSet(s) /\ Cardinality(s) \in Nat
  BY FS_Subset, FS_CardinalityType
<1>2. 0 \in U
  <2>1. \A s \in SUBSET S : Cardinality(s) = 0 => s = {}
    BY <1>1, FS_EmptySet
  <2> QED BY <2>1
<1>3. ASSUME NEW n \in Nat, n \in U PROVE n + 1 \in U
  <2> SUFFICES ASSUME NEW s \in SUBSET S, Cardinality(s) = n + 1 PROVE s \in T
    BY <1>3
  <2>1. s # {}
    <3>1. Cardinality({}) = 0 /\ n + 1 # 0
      BY FS_EmptySet
    <3> QED BY <3>1
  <2>2. ASSUME NEW x \in s PROVE s \ {x} \in T
    <3>1. Cardinality(s \ {x}) = Cardinality(s) - 1 /\ s \ {x} \in SUBSET S
      BY <1>1, FS_RemoveElement
    <3> QED BY <1>3, <3>1
  <2> QED BY <2>1, <2>2
<1> HIDE DEF U
<1>4. \A n \in Nat : n \in U
  BY <1>2, <1>3, AllNumbers
<1> QED BY <1>1, <1>4 DEF U

-----------------------------------------------------------------------------
(* Sums.                                                                   *)

\* The function the sum of the library recurs with, and its equation
Picked(s) == CHOOSE x \in s : TRUE
Adds(f, g, S) ==
  g = [s \in SUBSET S |-> IF s = {} THEN 0 ELSE f[Picked(s)] + g[s \ {Picked(s)}]]

LEMMA SumIsAdded ==
  ASSUME NEW f, NEW S
  PROVE  SumFunctionOnSet(f, S) = (CHOOSE g : Adds(f, g, S))[S]
BY DEF SumFunctionOnSet, FoldFunctionOnSet, MapThenFoldSet, Adds, Picked

\* The equation holds of the sums themselves.
Steady(f, s) ==
  SumFunctionOnSet(f, s) =
    IF s = {} THEN 0 ELSE f[Picked(s)] + SumFunctionOnSet(f, s \ {Picked(s)})

LEMMA SumsAreSteady ==
  ASSUME NEW f, NEW S, IsFiniteSet(S)
  PROVE  \A s \in SUBSET S : Steady(f, s)
<1> DEFINE T == {s \in SUBSET S : \A u \in SUBSET s : Steady(f, u)}
<1>1. ASSUME NEW s \in SUBSET S, \A u \in SUBSET s : u # s => Steady(f, u)
      PROVE  Steady(f, s)
  <2> DEFINE sum(u) == SumFunctionOnSet(f, u)
             top == f[Picked(s)] + sum(s \ {Picked(s)})
             h == [u \in SUBSET s |-> IF u = {} THEN 0 ELSE IF u = s THEN top ELSE sum(u)]
             g == CHOOSE v : Adds(f, v, s)
  <2>1. \A u \in SUBSET s : u # {} =>
          Picked(u) \in u /\ u \ {Picked(u)} \in SUBSET s /\ u \ {Picked(u)} # s
    BY DEF Picked
  <2>2. \A u \in SUBSET s : u # s => sum(u) = h[u]
    BY <1>1 DEF Steady
  <2>3. \A u \in SUBSET s :
          h[u] = IF u = {} THEN 0 ELSE f[Picked(u)] + h[u \ {Picked(u)}]
    <3> SUFFICES ASSUME NEW u \in SUBSET s, u # {}
                 PROVE  h[u] = f[Picked(u)] + h[u \ {Picked(u)}]
      OBVIOUS
    <3>1. h[u \ {Picked(u)}] = sum(u \ {Picked(u)})
      BY <2>1, <2>2
    <3>2. CASE u = s
      BY <3>1, <3>2
    <3>3. CASE u # s
      <4>1. sum(u) = f[Picked(u)] + sum(u \ {Picked(u)})
        BY <1>1, <3>3 DEF Steady
      <4> QED BY <2>2, <3>1, <3>3, <4>1
    <3> QED BY <3>2, <3>3
  <2>4. Adds(f, h, s)
    <3>1. h = [u \in SUBSET s |-> IF u = {} THEN 0 ELSE f[Picked(u)] + h[u \ {Picked(u)}]]
      <4>1. h = [u \in SUBSET s |-> h[u]]
        OBVIOUS
      <4> HIDE DEF h
      <4> QED BY <2>3, <4>1
    <3> HIDE DEF h
    <3> QED BY <3>1 DEF Adds
  <2> HIDE DEF h
  <2>5. Adds(f, g, s)
    BY <2>4
  <2> HIDE DEF g
  <2>6. \A u \in SUBSET s : u \in {v \in SUBSET s : g[v] = h[v]}
    <3> DEFINE V == {v \in SUBSET s : g[v] = h[v]}
    <3>1. {} \in V
      BY <2>4, <2>5 DEF Adds
    <3>2. ASSUME NEW u \in SUBSET s, u # {}, \A x \in u : u \ {x} \in V
          PROVE  u \in V
      <4>1. g[u] = f[Picked(u)] + g[u \ {Picked(u)}]
        BY <2>5, <3>2 DEF Adds
      <4>2. h[u] = f[Picked(u)] + h[u \ {Picked(u)}]
        BY <2>4, <3>2 DEF Adds
      <4>3. g[u \ {Picked(u)}] = h[u \ {Picked(u)}]
        BY <2>1, <3>2
      <4> QED BY <4>1, <4>2, <4>3
    <3>3. IsFiniteSet(s)
      BY FS_Subset
    <3> HIDE DEF V
    <3>4. \A u \in SUBSET s : u \in V
      BY <3>1, <3>2, <3>3, AllParts
    <3> QED BY <3>4 DEF V
  <2>7. sum(s) = h[s]
    <3>1. sum(s) = g[s]
      BY SumIsAdded DEF g
    <3> QED BY <2>6, <3>1
  <2>8. h[s] = IF s = {} THEN 0 ELSE top
    BY DEF h
  <2> HIDE DEF top
  <2> QED BY <2>7, <2>8 DEF Steady, top
<1>2. {} \in T
  <2>1. Steady(f, {})
    BY <1>1
  <2> QED BY <2>1
<1>3. ASSUME NEW s \in SUBSET S, s # {}, \A x \in s : s \ {x} \in T
      PROVE  s \in T
  <2>1. ASSUME NEW u \in SUBSET s, u # s PROVE Steady(f, u)
    <3>1. PICK x \in s : x \notin u
      BY <2>1
    <3> QED BY <1>3, <3>1
  <2>2. Steady(f, s)
    BY <1>1, <2>1
  <2> QED BY <2>1, <2>2
<1> HIDE DEF T
<1>4. \A s \in SUBSET S : s \in T
  BY <1>2, <1>3, AllParts
<1> QED BY <1>4 DEF T

LEMMA SumOfNone ==
  ASSUME NEW f
  PROVE  SumFunctionOnSet(f, {}) = 0
<1>1. IsFiniteSet({})
  BY FS_EmptySet
<1>2. Steady(f, {})
  BY <1>1, SumsAreSteady
<1> QED BY <1>2 DEF Steady

\* The values that are summed up are integers.
Integral(f, S) == \A x \in S : f[x] \in Int

LEMMA SumType ==
  ASSUME NEW S, IsFiniteSet(S), NEW f, Integral(f, S)
  PROVE  \A s \in SUBSET S : SumFunctionOnSet(f, s) \in Int
<1> DEFINE T == {s \in SUBSET S : SumFunctionOnSet(f, s) \in Int}
<1>1. {} \in T
  BY SumOfNone
<1>2. ASSUME NEW s \in SUBSET S, s # {}, \A x \in s : s \ {x} \in T
      PROVE  s \in T
  <2>1. SumFunctionOnSet(f, s) = f[Picked(s)] + SumFunctionOnSet(f, s \ {Picked(s)})
    BY <1>2, SumsAreSteady DEF Steady
  <2>2. Picked(s) \in s
    BY <1>2 DEF Picked
  <2> QED BY <1>2, <2>1, <2>2 DEF Integral
<1> HIDE DEF T
<1>3. \A s \in SUBSET S : s \in T
  BY <1>1, <1>2, AllParts
<1> QED BY <1>3 DEF T

\* Any element may be taken out first.
LEMMA SumOfRest ==
  ASSUME NEW S, IsFiniteSet(S), NEW f, Integral(f, S), NEW x \in S
  PROVE  SumFunctionOnSet(f, S) = f[x] + SumFunctionOnSet(f, S \ {x})
<1> DEFINE sum(s) == SumFunctionOnSet(f, s)
           T == {s \in SUBSET S : \A y \in s : sum(s) = f[y] + sum(s \ {y})}
<1>1. {} \in T
  OBVIOUS
<1>2. ASSUME NEW s \in SUBSET S, s # {}, \A y \in s : s \ {y} \in T
      PROVE  s \in T
  <2> SUFFICES ASSUME NEW y \in s PROVE sum(s) = f[y] + sum(s \ {y})
    OBVIOUS
  <2> DEFINE c == Picked(s)
             r == (s \ {c}) \ {y}
  <2>1. sum(s) = f[c] + sum(s \ {c}) /\ c \in s
    BY <1>2, SumsAreSteady DEF Steady, Picked
  <2>2. CASE y = c
    BY <2>1, <2>2
  <2>3. CASE y # c
    <3>1. sum(s \ {c}) = f[y] + sum(r)
      BY <1>2, <2>1, <2>3
    <3>2. (s \ {y}) \ {c} = r /\ c \in s \ {y}
      BY <2>1, <2>3
    <3>3. sum(s \ {y}) = f[c] + sum(r)
      BY <1>2, <3>2
    <3>4. sum(r) \in Int /\ f[c] \in Int /\ f[y] \in Int
      BY <2>1, SumType DEF Integral
    <3> HIDE DEF sum, c, r
    <3> QED BY <2>1, <3>1, <3>3, <3>4
  <2> QED BY <2>2, <2>3
<1> HIDE DEF T
<1>3. S \in T
  BY <1>1, <1>2, AllParts
<1> QED BY <1>3 DEF T

\* Only the values on the set matter.
LEMMA SameSums ==
  ASSUME NEW S, IsFiniteSet(S), NEW f, NEW g, \A x \in S : f[x] = g[x]
  PROVE  SumFunctionOnSet(f, S) = SumFunctionOnSet(g, S)
<1> DEFINE T == {s \in SUBSET S : SumFunctionOnSet(f, s) = SumFunctionOnSet(g, s)}
<1>1. {} \in T
  BY SumOfNone
<1>2. ASSUME NEW s \in SUBSET S, s # {}, \A x \in s : s \ {x} \in T
      PROVE  s \in T
  <2>1. Picked(s) \in s
    BY <1>2 DEF Picked
  <2>2. SumFunctionOnSet(f, s) = f[Picked(s)] + SumFunctionOnSet(f, s \ {Picked(s)})
    BY <1>2, SumsAreSteady DEF Steady
  <2>3. SumFunctionOnSet(g, s) = g[Picked(s)] + SumFunctionOnSet(g, s \ {Picked(s)})
    BY <1>2, SumsAreSteady DEF Steady
  <2>4. f[Picked(s)] = g[Picked(s)]
        /\ SumFunctionOnSet(f, s \ {Picked(s)}) = SumFunctionOnSet(g, s \ {Picked(s)})
    BY <1>2, <2>1
  <2> QED BY <2>2, <2>3, <2>4
<1> HIDE DEF T
<1>3. S \in T
  BY <1>1, <1>2, AllParts
<1> QED BY <1>3 DEF T

\* The sum of a function that differs in one place
LEMMA SumOfChanged ==
  ASSUME NEW S, IsFiniteSet(S), NEW f, Integral(f, S), NEW g, Integral(g, S),
         NEW x \in S, \A y \in S \ {x} : g[y] = f[y]
  PROVE  SumFunctionOnSet(g, S) = SumFunctionOnSet(f, S) - f[x] + g[x]
<1>1. SumFunctionOnSet(f, S) = f[x] + SumFunctionOnSet(f, S \ {x})
  BY SumOfRest
<1>2. SumFunctionOnSet(g, S) = g[x] + SumFunctionOnSet(g, S \ {x})
  BY SumOfRest
<1>3. SumFunctionOnSet(g, S \ {x}) = SumFunctionOnSet(f, S \ {x})
  BY SameSums, FS_Subset
<1>4. f[x] \in Int /\ g[x] \in Int /\ SumFunctionOnSet(f, S \ {x}) \in Int
  BY SumType DEF Integral
<1> QED BY <1>1, <1>2, <1>3, <1>4

-----------------------------------------------------------------------------
(* Recursion along the numbers.                                            *)

\* The first n values of a recursion
Runs(x, step, n, g) ==
  g[0] = x /\ \A k \in 1 .. n : g[k] = step[k][g[k - 1]]

\* A function with steps inside a set has a value there for every number.
LEMMA Iterates ==
  ASSUME NEW S, NEW x \in S, NEW step \in [Nat -> [S -> S]], NEW n \in Nat
  PROVE  \E g \in [0 .. n -> S] : Runs(x, step, n, g)
<1> DEFINE T == {m \in Nat : \E g \in [0 .. m -> S] : Runs(x, step, m, g)}
<1>1. 0 \in T
  <2>1. [k \in 0 .. 0 |-> x] \in [0 .. 0 -> S]
    OBVIOUS
  <2>2. Runs(x, step, 0, [k \in 0 .. 0 |-> x])
    BY DEF Runs
  <2> QED BY <2>1, <2>2
<1>2. ASSUME NEW m \in Nat, m \in T
      PROVE  m + 1 \in T
  <2>1. PICK g \in [0 .. m -> S] : Runs(x, step, m, g)
    BY <1>2
  <2> DEFINE h == [k \in 0 .. m + 1 |-> IF k = m + 1 THEN step[m + 1][g[m]] ELSE g[k]]
  <2>2. step[m + 1][g[m]] \in S
    <3>1. g[m] \in S /\ step[m + 1] \in [S -> S]
      OBVIOUS
    <3> QED BY <3>1
  <2>3. h \in [0 .. m + 1 -> S]
    <3>1. ASSUME NEW k \in 0 .. m + 1 PROVE h[k] \in S
      <4>1. CASE k = m + 1
        BY <2>2, <4>1
      <4>2. CASE k # m + 1
        BY <4>2
      <4> QED BY <4>1, <4>2
    <3> QED BY <3>1
  <2>4. Runs(x, step, m + 1, h)
    <3>1. h[0] = x
      BY <2>1 DEF Runs
    <3>2. ASSUME NEW k \in 1 .. m + 1 PROVE h[k] = step[k][h[k - 1]]
      <4>1. CASE k = m + 1
        BY <4>1
      <4>2. CASE k # m + 1
        <5>1. k \in 1 .. m /\ k - 1 \in 0 .. m
          BY <4>2
        <5>2. h[k] = g[k] /\ h[k - 1] = g[k - 1]
          BY <5>1
        <5> QED BY <2>1, <5>1, <5>2 DEF Runs
      <4> QED BY <4>1, <4>2
    <3> HIDE DEF h
    <3> QED BY <3>1, <3>2 DEF Runs
  <2> HIDE DEF h
  <2> QED BY <2>3, <2>4
<1> HIDE DEF T
<1>3. n \in T
  BY <1>1, <1>2, AllNumbers
<1> QED BY <1>3 DEF T

-----------------------------------------------------------------------------
(* Resource sets.                                                          *)

Bags == [Resources -> Nat]

LEMMA BagFacts ==
  ASSUME NEW x \in Bags
  PROVE  /\ x[0] \in Nat /\ x[1] \in Nat /\ x[2] \in Nat /\ x[3] \in Nat
         /\ Total(x) \in Nat /\ \A r \in Resources : x[r] \in Nat /\ x[r] <= Total(x)
BY DEF Bags, Resources, Total

LEMMA NothingFacts == Nothing \in Bags /\ Total(Nothing) = 0
BY DEF Nothing, Bags, Resources, Total

\* Min of two numbers
LEMMA MinOfTwo ==
  ASSUME NEW a \in Int, NEW b \in Int
  PROVE  /\ Min({a, b}) \in Int /\ Min({a, b}) <= a /\ Min({a, b}) <= b
         /\ Min({a, b}) = a \/ Min({a, b}) = b
<1>1. \E m \in {a, b} : \A y \in {a, b} : m <= y
  OBVIOUS
<1> QED BY <1>1 DEF Min

\* Some more or less of one kind
LEMMA OneKind ==
  ASSUME NEW x \in Bags, NEW r \in Resources, NEW n \in Int, x[r] + n >= 0
  PROVE  /\ [x EXCEPT ![r] = x[r] + n] \in Bags
         /\ Total([x EXCEPT ![r] = x[r] + n]) = Total(x) + n
<1> DEFINE y == [x EXCEPT ![r] = x[r] + n]
<1>1. y \in Bags
  BY DEF Bags
<1>2. /\ y[0] = IF r = 0 THEN x[0] + n ELSE x[0]
      /\ y[1] = IF r = 1 THEN x[1] + n ELSE x[1]
      /\ y[2] = IF r = 2 THEN x[2] + n ELSE x[2]
      /\ y[3] = IF r = 3 THEN x[3] + n ELSE x[3]
  BY DEF Bags, Resources
<1>3. r = 0 \/ r = 1 \/ r = 2 \/ r = 3
  BY DEF Resources
<1> HIDE DEF y
<1>4. Total(y) = Total(x) + n
  BY <1>2, <1>3, BagFacts DEF Total
<1> QED BY <1>1, <1>4 DEF y

LEMMA FullestFacts ==
  ASSUME NEW x \in [Resources -> Int]
  PROVE  Fullest(x) \in Resources /\ \A q \in Resources : x[q] <= x[Fullest(x)]
<1> DEFINE Best(r) == \A q \in Resources : x[q] < x[r] \/ (x[q] = x[r] /\ r <= q)
<1>1. x[0] \in Int /\ x[1] \in Int /\ x[2] \in Int /\ x[3] \in Int
  BY DEF Resources
<1>2. \A r \in Resources : Best(r) <=>
        /\ x[0] < x[r] \/ (x[0] = x[r] /\ r <= 0)
        /\ x[1] < x[r] \/ (x[1] = x[r] /\ r <= 1)
        /\ x[2] < x[r] \/ (x[2] = x[r] /\ r <= 2)
        /\ x[3] < x[r] \/ (x[3] = x[r] /\ r <= 3)
  BY DEF Resources
<1> HIDE DEF Best
<1>3. 0 \in Resources /\ 1 \in Resources /\ 2 \in Resources /\ 3 \in Resources
  BY DEF Resources
<1>4. Best(0) \/ Best(1) \/ Best(2) \/ Best(3)
  BY <1>1, <1>2, <1>3
<1>5. \E r \in Resources : Best(r)
  BY <1>3, <1>4
<1>6. Fullest(x) \in Resources /\ Best(Fullest(x))
  BY <1>5 DEF Fullest, Best
<1> QED BY <1>6 DEF Best

\* What is dropped one by one
Drops(x, n, v) ==
  v = [k \in 0 .. n |-> IF k = 0 THEN x
                     ELSE [v[k - 1] EXCEPT ![Fullest(v[k - 1])] = @ - 1]]

LEMMA DropFacts ==
  ASSUME NEW x \in Bags, NEW n \in Nat
  PROVE  DropExcess(x, n) \in Bags /\ Total(DropExcess(x, n)) <= n
<1> DEFINE e == IF Total(x) > n THEN Total(x) - n ELSE 0
           less(y) == [y EXCEPT ![Fullest(y)] = y[Fullest(y)] - 1]
           step == [k \in Nat |-> [y \in [Resources -> Int] |-> less(y)]]
           w == CHOOSE v : Drops(x, e, v)
<1>1. Total(x) \in Nat /\ e \in Nat /\ x \in [Resources -> Int]
  BY BagFacts DEF Bags
<1>2. step \in [Nat -> [[Resources -> Int] -> [Resources -> Int]]]
  BY FullestFacts
<1>3. PICK v \in [0 .. e -> [Resources -> Int]] : Runs(x, step, e, v)
  <2> HIDE DEF step, e
  <2> QED BY <1>1, <1>2, Iterates
<1>4. Drops(x, e, v)
  <2>1. ASSUME NEW k \in 0 .. e, k # 0
        PROVE  v[k] = less(v[k - 1])
    <3> HIDE DEF e, less
    <3>1. k \in 1 .. e /\ k - 1 \in 0 .. e /\ k \in Nat
      BY <1>1, <2>1
    <3>2. v[k] = step[k][v[k - 1]] /\ v[k - 1] \in [Resources -> Int]
      BY <1>3, <3>1 DEF Runs
    <3> QED BY <3>1, <3>2
  <2>2. v[0] = x
    BY <1>3 DEF Runs
  <2>3. v = [k \in 0 .. e |-> IF k = 0 THEN x ELSE less(v[k - 1])]
    <3> HIDE DEF less, e
    <3> QED BY <2>1, <2>2
  <2> QED BY <2>3 DEF Drops
<1>5. Drops(x, e, w)
  BY <1>4
<1>6. DropExcess(x, n) = w[e]
  BY DEF DropExcess, Drops
<1> HIDE DEF w, e
<1> DEFINE T == {k \in Nat : k <= e => w[k] \in Bags /\ Total(w[k]) = Total(x) - k}
<1>7. 0 \in T
  <2>1. w[0] = x
    BY <1>1, <1>5 DEF Drops
  <2> QED BY <1>1, <2>1
<1>8. ASSUME NEW k \in Nat, k \in T
      PROVE  k + 1 \in T
  <2> SUFFICES ASSUME k + 1 <= e
               PROVE  w[k + 1] \in Bags /\ Total(w[k + 1]) = Total(x) - (k + 1)
    OBVIOUS
  <2>1. k + 1 \in 0 .. e /\ k + 1 # 0 /\ (k + 1) - 1 = k /\ k <= e
    BY <1>1
  <2>2. w[k + 1] = less(w[k])
    BY <1>5, <2>1 DEF Drops
  <2> DEFINE y == w[k]
             f == Fullest(y)
  <2>3. y \in Bags /\ Total(y) = Total(x) - k
    BY <1>8, <2>1
  <2>4. Total(y) > 0
    BY <1>1, <2>3 DEF e
  <2> HIDE DEF y
  <2>5. f \in Resources /\ \A q \in Resources : y[q] <= y[f]
    BY <2>3, FullestFacts DEF Bags
  <2> HIDE DEF f
  <2>6. y[f] >= 1
    <3>1. y[0] <= y[f] /\ y[1] <= y[f] /\ y[2] <= y[f] /\ y[3] <= y[f] /\ y[f] \in Nat
      BY <2>3, <2>5 DEF Bags, Resources
    <3>2. y[0] \in Nat /\ y[1] \in Nat /\ y[2] \in Nat /\ y[3] \in Nat
      BY <2>3, BagFacts
    <3> QED BY <2>4, <3>1, <3>2 DEF Total
  <2>7. /\ [y EXCEPT ![f] = y[f] + (-1)] \in Bags
        /\ Total([y EXCEPT ![f] = y[f] + (-1)]) = Total(y) + (-1)
    <3>1. y[f] + (-1) >= 0
      BY <2>3, <2>5, <2>6 DEF Bags
    <3>2. f \in Resources /\ y \in Bags /\ -1 \in Int
      BY <2>3, <2>5
    <3> HIDE DEF w
    <3> QED BY ONLY <3>1, <3>2, OneKind
  <2>8. w[k + 1] = [y EXCEPT ![f] = y[f] + (-1)]
    <3>1. y[f] - 1 = y[f] + (-1)
      BY <2>3, <2>5 DEF Bags
    <3> QED BY <2>2, <3>1 DEF y, f
  <2> QED BY <1>1, <2>3, <2>7, <2>8
<1> HIDE DEF T
<1>9. e \in T
  BY <1>1, <1>7, <1>8, AllNumbers
<1>10. w[e] \in Bags /\ Total(w[e]) = Total(x) - e
  BY <1>1, <1>9 DEF T
<1> QED BY <1>1, <1>6, <1>10 DEF e

-----------------------------------------------------------------------------
(* A player.                                                               *)

Fit(pl) ==
  /\ pl \in Person
  /\ Total(pl.inv) <= CapacityOf(pl)
  /\ pl.exhausted <=> pl.health = 0

\* The player q is as whole as pl is, and has pl's victory points.
Alike(pl, q) == Fit(q) /\ q.vp = pl.vp

Loaded(pl, x) == [pl EXCEPT !.inv = x]
Feeling(pl, h, e) == [pl EXCEPT !.health = h, !.exhausted = e]

LEMMA PersonFacts ==
  ASSUME NEW pl \in Person
  PROVE  /\ pl.at \in Locations /\ pl.inv \in Bags /\ pl.artifacts \in SUBSET Artifacts
         /\ pl.health \in 0 .. MaxHealth /\ pl.exhausted \in BOOLEAN
         /\ pl.discountUsed \in BOOLEAN /\ pl.vp \in Nat
BY DEF Person, Bags

LEMMA LoadedFacts ==
  ASSUME NEW pl \in Person, NEW x \in Bags
  PROVE  /\ Loaded(pl, x) \in Person /\ Loaded(pl, x).inv = x
         /\ Loaded(pl, x).vp = pl.vp /\ Loaded(pl, x).health = pl.health
         /\ Loaded(pl, x).exhausted = pl.exhausted
         /\ CapacityOf(Loaded(pl, x)) = CapacityOf(pl)
BY DEF Person, Bags, Loaded, CapacityOf

LEMMA FeelingFacts ==
  ASSUME NEW pl \in Person, NEW h \in 0 .. MaxHealth, NEW e \in BOOLEAN
  PROVE  /\ Feeling(pl, h, e) \in Person /\ Feeling(pl, h, e).inv = pl.inv
         /\ Feeling(pl, h, e).vp = pl.vp /\ Feeling(pl, h, e).health = h
         /\ Feeling(pl, h, e).exhausted = e
         /\ Feeling(pl, h, e).artifacts = pl.artifacts
BY DEF Person, Feeling

LEMMA CapacityFacts ==
  ASSUME NEW pl
  PROVE  CapacityOf(pl) \in Nat /\ CapacityOf(pl) >= ExhaustedCapacity
BY ExpeditionAssumption DEF CapacityOf

LEMMA RoomFacts ==
  ASSUME NEW pl, Fit(pl)
  PROVE  Room(pl) \in Nat /\ Room(pl) = CapacityOf(pl) - Total(pl.inv)
<1>1. Total(pl.inv) \in Nat /\ CapacityOf(pl) \in Nat
  BY PersonFacts, BagFacts, CapacityFacts DEF Fit
<1> QED BY <1>1 DEF Fit, Room

\* Another load that is not too much
LEMMA Carries ==
  ASSUME NEW pl, Fit(pl), NEW x \in Bags, Total(x) <= CapacityOf(pl)
  PROVE  Alike(pl, Loaded(pl, x))
BY LoadedFacts DEF Fit, Alike

LEMMA DamageFits ==
  ASSUME NEW pl, Fit(pl), NEW n \in Nat
  PROVE  Alike(pl, Damage(pl, n))
<1> DEFINE h == pl.health - Min({n, pl.health})
           hurt == [pl EXCEPT !.health = h]
           x == DropExcess(pl.inv, ExhaustedCapacity)
<1>1. pl.health \in 0 .. MaxHealth /\ MaxHealth \in Nat /\ pl.exhausted \in BOOLEAN
  BY PersonFacts, ExpeditionAssumption DEF Fit
<1>2. h \in 0 .. MaxHealth /\ (pl.health = 0 => h = 0)
  <2>1. Min({n, pl.health}) \in Int /\ Min({n, pl.health}) <= pl.health
        /\ (Min({n, pl.health}) = n \/ Min({n, pl.health}) = pl.health)
    <3>1. n \in Int /\ pl.health \in Int
      BY <1>1
    <3> QED BY <3>1, MinOfTwo
  <2> QED BY <1>1, <2>1
<1> HIDE DEF h
<1>3. hurt = Feeling(pl, h, pl.exhausted)
  BY DEF Fit, Person, Feeling
<1>4. /\ hurt \in Person /\ hurt.inv = pl.inv /\ hurt.vp = pl.vp /\ hurt.health = h
      /\ hurt.exhausted = pl.exhausted /\ hurt.artifacts = pl.artifacts
  <2> HIDE DEF hurt
  <2> QED BY <1>1, <1>2, <1>3, FeelingFacts DEF Fit
<1>5. CapacityOf(hurt) = CapacityOf(pl)
  <2> HIDE DEF hurt
  <2> QED BY <1>4 DEF CapacityOf
<1>6. CASE h = 0 /\ ~ pl.exhausted
  <2>1. Damage(pl, n) = Exhaust(hurt)
    <3>1. Damage(pl, n) = IF hurt.health = 0 /\ ~ pl.exhausted THEN Exhaust(hurt) ELSE hurt
      BY DEF Damage, h
    <3> HIDE DEF hurt
    <3> QED BY <1>4, <1>6, <3>1
  <2>2. x \in Bags /\ Total(x) <= ExhaustedCapacity
    BY PersonFacts, DropFacts, ExpeditionAssumption DEF Fit
  <2>3. Exhaust(hurt) = Loaded(Feeling(pl, h, TRUE), x)
    <3> HIDE DEF x
    <3>1. DropExcess(hurt.inv, ExhaustedCapacity) = x
      BY <1>4 DEF x
    <3>2. Exhaust(hurt) = [hurt EXCEPT !.exhausted = TRUE, !.inv = x]
      <4> HIDE DEF hurt
      <4> QED BY <3>1 DEF Exhaust
    <3> QED BY <3>2 DEF Fit, Person, Feeling, Loaded
  <2> DEFINE q == Feeling(pl, h, TRUE)
  <2>4. q \in Person /\ q.vp = pl.vp /\ q.health = h /\ q.exhausted = TRUE
    BY <1>2, FeelingFacts DEF Fit
  <2> HIDE DEF q, x, hurt
  <2>5. Loaded(q, x) \in Person /\ Loaded(q, x).inv = x /\ Loaded(q, x).vp = pl.vp
        /\ Loaded(q, x).health = h /\ Loaded(q, x).exhausted = TRUE
    BY <2>2, <2>4, LoadedFacts
  <2>6. CapacityOf(Loaded(q, x)) = ExhaustedCapacity
    BY <2>5 DEF CapacityOf
  <2> QED BY <1>6, <2>1, <2>2, <2>3, <2>5, <2>6 DEF Alike, Fit, q
<1>7. CASE ~ (h = 0 /\ ~ pl.exhausted)
  <2>1. Damage(pl, n) = hurt
    <3>1. Damage(pl, n) = IF hurt.health = 0 /\ ~ pl.exhausted THEN Exhaust(hurt) ELSE hurt
      BY DEF Damage, h
    <3> HIDE DEF hurt
    <3> QED BY <1>4, <1>7, <3>1
  <2> HIDE DEF hurt
  <2>2. pl.exhausted <=> h = 0
    BY <1>1, <1>2, <1>7 DEF Fit
  <2> QED BY <1>4, <1>5, <2>1, <2>2 DEF Alike, Fit
<1> QED BY <1>6, <1>7

LEMMA HealFits ==
  ASSUME NEW pl, Fit(pl), NEW n \in Nat, n > 0
  PROVE  Alike(pl, Heal(pl, n))
<1> DEFINE h == Min({pl.health + n, MaxHealth})
<1>1. pl.health \in 0 .. MaxHealth /\ MaxHealth \in Nat \ {0}
  BY PersonFacts, ExpeditionAssumption DEF Fit
<1>2. h \in 1 .. MaxHealth
  <2>1. pl.health + n \in Int /\ MaxHealth \in Int /\ pl.health + n >= 1 /\ MaxHealth >= 1
    BY <1>1
  <2>2. h \in Int /\ h <= MaxHealth /\ (h = pl.health + n \/ h = MaxHealth)
    BY <2>1, MinOfTwo
  <2> QED BY <2>1, <2>2
<1>3. CASE pl.health >= MaxHealth
  BY <1>3 DEF Heal, Alike
<1>4. CASE ~ (pl.health >= MaxHealth)
  <2> DEFINE q == Feeling(pl, h, FALSE)
  <2>1. Heal(pl, n) = q
    <3> HIDE DEF h
    <3> QED BY <1>4 DEF Heal, Feeling, h
  <2>2. q \in Person /\ q.inv = pl.inv /\ q.vp = pl.vp /\ q.health = h
        /\ q.exhausted = FALSE /\ q.artifacts = pl.artifacts
    <3> HIDE DEF h
    <3>1. h \in 0 .. MaxHealth /\ FALSE \in BOOLEAN
      BY <1>1, <1>2
    <3> QED BY <3>1, FeelingFacts DEF Fit
  <2> HIDE DEF q, h
  <2>3. CapacityOf(q) \in Nat /\ CapacityOf(pl) <= CapacityOf(q)
    BY <2>2, ExpeditionAssumption DEF CapacityOf
  <2>4. Total(q.inv) <= CapacityOf(q)
    <3>1. Total(pl.inv) \in Nat /\ CapacityOf(pl) \in Nat
      BY PersonFacts, BagFacts, CapacityFacts DEF Fit
    <3> QED BY <2>2, <2>3, <3>1 DEF Fit
  <2>5. h # 0
    BY <1>2
  <2> QED BY <2>1, <2>2, <2>4, <2>5 DEF Alike, Fit
<1> QED BY <1>3, <1>4

LEMMA GrantFits ==
  ASSUME NEW pl, Fit(pl), NEW r \in Resources, NEW n \in Nat
  PROVE  Alike(pl, Grant(pl, r, n))
<1> DEFINE m == Min({n, Room(pl)})
           x == [pl.inv EXCEPT ![r] = pl.inv[r] + m]
<1>1. pl.inv \in Bags /\ Total(pl.inv) \in Nat /\ CapacityOf(pl) \in Nat
  BY PersonFacts, BagFacts, CapacityFacts DEF Fit
<1>2. m \in Nat /\ m <= Room(pl)
  <2>1. n \in Int /\ Room(pl) \in Nat
    BY RoomFacts
  <2>2. m \in Int /\ m <= Room(pl) /\ (m = n \/ m = Room(pl))
    BY <2>1, MinOfTwo
  <2> QED BY <2>1, <2>2
<1>3. Grant(pl, r, n) = Loaded(pl, x)
  BY DEF Grant, Loaded
<1> HIDE DEF m
<1>4. x \in Bags /\ Total(x) = Total(pl.inv) + m
  <2>1. pl.inv[r] \in Nat
    BY <1>1 DEF Bags
  <2>2. m \in Int /\ pl.inv[r] + m >= 0
    BY <1>2, <2>1
  <2> QED BY <1>1, <2>2, OneKind
<1> HIDE DEF x
<1>5. Total(x) <= CapacityOf(pl)
  BY <1>1, <1>2, <1>4, RoomFacts
<1> QED BY <1>3, <1>4, <1>5, Carries

LEMMA PayFits ==
  ASSUME NEW pl, Fit(pl), NEW r \in Resources, NEW n \in Nat
  PROVE  Alike(pl, Pay(pl, r, n))
<1> DEFINE m == Min({n, pl.inv[r]})
           x == [pl.inv EXCEPT ![r] = pl.inv[r] + (-m)]
<1>1. pl.inv \in Bags /\ Total(pl.inv) \in Nat /\ CapacityOf(pl) \in Nat /\ pl.inv[r] \in Nat
  BY PersonFacts, BagFacts, CapacityFacts DEF Fit
<1>2. m \in Nat /\ m <= pl.inv[r]
  <2>1. n \in Int /\ pl.inv[r] \in Int
    BY <1>1
  <2>2. m \in Int /\ m <= pl.inv[r] /\ (m = n \/ m = pl.inv[r])
    BY <2>1, MinOfTwo
  <2> QED BY <1>1, <2>2
<1>3. Pay(pl, r, n) = Loaded(pl, x)
  <2> HIDE DEF m
  <2>1. pl.inv[r] - m = pl.inv[r] + (-m)
    BY <1>1, <1>2
  <2> QED BY <2>1 DEF Pay, Loaded, m
<1> HIDE DEF m
<1>4. x \in Bags /\ Total(x) = Total(pl.inv) + (-m)
  <2>1. -m \in Int /\ pl.inv[r] + (-m) >= 0
    BY <1>1, <1>2
  <2> QED BY <1>1, <2>1, OneKind
<1> HIDE DEF x
<1>5. Total(x) <= CapacityOf(pl)
  BY <1>1, <1>2, <1>4 DEF Fit
<1> QED BY <1>3, <1>4, <1>5, Carries

LEMMA PrizeFits ==
  ASSUME NEW pl, Fit(pl), NEW prize \in SUBSET Artifacts
  PROVE  Alike(pl, [pl EXCEPT !.artifacts = @ \cup prize])
<1> DEFINE q == [pl EXCEPT !.artifacts = @ \cup prize]
<1>1. q \in Person /\ q.inv = pl.inv /\ q.vp = pl.vp /\ q.health = pl.health
      /\ q.exhausted = pl.exhausted /\ q.artifacts = pl.artifacts \cup prize
  BY DEF Fit, Person
<1> HIDE DEF q
<1>2. CapacityOf(q) \in Nat /\ CapacityOf(pl) <= CapacityOf(q)
  BY <1>1, ExpeditionAssumption DEF CapacityOf
<1>3. Total(pl.inv) \in Nat /\ CapacityOf(pl) \in Nat
  BY PersonFacts, BagFacts, CapacityFacts DEF Fit
<1>4. Total(q.inv) <= CapacityOf(q)
  BY <1>1, <1>2, <1>3 DEF Fit
<1> QED BY <1>1, <1>4 DEF Alike, Fit, q

-----------------------------------------------------------------------------
(* Effects of cards.                                                       *)

\* What the content is sure to give an effect
Sound(e) ==
  e.amount \in Nat /\ e.res \in Resources /\ (e.op = "heal_all" => e.amount > 0)

LEMMA SuffersFits ==
  ASSUME NEW pl, Fit(pl), NEW e, Sound(e)
  PROVE  Alike(pl, Suffers(pl, e))
<1> USE DEF Sound
<1>1. CASE e.op = "heal_all"
  BY <1>1, HealFits DEF Suffers
<1>2. CASE e.op = "damage_all"
  BY <1>2, DamageFits DEF Suffers
<1>3. CASE e.op = "grant_all"
  BY <1>3, GrantFits DEF Suffers
<1>4. CASE e.op = "damage_at_tag" /\ Tag[pl.at] = e.tag
  BY <1>4, DamageFits DEF Suffers
<1>5. CASE e.op # "heal_all" /\ e.op # "damage_all" /\ e.op # "grant_all"
           /\ ~ (e.op = "damage_at_tag" /\ Tag[pl.at] = e.tag)
  <2>1. Suffers(pl, e) = pl
    BY <1>5 DEF Suffers
  <2> QED BY <2>1 DEF Alike
<1> QED BY <1>1, <1>2, <1>3, <1>4, <1>5

Stocks == [Resources -> 0 .. MaxStock]

LEMMA RestockedType ==
  ASSUME NEW l, NEW x \in Stocks, NEW n \in Nat
  PROVE  Restocked(l, x, n) \in Stocks
<1>1. ASSUME NEW r \in Resources PROVE Min({x[r] + n, MaxStock}) \in 0 .. MaxStock
  <2>1. x[r] \in 0 .. MaxStock /\ MaxStock \in Nat
    BY ExpeditionAssumption DEF Stocks
  <2>2. x[r] + n \in Int /\ MaxStock \in Int
    BY <2>1
  <2> DEFINE m == Min({x[r] + n, MaxStock})
  <2>3. m \in Int /\ m <= MaxStock /\ (m = x[r] + n \/ m = MaxStock)
    BY <2>2, MinOfTwo
  <2> HIDE DEF m
  <2> QED BY <2>1, <2>3 DEF m
<1>2. \A r \in Resources : x[r] \in 0 .. MaxStock
  BY DEF Stocks
<1> QED BY <1>1, <1>2 DEF Restocked, Stocks

LEMMA AlteredType ==
  ASSUME NEW l, NEW x \in Spot, NEW e, Sound(e)
  PROVE  Altered(l, x, e) \in Spot
<1>1. x.stock \in Stocks
  BY DEF Spot, Stocks
<1>2. Restocked(l, x.stock, e.amount) \in Stocks
  BY <1>1, RestockedType DEF Sound
<1>3. CASE e.op = "block_gather" /\ Tag[l] = e.tag
  BY <1>3 DEF Altered, Spot
<1>4. CASE e.op = "restock" /\ Tag[l] = e.tag
  <2>1. Altered(l, x, e) = [x EXCEPT !.stock = Restocked(l, x.stock, e.amount)]
    BY <1>4 DEF Altered
  <2> QED BY <1>2, <2>1 DEF Spot, Stocks
<1>5. CASE ~ (e.op = "block_gather" /\ Tag[l] = e.tag) /\ ~ (e.op = "restock" /\ Tag[l] = e.tag)
  BY <1>5 DEF Altered
<1> QED BY <1>3, <1>4, <1>5

\* Tables where everybody is whole and has the victory points v gives it
Tables(v) ==
  {t \in [player : [Players -> Person], place : [Locations -> Spot]] :
     \A p \in Players : Fit(t.player[p]) /\ t.player[p].vp = v[p]}

LEMMA PersonalFits ==
  ASSUME NEW pl, Fit(pl), NEW e, Sound(e), NEW prize \in SUBSET Artifacts,
         e.op \in {"gain_resource", "pay_resource", "damage", "gain_artifact"}
  PROVE  Alike(pl, Personal(pl, e, prize))
<1>1. CASE e.op = "gain_resource"
  BY <1>1, GrantFits DEF Personal, Sound
<1>2. CASE e.op = "pay_resource"
  BY <1>2, PayFits DEF Personal, Sound
<1>3. CASE e.op = "damage"
  BY <1>3, DamageFits DEF Personal, Sound
<1>4. CASE e.op = "gain_artifact"
  <2>1. Personal(pl, e, prize) = [pl EXCEPT !.artifacts = @ \cup prize]
    BY <1>4 DEF Personal
  <2> QED BY <2>1, PrizeFits
<1> QED BY <1>1, <1>2, <1>3, <1>4

LEMMA EffectKeeps ==
  ASSUME NEW v, NEW t \in Tables(v), NEW e, Sound(e),
         NEW p \in Players \cup {Nobody}, NEW prize \in SUBSET Artifacts
  PROVE  EffectOn(t, e, p, prize) \in Tables(v)
<1> DEFINE ops == {"gain_resource", "pay_resource", "damage", "gain_artifact"}
<1>1. /\ t \in [player : [Players -> Person], place : [Locations -> Spot]]
      /\ \A q \in Players : Fit(t.player[q]) /\ t.player[q].vp = v[q]
  BY DEF Tables
<1>2. CASE e.op \in ops /\ p = Nobody
  BY <1>2 DEF EffectOn
<1>3. CASE e.op \in ops /\ p # Nobody
  <2> DEFINE q == Personal(t.player[p], e, prize)
  <2>1. Fit(q) /\ q.vp = v[p] /\ q \in Person
    BY <1>1, <1>3, PersonalFits DEF Alike, Fit
  <2>2. EffectOn(t, e, p, prize) = [t EXCEPT !.player[p] = q]
    BY <1>3 DEF EffectOn
  <2> HIDE DEF q
  <2>3. EffectOn(t, e, p, prize) =
          [player |-> [t.player EXCEPT ![p] = q], place |-> t.place]
    BY <1>1, <2>2
  <2>4. [t.player EXCEPT ![p] = q] \in [Players -> Person]
    BY <1>1, <2>1
  <2>5. \A r \in Players : /\ Fit([t.player EXCEPT ![p] = q][r])
                           /\ [t.player EXCEPT ![p] = q][r].vp = v[r]
    BY <1>1, <2>1
  <2> QED BY <1>1, <2>3, <2>4, <2>5 DEF Tables
<1>4. CASE e.op \notin ops
  <2> DEFINE pp == [q \in Players |-> Suffers(t.player[q], e)]
             ll == [l \in Locations |-> Altered(l, t.place[l], e)]
  <2>1. EffectOn(t, e, p, prize) = [player |-> pp, place |-> ll]
    BY <1>4 DEF EffectOn, GlobalEffect
  <2>2. \A q \in Players : Alike(t.player[q], Suffers(t.player[q], e))
    BY <1>1, SuffersFits
  <2>3. \A q \in Players : Fit(pp[q]) /\ pp[q].vp = v[q] /\ pp[q] \in Person
    BY <1>1, <2>2 DEF Alike, Fit
  <2>4. \A l \in Locations : Altered(l, t.place[l], e) \in Spot
    BY <1>1, AlteredType
  <2>5. ll \in [Locations -> Spot]
    BY <2>4
  <2>6. pp = [q \in Players |-> pp[q]]
    OBVIOUS
  <2> HIDE DEF pp, ll
  <2>7. pp \in [Players -> Person]
    BY <2>3, <2>6
  <2> QED BY <2>1, <2>3, <2>5, <2>7 DEF Tables
<1> QED BY <1>2, <1>3, <1>4

\* The equation of the function Effects recurs with
Plays(t, effects, p, prize, g) ==
  g = [k \in 0 .. Len(effects) |->
         IF k = 0 THEN t ELSE EffectOn(g[k - 1], effects[k], p, prize)]

LEMMA EffectsKeep ==
  ASSUME NEW v, NEW t \in Tables(v), NEW effects, effects \in Seq(Range(effects)),
         \A i \in DOMAIN effects : Sound(effects[i]),
         NEW p \in Players \cup {Nobody}, NEW prize \in SUBSET Artifacts
  PROVE  Effects(t, effects, p, prize) \in Tables(v)
<1> DEFINE n == Len(effects)
           step == [k \in Nat |-> [u \in Tables(v) |->
                      IF k \in 1 .. n THEN EffectOn(u, effects[k], p, prize) ELSE u]]
           w == CHOOSE g : Plays(t, effects, p, prize, g)
<1>1. n \in Nat /\ DOMAIN effects = 1 .. n
  OBVIOUS
<1>2. step \in [Nat -> [Tables(v) -> Tables(v)]]
  <2>1. ASSUME NEW k \in 1 .. n, NEW u \in Tables(v)
        PROVE  EffectOn(u, effects[k], p, prize) \in Tables(v)
    <3>1. Sound(effects[k])
      BY <1>1
    <3> QED BY <3>1, EffectKeeps
  <2> HIDE DEF n
  <2> QED BY <2>1
<1> HIDE DEF n
<1>3. PICK g \in [0 .. n -> Tables(v)] : Runs(t, step, n, g)
  <2> HIDE DEF step
  <2> QED BY <1>1, <1>2, Iterates
<1>4. Plays(t, effects, p, prize, g)
  <2>1. ASSUME NEW k \in 0 .. n, k # 0
        PROVE  g[k] = EffectOn(g[k - 1], effects[k], p, prize)
    <3>1. k \in 1 .. n /\ k - 1 \in 0 .. n /\ k \in Nat
      BY <1>1, <2>1
    <3>2. g[k] = step[k][g[k - 1]] /\ g[k - 1] \in Tables(v)
      BY <1>3, <3>1 DEF Runs
    <3> QED BY <3>1, <3>2
  <2>2. g[0] = t
    BY <1>3 DEF Runs
  <2>3. g = [k \in 0 .. n |-> IF k = 0 THEN t ELSE EffectOn(g[k - 1], effects[k], p, prize)]
    BY <2>1, <2>2
  <2> QED BY <2>3 DEF Plays, n
<1>5. Plays(t, effects, p, prize, w)
  BY <1>4
<1>6. Effects(t, effects, p, prize) = w[n]
  BY DEF Effects, Plays, n
<1> HIDE DEF w, step
<1>7. w[0] = t /\ \A k \in 0 .. n : k # 0 => w[k] = EffectOn(w[k - 1], effects[k], p, prize)
  <2>1. 0 \in 0 .. n
    BY <1>1
  <2>2. w = [k \in 0 .. n |-> IF k = 0 THEN t ELSE EffectOn(w[k - 1], effects[k], p, prize)]
    BY <1>5 DEF Plays, n
  <2> QED BY <2>1, <2>2
<1> DEFINE T == {k \in Nat : k <= n => w[k] \in Tables(v)}
<1>8. 0 \in T
  BY <1>7
<1>9. ASSUME NEW k \in Nat, k \in T PROVE k + 1 \in T
  <2> SUFFICES ASSUME k + 1 <= n PROVE w[k + 1] \in Tables(v)
    OBVIOUS
  <2>1. k + 1 \in 0 .. n /\ k + 1 # 0 /\ (k + 1) - 1 = k /\ k <= n /\ k + 1 \in 1 .. n
    BY <1>1
  <2>2. w[k + 1] = EffectOn(w[k], effects[k + 1], p, prize)
    BY <1>7, <2>1
  <2>3. w[k] \in Tables(v) /\ Sound(effects[k + 1])
    BY <1>1, <1>9, <2>1
  <2> QED BY <2>2, <2>3, EffectKeeps
<1> HIDE DEF T
<1>10. n \in T
  BY <1>1, <1>8, <1>9, AllNumbers
<1> QED BY <1>1, <1>6, <1>10 DEF T

\* Cards and options are such sequences.
LEMMA CardFacts ==
  \A card \in EventCards \cup UNION MysteryCards :
    card \in Seq(Range(card)) /\ \A i \in DOMAIN card : Sound(card[i])
BY ExpeditionAssumption DEF Sound

-----------------------------------------------------------------------------
(* Steps that leave the lighthouse alone.                                  *)

LEMMA SumOnDomain ==
  ASSUME NEW f
  PROVE  SumFunction(f) = SumFunctionOnSet(f, DOMAIN f)
BY DEF SumFunction

Vps == [p \in Players |-> player[p].vp]

LEMMA WholeIsFit ==
  PlayersWhole <=>
    /\ player \in [Players -> Person] /\ place \in [Locations -> Spot]
    /\ progress \in Bags /\ repaired \in 0 .. Len(Cost)
    /\ \A p \in Players : Fit(player[p])
<1>1. ASSUME player \in [Players -> Person]
      PROVE  (\A p \in Players : Fit(player[p])) <=> InventoryFits /\ ExhaustedAtZero
  BY <1>1 DEF Fit, InventoryFits, ExhaustedAtZero
<1> QED BY <1>1 DEF PlayersWhole, TypeOK, Bags

LEMMA TableStep ==
  ASSUME IInv, [player |-> player', place |-> place'] \in Tables(Vps),
         UNCHANGED <<progress, given, repaired>>, PriceIsPaid', PendingOK'
  PROVE  IInv'
<1> DEFINE t == [player |-> player', place |-> place']
<1>1. /\ player' \in [Players -> Person] /\ place' \in [Locations -> Spot]
      /\ \A p \in Players : Fit(player'[p]) /\ player'[p].vp = Vps[p]
  <2>1. /\ t \in [player : [Players -> Person], place : [Locations -> Spot]]
        /\ \A p \in Players : Fit(t.player[p]) /\ t.player[p].vp = Vps[p]
    BY DEF Tables
  <2>2. t.player = player' /\ t.place = place'
    OBVIOUS
  <2> HIDE DEF t
  <2>3. t.player \in [Players -> Person] /\ t.place \in [Locations -> Spot]
    BY <2>1
  <2> QED BY <2>1, <2>2, <2>3
<1>2. \A p \in Players : player'[p].vp = player[p].vp
  BY <1>1 DEF Vps
<1>3. PlayersWhole'
  <2>1. progress \in Bags /\ repaired \in 0 .. Len(Cost)
    BY WholeIsFit DEF IInv
  <2>2. TypeOK'
    BY <1>1, <2>1 DEF TypeOK, Bags
  <2>3. InventoryFits' /\ ExhaustedAtZero'
    BY <1>1 DEF Fit, InventoryFits, ExhaustedAtZero
  <2> QED BY <2>2, <2>3 DEF PlayersWhole
<1>4. BuiltByContributions' /\ GivenOK'
  BY DEF IInv, BuiltByContributions, GivenOK
<1>5. PointsGivenOut'
  <2>1. AllVPGivenOut'
    <3>1. [p \in Players |-> player'[p].vp] = [p \in Players |-> player[p].vp]
      BY <1>2
    <3> QED BY <3>1 DEF IInv, PointsGivenOut, AllVPGivenOut
  <2>2. EveryoneGetsShare'
    BY <1>2 DEF IInv, PointsGivenOut, EveryoneGetsShare, FloorOf
  <2> QED BY <2>1, <2>2 DEF PointsGivenOut
<1> QED BY <1>3, <1>4, <1>5 DEF IInv

\* Only the player p changes, into somebody alike.
LEMMA OnePlayer ==
  ASSUME IInv, NEW p \in Players, NEW q, Alike(player[p], q),
         player' = [player EXCEPT ![p] = q], place' \in [Locations -> Spot]
  PROVE  [player |-> player', place |-> place'] \in Tables(Vps)
<1>1. player \in [Players -> Person] /\ \A r \in Players : Fit(player[r])
  BY WholeIsFit DEF IInv
<1>2. Fit(q) /\ q \in Person /\ q.vp = player[p].vp
  BY DEF Alike, Fit
<1>3. player' \in [Players -> Person]
  BY <1>1, <1>2
<1>4. \A r \in Players : player'[r] = IF r = p THEN q ELSE player[r]
  BY <1>1
<1>5. \A r \in Players : Fit(player'[r]) /\ player'[r].vp = Vps[r]
  BY <1>1, <1>2, <1>4 DEF Vps
<1> QED BY <1>3, <1>5 DEF Tables

\* While nobody has to choose, nothing is promised.
LEMMA NothingPending ==
  ASSUME pending' = NoChoice
  PROVE  PriceIsPaid' /\ PendingOK'
BY DEF PriceIsPaid, PendingOK, NoChoice

LEMMA MoveKeeps ==
  ASSUME IInv, NEW p \in Players, NEW l \in Locations, Move(p, l)
  PROVE  IInv'
<1> DEFINE q == [player[p] EXCEPT !.at = l]
<1>1. player \in [Players -> Person] /\ place \in [Locations -> Spot] /\ Fit(player[p])
  BY WholeIsFit DEF IInv
<1>2. q \in Person /\ q.inv = player[p].inv /\ q.health = player[p].health
      /\ q.exhausted = player[p].exhausted /\ q.artifacts = player[p].artifacts
      /\ q.vp = player[p].vp
  BY <1>1 DEF Fit, Person
<1>3. player' = [player EXCEPT ![p] = q] /\ place' = place
  BY DEF Move
<1> HIDE DEF q
<1>4. Alike(player[p], q)
  BY <1>1, <1>2 DEF Alike, Fit, CapacityOf
<1>5. [player |-> player', place |-> place'] \in Tables(Vps)
  BY <1>1, <1>3, <1>4, OnePlayer
<1> QED BY <1>5, TableStep, NothingPending DEF Move, MayAct

LEMMA RestKeeps ==
  ASSUME IInv, NEW p \in Players, Rest(p)
  PROVE  IInv'
<1>1. player \in [Players -> Person] /\ place \in [Locations -> Spot] /\ Fit(player[p])
  BY WholeIsFit DEF IInv
<1>2. Alike(player[p], Heal(player[p], RestHeal))
  BY <1>1, HealFits, ExpeditionAssumption
<1>3. player' = [player EXCEPT ![p] = Heal(player[p], RestHeal)] /\ place' = place
  BY DEF Rest
<1>4. [player |-> player', place |-> place'] \in Tables(Vps)
  BY <1>1, <1>2, <1>3, OnePlayer
<1> QED BY <1>4, TableStep, NothingPending DEF Rest, MayAct

LEMMA WoundKeeps ==
  ASSUME IInv, NEW p \in Players, Wound(p)
  PROVE  IInv'
<1>1. player \in [Players -> Person] /\ place \in [Locations -> Spot] /\ Fit(player[p])
  BY WholeIsFit DEF IInv
<1>2. Alike(player[p], Damage(player[p], MonsterDamage))
  BY <1>1, DamageFits, ExpeditionAssumption
<1>3. player' = [player EXCEPT ![p] = Damage(player[p], MonsterDamage)] /\ place' = place
  BY DEF Wound
<1>4. [player |-> player', place |-> place'] \in Tables(Vps)
  BY <1>1, <1>2, <1>3, OnePlayer
<1> QED BY <1>4, TableStep, NothingPending DEF Wound, MayAct

\* What a gathering brings
LEMMA GatherFacts ==
  ASSUME IInv, NEW p \in Players, NEW r \in Resources, NEW penalty \in Penalties
  PROVE  LET n == Min({GatherAmount(player[p], penalty),
                       place[player[p].at].stock[r], Room(player[p])})
         IN n \in Nat /\ n <= Room(player[p]) /\ n <= place[player[p].at].stock[r]
<1> DEFINE a == GatherAmount(player[p], penalty)
           b == place[player[p].at].stock[r]
           c == Room(player[p])
<1>1. player[p].at \in Locations /\ place \in [Locations -> Spot] /\ Fit(player[p])
  BY WholeIsFit, PersonFacts DEF IInv
<1>2. a \in Nat
  BY ExpeditionAssumption DEF GatherAmount
<1>3. b \in Nat
  <2>1. place[player[p].at].stock \in [Resources -> 0 .. MaxStock]
    BY <1>1 DEF Spot
  <2> QED BY <2>1, ExpeditionAssumption
<1>4. c \in Nat
  BY <1>1, RoomFacts
<1> HIDE DEF a, b, c
<1>5. \E m \in {a, b, c} : \A y \in {a, b, c} : m <= y
  BY <1>2, <1>3, <1>4
<1>6. Min({a, b, c}) \in {a, b, c} /\ \A y \in {a, b, c} : Min({a, b, c}) <= y
  BY <1>5 DEF Min
<1>7. Min({a, b, c}) \in Nat /\ Min({a, b, c}) <= c /\ Min({a, b, c}) <= b
  BY <1>2, <1>3, <1>4, <1>6
<1> QED BY <1>7 DEF a, b, c

LEMMA Gathered ==
  ASSUME IInv, NEW p \in Players, NEW r \in Resources, Gather(p, r)
  PROVE  \E n \in Nat : /\ n <= Room(player[p]) /\ n <= place[player[p].at].stock[r]
                       /\ player' = [player EXCEPT ![p].inv[r] = @ + n]
                       /\ place' = Taken(player[p].at, r, n)
<1> DEFINE here == player[p].at
<1>1. PICK penalty \in Penalties :
        LET n == Min({GatherAmount(player[p], penalty), place[here].stock[r], Room(player[p])})
        IN /\ player' = [player EXCEPT ![p].inv[r] = @ + n]
           /\ place' = Taken(here, r, n)
  BY DEF Gather
<1> DEFINE n == Min({GatherAmount(player[p], penalty), place[here].stock[r], Room(player[p])})
<1>2. n \in Nat /\ n <= Room(player[p]) /\ n <= place[here].stock[r]
  BY GatherFacts
<1>3. player' = [player EXCEPT ![p].inv[r] = @ + n] /\ place' = Taken(here, r, n)
  BY <1>1
<1> HIDE DEF n, here
<1> QED BY <1>2, <1>3 DEF here

LEMMA GatherKeeps ==
  ASSUME IInv, NEW p \in Players, NEW r \in Resources, Gather(p, r)
  PROVE  IInv'
<1> DEFINE here == player[p].at
<1>1. /\ player \in [Players -> Person] /\ place \in [Locations -> Spot] /\ Fit(player[p])
      /\ here \in Locations /\ player[p].inv \in Bags
  BY WholeIsFit, PersonFacts DEF IInv
<1>2. PICK n \in Nat : /\ n <= Room(player[p]) /\ n <= place[here].stock[r]
                       /\ player' = [player EXCEPT ![p].inv[r] = @ + n]
                       /\ place' = Taken(here, r, n)
  BY Gathered
<1> DEFINE x == [player[p].inv EXCEPT ![r] = player[p].inv[r] + n]
<1>3. player' = [player EXCEPT ![p] = Loaded(player[p], x)]
  BY <1>1, <1>2 DEF Loaded
<1>4. x \in Bags /\ Total(x) = Total(player[p].inv) + n
  <2>1. player[p].inv[r] \in Nat
    BY <1>1 DEF Bags
  <2>2. n \in Int /\ player[p].inv[r] + n >= 0
    BY <2>1
  <2> QED BY <1>1, <2>2, OneKind
<1> HIDE DEF x
<1>5. Alike(player[p], Loaded(player[p], x))
  <2>1. Total(player[p].inv) \in Nat /\ CapacityOf(player[p]) \in Nat
    BY <1>1, BagFacts, CapacityFacts
  <2>2. Total(x) <= CapacityOf(player[p])
    BY <1>1, <1>2, <1>4, <2>1, RoomFacts
  <2> QED BY <1>1, <1>4, <2>2, Carries
<1>6. place' \in [Locations -> Spot]
  <2> DEFINE s == place[here].stock
             y == [s EXCEPT ![r] = s[r] - n]
  <2>1. s \in Stocks /\ place[here] \in Spot /\ s[r] \in 0 .. MaxStock
    BY <1>1 DEF Spot, Stocks
  <2>2. s[r] - n \in 0 .. MaxStock
    <3>1. n <= s[r] /\ MaxStock \in Nat
      BY <1>2, ExpeditionAssumption
    <3> HIDE DEF s
    <3> QED BY <2>1, <3>1
  <2>3. y \in Stocks
    BY <2>1, <2>2 DEF Stocks
  <2>4. place' = [place EXCEPT ![here] = [place[here] EXCEPT !.stock = y]]
    BY <1>1, <1>2 DEF Taken
  <2> HIDE DEF y, s, here
  <2>5. [place[here] EXCEPT !.stock = y] \in Spot
    BY <2>1, <2>3 DEF Spot, Stocks
  <2> QED BY <1>1, <2>4, <2>5
<1>7. [player |-> player', place |-> place'] \in Tables(Vps)
  BY <1>1, <1>3, <1>5, <1>6, OnePlayer
<1> QED BY <1>7, TableStep, NothingPending DEF Gather, MayAct

LEMMA PartFacts ==
  ASSUME NEW x \in Bags, NEW y \in PartsOf(x)
  PROVE  y \in Bags
<1>1. PICK a \in 0 .. x[0], b \in 0 .. x[1], c \in 0 .. x[2], d \in 0 .. x[3] :
        y = [Nothing EXCEPT ![0] = a, ![1] = b, ![2] = c, ![3] = d]
  BY DEF PartsOf
<1>2. x[0] \in Nat /\ x[1] \in Nat /\ x[2] \in Nat /\ x[3] \in Nat
  BY BagFacts
<1>3. a \in Nat /\ b \in Nat /\ c \in Nat /\ d \in Nat
  BY <1>2
<1> QED BY <1>1, <1>3 DEF Nothing, Bags, Resources

LEMMA PlusFacts ==
  ASSUME NEW x \in Bags, NEW y \in Bags
  PROVE  Plus(x, y) \in Bags /\ Total(Plus(x, y)) = Total(x) + Total(y)
<1>1. /\ x[0] \in Nat /\ x[1] \in Nat /\ x[2] \in Nat /\ x[3] \in Nat
      /\ y[0] \in Nat /\ y[1] \in Nat /\ y[2] \in Nat /\ y[3] \in Nat
  BY BagFacts
<1>2. Plus(x, y) \in Bags
  BY DEF Plus, Bags
<1>3. Plus(x, y)[0] = x[0] + y[0] /\ Plus(x, y)[1] = x[1] + y[1]
      /\ Plus(x, y)[2] = x[2] + y[2] /\ Plus(x, y)[3] = x[3] + y[3]
  BY DEF Plus, Resources
<1> QED BY <1>1, <1>2, <1>3 DEF Total

LEMMA MinusFacts ==
  ASSUME NEW x \in Bags, NEW y \in Bags, Covers(x, y)
  PROVE  Minus(x, y) \in Bags /\ Total(Minus(x, y)) = Total(x) - Total(y)
<1>1. /\ x[0] \in Nat /\ x[1] \in Nat /\ x[2] \in Nat /\ x[3] \in Nat
      /\ y[0] \in Nat /\ y[1] \in Nat /\ y[2] \in Nat /\ y[3] \in Nat
  BY BagFacts
<1>2. Minus(x, y) \in Bags
  <2>1. \A r \in Resources : x[r] \in Nat /\ y[r] \in Nat /\ y[r] <= x[r]
    BY DEF Covers, Bags
  <2>2. \A r \in Resources : x[r] - y[r] \in Nat
    BY <2>1
  <2> QED BY <2>2 DEF Minus, Bags
<1>3. Minus(x, y)[0] = x[0] - y[0] /\ Minus(x, y)[1] = x[1] - y[1]
      /\ Minus(x, y)[2] = x[2] - y[2] /\ Minus(x, y)[3] = x[3] - y[3]
  BY DEF Minus, Resources
<1> QED BY <1>1, <1>2, <1>3 DEF Total

\* Whoever gives has less to carry, whoever is given has room.
LEMMA TradeKeeps ==
  ASSUME IInv, NEW p \in Players, NEW q \in Players,
         NEW gift \in PartsOf(player[p].inv), Trade(p, q, gift)
  PROVE  IInv'
<1> DEFINE x == Minus(player[p].inv, gift)
           y == Plus(player[q].inv, gift)
<1>1. /\ player \in [Players -> Person] /\ place \in [Locations -> Spot]
      /\ \A r \in Players : Fit(player[r])
      /\ player[p].inv \in Bags /\ player[q].inv \in Bags /\ gift \in Bags
  BY WholeIsFit, PersonFacts, PartFacts DEF IInv
<1>2. p # q /\ Covers(player[p].inv, gift) /\ Total(gift) <= Room(player[q])
  BY DEF Trade, HasRoom
<1>3. x \in Bags /\ y \in Bags /\ Total(x) = Total(player[p].inv) - Total(gift)
      /\ Total(y) = Total(player[q].inv) + Total(gift)
  BY <1>1, <1>2, PlusFacts, MinusFacts
<1>4. player' = [player EXCEPT ![p].inv = x, ![q].inv = y] /\ place' = place
  BY <1>1, <1>2 DEF Trade
<1> HIDE DEF x, y
<1>5. Alike(player[p], Loaded(player[p], x)) /\ Alike(player[q], Loaded(player[q], y))
  <2>1. /\ Total(player[p].inv) \in Nat /\ CapacityOf(player[p]) \in Nat
        /\ Total(player[q].inv) \in Nat /\ CapacityOf(player[q]) \in Nat
        /\ Total(gift) \in Nat
    BY <1>1, BagFacts, CapacityFacts
  <2>2. Room(player[q]) = CapacityOf(player[q]) - Total(player[q].inv)
    BY <1>1, RoomFacts
  <2>3. Total(player[p].inv) <= CapacityOf(player[p])
    BY <1>1 DEF Fit
  <2>4. Total(x) <= CapacityOf(player[p]) /\ Total(y) <= CapacityOf(player[q])
    BY <1>2, <1>3, <2>1, <2>2, <2>3
  <2> QED BY <1>1, <1>3, <2>4, Carries
<1>6. \A r \in Players : player'[r] = IF r = p THEN Loaded(player[p], x)
                                     ELSE IF r = q THEN Loaded(player[q], y)
                                     ELSE player[r]
  BY <1>1, <1>2, <1>4 DEF Loaded
<1>7. \A r \in Players : Alike(player[r], player'[r])
  BY <1>1, <1>5, <1>6 DEF Alike
<1>8. player' \in [Players -> Person]
  <2>1. \A r \in Players : player'[r] \in Person
    BY <1>7 DEF Alike, Fit
  <2>2. player' = [r \in Players |-> player'[r]]
    BY <1>1, <1>4
  <2> QED BY <2>1, <2>2
<1>9. [player |-> player', place |-> place'] \in Tables(Vps)
  BY <1>1, <1>4, <1>7, <1>8 DEF Tables, Alike, Vps
<1> QED BY <1>9, TableStep, NothingPending DEF Trade, MayAct

LEMMA InvestigateKeeps ==
  ASSUME IInv, NEW p \in Players, NEW card \in MysteryCards, Investigate(p, card)
  PROVE  IInv'
<1> DEFINE options == {o \in card : Affordable(player[p], o)}
<1>1. /\ player \in [Players -> Person] /\ place \in [Locations -> Spot]
      /\ \A r \in Players : Fit(player[r])
  BY WholeIsFit DEF IInv
<1>2. [player |-> player', place |-> place'] \in Tables(Vps)
  BY <1>1 DEF Investigate, Tables, Vps
<1>3. CASE pending' = NoChoice
  BY <1>2, <1>3, TableStep, NothingPending DEF Investigate
<1>4. CASE pending' = [player |-> p, options |-> options]
  <2>1. pending'.options = options /\ pending'.player = p /\ player' = player
    BY <1>4 DEF Investigate
  <2>2. PriceIsPaid'
    BY <2>1 DEF PriceIsPaid, Affordable
  <2>3. options \in SUBSET UNION MysteryCards
    OBVIOUS
  <2> HIDE DEF options
  <2>4. PendingOK'
    BY <1>4, <2>3 DEF PendingOK
  <2> QED BY <1>2, <2>2, <2>4, TableStep DEF Investigate
<1> QED BY <1>3, <1>4 DEF Investigate

LEMMA TableIsOne ==
  ASSUME IInv
  PROVE  Table \in Tables(Vps)
BY WholeIsFit DEF IInv, Table, Tables, Vps

LEMMA Laid ==
  ASSUME NEW v, NEW t \in Tables(v)
  PROVE  [player |-> t.player, place |-> t.place] = t
BY DEF Tables

LEMMA ChooseKeeps ==
  ASSUME IInv, NEW p \in Players, NEW o \in UNION MysteryCards, Choose(p, o)
  PROVE  IInv'
<1>1. PICK prize \in Prizes :
        LET t == Effects(Table, o, p, prize) IN player' = t.player /\ place' = t.place
  BY DEF Choose
<1> DEFINE t == Effects(Table, o, p, prize)
<1>2. player' = t.player /\ place' = t.place
  BY <1>1
<1>3. prize \in SUBSET Artifacts
  BY DEF Prizes, InDeck
<1>4. t \in Tables(Vps)
  BY <1>3, TableIsOne, CardFacts, EffectsKeep
<1> HIDE DEF t
<1>5. [player |-> player', place |-> place'] \in Tables(Vps)
  BY <1>2, <1>4, Laid
<1> QED BY <1>5, TableStep, NothingPending DEF Choose

LEMMA NewRoundKeeps ==
  ASSUME IInv, NEW card \in EventCards, NewRound(card)
  PROVE  IInv'
<1> DEFINE pp == [p \in Players |-> [player[p] EXCEPT !.discountUsed = FALSE]]
           ll == [l \in Locations |->
                    [stock |-> Restocked(l, place[l].stock, Regen), blocked |-> FALSE]]
           t == Effects([player |-> pp, place |-> ll], card, Nobody, {})
<1>1. player' = t.player /\ place' = t.place
  BY DEF NewRound
<1>2. /\ player \in [Players -> Person] /\ place \in [Locations -> Spot]
      /\ \A r \in Players : Fit(player[r])
  BY WholeIsFit DEF IInv
<1>3. \A p \in Players : Alike(player[p], pp[p])
  <2> SUFFICES ASSUME NEW p \in Players PROVE Alike(player[p], pp[p])
    OBVIOUS
  <2> DEFINE q == [player[p] EXCEPT !.discountUsed = FALSE]
  <2>1. /\ q \in Person /\ q.inv = player[p].inv /\ q.health = player[p].health
        /\ q.exhausted = player[p].exhausted /\ q.artifacts = player[p].artifacts
        /\ q.vp = player[p].vp
    BY <1>2 DEF Fit, Person
  <2>2. pp[p] = q
    OBVIOUS
  <2> HIDE DEF q, pp
  <2> QED BY <1>2, <2>1, <2>2 DEF Alike, Fit, CapacityOf
<1>4. ll \in [Locations -> Spot]
  <2>1. ASSUME NEW l \in Locations
        PROVE  [stock |-> Restocked(l, place[l].stock, Regen), blocked |-> FALSE] \in Spot
    <3>1. place[l].stock \in Stocks /\ Regen \in Nat
      BY <1>2, ExpeditionAssumption DEF Spot, Stocks
    <3>2. Restocked(l, place[l].stock, Regen) \in Stocks
      BY <3>1, RestockedType
    <3> QED BY <3>2 DEF Spot, Stocks
  <2> QED BY <2>1
<1>5. pp \in [Players -> Person]
  <2>1. pp = [p \in Players |-> pp[p]]
    OBVIOUS
  <2> HIDE DEF pp
  <2> QED BY <1>3, <2>1 DEF Alike, Fit
<1>6. [player |-> pp, place |-> ll] \in Tables(Vps)
  <2> HIDE DEF pp, ll, t
  <2> QED BY <1>3, <1>4, <1>5 DEF Tables, Alike, Vps
<1>7. t \in Tables(Vps)
  <2> HIDE DEF pp, ll
  <2>1. Nobody \in Players \cup {Nobody} /\ {} \in SUBSET Artifacts
    OBVIOUS
  <2> QED BY <1>6, <2>1, CardFacts, EffectsKeep
<1> HIDE DEF t
<1>8. [player |-> player', place |-> place'] \in Tables(Vps)
  BY <1>1, <1>7, Laid
<1> QED BY <1>8, TableStep, NothingPending DEF NewRound, MayAct

-----------------------------------------------------------------------------
(* More sums.                                                              *)

\* One value is taken out of the sum.
Peeled(f, s) ==
  /\ Picked(s) \in s /\ f[Picked(s)] \in Int
  /\ SumFunctionOnSet(f, s \ {Picked(s)}) \in Int
  /\ SumFunctionOnSet(f, s) = f[Picked(s)] + SumFunctionOnSet(f, s \ {Picked(s)})

LEMMA SumStep ==
  ASSUME NEW S, IsFiniteSet(S), NEW f, Integral(f, S), NEW s \in SUBSET S, s # {}
  PROVE  Peeled(f, s)
<1>1. Picked(s) \in s
  BY DEF Picked
<1>2. SumFunctionOnSet(f, s) = f[Picked(s)] + SumFunctionOnSet(f, s \ {Picked(s)})
  BY SumsAreSteady DEF Steady
<1>3. f[Picked(s)] \in Int /\ SumFunctionOnSet(f, s \ {Picked(s)}) \in Int
  BY <1>1, SumType DEF Integral
<1> QED BY <1>1, <1>2, <1>3 DEF Peeled

LEMMA SumOfPlus ==
  ASSUME NEW S, IsFiniteSet(S), NEW f, Integral(f, S), NEW g, Integral(g, S),
         NEW h, \A x \in S : h[x] = f[x] + g[x]
  PROVE  SumFunctionOnSet(h, S) = SumFunctionOnSet(f, S) + SumFunctionOnSet(g, S)
<1> DEFINE T == {s \in SUBSET S : SumFunctionOnSet(h, s) =
                                    SumFunctionOnSet(f, s) + SumFunctionOnSet(g, s)}
<1>0. Integral(h, S)
  BY DEF Integral
<1>1. {} \in T
  BY SumOfNone
<1>2. ASSUME NEW s \in SUBSET S, s # {}, \A x \in s : s \ {x} \in T
      PROVE  s \in T
  <2> DEFINE c == Picked(s)
             r == s \ {c}
  <2>0. Peeled(f, s) /\ Peeled(g, s) /\ Peeled(h, s)
    BY <1>0, <1>2, SumStep
  <2>1. /\ c \in s /\ f[c] \in Int /\ g[c] \in Int /\ h[c] \in Int
        /\ SumFunctionOnSet(f, r) \in Int /\ SumFunctionOnSet(g, r) \in Int
        /\ SumFunctionOnSet(f, s) = f[c] + SumFunctionOnSet(f, r)
        /\ SumFunctionOnSet(g, s) = g[c] + SumFunctionOnSet(g, r)
        /\ SumFunctionOnSet(h, s) = h[c] + SumFunctionOnSet(h, r)
    BY <2>0 DEF Peeled
  <2>2. SumFunctionOnSet(h, r) = SumFunctionOnSet(f, r) + SumFunctionOnSet(g, r)
    BY <1>2, <2>1
  <2> HIDE DEF c, r
  <2>3. h[c] = f[c] + g[c]
    BY <2>1
  <2>4. SumFunctionOnSet(h, s) = SumFunctionOnSet(f, s) + SumFunctionOnSet(g, s)
    BY <2>1, <2>2, <2>3
  <2> QED BY <2>4
<1> HIDE DEF T
<1>3. S \in T
  BY <1>1, <1>2, AllParts
<1> QED BY <1>3 DEF T

LEMMA SumOfScaled ==
  ASSUME NEW S, IsFiniteSet(S), NEW f, Integral(f, S), NEW a \in Int,
         NEW h, \A x \in S : h[x] = a * f[x]
  PROVE  SumFunctionOnSet(h, S) = a * SumFunctionOnSet(f, S)
<1> DEFINE T == {s \in SUBSET S : SumFunctionOnSet(h, s) = a * SumFunctionOnSet(f, s)}
<1>0. Integral(h, S)
  BY DEF Integral
<1>1. {} \in T
  BY SumOfNone
<1>2. ASSUME NEW s \in SUBSET S, s # {}, \A x \in s : s \ {x} \in T
      PROVE  s \in T
  <2> DEFINE c == Picked(s)
             r == s \ {c}
  <2>0. Peeled(f, s) /\ Peeled(h, s)
    BY <1>0, <1>2, SumStep
  <2>1. /\ c \in s /\ f[c] \in Int /\ h[c] \in Int
        /\ SumFunctionOnSet(f, r) \in Int
        /\ SumFunctionOnSet(f, s) = f[c] + SumFunctionOnSet(f, r)
        /\ SumFunctionOnSet(h, s) = h[c] + SumFunctionOnSet(h, r)
    BY <2>0 DEF Peeled
  <2>2. SumFunctionOnSet(h, r) = a * SumFunctionOnSet(f, r)
    BY <1>2, <2>1
  <2> HIDE DEF c, r
  <2>3. h[c] = a * f[c]
    BY <2>1
  <2>4. \A m, n \in Int : a * (m + n) = a * m + a * n
    OBVIOUS
  <2>5. SumFunctionOnSet(h, s) = a * SumFunctionOnSet(f, s)
    BY <2>1, <2>2, <2>3, <2>4
  <2> QED BY <2>5
<1> HIDE DEF T
<1>3. S \in T
  BY <1>1, <1>2, AllParts
<1> QED BY <1>3 DEF T

LEMMA SumOfMore ==
  ASSUME NEW S, IsFiniteSet(S), NEW f, Integral(f, S), NEW g, Integral(g, S),
         \A x \in S : f[x] <= g[x]
  PROVE  SumFunctionOnSet(f, S) <= SumFunctionOnSet(g, S)
<1> DEFINE T == {s \in SUBSET S : SumFunctionOnSet(f, s) <= SumFunctionOnSet(g, s)}
<1>1. {} \in T
  BY SumOfNone
<1>2. ASSUME NEW s \in SUBSET S, s # {}, \A x \in s : s \ {x} \in T
      PROVE  s \in T
  <2> DEFINE c == Picked(s)
             r == s \ {c}
  <2>0. Peeled(f, s) /\ Peeled(g, s)
    BY <1>2, SumStep
  <2>1. /\ c \in s /\ f[c] \in Int /\ g[c] \in Int
        /\ SumFunctionOnSet(f, r) \in Int /\ SumFunctionOnSet(g, r) \in Int
        /\ SumFunctionOnSet(f, s) = f[c] + SumFunctionOnSet(f, r)
        /\ SumFunctionOnSet(g, s) = g[c] + SumFunctionOnSet(g, r)
    BY <2>0 DEF Peeled
  <2>2. SumFunctionOnSet(f, r) <= SumFunctionOnSet(g, r)
    BY <1>2, <2>1
  <2> HIDE DEF c, r
  <2>3. f[c] <= g[c]
    BY <2>1
  <2>4. SumFunctionOnSet(f, s) <= SumFunctionOnSet(g, s)
    BY <2>1, <2>2, <2>3
  <2> QED BY <2>4
<1> HIDE DEF T
<1>3. S \in T
  BY <1>1, <1>2, AllParts
<1> QED BY <1>3 DEF T

\* No negative values, no negative sum
LEMMA SumIsNat ==
  ASSUME NEW S, IsFiniteSet(S), NEW f, \A x \in S : f[x] \in Nat
  PROVE  SumFunctionOnSet(f, S) \in Nat
<1> DEFINE z == [x \in S |-> 0]
<1>1. Integral(f, S) /\ Integral(z, S)
  BY DEF Integral
<1>2. SumFunctionOnSet(z, S) <= SumFunctionOnSet(f, S)
  <2>1. \A x \in S : z[x] <= f[x]
    OBVIOUS
  <2> HIDE DEF z
  <2> QED BY <1>1, <2>1, SumOfMore
<1>3. SumFunctionOnSet(z, S) = 0 * SumFunctionOnSet(f, S)
  <2>1. \A x \in S : z[x] = 0 * f[x]
    OBVIOUS
  <2> HIDE DEF z
  <2> QED BY <1>1, <2>1, SumOfScaled
<1>4. SumFunctionOnSet(f, S) \in Int
  BY <1>1, SumType
<1> HIDE DEF z
<1> QED BY <1>2, <1>3, <1>4

\* What belongs to each owner, taken together, is everything.
LEMMA SumByOwner ==
  ASSUME NEW S, IsFiniteSet(S), NEW f, Integral(f, S),
         NEW P, IsFiniteSet(P), NEW own, \A i \in S : own[i] \in P
  PROVE  SumFunctionOnSet([p \in P |-> SumFunctionOnSet(f, {i \in S : own[i] = p})], P)
           = SumFunctionOnSet(f, S)
<1> DEFINE part(s, p) == SumFunctionOnSet(f, {i \in s : own[i] = p})
           parts(s) == [p \in P |-> part(s, p)]
           T == {s \in SUBSET S : SumFunctionOnSet(parts(s), P) = SumFunctionOnSet(f, s)}
<1>0. \A s \in SUBSET S : Integral(parts(s), P)
  <2> SUFFICES ASSUME NEW s \in SUBSET S, NEW p \in P PROVE part(s, p) \in Int
    BY DEF Integral
  <2>1. {i \in s : own[i] = p} \in SUBSET S
    OBVIOUS
  <2> QED BY <2>1, SumType
<1>1. {} \in T
  <2> DEFINE z == parts({})
  <2>1. \A p \in P : z[p] = 0 * z[p]
    <3> SUFFICES ASSUME NEW p \in P PROVE z[p] = 0
      OBVIOUS
    <3>1. {i \in {} : own[i] = p} = {}
      OBVIOUS
    <3> QED BY <3>1, SumOfNone
  <2>2. Integral(z, P)
    BY <1>0
  <2> HIDE DEF z
  <2>3. SumFunctionOnSet(z, P) = 0 * SumFunctionOnSet(z, P) /\ SumFunctionOnSet(z, P) \in Int
    BY <2>1, <2>2, SumOfScaled, SumType
  <2>4. SumFunctionOnSet(z, P) = 0
    BY <2>3
  <2> QED BY <2>4, SumOfNone DEF z
<1>2. ASSUME NEW s \in SUBSET S, s # {}, \A x \in s : s \ {x} \in T
      PROVE  s \in T
  <2> DEFINE c == Picked(s)
             r == s \ {c}
             q == own[c]
             ps == parts(s)
             pr == parts(r)
  <2>0. Peeled(f, s)
    BY <1>2, SumStep
  <2>1. /\ c \in s /\ f[c] \in Int /\ SumFunctionOnSet(f, r) \in Int
        /\ SumFunctionOnSet(f, s) = f[c] + SumFunctionOnSet(f, r)
    BY <2>0 DEF Peeled
  <2>2. SumFunctionOnSet(pr, P) = SumFunctionOnSet(f, r)
    BY <1>2, <2>1
  <2>3. q \in P /\ c \in S /\ r \in SUBSET S
    BY <2>1
  <2>4. part(s, q) = f[c] + part(r, q)
    <3> DEFINE u == {i \in s : own[i] = q}
    <3>1. c \in u /\ u \in SUBSET S /\ u \ {c} = {i \in r : own[i] = q}
      BY <2>1
    <3>2. IsFiniteSet(u) /\ Integral(f, u)
      BY <3>1, FS_Subset DEF Integral
    <3> HIDE DEF c, r, q
    <3> HIDE DEF u
    <3>3. SumFunctionOnSet(f, u) = f[c] + SumFunctionOnSet(f, u \ {c})
      BY <3>1, <3>2, SumOfRest
    <3> QED BY <3>1, <3>3 DEF u
  <2>5. \A p \in P \ {q} : ps[p] = pr[p]
    <3> SUFFICES ASSUME NEW p \in P \ {q} PROVE {i \in s : own[i] = p} = {i \in r : own[i] = p}
      OBVIOUS
    <3> QED OBVIOUS
  <2>6. ps[q] = part(s, q) /\ pr[q] = part(r, q)
    BY <2>3
  <2>7. Integral(ps, P) /\ Integral(pr, P)
    BY <1>0, <2>3
  <2>8. ps[q] = f[c] + pr[q]
    BY <2>4, <2>6
  <2> HIDE DEF ps, pr, q, c, r
  <2>9. SumFunctionOnSet(ps, P) = SumFunctionOnSet(pr, P) - pr[q] + ps[q]
    BY <2>3, <2>5, <2>7, SumOfChanged
  <2>10. SumFunctionOnSet(ps, P) = SumFunctionOnSet(f, s)
    BY <2>1, <2>2, <2>3, <2>7, <2>8, <2>9 DEF Integral
  <2> QED BY <2>10 DEF ps
<1> HIDE DEF T
<1>3. S \in T
  BY <1>1, <1>2, AllParts
<1> QED BY <1>3 DEF T

-----------------------------------------------------------------------------
(* Contributions.                                                          *)

Entries == [player : Players, amount : Nat \ {0}]

LEMMA ContributorFacts ==
  ASSUME NEW c, Contributors(c)
  PROVE  /\ DOMAIN c = 1 .. Len(c) /\ Len(c) \in Nat /\ IsFiniteSet(DOMAIN c)
         /\ \A i \in DOMAIN c : c[i].player \in Players /\ c[i].amount \in Nat \ {0}
         /\ DOMAIN Amounts(c) = DOMAIN c /\ Integral(Amounts(c), DOMAIN c)
         /\ Amount(c) = SumFunctionOnSet(Amounts(c), DOMAIN c) /\ Amount(c) \in Nat
<1>1. c \in Seq(Entries)
  BY DEF Contributors, Entries
<1>2. /\ DOMAIN c = 1 .. Len(c) /\ Len(c) \in Nat
      /\ \A i \in DOMAIN c : c[i] \in Entries
  BY <1>1, ElementOfSeq
<1>3. IsFiniteSet(DOMAIN c)
  BY <1>2, FS_Interval
<1>4. \A i \in DOMAIN c : c[i].player \in Players /\ c[i].amount \in Nat \ {0}
  BY <1>2 DEF Entries
<1>5. DOMAIN Amounts(c) = DOMAIN c /\ \A i \in DOMAIN c : Amounts(c)[i] \in Nat
  BY <1>4 DEF Amounts
<1>6. Amount(c) = SumFunctionOnSet(Amounts(c), DOMAIN c)
  BY <1>5, SumOnDomain DEF Amount
<1>7. Amount(c) \in Nat
  BY <1>3, <1>5, <1>6, SumIsNat
<1>8. Integral(Amounts(c), DOMAIN c)
  BY <1>5 DEF Integral
<1> QED BY <1>2, <1>3, <1>4, <1>5, <1>6, <1>7, <1>8

\* Whoever paid before has its contribution increased, anybody else is added.
LEMMA ContributeKeeps ==
  ASSUME NEW c, Contributors(c), NEW p \in Players, NEW n \in Nat
  PROVE  Contributors(Contribute(c, p, n)) /\ Amount(Contribute(c, p, n)) = Amount(c) + n
<1> DEFINE D == DOMAIN c
           d == Contribute(c, p, n)
<1>1. /\ D = 1 .. Len(c) /\ Len(c) \in Nat /\ IsFiniteSet(D)
      /\ \A i \in D : c[i] \in Entries
      /\ \A i \in D : c[i].player \in Players /\ c[i].amount \in Nat \ {0}
      /\ DOMAIN Amounts(c) = D /\ Integral(Amounts(c), D)
      /\ Amount(c) = SumFunctionOnSet(Amounts(c), D) /\ Amount(c) \in Nat
      /\ \A i \in D : Amounts(c)[i] = c[i].amount
      /\ \A i, j \in D : c[i].player = c[j].player => i = j
  <2>1. c \in Seq(Entries)
        /\ \A i, j \in D : c[i].player = c[j].player => i = j
    BY DEF Contributors, Entries
  <2>2. \A i \in D : c[i] \in Entries
    BY <2>1, ElementOfSeq
  <2> QED BY <2>1, <2>2, ContributorFacts DEF Amounts
<1>2. CASE n = 0
  <2>1. d = c
    BY <1>2 DEF Contribute
  <2> QED BY <1>1, <1>2, <2>1
<1>3. CASE n # 0 /\ \E i \in D : c[i].player = p
  <2>1. PICK i \in D : c[i].player = p
    BY <1>3
  <2>2. d = [j \in D |-> IF c[j].player = p THEN [c[j] EXCEPT !.amount = @ + n] ELSE c[j]]
    BY <1>3 DEF Contribute
  <2>3. \A j \in D : d[j] = IF j = i THEN [c[j] EXCEPT !.amount = @ + n] ELSE c[j]
    BY <1>1, <2>1, <2>2
  <2>4. DOMAIN d = D
    BY <2>2
  <2>5. /\ \A j \in D : d[j] \in Entries
        /\ \A j \in D : d[j].player = c[j].player
        /\ \A j \in D \ {i} : d[j].amount = c[j].amount
        /\ d[i].amount = c[i].amount + n
    <3>1. n \in Nat \ {0}
      BY <1>3
    <3>2. [c[i] EXCEPT !.amount = @ + n] \in Entries
          /\ [c[i] EXCEPT !.amount = @ + n].amount = c[i].amount + n
          /\ [c[i] EXCEPT !.amount = @ + n].player = c[i].player
      BY <1>1, <2>1, <3>1 DEF Entries
    <3> QED BY <1>1, <2>3, <3>2
  <2>6. d \in Seq(Entries)
    <3>1. d \in [1 .. Len(c) -> Entries]
      BY <1>1, <2>2, <2>5
    <3> HIDE DEF d
    <3> QED BY <1>1, <3>1, SeqDef
  <2> HIDE DEF d, D
  <2>7. Contributors(d)
    BY <1>1, <2>4, <2>5, <2>6 DEF Contributors, Entries
  <2>8. Amount(d) = Amount(c) + n
    <3>1. Amount(d) = SumFunctionOnSet(Amounts(d), D) /\ Integral(Amounts(d), D)
      BY <2>4, <2>7, ContributorFacts
    <3>2. /\ \A j \in D \ {i} : Amounts(d)[j] = Amounts(c)[j]
          /\ Amounts(d)[i] = Amounts(c)[i] + n /\ Amounts(c)[i] \in Nat
      BY <1>1, <2>1, <2>4, <2>5 DEF Amounts
    <3>3. SumFunctionOnSet(Amounts(d), D)
            = SumFunctionOnSet(Amounts(c), D) - Amounts(c)[i] + Amounts(d)[i]
      <4>1. IsFiniteSet(D) /\ Integral(Amounts(c), D) /\ i \in D
        BY <1>1
      <4> QED BY <3>1, <3>2, <4>1, SumOfChanged
    <3>4. SumFunctionOnSet(Amounts(d), D) = Amount(d)
          /\ SumFunctionOnSet(Amounts(c), D) = Amount(c) /\ Amount(c) \in Nat
      BY <1>1, <3>1
    <3> QED BY <3>2, <3>3, <3>4
  <2> QED BY <2>7, <2>8 DEF d
<1>4. CASE n # 0 /\ ~ \E i \in D : c[i].player = p
  <2> DEFINE e == [player |-> p, amount |-> n]
             m == Len(c) + 1
  <2>1. d = Append(c, e)
    BY <1>4 DEF Contribute
  <2>2. /\ d \in Seq(Entries)
        /\ DOMAIN d = 1 .. m /\ d[m] = e /\ \A j \in D : d[j] = c[j]
    <3>1. c \in Seq(Entries)
      BY DEF Contributors, Entries
    <3>2. e \in Entries
      BY <1>4 DEF Entries
    <3> HIDE DEF e, d
    <3> QED BY <1>1, <2>1, <3>1, <3>2
  <2>3. D = (1 .. m) \ {m} /\ m \in 1 .. m
    BY <1>1
  <2>4. Contributors(d)
    <3>1. \A i, j \in 1 .. m : d[i].player = d[j].player => i = j
      <4> SUFFICES ASSUME NEW i \in 1 .. m, NEW j \in 1 .. m, d[i].player = d[j].player
                   PROVE  i = j
        OBVIOUS
      <4>1. d[m].player = p /\ \A k \in D : d[k].player = c[k].player /\ d[k].player # p
        BY <1>4, <2>2
      <4> HIDE DEF d, D, m
      <4>2. CASE i = m
        BY <2>3, <4>1, <4>2
      <4>3. CASE j = m
        BY <2>3, <4>1, <4>3
      <4>4. CASE i # m /\ j # m
        BY <1>1, <2>3, <4>1, <4>4
      <4> QED BY <4>2, <4>3, <4>4
    <3> HIDE DEF d
    <3> QED BY <2>2, <3>1 DEF Contributors, Entries
  <2>5. Amount(d) = Amount(c) + n
    <3>1. Amount(d) = SumFunctionOnSet(Amounts(d), 1 .. m) /\ Integral(Amounts(d), 1 .. m)
          /\ IsFiniteSet(1 .. m)
      <4> HIDE DEF d, m
      <4> QED BY <2>2, <2>4, ContributorFacts
    <3>2. Amounts(d)[m] = n /\ \A j \in D : Amounts(d)[j] = Amounts(c)[j]
      <4>1. m \in DOMAIN d /\ D \subseteq DOMAIN d
        BY <2>2, <2>3
      <4>2. d[m].amount = n /\ \A j \in D : d[j].amount = c[j].amount
        BY <2>2
      <4> HIDE DEF d, m
      <4> QED BY <4>1, <4>2 DEF Amounts
    <3> HIDE DEF d, m, D
    <3>3. Amount(d) = Amounts(d)[m] + SumFunctionOnSet(Amounts(d), (1 .. m) \ {m})
      BY <2>3, <3>1, SumOfRest
    <3>4. SumFunctionOnSet(Amounts(d), D) = SumFunctionOnSet(Amounts(c), D)
      BY <1>1, <3>2, SameSums
    <3>5. SumFunctionOnSet(Amounts(d), (1 .. m) \ {m}) = Amount(c)
      BY <1>1, <2>3, <3>4
    <3> QED BY <1>1, <3>2, <3>3, <3>5
  <2> QED BY <2>4, <2>5
<1> QED BY <1>2, <1>3, <1>4

-----------------------------------------------------------------------------
(* Sharing out victory points.                                             *)

\* The order of those who might get what is left over
Luckier(c, vp, i, j) ==
  LET a == Remainder(c, i, vp)  b == Remainder(c, j, vp) IN
  \/ a > b
  \/ a = b /\ c[i].amount > c[j].amount
  \/ a = b /\ c[i].amount = c[j].amount /\ i <= j

LEMMA DivisionFacts ==
  ASSUME NEW n \in Nat, NEW a \in Nat \ {0}
  PROVE  n \div a \in Nat /\ a * (n \div a) <= n /\ n % a \in Nat
OBVIOUS

LEMMA LuckiestIsOne ==
  ASSUME NEW c, Contributors(c), NEW vp \in Nat, Amount(c) > 0
  PROVE  Luckiest(c, vp) \in DOMAIN c
<1> DEFINE D == DOMAIN c
<1>1. /\ D = 1 .. Len(c) /\ Len(c) \in Nat /\ Amount(c) \in Nat \ {0}
      /\ \A i \in D : c[i].amount \in Nat
  BY ContributorFacts
<1>2. \A i \in D : Remainder(c, i, vp) \in Nat
  <2> SUFFICES ASSUME NEW i \in D PROVE (vp * c[i].amount) % Amount(c) \in Nat
    BY DEF Remainder
  <2>1. c[i].amount \in Nat
    BY <1>1
  <2>2. vp * c[i].amount \in Nat
    BY <2>1
  <2> QED BY <1>1, <2>2, DivisionFacts
<1>3. Len(c) >= 1
  <2> SUFFICES ASSUME Len(c) = 0 PROVE FALSE
    BY <1>1
  <2>1. D = {}
    BY <1>1
  <2>2. Amount(c) = 0
    BY <2>1, ContributorFacts, SumOfNone
  <2> QED BY <2>2
<1> DEFINE T == {n \in Nat : n + 1 <= Len(c) =>
                   \E i \in 1 .. n + 1 : \A j \in 1 .. n + 1 : Luckier(c, vp, i, j)}
<1>4. 0 \in T
  <2>1. Luckier(c, vp, 1, 1)
    BY DEF Luckier
  <2> QED BY <2>1
<1>5. ASSUME NEW n \in Nat, n \in T
      PROVE  n + 1 \in T
  <2> SUFFICES ASSUME n + 2 <= Len(c)
               PROVE  \E i \in 1 .. n + 2 : \A j \in 1 .. n + 2 : Luckier(c, vp, i, j)
    OBVIOUS
  <2>1. PICK i \in 1 .. n + 1 : \A j \in 1 .. n + 1 : Luckier(c, vp, i, j)
    BY <1>1, <1>5
  <2> DEFINE m == n + 2
  <2>2. i \in D /\ m \in D /\ 1 .. n + 1 \subseteq D /\ 1 .. m = (1 .. n + 1) \cup {m}
    BY <1>1
  <2>3. \A k, l \in D : /\ k \in Int /\ c[k].amount \in Nat /\ Remainder(c, k, vp) \in Nat
                        /\ Luckier(c, vp, k, l) \/ Luckier(c, vp, l, k)
    BY <1>1, <1>2 DEF Luckier
  <2>4. CASE Luckier(c, vp, i, m)
    BY <2>1, <2>2, <2>4
  <2>5. CASE Luckier(c, vp, m, i)
    <3>1. ASSUME NEW j \in 1 .. n + 1 PROVE Luckier(c, vp, m, j)
      <4>1. Luckier(c, vp, i, j) /\ j \in D
        BY <2>1, <2>2
      <4>2. i \in Int /\ j \in Int /\ m \in Int
        BY <1>1
      <4> HIDE DEF m, D
      <4> QED BY <1>1, <1>2, <2>2, <2>5, <4>1, <4>2 DEF Luckier
    <3>2. Luckier(c, vp, m, m)
      BY DEF Luckier
    <3> QED BY <2>2, <3>1, <3>2
  <2> QED BY <2>2, <2>3, <2>4, <2>5
<1> HIDE DEF T
<1>6. Len(c) - 1 \in T
  BY <1>1, <1>3, <1>4, <1>5, AllNumbers
<1>7. \E i \in D : \A j \in D : Luckier(c, vp, i, j)
  BY <1>1, <1>3, <1>6 DEF T
<1> QED BY <1>7 DEF Luckiest, Luckier

\* The whole shares never exceed the victory points: multiplied by what was
\* paid, they stay below the products they are the quotients of.
LEMMA SharesFacts ==
  ASSUME NEW c, Contributors(c), NEW vp \in Nat, Amount(c) > 0
  PROVE  /\ DOMAIN Shares(c, vp) = DOMAIN c
         /\ \A i \in DOMAIN c : Shares(c, vp)[i] \in Nat
         /\ SumFunction(Shares(c, vp)) = SumFunctionOnSet(Shares(c, vp), DOMAIN c)
         /\ SumFunctionOnSet(Shares(c, vp), DOMAIN c) \in 0 .. vp
<1> DEFINE D == DOMAIN c
           A == Amount(c)
           s == Shares(c, vp)
           as == [i \in D |-> A * s[i]]
           va == [i \in D |-> vp * Amounts(c)[i]]
           sum == SumFunctionOnSet(s, D)
<1>1. /\ IsFiniteSet(D) /\ A \in Nat \ {0} /\ \A i \in D : c[i].amount \in Nat
      /\ Integral(Amounts(c), D) /\ A = SumFunctionOnSet(Amounts(c), D)
      /\ \A i \in D : Amounts(c)[i] = c[i].amount
  BY ContributorFacts DEF Amounts
<1>2. DOMAIN s = D /\ \A i \in D : s[i] \in Nat /\ as[i] <= va[i] /\ va[i] \in Nat /\ as[i] \in Nat
  <2>1. DOMAIN s = D /\ \A i \in D : s[i] = (vp * c[i].amount) \div A
    BY DEF Shares, Share
  <2>2. ASSUME NEW i \in D
        PROVE  s[i] \in Nat /\ as[i] <= va[i] /\ va[i] \in Nat /\ as[i] \in Nat
    <3> DEFINE n == vp * c[i].amount
    <3>1. n \in Nat
      <4>1. c[i].amount \in Nat
        BY <1>1
      <4> QED BY <4>1
    <3>2. va[i] = n /\ as[i] = A * s[i]
      BY <1>1
    <3>3. s[i] = n \div A
      BY <2>1
    <3> HIDE DEF n, as, va, s, A
    <3>4. s[i] \in Nat /\ A * s[i] <= n
      BY <1>1, <3>1, <3>3, DivisionFacts
    <3>5. A * s[i] \in Nat
      BY <1>1, <3>4
    <3> QED BY <3>1, <3>2, <3>4, <3>5
  <2> QED BY <2>1, <2>2
<1>3. Integral(s, D) /\ Integral(as, D) /\ Integral(va, D) /\ sum \in Nat
  <2>1. \A i \in D : s[i] \in Int /\ as[i] \in Int /\ va[i] \in Int
    BY <1>2
  <2> HIDE DEF s, as, va
  <2> QED BY <1>1, <1>2, <2>1, SumIsNat DEF Integral
<1>4. SumFunctionOnSet(as, D) = A * sum
  <2>1. \A i \in D : as[i] = A * s[i]
    OBVIOUS
  <2>2. A \in Int
    BY <1>1
  <2> HIDE DEF as, s, A
  <2> QED BY <1>1, <1>3, <2>1, <2>2, SumOfScaled
<1>5. SumFunctionOnSet(va, D) = vp * A
  <2>1. \A i \in D : va[i] = vp * Amounts(c)[i]
    OBVIOUS
  <2>2. vp \in Int
    OBVIOUS
  <2> HIDE DEF va
  <2> QED BY <1>1, <1>3, <2>1, <2>2, SumOfScaled
<1>6. SumFunctionOnSet(as, D) <= SumFunctionOnSet(va, D)
  <2> HIDE DEF as, va
  <2> QED BY <1>1, <1>2, <1>3, SumOfMore
<1>7. A * sum <= vp * A
  BY <1>4, <1>5, <1>6
<1> HIDE DEF A, sum
<1>8. sum <= vp
  <2> SUFFICES ASSUME sum >= vp + 1 PROVE FALSE
    BY <1>3
  <2>1. \A k \in Nat : \A m, n \in Nat : m >= n + 1 => k * m >= k * n + k
    <3> SUFFICES ASSUME NEW k \in Nat, NEW m \in Nat, NEW n \in Nat, m >= n + 1
                 PROVE  k * m >= k * n + k
      OBVIOUS
    <3>1. PICK e \in Nat : m = n + 1 + e
      <4>1. m - (n + 1) \in Nat /\ m = n + 1 + (m - (n + 1))
        OBVIOUS
      <4> QED BY <4>1
    <3>2. k * m = k * n + k + k * e /\ k * e \in Nat /\ k * n \in Nat
      BY <3>1
    <3> QED BY <3>2
  <2>2. A * sum >= A * vp + A
    BY <1>1, <1>3, <2>1
  <2>3. A * vp = vp * A /\ A * vp \in Nat /\ A * sum \in Nat
    BY <1>1, <1>3
  <2> QED BY <1>1, <1>7, <2>2, <2>3
<1>9. SumFunction(s) = SumFunctionOnSet(s, D)
  BY <1>2, SumOnDomain
<1> QED BY <1>2, <1>3, <1>8, <1>9 DEF sum

LEMMA AwardFacts ==
  ASSUME NEW c, Contributors(c), NEW vp \in Nat, Amount(c) > 0
  PROVE  /\ \A i \in DOMAIN c : /\ Award(c, vp)[i] \in Nat
                                /\ Shares(c, vp)[i] <= Award(c, vp)[i]
         /\ SumFunctionOnSet(Award(c, vp), DOMAIN c) = vp
<1> DEFINE D == DOMAIN c
           s == Shares(c, vp)
           l == Luckiest(c, vp)
           left == vp - SumFunction(s)
           a == Award(c, vp)
<1>1. /\ DOMAIN s = D /\ (\A i \in D : s[i] \in Nat)
      /\ SumFunction(s) = SumFunctionOnSet(s, D) /\ SumFunctionOnSet(s, D) \in 0 .. vp
      /\ l \in D /\ IsFiniteSet(D)
  BY SharesFacts, LuckiestIsOne, ContributorFacts
<1>2. a = [s EXCEPT ![l] = s[l] + left]
  BY DEF Award
<1>3. left \in Nat
  BY <1>1
<1> HIDE DEF s, l, a
<1>4. \A i \in D : a[i] = IF i = l THEN s[i] + left ELSE s[i]
  BY <1>1, <1>2
<1> HIDE DEF left
<1>5. \A i \in D : a[i] \in Nat /\ s[i] <= a[i]
  BY <1>1, <1>3, <1>4
<1>6. Integral(a, D) /\ Integral(s, D)
  BY <1>1, <1>5 DEF Integral
<1>7. SumFunctionOnSet(a, D) = SumFunctionOnSet(s, D) - s[l] + a[l]
  <2>1. \A i \in D \ {l} : a[i] = s[i]
    BY <1>4
  <2> QED BY <1>1, <1>6, <2>1, SumOfChanged
<1>8. a[l] = s[l] + left /\ s[l] \in Nat
  BY <1>1, <1>4
<1>9. SumFunctionOnSet(a, D) = vp
  BY <1>1, <1>7, <1>8 DEF left
<1> QED BY <1>5, <1>9 DEF a, s

LEMMA AwardedFacts ==
  ASSUME NEW c, Contributors(c), NEW vp \in Nat, Amount(c) > 0
  PROVE  /\ \A p \in Players :
              /\ Awarded(c, vp, p) \in Nat
              /\ SumFunctionOnSet(Shares(c, vp), PaidBy(c, p)) \in Nat
              /\ SumFunctionOnSet(Shares(c, vp), PaidBy(c, p)) <= Awarded(c, vp, p)
         /\ SumFunctionOnSet([p \in Players |-> Awarded(c, vp, p)], Players) = vp
<1> DEFINE D == DOMAIN c
           s == Shares(c, vp)
           a == Award(c, vp)
           own == [i \in D |-> c[i].player]
<1>1. /\ IsFiniteSet(D) /\ \A i \in D : c[i].player \in Players
      /\ \A i \in D : s[i] \in Nat /\ a[i] \in Nat /\ s[i] <= a[i]
      /\ SumFunctionOnSet(a, D) = vp
  BY ContributorFacts, SharesFacts, AwardFacts
<1> HIDE DEF s, a
<1>2. ASSUME NEW p \in Players
      PROVE  /\ SumFunctionOnSet(a, PaidBy(c, p)) \in Nat
             /\ SumFunctionOnSet(s, PaidBy(c, p)) \in Nat
             /\ SumFunctionOnSet(s, PaidBy(c, p)) <= SumFunctionOnSet(a, PaidBy(c, p))
  <2> DEFINE u == PaidBy(c, p)
  <2>1. u \subseteq D
    BY DEF PaidBy
  <2>2. IsFiniteSet(u)
    BY <1>1, <2>1, FS_Subset
  <2> HIDE DEF u
  <2>3. Integral(a, u) /\ Integral(s, u)
    BY <1>1, <2>1 DEF Integral
  <2>4. \A i \in u : s[i] \in Nat /\ a[i] \in Nat /\ s[i] <= a[i]
    BY <1>1, <2>1
  <2>5. SumFunctionOnSet(a, u) \in Nat /\ SumFunctionOnSet(s, u) \in Nat
    BY <2>2, <2>4, SumIsNat
  <2>6. SumFunctionOnSet(s, u) <= SumFunctionOnSet(a, u)
    BY <2>2, <2>3, <2>4, SumOfMore
  <2> QED BY <2>5, <2>6 DEF u
<1>3. SumFunctionOnSet([p \in Players |-> SumFunctionOnSet(a, PaidBy(c, p))], Players) = vp
  <2>1. Integral(a, D) /\ IsFiniteSet(Players) /\ \A i \in D : own[i] \in Players
    BY <1>1, ExpeditionAssumption DEF Integral
  <2>2. \A p \in Players : PaidBy(c, p) = {i \in D : own[i] = p}
    BY DEF PaidBy
  <2>3. [p \in Players |-> SumFunctionOnSet(a, PaidBy(c, p))]
          = [p \in Players |-> SumFunctionOnSet(a, {i \in D : own[i] = p})]
    BY <2>2
  <2> HIDE DEF own
  <2>4. SumFunctionOnSet([p \in Players |-> SumFunctionOnSet(a, {i \in D : own[i] = p})], Players)
          = SumFunctionOnSet(a, D)
    BY <1>1, <2>1, SumByOwner
  <2> QED BY <1>1, <2>3, <2>4
<1> QED BY <1>2, <1>3 DEF Awarded, a, s

-----------------------------------------------------------------------------
(* Repairing.                                                              *)

\* The component k that is being repaired
LEMMA SiteFacts ==
  ASSUME IInv, ~ Over, NEW k, k = repaired + 1
  PROVE  /\ k \in DOMAIN Cost /\ DOMAIN Cost = 1 .. Len(Cost) /\ Len(Cost) \in Nat
         /\ repaired \in Nat /\ k \in Nat /\ k > repaired
         /\ Cost[k] \in Bags /\ VP[k] \in Nat /\ Total(Cost[k]) > 0
         /\ progress \in Bags /\ Covers(Cost[k], progress) /\ ~ Covers(progress, Cost[k])
         /\ Contributors(given[k]) /\ Amount(given[k]) = Total(progress)
<1>1. Cost \in Seq([Resources -> Nat])
  BY ExpeditionAssumption
<1>2. Len(Cost) \in Nat /\ DOMAIN Cost = 1 .. Len(Cost)
      /\ \A j \in DOMAIN Cost : Cost[j] \in Bags
  BY <1>1, ElementOfSeq DEF Bags
<1>3. repaired \in 0 .. Len(Cost) /\ repaired # Len(Cost) /\ progress \in Bags
  BY WholeIsFit DEF IInv, Over
<1>4. k \in DOMAIN Cost /\ repaired \in Nat /\ k \in Nat /\ k > repaired
  <2>1. Len(Cost) \in Nat /\ repaired \in 0 .. Len(Cost) /\ repaired # Len(Cost)
    BY <1>2, <1>3
  <2>2. k \in 1 .. Len(Cost) /\ repaired \in Nat /\ k \in Nat /\ k > repaired
    BY <2>1
  <2> QED BY <1>2, <2>2
<1>5. VP[k] \in Nat /\ \E r \in Resources : Cost[k][r] > 0
  BY <1>4, ExpeditionAssumption
<1>6. Total(Cost[k]) > 0
  BY <1>2, <1>4, <1>5, BagFacts
<1>7. Contributors(given[k])
  BY <1>4 DEF IInv, GivenOK
<1>8. /\ Amount(given[k]) = Total(progress) /\ Covers(Cost[k], progress)
      /\ ~ Covers(progress, Cost[k])
  BY <1>4 DEF IInv, BuiltByContributions
<1> QED BY <1>2, <1>3, <1>4, <1>5, <1>6, <1>7, <1>8

LEMMA UnitFacts ==
  ASSUME NEW f \in Resources
  PROVE  /\ Unit(f, 1) \in Bags /\ Total(Unit(f, 1)) = 1 /\ Unit(f, 1) # Nothing
         /\ \A r \in Resources : Unit(f, 1)[r] = IF r = f THEN 1 ELSE 0
<1>1. Nothing \in Bags /\ Total(Nothing) = 0 /\ Nothing[f] = 0
  BY NothingFacts DEF Nothing
<1>2. Nothing[f] + 1 = 1 /\ Nothing[f] + 1 >= 0 /\ 1 \in Int
  BY <1>1
<1>3. [Nothing EXCEPT ![f] = Nothing[f] + 1] \in Bags
      /\ Total([Nothing EXCEPT ![f] = Nothing[f] + 1]) = Total(Nothing) + 1
  BY <1>1, <1>2, OneKind
<1>4. Unit(f, 1) = [Nothing EXCEPT ![f] = Nothing[f] + 1]
  BY <1>2 DEF Unit
<1>5. \A r \in Resources : Unit(f, 1)[r] = IF r = f THEN 1 ELSE 0
  BY DEF Unit, Nothing
<1>6. Total(Unit(f, 1)) = 1 /\ Unit(f, 1) \in Bags
  <2>1. Total([Nothing EXCEPT ![f] = Nothing[f] + 1]) = 1
    BY <1>1, <1>3
  <2> QED BY <1>3, <1>4, <2>1
<1> QED BY <1>1, <1>5, <1>6

\* What the discount gives, and then what p pays, is never too much.
LEMMA RepairFacts ==
  ASSUME IInv, NEW p \in Players, NEW pay \in PartsOf(player[p].inv), Repair(p, pay)
  PROVE  \E free, paid \in Bags :
           /\ Paid(p, free, paid) /\ Covers(player[p].inv, paid)
           /\ Covers(Cost[repaired + 1], Plus(progress, Plus(free, paid)))
           /\ IF HasDiscount(p) THEN free # Nothing /\ Total(free) = 1 ELSE free = Nothing
<1> DEFINE k == repaired + 1
           need == Missing(progress, Cost[k])
           f == Fullest(need)
           free == IF HasDiscount(p) THEN Unit(f, 1) ELSE Nothing
           due == Due(need, free)
           paid == Least(pay, due)
<1>1. /\ Cost[k] \in Bags /\ progress \in Bags
      /\ Covers(Cost[k], progress) /\ ~ Covers(progress, Cost[k])
  BY SiteFacts DEF Repair, MayAct
<1>2. player[p].inv \in Bags /\ pay \in Bags /\ Covers(player[p].inv, pay)
  BY WholeIsFit, PersonFacts, PartFacts DEF IInv, Repair
<1>3. Paid(p, free, paid)
  BY DEF Repair
<1> HIDE DEF k
<1>4. need \in Bags /\ \A r \in Resources : need[r] = Cost[k][r] - progress[r]
  <2>1. \A r \in Resources : /\ Cost[k][r] \in Nat /\ progress[r] \in Nat
                             /\ progress[r] <= Cost[k][r]
    BY <1>1 DEF Covers, Bags
  <2>2. \A r \in Resources : need[r] = IF Cost[k][r] > progress[r]
                                        THEN Cost[k][r] - progress[r] ELSE 0
    BY DEF Missing
  <2>3. DOMAIN need = Resources /\ need = [r \in Resources |-> need[r]]
    BY DEF Missing
  <2> HIDE DEF need
  <2>4. \A r \in Resources : need[r] \in Nat /\ need[r] = Cost[k][r] - progress[r]
    BY <2>1, <2>2
  <2> QED BY <2>3, <2>4 DEF Bags
<1>5. f \in Resources /\ need[f] > 0
  <2>1. PICK r \in Resources : ~ (progress[r] >= Cost[k][r])
    BY <1>1 DEF Covers
  <2>2. progress[r] \in Nat /\ Cost[k][r] \in Nat
    BY <1>1 DEF Bags
  <2> HIDE DEF need
  <2>3. f \in Resources /\ need[r] <= need[f] /\ need[r] \in Nat /\ need[f] \in Nat
    BY <1>4, FullestFacts DEF Bags
  <2> HIDE DEF f
  <2>4. need[r] > 0
    BY <1>4, <2>1, <2>2
  <2> QED BY <2>3, <2>4
<1> HIDE DEF need, f
<1>6. /\ free \in Bags
      /\ \A r \in Resources : free[r] \in Nat /\ free[r] <= need[r]
      /\ IF HasDiscount(p) THEN free # Nothing /\ Total(free) = 1 ELSE free = Nothing
  <2>1. CASE HasDiscount(p)
    <3>1. \A r \in Resources : Unit(f, 1)[r] = IF r = f THEN 1 ELSE 0
      BY <1>5, UnitFacts
    <3>2. \A r \in Resources : need[r] \in Nat
      BY <1>4 DEF Bags
    <3>3. \A r \in Resources : Unit(f, 1)[r] \in Nat /\ Unit(f, 1)[r] <= need[r]
      BY <1>5, <3>1, <3>2
    <3> QED BY <1>5, <2>1, <3>3, UnitFacts
  <2>2. CASE ~ HasDiscount(p)
    <3>1. \A r \in Resources : Nothing[r] = 0 /\ need[r] \in Nat
      BY <1>4 DEF Nothing, Bags
    <3> QED BY <2>2, <3>1, NothingFacts
  <2> QED BY <2>1, <2>2
<1> HIDE DEF free
<1>7. \A r \in Resources : due[r] = need[r] - free[r] /\ due[r] \in Nat /\ need[r] \in Nat
  <2>1. \A r \in Resources : need[r] \in Nat
    BY <1>4 DEF Bags
  <2>2. \A r \in Resources : due[r] = need[r] - free[r]
    BY DEF Due, Minus
  <2> QED BY <1>6, <2>1, <2>2
<1> HIDE DEF due
<1>8. /\ \A r \in Resources : paid[r] \in Nat /\ paid[r] <= pay[r] /\ paid[r] <= due[r]
      /\ paid \in Bags
  <2>1. ASSUME NEW r \in Resources
        PROVE  paid[r] \in Nat /\ paid[r] <= pay[r] /\ paid[r] <= due[r]
    <3>1. pay[r] \in Nat /\ due[r] \in Nat
      BY <1>2, <1>7 DEF Bags
    <3>2. paid[r] = Min({pay[r], due[r]})
      BY DEF Least
    <3>3. pay[r] \in Int /\ due[r] \in Int
      BY <3>1
    <3> DEFINE m == Min({pay[r], due[r]})
    <3>4. m \in Int /\ m <= pay[r] /\ m <= due[r] /\ (m = pay[r] \/ m = due[r])
      BY <3>3, MinOfTwo
    <3> HIDE DEF m, paid
    <3> QED BY <3>1, <3>2, <3>4 DEF m
  <2>2. paid = [r \in Resources |-> paid[r]]
    BY DEF Least
  <2> HIDE DEF paid
  <2> QED BY <2>1, <2>2 DEF Bags
<1> HIDE DEF paid
<1>9. Covers(player[p].inv, paid)
  <2>1. \A r \in Resources : player[p].inv[r] \in Nat /\ pay[r] \in Nat
    BY <1>2 DEF Bags
  <2> QED BY <1>2, <1>8, <2>1 DEF Covers
<1>10. Covers(Cost[k], Plus(progress, Plus(free, paid)))
  <2>1. \A r \in Resources : progress[r] \in Nat /\ Cost[k][r] \in Nat
    BY <1>1 DEF Bags
  <2>2. \A r \in Resources : Plus(progress, Plus(free, paid))[r]
                               = progress[r] + (free[r] + paid[r])
    BY DEF Plus
  <2>3. \A r \in Resources : progress[r] + (free[r] + paid[r]) <= Cost[k][r]
    BY <1>4, <1>6, <1>7, <1>8, <2>1
  <2> QED BY <2>2, <2>3 DEF Covers
<1> QED BY <1>3, <1>6, <1>8, <1>9, <1>10 DEF k

\* What is paid in, and by whom
LEMMA PaidIn ==
  ASSUME NEW c, Contributors(c), NEW w \in Bags, Amount(c) = Total(w),
         NEW p \in Players, NEW free \in Bags, NEW paid \in Bags
  PROVE  /\ Plus(w, Plus(free, paid)) \in Bags
         /\ Total(Plus(w, Plus(free, paid))) = Total(w) + Total(free) + Total(paid)
         /\ Contributors(Contribute(Contribute(c, p, Total(free)), p, Total(paid)))
         /\ Amount(Contribute(Contribute(c, p, Total(free)), p, Total(paid)))
              = Total(Plus(w, Plus(free, paid)))
<1> DEFINE y == Plus(free, paid)
           x == Plus(w, y)
           d == Contribute(c, p, Total(free))
           e == Contribute(d, p, Total(paid))
<1>1. Total(free) \in Nat /\ Total(paid) \in Nat /\ Total(w) \in Nat
  BY BagFacts
<1>2. y \in Bags /\ Total(y) = Total(free) + Total(paid)
  BY PlusFacts
<1> HIDE DEF y
<1>3. x \in Bags /\ Total(x) = Total(w) + Total(y)
  BY <1>2, PlusFacts
<1>4. Contributors(d) /\ Amount(d) = Amount(c) + Total(free)
  BY <1>1, ContributeKeeps
<1> HIDE DEF d, x
<1>5. Contributors(e) /\ Amount(e) = Amount(d) + Total(paid)
  BY <1>1, <1>4, ContributeKeeps
<1> HIDE DEF e
<1>6. Total(x) = Total(w) + Total(free) + Total(paid)
  BY <1>1, <1>2, <1>3
<1>7. Amount(e) = Total(x)
  BY <1>1, <1>4, <1>5, <1>6
<1> QED BY <1>3, <1>5, <1>6, <1>7 DEF x, y, e, d

\* Whoever pays has less to carry.
LEMMA PayerFits ==
  ASSUME NEW pl, Fit(pl), NEW paid \in Bags, Covers(pl.inv, paid), NEW d \in BOOLEAN
  PROVE  /\ Alike(pl, [pl EXCEPT !.inv = Minus(@, paid), !.discountUsed = d])
         /\ [pl EXCEPT !.inv = Minus(@, paid), !.discountUsed = d].inv = Minus(pl.inv, paid)
         /\ [pl EXCEPT !.inv = Minus(@, paid), !.discountUsed = d].discountUsed = d
         /\ Total(Minus(pl.inv, paid)) = Total(pl.inv) - Total(paid)
<1> DEFINE x == Minus(pl.inv, paid)
           q == [pl EXCEPT !.inv = x, !.discountUsed = d]
<1>1. pl.inv \in Bags /\ pl \in Person
  BY PersonFacts DEF Fit
<1>2. x \in Bags /\ Total(x) = Total(pl.inv) - Total(paid)
  BY <1>1, MinusFacts
<1> HIDE DEF x
<1>3. /\ q \in Person /\ q.inv = x /\ q.discountUsed = d /\ q.vp = pl.vp
      /\ q.health = pl.health /\ q.exhausted = pl.exhausted /\ q.artifacts = pl.artifacts
  BY <1>1, <1>2 DEF Person, Bags
<1>4. [pl EXCEPT !.inv = Minus(@, paid), !.discountUsed = d] = q
  BY DEF x
<1> HIDE DEF q
<1>5. CapacityOf(q) = CapacityOf(pl)
  BY <1>3 DEF CapacityOf
<1>6. Total(x) <= CapacityOf(pl)
  <2>1. Total(pl.inv) \in Nat /\ Total(paid) \in Nat /\ CapacityOf(pl) \in Nat
    BY <1>1, BagFacts, CapacityFacts
  <2> QED BY <1>2, <2>1 DEF Fit
<1> QED BY <1>2, <1>3, <1>4, <1>5, <1>6 DEF Alike, Fit, x

\* The sum of what the functions of the first n components give
LEMMA OneMore ==
  ASSUME NEW n \in Nat, NEW f, NEW g, \A j \in 1 .. n : f[j] \in Int /\ g[j] = f[j],
         g[n + 1] \in Int
  PROVE  /\ SumFunctionOnSet(g, 1 .. n + 1) = SumFunctionOnSet(f, 1 .. n) + g[n + 1]
         /\ SumFunctionOnSet(f, 1 .. n) \in Int
<1>1. IsFiniteSet(1 .. n) /\ IsFiniteSet(1 .. n + 1)
  BY FS_Interval
<1>2. (1 .. n + 1) \ {n + 1} = 1 .. n /\ n + 1 \in 1 .. n + 1
  OBVIOUS
<1>3. Integral(f, 1 .. n) /\ Integral(g, 1 .. n + 1)
  <2>1. \A j \in 1 .. n + 1 : j \in 1 .. n \/ j = n + 1
    OBVIOUS
  <2> QED BY <2>1 DEF Integral
<1>4. SumFunctionOnSet(g, 1 .. n + 1)
        = g[n + 1] + SumFunctionOnSet(g, (1 .. n + 1) \ {n + 1})
  BY <1>1, <1>2, <1>3, SumOfRest
<1>5. SumFunctionOnSet(g, 1 .. n) = SumFunctionOnSet(f, 1 .. n)
  BY <1>1, SameSums
<1>6. SumFunctionOnSet(f, 1 .. n) \in Int
  BY <1>1, <1>3, SumType
<1>7. SumFunctionOnSet(g, (1 .. n + 1) \ {n + 1}) = SumFunctionOnSet(f, 1 .. n)
  BY <1>2, <1>5
<1> QED BY <1>4, <1>6, <1>7

\* The players after p has paid, before any victory points are given
After(p, free, paid) ==
  [player EXCEPT ![p].inv = Minus(@, paid), ![p].discountUsed = @ \/ free # Nothing]

LEMMA AfterFacts ==
  ASSUME IInv, NEW p \in Players, NEW free \in Bags, NEW paid \in Bags,
         Covers(player[p].inv, paid)
  PROVE  /\ After(p, free, paid) \in [Players -> Person]
         /\ \A q \in Players : Alike(player[q], After(p, free, paid)[q])
         /\ \A q \in Players \ {p} : After(p, free, paid)[q] = player[q]
         /\ After(p, free, paid)[p].inv = Minus(player[p].inv, paid)
         /\ After(p, free, paid)[p].discountUsed
              = (player[p].discountUsed \/ free # Nothing)
         /\ Total(Minus(player[p].inv, paid)) = Total(player[p].inv) - Total(paid)
<1> DEFINE d == player[p].discountUsed \/ free # Nothing
           q == [player[p] EXCEPT !.inv = Minus(@, paid), !.discountUsed = d]
           pl == After(p, free, paid)
<1>1. player \in [Players -> Person] /\ \A r \in Players : Fit(player[r])
  BY WholeIsFit DEF IInv
<1>2. d \in BOOLEAN
  OBVIOUS
<1>3. pl = [player EXCEPT ![p] = q]
  BY <1>1 DEF After
<1> HIDE DEF d
<1>4. /\ Alike(player[p], q) /\ q.inv = Minus(player[p].inv, paid) /\ q.discountUsed = d
      /\ Total(Minus(player[p].inv, paid)) = Total(player[p].inv) - Total(paid)
  BY <1>1, <1>2, PayerFits
<1> HIDE DEF q, pl
<1>5. \A r \in Players : pl[r] = IF r = p THEN q ELSE player[r]
  BY <1>1, <1>3
<1>6. \A r \in Players : Alike(player[r], pl[r])
  BY <1>1, <1>4, <1>5 DEF Alike
<1>7. pl \in [Players -> Person]
  <2>1. q \in Person
    BY <1>4 DEF Alike, Fit
  <2> QED BY <1>1, <1>3, <2>1
<1>8. pl[p].inv = Minus(player[p].inv, paid) /\ pl[p].discountUsed = d
      /\ \A r \in Players \ {p} : pl[r] = player[r]
  BY <1>4, <1>5
<1> QED BY <1>4, <1>6, <1>7, <1>8 DEF pl, d

\* What Paid does, in terms of what is paid in
Paying(p, free, paid, k, x, c) ==
  /\ k = repaired + 1 /\ k \in DOMAIN Cost
  /\ x \in Bags /\ Covers(Cost[k], x) /\ Contributors(c) /\ Amount(c) = Total(x)
  /\ Total(x) = Total(progress) + Total(free) + Total(paid)
  /\ given' = [given EXCEPT ![k] = c]
  /\ IF Covers(x, Cost[k])
       THEN /\ repaired' = k /\ progress' = Nothing
            /\ player' = [q \in Players |->
                 [After(p, free, paid)[q] EXCEPT !.vp = @ + Awarded(c, VP[k], q)]]
       ELSE progress' = x /\ player' = After(p, free, paid) /\ repaired' = repaired

LEMMA PaidFacts ==
  ASSUME IInv, ~ Over, NEW p \in Players, NEW free \in Bags, NEW paid \in Bags,
         Paid(p, free, paid), Covers(Cost[repaired + 1], Plus(progress, Plus(free, paid)))
  PROVE  \E k, x, c : Paying(p, free, paid, k, x, c)
<1> DEFINE k == repaired + 1
           x == Plus(progress, Plus(free, paid))
           c == Contribute(Contribute(given[k], p, Total(free)), p, Total(paid))
<1>1. k \in DOMAIN Cost /\ Contributors(given[k]) /\ progress \in Bags
      /\ Amount(given[k]) = Total(progress)
  BY SiteFacts
<1>2. /\ x \in Bags /\ Total(x) = Total(progress) + Total(free) + Total(paid)
      /\ Contributors(c) /\ Amount(c) = Total(x)
  <2> HIDE DEF k
  <2> QED BY <1>1, PaidIn
<1>3. /\ given' = [given EXCEPT ![k] = c]
      /\ IF Covers(x, Cost[k])
           THEN /\ repaired' = k /\ progress' = Nothing
                /\ player' = [q \in Players |->
                     [After(p, free, paid)[q] EXCEPT !.vp = @ + Awarded(c, VP[k], q)]]
           ELSE progress' = x /\ player' = After(p, free, paid) /\ repaired' = repaired
  BY DEF Paid, After
<1>4. Covers(Cost[k], x) /\ k = repaired + 1
  OBVIOUS
<1> HIDE DEF k, x, c
<1>5. Paying(p, free, paid, k, x, c)
  BY <1>1, <1>2, <1>3, <1>4 DEF Paying
<1> QED BY <1>5

LEMMA GivenKept ==
  ASSUME IInv, NEW p, NEW free, NEW paid, NEW k, NEW x, NEW c,
         Paying(p, free, paid, k, x, c)
  PROVE  /\ GivenOK'
         /\ given'[k] = c /\ \A j \in DOMAIN Cost : j # k => given'[j] = given[j]
<1>1. DOMAIN given = DOMAIN Cost /\ \A j \in DOMAIN Cost : Contributors(given[j])
  BY DEF IInv, GivenOK
<1>2. given' = [given EXCEPT ![k] = c] /\ k \in DOMAIN Cost /\ Contributors(c)
  BY DEF Paying
<1>3. DOMAIN given' = DOMAIN Cost /\ given'[k] = c
      /\ \A j \in DOMAIN Cost : j # k => given'[j] = given[j]
  BY <1>1, <1>2
<1> QED BY <1>1, <1>2, <1>3 DEF GivenOK

LEMMA PartlyPaid ==
  ASSUME IInv, ~ Over, pending' = NoChoice, place' = place,
         NEW p \in Players, NEW free \in Bags, NEW paid \in Bags,
         Covers(player[p].inv, paid), NEW k, NEW x, NEW c,
         Paying(p, free, paid, k, x, c), ~ Covers(x, Cost[k])
  PROVE  IInv'
<1>1. player' = After(p, free, paid) /\ progress' = x /\ repaired' = repaired
      /\ k = repaired + 1 /\ k \in DOMAIN Cost
      /\ x \in Bags /\ Covers(Cost[k], x) /\ Contributors(c) /\ Amount(c) = Total(x)
  BY DEF Paying
<1>2. /\ player' \in [Players -> Person]
      /\ \A q \in Players : Alike(player[q], player'[q])
  BY <1>1, AfterFacts
<1>3. GivenOK' /\ given'[k] = c /\ \A j \in DOMAIN Cost : j # k => given'[j] = given[j]
  BY GivenKept
<1>4. repaired \in Nat /\ k > repaired /\ DOMAIN Cost = 1 .. Len(Cost) /\ Len(Cost) \in Nat
      /\ repaired \in 0 .. Len(Cost) /\ place \in [Locations -> Spot]
  BY <1>1, SiteFacts, WholeIsFit DEF IInv
<1>5. PlayersWhole'
  <2>1. TypeOK'
    BY <1>1, <1>2, <1>4 DEF TypeOK, Bags
  <2>2. InventoryFits' /\ ExhaustedAtZero'
    BY <1>2 DEF Alike, Fit, InventoryFits, ExhaustedAtZero
  <2> QED BY <2>1, <2>2 DEF PlayersWhole
<1>6. BuiltByContributions'
  <2> SUFFICES ASSUME NEW j \in DOMAIN Cost
               PROVE  CASE j <= repaired -> Amount(given'[j]) = Total(Cost[j])
                        [] j = repaired + 1 -> /\ Amount(given'[j]) = Total(x)
                                               /\ Covers(Cost[j], x)
                                               /\ ~ Covers(x, Cost[j])
                        [] OTHER -> given'[j] = <<>>
    BY <1>1 DEF BuiltByContributions
  <2>1. CASE j = k
    BY <1>1, <1>3, <1>4, <2>1
  <2>2. CASE j # k
    BY <1>1, <1>3, <1>4, <2>2 DEF IInv, BuiltByContributions
  <2> QED BY <2>1, <2>2
<1>7. PointsGivenOut'
  <2>1. \A q \in Players : player'[q].vp = player[q].vp
    BY <1>2 DEF Alike
  <2>2. AllVPGivenOut'
    <3>1. [q \in Players |-> player'[q].vp] = [q \in Players |-> player[q].vp]
      BY <2>1
    <3> QED BY <1>1, <3>1 DEF IInv, PointsGivenOut, AllVPGivenOut
  <2>3. EveryoneGetsShare'
    <3> SUFFICES ASSUME NEW q \in Players
                 PROVE  player'[q].vp >= SumFunction([j \in 1 .. repaired |-> FloorOf(q, j)'])
      BY <1>1 DEF EveryoneGetsShare
    <3>1. \A j \in 1 .. repaired : given'[j] = given[j]
      BY <1>1, <1>3, <1>4
    <3>2. \A j \in 1 .. repaired : FloorOf(q, j)' = FloorOf(q, j)
      BY <3>1 DEF FloorOf
    <3>3. [j \in 1 .. repaired |-> FloorOf(q, j)'] = [j \in 1 .. repaired |-> FloorOf(q, j)]
      BY <3>2
    <3>4. player[q].vp >= SumFunction([j \in 1 .. repaired |-> FloorOf(q, j)])
      BY DEF IInv, PointsGivenOut, EveryoneGetsShare
    <3> QED BY <2>1, <3>3, <3>4
  <2> QED BY <2>2, <2>3 DEF PointsGivenOut
<1> QED BY <1>3, <1>5, <1>6, <1>7, NothingPending DEF IInv

\* The component is complete when it holds exactly what it costs.
LEMMA Exactly ==
  ASSUME NEW x \in Bags, NEW y \in Bags, Covers(x, y), Covers(y, x)
  PROVE  Total(x) = Total(y)
<1>1. \A r \in Resources : x[r] \in Nat /\ y[r] \in Nat /\ x[r] >= y[r] /\ y[r] >= x[r]
  BY DEF Covers, Bags
<1>2. x[0] = y[0] /\ x[1] = y[1] /\ x[2] = y[2] /\ x[3] = y[3]
  BY <1>1 DEF Resources
<1> QED BY <1>2 DEF Total

LEMMA NothingYet ==
  ASSUME NEW k \in DOMAIN Cost
  PROVE  Amount(<<>>) = Total(Nothing) /\ Covers(Cost[k], Nothing) /\ ~ Covers(Nothing, Cost[k])
<1>1. Amount(<<>>) = 0
  <2>1. DOMAIN Amounts(<<>>) = {}
    BY DEF Amounts
  <2> QED BY <2>1, SumOnDomain, SumOfNone DEF Amount
<1>2. Cost[k] \in Bags /\ \E r \in Resources : Cost[k][r] > 0
  BY ElementOfSeq, ExpeditionAssumption DEF Bags
<1>3. \A r \in Resources : Nothing[r] = 0 /\ Cost[k][r] \in Nat
  BY <1>2 DEF Nothing, Bags
<1> QED BY <1>1, <1>2, <1>3, NothingFacts DEF Covers

LEMMA Completed ==
  ASSUME IInv, ~ Over, pending' = NoChoice, place' = place,
         NEW p \in Players, NEW free \in Bags, NEW paid \in Bags,
         Covers(player[p].inv, paid), NEW k, NEW x, NEW c,
         Paying(p, free, paid, k, x, c), Covers(x, Cost[k])
  PROVE  IInv'
<1> DEFINE pl == After(p, free, paid)
           extra == [q \in Players |-> Awarded(c, VP[k], q)]
<1>1. /\ player' = [q \in Players |-> [pl[q] EXCEPT !.vp = @ + Awarded(c, VP[k], q)]]
      /\ progress' = Nothing /\ repaired' = k
      /\ k = repaired + 1 /\ k \in DOMAIN Cost
      /\ x \in Bags /\ Covers(Cost[k], x) /\ Contributors(c) /\ Amount(c) = Total(x)
  BY DEF Paying
<1>2. /\ pl \in [Players -> Person] /\ \A q \in Players : Alike(player[q], pl[q])
  BY AfterFacts
<1>3. GivenOK' /\ given'[k] = c /\ \A j \in DOMAIN Cost : j # k => given'[j] = given[j]
  BY GivenKept
<1>4. /\ repaired \in Nat /\ k \in Nat /\ k > repaired
      /\ DOMAIN Cost = 1 .. Len(Cost) /\ Len(Cost) \in Nat
      /\ Cost[k] \in Bags /\ VP[k] \in Nat /\ Total(Cost[k]) > 0
      /\ repaired \in 0 .. Len(Cost) /\ place \in [Locations -> Spot]
  BY <1>1, SiteFacts, WholeIsFit DEF IInv
<1>5. Total(x) = Total(Cost[k]) /\ Amount(c) > 0
  BY <1>1, <1>4, Exactly
<1>6. /\ \A q \in Players :
           /\ extra[q] \in Nat
           /\ SumFunctionOnSet(Shares(c, VP[k]), PaidBy(c, q)) \in Nat
           /\ SumFunctionOnSet(Shares(c, VP[k]), PaidBy(c, q)) <= extra[q]
      /\ SumFunctionOnSet(extra, Players) = VP[k]
  BY <1>1, <1>4, <1>5, AwardedFacts
<1>7. player' = [q \in Players |-> [pl[q] EXCEPT !.vp = @ + extra[q]]]
  BY <1>1
<1> HIDE DEF pl, extra
<1>8. /\ player' \in [Players -> Person] /\ \A q \in Players : Fit(player'[q])
      /\ \A q \in Players : player[q].vp \in Nat /\ player'[q].vp = player[q].vp + extra[q]
  <2>1. ASSUME NEW q \in Players
        PROVE  /\ player'[q] \in Person /\ Fit(player'[q])
               /\ player[q].vp \in Nat /\ player'[q].vp = player[q].vp + extra[q]
    <3> DEFINE a == pl[q]
               b == [a EXCEPT !.vp = @ + extra[q]]
    <3>1. Fit(a) /\ a \in Person /\ a.vp = player[q].vp /\ extra[q] \in Nat
      BY <1>2, <1>6 DEF Alike, Fit
    <3>2. a.vp \in Nat
      BY <3>1, PersonFacts
    <3>3. player'[q] = b
      BY <1>7
    <3> HIDE DEF a
    <3>4. /\ b \in Person /\ b.vp = a.vp + extra[q] /\ b.inv = a.inv
          /\ b.health = a.health /\ b.exhausted = a.exhausted /\ b.artifacts = a.artifacts
      <4>1. a.vp + extra[q] \in Nat
        BY <3>1, <3>2
      <4> QED BY <3>1, <4>1 DEF Person
    <3> HIDE DEF b
    <3>5. Fit(b)
      BY <3>1, <3>4 DEF Fit, CapacityOf
    <3> QED BY <3>1, <3>2, <3>3, <3>4, <3>5
  <2>2. player' = [q \in Players |-> player'[q]]
    BY <1>7
  <2> QED BY <2>1, <2>2
<1>9. PlayersWhole'
  <2>1. TypeOK'
    BY <1>1, <1>4, <1>8, NothingFacts DEF TypeOK, Bags
  <2>2. InventoryFits' /\ ExhaustedAtZero'
    BY <1>8 DEF Fit, InventoryFits, ExhaustedAtZero
  <2> QED BY <2>1, <2>2 DEF PlayersWhole
<1>10. BuiltByContributions'
  <2> SUFFICES ASSUME NEW j \in DOMAIN Cost
               PROVE  CASE j <= k -> Amount(given'[j]) = Total(Cost[j])
                        [] j = k + 1 -> /\ Amount(given'[j]) = Total(Nothing)
                                        /\ Covers(Cost[j], Nothing)
                                        /\ ~ Covers(Nothing, Cost[j])
                        [] OTHER -> given'[j] = <<>>
    BY <1>1 DEF BuiltByContributions
  <2>1. CASE j = k
    BY <1>1, <1>3, <1>4, <1>5, <2>1
  <2>2. CASE j <= repaired
    <3>1. Amount(given[j]) = Total(Cost[j])
      BY <1>4, <2>2 DEF IInv, BuiltByContributions
    <3> QED BY <1>1, <1>3, <1>4, <2>2, <3>1
  <2>3. CASE j > k
    <3>1. given[j] = <<>>
      BY <1>1, <1>4, <2>3 DEF IInv, BuiltByContributions
    <3>2. given'[j] = <<>>
      BY <1>3, <1>4, <2>3, <3>1
    <3> QED BY <1>4, <2>3, <3>2, NothingYet
  <2> QED BY <1>1, <1>4, <2>1, <2>2, <2>3
<1>11. AllVPGivenOut'
  <2> DEFINE old == [q \in Players |-> player[q].vp]
             new == [q \in Players |-> player'[q].vp]
  <2>1. Integral(old, Players) /\ Integral(extra, Players)
        /\ \A q \in Players : new[q] = old[q] + extra[q]
    BY <1>6, <1>8 DEF Integral
  <2>2. SumFunctionOnSet(new, Players)
          = SumFunctionOnSet(old, Players) + SumFunctionOnSet(extra, Players)
    <3> HIDE DEF old, new
    <3> QED BY <2>1, SumOfPlus, ExpeditionAssumption
  <2>3. SumFunction(new) = SumFunctionOnSet(new, Players)
        /\ SumFunction(old) = SumFunctionOnSet(old, Players)
    BY SumOnDomain
  <2>4. SumFunction(old) = SumFunctionOnSet(VP, 1 .. repaired)
    BY DEF IInv, PointsGivenOut, AllVPGivenOut
  <2>5. SumFunctionOnSet(VP, 1 .. k) = SumFunctionOnSet(VP, 1 .. repaired) + VP[k]
    <3>1. \A j \in 1 .. repaired : VP[j] \in Int
      <4>1. 1 .. repaired \subseteq DOMAIN Cost
        BY <1>4
      <4>2. \A j \in DOMAIN Cost : VP[j] \in Nat
        BY ExpeditionAssumption
      <4> QED BY <4>1, <4>2
    <3> QED BY <1>1, <1>4, <3>1, OneMore
  <2>6. SumFunction(new) = SumFunctionOnSet(VP, 1 .. k)
    BY <1>6, <2>2, <2>3, <2>4, <2>5
  <2> QED BY <1>1, <2>6 DEF AllVPGivenOut
<1>12. EveryoneGetsShare'
  <2> SUFFICES ASSUME NEW q \in Players
               PROVE  player'[q].vp >= SumFunction([j \in 1 .. k |-> FloorOf(q, j)'])
    BY <1>1 DEF EveryoneGetsShare
  <2> DEFINE old == [j \in 1 .. repaired |-> FloorOf(q, j)]
             new == [j \in 1 .. k |-> FloorOf(q, j)']
             share == SumFunctionOnSet(Shares(c, VP[k]), PaidBy(c, q))
  <2>1. \A j \in 1 .. repaired : given'[j] = given[j]
    BY <1>1, <1>3, <1>4
  <2>2. \A j \in 1 .. repaired : FloorOf(q, j)' = FloorOf(q, j) /\ FloorOf(q, j) \in Int
    <3> SUFFICES ASSUME NEW j \in 1 .. repaired PROVE FloorOf(q, j) \in Int
      BY <2>1 DEF FloorOf
    <3>1. j \in DOMAIN Cost /\ Amount(given[j]) = Total(Cost[j])
      BY <1>1, <1>4 DEF IInv, BuiltByContributions
    <3>2. Contributors(given[j]) /\ VP[j] \in Nat /\ Cost[j] \in Bags
          /\ \E r \in Resources : Cost[j][r] > 0
      BY <3>1, ElementOfSeq, ExpeditionAssumption DEF IInv, GivenOK, Bags
    <3>3. Amount(given[j]) > 0
      BY <3>1, <3>2, BagFacts
    <3>4. SumFunctionOnSet(Shares(given[j], VP[j]), PaidBy(given[j], q)) \in Nat
      BY <3>2, <3>3, AwardedFacts
    <3> QED BY <3>4 DEF FloorOf
  <2>3. FloorOf(q, k)' = share
    BY <1>1, <1>3 DEF FloorOf
  <2>4. share \in Nat /\ share <= extra[q] /\ extra[q] \in Nat
    BY <1>6
  <2>5. k \in 1 .. k /\ 1 .. repaired \subseteq 1 .. k
    BY <1>1, <1>4
  <2>6. new[k] = share /\ \A j \in 1 .. repaired : old[j] \in Int /\ new[j] = old[j]
    BY <2>2, <2>3, <2>5
  <2>7. SumFunction(new) = SumFunctionOnSet(new, 1 .. k)
        /\ SumFunction(old) = SumFunctionOnSet(old, 1 .. repaired)
    BY SumOnDomain
  <2>8. player[q].vp >= SumFunction(old)
    BY DEF IInv, PointsGivenOut, EveryoneGetsShare
  <2> HIDE DEF old, new, share
  <2>9. SumFunctionOnSet(new, 1 .. k) = SumFunctionOnSet(old, 1 .. repaired) + share
        /\ SumFunctionOnSet(old, 1 .. repaired) \in Int
    BY <1>1, <1>4, <2>4, <2>6, OneMore
  <2>10. player'[q].vp >= SumFunction(new)
    BY <1>8, <2>4, <2>7, <2>8, <2>9
  <2> QED BY <2>10 DEF new
<1> QED BY <1>3, <1>9, <1>10, <1>11, <1>12, NothingPending DEF IInv, PointsGivenOut

LEMMA RepairKeeps ==
  ASSUME IInv, NEW p \in Players, NEW pay \in PartsOf(player[p].inv), Repair(p, pay)
  PROVE  IInv'
<1>1. PICK free \in Bags, paid \in Bags :
        /\ Paid(p, free, paid) /\ Covers(player[p].inv, paid)
        /\ Covers(Cost[repaired + 1], Plus(progress, Plus(free, paid)))
  BY RepairFacts
<1>2. ~ Over /\ pending' = NoChoice /\ place' = place
  BY DEF Repair, MayAct
<1>3. PICK k, x, c : Paying(p, free, paid, k, x, c)
  BY <1>1, <1>2, PaidFacts
<1>4. CASE Covers(x, Cost[k])
  BY <1>1, <1>2, <1>3, <1>4, Completed
<1>5. CASE ~ Covers(x, Cost[k])
  BY <1>1, <1>2, <1>3, <1>5, PartlyPaid
<1> QED BY <1>4, <1>5

-----------------------------------------------------------------------------
(* The invariant.                                                          *)

LEMMA SumOfZeros ==
  ASSUME NEW S, IsFiniteSet(S), NEW z, \A x \in S : z[x] = 0
  PROVE  SumFunctionOnSet(z, S) = 0
<1>1. Integral(z, S) /\ \A x \in S : z[x] = 0 * z[x]
  BY DEF Integral
<1>2. SumFunctionOnSet(z, S) = 0 * SumFunctionOnSet(z, S) /\ SumFunctionOnSet(z, S) \in Int
  BY <1>1, SumOfScaled, SumType
<1> QED BY <1>2

LEMMA InitWhole ==
  ASSUME Init
  PROVE  PlayersWhole
<1> DEFINE q == [at |-> Lighthouse, health |-> MaxHealth, exhausted |-> FALSE,
                 inv |-> Nothing, artifacts |-> {}, discountUsed |-> FALSE, vp |-> 0]
<1>1. q \in Person
  <2>1. Lighthouse \in Locations /\ MaxHealth \in 0 .. MaxHealth
    BY ExpeditionAssumption
  <2> QED BY <2>1, NothingFacts DEF Person, Bags
<1>2. Fit(q)
  <2>1. q.inv = Nothing /\ q.exhausted = FALSE /\ q.health = MaxHealth /\ MaxHealth # 0
    BY ExpeditionAssumption
  <2> HIDE DEF q
  <2>2. CapacityOf(q) \in Nat
    BY CapacityFacts
  <2> QED BY <1>1, <2>1, <2>2, NothingFacts DEF Fit
<1>3. player \in [Players -> Person] /\ \A p \in Players : Fit(player[p])
  <2>1. player = [p \in Players |-> q]
    BY DEF Init
  <2> HIDE DEF q
  <2> QED BY <1>1, <1>2, <2>1
<1>4. place \in [Locations -> Spot]
  <2>1. \A l \in Locations : [stock |-> Yields[l], blocked |-> FALSE] \in Spot
    BY ExpeditionAssumption DEF Spot
  <2> QED BY <2>1 DEF Init
<1>5. progress \in Bags /\ repaired \in 0 .. Len(Cost)
  <2>1. Len(Cost) \in Nat
    BY ExpeditionAssumption
  <2> QED BY <2>1, NothingFacts DEF Init
<1> QED BY <1>3, <1>4, <1>5, WholeIsFit

LEMMA InitGood ==
  ASSUME Init
  PROVE  IInv
<1>1. /\ repaired = 0 /\ progress = Nothing /\ pending = NoChoice
      /\ given = [i \in DOMAIN Cost |-> <<>>]
      /\ \A p \in Players : player[p].vp = 0
  BY DEF Init
<1>2. PriceIsPaid /\ PendingOK
  BY <1>1 DEF PriceIsPaid, PendingOK, NoChoice
<1>3. BuiltByContributions
  <2> SUFFICES ASSUME NEW k \in DOMAIN Cost
               PROVE  CASE k <= 0 -> Amount(given[k]) = Total(Cost[k])
                        [] k = 1 -> /\ Amount(given[k]) = Total(Nothing)
                                    /\ Covers(Cost[k], Nothing)
                                    /\ ~ Covers(Nothing, Cost[k])
                        [] OTHER -> given[k] = <<>>
    BY <1>1 DEF BuiltByContributions
  <2>1. given[k] = <<>> /\ k \in Nat /\ k >= 1
    BY <1>1, ExpeditionAssumption
  <2> QED BY <2>1, NothingYet
<1>4. GivenOK
  <2>1. Contributors(<<>>)
    BY DEF Contributors
  <2> QED BY <1>1, <2>1 DEF GivenOK
<1>5. AllVPGivenOut
  <2> DEFINE z == [p \in Players |-> player[p].vp]
  <2>1. \A p \in Players : z[p] = 0
    BY <1>1
  <2>2. SumFunction(z) = SumFunctionOnSet(z, Players)
    BY SumOnDomain
  <2> HIDE DEF z
  <2>3. SumFunctionOnSet(z, Players) = 0
    BY <2>1, SumOfZeros, ExpeditionAssumption
  <2>4. 1 .. repaired = {}
    BY <1>1
  <2> QED BY <2>2, <2>3, <2>4, SumOfNone DEF AllVPGivenOut, z
<1>6. EveryoneGetsShare
  <2> SUFFICES ASSUME NEW p \in Players
               PROVE  player[p].vp >= SumFunction([k \in 1 .. repaired |-> FloorOf(p, k)])
    BY DEF EveryoneGetsShare
  <2> DEFINE f == [k \in 1 .. repaired |-> FloorOf(p, k)]
  <2>1. SumFunction(f) = SumFunctionOnSet(f, 1 .. repaired) /\ 1 .. repaired = {}
    BY <1>1, SumOnDomain
  <2> HIDE DEF f
  <2>2. SumFunction(f) = 0
    BY <2>1, SumOfNone
  <2> QED BY <1>1, <2>2 DEF f
<1> QED BY <1>2, <1>3, <1>4, <1>5, <1>6, InitWhole DEF IInv, PointsGivenOut

LEMMA NextKeeps ==
  ASSUME IInv, Next
  PROVE  IInv'
<1>1. ASSUME NEW p \in Players, Work(p) PROVE IInv'
  BY <1>1, GatherKeeps, RepairKeeps, TradeKeeps DEF Work
<1>2. ASSUME NEW p \in Players, Rest(p) \/ Wound(p) PROVE IInv'
  BY <1>2, RestKeeps, WoundKeeps
<1>3. ASSUME NEW p \in Players, NEW l \in Locations, Move(p, l) PROVE IInv'
  BY <1>3, MoveKeeps
<1>4. ASSUME NEW p \in Players, NEW card \in MysteryCards, Investigate(p, card)
      PROVE  IInv'
  BY <1>4, InvestigateKeeps
<1>5. ASSUME NEW p \in Players, NEW o \in UNION MysteryCards, Choose(p, o)
      PROVE  IInv'
  BY <1>5, ChooseKeeps
<1>6. ASSUME NEW card \in EventCards, NewRound(card) PROVE IInv'
  BY <1>6, NewRoundKeeps
<1> QED BY <1>1, <1>2, <1>3, <1>4, <1>5, <1>6 DEF Next

\* The invariant is inductive: every reachable state satisfies it.
THEOREM Invariant == Spec => []IInv
<1>1. Init => IInv
  BY InitGood
<1>2. IInv /\ [Next]_vars => IInv'
  <2> SUFFICES ASSUME IInv, [Next]_vars PROVE IInv'
    OBVIOUS
  <2>1. CASE Next
    BY <2>1, NextKeeps
  <2>2. CASE UNCHANGED vars
    BY <2>2 DEF vars, IInv, PlayersWhole, TypeOK, InventoryFits, ExhaustedAtZero,
                PriceIsPaid, BuiltByContributions, PointsGivenOut, AllVPGivenOut,
                EveryoneGetsShare, FloorOf, GivenOK, PendingOK
  <2> QED BY <2>1, <2>2
<1> QED BY <1>1, <1>2, PTL DEF Spec

\* Players never carry more than they can, and are exhausted exactly at health
\* zero, whatever effects, wounds, gifts and repairs they go through in whatever
\* order (core/apply.go damagePlayer and dropExcess, core/effect.go).
THEOREM PlayersStayWhole == Spec => []PlayersWhole
BY Invariant, PTL DEF IInv

\* Every unit in the lighthouse is accounted for by a contributor, and no
\* component holds more than it costs (core/decide.go decideRepair).
THEOREM Contributed == Spec => []BuiltByContributions
BY Invariant, PTL DEF IInv

\* The victory points of a repaired component are all given out, to each
\* contributor at least its share rounded down (distributeComponentVP).
THEOREM PointsAllGiven == Spec => []PointsGivenOut
BY Invariant, PTL DEF IInv

\* What a mystery card offers can still be paid when the choice is made
\* (core/decide_m1.go offerMysteryOptions and decideChooseMystery).
THEOREM PricePaid == Spec => []PriceIsPaid
BY Invariant, PTL DEF IInv

-----------------------------------------------------------------------------
(* Work only moves resources about.                                        *)

Loads == [p \in Players |-> Total(player[p].inv)]
Stores == [l \in Locations |-> Total(place[l].stock)]
Spent == [k \in 1 .. repaired |-> Total(Cost[k])]

LEMMA EverythingIs ==
  /\ Everything = SumFunctionOnSet(Loads, Players) + SumFunctionOnSet(Stores, Locations)
                    + Total(progress) + SumFunctionOnSet(Spent, 1 .. repaired)
  /\ Everything' = SumFunctionOnSet(Loads', Players) + SumFunctionOnSet(Stores', Locations)
                    + Total(progress') + SumFunctionOnSet(Spent', 1 .. repaired')
BY SumOnDomain DEF Everything, Loads, Stores, Spent

\* All the terms are numbers.
LEMMA TermFacts ==
  ASSUME IInv
  PROVE  /\ IsFiniteSet(Players) /\ IsFiniteSet(Locations)
         /\ Integral(Loads, Players) /\ Integral(Stores, Locations)
         /\ SumFunctionOnSet(Loads, Players) \in Int
         /\ SumFunctionOnSet(Stores, Locations) \in Int
         /\ Total(progress) \in Nat /\ SumFunctionOnSet(Spent, 1 .. repaired) \in Int
         /\ Discounts \in Nat /\ IsFiniteSet({p \in Players : player[p].discountUsed})
<1>1. /\ player \in [Players -> Person] /\ place \in [Locations -> Spot] /\ progress \in Bags
      /\ repaired \in 0 .. Len(Cost) /\ IsFiniteSet(Players) /\ IsFiniteSet(Locations)
  BY WholeIsFit, ExpeditionAssumption DEF IInv
<1>2. Integral(Loads, Players)
  BY <1>1, PersonFacts, BagFacts DEF Loads, Integral
<1>3. Integral(Stores, Locations)
  <2> SUFFICES ASSUME NEW l \in Locations PROVE Total(place[l].stock) \in Int
    BY DEF Stores, Integral
  <2>1. place[l].stock \in [Resources -> 0 .. MaxStock] /\ MaxStock \in Nat
    BY <1>1, ExpeditionAssumption DEF Spot
  <2>2. place[l].stock \in Bags
    BY <2>1 DEF Bags
  <2> QED BY <2>2, BagFacts
<1>4. SumFunctionOnSet(Spent, 1 .. repaired) \in Int
  <2>1. IsFiniteSet(1 .. repaired) /\ 1 .. repaired \subseteq DOMAIN Cost
        /\ \A k \in DOMAIN Cost : Cost[k] \in Bags
    <3>1. Cost \in Seq([Resources -> Nat])
      BY ExpeditionAssumption
    <3>2. Len(Cost) \in Nat /\ DOMAIN Cost = 1 .. Len(Cost)
          /\ \A k \in DOMAIN Cost : Cost[k] \in Bags
      BY <3>1, ElementOfSeq DEF Bags
    <3> QED BY <1>1, <3>2, FS_Interval
  <2>2. Integral(Spent, 1 .. repaired)
    BY <2>1, BagFacts DEF Spent, Integral
  <2> QED BY <2>1, <2>2, SumType
<1>5. IsFiniteSet({p \in Players : player[p].discountUsed}) /\ Discounts \in Nat
  BY <1>1, FS_Subset, FS_CardinalityType DEF Discounts
<1> QED BY <1>1, <1>2, <1>3, <1>4, <1>5, SumType, BagFacts

\* Only what p carries changes.
LEMMA LoadOfOne ==
  ASSUME IInv, NEW p \in Players, Total(player'[p].inv) \in Int,
         \A q \in Players \ {p} : Total(player'[q].inv) = Total(player[q].inv)
  PROVE  SumFunctionOnSet(Loads', Players)
           = SumFunctionOnSet(Loads, Players) - Total(player[p].inv) + Total(player'[p].inv)
<1>1. IsFiniteSet(Players) /\ Integral(Loads, Players)
  BY TermFacts
<1>2. /\ \A q \in Players : Loads[q] = Total(player[q].inv) /\ Loads'[q] = Total(player'[q].inv)
  BY DEF Loads
<1>3. Integral(Loads', Players)
  BY <1>1, <1>2 DEF Integral
<1>4. \A q \in Players \ {p} : Loads'[q] = Loads[q]
  BY <1>2
<1>5. SumFunctionOnSet(Loads', Players) = SumFunctionOnSet(Loads, Players) - Loads[p] + Loads'[p]
  BY <1>1, <1>3, <1>4, SumOfChanged
<1> QED BY <1>2, <1>5

\* With the same players marked, as many discounts are used.
LEMMA SameDiscounts ==
  ASSUME \A q \in Players : player'[q].discountUsed = player[q].discountUsed
  PROVE  Discounts' = Discounts
<1>1. {p \in Players : player'[p].discountUsed} = {p \in Players : player[p].discountUsed}
  OBVIOUS
<1> QED BY <1>1 DEF Discounts

LEMMA GatherMoves ==
  ASSUME IInv, NEW p \in Players, NEW r \in Resources, Gather(p, r)
  PROVE  Everything' = Everything + Discounts' - Discounts
<1> DEFINE here == player[p].at
           inv == player[p].inv
           stock == place[here].stock
<1>1. /\ player \in [Players -> Person] /\ place \in [Locations -> Spot] /\ Fit(player[p])
      /\ here \in Locations /\ inv \in Bags
  BY WholeIsFit, PersonFacts DEF IInv
<1>2. PICK n \in Nat : /\ n <= Room(player[p]) /\ n <= stock[r]
                       /\ player' = [player EXCEPT ![p].inv[r] = @ + n]
                       /\ place' = Taken(here, r, n)
  BY Gathered
<1>3. stock \in Bags
  <2>1. stock \in [Resources -> 0 .. MaxStock] /\ MaxStock \in Nat
    BY <1>1, ExpeditionAssumption DEF Spot
  <2> HIDE DEF stock
  <2> QED BY <2>1 DEF Bags
<1>4. /\ player'[p].inv = [inv EXCEPT ![r] = inv[r] + n]
      /\ \A q \in Players \ {p} : player'[q] = player[q]
      /\ \A q \in Players : player'[q].discountUsed = player[q].discountUsed
  BY <1>1, <1>2 DEF Fit, Person
<1>5. /\ place'[here].stock = [stock EXCEPT ![r] = stock[r] + (-n)]
      /\ \A l \in Locations \ {here} : place'[l] = place[l]
  <2>1. stock[r] - n = stock[r] + (-n)
    BY <1>3 DEF Bags
  <2>2. place'[here].stock = [stock EXCEPT ![r] = stock[r] - n]
        /\ \A l \in Locations \ {here} : place'[l] = place[l]
    BY <1>1, <1>2 DEF Taken, Spot
  <2> HIDE DEF stock, here
  <2> QED BY <2>1, <2>2
<1>6. Total(player'[p].inv) = Total(inv) + n /\ Total(inv) \in Nat
  <2>1. inv[r] \in Nat
    BY <1>1 DEF Bags
  <2>2. n \in Int /\ inv[r] + n >= 0
    BY <2>1
  <2>3. Total([inv EXCEPT ![r] = inv[r] + n]) = Total(inv) + n
    BY <1>1, <2>2, OneKind
  <2> QED BY <1>1, <1>4, <2>3, BagFacts
<1>7. Total(place'[here].stock) = Total(stock) + (-n) /\ Total(stock) \in Nat
  <2>1. stock[r] \in Nat
    BY <1>3 DEF Bags
  <2>2. -n \in Int /\ stock[r] + (-n) >= 0
    BY <1>2, <2>1
  <2> HIDE DEF stock
  <2>3. Total([stock EXCEPT ![r] = stock[r] + (-n)]) = Total(stock) + (-n)
    BY <1>3, <2>2, OneKind
  <2> QED BY <1>3, <1>5, <2>3, BagFacts
<1>8. SumFunctionOnSet(Loads', Players) = SumFunctionOnSet(Loads, Players) + n
  <2>1. Total(player'[p].inv) \in Int
    BY <1>6
  <2>2. SumFunctionOnSet(Loads', Players)
          = SumFunctionOnSet(Loads, Players) - Total(inv) + Total(player'[p].inv)
    BY <1>4, <2>1, LoadOfOne
  <2>3. SumFunctionOnSet(Loads, Players) \in Int
    BY TermFacts
  <2> HIDE DEF inv
  <2> QED BY <1>6, <2>2, <2>3
<1>9. SumFunctionOnSet(Stores', Locations) = SumFunctionOnSet(Stores, Locations) - n
  <2>1. /\ Stores[here] = Total(stock) /\ Stores'[here] = Total(place'[here].stock)
        /\ \A l \in Locations \ {here} : Stores'[l] = Stores[l]
    BY <1>1, <1>5 DEF Stores
  <2>2. IsFiniteSet(Locations) /\ Integral(Stores, Locations)
        /\ SumFunctionOnSet(Stores, Locations) \in Int
    BY TermFacts
  <2> HIDE DEF stock, here
  <2>3. Stores'[here] = Total(stock) + (-n) /\ Stores[here] \in Int /\ Stores'[here] \in Int
    BY <1>7, <2>1
  <2>4. Integral(Stores', Locations)
    BY <2>1, <2>2, <2>3 DEF Integral
  <2>5. SumFunctionOnSet(Stores', Locations)
          = SumFunctionOnSet(Stores, Locations) - Stores[here] + Stores'[here]
    BY <1>1, <2>1, <2>2, <2>4, SumOfChanged
  <2> QED BY <2>1, <2>2, <2>3, <2>5
<1>10. progress' = progress /\ repaired' = repaired /\ Spent' = Spent
  BY DEF Gather, Spent
<1>11. Discounts' = Discounts
  BY <1>4, SameDiscounts
<1> QED BY <1>8, <1>9, <1>10, <1>11, EverythingIs, TermFacts

LEMMA TradeMoves ==
  ASSUME IInv, NEW p \in Players, NEW q \in Players,
         NEW gift \in PartsOf(player[p].inv), Trade(p, q, gift)
  PROVE  Everything' = Everything + Discounts' - Discounts
<1> DEFINE x == Minus(player[p].inv, gift)
           y == Plus(player[q].inv, gift)
           mid == [Loads EXCEPT ![p] = Total(x)]
<1>1. /\ player \in [Players -> Person] /\ p # q
      /\ player[p].inv \in Bags /\ player[q].inv \in Bags /\ gift \in Bags
      /\ Covers(player[p].inv, gift)
  BY WholeIsFit, PersonFacts, PartFacts DEF IInv, Trade
<1>2. /\ x \in Bags /\ Total(x) = Total(player[p].inv) - Total(gift)
      /\ y \in Bags /\ Total(y) = Total(player[q].inv) + Total(gift)
      /\ Total(player[p].inv) \in Nat /\ Total(player[q].inv) \in Nat /\ Total(gift) \in Nat
  BY <1>1, PlusFacts, MinusFacts, BagFacts
<1>3. player' = [player EXCEPT ![p].inv = x, ![q].inv = y]
  BY <1>1 DEF Trade
<1> HIDE DEF x, y
<1>4. /\ player'[p].inv = x /\ player'[q].inv = y
      /\ \A s \in Players \ {p, q} : player'[s] = player[s]
      /\ \A s \in Players : player'[s].discountUsed = player[s].discountUsed
  BY <1>1, <1>3 DEF Person
<1>5. IsFiniteSet(Players) /\ Integral(Loads, Players)
      /\ SumFunctionOnSet(Loads, Players) \in Int
  BY TermFacts
<1>6. /\ \A s \in Players : /\ Loads[s] = Total(player[s].inv)
                            /\ Loads'[s] = Total(player'[s].inv)
                            /\ mid[s] = IF s = p THEN Total(x) ELSE Loads[s]
  BY DEF Loads
<1> HIDE DEF mid
<1>7. Integral(mid, Players) /\ Integral(Loads', Players)
  <2>1. \A s \in Players : s = p \/ s = q \/ s \in Players \ {p, q}
    OBVIOUS
  <2>2. Total(x) \in Int /\ Total(y) \in Int
    BY <1>2
  <2>3. \A s \in Players : Loads[s] \in Int
    BY <1>5 DEF Integral
  <2>4. \A s \in Players : Loads'[s] \in Int
    BY <1>4, <1>6, <2>1, <2>2, <2>3
  <2> QED BY <1>6, <2>2, <2>3, <2>4 DEF Integral
<1>8. SumFunctionOnSet(mid, Players) = SumFunctionOnSet(Loads, Players) - Loads[p] + mid[p]
  <2>1. \A s \in Players \ {p} : mid[s] = Loads[s]
    BY <1>6
  <2> QED BY <1>5, <1>7, <2>1, SumOfChanged
<1>9. SumFunctionOnSet(Loads', Players) = SumFunctionOnSet(mid, Players) - mid[q] + Loads'[q]
  <2>1. \A s \in Players \ {q} : Loads'[s] = mid[s]
    BY <1>1, <1>4, <1>6
  <2> QED BY <1>5, <1>7, <2>1, SumOfChanged
<1>10. /\ Loads[p] = Total(player[p].inv) /\ mid[p] = Total(x)
       /\ mid[q] = Total(player[q].inv) /\ Loads'[q] = Total(y)
  BY <1>1, <1>4, <1>6
<1>11. SumFunctionOnSet(Loads', Players) = SumFunctionOnSet(Loads, Players)
  BY <1>2, <1>5, <1>8, <1>9, <1>10
<1>12. /\ progress' = progress /\ repaired' = repaired /\ Spent' = Spent /\ Stores' = Stores
  BY DEF Trade, Spent, Stores
<1>13. Discounts' = Discounts
  BY <1>4, SameDiscounts
<1> QED BY <1>11, <1>12, <1>13, EverythingIs, TermFacts

\* What is paid in is either in progress or spent on the complete component.
LEMMA WhatIsPaidIn ==
  ASSUME IInv, ~ Over, NEW p, NEW free \in Bags, NEW paid \in Bags,
         NEW k, NEW x, NEW c, Paying(p, free, paid, k, x, c)
  PROVE  Total(progress') + SumFunctionOnSet(Spent', 1 .. repaired')
           = Total(progress) + SumFunctionOnSet(Spent, 1 .. repaired)
               + Total(free) + Total(paid)
<1>1. /\ k = repaired + 1 /\ k \in DOMAIN Cost /\ x \in Bags /\ Covers(Cost[k], x)
      /\ Total(x) = Total(progress) + Total(free) + Total(paid)
  BY DEF Paying
<1>2. /\ Total(free) \in Nat /\ Total(paid) \in Nat /\ Total(progress) \in Nat
      /\ SumFunctionOnSet(Spent, 1 .. repaired) \in Int
  BY TermFacts, BagFacts
<1>3. CASE Covers(x, Cost[k])
  <2>1. repaired' = k /\ progress' = Nothing
    BY <1>3 DEF Paying
  <2>2. repaired \in Nat /\ Cost[k] \in Bags /\ DOMAIN Cost = 1 .. Len(Cost) /\ Len(Cost) \in Nat
        /\ \A j \in DOMAIN Cost : Cost[j] \in Bags
    <3>1. \A j \in DOMAIN Cost : Cost[j] \in Bags
      BY ElementOfSeq, ExpeditionAssumption DEF Bags
    <3> QED BY <1>1, <3>1, SiteFacts
  <2>3. Spent' = [j \in 1 .. k |-> Total(Cost[j])]
    BY <2>1 DEF Spent
  <2>4. \A j \in 1 .. repaired : Spent[j] \in Int /\ Spent'[j] = Spent[j]
    <3> SUFFICES ASSUME NEW j \in 1 .. repaired PROVE Spent[j] \in Int /\ Spent'[j] = Spent[j]
      OBVIOUS
    <3>1. j \in DOMAIN Cost /\ j \in 1 .. k
      BY <1>1, <2>2
    <3>2. Spent[j] = Total(Cost[j]) /\ Spent'[j] = Total(Cost[j])
      BY <2>3, <3>1 DEF Spent
    <3>3. Total(Cost[j]) \in Nat
      BY <2>2, <3>1, BagFacts
    <3> QED BY <3>2, <3>3
  <2>5. Spent'[k] = Total(x) /\ Total(x) \in Nat
    <3>1. k \in 1 .. k /\ Total(x) = Total(Cost[k])
      BY <1>1, <1>3, <2>2, Exactly
    <3> QED BY <1>1, <2>3, <3>1, BagFacts
  <2>6. SumFunctionOnSet(Spent', 1 .. repaired + 1)
          = SumFunctionOnSet(Spent, 1 .. repaired) + Spent'[repaired + 1]
    <3>1. Spent'[repaired + 1] \in Int
      BY <1>1, <2>5
    <3> QED BY <2>2, <2>4, <3>1, OneMore
  <2>7. SumFunctionOnSet(Spent', 1 .. repaired')
          = SumFunctionOnSet(Spent, 1 .. repaired) + Total(x)
    BY <1>1, <2>1, <2>5, <2>6
  <2> QED BY <1>1, <1>2, <2>1, <2>7, NothingFacts
<1>4. CASE ~ Covers(x, Cost[k])
  <2>1. repaired' = repaired /\ progress' = x
    BY <1>4 DEF Paying
  <2>2. Spent' = Spent
    BY <2>1 DEF Spent
  <2> QED BY <1>1, <1>2, <2>1, <2>2
<1> QED BY <1>3, <1>4

LEMMA RepairMoves ==
  ASSUME IInv, NEW p \in Players, NEW pay \in PartsOf(player[p].inv), Repair(p, pay)
  PROVE  Everything' = Everything + Discounts' - Discounts
<1>1. PICK free \in Bags, paid \in Bags :
        /\ Paid(p, free, paid) /\ Covers(player[p].inv, paid)
        /\ Covers(Cost[repaired + 1], Plus(progress, Plus(free, paid)))
        /\ IF HasDiscount(p) THEN free # Nothing /\ Total(free) = 1 ELSE free = Nothing
  BY RepairFacts
<1>2. ~ Over /\ place' = place
  BY DEF Repair, MayAct
<1>3. PICK k, x, c : Paying(p, free, paid, k, x, c)
  BY <1>1, <1>2, PaidFacts
<1> DEFINE pl == After(p, free, paid)
<1>4. /\ \A q \in Players \ {p} : pl[q] = player[q]
      /\ pl[p].inv = Minus(player[p].inv, paid)
      /\ pl[p].discountUsed = (player[p].discountUsed \/ free # Nothing)
      /\ Total(Minus(player[p].inv, paid)) = Total(player[p].inv) - Total(paid)
      /\ \A q \in Players : pl[q] \in Person
  BY <1>1, AfterFacts
<1> HIDE DEF pl
<1>5. \A q \in Players : player'[q].inv = pl[q].inv /\ player'[q].discountUsed = pl[q].discountUsed
  <2>1. CASE Covers(x, Cost[k])
    <3>1. \A q \in Players : player'[q] = [pl[q] EXCEPT !.vp = @ + Awarded(c, VP[k], q)]
      BY <1>3, <2>1 DEF Paying, pl
    <3> QED BY <1>4, <3>1 DEF Person
  <2>2. CASE ~ Covers(x, Cost[k])
    BY <1>3, <2>2 DEF Paying, pl
  <2> QED BY <2>1, <2>2
<1>6. SumFunctionOnSet(Loads', Players) = SumFunctionOnSet(Loads, Players) - Total(paid)
  <2>1. player \in [Players -> Person] /\ Total(player[p].inv) \in Nat /\ Total(paid) \in Nat
    BY WholeIsFit, PersonFacts, BagFacts DEF IInv
  <2>2. Total(player'[p].inv) = Total(player[p].inv) - Total(paid)
        /\ \A q \in Players \ {p} : Total(player'[q].inv) = Total(player[q].inv)
    BY <1>4, <1>5
  <2>3. SumFunctionOnSet(Loads', Players)
          = SumFunctionOnSet(Loads, Players) - Total(player[p].inv) + Total(player'[p].inv)
    BY <2>1, <2>2, LoadOfOne
  <2>4. SumFunctionOnSet(Loads, Players) \in Int
    BY TermFacts
  <2> QED BY <2>1, <2>2, <2>3, <2>4
<1>7. Discounts' = Discounts + Total(free)
  <2> DEFINE S == {q \in Players : player[q].discountUsed}
             S1 == {q \in Players : player'[q].discountUsed}
  <2>1. Discounts = Cardinality(S) /\ Discounts' = Cardinality(S1) /\ IsFiniteSet(S)
        /\ Discounts \in Nat
    BY TermFacts DEF Discounts
  <2>2. \A q \in Players \ {p} : player'[q].discountUsed = player[q].discountUsed
    BY <1>4, <1>5
  <2>3. CASE HasDiscount(p)
    <3>1. ~ player[p].discountUsed /\ player'[p].discountUsed /\ Total(free) = 1
      BY <1>1, <1>4, <1>5, <2>3 DEF HasDiscount
    <3>2. S1 = S \cup {p} /\ p \notin S
      BY <2>2, <3>1
    <3> HIDE DEF S, S1
    <3>3. Cardinality(S1) = Cardinality(S) + 1
      BY <2>1, <3>2, FS_AddElement
    <3> QED BY <2>1, <3>1, <3>3
  <2>4. CASE ~ HasDiscount(p)
    <3>1. free = Nothing /\ Total(free) = 0
      BY <1>1, <2>4, NothingFacts
    <3>2. player'[p].discountUsed <=> player[p].discountUsed
      BY <1>4, <1>5, <3>1
    <3>3. S1 = S
      BY <2>2, <3>2
    <3> HIDE DEF S, S1
    <3> QED BY <2>1, <3>1, <3>3
  <2> QED BY <2>3, <2>4
<1>8. Total(progress') + SumFunctionOnSet(Spent', 1 .. repaired')
        = Total(progress) + SumFunctionOnSet(Spent, 1 .. repaired) + Total(free) + Total(paid)
  BY <1>2, <1>3, WhatIsPaidIn
<1>9. Stores' = Stores
  BY <1>2 DEF Stores
<1>10. /\ Total(free) \in Nat /\ Total(paid) \in Nat
       /\ Total(progress') \in Int /\ SumFunctionOnSet(Spent', 1 .. repaired') \in Int
  <2>1. IInv'
    BY RepairKeeps
  <2>2. Total(progress') \in Int
    <3>1. progress' \in Bags
      BY <2>1 DEF IInv, PlayersWhole, TypeOK, Bags
    <3> QED BY <3>1, BagFacts
  <2>3. SumFunctionOnSet(Spent', 1 .. repaired') \in Int
    <3>1. Len(Cost) \in Nat /\ DOMAIN Cost = 1 .. Len(Cost)
          /\ \A j \in DOMAIN Cost : Cost[j] \in Bags
      BY ElementOfSeq, ExpeditionAssumption DEF Bags
    <3>2. repaired' \in 0 .. Len(Cost)
      BY <2>1 DEF IInv, PlayersWhole, TypeOK
    <3>3. IsFiniteSet(1 .. repaired') /\ 1 .. repaired' \subseteq DOMAIN Cost
      BY <3>1, <3>2, FS_Interval
    <3>4. Integral(Spent', 1 .. repaired')
      BY <3>1, <3>3, BagFacts DEF Spent, Integral
    <3> QED BY <3>3, <3>4, SumType
  <2> QED BY <2>2, <2>3, BagFacts
<1> DEFINE P1 == Total(progress')
           C1 == SumFunctionOnSet(Spent', 1 .. repaired')
<1> HIDE DEF P1, C1
<1>11. P1 + C1 = Total(progress) + SumFunctionOnSet(Spent, 1 .. repaired) + Total(free) + Total(paid)
       /\ P1 \in Int /\ C1 \in Int
  BY <1>8, <1>10 DEF P1, C1
<1>12. Everything' = SumFunctionOnSet(Loads', Players) + SumFunctionOnSet(Stores', Locations) + P1 + C1
  BY EverythingIs DEF P1, C1
<1> DEFINE A0 == SumFunctionOnSet(Loads, Players)
           B0 == SumFunctionOnSet(Stores, Locations)
           C0 == SumFunctionOnSet(Spent, 1 .. repaired)
<1>13. /\ Everything = A0 + B0 + Total(progress) + C0
       /\ A0 \in Int /\ B0 \in Int /\ C0 \in Int
       /\ Total(progress) \in Nat /\ Discounts \in Nat
  BY EverythingIs, TermFacts
<1>14. Everything' = (A0 - Total(paid)) + B0 + P1 + C1
  BY <1>6, <1>9, <1>12
<1>15. P1 + C1 = Total(progress) + C0 + Total(free) + Total(paid)
  BY <1>11
<1> HIDE DEF A0, B0, C0
<1>16. Total(free) \in Int /\ Total(paid) \in Int /\ Total(progress) \in Int
       /\ Discounts \in Int /\ P1 \in Int /\ C1 \in Int
  BY <1>10, <1>11, <1>13
<1>17. (A0 - Total(paid)) + B0 + P1 + C1
         = (A0 + B0 + Total(progress) + C0) + (Discounts + Total(free)) - Discounts
  <2> DEFINE t == Total(progress)
             f == Total(free)
             w == Total(paid)
             d == Discounts
  <2>1. /\ A0 \in Int /\ B0 \in Int /\ C0 \in Int /\ P1 \in Int /\ C1 \in Int
        /\ t \in Int /\ f \in Int /\ w \in Int /\ d \in Int /\ P1 + C1 = t + C0 + f + w
    BY <1>13, <1>15, <1>16
  <2> HIDE DEF t, f, w, d
  <2>2. (A0 - w) + B0 + P1 + C1 = (A0 + B0 + t + C0) + (d + f) - d
    BY ONLY <2>1
  <2> QED BY <2>2 DEF t, f, w, d
<1> QED BY <1>7, <1>13, <1>14, <1>17

\* Gathering, repairing and trading create and destroy nothing: what a player
\* has more, a location or another player has less, and what the lighthouse has
\* more somebody paid, but for the unit of each discount (core/decide.go
\* decideGather, decideRepair, decideTrade).
THEOREM WorkOnlyMoves == Spec => WorkConserves
<1> DEFINE Conserved == Everything' = Everything + Discounts' - Discounts
<1>1. ASSUME IInv, NEW p \in Players, Work(p) PROVE Conserved
  BY <1>1, GatherMoves, RepairMoves, TradeMoves DEF Work
<1>2. IInv => (Conserved \/ ~ \E p \in Players : Work(p))
  BY <1>1
<1>3. IInv /\ [Next]_vars =>
        [Touched => (Conserved \/ ~ \E p \in Players : Work(p))]_vars
  BY <1>2
<1> QED BY <1>3, Invariant, PTL DEF Spec, WorkConserves
=============================================================================
