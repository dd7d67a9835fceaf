---------------------------- MODULE IslandProofs ----------------------------
(***************************************************************************)
(* Proofs about Island.  The library's induction principles take an        *)
(* operator as a parameter; here induction is over a set of numbers, which *)
(* is all the sums and the walks of the model need.                        *)
(***************************************************************************)
EXTENDS Island, SequenceTheorems, FiniteSetTheorems, WellFoundedInduction, TLAPS

-----------------------------------------------------------------------------
(* Induction.                                                              *)

\* A set of numbers has a least element.
LEMMA LeastNumber ==
  ASSUME NEW T, T \subseteq Nat, T # {}
  PROVE  \E x \in T : \A y \in T : x <= y
<1> DEFINE R == OpToRel(<, Nat)
<1>1. \A x, y \in Nat : y < x => <<y, x>> \in R
  BY DEF OpToRel
<1>2. IsWellFoundedOn(R, Nat)
  BY NatLessThanWellFounded
<1> HIDE DEF R
<1>3. PICK x \in T : \A y \in T : ~ (<<y, x>> \in R)
  BY <1>2, WFMin
<1>4. \A y \in T : x <= y
  <2>1. \A y \in T : ~ (y < x)
    BY <1>1, <1>3
  <2> QED BY <2>1
<1> QED BY <1>4

\* ... which is what Min gives.
LEMMA MinIsIn ==
  ASSUME NEW T, T \subseteq Nat, T # {}
  PROVE  Min(T) \in T /\ \A y \in T : Min(T) <= y
BY LeastNumber DEF Min

\* Induction: a set with zero and with every successor has every number.
LEMMA AllNumbers ==
  ASSUME NEW T, 0 \in T, \A n \in Nat : n \in T => n + 1 \in T
  PROVE  \A n \in Nat : n \in T
<1> DEFINE U == Nat \ T
<1>1. SUFFICES ASSUME U # {} PROVE FALSE
  OBVIOUS
<1>2. PICK x \in U : \A y \in U : x <= y
  <2>1. U \subseteq Nat
    OBVIOUS
  <2> HIDE DEF U
  <2> QED BY <1>1, <2>1, LeastNumber
<1>3. x # 0 /\ x - 1 \in Nat /\ ~ (x <= x - 1)
  OBVIOUS
<1>4. x - 1 \in T
  BY <1>2, <1>3
<1> QED BY <1>3, <1>4

-----------------------------------------------------------------------------
(* Sums.                                                                   *)

\* The function Sum recurs with, and its equation
Picked(s) == CHOOSE x \in s : TRUE
Adds(f, g, D) ==
  g = [s \in D |-> IF s = {} THEN 0 ELSE f[Picked(s)] + g[s \ {Picked(s)}]]
Part(f) == CHOOSE g : Adds(f, g, SUBSET DOMAIN f)

LEMMA SumIsPart ==
  ASSUME NEW f
  PROVE  Sum(f) = Part(f)[DOMAIN f]
BY DEF Sum, MapThenSumSet, MapThenFoldSet, Part, Adds, Picked

\* The sets of at most n elements, up to which a function of sets is built.
UpTo(S, n) == {s \in SUBSET S : Cardinality(s) <= n}

LEMMA SmallerSets ==
  ASSUME NEW S, IsFiniteSet(S), NEW n \in Nat, NEW s \in UpTo(S, n + 1), s # {}
  PROVE  Picked(s) \in s /\ s \ {Picked(s)} \in UpTo(S, n)
<1>1. Picked(s) \in s
  BY DEF Picked
<1>2. s \in SUBSET S /\ IsFiniteSet(s) /\ Cardinality(s) \in Nat /\ Cardinality(s) <= n + 1
  BY FS_Subset, FS_CardinalityType DEF UpTo
<1>3. Cardinality(s \ {Picked(s)}) = Cardinality(s) - 1
  BY <1>1, <1>2, FS_RemoveElement
<1> QED BY <1>1, <1>2, <1>3 DEF UpTo

LEMMA UpToAll ==
  ASSUME NEW S, IsFiniteSet(S)
  PROVE  UpTo(S, Cardinality(S)) = SUBSET S
BY FS_Subset, FS_CardinalityType DEF UpTo

LEMMA UpToNone ==
  ASSUME NEW S, IsFiniteSet(S)
  PROVE  UpTo(S, 0) = {{}}
<1>1. \A s \in UpTo(S, 0) : s = {}
  <2> TAKE s \in UpTo(S, 0)
  <2>1. IsFiniteSet(s) /\ Cardinality(s) \in Nat /\ Cardinality(s) <= 0
    BY FS_Subset, FS_CardinalityType DEF UpTo
  <2> QED BY <2>1, FS_EmptySet
<1>2. {} \in UpTo(S, 0)
  BY FS_EmptySet DEF UpTo
<1> QED BY <1>1, <1>2

\* Sum's recursion has a solution, whose values are integers.
LEMMA SomeAdds ==
  ASSUME NEW S, IsFiniteSet(S), NEW f \in [S -> Int], NEW n \in Nat
  PROVE  \E g \in [UpTo(S, n) -> Int] : Adds(f, g, UpTo(S, n))
<1> DEFINE T == {m \in Nat : \E g \in [UpTo(S, m) -> Int] : Adds(f, g, UpTo(S, m))}
<1>1. 0 \in T
  <2> DEFINE g == [s \in UpTo(S, 0) |-> 0]
  <2>1. g \in [UpTo(S, 0) -> Int]
    OBVIOUS
  <2>2. Adds(f, g, UpTo(S, 0))
    BY UpToNone DEF Adds
  <2> QED BY <2>1, <2>2
<1>2. ASSUME NEW m \in Nat, m \in T
      PROVE  m + 1 \in T
  <2>1. PICK g \in [UpTo(S, m) -> Int] : Adds(f, g, UpTo(S, m))
    BY <1>2
  <2> DEFINE D == UpTo(S, m + 1)
             h == [s \in D |-> IF s = {} THEN 0
                               ELSE f[Picked(s)] + g[s \ {Picked(s)}]]
  <2>2. \A s \in D : s # {} =>
          /\ Picked(s) \in S /\ s \ {Picked(s)} \in UpTo(S, m)
          /\ f[Picked(s)] + g[s \ {Picked(s)}] \in Int
    <3> SUFFICES ASSUME NEW s \in D, s # {}
                 PROVE  /\ Picked(s) \in S /\ s \ {Picked(s)} \in UpTo(S, m)
                        /\ f[Picked(s)] + g[s \ {Picked(s)}] \in Int
      OBVIOUS
    <3>1. Picked(s) \in s /\ s \ {Picked(s)} \in UpTo(S, m)
      BY SmallerSets
    <3>2. Picked(s) \in S
      BY <3>1 DEF UpTo
    <3> QED BY <3>1, <3>2
  <2>3. h \in [D -> Int]
    BY <2>2
  <2>4. \A s \in UpTo(S, m) : s \in D /\ h[s] = g[s]
    <3>1. UpTo(S, m) \subseteq D
      <4> SUFFICES ASSUME NEW s \in UpTo(S, m) PROVE s \in D
        OBVIOUS
      <4>1. s \in SUBSET S /\ Cardinality(s) \in Nat /\ Cardinality(s) <= m
        BY FS_Subset, FS_CardinalityType DEF UpTo
      <4> QED BY <4>1 DEF UpTo
    <3> QED BY <2>1, <3>1 DEF Adds
  <2>5. Adds(f, h, D)
    <3>1. \A s \in D : s # {} => h[s \ {Picked(s)}] = g[s \ {Picked(s)}]
      BY <2>2, <2>4
    <3>2. h = [s \in D |-> IF s = {} THEN 0 ELSE f[Picked(s)] + h[s \ {Picked(s)}]]
      BY <3>1
    <3> HIDE DEF h, D
    <3> QED BY <3>2 DEF Adds
  <2> HIDE DEF h
  <2> QED BY <2>3, <2>5
<1> HIDE DEF T
<1>3. n \in T
  BY <1>1, <1>2, AllNumbers
<1> QED BY <1>3 DEF T

LEMMA PartFacts ==
  ASSUME NEW S, IsFiniteSet(S), NEW f \in [S -> Int]
  PROVE  /\ Part(f)[{}] = 0
         /\ \A s \in SUBSET S :
              s # {} => Part(f)[s] = f[Picked(s)] + Part(f)[s \ {Picked(s)}]
<1>1. \E g \in [UpTo(S, Cardinality(S)) -> Int] : Adds(f, g, UpTo(S, Cardinality(S)))
  BY SomeAdds, FS_CardinalityType
<1>2. UpTo(S, Cardinality(S)) = SUBSET S
  BY UpToAll
<1>3. Adds(f, Part(f), SUBSET S)
  <2>1. \E g : Adds(f, g, SUBSET S)
    BY <1>1, <1>2
  <2> QED BY <2>1 DEF Part
<1> HIDE DEF Part
<1> QED BY <1>3 DEF Adds

LEMMA PartType ==
  ASSUME NEW S, IsFiniteSet(S), NEW f \in [S -> Int]
  PROVE  \A s \in SUBSET S : Part(f)[s] \in Int
<1> DEFINE T == {n \in Nat : \A s \in UpTo(S, n) : Part(f)[s] \in Int}
<1>1. 0 \in T
  <2>1. UpTo(S, 0) = {{}} /\ Part(f)[{}] = 0
    BY UpToNone, PartFacts
  <2> QED BY <2>1
<1>2. ASSUME NEW n \in Nat, n \in T
      PROVE  n + 1 \in T
  <2> SUFFICES ASSUME NEW s \in UpTo(S, n + 1)
               PROVE  Part(f)[s] \in Int
    BY <1>2
  <2>1. CASE s = {}
    BY <2>1, PartFacts
  <2>2. CASE s # {}
    <3>1. Picked(s) \in s /\ s \ {Picked(s)} \in UpTo(S, n)
      BY <2>2, SmallerSets
    <3>2. s \in SUBSET S
      BY DEF UpTo
    <3>3. Part(f)[s \ {Picked(s)}] \in Int /\ f[Picked(s)] \in Int
      BY <1>2, <3>1, <3>2
    <3>4. Part(f)[s] = f[Picked(s)] + Part(f)[s \ {Picked(s)}]
      BY <2>2, <3>2, PartFacts
    <3> QED BY <3>3, <3>4
  <2> QED BY <2>1, <2>2
<1> HIDE DEF T
<1>3. Cardinality(S) \in T
  BY <1>1, <1>2, AllNumbers, FS_CardinalityType
<1> QED BY <1>3, UpToAll DEF T

\* Any element may be taken out first.
LEMMA AnyFirst ==
  ASSUME NEW S, IsFiniteSet(S), NEW f \in [S -> Int]
  PROVE  \A s \in SUBSET S : \A x \in s : Part(f)[s] = f[x] + Part(f)[s \ {x}]
<1> DEFINE T == {n \in Nat : \A s \in UpTo(S, n) : \A x \in s :
                               Part(f)[s] = f[x] + Part(f)[s \ {x}]}
<1>1. 0 \in T
  <2>1. UpTo(S, 0) = {{}}
    BY UpToNone
  <2> QED BY <2>1
<1>2. ASSUME NEW n \in Nat, n \in T
      PROVE  n + 1 \in T
  <2> SUFFICES ASSUME NEW s \in UpTo(S, n + 1), NEW x \in s
               PROVE  Part(f)[s] = f[x] + Part(f)[s \ {x}]
    BY <1>2
  <2> DEFINE c == Picked(s)
  <2>1. c \in s /\ s \ {c} \in UpTo(S, n) /\ s \in SUBSET S
    BY SmallerSets DEF UpTo
  <2>2. Part(f)[s] = f[c] + Part(f)[s \ {c}]
    BY <2>1, PartFacts
  <2>3. CASE x = c
    BY <2>2, <2>3
  <2>4. CASE x # c
    <3> DEFINE r == (s \ {c}) \ {x}
               u == s \ {x}
    <3>1. x \in s \ {c} /\ c \in u /\ u \ {c} = r /\ u \in SUBSET S /\ r \in SUBSET S
      BY <2>1, <2>4
    <3>2. Part(f)[s \ {c}] = f[x] + Part(f)[r]
      BY <1>2, <2>1, <3>1
    <3>3. u \in UpTo(S, n)
      <4>1. IsFiniteSet(s) /\ Cardinality(s) \in Nat /\ Cardinality(s) <= n + 1
        BY <2>1, FS_Subset, FS_CardinalityType DEF UpTo
      <4>2. Cardinality(u) = Cardinality(s) - 1
        BY <4>1, FS_RemoveElement
      <4> HIDE DEF u
      <4> QED BY <3>1, <4>1, <4>2 DEF UpTo
    <3> HIDE DEF u, c, r
    <3>4. Part(f)[u] = f[c] + Part(f)[r]
      BY <1>2, <3>1, <3>3
    <3>5. f[c] \in Int /\ f[x] \in Int /\ Part(f)[r] \in Int
      BY <2>1, <3>1, PartType
    <3>6. Part(f)[s] = f[c] + (f[x] + Part(f)[r])
      BY <2>2, <3>2
    <3> HIDE DEF Part
    <3>7. Part(f)[s] = f[x] + Part(f)[u]
      BY <3>4, <3>5, <3>6
    <3> QED BY <3>7 DEF u
  <2> QED BY <2>3, <2>4
<1> HIDE DEF T
<1>3. Cardinality(S) \in T
  BY <1>1, <1>2, AllNumbers, FS_CardinalityType
<1>4. UpTo(S, Cardinality(S)) = SUBSET S
  BY UpToAll
<1> QED BY <1>3, <1>4 DEF T

\* Only the values on a set matter to its sum.
LEMMA SameParts ==
  ASSUME NEW S, IsFiniteSet(S), NEW f \in [S -> Int],
         NEW R, IsFiniteSet(R), NEW g \in [R -> Int],
         NEW U \in SUBSET (R \cap S), \A x \in U : f[x] = g[x]
  PROVE  Part(f)[U] = Part(g)[U]
<1> DEFINE T == {n \in Nat : \A s \in UpTo(U, n) : Part(f)[s] = Part(g)[s]}
<1>0. IsFiniteSet(U)
  BY FS_Subset
<1>1. 0 \in T
  <2>1. UpTo(U, 0) = {{}} /\ Part(f)[{}] = 0 /\ Part(g)[{}] = 0
    BY <1>0, UpToNone, PartFacts
  <2> QED BY <2>1
<1>2. ASSUME NEW n \in Nat, n \in T
      PROVE  n + 1 \in T
  <2> SUFFICES ASSUME NEW s \in UpTo(U, n + 1)
               PROVE  Part(f)[s] = Part(g)[s]
    BY <1>2
  <2>1. CASE s = {}
    BY <2>1, PartFacts
  <2>2. CASE s # {}
    <3> DEFINE c == Picked(s)
    <3>1. c \in s /\ s \ {c} \in UpTo(U, n)
      BY <1>0, <2>2, SmallerSets
    <3>2. s \in SUBSET U /\ s \in SUBSET S /\ s \in SUBSET R
      BY DEF UpTo
    <3>3. Part(f)[s \ {c}] = Part(g)[s \ {c}] /\ f[c] = g[c]
      BY <1>2, <3>1, <3>2
    <3>4. Part(f)[s] = f[c] + Part(f)[s \ {c}]
      BY <2>2, <3>2, PartFacts
    <3>5. Part(g)[s] = g[c] + Part(g)[s \ {c}]
      BY <2>2, <3>2, PartFacts
    <3> QED BY <3>3, <3>4, <3>5
  <2> QED BY <2>1, <2>2
<1> HIDE DEF T
<1>3. Cardinality(U) \in T
  BY <1>0, <1>1, <1>2, AllNumbers, FS_CardinalityType
<1>4. UpTo(U, Cardinality(U)) = SUBSET U
  BY <1>0, UpToAll
<1> QED BY <1>3, <1>4 DEF T

\* The sum of a function that differs in one place.
LEMMA SumOfChanged ==
  ASSUME NEW S, IsFiniteSet(S), NEW f \in [S -> Int], NEW g \in [S -> Int], NEW x \in S,
         \A y \in S \ {x} : g[y] = f[y]
  PROVE  Sum(g) = Sum(f) - f[x] + g[x]
<1>1. Sum(f) = Part(f)[S] /\ Sum(g) = Part(g)[S]
  BY SumIsPart
<1>2. Part(f)[S] = f[x] + Part(f)[S \ {x}]
  BY AnyFirst
<1>3. Part(g)[S] = g[x] + Part(g)[S \ {x}]
  BY AnyFirst
<1>4. Part(f)[S \ {x}] = Part(g)[S \ {x}]
  <2>1. S \ {x} \in SUBSET (S \cap S)
    OBVIOUS
  <2> QED BY <2>1, SameParts
<1>5. f[x] \in Int /\ g[x] \in Int /\ Part(f)[S \ {x}] \in Int
  <2>1. S \ {x} \in SUBSET S
    OBVIOUS
  <2> QED BY <2>1, PartType
<1> QED BY <1>1, <1>2, <1>3, <1>4, <1>5

LEMMA SumType ==
  ASSUME NEW S, IsFiniteSet(S), NEW f \in [S -> Int]
  PROVE  Sum(f) \in Int
<1>1. Sum(f) = Part(f)[S]
  BY SumIsPart
<1>2. S \in SUBSET S
  OBVIOUS
<1> QED BY <1>1, <1>2, PartType

LEMMA SumOfZeros ==
  ASSUME NEW S, IsFiniteSet(S), NEW f \in [S -> Int], \A x \in S : f[x] = 0
  PROVE  Sum(f) = 0
<1> DEFINE T == {n \in Nat : \A s \in UpTo(S, n) : Part(f)[s] = 0}
<1>1. 0 \in T
  <2>1. UpTo(S, 0) = {{}} /\ Part(f)[{}] = 0
    BY UpToNone, PartFacts
  <2> QED BY <2>1
<1>2. ASSUME NEW n \in Nat, n \in T
      PROVE  n + 1 \in T
  <2> SUFFICES ASSUME NEW s \in UpTo(S, n + 1)
               PROVE  Part(f)[s] = 0
    BY <1>2
  <2>1. CASE s = {}
    BY <2>1, PartFacts
  <2>2. CASE s # {}
    <3>1. Picked(s) \in s /\ s \ {Picked(s)} \in UpTo(S, n)
      BY <2>2, SmallerSets
    <3>2. s \in SUBSET S
      BY DEF UpTo
    <3>3. Part(f)[s \ {Picked(s)}] = 0 /\ f[Picked(s)] = 0
      BY <1>2, <3>1, <3>2
    <3>4. Part(f)[s] = f[Picked(s)] + Part(f)[s \ {Picked(s)}]
      BY <2>2, <3>2, PartFacts
    <3> QED BY <3>3, <3>4
  <2> QED BY <2>1, <2>2
<1> HIDE DEF T
<1>3. Cardinality(S) \in T
  BY <1>1, <1>2, AllNumbers, FS_CardinalityType
<1>4. UpTo(S, Cardinality(S)) = SUBSET S
  BY UpToAll
<1>5. Sum(f) = Part(f)[S] /\ S \in SUBSET S
  BY SumIsPart
<1> QED BY <1>3, <1>4, <1>5 DEF T

-----------------------------------------------------------------------------
(* Recursion along the numbers.                                            *)

\* The first n values of a recursion
Runs(x, step, n, g) ==
  g[0] = x /\ \A k \in 1 .. n : g[k] = step[k][g[k - 1]]

\* A function with steps inside a set has a value there for every number.
LEMMA Iterates ==
  ASSUME NEW S, NEW x \in S, NEW step \in [Nat -> [S -> S]], NEW n \in Nat
  PROVE  \E g \in [0 .. n -> S] : Runs(x, step, n, g)
<1> DEFINE T == {m \in Nat : \E g \in [0 .. m -> S] : Runs(x, step, m, g)}
<1>1. 0 \in T
  <2>1. [k \in 0 .. 0 |-> x] \in [0 .. 0 -> S]
    OBVIOUS
  <2>2. Runs(x, step, 0, [k \in 0 .. 0 |-> x])
    BY DEF Runs
  <2> QED BY <2>1, <2>2
<1>2. ASSUME NEW m \in Nat, m \in T
      PROVE  m + 1 \in T
  <2>1. PICK g \in [0 .. m -> S] : Runs(x, step, m, g)
    BY <1>2
  <2> DEFINE h == [k \in 0 .. m + 1 |-> IF k = m + 1 THEN step[m + 1][g[m]] ELSE g[k]]
  <2>2. step[m + 1][g[m]] \in S
    <3>1. g[m] \in S /\ step[m + 1] \in [S -> S]
      OBVIOUS
    <3> QED BY <3>1
  <2>3. h \in [0 .. m + 1 -> S]
    <3>1. ASSUME NEW k \in 0 .. m + 1 PROVE h[k] \in S
      <4>1. CASE k = m + 1
        BY <2>2, <4>1
      <4>2. CASE k # m + 1
        BY <4>2
      <4> QED BY <4>1, <4>2
    <3> QED BY <3>1
  <2>4. Runs(x, step, m + 1, h)
    <3>1. h[0] = x
      BY <2>1 DEF Runs
    <3>2. ASSUME NEW k \in 1 .. m + 1 PROVE h[k] = step[k][h[k - 1]]
      <4>1. CASE k = m + 1
        BY <4>1
      <4>2. CASE k # m + 1
        <5>1. k \in 1 .. m /\ k - 1 \in 0 .. m
          BY <4>2
        <5>2. h[k] = g[k] /\ h[k - 1] = g[k - 1]
          BY <5>1
        <5> QED BY <2>1, <5>1, <5>2 DEF Runs
      <4> QED BY <4>1, <4>2
    <3> HIDE DEF h
    <3> QED BY <3>1, <3>2 DEF Runs
  <2> HIDE DEF h
  <2> QED BY <2>3, <2>4
<1> HIDE DEF T
<1>3. n \in T
  BY <1>1, <1>2, AllNumbers
<1> QED BY <1>3 DEF T

-----------------------------------------------------------------------------
(* The walk of a monster.                                                  *)

LEMMA PlacesFacts ==
  /\ Len(Places) \in Nat /\ DOMAIN Places = 1 .. Len(Places)
  /\ Places \in [1 .. Len(Places) -> Loc]
  /\ \A i, j \in 1 .. Len(Places) : Places[i] = Places[j] => i = j
<1>1. Places \in Seq(Loc) /\ \A i, j \in DOMAIN Places : Places[i] = Places[j] => i = j
  BY ContentAssumption
<1> QED BY <1>1

LEMMA Neighbours ==
  ASSUME NEW l \in Loc, NEW m \in Near(l)
  PROVE  m \in Loc /\ l \in Near(m) /\ l # m
<1>1. \A x \in Loc : \A y \in Near(x) : y \in Loc /\ x \in Near(y) /\ x # y
  BY ContentAssumption
<1> QED BY <1>1

LEMMA BudgetType ==
  ASSUME NEW d \in Nat
  PROVE  Budget(d) \in Nat
<1>1. Bonus \in Nat /\ BonusAt \in Nat
  BY ContentAssumption
<1> QED BY <1>1 DEF Budget

LEMMA LocFinite == IsFiniteSet(Loc)
<1>1. Places \in [1 .. Len(Places) -> Loc] /\ DOMAIN Places = 1 .. Len(Places)
      /\ Len(Places) \in Nat
  BY PlacesFacts
<1>2. Places \in Surjection(1 .. Len(Places), Loc)
  BY <1>1 DEF Surjection, Loc
<1> QED BY <1>1, <1>2, FS_Interval, FS_Surjection

\* How far bfsBoard gets from a place in k steps
Grows(ex, from, g) ==
  g = [k \in 0 .. Far |->
         IF k = 0 THEN {from}
         ELSE g[k - 1] \cup {l \in ex : Near(l) \cap g[k - 1] # {}}]
Reach(ex, from) == CHOOSE g : Grows(ex, from, g)

LEMMA ReachGrows ==
  ASSUME NEW ex \in SUBSET Loc, NEW from \in Loc
  PROVE  Grows(ex, from, Reach(ex, from)) /\ Far \in Nat
<1> DEFINE more(X) == X \cup {l \in ex : Near(l) \cap X # {}}
           step == [k \in Nat |-> [X \in SUBSET Loc |-> more(X)]]
<1>1. Far \in Nat
  BY PlacesFacts DEF Far
<1>2. step \in [Nat -> [SUBSET Loc -> SUBSET Loc]]
  OBVIOUS
<1>3. PICK g \in [0 .. Far -> SUBSET Loc] : Runs({from}, step, Far, g)
  <2>1. {from} \in SUBSET Loc
    OBVIOUS
  <2> HIDE DEF step
  <2> QED BY <1>1, <1>2, <2>1, Iterates
<1>4. Grows(ex, from, g)
  <2>1. ASSUME NEW k \in 0 .. Far, k # 0
        PROVE  g[k] = more(g[k - 1])
    <3>1. k \in 1 .. Far /\ k - 1 \in 0 .. Far /\ k \in Nat
      BY <1>1, <2>1
    <3>2. g[k] = step[k][g[k - 1]] /\ g[k - 1] \in SUBSET Loc
      BY <1>3, <3>1 DEF Runs
    <3> HIDE DEF more
    <3> QED BY <3>1, <3>2
  <2>2. g[0] = {from}
    BY <1>3 DEF Runs
  <2>3. g = [k \in 0 .. Far |-> IF k = 0 THEN {from} ELSE more(g[k - 1])]
    <3> HIDE DEF more
    <3> QED BY <2>1, <2>2
  <2> QED BY <2>3 DEF Grows
<1> QED BY <1>1, <1>4 DEF Reach

LEMMA ReachStep ==
  ASSUME NEW ex \in SUBSET Loc, NEW from \in Loc
  PROVE  /\ Far \in Nat /\ Reach(ex, from)[0] = {from}
         /\ \A k \in Nat : k + 1 <= Far =>
              Reach(ex, from)[k + 1] =
                Reach(ex, from)[k] \cup {l \in ex : Near(l) \cap Reach(ex, from)[k] # {}}
<1> DEFINE more(X) == X \cup {l \in ex : Near(l) \cap X # {}}
           g == Reach(ex, from)
<1>1. Grows(ex, from, g) /\ Far \in Nat
  BY ReachGrows
<1> HIDE DEF g
<1>2. g = [j \in 0 .. Far |-> IF j = 0 THEN {from} ELSE more(g[j - 1])]
  BY <1>1, Zenon DEF Grows
<1>3. \A k \in Nat : k + 1 <= Far =>
        k + 1 \in 0 .. Far /\ k + 1 # 0 /\ (k + 1) - 1 = k
  BY <1>1
<1> HIDE DEF more
<1>4. g[0] = {from}
  <2>1. 0 \in 0 .. Far
    BY <1>1
  <2> QED BY <1>2, <2>1
<1>5. ASSUME NEW k \in Nat, k + 1 <= Far
      PROVE  g[k + 1] = more(g[k])
  BY <1>2, <1>3, <1>5
<1> QED BY <1>1, <1>4, <1>5 DEF g, more

\* What Steps says of a place that can be reached
LEMMA StepsFacts ==
  ASSUME NEW b, b.explored \in SUBSET Loc, NEW from \in Loc, NEW to \in Loc
  PROVE  /\ Steps(b, from, to) \in 0 .. Far
         /\ \A k \in 0 .. Far : to \in Reach(b.explored, from)[k] => Steps(b, from, to) <= k
         /\ Reaches(b, from, to) => to \in Reach(b.explored, from)[Steps(b, from, to)]
<1> DEFINE g == Reach(b.explored, from)
           T == {k \in 0 .. Far - 1 : to \in g[k]} \cup {Far}
<1>1. Far \in Nat
  BY ReachGrows
<1>2. Steps(b, from, to) = Min(T)
  BY DEF Steps, Distances, Reach, Grows
<1>3. Min(T) \in T /\ \A k \in T : Min(T) <= k
  <2>1. T \subseteq Nat /\ T # {}
    BY <1>1
  <2> HIDE DEF T
  <2> QED BY <2>1, MinIsIn
<1>4. \A k \in 0 .. Far : to \in g[k] => k \in T
  BY <1>1
<1> HIDE DEF g
<1>5. T \subseteq 0 .. Far
  BY <1>1
<1>6. \A k \in T : k < Far => to \in g[k]
  BY <1>1
<1> HIDE DEF T
<1>7. Reaches(b, from, to) => to \in g[Steps(b, from, to)]
  BY <1>2, <1>3, <1>6 DEF Reaches
<1> QED BY <1>1, <1>2, <1>3, <1>4, <1>5, <1>7 DEF g

LEMMA TowardExplored ==
  ASSUME NEW b, b.explored \subseteq Loc, NEW from \in b.explored, NEW to
  PROVE  /\ StepToward(b, from, to) \in b.explored
         /\ StepToward(b, from, to) = from \/ from \in Near(StepToward(b, from, to))
<1> DEFINE closer == {i \in DOMAIN Adjacent[from] :
                        /\ Adjacent[from][i] \in b.explored /\ Reaches(b, to, from)
                        /\ Steps(b, to, Adjacent[from][i]) < Steps(b, to, from)}
<1>1. closer \subseteq Nat
  BY ContentAssumption
<1>2. closer # {} =>
        /\ Adjacent[from][Min(closer)] \in b.explored
        /\ Adjacent[from][Min(closer)] \in Near(from)
  <2>1. closer # {} => Min(closer) \in closer
    <3> HIDE DEF closer
    <3> QED BY <1>1, MinIsIn
  <2> QED BY <2>1 DEF Near
<1>3. StepToward(b, from, to) =
        IF closer = {} THEN from ELSE Adjacent[from][Min(closer)]
  BY DEF StepToward
<1>4. \A m \in Near(from) : from \in Near(m)
  BY ContentAssumption
<1> HIDE DEF closer
<1> QED BY <1>2, <1>3, <1>4

Strolls(b, t, from, n, w) ==
  w = [k \in 0 .. n |-> IF k = 0 THEN from
                     ELSE IF Here(t, w[k - 1]) # {} THEN w[k - 1]
                     ELSE StepToward(b, w[k - 1], Target(b, t, from))]

\* Goal is where a walk ends that follows Strolls.
LEMMA GoalWalk ==
  ASSUME NEW b, b.explored \subseteq Loc, NEW from \in b.explored, NEW t, NEW d \in Nat
  PROVE  \E w : /\ Strolls(b, t, from, Budget(d), w)
                /\ Goal(b, t, from, d) = w[Budget(d)]
<1> DEFINE n == Budget(d)
           to == Target(b, t, from)
           on(l) == IF Here(t, l) # {} THEN l ELSE StepToward(b, l, to)
           step == [k \in Nat |-> [l \in b.explored |-> on(l)]]
           w == CHOOSE v : Strolls(b, t, from, n, v)
<1>1. n \in Nat
  BY BudgetType
<1>2. \A l \in b.explored : on(l) \in b.explored /\ (on(l) = l \/ l \in Near(on(l)))
  BY TowardExplored
<1>3. step \in [Nat -> [b.explored -> b.explored]]
  BY <1>2
<1>4. PICK v \in [0 .. n -> b.explored] : Runs(from, step, n, v)
  <2> HIDE DEF step, n
  <2> QED BY <1>1, <1>3, Iterates
<1>5. \E u : Strolls(b, t, from, n, u)
  <2>1. \A k \in 0 .. n : k # 0 =>
          k \in 1 .. n /\ k - 1 \in 0 .. n /\ v[k - 1] \in b.explored /\ v[k] = on(v[k - 1])
    <3> SUFFICES ASSUME NEW k \in 0 .. n, k # 0
                 PROVE  /\ k \in 1 .. n /\ k - 1 \in 0 .. n /\ v[k - 1] \in b.explored
                        /\ v[k] = on(v[k - 1])
      OBVIOUS
    <3> HIDE DEF on, n
    <3>1. k \in 1 .. n /\ k - 1 \in 0 .. n /\ k \in Nat
      BY <1>1
    <3>2. v[k] = step[k][v[k - 1]] /\ v[k - 1] \in b.explored
      BY <1>4, <3>1 DEF Runs
    <3> QED BY <3>1, <3>2
  <2>2. v[0] = from
    BY <1>4 DEF Runs
  <2>3. v = [k \in 0 .. n |-> IF k = 0 THEN from ELSE on(v[k - 1])]
    <3> HIDE DEF on
    <3> QED BY <2>1, <2>2
  <2> QED BY <2>3 DEF Strolls
<1>6. Strolls(b, t, from, n, w)
  BY <1>5
<1>7. Goal(b, t, from, d) = w[n]
  BY DEF Goal, Strolls
<1> HIDE DEF w, n
<1> QED BY <1>6, <1>7 DEF n

\* A monster on explored ground stays on it, and is where bfsBoard gets in as
\* many steps.
LEMMA GoalNear ==
  ASSUME NEW b, b.explored \subseteq Loc, NEW from \in b.explored, NEW t, NEW d \in Nat
  PROVE  /\ Goal(b, t, from, d) \in b.explored
         /\ Steps(b, from, Goal(b, t, from, d)) <= Budget(d)
<1> DEFINE n == Budget(d)
           to == Target(b, t, from)
           on(l) == IF Here(t, l) # {} THEN l ELSE StepToward(b, l, to)
           g == Reach(b.explored, from)
<1>1. n \in Nat
  BY BudgetType
<1>2. \A l \in b.explored : on(l) \in b.explored /\ (on(l) = l \/ l \in Near(on(l)))
  BY TowardExplored
<1>3. PICK w : Strolls(b, t, from, n, w) /\ Goal(b, t, from, d) = w[n]
  BY GoalWalk
<1>4. Far \in Nat /\ b.explored \in SUBSET Loc /\ from \in Loc
  BY ReachStep
<1> HIDE DEF n
<1> DEFINE T == {k \in Nat : k \in 0 .. n => /\ w[k] \in b.explored
                                             /\ k <= Far => w[k] \in g[k]}
<1>5. 0 \in T
  <2>1. n >= 0 => w[0] = from
    BY <1>1, <1>3 DEF Strolls
  <2>2. g[0] = {from}
    BY ReachStep
  <2> QED BY <1>1, <2>1, <2>2
<1>6. ASSUME NEW k \in Nat, k \in T
       PROVE  k + 1 \in T
  <2> SUFFICES ASSUME k + 1 \in 0 .. n
               PROVE  /\ w[k + 1] \in b.explored
                      /\ k + 1 <= Far => w[k + 1] \in g[k + 1]
    OBVIOUS
  <2>1. k \in 0 .. n /\ k + 1 # 0 /\ (k + 1) - 1 = k
    BY <1>1
  <2>2. w[k] \in b.explored /\ (k <= Far => w[k] \in g[k])
    BY <1>6, <2>1
  <2>3. w[k + 1] = on(w[k])
    BY <1>3, <2>1 DEF Strolls
  <2> HIDE DEF on
  <2>4. w[k + 1] \in b.explored /\ (w[k + 1] = w[k] \/ w[k] \in Near(w[k + 1]))
    BY <1>2, <2>2, <2>3
  <2>5. k + 1 <= Far => w[k + 1] \in g[k + 1]
    <3> SUFFICES ASSUME k + 1 <= Far PROVE w[k + 1] \in g[k + 1]
      OBVIOUS
    <3>1. g[k + 1] = g[k] \cup {l \in b.explored : Near(l) \cap g[k] # {}}
      BY <1>4, ReachStep
    <3>2. w[k] \in g[k]
      BY <1>4, <2>2
    <3> QED BY <2>4, <3>1, <3>2
  <2> QED BY <2>4, <2>5
<1> HIDE DEF T
<1>7. n \in T
  BY <1>1, <1>5, <1>6, AllNumbers
<1>8. w[n] \in b.explored /\ (n <= Far => w[n] \in g[n])
  BY <1>1, <1>7 DEF T
<1>9. Steps(b, from, w[n]) <= n
  <2>1. /\ Steps(b, from, w[n]) \in 0 .. Far
        /\ \A k \in 0 .. Far : w[n] \in g[k] => Steps(b, from, w[n]) <= k
    BY <1>8, StepsFacts DEF g
  <2> QED BY <1>1, <1>4, <1>8, <2>1
<1> QED BY <1>3, <1>8, <1>9 DEF n

-----------------------------------------------------------------------------
(* Distances.  On explored ground bfsBoard measures a metric, since the     *)
(* neighbours of a place have it as a neighbour.                            *)

LEMMA ReachLater ==
  ASSUME NEW ex \in SUBSET Loc, NEW from \in Loc, NEW i \in Nat, NEW j \in Nat,
         i + j <= Far
  PROVE  Reach(ex, from)[i] \subseteq Reach(ex, from)[i + j]
<1> DEFINE g == Reach(ex, from)
           T == {k \in Nat : i + k <= Far => g[i] \subseteq g[i + k]}
<1>0. Far \in Nat /\ \A k \in Nat : k + 1 <= Far =>
        g[k + 1] = g[k] \cup {l \in ex : Near(l) \cap g[k] # {}}
  BY ReachStep
<1> HIDE DEF g
<1>1. \A k \in Nat : k + 1 <= Far => g[k] \subseteq g[k + 1]
  BY <1>0
<1>2. 0 \in T
  OBVIOUS
<1>3. ASSUME NEW k \in Nat, k \in T PROVE k + 1 \in T
  <2> SUFFICES ASSUME i + (k + 1) <= Far
               PROVE  g[i] \subseteq g[i + (k + 1)]
    OBVIOUS
  <2>1. i + (k + 1) = (i + k) + 1 /\ i + k \in Nat /\ (i + k) + 1 <= Far
    OBVIOUS
  <2>2. i + k <= Far
    BY <1>0
  <2>3. g[i] \subseteq g[i + k] /\ g[i + k] \subseteq g[i + (k + 1)]
    BY <1>1, <1>3, <2>1, <2>2
  <2> QED BY <2>3
<1> HIDE DEF T
<1>4. j \in T
  BY <1>2, <1>3, AllNumbers
<1> QED BY <1>4 DEF T, g

\* From explored ground bfsBoard gets to explored ground only.
LEMMA ReachIn ==
  ASSUME NEW ex \in SUBSET Loc, NEW from \in ex, NEW k \in Nat, k <= Far
  PROVE  Reach(ex, from)[k] \subseteq ex
<1> DEFINE g == Reach(ex, from)
           T == {i \in Nat : i <= Far => g[i] \subseteq ex}
<1>1. Far \in Nat /\ g[0] = {from}
      /\ \A i \in Nat : i + 1 <= Far =>
           g[i + 1] = g[i] \cup {l \in ex : Near(l) \cap g[i] # {}}
  BY ReachStep
<1> HIDE DEF g
<1>2. 0 \in T
  BY <1>1
<1>3. ASSUME NEW i \in Nat, i \in T PROVE i + 1 \in T
  BY <1>1, <1>3
<1> HIDE DEF T
<1>4. k \in T
  BY <1>2, <1>3, AllNumbers
<1> QED BY <1>4 DEF T, g

LEMMA ReachChain ==
  ASSUME NEW ex \in SUBSET Loc, NEW x \in Loc, NEW y \in Loc,
         NEW i \in Nat, NEW j \in Nat, i + j <= Far, y \in Reach(ex, x)[i]
  PROVE  Reach(ex, y)[j] \subseteq Reach(ex, x)[i + j]
<1> DEFINE g == Reach(ex, x)
           h == Reach(ex, y)
           T == {k \in Nat : i + k <= Far => h[k] \subseteq g[i + k]}
<1>1. Far \in Nat
      /\ \A k \in Nat : k + 1 <= Far =>
           g[k + 1] = g[k] \cup {l \in ex : Near(l) \cap g[k] # {}}
  BY ReachStep
<1>2. h[0] = {y}
      /\ \A k \in Nat : k + 1 <= Far =>
           h[k + 1] = h[k] \cup {l \in ex : Near(l) \cap h[k] # {}}
  BY ReachStep
<1>3. y \in g[i]
  OBVIOUS
<1> HIDE DEF g, h
<1>4. 0 \in T
  BY <1>2, <1>3
<1>5. ASSUME NEW k \in Nat, k \in T PROVE k + 1 \in T
  <2> SUFFICES ASSUME i + (k + 1) <= Far
               PROVE  h[k + 1] \subseteq g[i + (k + 1)]
    OBVIOUS
  <2>1. i + (k + 1) = (i + k) + 1 /\ i + k \in Nat /\ i + k <= Far /\ k + 1 <= Far
        /\ (i + k) + 1 <= Far
    BY <1>1
  <2>2. h[k] \subseteq g[i + k]
    BY <1>5, <2>1
  <2>3. g[i + (k + 1)] = g[i + k] \cup {l \in ex : Near(l) \cap g[i + k] # {}}
    BY <1>1, <2>1
  <2>4. h[k + 1] = h[k] \cup {l \in ex : Near(l) \cap h[k] # {}}
    BY <1>2, <2>1
  <2> QED BY <2>2, <2>3, <2>4
<1> HIDE DEF T
<1>6. j \in T
  BY <1>4, <1>5, AllNumbers
<1> QED BY <1>6 DEF T, g, h

\* One step gets to every explored neighbour.
LEMMA ReachNext ==
  ASSUME NEW ex \in SUBSET Loc, NEW x \in Loc, NEW y \in ex, x \in Near(y), 1 <= Far
  PROVE  y \in Reach(ex, x)[1]
<1> DEFINE g == Reach(ex, x)
<1>1. g[0] = {x} /\ (0 + 1 <= Far =>
        g[0 + 1] = g[0] \cup {l \in ex : Near(l) \cap g[0] # {}})
  BY ReachStep
<1>2. 0 + 1 = 1
  OBVIOUS
<1> HIDE DEF g
<1>3. y \in g[1]
  BY <1>1, <1>2
<1> QED BY <1>3 DEF g

LEMMA ReachBack ==
  ASSUME NEW ex \in SUBSET Loc, NEW k \in Nat, k <= Far
  PROVE  \A x, y \in ex : y \in Reach(ex, x)[k] => x \in Reach(ex, y)[k]
<1> DEFINE T == {i \in Nat : i <= Far =>
                   \A x, y \in ex : y \in Reach(ex, x)[i] => x \in Reach(ex, y)[i]}
<1>0. \A x \in ex : x \in Loc
  OBVIOUS
<1>1. 0 \in T
  <2>1. \A x \in ex : Reach(ex, x)[0] = {x}
    BY <1>0, ReachStep
  <2> QED BY <2>1
<1>2. ASSUME NEW i \in Nat, i \in T PROVE i + 1 \in T
  <2> SUFFICES ASSUME i + 1 <= Far, NEW x \in ex, NEW y \in ex,
                      y \in Reach(ex, x)[i + 1]
               PROVE  x \in Reach(ex, y)[i + 1]
    BY <1>2
  <2>1. Far \in Nat /\ x \in Loc /\ y \in Loc
        /\ Reach(ex, x)[i + 1] =
             Reach(ex, x)[i] \cup {l \in ex : Near(l) \cap Reach(ex, x)[i] # {}}
    BY <1>0, ReachStep
  <2>2. i <= Far /\ 1 <= Far /\ 1 + i = i + 1 /\ 1 + i <= Far
    BY <2>1
  <2>3. CASE y \in Reach(ex, x)[i]
    <3>1. x \in Reach(ex, y)[i]
      BY <1>2, <2>2, <2>3
    <3> QED BY <2>1, <2>2, <3>1, ReachLater
  <2>4. CASE Near(y) \cap Reach(ex, x)[i] # {}
    <3>1. PICK z \in Near(y) : z \in Reach(ex, x)[i]
      BY <2>4
    <3>2. z \in ex /\ z \in Loc
      BY <1>0, <2>2, <3>1, ReachIn
    <3>3. x \in Reach(ex, z)[i]
      BY <1>2, <2>2, <3>1, <3>2
    <3>4. y \in Near(z)
      BY <2>1, <3>1, Neighbours
    <3>5. z \in Reach(ex, y)[1]
      BY <2>1, <2>2, <3>2, <3>4, ReachNext
    <3>6. Reach(ex, z)[i] \subseteq Reach(ex, y)[1 + i]
      BY <2>1, <2>2, <3>2, <3>5, ReachChain
    <3> QED BY <2>2, <3>3, <3>6
  <2> QED BY <2>1, <2>3, <2>4
<1> HIDE DEF T
<1>3. k \in T
  BY <1>1, <1>2, AllNumbers
<1> QED BY <1>3 DEF T

LEMMA FarIsPositive == Far \in Nat /\ 1 <= Far
<1>1. Start \in Loc
  BY ContentAssumption
<1>2. PICK i \in DOMAIN Places : Start = Places[i]
  BY <1>1 DEF Loc
<1> QED BY <1>2, PlacesFacts DEF Far

LEMMA StepsBack ==
  ASSUME NEW b, b.explored \in SUBSET Loc, NEW x \in b.explored, NEW y \in b.explored
  PROVE  Steps(b, x, y) = Steps(b, y, x)
<1>1. ASSUME NEW u \in b.explored, NEW v \in b.explored
      PROVE  Steps(b, v, u) <= Steps(b, u, v)
  <2> DEFINE k == Steps(b, u, v)
  <2>1. /\ u \in Loc /\ v \in Loc /\ Far \in Nat /\ k \in 0 .. Far
        /\ Steps(b, v, u) \in 0 .. Far
    BY StepsFacts, FarIsPositive
  <2>2. CASE k < Far
    <3>1. v \in Reach(b.explored, u)[k]
      BY <2>1, <2>2, StepsFacts DEF Reaches
    <3>2. u \in Reach(b.explored, v)[k]
      <4> HIDE DEF k
      <4> QED BY <2>1, <3>1, ReachBack
    <3> QED BY <2>1, <3>2, StepsFacts
  <2>3. CASE ~ (k < Far)
    BY <2>1, <2>3
  <2> QED BY <2>2, <2>3
<1>2. Steps(b, x, y) \in 0 .. Far /\ Steps(b, y, x) \in 0 .. Far /\ Far \in Nat
  <2>1. x \in Loc /\ y \in Loc
    OBVIOUS
  <2> QED BY <2>1, StepsFacts, FarIsPositive
<1>3. Steps(b, y, x) <= Steps(b, x, y) /\ Steps(b, x, y) <= Steps(b, y, x)
  BY <1>1
<1> QED BY <1>2, <1>3

LEMMA StepsChain ==
  ASSUME NEW b, b.explored \in SUBSET Loc, NEW x \in Loc, NEW y \in Loc, NEW z \in Loc
  PROVE  Steps(b, x, z) <= Steps(b, x, y) + Steps(b, y, z)
<1> DEFINE i == Steps(b, x, y)
           j == Steps(b, y, z)
<1>1. Far \in Nat /\ i \in 0 .. Far /\ j \in 0 .. Far /\ Steps(b, x, z) \in 0 .. Far
  BY StepsFacts, FarIsPositive
<1>2. CASE i + j < Far
  <2>1. i < Far /\ j < Far /\ i + j <= Far /\ i + j \in 0 .. Far
    BY <1>1, <1>2
  <2>2. y \in Reach(b.explored, x)[i] /\ z \in Reach(b.explored, y)[j]
    BY <2>1, StepsFacts DEF Reaches
  <2>3. z \in Reach(b.explored, x)[i + j]
    <3>1. i \in Nat /\ j \in Nat
      BY <1>1
    <3> HIDE DEF i, j
    <3>2. Reach(b.explored, y)[j] \subseteq Reach(b.explored, x)[i + j]
      BY <2>1, <2>2, <3>1, ReachChain
    <3> QED BY <2>2, <3>2
  <2> QED BY <2>1, <2>3, StepsFacts
<1>3. CASE ~ (i + j < Far)
  BY <1>1, <1>3
<1> QED BY <1>2, <1>3

LEMMA StepsHere ==
  ASSUME NEW b, b.explored \in SUBSET Loc, NEW x \in Loc
  PROVE  /\ Steps(b, x, x) = 0
         /\ \A y \in Loc : Steps(b, x, y) = 0 => y = x
<1>1. Far \in Nat /\ 0 \in 0 .. Far /\ 0 < Far /\ Reach(b.explored, x)[0] = {x}
  BY FarIsPositive, ReachStep
<1>2. Steps(b, x, x) \in 0 .. Far /\ Steps(b, x, x) <= 0
  BY <1>1, StepsFacts
<1>3. ASSUME NEW y \in Loc, Steps(b, x, y) = 0 PROVE y = x
  <2>1. y \in Reach(b.explored, x)[0]
    BY <1>1, <1>3, StepsFacts DEF Reaches
  <2> QED BY <1>1, <2>1
<1> QED BY <1>1, <1>2, <1>3

LEMMA StepsNext ==
  ASSUME NEW b, b.explored \in SUBSET Loc, NEW x \in Loc, NEW y \in b.explored,
         x \in Near(y)
  PROVE  Steps(b, x, y) <= 1
<1>1. 1 \in 0 .. Far /\ 1 <= Far /\ y \in Loc
  BY FarIsPositive
<1> QED BY <1>1, ReachNext, StepsFacts

\* A place that can be reached has a neighbour from which it is reached last.
LEMMA StepsBefore ==
  ASSUME NEW b, b.explored \in SUBSET Loc, NEW x \in b.explored, NEW y \in b.explored,
         Reaches(b, x, y), x # y
  PROVE  \E z \in Near(y) : z \in b.explored /\ Steps(b, x, z) < Steps(b, x, y)
<1> DEFINE k == Steps(b, x, y)
<1>1. x \in Loc /\ y \in Loc /\ Far \in Nat /\ k \in 0 .. Far /\ k < Far
      /\ y \in Reach(b.explored, x)[k] /\ Reach(b.explored, x)[0] = {x}
  BY StepsFacts, ReachStep DEF Reaches
<1>2. k # 0
  BY <1>1
<1> DEFINE i == k - 1
<1>3. i \in Nat /\ i + 1 = k /\ i + 1 <= Far /\ i \in 0 .. Far /\ i <= Far
  BY <1>1, <1>2
<1>4. \A l \in Loc : l \in Reach(b.explored, x)[i] => Steps(b, x, l) <= i
  BY <1>1, <1>3, StepsFacts
<1>5. y \notin Reach(b.explored, x)[i]
  BY <1>1, <1>3, <1>4
<1>6. PICK z \in Near(y) : z \in Reach(b.explored, x)[i]
  <2> HIDE DEF k, i
  <2>1. Reach(b.explored, x)[i + 1] = Reach(b.explored, x)[i]
          \cup {l \in b.explored : Near(l) \cap Reach(b.explored, x)[i] # {}}
    BY <1>1, <1>3, ReachStep
  <2> QED BY <1>1, <1>3, <1>5, <2>1
<1>7. z \in b.explored /\ z \in Loc
  <2> HIDE DEF k, i
  <2> QED BY <1>3, <1>6, ReachIn
<1>8. Steps(b, x, z) <= i /\ Steps(b, x, z) \in 0 .. Far
  BY <1>1, <1>4, <1>6, <1>7, StepsFacts
<1> QED BY <1>1, <1>3, <1>7, <1>8

-----------------------------------------------------------------------------
(* Where a walk ends.                                                      *)

\* The least element of a set of numbers is the one it is said to be.
LEMMA MinIs ==
  ASSUME NEW T, T \subseteq Nat, NEW x \in T, \A y \in T : x <= y
  PROVE  Min(T) = x
<1>1. Min(T) \in T /\ Min(T) <= x
  BY MinIsIn
<1>2. x <= Min(T) /\ x \in Nat /\ Min(T) \in Nat
  BY <1>1
<1> QED BY <1>1, <1>2

\* stepToward brings a monster one step closer, and leaves it where it is at
\* the target and when there is no way.
LEMMA StepTowardFacts ==
  ASSUME NEW b, b.explored \in SUBSET Loc, NEW from \in b.explored, NEW to \in b.explored
  PROVE  LET next == StepToward(b, from, to)
         IN /\ next \in b.explored
            /\ from = to \/ ~ Reaches(b, to, from) => next = from
            /\ from # to /\ Reaches(b, to, from) =>
                 /\ from \in Near(next)
                 /\ Steps(b, to, next) = Steps(b, to, from) - 1
<1> DEFINE closer == {i \in DOMAIN Adjacent[from] :
                        /\ Adjacent[from][i] \in b.explored /\ Reaches(b, to, from)
                        /\ Steps(b, to, Adjacent[from][i]) < Steps(b, to, from)}
           next == StepToward(b, from, to)
<1>1. next = IF closer = {} THEN from ELSE Adjacent[from][Min(closer)]
  BY DEF StepToward
<1>2. closer # {} =>
        /\ next \in b.explored /\ next \in Near(from) /\ Reaches(b, to, from)
        /\ Steps(b, to, next) < Steps(b, to, from)
  <2>1. closer \subseteq Nat
    BY ContentAssumption
  <2>2. closer # {} => Min(closer) \in closer
    <3> HIDE DEF closer
    <3> QED BY <2>1, MinIsIn
  <2>3. \A i \in closer :
          /\ Adjacent[from][i] \in b.explored /\ Adjacent[from][i] \in Near(from)
          /\ Reaches(b, to, from)
          /\ Steps(b, to, Adjacent[from][i]) < Steps(b, to, from)
    BY DEF Near
  <2> HIDE DEF closer, next
  <2> QED BY <1>1, <2>2, <2>3
<1>3. from # to /\ Reaches(b, to, from) => closer # {}
  <2> SUFFICES ASSUME from # to, Reaches(b, to, from) PROVE closer # {}
    OBVIOUS
  <2>1. PICK z \in Near(from) : z \in b.explored /\ Steps(b, to, z) < Steps(b, to, from)
    BY StepsBefore
  <2>2. PICK i \in DOMAIN Adjacent[from] : z = Adjacent[from][i]
    BY DEF Near
  <2> QED BY <2>1, <2>2
<1>4. to \in Loc /\ from \in Loc /\ Far \in Nat
  BY FarIsPositive
<1>5. Steps(b, to, from) \in 0 .. Far /\ \A l \in Loc : Steps(b, to, l) \in 0 .. Far
  BY <1>4, StepsFacts
<1> HIDE DEF closer, next
<1>6. from = to \/ ~ Reaches(b, to, from) => closer = {}
  <2>1. CASE from = to
    <3>1. Steps(b, to, from) = 0
      BY <1>4, <2>1, StepsHere
    <3>2. next \in b.explored => Steps(b, to, next) \in 0 .. Far
      BY <1>5
    <3> QED BY <1>2, <3>1, <3>2, <1>4
  <2>2. CASE ~ Reaches(b, to, from)
    BY <1>2, <2>2
  <2> QED BY <2>1, <2>2
<1>7. ASSUME from # to, Reaches(b, to, from)
      PROVE  from \in Near(next) /\ Steps(b, to, next) = Steps(b, to, from) - 1
  <2>1. next \in b.explored /\ next \in Near(from) /\ next \in Loc
        /\ Steps(b, to, next) < Steps(b, to, from)
    BY <1>2, <1>3, <1>7
  <2>2. from \in Near(next)
    BY <1>4, <2>1, Neighbours
  <2>3. Steps(b, next, from) <= 1
    BY <2>1, <1>4, StepsNext
  <2>4. Steps(b, to, from) <= Steps(b, to, next) + Steps(b, next, from)
    BY <1>4, <2>1, StepsChain
  <2>5. Steps(b, to, next) \in 0 .. Far /\ Steps(b, next, from) \in 0 .. Far
    BY <1>4, <2>1, StepsFacts
  <2> QED BY <1>4, <1>5, <2>1, <2>2, <2>3, <2>4, <2>5
<1>8. next \in b.explored
  BY <1>1, <1>2
<1> QED BY <1>1, <1>6, <1>7, <1>8 DEF next

\* The places with players that bfsBoard finds
People(b, t, from) == {m \in Loc : Here(t, m) # {} /\ Reaches(b, from, m)}

\* nearestPlayerLocation gives a place with a player, none of which is closer.
LEMMA TargetFacts ==
  ASSUME NEW b, b.explored \in SUBSET Loc, NEW from \in Loc,
         NEW t, \A p \in Players : t[p].at \in Loc
  PROVE  LET to == Target(b, t, from)
         IN /\ People(b, t, from) = {} => to = Tower
            /\ People(b, t, from) # {} =>
                 /\ to \in People(b, t, from)
                 /\ \A m \in People(b, t, from) : Steps(b, from, to) <= Steps(b, from, m)
<1> DEFINE at(i) == t[Table[i]].at
           seen == {i \in DOMAIN Table : Reaches(b, from, at(i))}
           far == {Steps(b, from, at(i)) : i \in seen}
           best == {i \in seen : Steps(b, from, at(i)) = Min(far)}
           to == Target(b, t, from)
<1>1. to = IF seen = {} THEN Tower ELSE at(Min(best))
  BY DEF Target
<1>2. \A i \in DOMAIN Table : i \in Nat /\ Table[i] \in Players /\ at(i) \in Loc
  <2>1. Table \in Seq(Players)
    BY ContentAssumption
  <2>2. \A i \in DOMAIN Table : i \in Nat /\ Table[i] \in Players
    BY <2>1
  <2> QED BY <2>2
<1>3. People(b, t, from) = {at(i) : i \in seen}
  BY <1>2 DEF People, Here
<1>4. seen # {} => Min(best) \in best /\ \A k \in far : Min(far) <= k
  <2> SUFFICES ASSUME seen # {}
               PROVE  Min(best) \in best /\ \A k \in far : Min(far) <= k
    OBVIOUS
  <2>1. far \subseteq Nat /\ far # {}
    BY <1>2, StepsFacts, FarIsPositive
  <2>2. Min(far) \in far /\ \A k \in far : Min(far) <= k
    <3> HIDE DEF far
    <3> QED BY <2>1, MinIsIn
  <2>3. best \subseteq Nat /\ best # {}
    <3>1. PICK i \in seen : Min(far) = Steps(b, from, at(i))
      BY <2>2
    <3>2. i \in best
      BY <3>1
    <3> QED BY <1>2, <3>2
  <2> HIDE DEF best
  <2> QED BY <2>2, <2>3, MinIsIn
<1>5. seen # {} => /\ at(Min(best)) \in {at(i) : i \in seen}
                   /\ \A i \in seen : Steps(b, from, at(Min(best))) <= Steps(b, from, at(i))
  BY <1>4
<1> HIDE DEF seen, best, far, to
<1> QED BY <1>1, <1>3, <1>5 DEF to

\* The way to a target within reach: every step brings the monster one place
\* further from where it started and one place closer, until it is there.
LEMMA WalkCloser ==
  ASSUME NEW b, b.explored \in SUBSET Loc, NEW from \in b.explored, NEW t,
         NEW n \in Nat, NEW w, Strolls(b, t, from, n, w),
         Target(b, t, from) \in b.explored, Reaches(b, from, Target(b, t, from)),
         \A m \in People(b, t, from) :
           Steps(b, from, Target(b, t, from)) <= Steps(b, from, m)
  PROVE  LET to == Target(b, t, from)
             D == Steps(b, from, to)
             i == IF n < D THEN n ELSE D
         IN /\ w[n] \in b.explored /\ Steps(b, from, w[n]) = i
            /\ Steps(b, to, w[n]) = D - i
<1> DEFINE to == Target(b, t, from)
           D == Steps(b, from, to)
           i(k) == IF k < D THEN k ELSE D
           at(k, l) == /\ l \in b.explored /\ Steps(b, from, l) = i(k)
                       /\ Steps(b, to, l) = D - i(k)
           T == {k \in Nat : k \in 0 .. n => at(k, w[k])}
<1>1. /\ \A l \in b.explored : l \in Loc
      /\ from \in Loc /\ to \in Loc /\ Far \in Nat /\ D \in 0 .. Far /\ D < Far
  BY StepsFacts, FarIsPositive DEF Reaches
<1>2. w[0] = from
  BY DEF Strolls
<1>3. ASSUME NEW k \in Nat, k + 1 \in 0 .. n
      PROVE  w[k + 1] = IF Here(t, w[k]) # {} THEN w[k] ELSE StepToward(b, w[k], to)
  <2>1. k + 1 # 0 /\ (k + 1) - 1 = k
    OBVIOUS
  <2> QED BY <1>3, <2>1 DEF Strolls
<1> HIDE DEF to
<1>4. 0 \in T
  <2>1. i(0) = 0
    BY <1>1
  <2>2. Steps(b, to, from) = D
    BY <1>1, StepsBack DEF to
  <2>3. Steps(b, from, from) = 0
    BY <1>1, StepsHere
  <2> QED BY <1>1, <1>2, <2>1, <2>2, <2>3
<1>5. ASSUME NEW k \in Nat, k \in T
      PROVE  k + 1 \in T
  <2> SUFFICES ASSUME k + 1 \in 0 .. n PROVE at(k + 1, w[k + 1])
    OBVIOUS
  <2> DEFINE cur == w[k]
  <2>1. at(k, cur)
    BY <1>5
  <2> HIDE DEF cur, D
  <2>2. CASE Here(t, cur) # {}
    <3>1. w[k + 1] = cur
      BY <1>3, <2>2 DEF cur
    <3>2. cur \in People(b, t, from)
      BY <1>1, <2>1, <2>2 DEF People, Reaches
    <3>3. D <= Steps(b, from, cur)
      BY <3>2 DEF D, to
    <3>4. i(k + 1) = i(k)
      BY <1>1, <2>1, <3>3
    <3> QED BY <2>1, <3>1, <3>4
  <2>3. CASE Here(t, cur) = {} /\ k >= D
    <3>1. w[k + 1] = StepToward(b, cur, to)
      BY <1>3, <2>3 DEF cur
    <3>2. i(k) = D /\ i(k + 1) = D
      BY <1>1, <2>3
    <3>3. cur = to
      BY <1>1, <2>1, <3>2, StepsHere
    <3>4. w[k + 1] = cur
      BY <1>1, <2>1, <3>1, <3>3, StepTowardFacts DEF to
    <3> QED BY <2>1, <3>2, <3>4
  <2>4. CASE Here(t, cur) = {} /\ k < D
    <3> DEFINE next == w[k + 1]
    <3>1. next = StepToward(b, cur, to)
      BY <1>3, <2>4 DEF cur
    <3>2. i(k) = k /\ i(k + 1) = k + 1 /\ D - k > 0 /\ D - k < Far
      BY <1>1, <2>4
    <3>3. cur # to /\ Reaches(b, to, cur)
      BY <1>1, <2>1, <3>2, StepsHere DEF Reaches
    <3>4. to \in b.explored
      BY DEF to
    <3> HIDE DEF next
    <3>5. next \in b.explored /\ cur \in Near(next) /\ Steps(b, to, next) = (D - k) - 1
      BY <2>1, <3>1, <3>2, <3>3, <3>4, StepTowardFacts
    <3>6. Steps(b, cur, next) <= 1 /\ next \in Loc /\ cur \in Loc
      BY <1>1, <2>1, <3>5, StepsNext
    <3>7. Steps(b, from, next) <= Steps(b, from, cur) + Steps(b, cur, next)
      BY <1>1, <3>6, StepsChain
    <3>8. D <= Steps(b, from, next) + Steps(b, next, to)
      BY <1>1, <3>6, StepsChain DEF D
    <3>9. Steps(b, next, to) = Steps(b, to, next)
      BY <3>4, <3>5, StepsBack
    <3>10. Steps(b, from, next) \in 0 .. Far /\ Steps(b, cur, next) \in 0 .. Far
      BY <1>1, <3>6, StepsFacts
    <3>11. Steps(b, from, next) = k + 1
      BY <1>1, <2>1, <3>2, <3>5, <3>6, <3>7, <3>8, <3>9, <3>10
    <3> QED BY <3>2, <3>5, <3>11, <1>1 DEF next
  <2> QED BY <1>1, <2>2, <2>3, <2>4
<1> HIDE DEF T
<1>6. n \in T
  BY <1>4, <1>5, AllNumbers
<1> QED BY <1>6 DEF T, to

\* Without a way to the target the monster stays.
LEMMA WalkStays ==
  ASSUME NEW b, b.explored \in SUBSET Loc, NEW from \in b.explored, NEW t,
         NEW n \in Nat, NEW w, Strolls(b, t, from, n, w),
         Target(b, t, from) \in b.explored, ~ Reaches(b, from, Target(b, t, from))
  PROVE  w[n] = from
<1> DEFINE to == Target(b, t, from)
           T == {k \in Nat : k \in 0 .. n => w[k] = from}
<1>1. w[0] = from
  BY DEF Strolls
<1>2. ASSUME NEW k \in Nat, k + 1 \in 0 .. n
      PROVE  w[k + 1] = IF Here(t, w[k]) # {} THEN w[k] ELSE StepToward(b, w[k], to)
  <2>1. k + 1 # 0 /\ (k + 1) - 1 = k
    OBVIOUS
  <2> QED BY <1>2, <2>1 DEF Strolls
<1>3. StepToward(b, from, to) = from
  <2>1. ~ Reaches(b, to, from)
    BY StepsBack DEF Reaches
  <2> QED BY <2>1, StepTowardFacts
<1> HIDE DEF to
<1>4. 0 \in T
  BY <1>1
<1>5. ASSUME NEW k \in Nat, k \in T PROVE k + 1 \in T
  <2> SUFFICES ASSUME k + 1 \in 0 .. n PROVE w[k + 1] = from
    OBVIOUS
  <2>1. w[k] = from
    BY <1>5
  <2> QED BY <1>2, <1>3, <2>1
<1> HIDE DEF T
<1>6. n \in T
  BY <1>4, <1>5, AllNumbers
<1> QED BY <1>6 DEF T

-----------------------------------------------------------------------------
(* The monster phase.                                                      *)

\* Moving n from one place to another keeps the sum.
LEMMA WalkedSum ==
  ASSUME NEW m \in [Loc -> Int], NEW n \in Int, NEW from \in Loc, NEW to \in Loc
  PROVE  /\ Walked(m, n, from, to) \in [Loc -> Int]
         /\ Sum(Walked(m, n, from, to)) = Sum(m)
<1>1. CASE n = 0
  BY <1>1 DEF Walked
<1>2. CASE n # 0
  <2> DEFINE m1 == [m EXCEPT ![from] = m[from] - n]
             m2 == [m1 EXCEPT ![to] = m1[to] + n]
  <2>1. m1 \in [Loc -> Int]
    OBVIOUS
  <2>2. m2 \in [Loc -> Int]
    BY <2>1
  <2>3. Sum(m1) = Sum(m) - m[from] + m1[from] /\ m1[from] = m[from] - n
    <3>1. \A y \in Loc \ {from} : m1[y] = m[y]
      OBVIOUS
    <3>2. m1[from] = m[from] - n
      OBVIOUS
    <3> HIDE DEF m1
    <3> QED BY <2>1, <3>1, <3>2, LocFinite, SumOfChanged
  <2>4. Sum(m2) = Sum(m1) - m1[to] + m2[to] /\ m2[to] = m1[to] + n
    <3> HIDE DEF m1
    <3>1. \A y \in Loc \ {to} : m2[y] = m1[y]
      BY <2>1
    <3>2. m2[to] = m1[to] + n
      BY <2>1
    <3> HIDE DEF m2
    <3> QED BY <2>1, <2>2, <3>1, <3>2, LocFinite, SumOfChanged
  <2>5. Sum(m) \in Int /\ Sum(m1) \in Int /\ m[from] \in Int /\ m1[to] \in Int
    <3> HIDE DEF m1
    <3> QED BY <2>1, LocFinite, SumType
  <2>6. Walked(m, n, from, to) = m2
    BY <1>2 DEF Walked
  <2> HIDE DEF m1, m2
  <2> QED BY <2>2, <2>3, <2>4, <2>5, <2>6
<1> QED BY <1>1, <1>2

Moves(b, t, d, m) ==
  m = [k \in 0 .. Len(Places) |->
         IF k = 0 THEN b.monsters
         ELSE Walked(m[k - 1], b.monsters[Places[k]], Places[k],
                     Goal(b, t, Places[k], d))]

\* Monsters are where they may be.
Herded(m, ex) == m \in [Loc -> Nat] /\ \A l \in Loc : m[l] > 0 => l \in ex

\* While the places are gone through, those that are still to come have their
\* monsters.
Halfway(b, k, m) ==
  /\ m \in [Loc -> Int] /\ Sum(m) = Sum(b.monsters)
  /\ \A l \in Loc : m[l] >= 0 /\ (m[l] > 0 => l \in b.explored)
  /\ \A j \in k + 1 .. Len(Places) : m[Places[j]] >= b.monsters[Places[j]]

LEMMA HalfwayStep ==
  ASSUME NEW b, b.explored \subseteq Loc, Herded(b.monsters, b.explored), NEW t,
         NEW d \in Nat, NEW k \in 1 .. Len(Places), NEW m, Halfway(b, k - 1, m)
  PROVE  Halfway(b, k, Walked(m, b.monsters[Places[k]], Places[k],
                              Goal(b, t, Places[k], d)))
<1> DEFINE l == Places[k]
           n == b.monsters[l]
           to == Goal(b, t, l, d)
           r == Walked(m, n, l, to)
<1>1. l \in Loc /\ n \in Nat /\ m[l] >= n /\ m \in [Loc -> Int] /\ Len(Places) \in Nat
  <2>1. l \in Loc /\ Len(Places) \in Nat /\ k \in (k - 1) + 1 .. Len(Places)
    BY PlacesFacts
  <2>2. m[Places[k]] >= b.monsters[Places[k]] /\ m \in [Loc -> Int]
    BY <2>1 DEF Halfway
  <2> QED BY <2>1, <2>2 DEF Herded
<1>2. CASE n = 0
  <2>1. r = m
    BY <1>2 DEF Walked
  <2>2. Halfway(b, k, m)
    <3>1. \A j \in k + 1 .. Len(Places) : j \in (k - 1) + 1 .. Len(Places)
      BY <1>1
    <3> QED BY <3>1 DEF Halfway
  <2> HIDE DEF r
  <2> QED BY <2>1, <2>2 DEF r
<1>3. CASE n # 0
  <2>1. l \in b.explored /\ to \in b.explored /\ to \in Loc
    <3>1. l \in b.explored
      BY <1>1, <1>3 DEF Herded
    <3> HIDE DEF l
    <3> QED BY <3>1, GoalNear
  <2>2. r \in [Loc -> Int] /\ Sum(r) = Sum(m)
    <3> HIDE DEF l, n, to
    <3> QED BY <1>1, <2>1, WalkedSum
  <2>3. r = [[m EXCEPT ![l] = @ - n] EXCEPT ![to] = @ + n]
    BY <1>3 DEF Walked
  <2> HIDE DEF to, r
  <2>4. \A x \in Loc :
          /\ x # l => r[x] >= m[x]
          /\ r[x] # m[x] => x \in {l, to}
          /\ r[l] >= m[l] - n
    <3> HIDE DEF n, l
    <3> QED BY <1>1, <2>1, <2>3
  <2>5. \A x \in Loc : r[x] >= 0 /\ (r[x] > 0 => x \in b.explored)
    <3> HIDE DEF n, l
    <3> QED BY <1>1, <2>1, <2>2, <2>4 DEF Halfway
  <2>6. ASSUME NEW j \in k + 1 .. Len(Places)
        PROVE  r[Places[j]] >= b.monsters[Places[j]]
    <3>1. j \in (k - 1) + 1 .. Len(Places) /\ j # k /\ j \in 1 .. Len(Places)
      BY <1>1
    <3>2. Places[j] # l /\ Places[j] \in Loc
      BY <3>1, PlacesFacts
    <3>3. m[Places[j]] >= b.monsters[Places[j]]
      BY <3>1 DEF Halfway
    <3>4. m[Places[j]] \in Int /\ r[Places[j]] \in Int /\ b.monsters[Places[j]] \in Int
      BY <1>1, <2>2, <3>2 DEF Herded
    <3>5. r[Places[j]] >= m[Places[j]]
      BY <2>4, <3>2
    <3> QED BY <3>3, <3>4, <3>5
  <2>7. Sum(r) = Sum(b.monsters)
    BY <2>2 DEF Halfway
  <2>8. Halfway(b, k, r)
    BY <2>2, <2>5, <2>6, <2>7 DEF Halfway
  <2> QED BY <2>8 DEF r, to
<1> QED BY <1>2, <1>3

\* The places a monster may come from to l, and those of them whose turn has
\* been, with l itself
Within(b, d, l) == {m \in Loc : Steps(b, m, l) <= Budget(d)}
Past(k) == {Places[j] : j \in 1 .. k}
Sources(b, d, k, l) == Within(b, d, l) \cap (Past(k) \cup {l})

\* Nowhere are more monsters than lived in the places they may come from.
Came(b, d, k, m) ==
  \A l \in Loc : m[l] <= Part(b.monsters)[Sources(b, d, k, l)]

LEMMA StayedNear ==
  ASSUME NEW b, b.explored \in SUBSET Loc, NEW d \in Nat, NEW l \in Loc
  PROVE  l \in Within(b, d, l)
<1>1. Budget(d) \in Nat
  BY BudgetType
<1>2. Grows(b.explored, l, Reach(b.explored, l)) /\ Far \in Nat
  BY ReachGrows
<1>3. l \in Reach(b.explored, l)[0]
  BY <1>2 DEF Grows
<1>4. Steps(b, l, l) \in 0 .. Far /\ Steps(b, l, l) <= 0
  BY <1>2, <1>3, StepsFacts
<1> QED BY <1>1, <1>2, <1>4 DEF Within

LEMMA CameStart ==
  ASSUME NEW b, b.explored \in SUBSET Loc, NEW d \in Nat, b.monsters \in [Loc -> Int]
  PROVE  Came(b, d, 0, b.monsters)
<1> SUFFICES ASSUME NEW l \in Loc
             PROVE  b.monsters[l] <= Part(b.monsters)[Sources(b, d, 0, l)]
  BY DEF Came
<1>1. Sources(b, d, 0, l) = {l}
  BY StayedNear DEF Sources, Past
<1>2. Part(b.monsters)[{l}] = b.monsters[l] + Part(b.monsters)[{l} \ {l}]
  BY LocFinite, AnyFirst
<1>3. Part(b.monsters)[{l} \ {l}] = 0
  BY LocFinite, PartFacts
<1> QED BY <1>1, <1>2, <1>3

LEMMA CameStep ==
  ASSUME NEW b, b.explored \subseteq Loc, Herded(b.monsters, b.explored), NEW t,
         NEW d \in Nat, NEW k \in 1 .. Len(Places), NEW m, m \in [Loc -> Int],
         Came(b, d, k - 1, m)
  PROVE  Came(b, d, k, Walked(m, b.monsters[Places[k]], Places[k],
                              Goal(b, t, Places[k], d)))
<1> DEFINE l == Places[k]
           n == b.monsters[l]
           to == Goal(b, t, l, d)
           r == Walked(m, n, l, to)
<1>1. l \in Loc /\ n \in Nat /\ b.monsters \in [Loc -> Int]
  BY PlacesFacts DEF Herded
<1>2. Past(k) = Past(k - 1) \cup {l} /\ l \notin Past(k - 1) /\ Past(k - 1) \subseteq Loc
  <2>1. \A j \in 1 .. k : j = k \/ j \in 1 .. k - 1
    BY PlacesFacts
  <2>2. \A j \in 1 .. k - 1 : j \in 1 .. k /\ j # k /\ j \in 1 .. Len(Places)
    BY PlacesFacts
  <2>3. k \in 1 .. k
    BY PlacesFacts
  <2> QED BY <2>1, <2>2, <2>3, PlacesFacts DEF Past
<1>3. n # 0 => to \in Loc /\ l \in Within(b, d, to)
  <2> SUFFICES ASSUME n # 0 PROVE to \in Loc /\ l \in Within(b, d, to)
    OBVIOUS
  <2>1. l \in b.explored
    BY <1>1 DEF Herded
  <2> HIDE DEF l
  <2>2. to \in b.explored /\ Steps(b, l, to) <= Budget(d)
    BY <2>1, GoalNear
  <2> QED BY <1>1, <2>2 DEF Within
<1>4. \A x \in Loc :
        /\ r[x] \in Int /\ r[x] <= m[x] + n
        /\ l \notin Within(b, d, x) \/ x = l => r[x] <= m[x]
  <2>1. CASE n = 0
    <3>1. r = m
      BY <2>1 DEF Walked
    <3> HIDE DEF r
    <3> QED BY <1>1, <2>1, <3>1
  <2>2. CASE n # 0
    <3>1. r = [[m EXCEPT ![l] = @ - n] EXCEPT ![to] = @ + n]
      BY <2>2 DEF Walked
    <3> HIDE DEF r, to, n, l
    <3>2. \A x \in Loc : x # to => r[x] \in Int /\ r[x] <= m[x] /\ r[x] <= m[x] + n
      BY <1>1, <1>3, <2>2, <3>1
    <3>3. r[to] \in Int /\ r[to] <= m[to] + n /\ (to = l => r[to] <= m[to])
      BY <1>1, <1>3, <2>2, <3>1
    <3> QED BY <1>3, <2>2, <3>2, <3>3
  <2> QED BY <2>1, <2>2
<1> HIDE DEF r, to
<1>5. ASSUME NEW x \in Loc
      PROVE  r[x] <= Part(b.monsters)[Sources(b, d, k, x)]
  <2> DEFINE before == Sources(b, d, k - 1, x)
             now == Sources(b, d, k, x)
  <2>0. before \in SUBSET Loc /\ now \in SUBSET Loc /\ m[x] \in Int
    BY <1>1 DEF Sources, Within
  <2>1. m[x] <= Part(b.monsters)[before]
    BY DEF Came
  <2>2. Part(b.monsters)[before] \in Int
    BY <1>1, <2>0, LocFinite, PartType
  <2>3. r[x] \in Int /\ r[x] <= m[x] + n /\ (l \notin Within(b, d, x) \/ x = l => r[x] <= m[x])
    BY <1>4
  <2>4. CASE l \notin Within(b, d, x) \/ x = l
    <3>1. now = before
      BY <1>2, <2>4 DEF Sources
    <3> HIDE DEF now, before
    <3> QED BY <2>0, <2>1, <2>2, <2>3, <2>4, <3>1 DEF now
  <2>5. CASE l \in Within(b, d, x) /\ x # l
    <3>1. now = before \cup {l} /\ l \notin before /\ now \ {l} = before
      BY <1>2, <2>5 DEF Sources
    <3> HIDE DEF now, before
    <3>2. Part(b.monsters)[now] = n + Part(b.monsters)[now \ {l}]
      BY <1>1, <2>0, <3>1, LocFinite, AnyFirst
    <3> HIDE DEF n, l
    <3>3. Part(b.monsters)[now] = n + Part(b.monsters)[before]
      BY <3>1, <3>2
    <3>4. r[x] <= Part(b.monsters)[now]
      BY <1>1, <2>0, <2>1, <2>2, <2>3, <3>3
    <3> QED BY <3>4 DEF now
  <2> QED BY <2>4, <2>5
<1> QED BY <1>5 DEF Came, r, to

LEMMA CameEnd ==
  ASSUME NEW b, NEW d \in Nat, b.monsters \in [Loc -> Int], NEW m,
         Came(b, d, Len(Places), m), NEW l \in Loc
  PROVE  m[l] <= Sum([x \in Within(b, d, l) |-> b.monsters[x]])
<1> DEFINE W == Within(b, d, l)
           f == [x \in W |-> b.monsters[x]]
<1>1. Sources(b, d, Len(Places), l) = W
  BY PlacesFacts DEF Sources, Past, Within, Loc
<1>2. W \in SUBSET Loc
  BY DEF Within
<1>3. IsFiniteSet(W) /\ f \in [W -> Int] /\ \A x \in W : b.monsters[x] = f[x]
  BY <1>2, LocFinite, FS_Subset
<1>4. DOMAIN f = W
  OBVIOUS
<1> HIDE DEF W, f
<1>5. Part(b.monsters)[W] = Part(f)[W]
  <2>1. W \in SUBSET (W \cap Loc)
    BY <1>2
  <2> QED BY <1>2, <1>3, <2>1, LocFinite, SameParts
<1>6. Sum(f) = Part(f)[W]
  BY <1>4, SumIsPart
<1>7. m[l] <= Part(b.monsters)[W]
  BY <1>1 DEF Came
<1> QED BY <1>5, <1>6, <1>7 DEF f, W

\* The monster phase moves monsters about on explored ground, and nothing else.
LEMMA ProwledFacts ==
  ASSUME NEW b, b.explored \subseteq Loc, Herded(b.monsters, b.explored), NEW t,
         NEW d \in Nat
  PROVE  \E m : /\ Prowled(b, t, d) = [b EXCEPT !.monsters = m]
                /\ Herded(m, b.explored) /\ Sum(m) = Sum(b.monsters)
                /\ \A l \in Loc : m[l] <= Sum([x \in Within(b, d, l) |-> b.monsters[x]])
<1> DEFINE N == Len(Places)
           next(m, k) == Walked(m, b.monsters[Places[k]], Places[k],
                                Goal(b, t, Places[k], d))
           w == CHOOSE v : Moves(b, t, d, v)
<1>0. N \in Nat
  BY PlacesFacts
<1>1. Halfway(b, 0, b.monsters)
  <2>1. b.monsters \in [Loc -> Int]
    BY DEF Herded
  <2>2. \A j \in 0 + 1 .. N : Places[j] \in Loc /\ b.monsters[Places[j]] \in Int
    BY <2>1, PlacesFacts
  <2> QED BY <2>1, <2>2 DEF Halfway, Herded
<1> DEFINE Mid(k, m) == Halfway(b, k, m) /\ Came(b, d, k, m)
<1>2. ASSUME NEW k \in 1 .. N, NEW m, Mid(k - 1, m)
      PROVE  Mid(k, next(m, k))
  <2>1. Halfway(b, k, next(m, k))
    BY <1>2, HalfwayStep
  <2>2. m \in [Loc -> Int]
    BY <1>2 DEF Halfway
  <2>3. Came(b, d, k, next(m, k))
    BY <1>2, <2>2, CameStep
  <2> QED BY <2>1, <2>3
<1>3. \E v : Moves(b, t, d, v)
  <2> DEFINE T == {n \in Nat : n <= N =>
                     \E g : /\ DOMAIN g = 0 .. n /\ g[0] = b.monsters
                            /\ \A k \in 1 .. n : g[k] = next(g[k - 1], k)}
  <2> HIDE DEF next
  <2>1. 0 \in T
    <3> DEFINE g == [k \in 0 .. 0 |-> b.monsters]
    <3>1. DOMAIN g = 0 .. 0 /\ g[0] = b.monsters
          /\ \A k \in 1 .. 0 : g[k] = next(g[k - 1], k)
      OBVIOUS
    <3> QED BY <3>1
  <2>2. ASSUME NEW n \in Nat, n \in T
        PROVE  n + 1 \in T
    <3> SUFFICES ASSUME n + 1 <= N
                 PROVE  \E g : /\ DOMAIN g = 0 .. n + 1 /\ g[0] = b.monsters
                               /\ \A k \in 1 .. n + 1 : g[k] = next(g[k - 1], k)
      OBVIOUS
    <3>1. PICK g : /\ DOMAIN g = 0 .. n /\ g[0] = b.monsters
                   /\ \A k \in 1 .. n : g[k] = next(g[k - 1], k)
      BY <1>0, <2>2
    <3> DEFINE h == [k \in 0 .. n + 1 |-> IF k = n + 1 THEN next(g[n], n + 1) ELSE g[k]]
    <3>2. DOMAIN h = 0 .. n + 1 /\ h[0] = b.monsters
      BY <3>1
    <3>3. ASSUME NEW k \in 1 .. n + 1 PROVE h[k] = next(h[k - 1], k)
      <4>1. CASE k = n + 1
        BY <4>1
      <4>2. CASE k # n + 1
        <5>1. k \in 1 .. n /\ k - 1 \in 0 .. n
          BY <4>2
        <5>2. h[k] = g[k] /\ h[k - 1] = g[k - 1]
          BY <5>1
        <5> QED BY <3>1, <5>1, <5>2
      <4> QED BY <4>1, <4>2
    <3> HIDE DEF h
    <3> QED BY <3>2, <3>3
  <2> HIDE DEF T
  <2>3. N \in T
    BY <1>0, <2>1, <2>2, AllNumbers
  <2>4. PICK g : /\ DOMAIN g = 0 .. N /\ g[0] = b.monsters
                 /\ \A k \in 1 .. N : g[k] = next(g[k - 1], k)
    BY <1>0, <2>3 DEF T
  <2> DEFINE G == [k \in 0 .. N |-> g[k]]
  <2>5. G[0] = b.monsters /\ \A k \in 1 .. N : G[k] = next(G[k - 1], k)
    <3>1. \A k \in 1 .. N : k \in 0 .. N /\ k - 1 \in 0 .. N
      BY <1>0
    <3>2. 0 \in 0 .. N
      BY <1>0
    <3> QED BY <2>4, <3>1, <3>2
  <2>6. G = [k \in 0 .. N |-> IF k = 0 THEN b.monsters ELSE next(G[k - 1], k)]
    <3>1. \A k \in 0 .. N : G[k] = IF k = 0 THEN b.monsters ELSE next(G[k - 1], k)
      <4>1. \A k \in 0 .. N : k = 0 \/ k \in 1 .. N
        BY <1>0
      <4> HIDE DEF G
      <4> QED BY <2>5, <4>1
    <3> QED BY <3>1
  <2> QED BY <2>6 DEF Moves, next
<1>4. Moves(b, t, d, w)
  BY <1>3
<1>5. Prowled(b, t, d) = [b EXCEPT !.monsters = w[N]]
  BY DEF Prowled, Moves
<1> HIDE DEF w, next
<1> DEFINE T == {k \in Nat : k <= N => Mid(k, w[k])}
<1>6. 0 \in T
  <2>1. w[0] = b.monsters
    BY <1>0, <1>4 DEF Moves
  <2>2. Came(b, d, 0, b.monsters)
    <3>1. b.monsters \in [Loc -> Int]
      BY DEF Herded
    <3> QED BY <3>1, CameStart
  <2> QED BY <1>1, <2>1, <2>2
<1>7. ASSUME NEW k \in Nat, k \in T
      PROVE  k + 1 \in T
  <2> SUFFICES ASSUME k + 1 <= N
               PROVE  Mid(k + 1, w[k + 1])
    OBVIOUS
  <2> HIDE DEF Mid
  <2>1. k + 1 \in 1 .. N /\ k + 1 \in 0 .. N /\ (k + 1) - 1 = k
    BY <1>0
  <2>2. Mid((k + 1) - 1, w[k])
    BY <1>0, <1>7, <2>1
  <2>3. w[k + 1] = next(w[k], k + 1)
    BY <1>4, <2>1 DEF Moves, next
  <2> QED BY <1>2, <2>1, <2>2, <2>3
<1> HIDE DEF T
<1>8. Mid(N, w[N])
  <2>1. N \in T
    BY <1>0, <1>6, <1>7, AllNumbers
  <2> QED BY <1>0, <2>1 DEF T
<1>9. Herded(w[N], b.explored) /\ Sum(w[N]) = Sum(b.monsters)
  BY <1>8 DEF Halfway, Herded
<1>10. \A l \in Loc : w[N][l] <= Sum([x \in Within(b, d, l) |-> b.monsters[x]])
  <2>1. b.monsters \in [Loc -> Int]
    BY DEF Herded
  <2> QED BY <1>8, <2>1, CameEnd
<1> QED BY <1>5, <1>9, <1>10

-----------------------------------------------------------------------------
(* The board.                                                              *)

\* What holds of a board whenever the players are asked.
GoodBoard(b) ==
  /\ BoardOK(b) /\ MonstersOnExplored(b) /\ TilesConserved(b) /\ CrystalLeft(b)
  /\ \A l \in b.rescued : b.kind[l] \in VillageKinds

\* Two boards that differ in their monsters only
SameLand(a, b) ==
  /\ b.explored = a.explored /\ b.kind = a.kind /\ b.rescued = a.rescued
  /\ b.stack = a.stack

LEMMA Regrouped ==
  ASSUME NEW b, GoodBoard(b), NEW m, Herded(m, b.explored)
  PROVE  LET c == [b EXCEPT !.monsters = m]
         IN GoodBoard(c) /\ SameLand(b, c) /\ c.monsters = m /\ Herd(c) = Sum(m)
<1> DEFINE c == [b EXCEPT !.monsters = m]
<1>1. BoardOK(b)
  BY DEF GoodBoard
<1>2. SameLand(b, c) /\ c.monsters = m
  BY <1>1 DEF BoardOK, SameLand
<1>3. BoardOK(c)
  BY <1>1 DEF BoardOK, Herded
<1> HIDE DEF c
<1>4. GoodBoard(c)
  BY <1>2, <1>3 DEF GoodBoard, Herded, SameLand, MonstersOnExplored, TilesConserved,
                    CrystalLeft, LaidOut
<1>5. Herd(c) = Sum(m)
  BY <1>2 DEF Herd
<1> QED BY <1>2, <1>4, <1>5 DEF c

LEMMA GoodHerd ==
  ASSUME NEW b, GoodBoard(b)
  PROVE  /\ Herded(b.monsters, b.explored) /\ b.explored \subseteq Loc
         /\ Herd(b) \in Int
<1>1. Herded(b.monsters, b.explored) /\ b.explored \subseteq Loc
  BY DEF GoodBoard, BoardOK, MonstersOnExplored, Herded
<1>2. b.monsters \in [Loc -> Int]
  BY <1>1 DEF Herded
<1> QED BY <1>1, <1>2, LocFinite, SumType DEF Herd

\* One more monster, or one less, in an explored place
LEMMA OneMore ==
  ASSUME NEW b, GoodBoard(b), NEW l \in b.explored
  PROVE  LET c == [b EXCEPT !.monsters[l] = @ + 1]
         IN GoodBoard(c) /\ SameLand(b, c) /\ Herd(c) = Herd(b) + 1
<1> DEFINE m == [b.monsters EXCEPT ![l] = @ + 1]
           c == [b EXCEPT !.monsters = m]
<1>1. Herded(b.monsters, b.explored) /\ l \in Loc
  BY GoodHerd
<1>2. Herded(m, b.explored) /\ m \in [Loc -> Int] /\ b.monsters \in [Loc -> Int]
  BY <1>1 DEF Herded
<1>3. (\A y \in Loc \ {l} : m[y] = b.monsters[y]) /\ m[l] = b.monsters[l] + 1
  BY <1>1 DEF Herded
<1> HIDE DEF m
<1>4. Sum(m) = Herd(b) + 1
  <2>1. Sum(m) = Sum(b.monsters) - b.monsters[l] + m[l]
    BY <1>1, <1>2, <1>3, LocFinite, SumOfChanged
  <2>2. Sum(b.monsters) \in Int /\ b.monsters[l] \in Int
    BY <1>1, <1>2, LocFinite, SumType
  <2> QED BY <1>3, <2>1, <2>2 DEF Herd
<1>5. GoodBoard(c) /\ SameLand(b, c) /\ Herd(c) = Sum(m)
  BY <1>2, Regrouped
<1>6. [b EXCEPT !.monsters[l] = @ + 1] = c
  BY DEF m
<1> HIDE DEF c
<1> QED BY <1>4, <1>5, <1>6

LEMMA OneLess ==
  ASSUME NEW b, GoodBoard(b), NEW l \in Loc, b.monsters[l] > 0
  PROVE  LET c == [b EXCEPT !.monsters[l] = @ - 1]
         IN GoodBoard(c) /\ SameLand(b, c) /\ Herd(c) = Herd(b) - 1
<1> DEFINE m == [b.monsters EXCEPT ![l] = @ - 1]
           c == [b EXCEPT !.monsters = m]
<1>1. Herded(b.monsters, b.explored)
  BY GoodHerd
<1>2. Herded(m, b.explored) /\ m \in [Loc -> Int] /\ b.monsters \in [Loc -> Int]
  BY <1>1 DEF Herded
<1>3. (\A y \in Loc \ {l} : m[y] = b.monsters[y]) /\ m[l] = b.monsters[l] - 1
  BY <1>1 DEF Herded
<1> HIDE DEF m
<1>4. Sum(m) = Herd(b) - 1
  <2>1. Sum(m) = Sum(b.monsters) - b.monsters[l] + m[l]
    BY <1>1, <1>2, <1>3, LocFinite, SumOfChanged
  <2>2. Sum(b.monsters) \in Int /\ b.monsters[l] \in Int
    BY <1>1, <1>2, LocFinite, SumType
  <2> QED BY <1>3, <2>1, <2>2 DEF Herd
<1>5. GoodBoard(c) /\ SameLand(b, c) /\ Herd(c) = Sum(m)
  BY <1>2, Regrouped
<1>6. [b EXCEPT !.monsters[l] = @ - 1] = c
  BY DEF m
<1> HIDE DEF c
<1> QED BY <1>4, <1>5, <1>6

\* A board after another one on which monsters appeared or moved
Follows(a, b) == GoodBoard(b) /\ SameLand(a, b) /\ Herd(b) \in Int

LEMMA SpawnedFollows ==
  ASSUME NEW b, GoodBoard(b), NEW c \in Spawned(b)
  PROVE  Follows(b, c)
<1> DEFINE lairs == {l \in b.explored : b.kind[l] \in SpawnKinds}
<1>1. CASE lairs = {}
  <2>1. c = b
    BY <1>1 DEF Spawned
  <2> QED BY <2>1, GoodHerd DEF Follows, SameLand
<1>2. CASE lairs # {}
  <2>1. PICK l \in b.explored : c = [b EXCEPT !.monsters[l] = @ + 1]
    BY <1>2 DEF Spawned
  <2>2. GoodBoard(c) /\ SameLand(b, c)
    BY <2>1, OneMore
  <2> QED BY <2>2, GoodHerd DEF Follows
<1> QED BY <1>1, <1>2

LEMMA EventCardFollows ==
  ASSUME NEW b, GoodBoard(b), NEW c \in EventCard(b)
  PROVE  Follows(b, c)
<1>1. CASE c = b
  BY <1>1, GoodHerd DEF Follows, SameLand
<1>2. CASE c \in Spawned(b)
  BY <1>2, SpawnedFollows
<1> QED BY <1>1, <1>2 DEF EventCard, CardSpawned

LEMMA ProwledFollows ==
  ASSUME NEW b, GoodBoard(b), NEW t, NEW d \in Nat
  PROVE  Follows(b, Prowled(b, t, d)) /\ Herd(Prowled(b, t, d)) = Herd(b)
<1>1. PICK m : /\ Prowled(b, t, d) = [b EXCEPT !.monsters = m]
               /\ Herded(m, b.explored) /\ Sum(m) = Sum(b.monsters)
  BY GoodHerd, ProwledFacts
<1>2. LET c == [b EXCEPT !.monsters = m]
      IN GoodBoard(c) /\ SameLand(b, c) /\ Herd(c) = Sum(m)
  BY <1>1, Regrouped
<1> QED BY <1>1, <1>2, GoodHerd DEF Follows, Herd

-----------------------------------------------------------------------------
(* Tiles.                                                                  *)

LEMMA SameNumber ==
  ASSUME NEW A, NEW B, IsFiniteSet(A), NEW f \in [A -> B],
         \A x, y \in A : f[x] = f[y] => x = y,
         \A z \in B : \E x \in A : f[x] = z
  PROVE  IsFiniteSet(B) /\ Cardinality(B) = Cardinality(A)
<1>1. f \in Bijection(A, B)
  BY DEF Bijection, Injection, Surjection, IsInjective
<1> QED BY <1>1, FS_Bijection DEF ExistsBijection

LEMMA CountNat ==
  ASSUME NEW S, NEW s \in Seq(S), NEW k
  PROVE  /\ Count(s, k) \in Nat /\ IsFiniteSet({i \in DOMAIN s : s[i] = k})
<1>1. IsFiniteSet(1 .. Len(s)) /\ DOMAIN s = 1 .. Len(s)
  BY FS_Interval
<1>2. IsFiniteSet({i \in DOMAIN s : s[i] = k})
  BY <1>1, FS_Subset
<1> QED BY <1>2, FS_CardinalityType DEF Count

\* How many tiles of a kind are left when the first one is taken
LEMMA CountTail ==
  ASSUME NEW S, NEW s \in Seq(S), s # <<>>, NEW k
  PROVE  Count(s, k) = Count(Tail(s), k) + (IF s[1] = k THEN 1 ELSE 0)
<1> DEFINE A == {i \in DOMAIN s : s[i] = k}
           B == {i \in DOMAIN Tail(s) : Tail(s)[i] = k}
           f == [i \in B |-> i + 1]
<1>1. /\ Tail(s) \in Seq(S) /\ Len(s) \in Nat /\ DOMAIN s = 1 .. Len(s) /\ Len(s) >= 1
      /\ Len(Tail(s)) = Len(s) - 1 /\ DOMAIN Tail(s) = 1 .. Len(s) - 1
      /\ \A i \in 1 .. Len(s) - 1 : Tail(s)[i] = s[i + 1]
  BY HeadTailProperties
<1>2. IsFiniteSet(A) /\ IsFiniteSet(B) /\ Cardinality(A) \in Nat /\ Cardinality(B) \in Nat
  BY <1>1, CountNat DEF Count
<1>3. Cardinality(A \ {1}) = Cardinality(B)
  <2>1. f \in [B -> A \ {1}]
    BY <1>1
  <2>2. \A x, y \in B : f[x] = f[y] => x = y
    BY <1>1
  <2>3. \A z \in A \ {1} : \E x \in B : f[x] = z
    <3> TAKE z \in A \ {1}
    <3>1. z - 1 \in B /\ f[z - 1] = z
      BY <1>1
    <3> QED BY <3>1
  <2> HIDE DEF f, A, B
  <2> QED BY <1>2, <2>1, <2>2, <2>3, SameNumber
<1>4. Cardinality(A \ {1}) = IF 1 \in A THEN Cardinality(A) - 1 ELSE Cardinality(A)
  BY <1>2, FS_RemoveElement
<1>5. 1 \in A <=> s[1] = k
  BY <1>1
<1> HIDE DEF A, B
<1>6. Cardinality(A) = Cardinality(B) + (IF s[1] = k THEN 1 ELSE 0)
  BY <1>2, <1>3, <1>4, <1>5
<1> QED BY <1>6 DEF Count, A, B

LEMMA LaidGood ==
  ASSUME NEW b, GoodBoard(b), NEW l \in Loc \ b.explored
  PROVE  /\ GoodBoard(Laid(b, l)) /\ Laid(b, l).rescued = b.rescued
         /\ Laid(b, l).explored = b.explored \cup {l}
         /\ Herd(Laid(b, l)) = Herd(b)
<1> DEFINE c == Laid(b, l)
           s == b.stack
           left(e) == Cardinality(Loc \ e)
<1>1. BoardOK(b)
  BY DEF GoodBoard
<1>2. /\ c.explored = b.explored \cup {l} /\ c.kind = [b.kind EXCEPT ![l] = s[1]]
      /\ c.stack = Tail(s) /\ c.monsters = b.monsters /\ c.rescued = b.rescued
  BY <1>1 DEF BoardOK, Laid
<1>3. /\ s \in Seq(Kinds \ {NoKind}) /\ b.explored \subseteq Loc
      /\ b.kind \in [Loc -> Kinds] /\ DOMAIN MapKind \subseteq b.explored
  BY <1>1 DEF BoardOK
<1>4. left(c.explored) = left(b.explored) - 1 /\ left(b.explored) \in Nat
      /\ left(b.explored) >= 1 /\ left(c.explored) \in Nat
  <2>1. IsFiniteSet(Loc \ b.explored)
    BY LocFinite, FS_Subset
  <2>2. Loc \ c.explored = (Loc \ b.explored) \ {l}
    BY <1>2
  <2>3. left(c.explored) = left(b.explored) - 1
    BY <2>1, <2>2, FS_RemoveElement
  <2>4. left(b.explored) \in Nat /\ left(c.explored) \in Nat
    BY <2>1, <2>2, FS_CardinalityType, FS_RemoveElement
  <2> HIDE DEF c
  <2> QED BY <2>3, <2>4
<1>5. /\ Len(s) >= left(b.explored) /\ s # <<>> /\ Len(s) \in Nat
      /\ s[1] \in Kinds \ {NoKind}
  <2>1. Len(s) >= left(b.explored)
    BY DEF GoodBoard, TilesConserved
  <2>2. Len(s) \in Nat /\ Len(s) >= 1
    BY <1>3, <1>4, <2>1
  <2> QED BY <1>3, <2>1, <2>2
<1>6. /\ Tail(s) \in Seq(Kinds \ {NoKind}) /\ Len(Tail(s)) = Len(s) - 1
      /\ \A i \in 1 .. Len(s) - 1 : Tail(s)[i] = s[i + 1]
  BY <1>3, <1>5, HeadTailProperties
<1>7. BoardOK(c)
  <2>1. c \in [explored : SUBSET Loc, kind : [Loc -> Kinds], monsters : [Loc -> Nat],
               rescued : SUBSET Loc, stack : Seq(Kinds \ {NoKind})]
    <3>1. b \in [explored : SUBSET Loc, kind : [Loc -> Kinds], monsters : [Loc -> Nat],
                 rescued : SUBSET Loc, stack : Seq(Kinds \ {NoKind})]
      BY <1>1 DEF BoardOK
    <3> QED BY <1>3, <1>5, <1>6, <3>1 DEF Laid
  <2>2. DOMAIN MapKind \subseteq c.explored /\ c.rescued \subseteq c.explored
    BY <1>1, <1>2 DEF BoardOK
  <2>3. \A x \in Loc : x \in c.explored <=> c.kind[x] # NoKind
    BY <1>1, <1>2, <1>3, <1>5 DEF BoardOK
  <2> QED BY <2>1, <2>2, <2>3 DEF BoardOK
<1>8. MonstersOnExplored(c) /\ \A x \in c.rescued : c.kind[x] \in VillageKinds
  <2>1. b.rescued \subseteq b.explored /\ \A x \in b.rescued : b.kind[x] \in VillageKinds
    BY <1>1 DEF BoardOK, GoodBoard
  <2> QED BY <1>2, <1>3, <2>1 DEF GoodBoard, MonstersOnExplored
<1>9. TilesConserved(c)
  <2>1. ASSUME NEW k PROVE LaidOut(c, k) + Count(c.stack, k) = LaidOut(b, k) + Count(s, k)
    <3> DEFINE A == {x \in b.explored \ DOMAIN MapKind : b.kind[x] = k}
               C == {x \in c.explored \ DOMAIN MapKind : c.kind[x] = k}
    <3>1. IsFiniteSet(A) /\ Cardinality(A) \in Nat /\ l \notin A
      BY <1>3, LocFinite, FS_Subset, FS_CardinalityType
    <3>2. C = IF s[1] = k THEN A \cup {l} ELSE A
      BY <1>2, <1>3
    <3>3. Cardinality(A \cup {l}) = Cardinality(A) + 1
      BY <3>1, FS_AddElement
    <3>4. Count(s, k) = Count(Tail(s), k) + (IF s[1] = k THEN 1 ELSE 0)
      BY <1>3, <1>5, CountTail
    <3>5. Count(Tail(s), k) \in Nat
      BY <1>6, CountNat
    <3>6. LaidOut(b, k) = Cardinality(A) /\ LaidOut(c, k) = Cardinality(C)
      BY DEF LaidOut
    <3> HIDE DEF A, C
    <3> QED BY <1>2, <3>1, <3>2, <3>3, <3>4, <3>5, <3>6
  <2>2. Len(c.stack) >= left(c.explored)
    BY <1>2, <1>4, <1>5, <1>6
  <2> HIDE DEF c
  <2> QED BY <2>1, <2>2 DEF GoodBoard, TilesConserved
<1>10. CrystalLeft(c)
  <2> SUFFICES ASSUME (\E i \in DOMAIN TileStack : TileStack[i] \in CrystalKinds), Slots > 0
               PROVE  \/ \E x \in c.explored : c.kind[x] \in CrystalKinds
                      \/ \E i \in 1 .. left(c.explored) : c.stack[i] \in CrystalKinds
    BY DEF CrystalLeft
  <2>1. CASE \E x \in b.explored : b.kind[x] \in CrystalKinds
    BY <1>2, <1>3, <2>1
  <2>2. CASE \E i \in 1 .. left(b.explored) : s[i] \in CrystalKinds
    <3>1. PICK i \in 1 .. left(b.explored) : s[i] \in CrystalKinds
      BY <2>2
    <3>2. CASE i = 1
      <4>1. l \in c.explored /\ c.kind[l] = s[1]
        BY <1>2, <1>3
      <4> QED BY <3>1, <3>2, <4>1
    <3>3. CASE i # 1
      <4>1. i - 1 \in 1 .. left(c.explored) /\ c.stack[i - 1] = s[i]
        <5> HIDE DEF c, left
        <5>1. i \in Int /\ 1 < i /\ i <= left(b.explored)
          BY <1>4, <3>1, <3>3
        <5>2. i - 1 \in 1 .. left(c.explored) /\ i - 1 \in 1 .. Len(s) - 1 /\ (i - 1) + 1 = i
          BY <1>4, <1>5, <5>1
        <5> QED BY <1>2, <1>6, <5>2
      <4> QED BY <3>1, <4>1
    <3> QED BY <3>2, <3>3
  <2> QED BY <2>1, <2>2 DEF GoodBoard, CrystalLeft
<1>11. Herd(c) = Herd(b)
  BY <1>2 DEF Herd
<1> HIDE DEF c
<1>12. GoodBoard(c)
  BY <1>7, <1>8, <1>9, <1>10 DEF GoodBoard
<1> QED BY <1>2, <1>11, <1>12 DEF c

LEMMA RevealedGood ==
  ASSUME NEW b, GoodBoard(b), NEW l \in Loc \ b.explored, NEW c \in Revealed(b, l)
  PROVE  GoodBoard(c) /\ c.rescued = b.rescued /\ Herd(c) \in Int
<1>1. GoodBoard(Laid(b, l)) /\ Laid(b, l).rescued = b.rescued
      /\ l \in Laid(b, l).explored
  BY LaidGood
<1>2. CASE c = Laid(b, l)
  BY <1>1, <1>2, GoodHerd
<1>3. CASE c = Woken(Laid(b, l), l)
  <2>1. c = [Laid(b, l) EXCEPT !.monsters[l] = @ + 1]
    BY <1>3 DEF Woken
  <2> HIDE DEF Laid
  <2>2. GoodBoard(c) /\ SameLand(Laid(b, l), c)
    BY <1>1, <2>1, OneMore
  <2> QED BY <1>1, <2>2, GoodHerd DEF SameLand
<1> QED BY <1>2, <1>3 DEF Revealed

\* The tiles of s, a sequence over S, in another order
SameTiles(S, s, e) ==
  /\ e \in Seq(S) /\ Len(e) = Len(s) /\ DOMAIN e = DOMAIN s
  /\ \A k : Count(e, k) = Count(s, k)
  /\ \A i \in DOMAIN s : \E j \in DOMAIN s : e[j] = s[i]

LEMMA Permuted ==
  ASSUME NEW S, NEW s \in Seq(S), NEW q \in Bijection(DOMAIN s, DOMAIN s)
  PROVE  SameTiles(S, s, [i \in DOMAIN s |-> s[q[i]]])
<1> DEFINE e == [i \in DOMAIN s |-> s[q[i]]]
<1>1. /\ q \in [DOMAIN s -> DOMAIN s]
      /\ \A i, j \in DOMAIN s : q[i] = q[j] => i = j
      /\ \A i \in DOMAIN s : \E j \in DOMAIN s : q[j] = i
  BY DEF Bijection, Injection, Surjection, IsInjective
<1>2. e \in Seq(S) /\ Len(e) = Len(s) /\ DOMAIN e = DOMAIN s
  <2>1. Len(s) \in Nat /\ DOMAIN s = 1 .. Len(s) /\ \A i \in DOMAIN s : s[i] \in S
    OBVIOUS
  <2>2. e \in [1 .. Len(s) -> S]
    BY <1>1, <2>1
  <2> HIDE DEF e
  <2> QED BY <2>1, <2>2
<1>3. ASSUME NEW k PROVE Count(e, k) = Count(s, k)
  <2> DEFINE A == {i \in DOMAIN e : e[i] = k}
             B == {i \in DOMAIN s : s[i] = k}
             f == [i \in A |-> q[i]]
  <2>1. f \in [A -> B]
    BY <1>1
  <2>2. \A x, y \in A : f[x] = f[y] => x = y
    BY <1>1
  <2>3. \A z \in B : \E x \in A : f[x] = z
    <3> TAKE z \in B
    <3>1. PICK j \in DOMAIN s : q[j] = z
      BY <1>1
    <3>2. j \in A /\ f[j] = z
      BY <3>1
    <3> QED BY <3>2
  <2>4. IsFiniteSet(A)
    <3> HIDE DEF e
    <3> QED BY <1>2, CountNat
  <2> HIDE DEF A, B, f
  <2>5. Cardinality(B) = Cardinality(A)
    BY <2>1, <2>2, <2>3, <2>4, SameNumber
  <2> QED BY <2>5 DEF Count, A, B
<1>4. \A i \in DOMAIN s : \E j \in DOMAIN s : e[j] = s[i]
  BY <1>1
<1> HIDE DEF e
<1>5. SameTiles(S, s, e)
  BY <1>2, <1>3, <1>4 DEF SameTiles
<1> QED BY <1>5 DEF e

LEMMA SlotsFacts ==
  /\ Slots \in Nat /\ Len(TileStack) >= Slots /\ Len(TileStack) \in Nat
  /\ TileStack \in Seq(Kinds \ {NoKind})
<1>1. Slots \in Nat
  BY LocFinite, FS_Subset, FS_CardinalityType DEF Slots
<1>2. TileStack \in Seq(Kinds) /\ (\A i \in DOMAIN TileStack : TileStack[i] # NoKind)
      /\ Len(TileStack) >= Slots
  BY ContentAssumption DEF Slots
<1>3. Len(TileStack) \in Nat /\ DOMAIN TileStack = 1 .. Len(TileStack)
      /\ TileStack \in [1 .. Len(TileStack) -> Kinds \ {NoKind}]
  BY <1>2
<1> QED BY <1>1, <1>2, <1>3

\* The swap keeps the tiles, and brings a crystal to where it will be laid.
LEMMA EnsuredTiles ==
  ASSUME NEW S, NEW s \in Seq(S), Len(s) >= Slots
  PROVE  /\ Ensured(s) \in Seq(S) /\ Len(Ensured(s)) = Len(s)
         /\ \A k : Count(Ensured(s), k) = Count(s, k)
         /\ (\E i \in DOMAIN s : s[i] \in CrystalKinds) /\ Slots > 0 =>
               \E i \in 1 .. Slots : Ensured(s)[i] \in CrystalKinds
<1> DEFINE deep == {i \in Slots + 1 .. Len(s) : s[i] \in CrystalKinds}
           m == Min(deep)
           q == [j \in DOMAIN s |-> IF j = Slots THEN m ELSE IF j = m THEN Slots ELSE j]
           e == [i \in DOMAIN s |-> s[q[i]]]
<1>1. Slots \in Nat /\ Len(s) \in Nat /\ DOMAIN s = 1 .. Len(s)
  BY SlotsFacts
<1>2. CASE Slots = 0 \/ deep = {} \/ \E k \in 1 .. Slots : s[k] \in CrystalKinds
  <2>1. Ensured(s) = s
    BY <1>2 DEF Ensured
  <2>2. (\E i \in DOMAIN s : s[i] \in CrystalKinds) /\ Slots > 0 =>
           \E i \in 1 .. Slots : s[i] \in CrystalKinds
    BY <1>1, <1>2
  <2> QED BY <2>1, <2>2
<1>3. CASE ~ (Slots = 0 \/ deep = {} \/ \E k \in 1 .. Slots : s[k] \in CrystalKinds)
  <2>1. m \in Slots + 1 .. Len(s) /\ s[m] \in CrystalKinds
    <3>1. deep \subseteq Nat /\ deep # {}
      BY <1>1, <1>3
    <3>2. m \in deep
      <4> HIDE DEF deep
      <4> QED BY <3>1, MinIsIn
    <3> QED BY <3>2
  <2>2. Ensured(s) = [s EXCEPT ![Slots] = s[m], ![m] = s[Slots]]
    BY <1>3 DEF Ensured
  <2> HIDE DEF m
  <2>3. q \in Bijection(DOMAIN s, DOMAIN s)
    <3>1. Slots \in DOMAIN s /\ m \in DOMAIN s /\ m # Slots
      BY <1>1, <1>3, <2>1
    <3>2. q \in [DOMAIN s -> DOMAIN s] /\ \A x, y \in DOMAIN s : q[x] = q[y] => x = y
      BY <3>1
    <3>3. \A y \in DOMAIN s : \E x \in DOMAIN s : q[x] = y
      <4> TAKE y \in DOMAIN s
      <4>1. q[y] \in DOMAIN s /\ q[q[y]] = y
        BY <3>1
      <4> QED BY <4>1
    <3> HIDE DEF q
    <3> QED BY <3>2, <3>3 DEF Bijection, Injection, Surjection, IsInjective
  <2>4. Ensured(s) = e
    <3>1. Slots \in DOMAIN s /\ m \in DOMAIN s /\ m # Slots
      BY <1>1, <1>3, <2>1
    <3>2. \A j \in DOMAIN s : [s EXCEPT ![Slots] = s[m], ![m] = s[Slots]][j] = e[j]
      BY <3>1
    <3>3. s = [j \in DOMAIN s |-> s[j]]
      OBVIOUS
    <3> QED BY <2>2, <3>2, <3>3
  <2>5. Ensured(s)[Slots] = s[m] /\ Slots \in 1 .. Slots
    BY <1>1, <1>3, <2>1, <2>4
  <2>6. /\ e \in Seq(S) /\ Len(e) = Len(s)
        /\ \A k : Count(e, k) = Count(s, k)
    <3> HIDE DEF q
    <3>1. SameTiles(S, s, e)
      BY <2>3, Permuted
    <3> HIDE DEF e
    <3> QED BY <3>1 DEF SameTiles
  <2> QED BY <2>1, <2>4, <2>5, <2>6
<1> QED BY <1>2, <1>3

LEMMA BoardsGood ==
  ASSUME NEW b \in Boards
  PROVE  GoodBoard(b) /\ b.rescued = {} /\ Herd(b) = 0
<1>1. PICK s \in Shuffles(TileStack) :
        b = [explored |-> DOMAIN MapKind,
             kind     |-> [l \in Loc |-> IF l \in DOMAIN MapKind THEN MapKind[l] ELSE NoKind],
             monsters |-> [l \in Loc |-> 0],
             rescued  |-> {},
             stack    |-> Ensured(s)]
  BY DEF Boards
<1>2. PICK p \in Bijection(DOMAIN TileStack, DOMAIN TileStack) :
        s = [i \in DOMAIN TileStack |-> TileStack[p[i]]]
  BY DEF Shuffles
<1>3. /\ s \in Seq(Kinds \ {NoKind}) /\ Len(s) = Len(TileStack)
      /\ \A k : Count(s, k) = Count(TileStack, k)
      /\ \A i \in DOMAIN TileStack : \E j \in DOMAIN s : s[j] = TileStack[i]
  <2>1. SameTiles(Kinds \ {NoKind}, TileStack, s)
    BY <1>2, SlotsFacts, Permuted
  <2> QED BY <2>1 DEF SameTiles
<1>4. /\ Ensured(s) \in Seq(Kinds \ {NoKind}) /\ Len(Ensured(s)) = Len(TileStack)
      /\ \A k : Count(Ensured(s), k) = Count(TileStack, k)
      /\ (\E i \in DOMAIN s : s[i] \in CrystalKinds) /\ Slots > 0 =>
            \E i \in 1 .. Slots : Ensured(s)[i] \in CrystalKinds
  BY <1>3, SlotsFacts, EnsuredTiles
<1>5. DOMAIN MapKind \subseteq Loc /\ \A l \in DOMAIN MapKind : MapKind[l] # NoKind
  BY ContentAssumption
<1>6. BoardOK(b)
  <2>1. [l \in Loc |-> IF l \in DOMAIN MapKind THEN MapKind[l] ELSE NoKind] \in [Loc -> Kinds]
    BY DEF Kinds
  <2>2. [l \in Loc |-> 0] \in [Loc -> Nat]
    OBVIOUS
  <2>3. b \in [explored : SUBSET Loc, kind : [Loc -> Kinds], monsters : [Loc -> Nat],
               rescued : SUBSET Loc, stack : Seq(Kinds \ {NoKind})]
    BY <1>1, <1>4, <1>5, <2>1, <2>2
  <2>4. \A l \in Loc : l \in b.explored <=> b.kind[l] # NoKind
    BY <1>1, <1>5
  <2> QED BY <1>1, <2>3, <2>4 DEF BoardOK
<1>7. TilesConserved(b)
  <2>1. ASSUME NEW k PROVE LaidOut(b, k) = 0
    <3>1. {l \in b.explored \ DOMAIN MapKind : b.kind[l] = k} = {}
      BY <1>1
    <3> QED BY <3>1, FS_EmptySet DEF LaidOut
  <2>2. ASSUME NEW k PROVE Count(TileStack, k) \in Nat
    BY SlotsFacts, CountNat
  <2>3. b.stack = Ensured(s) /\ Cardinality(Loc \ b.explored) = Slots
    BY <1>1 DEF Slots
  <2> QED BY <1>4, <2>1, <2>2, <2>3, SlotsFacts DEF TilesConserved
<1>8. CrystalLeft(b)
  <2>1. b.stack = Ensured(s) /\ Cardinality(Loc \ b.explored) = Slots
    BY <1>1 DEF Slots
  <2>2. (\E i \in DOMAIN TileStack : TileStack[i] \in CrystalKinds)
          => \E i \in DOMAIN s : s[i] \in CrystalKinds
    BY <1>3
  <2> QED BY <1>4, <2>1, <2>2 DEF CrystalLeft
<1>9. MonstersOnExplored(b) /\ b.rescued = {} /\ b.monsters = [l \in Loc |-> 0]
  BY <1>1 DEF MonstersOnExplored
<1>10. Herd(b) = 0
  <2>1. [l \in Loc |-> 0] \in [Loc -> Int] /\ \A l \in Loc : [x \in Loc |-> 0][l] = 0
    OBVIOUS
  <2>2. Sum([l \in Loc |-> 0]) = 0
    BY <2>1, LocFinite, SumOfZeros
  <2> QED BY <1>9, <2>2 DEF Herd
<1> QED BY <1>6, <1>7, <1>8, <1>9, <1>10 DEF GoodBoard

-----------------------------------------------------------------------------
(* Turns.                                                                  *)

LEMMA OrderFacts ==
  /\ Len(TurnOrder) \in Nat /\ Len(TurnOrder) >= 1 /\ Seats = 1 .. Len(TurnOrder)
  /\ \A i \in Seats : TurnOrder[i] \in Players
  /\ \A p \in Players : \E i \in Seats : TurnOrder[i] = p
<1>1. TurnOrder \in Seq(Players) /\ Players # {}
      /\ {TurnOrder[i] : i \in DOMAIN TurnOrder} = Players
  BY ContentAssumption
<1>2. Len(TurnOrder) \in Nat /\ DOMAIN TurnOrder = 1 .. Len(TurnOrder)
  BY <1>1
<1>3. \E i \in DOMAIN TurnOrder : TRUE
  BY <1>1
<1> QED BY <1>1, <1>2, <1>3 DEF Seats

LEMMA PlayersFinite == IsFiniteSet(Players)
<1>1. TurnOrder \in Surjection(1 .. Len(TurnOrder), Players)
  <2>1. TurnOrder \in [1 .. Len(TurnOrder) -> Players]
    BY ContentAssumption
  <2> QED BY <2>1, OrderFacts DEF Surjection, Seats
<1> QED BY <1>1, OrderFacts, FS_Interval, FS_Surjection

LEMMA NumbersAssumption ==
  /\ ActionPoints \in Nat \ {0} /\ MaxHealth \in Nat \ {0} /\ MaxDarkness \in Nat \ {0}
  /\ Damage \in Nat /\ RestHeal \in Nat /\ Penalty \in Nat /\ PenaltyAt \in Nat
  /\ SpawnAt \in Nat /\ DamagedMax \in Nat /\ DefeatedMin \in Nat
  /\ Penalty < ActionPoints
BY ContentAssumption

\* Only who has slain monsters and saved villages matters to the sums.
SameDeeds(t, u) ==
  \A p \in Players : u[p].slain = t[p].slain /\ u[p].saved = t[p].saved

LEMMA DeedsSums ==
  ASSUME NEW t, NEW u, SameDeeds(t, u)
  PROVE  Slain(u) = Slain(t) /\ Saved(u) = Saved(t)
<1>1. [p \in Players |-> u[p].slain] = [p \in Players |-> t[p].slain]
  BY DEF SameDeeds
<1>2. [p \in Players |-> u[p].saved] = [p \in Players |-> t[p].saved]
  BY DEF SameDeeds
<1> QED BY <1>1, <1>2 DEF Slain, Saved

LEMMA DeedsInt ==
  ASSUME NEW t \in Teams
  PROVE  Slain(t) \in Int /\ Saved(t) \in Int
<1>1. [p \in Players |-> t[p].slain] \in [Players -> Int]
  BY DEF Teams
<1>2. [p \in Players |-> t[p].saved] \in [Players -> Int]
  BY DEF Teams
<1> QED BY <1>1, <1>2, PlayersFinite, SumType DEF Slain, Saved

\* Of one player only
LEMMA DeedsChange ==
  ASSUME NEW t \in Teams, NEW u \in Teams, NEW p \in Players,
         \A q \in Players \ {p} : u[q].slain = t[q].slain /\ u[q].saved = t[q].saved
  PROVE  /\ Slain(u) = Slain(t) - t[p].slain + u[p].slain
         /\ Saved(u) = Saved(t) - t[p].saved + u[p].saved
<1> DEFINE st == [q \in Players |-> t[q].slain]
           su == [q \in Players |-> u[q].slain]
           vt == [q \in Players |-> t[q].saved]
           vu == [q \in Players |-> u[q].saved]
<1>1. /\ st \in [Players -> Int] /\ su \in [Players -> Int]
      /\ vt \in [Players -> Int] /\ vu \in [Players -> Int]
  BY DEF Teams
<1>2. \A q \in Players \ {p} : su[q] = st[q] /\ vu[q] = vt[q]
  OBVIOUS
<1>3. st[p] = t[p].slain /\ su[p] = u[p].slain /\ vt[p] = t[p].saved /\ vu[p] = u[p].saved
  OBVIOUS
<1>4. Slain(t) = Sum(st) /\ Slain(u) = Sum(su) /\ Saved(t) = Sum(vt) /\ Saved(u) = Sum(vu)
  BY DEF Slain, Saved
<1> HIDE DEF st, su, vt, vu
<1>5. Sum(su) = Sum(st) - st[p] + su[p]
  BY <1>1, <1>2, PlayersFinite, SumOfChanged
<1>6. Sum(vu) = Sum(vt) - vt[p] + vu[p]
  BY <1>1, <1>2, PlayersFinite, SumOfChanged
<1> QED BY <1>3, <1>4, <1>5, <1>6

LEMMA OpenedFacts ==
  ASSUME NEW t \in Teams, NEW p \in Players, NEW d \in Nat
  PROVE  /\ Opened(t, p, d) \in Teams /\ SameDeeds(t, Opened(t, p, d))
         /\ Opened(t, p, d)[p].ap >= 1
         /\ \A q \in Players \ {p} : Opened(t, p, d)[q].ap = t[q].ap
<1> DEFINE a == TurnAP(d)
           r == [t[p] EXCEPT !.ap = a, !.freeMoveUsed = FALSE, !.abilityUsed = FALSE]
           u == [t EXCEPT ![p] = r]
<1>1. a \in 0 .. ActionPoints /\ a >= 1
  BY NumbersAssumption DEF TurnAP
<1> HIDE DEF a
<1>2. Opened(t, p, d) = u
  BY DEF Opened, Teams, a
<1>3. /\ r \in [at : Loc, ap : 0 .. ActionPoints, health : 0 .. MaxHealth,
                freeMoveUsed : BOOLEAN, abilityUsed : BOOLEAN, slain : Nat, saved : Nat]
      /\ r.ap = a /\ r.slain = t[p].slain /\ r.saved = t[p].saved
  BY <1>1 DEF Teams
<1> HIDE DEF r
<1>4. u \in Teams /\ u[p] = r /\ \A q \in Players \ {p} : u[q] = t[q]
  BY <1>3 DEF Teams
<1> HIDE DEF u
<1> QED BY <1>1, <1>2, <1>3, <1>4 DEF SameDeeds

\* What the players are after the monsters have attacked
Attacked(b, t) == [p \in Players |-> [t[p] EXCEPT !.health = Hurt(@, Wounds(b, t, p))]]

LEMMA AttackedFacts ==
  ASSUME NEW b, GoodBoard(b), NEW t \in Teams
  PROVE  /\ Attacked(b, t) \in Teams /\ SameDeeds(t, Attacked(b, t))
         /\ \A p \in Players : Attacked(b, t)[p].ap = t[p].ap
<1> DEFINE w(p) == Wounds(b, t, p)
           r(p) == [t[p] EXCEPT !.health = Hurt(t[p].health, w(p))]
           u == [p \in Players |-> r(p)]
<1>1. ASSUME NEW p \in Players PROVE w(p) \in Nat
  <2>1. t[p].at \in Loc /\ b.monsters \in [Loc -> Nat]
    BY GoodHerd DEF Teams, Herded
  <2>2. b.monsters[t[p].at] \in Nat /\ Damage \in Nat
    BY <2>1, NumbersAssumption
  <2>3. b.monsters[t[p].at] * Damage \in Nat
    BY <2>2
  <2> QED BY <2>3 DEF Wounds
<1> HIDE DEF w
<1>2. ASSUME NEW p \in Players
      PROVE  /\ r(p) \in [at : Loc, ap : 0 .. ActionPoints, health : 0 .. MaxHealth,
                          freeMoveUsed : BOOLEAN, abilityUsed : BOOLEAN,
                          slain : Nat, saved : Nat]
             /\ r(p).ap = t[p].ap /\ r(p).slain = t[p].slain /\ r(p).saved = t[p].saved
  <2>1. t[p].health \in 0 .. MaxHealth /\ w(p) \in Nat
    BY <1>1 DEF Teams
  <2>2. Hurt(t[p].health, w(p)) \in 0 .. MaxHealth
    BY <2>1, NumbersAssumption DEF Hurt
  <2> QED BY <2>2 DEF Teams
<1>3. u = Attacked(b, t)
  BY DEF Attacked, w
<1> HIDE DEF r
<1>4. u \in Teams /\ \A p \in Players : u[p] = r(p)
  BY <1>2 DEF Teams
<1> HIDE DEF u
<1>5. SameDeeds(t, u) /\ \A p \in Players : u[p].ap = t[p].ap
  BY <1>2, <1>4 DEF SameDeeds
<1> QED BY <1>3, <1>4, <1>5

\* What a command has made of the board and of the players before its turn is
\* ended, with h monsters ever appeared
Done(b, t, h) ==
  /\ GoodBoard(b) /\ t \in Teams /\ \A p \in Players \ {Active} : t[p].ap = 0
  /\ Herd(b) + Slain(t) = h /\ Cardinality(b.rescued) = Saved(t)

LEMMA Assembled ==
  ASSUME turn' \in [activeIdx : Seats, firstIdx : Seats, turnsTaken : 0 .. Len(TurnOrder),
                    darkness : 0 .. MaxDarkness, over : BOOLEAN],
         Done(board, team, born)',
         GoesOn'
  PROVE  IInv'
BY DEF IInv, NothingLost, TypeOK, MonstersCounted, RescuedOnce, CrystalReachable,
       Done, GoodBoard

LEMMA IInvDone ==
  ASSUME IInv
  PROVE  /\ Done(board, team, born) /\ GoesOn /\ Active \in Players
         /\ turn \in [activeIdx : Seats, firstIdx : Seats, turnsTaken : 0 .. Len(TurnOrder),
                      darkness : 0 .. MaxDarkness, over : BOOLEAN]
<1>1. turn \in [activeIdx : Seats, firstIdx : Seats, turnsTaken : 0 .. Len(TurnOrder),
                darkness : 0 .. MaxDarkness, over : BOOLEAN]
  BY DEF IInv, NothingLost, TypeOK
<1>2. Active \in Players
  BY <1>1, OrderFacts DEF Active
<1> QED BY <1>1, <1>2
       DEF IInv, NothingLost, TypeOK, MonstersCounted, RescuedOnce, CrystalReachable,
           Done, GoodBoard

LEMMA Next1Seat ==
  ASSUME NEW i \in Seats
  PROVE  Next1(i) \in Seats
BY OrderFacts DEF Next1

\* The round ends.
LEMMA EndRoundKeeps ==
  ASSUME IInv, ~ turn.over, NEW b, NEW t, NEW n, born + n \in Int,
         Done(b, t, born + n), \A p \in Players : t[p].ap = 0,
         EndRound(b, t, n)
  PROVE  IInv'
<1> DEFINE d == IF turn.darkness + 1 > MaxDarkness THEN MaxDarkness ELSE turn.darkness + 1
           hurt == Attacked(b, t)
           dusk == Prowled(b, t, turn.darkness)
           first == Next1(turn.firstIdx)
           Turns == [activeIdx : Seats, firstIdx : Seats, turnsTaken : 0 .. Len(TurnOrder),
                     darkness : 0 .. MaxDarkness, over : BOOLEAN]
<1>1. turn \in Turns /\ turn.turnsTaken < Len(TurnOrder)
  BY IInvDone DEF GoesOn
<1>2. d \in 0 .. MaxDarkness /\ d \in Nat /\ turn.darkness \in Nat
  BY <1>1, NumbersAssumption
<1>3. GoodBoard(b) /\ t \in Teams /\ Herd(b) + Slain(t) = born + n
      /\ Cardinality(b.rescued) = Saved(t)
  BY DEF Done
<1>4. hurt \in Teams /\ SameDeeds(t, hurt) /\ \A p \in Players : hurt[p].ap = 0
  BY <1>3, AttackedFacts
<1>5. Follows(b, dusk) /\ Herd(dusk) = Herd(b)
  BY <1>2, <1>3, ProwledFollows
<1>6. first \in Seats /\ TurnOrder[first] \in Players
  BY <1>1, Next1Seat, OrderFacts
<1>7. PICK b1 \in IF d >= SpawnAt THEN Spawned(dusk) ELSE {dusk} :
       \/ /\ d >= MaxDarkness
          /\ board' = b1 /\ team' = hurt
          /\ turn' = [turn EXCEPT !.turnsTaken = @ + 1, !.darkness = d, !.over = TRUE]
          /\ born' = born + n + Herd(b1) - Herd(dusk)
       \/ /\ d < MaxDarkness
          /\ \E b2 \in EventCard(b1) :
               /\ board' = b2
               /\ born' = born + n + Herd(b2) - Herd(dusk)
          /\ team' = Opened(hurt, TurnOrder[first], d)
          /\ turn' = [activeIdx |-> first, firstIdx |-> first, turnsTaken |-> 0,
                      darkness |-> d, over |-> FALSE]
  BY DEF EndRound, Attacked
<1>8. Follows(b, b1)
  <2>1. CASE d >= SpawnAt
    <3>1. Follows(dusk, b1)
      BY <1>5, <1>7, <2>1, SpawnedFollows DEF Follows
    <3> QED BY <1>5, <3>1 DEF Follows, SameLand
  <2>2. CASE ~ (d >= SpawnAt)
    BY <1>5, <1>7, <2>2
  <2> QED BY <2>1, <2>2
<1>9. Slain(hurt) = Slain(t) /\ Saved(hurt) = Saved(t) /\ Slain(t) \in Int
      /\ Herd(b) \in Int
  BY <1>3, <1>4, DeedsSums, DeedsInt, GoodHerd
<1> HIDE DEF d, hurt, dusk, first
<1>10. CASE /\ d >= MaxDarkness
            /\ board' = b1 /\ team' = hurt
            /\ turn' = [turn EXCEPT !.turnsTaken = @ + 1, !.darkness = d, !.over = TRUE]
            /\ born' = born + n + Herd(b1) - Herd(dusk)
  <2>1. turn' \in Turns /\ turn'.over
    <3>1. turn.turnsTaken + 1 \in 0 .. Len(TurnOrder)
      BY <1>1, OrderFacts
    <3> QED BY <1>1, <1>2, <1>10, <3>1
  <2>2. Herd(board') + Slain(team') = born'
    <3>1. Herd(b1) \in Int /\ Herd(dusk) \in Int
      BY <1>5, <1>8 DEF Follows
    <3> QED BY <1>3, <1>5, <1>9, <1>10, <3>1
  <2>3. Cardinality(board'.rescued) = Saved(team')
    BY <1>3, <1>8, <1>9, <1>10 DEF Follows, SameLand
  <2>4. GoodBoard(board') /\ team' \in Teams /\ \A p \in Players : team'[p].ap = 0
    BY <1>4, <1>8, <1>10 DEF Follows
  <2>5. Done(board, team, born)'
    BY <2>2, <2>3, <2>4 DEF Done
  <2>6. GoesOn'
    BY <2>1 DEF GoesOn
  <2> QED BY <2>1, <2>5, <2>6, Assembled
<1>11. CASE /\ d < MaxDarkness
            /\ \E b2 \in EventCard(b1) :
                 /\ board' = b2
                 /\ born' = born + n + Herd(b2) - Herd(dusk)
            /\ team' = Opened(hurt, TurnOrder[first], d)
            /\ turn' = [activeIdx |-> first, firstIdx |-> first, turnsTaken |-> 0,
                        darkness |-> d, over |-> FALSE]
  <2>1. PICK b2 \in EventCard(b1) : board' = b2 /\ born' = born + n + Herd(b2) - Herd(dusk)
    BY <1>11
  <2>2. Follows(b1, b2)
    BY <1>8, EventCardFollows DEF Follows
  <2>3. turn' \in Turns /\ ~ turn'.over /\ turn'.turnsTaken < Len(TurnOrder)
        /\ turn'.activeIdx = first
    BY <1>2, <1>6, <1>11, OrderFacts
  <2>4. Active' = TurnOrder[first]
    BY <2>3 DEF Active
  <2>5. /\ team' \in Teams /\ SameDeeds(hurt, team') /\ team'[TurnOrder[first]].ap >= 1
        /\ \A q \in Players \ {TurnOrder[first]} : team'[q].ap = 0
    BY <1>2, <1>4, <1>6, <1>11, OpenedFacts
  <2>6. Slain(team') = Slain(t) /\ Saved(team') = Saved(t)
    BY <1>9, <2>5, DeedsSums
  <2>7. Herd(board') + Slain(team') = born'
    <3>1. Herd(b2) \in Int /\ Herd(dusk) \in Int
      BY <1>5, <2>2 DEF Follows
    <3> QED BY <1>3, <1>5, <1>9, <2>1, <2>6, <3>1
  <2>8. Cardinality(board'.rescued) = Saved(team')
    BY <1>3, <1>8, <2>1, <2>2, <2>6 DEF Follows, SameLand
  <2>9. GoodBoard(board')
    BY <2>1, <2>2 DEF Follows
  <2>10. Done(board, team, born)'
    BY <2>4, <2>5, <2>7, <2>8, <2>9 DEF Done
  <2>11. GoesOn'
    BY <2>3, <2>4, <2>5 DEF GoesOn
  <2> QED BY <2>3, <2>10, <2>11, Assembled
<1> QED BY <1>7, <1>10, <1>11

\* A turn ends, and with the last one the round.
LEMMA EndTurnKeeps ==
  ASSUME IInv, ~ turn.over, NEW b, NEW t, NEW n, born + n \in Int,
         Done(b, t, born + n), EndTurn(b, t, n)
  PROVE  IInv'
<1> DEFINE done == [t EXCEPT ![Active].ap = 0]
           next == Next1(turn.activeIdx)
           Turns == [activeIdx : Seats, firstIdx : Seats, turnsTaken : 0 .. Len(TurnOrder),
                     darkness : 0 .. MaxDarkness, over : BOOLEAN]
<1>1. /\ turn \in Turns /\ turn.turnsTaken < Len(TurnOrder) /\ Active \in Players
      /\ turn.darkness \in Nat
  BY IInvDone, NumbersAssumption DEF GoesOn
<1>2. t \in Teams
  BY DEF Done
<1>3. done \in Teams /\ SameDeeds(t, done) /\ \A p \in Players : done[p].ap = 0
  <2> DEFINE z == [t[Active] EXCEPT !.ap = 0]
  <2>1. done = [t EXCEPT ![Active] = z]
    OBVIOUS
  <2>2. /\ z \in [at : Loc, ap : 0 .. ActionPoints, health : 0 .. MaxHealth,
                  freeMoveUsed : BOOLEAN, abilityUsed : BOOLEAN, slain : Nat, saved : Nat]
        /\ z.ap = 0 /\ z.slain = t[Active].slain /\ z.saved = t[Active].saved
    <3>1. t[Active] \in [at : Loc, ap : 0 .. ActionPoints, health : 0 .. MaxHealth,
                          freeMoveUsed : BOOLEAN, abilityUsed : BOOLEAN,
                          slain : Nat, saved : Nat]
      BY <1>1, <1>2 DEF Teams
    <3>2. 0 \in 0 .. ActionPoints
      BY NumbersAssumption
    <3> QED BY <3>1, <3>2
  <2> HIDE DEF z, done
  <2>3. done \in Teams /\ done[Active] = z /\ \A p \in Players \ {Active} : done[p] = t[p]
    BY <1>1, <1>2, <2>1, <2>2 DEF Teams
  <2>4. \A p \in Players \ {Active} : t[p].ap = 0
    BY DEF Done
  <2>5. \A p \in Players : done[p].ap = 0
    BY <2>2, <2>3, <2>4
  <2>6. SameDeeds(t, done)
    BY <2>2, <2>3 DEF SameDeeds
  <2> QED BY <2>3, <2>5, <2>6
<1>4. Slain(done) = Slain(t) /\ Saved(done) = Saved(t)
  BY <1>3, DeedsSums
<1>5. next \in Seats /\ TurnOrder[next] \in Players
  BY <1>1, Next1Seat, OrderFacts
<1>6. Done(b, done, born + n)
  BY <1>3, <1>4 DEF Done
<1> HIDE DEF done, next
<1>7. CASE /\ turn.turnsTaken + 1 < Len(TurnOrder)
           /\ board' = b
           /\ team' = Opened(done, TurnOrder[next], turn.darkness)
           /\ turn' = [turn EXCEPT !.activeIdx = next, !.turnsTaken = @ + 1]
           /\ born' = born + n
  <2>1. /\ team' \in Teams /\ SameDeeds(done, team') /\ team'[TurnOrder[next]].ap >= 1
        /\ \A q \in Players \ {TurnOrder[next]} : team'[q].ap = 0
    BY <1>1, <1>3, <1>5, <1>7, OpenedFacts
  <2>2. turn' \in Turns /\ turn'.turnsTaken < Len(TurnOrder) /\ turn'.activeIdx = next
    <3>1. turn.turnsTaken + 1 \in 0 .. Len(TurnOrder)
      BY <1>1, OrderFacts
    <3> QED BY <1>1, <1>5, <1>7, <3>1
  <2>3. Active' = TurnOrder[next]
    BY <2>2 DEF Active
  <2>4. Slain(team') = Slain(t) /\ Saved(team') = Saved(t)
    BY <1>4, <2>1, DeedsSums
  <2>5. Done(board, team, born)'
    BY <1>7, <2>1, <2>3, <2>4 DEF Done
  <2>6. GoesOn'
    BY <2>1, <2>2, <2>3 DEF GoesOn
  <2> QED BY <2>2, <2>5, <2>6, Assembled
<1>8. CASE turn.turnsTaken + 1 >= Len(TurnOrder) /\ EndRound(b, done, n)
  BY <1>3, <1>6, <1>8, EndRoundKeeps
<1>9. \/ /\ turn.turnsTaken + 1 < Len(TurnOrder)
         /\ board' = b
         /\ team' = Opened(done, TurnOrder[next], turn.darkness)
         /\ turn' = [turn EXCEPT !.activeIdx = next, !.turnsTaken = @ + 1]
         /\ born' = born + n
      \/ turn.turnsTaken + 1 >= Len(TurnOrder) /\ EndRound(b, done, n)
  BY DEF EndTurn, done, next
<1> QED BY <1>7, <1>8, <1>9

\* Any command: it leaves the board b and the players t, of whom only the
\* active one has changed.
LEMMA ConcludeKeeps ==
  ASSUME IInv, ~ turn.over, NEW b, GoodBoard(b), NEW t \in Teams,
         \A q \in Players \ {Active} : t[q] = team[q],
         Cardinality(b.rescued) = Cardinality(board.rescued)
                                    + (t[Active].saved - team[Active].saved),
         Conclude(b, t)
  PROVE  IInv'
<1> DEFINE n == Herd(b) - Herd(board) + (t[Active].slain - team[Active].slain)
<1>1. Done(board, team, born) /\ GoesOn /\ Active \in Players
      /\ turn \in [activeIdx : Seats, firstIdx : Seats, turnsTaken : 0 .. Len(TurnOrder),
                   darkness : 0 .. MaxDarkness, over : BOOLEAN]
  BY IInvDone
<1>2. /\ GoodBoard(board) /\ team \in Teams /\ Herd(board) + Slain(team) = born
      /\ Cardinality(board.rescued) = Saved(team)
      /\ \A q \in Players \ {Active} : team[q].ap = 0
  BY <1>1 DEF Done
<1>3. /\ Slain(t) = Slain(team) - team[Active].slain + t[Active].slain
      /\ Saved(t) = Saved(team) - team[Active].saved + t[Active].saved
  BY <1>1, <1>2, DeedsChange
<1>4. /\ Slain(team) \in Int /\ Saved(team) \in Int /\ Herd(b) \in Int /\ Herd(board) \in Int
      /\ team[Active].slain \in Int /\ t[Active].slain \in Int
      /\ team[Active].saved \in Int /\ t[Active].saved \in Int /\ t[Active].ap \in Int
  BY <1>1, <1>2, DeedsInt, GoodHerd DEF Teams
<1>5. Herd(b) + Slain(t) = born + n /\ Cardinality(b.rescued) = Saved(t) /\ born + n \in Int
  BY <1>2, <1>3, <1>4
<1>6. Done(b, t, born + n)
  BY <1>2, <1>5 DEF Done
<1>7. CASE OutOfAP(t) /\ EndTurn(b, t, n)
  <2> HIDE DEF n
  <2> QED BY <1>5, <1>6, <1>7, EndTurnKeeps
<1>8. CASE ~ OutOfAP(t) /\ board' = b /\ team' = t /\ born' = born + n /\ UNCHANGED turn
  <2> HIDE DEF n
  <2>1. Active' = Active /\ t[Active].ap >= 1
    BY <1>4, <1>8 DEF Active, OutOfAP
  <2>2. Done(board, team, born)'
    BY <1>6, <1>8, <2>1 DEF Done
  <2>3. GoesOn'
    BY <1>1, <1>8, <2>1 DEF GoesOn
  <2> QED BY <1>1, <1>8, <2>2, <2>3, Assembled
<1>9. \/ OutOfAP(t) /\ EndTurn(b, t, n)
      \/ ~ OutOfAP(t) /\ board' = b /\ team' = t /\ born' = born + n /\ UNCHANGED turn
  BY DEF Conclude
<1> QED BY <1>7, <1>8, <1>9

-----------------------------------------------------------------------------
(* The commands.                                                           *)

\* Somebody at work has a point to spend.
Hero == [at : Loc, ap : 0 .. ActionPoints, health : 0 .. MaxHealth,
         freeMoveUsed : BOOLEAN, abilityUsed : BOOLEAN, slain : Nat, saved : Nat]

LEMMA HeroFacts ==
  ASSUME IInv, ~ turn.over
  PROVE  /\ team \in [Players -> Hero] /\ Active \in Players /\ team[Active] \in Hero
         /\ team[Active].ap - 1 \in 0 .. ActionPoints /\ team[Active].ap >= 1
         /\ GoodBoard(board)
<1>1. team \in [Players -> Hero] /\ Active \in Players /\ team[Active].ap >= 1
      /\ GoodBoard(board)
  BY IInvDone DEF Done, Teams, Hero, GoesOn
<1>2. team[Active] \in Hero
  BY <1>1
<1>3. team[Active].ap \in 0 .. ActionPoints /\ ActionPoints \in Nat
  BY <1>2, NumbersAssumption DEF Hero
<1> QED BY <1>1, <1>2, <1>3

\* A command that makes the hero h of the active player, with the deeds as they
\* were, and the board b with the same villages saved
LEMMA CommandKeeps ==
  ASSUME IInv, ~ turn.over, NEW b, GoodBoard(b), b.rescued = board.rescued,
         NEW h \in Hero, h.saved = team[Active].saved,
         Conclude(b, [team EXCEPT ![Active] = h])
  PROVE  IInv'
<1> DEFINE t == [team EXCEPT ![Active] = h]
<1>1. team \in [Players -> Hero] /\ Active \in Players /\ GoodBoard(board)
      /\ team[Active] \in Hero
  BY HeroFacts
<1>2. t \in Teams /\ t[Active] = h /\ \A q \in Players \ {Active} : t[q] = team[q]
  BY <1>1 DEF Teams, Hero
<1>3. Cardinality(board.rescued) \in Int
  <2>1. board.rescued \in SUBSET Loc
    BY <1>1 DEF GoodBoard, BoardOK
  <2> QED BY <2>1, LocFinite, FS_Subset, FS_CardinalityType
<1>4. team[Active].saved \in Int
  BY <1>1 DEF Hero
<1> HIDE DEF t
<1>5. Cardinality(b.rescued) = Cardinality(board.rescued)
                                 + (t[Active].saved - team[Active].saved)
  BY <1>2, <1>3, <1>4
<1>6. Conclude(b, t)
  BY DEF t
<1> QED BY <1>2, <1>5, <1>6, ConcludeKeeps

\* What has been paid for
PaidHero == [team[Active] EXCEPT !.ap = @ - 1]

LEMMA PaidFacts ==
  ASSUME IInv, ~ turn.over
  PROVE  /\ PaidHero \in Hero /\ PaidHero.saved = team[Active].saved
         /\ Paid = [team EXCEPT ![Active] = PaidHero]
         /\ PaidHero.slain = team[Active].slain /\ PaidHero.health = team[Active].health
<1>1. team[Active] \in Hero /\ team[Active].ap - 1 \in 0 .. ActionPoints
  BY HeroFacts
<1>2. /\ PaidHero \in Hero /\ PaidHero.saved = team[Active].saved
      /\ PaidHero.slain = team[Active].slain /\ PaidHero.health = team[Active].health
  BY <1>1 DEF PaidHero, Hero
<1>3. Paid = [team EXCEPT ![Active] = PaidHero]
  BY DEF Paid, PaidHero
<1> QED BY <1>2, <1>3

LEMMA WorkKeeps ==
  ASSUME IInv, Work
  PROVE  IInv'
<1>1. ~ turn.over /\ Conclude(board, Paid)
  BY DEF Work
<1>2. GoodBoard(board)
  BY <1>1, HeroFacts
<1> HIDE DEF Paid
<1> QED BY <1>1, <1>2, PaidFacts, CommandKeeps

LEMMA EndOfTurnKeeps ==
  ASSUME IInv, EndOfTurn
  PROVE  IInv'
<1>1. ~ turn.over /\ EndTurn(board, team, 0)
  BY DEF EndOfTurn, Accepted, If
<1>2. Done(board, team, born)
  BY IInvDone
<1>3. born \in Int /\ born + 0 = born
  <2>1. Herd(board) \in Int /\ Slain(team) \in Int
    BY <1>2, GoodHerd, DeedsInt DEF Done
  <2> QED BY <1>2, <2>1 DEF Done
<1>4. Done(board, team, born + 0)
  BY <1>2, <1>3
<1> QED BY <1>1, <1>3, <1>4, EndTurnKeeps

LEMMA AcceptedFacts ==
  ASSUME IInv
  PROVE  /\ \A kind, l : <<kind, l>> \in Accepted(Active) => ~ turn.over
         /\ \A l : <<"move", l>> \in Accepted(Active) => l \in Near(team[Active].at)
         /\ \A l : <<"explore", l>> \in Accepted(Active) => l \in Unknown(team[Active].at)
         /\ \A l : <<"fight", l>> \in Accepted(Active) => board.monsters[team[Active].at] > 0
BY DEF Accepted, If, Cmd

LEMMA NearFacts ==
  ASSUME IInv, ~ turn.over
  PROVE  Near(team[Active].at) \subseteq Loc /\ team[Active].at \in Loc
<1>1. team[Active].at \in Loc
  BY HeroFacts DEF Hero
<1>2. \A l \in Loc : \A m \in Near(l) : m \in Loc
  BY ContentAssumption
<1> QED BY <1>1, <1>2

LEMMA MysteryKeeps ==
  ASSUME IInv, Mystery
  PROVE  IInv'
<1> DEFINE hidden == {i \in DOMAIN Places : Places[i] \notin board.explored}
<1>1. ~ turn.over
  BY DEF Mystery
<1>2. GoodBoard(board) /\ PaidHero \in Hero /\ PaidHero.saved = team[Active].saved
      /\ Paid = [team EXCEPT ![Active] = PaidHero]
  BY <1>1, HeroFacts, PaidFacts
<1> HIDE DEF Paid
<1>3. CASE \E b \in CardSpawned(board) : Conclude(b, Paid)
  <2>1. PICK b \in CardSpawned(board) : Conclude(b, Paid)
    BY <1>3
  <2>2. b \in Spawned(board)
    BY <2>1 DEF CardSpawned
  <2>3. GoodBoard(b) /\ b.rescued = board.rescued
    BY <1>2, <2>2, SpawnedFollows DEF Follows, SameLand
  <2> QED BY <1>1, <1>2, <2>1, <2>3, CommandKeeps
<1>4. CASE hidden # {} /\ \E b \in Revealed(board, Places[Min(hidden)]) : Conclude(b, Paid)
  <2>1. PICK b \in Revealed(board, Places[Min(hidden)]) : Conclude(b, Paid)
    BY <1>4
  <2>2. Places[Min(hidden)] \in Loc \ board.explored
    <3>1. hidden \subseteq Nat /\ hidden # {}
      BY <1>4, PlacesFacts
    <3>2. Min(hidden) \in hidden
      <4> HIDE DEF hidden
      <4> QED BY <3>1, MinIsIn
    <3> QED BY <3>2, PlacesFacts
  <2> HIDE DEF hidden
  <2>3. GoodBoard(b) /\ b.rescued = board.rescued
    BY <1>2, <2>1, <2>2, RevealedGood
  <2> QED BY <1>1, <1>2, <2>1, <2>3, CommandKeeps
<1> QED BY <1>3, <1>4 DEF Mystery

LEMMA MoveKeeps ==
  ASSUME IInv, NEW l \in Loc, Move(l)
  PROVE  IInv'
<1>1. ~ turn.over
  BY AcceptedFacts DEF Move
<1>2. /\ GoodBoard(board) /\ PaidHero \in Hero /\ PaidHero.saved = team[Active].saved
      /\ Paid = [team EXCEPT ![Active] = PaidHero]
      /\ team \in [Players -> Hero] /\ Active \in Players /\ team[Active] \in Hero
  BY <1>1, HeroFacts, PaidFacts
<1> HIDE DEF Paid
<1>3. CASE FreeMove(Active, l)
  <2> DEFINE h == [team[Active] EXCEPT !.freeMoveUsed = TRUE, !.at = l]
             t == [[team EXCEPT ![Active].freeMoveUsed = TRUE] EXCEPT ![Active].at = l]
  <2>1. h \in Hero /\ h.saved = team[Active].saved
    BY <1>2 DEF Hero
  <2>2. t = [team EXCEPT ![Active] = h]
    BY <1>2 DEF Hero
  <2>3. Conclude(board, t)
    BY <1>3 DEF Move
  <2> HIDE DEF h, t
  <2> QED BY <1>1, <1>2, <2>1, <2>2, <2>3, CommandKeeps
<1>4. CASE ~ FreeMove(Active, l)
  <2> DEFINE h == [PaidHero EXCEPT !.at = l]
             t == [Paid EXCEPT ![Active].at = l]
  <2>1. h \in Hero /\ h.saved = team[Active].saved
    BY <1>2 DEF Hero
  <2>2. t = [team EXCEPT ![Active] = h]
    BY <1>2
  <2>3. Conclude(board, t)
    BY <1>4 DEF Move
  <2> HIDE DEF h, t
  <2> QED BY <1>1, <1>2, <2>1, <2>2, <2>3, CommandKeeps
<1> QED BY <1>3, <1>4

LEMMA ExploreKeeps ==
  ASSUME IInv, NEW l \in Loc, Explore(l)
  PROVE  IInv'
<1>1. ~ turn.over /\ l \notin board.explored
  BY AcceptedFacts DEF Explore, Unknown
<1>2. /\ GoodBoard(board) /\ PaidHero \in Hero /\ PaidHero.saved = team[Active].saved
      /\ Paid = [team EXCEPT ![Active] = PaidHero]
      /\ team \in [Players -> Hero] /\ Active \in Players /\ team[Active] \in Hero
  BY <1>1, HeroFacts, PaidFacts
<1>3. \A b \in Revealed(board, l) : GoodBoard(b) /\ b.rescued = board.rescued
  BY <1>1, <1>2, RevealedGood
<1> HIDE DEF Paid
<1>4. CASE FreeExplore(Active)
  <2> DEFINE h == [team[Active] EXCEPT !.abilityUsed = TRUE]
             t == [team EXCEPT ![Active].abilityUsed = TRUE]
  <2>1. h \in Hero /\ h.saved = team[Active].saved
    BY <1>2 DEF Hero
  <2>2. t = [team EXCEPT ![Active] = h]
    OBVIOUS
  <2>3. PICK b \in Revealed(board, l) : Conclude(b, t)
    BY <1>4 DEF Explore
  <2> HIDE DEF h, t
  <2> QED BY <1>1, <1>3, <2>1, <2>2, <2>3, CommandKeeps
<1>5. CASE ~ FreeExplore(Active)
  <2>1. PICK b \in Revealed(board, l) : Conclude(b, Paid)
    BY <1>5 DEF Explore
  <2> QED BY <1>1, <1>2, <1>3, <2>1, CommandKeeps
<1> QED BY <1>4, <1>5

LEMMA RestKeeps ==
  ASSUME IInv, Rest
  PROVE  IInv'
<1>1. ~ turn.over
  BY AcceptedFacts DEF Rest
<1>2. /\ GoodBoard(board) /\ PaidHero \in Hero /\ PaidHero.saved = team[Active].saved
      /\ Paid = [team EXCEPT ![Active] = PaidHero]
      /\ team \in [Players -> Hero] /\ Active \in Players /\ team[Active] \in Hero
  BY <1>1, HeroFacts, PaidFacts
<1> HIDE DEF Paid
<1> DEFINE rested(n) == IF n + RestHeal > MaxHealth THEN MaxHealth ELSE n + RestHeal
           h == [PaidHero EXCEPT !.health = rested(PaidHero.health)]
           t == [Paid EXCEPT ![Active].health = rested(Paid[Active].health)]
<1>3. rested(PaidHero.health) \in 0 .. MaxHealth
  <2>1. PaidHero.health \in 0 .. MaxHealth
    BY <1>2 DEF Hero
  <2> QED BY <2>1, NumbersAssumption
<1>4. Conclude(board, t)
  BY DEF Rest
<1> HIDE DEF rested
<1>5. h \in Hero /\ h.saved = team[Active].saved
  BY <1>2, <1>3 DEF Hero
<1>6. t = [team EXCEPT ![Active] = h]
  BY <1>2
<1> HIDE DEF h, t
<1> QED BY <1>1, <1>2, <1>4, <1>5, <1>6, CommandKeeps

\* A village that is freed
LEMMA FreedGood ==
  ASSUME NEW b, GoodBoard(b), NEW l \in b.explored, b.kind[l] \in VillageKinds,
         l \notin b.rescued
  PROVE  LET c == [b EXCEPT !.rescued = @ \cup {l}]
         IN GoodBoard(c) /\ Cardinality(c.rescued) = Cardinality(b.rescued) + 1
<1> DEFINE c == [b EXCEPT !.rescued = @ \cup {l}]
<1>1. BoardOK(b)
  BY DEF GoodBoard
<1>2. /\ c.explored = b.explored /\ c.kind = b.kind /\ c.monsters = b.monsters
      /\ c.stack = b.stack /\ c.rescued = b.rescued \cup {l}
  BY <1>1 DEF BoardOK
<1>3. BoardOK(c)
  BY <1>1 DEF BoardOK
<1> HIDE DEF c
<1>4. GoodBoard(c)
  BY <1>2, <1>3 DEF GoodBoard, MonstersOnExplored, TilesConserved, CrystalLeft, LaidOut
<1>5. IsFiniteSet(b.rescued)
  <2>1. b.rescued \in SUBSET Loc
    BY <1>1 DEF BoardOK
  <2> QED BY <2>1, LocFinite, FS_Subset
<1>6. Cardinality(c.rescued) = Cardinality(b.rescued) + 1
  BY <1>2, <1>5, FS_AddElement
<1> QED BY <1>4, <1>6 DEF c

LEMMA FightKeeps ==
  ASSUME IInv, Fight
  PROVE  IInv'
<1> DEFINE l == team[Active].at
           won == [board EXCEPT !.monsters[l] = @ - 1]
           h1 == [PaidHero EXCEPT !.slain = @ + 1]
           hero == [Paid EXCEPT ![Active].slain = @ + 1]
<1>1. ~ turn.over /\ board.monsters[l] > 0
  BY AcceptedFacts DEF Fight
<1>2. /\ GoodBoard(board) /\ PaidHero \in Hero /\ PaidHero.saved = team[Active].saved
      /\ Paid = [team EXCEPT ![Active] = PaidHero]
      /\ team \in [Players -> Hero] /\ Active \in Players /\ team[Active] \in Hero
      /\ l \in Loc
  BY <1>1, HeroFacts, PaidFacts, NearFacts
<1>3. GoodBoard(won) /\ SameLand(board, won) /\ l \in won.explored
  <2>1. l \in board.explored
    BY <1>1, <1>2 DEF GoodBoard, MonstersOnExplored
  <2>2. GoodBoard(won) /\ SameLand(board, won)
    <3> HIDE DEF l
    <3> QED BY <1>1, <1>2, OneLess
  <2> QED BY <2>1, <2>2 DEF SameLand
<1> HIDE DEF Paid
<1>4. h1 \in Hero /\ h1.saved = team[Active].saved /\ hero = [team EXCEPT ![Active] = h1]
  <2>1. h1 \in Hero /\ h1.saved = team[Active].saved
    BY <1>2 DEF Hero
  <2>2. hero = [team EXCEPT ![Active] = h1]
    BY <1>2
  <2> QED BY <2>1, <2>2
<1>5. CASE Conclude(won, hero)
  <2> HIDE DEF won, hero, h1
  <2> QED BY <1>1, <1>3, <1>4, <1>5, CommandKeeps DEF SameLand
<1>6. CASE Frees(won, l) /\ Conclude([won EXCEPT !.rescued = @ \cup {l}],
                                     [hero EXCEPT ![Active].saved = @ + 1])
  <2> DEFINE c == [won EXCEPT !.rescued = @ \cup {l}]
             h2 == [h1 EXCEPT !.saved = @ + 1]
             t == [hero EXCEPT ![Active].saved = @ + 1]
  <2>1. GoodBoard(c) /\ Cardinality(c.rescued) = Cardinality(board.rescued) + 1
    <3> HIDE DEF won, l
    <3>1. won.kind[l] \in VillageKinds /\ l \notin won.rescued
      BY <1>6 DEF Frees
    <3>2. GoodBoard(c) /\ Cardinality(c.rescued) = Cardinality(won.rescued) + 1
      BY <1>3, <3>1, FreedGood
    <3> QED BY <1>3, <3>2 DEF SameLand
  <2>2. h2 \in Hero /\ h2.saved = team[Active].saved + 1
    <3> HIDE DEF h1
    <3> QED BY <1>4 DEF Hero
  <2>3. t = [team EXCEPT ![Active] = h2]
    <3> HIDE DEF h1, hero
    <3>1. hero[Active] = h1
      BY <1>2, <1>4
    <3>2. t = [hero EXCEPT ![Active] = h2]
      BY <3>1
    <3> HIDE DEF h2, t
    <3> QED BY <1>2, <1>4, <3>2
  <2>4. Conclude(c, t)
    BY <1>6
  <2> HIDE DEF c, h2, t, won, hero, h1, l
  <2>5. t \in Teams /\ t[Active] = h2 /\ \A q \in Players \ {Active} : t[q] = team[q]
    BY <1>2, <2>2, <2>3 DEF Teams, Hero
  <2>6. team[Active].saved \in Int /\ Cardinality(board.rescued) \in Int
    <3>1. board.rescued \in SUBSET Loc
      BY <1>2 DEF GoodBoard, BoardOK
    <3> QED BY <1>2, <3>1, LocFinite, FS_Subset, FS_CardinalityType DEF Hero
  <2>7. Cardinality(c.rescued) = Cardinality(board.rescued)
                                   + (t[Active].saved - team[Active].saved)
    BY <2>1, <2>2, <2>5, <2>6
  <2> QED BY <1>1, <2>1, <2>4, <2>5, <2>7, ConcludeKeeps
<1>7. CASE Conclude(board, [Paid EXCEPT ![Active].health = Hurt(@, Damage)])
  <2> DEFINE h == [PaidHero EXCEPT !.health = Hurt(PaidHero.health, Damage)]
             t == [Paid EXCEPT ![Active].health = Hurt(@, Damage)]
  <2>1. Hurt(PaidHero.health, Damage) \in 0 .. MaxHealth
    <3>1. PaidHero.health \in 0 .. MaxHealth
      BY <1>2 DEF Hero
    <3> QED BY <3>1, NumbersAssumption DEF Hurt
  <2>2. h \in Hero /\ h.saved = team[Active].saved
    BY <1>2, <2>1 DEF Hero
  <2>3. t = [team EXCEPT ![Active] = h]
    BY <1>2
  <2>4. Conclude(board, t)
    BY <1>7
  <2> HIDE DEF h, t
  <2> QED BY <1>1, <1>2, <2>2, <2>3, <2>4, CommandKeeps
<1>8. CASE Conclude(board, Paid)
  BY <1>1, <1>2, <1>8, CommandKeeps
<1>9. \/ Conclude(won, hero)
      \/ Frees(won, l) /\ Conclude([won EXCEPT !.rescued = @ \cup {l}],
                                   [hero EXCEPT ![Active].saved = @ + 1])
      \/ Conclude(board, [Paid EXCEPT ![Active].health = Hurt(@, Damage)])
      \/ Conclude(board, Paid)
  BY DEF Fight
<1> QED BY <1>5, <1>6, <1>7, <1>8, <1>9

-----------------------------------------------------------------------------
(* The hunt.                                                               *)

\* Pursuit for the monsters of one place
Chases(l) ==
  LET far(x, m) == Steps(board, x, m)
      nearest(x, M) == Min({far(x, m) : m \in M})
      goal == Goal(board, team, l, turn.darkness)
      people == {m \in Loc : Here(team, m) # {} /\ Reaches(board, l, m)}
      M == IF people # {} THEN people
           ELSE {m \in {Tower} : Reaches(board, l, m)}
      d == nearest(l, M)
      step == Min({d, Budget(turn.darkness)})
  IN IF M = {} THEN goal = l
     ELSE far(l, goal) = step /\ nearest(goal, M) = d - step

LEMMA IInvChases ==
  ASSUME IInv, NEW l \in Loc, board.monsters[l] > 0
  PROVE  Chases(l)
<1> DEFINE b == board
           t == team
           n == Budget(turn.darkness)
           goal == Goal(board, team, l, turn.darkness)
           to == Target(board, team, l)
           people == People(board, team, l)
           M == IF people # {} THEN people ELSE {m \in {Tower} : Reaches(board, l, m)}
           D == Steps(board, l, to)
           step == IF n < D THEN n ELSE D
<1>1. GoodBoard(board) /\ team \in Teams
  BY IInvDone DEF Done
<1>2. board.explored \in SUBSET Loc /\ l \in board.explored
  BY <1>1, GoodHerd DEF Herded
<1>3. turn.darkness \in Nat /\ n \in Nat /\ \A p \in Players : team[p].at \in Loc
  <2>1. turn.darkness \in Nat
    BY NumbersAssumption DEF IInv, NothingLost, TypeOK
  <2> QED BY <1>1, <2>1, BudgetType DEF Teams
<1>4. Tower \in board.explored
  <2>1. DOMAIN MapKind \subseteq board.explored
    BY <1>1 DEF GoodBoard, BoardOK
  <2>2. \E x \in DOMAIN MapKind : MapKind[x] \in TowerKinds
    BY ContentAssumption
  <2> QED BY <2>1, <2>2 DEF Tower
<1>5. /\ people = {} => to = Tower
      /\ people # {} => to \in people /\ \A m \in people : D <= Steps(board, l, m)
  BY <1>2, <1>3, TargetFacts
<1>6. /\ Far \in Nat /\ \A x, y \in Loc : Steps(board, x, y) \in 0 .. Far
      /\ \A x \in board.explored : x \in Loc
  BY <1>2, StepsFacts, FarIsPositive
<1>7. \A m \in M : m \in board.explored /\ Reaches(board, l, m)
  <2>1. ASSUME NEW m \in people PROVE m \in board.explored /\ Reaches(board, l, m)
    <3>1. m \in Loc /\ Reaches(board, l, m)
      BY DEF People
    <3>2. m \in Reach(board.explored, l)[Steps(board, l, m)]
      BY <1>2, <3>1, StepsFacts
    <3>3. Steps(board, l, m) \in Nat /\ Steps(board, l, m) <= Far
      BY <1>6, <3>1
    <3> QED BY <1>2, <3>1, <3>2, <3>3, ReachIn
  <2> QED BY <1>4, <2>1
<1>8. M # {} => to \in M /\ \A m \in M : D <= Steps(board, l, m)
  <2>1. CASE people # {}
    BY <1>5, <2>1
  <2>2. CASE people = {}
    <3>1. to = Tower /\ D \in 0 .. Far
      BY <1>4, <1>5, <1>6, <2>2
    <3>2. D <= D
      BY <1>6, <3>1
    <3>3. M = {m \in {Tower} : Reaches(board, l, m)}
      BY <2>2
    <3> HIDE DEF M, to, people
    <3> QED BY <3>1, <3>2, <3>3
  <2> QED BY <2>1, <2>2
<1>9. to \in board.explored
  BY <1>4, <1>5, <1>7
<1>10. PICK w : Strolls(board, team, l, n, w) /\ goal = w[n]
  BY <1>2, <1>3, GoalWalk
<1>11. CASE M = {}
  <2>1. ~ Reaches(board, l, to)
    BY <1>5, <1>11
  <2>2. goal = l
    <3> HIDE DEF n, goal
    <3> QED BY <1>2, <1>3, <1>9, <1>10, <2>1, WalkStays
  <2> QED BY <1>11, <2>2 DEF Chases, People
<1>12. CASE M # {}
  <2>1. Reaches(board, l, to)
    BY <1>7, <1>8, <1>12
  <2>2. /\ goal \in board.explored /\ Steps(board, l, goal) = step
        /\ Steps(board, to, goal) = D - step
    <3> HIDE DEF n, goal
    <3> QED BY <1>2, <1>3, <1>5, <1>9, <1>10, <2>1, WalkCloser
  <2> DEFINE S(x) == {Steps(board, x, m) : m \in M}
  <2> HIDE DEF M, to, goal, people
  <2>3. \A m \in M : m \in Loc
    BY <1>6, <1>7
  <2>4. goal \in Loc /\ to \in Loc /\ D \in Nat
    BY <1>6, <1>9, <2>2
  <2>5. Min(S(l)) = D
    <3>1. S(l) \subseteq Nat /\ D \in S(l) /\ \A k \in S(l) : D <= k
      BY <1>6, <1>8, <1>12, <2>3
    <3> HIDE DEF S, D
    <3> QED BY <3>1, MinIs
  <2>6. Min({D, n}) = step
    <3>1. {D, n} \subseteq Nat /\ step \in {D, n} /\ \A k \in {D, n} : step <= k
      BY <1>3, <2>4
    <3> HIDE DEF D, n, step
    <3> QED BY <3>1, MinIs
  <2>7. Min(S(goal)) = D - step
    <3>1. Steps(board, goal, to) = D - step
      BY <1>2, <1>9, <2>2, StepsBack
    <3>2. \A m \in M : D - step <= Steps(board, goal, m)
      <4> SUFFICES ASSUME NEW m \in M PROVE D - step <= Steps(board, goal, m)
        OBVIOUS
      <4>1. Steps(board, l, m) <= Steps(board, l, goal) + Steps(board, goal, m)
        BY <1>2, <2>3, <2>4, StepsChain
      <4>2. D <= Steps(board, l, m)
        BY <1>8, <1>12
      <4>3. Steps(board, l, m) \in Nat /\ Steps(board, goal, m) \in Nat /\ step \in Nat
        BY <1>3, <1>6, <2>3, <2>4
      <4> HIDE DEF step, D
      <4> QED BY <2>2, <2>4, <4>1, <4>2, <4>3
    <3>3. S(goal) \subseteq Nat /\ D - step \in S(goal) /\ \A k \in S(goal) : D - step <= k
      BY <1>6, <1>8, <1>12, <2>3, <2>4, <3>1, <3>2
    <3> HIDE DEF S, D, step
    <3> QED BY <3>3, MinIs
  <2> HIDE DEF D, step, n
  <2>8. /\ Steps(board, l, goal) = Min({Min(S(l)), n})
        /\ Min(S(goal)) = Min(S(l)) - Min({Min(S(l)), n})
    BY <2>2, <2>5, <2>6, <2>7
  <2> QED BY <1>12, <2>8 DEF Chases, M, goal, people, People, n
<1> QED BY <1>11, <1>12

-----------------------------------------------------------------------------
(* The invariant.                                                          *)

LEMMA InitKeeps ==
  ASSUME Init
  PROVE  IInv
<1>1. PICK b0 \in Boards : \E b \in EventCard(b0) :
        /\ board = b
        /\ born = Herd(b)
        /\ team = Opened([p \in Players |->
                            [at |-> Start, ap |-> 0, health |-> MaxHealth,
                             freeMoveUsed |-> FALSE, abilityUsed |-> FALSE,
                             slain |-> 0, saved |-> 0]], TurnOrder[1], 0)
        /\ turn = [activeIdx |-> 1, firstIdx |-> 1, turnsTaken |-> 0, darkness |-> 0,
                   over |-> FALSE]
  BY DEF Init
<1> DEFINE h == [at |-> Start, ap |-> 0, health |-> MaxHealth,
                 freeMoveUsed |-> FALSE, abilityUsed |-> FALSE,
                 slain |-> 0, saved |-> 0]
           t == [p \in Players |-> h]
<1>2. GoodBoard(board) /\ board.rescued = {} /\ born = Herd(board) /\ Herd(board) \in Int
  <2>1. GoodBoard(b0) /\ b0.rescued = {}
    BY BoardsGood
  <2>2. board \in EventCard(b0) /\ born = Herd(board)
    BY <1>1
  <2> QED BY <2>1, <2>2, EventCardFollows DEF Follows, SameLand
<1>3. h \in Hero /\ t \in Teams
  <2>1. Start \in Loc /\ 0 \in 0 .. ActionPoints /\ MaxHealth \in 0 .. MaxHealth
    BY ContentAssumption, NumbersAssumption
  <2> QED BY <2>1 DEF Hero, Teams
<1>4. turn \in [activeIdx : Seats, firstIdx : Seats, turnsTaken : 0 .. Len(TurnOrder),
                darkness : 0 .. MaxDarkness, over : BOOLEAN]
      /\ turn.activeIdx = 1 /\ turn.turnsTaken < Len(TurnOrder)
  <2>1. 1 \in Seats /\ 0 \in 0 .. Len(TurnOrder) /\ 0 \in 0 .. MaxDarkness
        /\ 0 < Len(TurnOrder)
    BY OrderFacts, NumbersAssumption
  <2> QED BY <1>1, <2>1
<1>5. Active = TurnOrder[1] /\ Active \in Players
  BY <1>4, OrderFacts DEF Active
<1>6. \A p \in Players : t[p].ap = 0 /\ t[p].slain = 0 /\ t[p].saved = 0
  OBVIOUS
<1>7. team = Opened(t, TurnOrder[1], 0)
  BY <1>1
<1> HIDE DEF h, t
<1>8. /\ team \in Teams /\ SameDeeds(t, team) /\ team[Active].ap >= 1
      /\ \A p \in Players \ {Active} : team[p].ap = 0
  BY <1>3, <1>5, <1>6, <1>7, OpenedFacts
<1>9. Slain(team) = 0 /\ Saved(team) = 0
  <2>1. /\ [p \in Players |-> t[p].slain] \in [Players -> Int]
        /\ [p \in Players |-> t[p].saved] \in [Players -> Int]
        /\ \A p \in Players : /\ [q \in Players |-> t[q].slain][p] = 0
                              /\ [q \in Players |-> t[q].saved][p] = 0
    BY <1>6
  <2>2. Slain(t) = 0
    BY <2>1, PlayersFinite, SumOfZeros DEF Slain
  <2>3. Saved(t) = 0
    BY <2>1, PlayersFinite, SumOfZeros DEF Saved
  <2> QED BY <1>8, <2>2, <2>3, DeedsSums
<1>10. Herd(board) + Slain(team) = born /\ Cardinality(board.rescued) = Saved(team)
  BY <1>2, <1>9, FS_EmptySet
<1> QED BY <1>2, <1>4, <1>8, <1>10
       DEF IInv, NothingLost, TypeOK, MonstersCounted, RescuedOnce, CrystalReachable,
           GoodBoard, GoesOn

LEMMA StutterKeeps ==
  ASSUME IInv, UNCHANGED vars
  PROVE  IInv'
<1> USE DEF vars
<1>1. Active' = Active
  BY DEF Active
<1>2. Done(board, team, born) /\ GoesOn
      /\ turn \in [activeIdx : Seats, firstIdx : Seats, turnsTaken : 0 .. Len(TurnOrder),
                   darkness : 0 .. MaxDarkness, over : BOOLEAN]
  BY IInvDone
<1>3. Done(board, team, born)' /\ GoesOn'
  BY <1>1, <1>2 DEF Done, GoesOn
<1> QED BY <1>2, <1>3, Assembled

\* The inductive invariant holds in every reachable state.
THEOREM Invariant == Spec => []IInv
<1>1. Init => IInv
  BY InitKeeps
<1>2. IInv /\ [Next]_vars => IInv'
  <2> SUFFICES ASSUME IInv, [Next]_vars PROVE IInv'
    OBVIOUS
  <2>1. ASSUME NEW l \in Loc, Move(l) PROVE IInv'
    BY <2>1, MoveKeeps
  <2>2. ASSUME NEW l \in Loc, Explore(l) PROVE IInv'
    BY <2>2, ExploreKeeps
  <2>3. CASE Fight
    BY <2>3, FightKeeps
  <2>4. CASE Rest
    BY <2>4, RestKeeps
  <2>5. CASE Mystery
    BY <2>5, MysteryKeeps
  <2>6. CASE Work
    BY <2>6, WorkKeeps
  <2>7. CASE EndOfTurn
    BY <2>7, EndOfTurnKeeps
  <2>8. CASE UNCHANGED vars
    BY <2>8, StutterKeeps
  <2> QED BY <2>1, <2>2, <2>3, <2>4, <2>5, <2>6, <2>7, <2>8 DEF Next
<1> QED BY <1>1, <1>2, PTL DEF Spec

\* Monsters, villages and tiles are neither lost nor doubled, whatever the
\* map, the content and the order of the table: runMonsterPhase moves every
\* monster it has counted, revealLocation takes the tile it lays off the stack,
\* and tryRescueVillage credits a village once.
THEOREM NothingIsLost == Spec => []NothingLost
<1>1. IInv => NothingLost
  BY DEF IInv
<1> QED BY <1>1, Invariant, PTL

\* ensureCrystalReachable keeps its promise for every shuffle and every order
\* in which the island is explored.
THEOREM CrystalStays == Spec => []CrystalReachable
<1>1. IInv => CrystalReachable
  BY DEF IInv
<1> QED BY <1>1, Invariant, PTL

\* One monster phase moves every monster once, however the places are ordered
\* and whoever moves into a place that is still to come.
THEOREM MonstersActOnce == Spec => []NoMonsterTwice
<1>1. IInv => NoMonsterTwice
  <2> SUFFICES ASSUME IInv PROVE NoMonsterTwice
    OBVIOUS
  <2>0. GoodBoard(board)
    BY IInvDone DEF Done
  <2>1. Herded(board.monsters, board.explored) /\ board.explored \subseteq Loc
    BY <2>0, GoodHerd
  <2>2. turn.darkness \in Nat
    BY ContentAssumption DEF IInv, NothingLost, TypeOK
  <2>3. PICK m : /\ Prowled(board, team, turn.darkness) = [board EXCEPT !.monsters = m]
                 /\ Herded(m, board.explored) /\ Sum(m) = Sum(board.monsters)
                 /\ \A l \in Loc : m[l] <= Sum([x \in Within(board, turn.darkness, l)
                                                  |-> board.monsters[x]])
    BY <2>1, <2>2, ProwledFacts
  <2> DEFINE after == [board EXCEPT !.monsters = m]
  <2>4. after.monsters = m
    BY <2>0, <2>3, Regrouped
  <2>5. Herd(after) = Herd(board)
    BY <2>3, <2>4 DEF Herd
  <2> HIDE DEF after
  <2>6. Prowled(board, team, turn.darkness) = after
    BY <2>3 DEF after
  <2> QED BY <2>3, <2>4, <2>5, <2>6 DEF NoMonsterTwice, Within
<1> QED BY <1>1, Invariant, PTL

\* nearestPlayerLocation, stepToward and the walk of resolveOneMonster together
\* bring a monster as much closer to the nearest player as its budget allows,
\* on every map and in every position.
THEOREM MonstersPursue == Spec => []Pursuit
<1>1. IInv => Pursuit
  <2> SUFFICES ASSUME IInv, NEW l \in Loc, board.monsters[l] > 0
               PROVE  Chases(l)
    BY DEF Pursuit, Chases
  <2> QED BY IInvChases
<1> QED BY <1>1, Invariant, PTL

\* LegalCommands offers exactly what Decide accepts, of the commands that
\* depend on the board.
THEOREM OffersExact == Spec => []OffersAreExact
<1>1. IInv => OffersAreExact
  <2> SUFFICES ASSUME IInv, NEW p \in Players
               PROVE  Legal(p) = Accepted(p)
    BY DEF OffersAreExact, OfferedIsAccepted, AcceptedIsOffered
  <2>1. CASE turn.over \/ p # Active
    BY <2>1 DEF Legal, Accepted, If
  <2>2. CASE ~ turn.over /\ p = Active
    <3>1. team[p].ap >= 1 /\ team[p].ap \in Int
      BY <2>2, HeroFacts DEF Hero
    <3>2. ~ (team[p].ap < 1)
      BY <3>1
    <3>3. \A l : {m \in Near(l) : m \notin board.explored} = Unknown(l)
      BY DEF Unknown
    <3>4. \A l : {m \in Near(l) : TRUE} = Near(l)
      OBVIOUS
    <3> QED BY <2>2, <3>1, <3>2, <3>3, <3>4 DEF Legal, Accepted, If, Cmd
  <2> QED BY <2>1, <2>2
<1> QED BY <1>1, Invariant, PTL
=============================================================================
