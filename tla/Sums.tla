--------------------------------- MODULE Sums ---------------------------------
(***************************************************************************)
(* Sums over finite sets: what the fold of the library computes, stated    *)
(* and proved from its definition.                                         *)
(*                                                                         *)
(* A property of subsets is given as the set of those that have it, and    *)
(* induction over them is proved by a smallest counterexample              *)
(* (SetInduction).  With it the function the fold is a value of exists, is *)
(* the only one, and adds one term after the other in any order.  Sums     *)
(* over an interval, where the terms have an order, are taken term by term *)
(* by induction over the natural numbers (CountingUp).                     *)
(***************************************************************************)
EXTENDS Integers, FiniteSetsExt, FiniteSetTheorems, WellFoundedInduction, TLAPS

\* The sum of what b holds at the members of S.
SumOver(b, S) == MapThenSumSet(LAMBDA l : b[l], S)

\* What the fold computes: the sum of a set, by taking away one element after the other.
Pick(s) == CHOOSE y \in s : TRUE
SumStep(b, s, g) == IF s = {} THEN 0 ELSE b[Pick(s)] + g[s \ {Pick(s)}]
IsSum(b, S, g) == g = [s \in SUBSET S |-> SumStep(b, s, g)]

\* The order of the natural numbers, as a set of pairs.
NatLess == {s \in Nat \X Nat : s[1] < s[2]}

\* A set of natural numbers has a least one.
LEMMA LeastOfSet == ASSUME NEW S \in SUBSET Nat, S # {} PROVE \E m \in S : \A k \in S : m <= k
<1>1. IsWellFoundedOn(NatLess, Nat)
  BY NatLessThanWellFounded DEF OpToRel, NatLess
<1>2. PICK m \in S : \A k \in S : <<k, m>> \notin NatLess
  BY <1>1, WFMin
<1>3. ASSUME NEW k \in S PROVE m <= k
  <2>1. k \in Nat /\ m \in Nat /\ ~(k < m)
    BY <1>2 DEF NatLess
  <2> QED BY <2>1
<1> QED BY <1>3

\* Induction over the subsets of a finite set, for a property given as the set P of the
\* subsets that have it.
LEMMA SetInduction ==
    ASSUME NEW S, IsFiniteSet(S), NEW P,
           ASSUME NEW T \in SUBSET S, \A U \in SUBSET T : U # T => U \in P
           PROVE  T \in P
    PROVE  \A T \in SUBSET S : T \in P
<1> DEFINE Bad == {T \in SUBSET S : T \notin P}
           Sizes == {n \in Nat : \E T \in Bad : Cardinality(T) = n}
<1>1. \A T \in SUBSET S : IsFiniteSet(T) /\ Cardinality(T) \in Nat
  BY FS_Subset, FS_CardinalityType
<1>2. SUFFICES ASSUME NEW T0 \in Bad PROVE FALSE
  OBVIOUS
<1>3. Sizes # {} /\ Sizes \subseteq Nat
  BY <1>1
<1>4. PICK n \in Sizes : \A k \in Sizes : n <= k
  <2> HIDE DEF Sizes
  <2> QED BY <1>3, LeastOfSet
<1>5. PICK T \in Bad : Cardinality(T) = n
  BY <1>4
<1>6. ASSUME NEW U \in SUBSET T, U # T PROVE U \in P
  <2>1. T \in SUBSET S /\ IsFiniteSet(T) /\ U \in SUBSET S /\ Cardinality(T) \in Nat /\ Cardinality(U) \in Nat
    BY <1>1
  <2>2. Cardinality(U) <= Cardinality(T) /\ Cardinality(U) # Cardinality(T)
    BY <2>1, <1>6, FS_Subset
  <2>3. Cardinality(U) < n
    BY <2>1, <2>2, <1>5
  <2>4. Cardinality(U) \notin Sizes
    <3>1. n \in Nat
      BY <1>4
    <3>2. ~(n <= Cardinality(U))
      BY <2>1, <2>3, <3>1
    <3> HIDE DEF Sizes
    <3> QED BY <1>4, <3>2
  <2> QED BY <2>1, <2>4
<1> QED BY <1>5, <1>6

\* What is taken away was there.
LEMMA PickIn == ASSUME NEW s, s # {} PROVE Pick(s) \in s
BY DEF Pick

\* Two sums over different sets agree on what they have in common.
LEMMA SumsAgree ==
    ASSUME NEW b, NEW S, IsFiniteSet(S), NEW T, NEW U, S \subseteq T, S \subseteq U,
           NEW g, IsSum(b, T, g), NEW h, IsSum(b, U, h)
    PROVE  g[S] = h[S]
<1> DEFINE P == {s \in SUBSET S : g[s] = h[s]}
<1>1. ASSUME NEW s \in SUBSET S, \A u \in SUBSET s : u # s => u \in P PROVE s \in P
  <2>1. s \in SUBSET T /\ s \in SUBSET U
    OBVIOUS
  <2>2. g[s] = SumStep(b, s, g) /\ h[s] = SumStep(b, s, h)
    BY <2>1 DEF IsSum
  <2>3. s # {} => s \ {Pick(s)} \in P
    BY <1>1, PickIn
  <2> QED BY <2>2, <2>3 DEF SumStep
<1>2. \A s \in SUBSET S : s \in P
  <2> HIDE DEF P
  <2> QED BY <1>1, SetInduction
<1> QED BY <1>2

\* A sum over a set is one over each of its subsets.
LEMMA SumRestricted ==
    ASSUME NEW b, NEW S, NEW T \in SUBSET S, NEW g, IsSum(b, S, g)
    PROVE  IsSum(b, T, [s \in SUBSET T |-> g[s]])
<1> DEFINE h == [s \in SUBSET T |-> g[s]]
<1>1. ASSUME NEW s \in SUBSET T PROVE g[s] = SumStep(b, s, h)
  <2>1. g[s] = SumStep(b, s, g)
    BY DEF IsSum
  <2>2. s # {} => s \ {Pick(s)} \in SUBSET T
    OBVIOUS
  <2> QED BY <2>1, <2>2 DEF SumStep
<1>2. h = [s \in SUBSET T |-> SumStep(b, s, h)]
  BY <1>1
<1> QED BY <1>2 DEF IsSum

\* Every finite set has one.
LEMMA SumExists ==
    ASSUME NEW b, NEW S, IsFiniteSet(S)
    PROVE  \E g : IsSum(b, S, g)
<1> DEFINE P == {T \in SUBSET S : \E g : IsSum(b, T, g)}
<1>1. ASSUME NEW T \in SUBSET S, \A U \in SUBSET T : U # T => U \in P PROVE T \in P
  <2> DEFINE Of(U) == CHOOSE g : IsSum(b, U, g)
             V == [s \in SUBSET T |-> IF s = T THEN 0 ELSE Of(s)[s]]
             top == SumStep(b, T, V)
             g == [s \in SUBSET T |-> IF s = T THEN top ELSE Of(s)[s]]
  <2>1. \A U \in SUBSET T : U # T => IsSum(b, U, Of(U))
    BY <1>1
  <2> HIDE DEF Of
  <2>2. ASSUME NEW s \in SUBSET T PROVE g[s] = SumStep(b, s, g)
    <3>1. CASE s = T
      <4>1. T # {} => /\ T \ {Pick(T)} \in SUBSET T /\ T \ {Pick(T)} # T
                      /\ V[T \ {Pick(T)}] = g[T \ {Pick(T)}]
        BY PickIn
      <4> QED BY <3>1, <4>1 DEF SumStep
    <3>2. CASE s # T
      <4>1. g[s] = Of(s)[s] /\ IsSum(b, s, Of(s))
        BY <3>2, <2>1
      <4>2. Of(s)[s] = SumStep(b, s, Of(s))
        BY <4>1 DEF IsSum
      <4>3. CASE s = {}
        BY <4>1, <4>2, <4>3 DEF SumStep
      <4>4. CASE s # {}
        <5> DEFINE r == s \ {Pick(s)}
        <5>1. r \in SUBSET T /\ r # T /\ r \subseteq s
          BY <3>2
        <5>2. IsSum(b, r, Of(r)) /\ g[r] = Of(r)[r]
          BY <5>1, <2>1
        <5>3. IsFiniteSet(r)
          <6>1. r \in SUBSET S
            BY <5>1
          <6> QED BY <6>1, FS_Subset
        <5>4. Of(s)[r] = Of(r)[r]
          <6> HIDE DEF r
          <6> QED BY <5>1, <5>2, <5>3, <4>1, SumsAgree
        <5> QED BY <4>1, <4>2, <4>4, <5>2, <5>4 DEF SumStep
      <4> QED BY <4>3, <4>4
    <3> QED BY <3>1, <3>2
  <2>3. g = [s \in SUBSET T |-> SumStep(b, s, g)]
    BY <2>2
  <2>4. IsSum(b, T, g)
    <3> HIDE DEF g
    <3> QED BY <2>3 DEF IsSum
  <2> QED BY <2>4
<1>2. \A T \in SUBSET S : T \in P
  <2> HIDE DEF P
  <2> QED BY <1>1, SetInduction
<1> QED BY <1>2

\* The fold of the library is such a sum.
LEMMA SumIsOne ==
    ASSUME NEW b, NEW S, IsFiniteSet(S)
    PROVE  \E g : IsSum(b, S, g) /\ SumOver(b, S) = g[S]
<1>1. \E g : IsSum(b, S, g)
  BY SumExists
<1>2. LET iter[s \in SUBSET S] ==
              IF s = {} THEN 0 ELSE LET x == CHOOSE y \in s : TRUE IN b[x] + iter[s \ {x}]
      IN  iter = [s \in SUBSET S |->
              IF s = {} THEN 0 ELSE LET x == CHOOSE y \in s : TRUE IN b[x] + iter[s \ {x}]]
  BY <1>1 DEF IsSum, SumStep, Pick
<1>3. SumOver(b, S) =
          LET iter[s \in SUBSET S] ==
              IF s = {} THEN 0 ELSE LET x == CHOOSE y \in s : TRUE IN b[x] + iter[s \ {x}]
          IN  iter[S]
  BY DEF SumOver, MapThenSumSet, MapThenFoldSet
<1> QED BY <1>2, <1>3 DEF IsSum, SumStep, Pick

\* So it is zero over nothing, and else one term more than over a smaller set.
LEMMA SumUnfolds ==
    ASSUME NEW b, NEW S, IsFiniteSet(S)
    PROVE  SumOver(b, S) = IF S = {} THEN 0 ELSE b[Pick(S)] + SumOver(b, S \ {Pick(S)})
<1>1. PICK g : IsSum(b, S, g) /\ SumOver(b, S) = g[S]
  BY SumIsOne
<1>2. g[S] = SumStep(b, S, g)
  BY <1>1 DEF IsSum
<1>3. CASE S # {}
  <2> DEFINE R == S \ {Pick(S)}
  <2>1. R \in SUBSET S
    OBVIOUS
  <2>2. IsFiniteSet(R)
    <3> HIDE DEF R
    <3> QED BY <2>1, FS_Subset
  <2>3. PICK h : IsSum(b, R, h) /\ SumOver(b, R) = h[R]
    <3> HIDE DEF R
    <3> QED BY <2>2, SumIsOne
  <2>4. g[R] = h[R]
    <3> HIDE DEF R
    <3> QED BY <1>1, <2>1, <2>2, <2>3, SumsAgree
  <2> QED BY <1>1, <1>2, <1>3, <2>3, <2>4 DEF SumStep
<1> QED BY <1>1, <1>2, <1>3 DEF SumStep

\* A sum of integers is an integer.
LEMMA SumIsInt ==
    ASSUME NEW b, NEW S, IsFiniteSet(S), \A x \in S : b[x] \in Int
    PROVE  SumOver(b, S) \in Int
<1> DEFINE P == {T \in SUBSET S : SumOver(b, T) \in Int}
<1>1. ASSUME NEW T \in SUBSET S, \A U \in SUBSET T : U # T => U \in P PROVE T \in P
  <2>1. IsFiniteSet(T)
    BY FS_Subset
  <2>2. SumOver(b, T) = IF T = {} THEN 0 ELSE b[Pick(T)] + SumOver(b, T \ {Pick(T)})
    BY <2>1, SumUnfolds
  <2>3. T # {} => Pick(T) \in S /\ T \ {Pick(T)} \in P
    BY <1>1, PickIn
  <2> QED BY <2>2, <2>3
<1>2. \A T \in SUBSET S : T \in P
  <2> HIDE DEF P
  <2> QED BY <1>1, SetInduction
<1> QED BY <1>2

\* ... whichever element is taken away first.
LEMMA SumTakesAway ==
    ASSUME NEW b, NEW S, IsFiniteSet(S), \A x \in S : b[x] \in Int, NEW x \in S
    PROVE  SumOver(b, S) = b[x] + SumOver(b, S \ {x})
<1> DEFINE P == {T \in SUBSET S : \A y \in T : SumOver(b, T) = b[y] + SumOver(b, T \ {y})}
<1>0. \A T \in SUBSET S : SumOver(b, T) \in Int
  <2> TAKE T \in SUBSET S
  <2>1. IsFiniteSet(T)
    BY FS_Subset
  <2> QED BY <2>1, SumIsInt
<1>1. ASSUME NEW T \in SUBSET S, \A U \in SUBSET T : U # T => U \in P, NEW y \in T
      PROVE  SumOver(b, T) = b[y] + SumOver(b, T \ {y})
  <2> DEFINE c == Pick(T)
  <2>1. IsFiniteSet(T) /\ c \in T /\ c \in S /\ y \in S
    BY PickIn, FS_Subset
  <2>2. SumOver(b, T) = b[c] + SumOver(b, T \ {c})
    BY <2>1, SumUnfolds
  <2> HIDE DEF c
  <2>3. CASE c # y
    <3>1. T \ {c} \in SUBSET T /\ T \ {c} # T /\ T \ {y} \in SUBSET T /\ T \ {y} # T
      BY <2>1
    <3>2. SumOver(b, T \ {c}) = b[y] + SumOver(b, (T \ {c}) \ {y})
      BY <1>1, <2>1, <2>3, <3>1
    <3>3. SumOver(b, T \ {y}) = b[c] + SumOver(b, (T \ {y}) \ {c})
      BY <1>1, <2>1, <2>3, <3>1
    <3>4. (T \ {c}) \ {y} = (T \ {y}) \ {c} /\ (T \ {c}) \ {y} \in SUBSET S
      OBVIOUS
    <3>5. SumOver(b, (T \ {c}) \ {y}) \in Int /\ b[c] \in Int /\ b[y] \in Int
      BY <1>0, <2>1, <3>4
    <3>6. SumOver(b, T) = b[c] + (b[y] + SumOver(b, (T \ {c}) \ {y}))
      BY <2>2, <3>2
    <3>7. SumOver(b, T \ {y}) = b[c] + SumOver(b, (T \ {c}) \ {y})
      BY <3>3, <3>4
    <3> QED BY <3>5, <3>6, <3>7
  <2>4. CASE c = y
    BY <2>2, <2>4
  <2> QED BY <2>3, <2>4
<1>2. \A T \in SUBSET S : T \in P
  <2>1. ASSUME NEW T \in SUBSET S, \A U \in SUBSET T : U # T => U \in P PROVE T \in P
    BY <1>1, <2>1
  <2> HIDE DEF P
  <2> QED BY <2>1, SetInduction
<1> QED BY <1>2

\* The sum of sums, term by term.
LEMMA SumsAdd ==
    ASSUME NEW b, NEW c, NEW d, NEW S, IsFiniteSet(S),
           \A x \in S : b[x] \in Int /\ c[x] \in Int /\ d[x] = b[x] + c[x]
    PROVE  SumOver(d, S) = SumOver(b, S) + SumOver(c, S)
<1> DEFINE P == {T \in SUBSET S : SumOver(d, T) = SumOver(b, T) + SumOver(c, T)}
<1>1. ASSUME NEW T \in SUBSET S, \A U \in SUBSET T : U # T => U \in P PROVE T \in P
  <2>1. IsFiniteSet(T) /\ IsFiniteSet(T \ {Pick(T)})
    <3>1. T \ {Pick(T)} \in SUBSET S
      OBVIOUS
    <3> QED BY <3>1, FS_Subset
  <2>2. /\ SumOver(b, T) = IF T = {} THEN 0 ELSE b[Pick(T)] + SumOver(b, T \ {Pick(T)})
        /\ SumOver(c, T) = IF T = {} THEN 0 ELSE c[Pick(T)] + SumOver(c, T \ {Pick(T)})
        /\ SumOver(d, T) = IF T = {} THEN 0 ELSE d[Pick(T)] + SumOver(d, T \ {Pick(T)})
    BY <2>1, SumUnfolds
  <2>3. CASE T # {}
    <3>1. Pick(T) \in S /\ T \ {Pick(T)} \in P
      BY <1>1, <2>3, PickIn
    <3>2. \A y \in T \ {Pick(T)} : b[y] \in Int /\ c[y] \in Int
      OBVIOUS
    <3>3. SumOver(b, T \ {Pick(T)}) \in Int /\ SumOver(c, T \ {Pick(T)}) \in Int
      <4> DEFINE R == T \ {Pick(T)}
      <4>1. IsFiniteSet(R) /\ \A y \in R : b[y] \in Int /\ c[y] \in Int
        BY <2>1, <3>2
      <4> HIDE DEF R
      <4>2. SumOver(b, R) \in Int /\ SumOver(c, R) \in Int
        BY <4>1, SumIsInt
      <4> QED BY <4>2 DEF R
    <3> QED BY <2>2, <2>3, <3>1, <3>3
  <2> QED BY <2>2, <2>3
<1>2. \A T \in SUBSET S : T \in P
  <2> HIDE DEF P
  <2> QED BY <1>1, SetInduction
<1> QED BY <1>2

\* Equal terms have equal sums.
LEMMA SumsSame ==
    ASSUME NEW b, NEW c, NEW S, IsFiniteSet(S), \A x \in S : b[x] = c[x]
    PROVE  SumOver(b, S) = SumOver(c, S)
<1> DEFINE P == {T \in SUBSET S : SumOver(b, T) = SumOver(c, T)}
<1>1. ASSUME NEW T \in SUBSET S, \A U \in SUBSET T : U # T => U \in P PROVE T \in P
  <2>1. IsFiniteSet(T)
    BY FS_Subset
  <2>2. /\ SumOver(b, T) = IF T = {} THEN 0 ELSE b[Pick(T)] + SumOver(b, T \ {Pick(T)})
        /\ SumOver(c, T) = IF T = {} THEN 0 ELSE c[Pick(T)] + SumOver(c, T \ {Pick(T)})
    BY <2>1, SumUnfolds
  <2>3. T # {} => Pick(T) \in S /\ T \ {Pick(T)} \in P
    BY <1>1, PickIn
  <2> QED BY <2>2, <2>3
<1>2. \A T \in SUBSET S : T \in P
  <2> HIDE DEF P
  <2> QED BY <1>1, SetInduction
<1> QED BY <1>2

\* A sum of no negative terms is not negative, and no less than any of them.
LEMMA SumNotNegative ==
    ASSUME NEW b, NEW S, IsFiniteSet(S), \A x \in S : b[x] \in Nat
    PROVE  SumOver(b, S) \in Nat /\ \A x \in S : b[x] <= SumOver(b, S)
<1> DEFINE P == {T \in SUBSET S : SumOver(b, T) \in Nat}
<1>1. ASSUME NEW T \in SUBSET S, \A U \in SUBSET T : U # T => U \in P PROVE T \in P
  <2>1. IsFiniteSet(T)
    BY FS_Subset
  <2>2. SumOver(b, T) = IF T = {} THEN 0 ELSE b[Pick(T)] + SumOver(b, T \ {Pick(T)})
    BY <2>1, SumUnfolds
  <2>3. T # {} => Pick(T) \in S /\ T \ {Pick(T)} \in P
    BY <1>1, PickIn
  <2> QED BY <2>2, <2>3
<1>2. \A T \in SUBSET S : T \in P
  <2> HIDE DEF P
  <2> QED BY <1>1, SetInduction
<1>3. ASSUME NEW x \in S PROVE b[x] <= SumOver(b, S)
  <2>1. SumOver(b, S) = b[x] + SumOver(b, S \ {x})
    BY SumTakesAway
  <2>2. S \ {x} \in P
    BY <1>2
  <2> QED BY <2>1, <2>2
<1> QED BY <1>2, <1>3

\* Changing one term changes the sum by as much.
LEMMA SumOfOneChange ==
    ASSUME NEW b, NEW c, NEW S, IsFiniteSet(S), \A y \in S : b[y] \in Int,
           NEW x \in S, NEW q \in Int, c[x] = b[x] + q, \A y \in S \ {x} : c[y] = b[y]
    PROVE  SumOver(c, S) = SumOver(b, S) + q
<1>1. \A y \in S : c[y] \in Int
  OBVIOUS
<1>2. SumOver(b, S) = b[x] + SumOver(b, S \ {x}) /\ SumOver(c, S) = c[x] + SumOver(c, S \ {x})
  BY <1>1, SumTakesAway
<1> DEFINE R == S \ {x}
<1>3. IsFiniteSet(R) /\ \A y \in R : b[y] \in Int /\ c[y] = b[y]
  <2>1. R \in SUBSET S
    OBVIOUS
  <2> HIDE DEF R
  <2>2. IsFiniteSet(R)
    BY <2>1, FS_Subset
  <2> QED BY <2>1, <2>2 DEF R
<1> HIDE DEF R
<1>4. SumOver(b, R) = SumOver(c, R) /\ SumOver(b, R) \in Int
  BY <1>3, SumsSame, SumIsInt
<1>5. SumOver(b, S) = b[x] + SumOver(b, R) /\ SumOver(c, S) = c[x] + SumOver(c, R)
  BY <1>2 DEF R
<1> QED BY <1>4, <1>5

\* Terms that are no less have a sum that is no less.
LEMMA SumsOrdered ==
    ASSUME NEW b, NEW c, NEW S, IsFiniteSet(S),
           \A x \in S : b[x] \in Int /\ c[x] \in Int /\ b[x] <= c[x]
    PROVE  SumOver(b, S) <= SumOver(c, S)
<1> DEFINE e == [x \in S |-> c[x] - b[x]]
<1>1. \A x \in S : e[x] \in Nat /\ c[x] = b[x] + e[x]
  OBVIOUS
<1> HIDE DEF e
<1>2. SumOver(e, S) \in Nat
  BY <1>1, SumNotNegative
<1>3. SumOver(b, S) \in Int
  BY SumIsInt
<1>4. SumOver(c, S) = SumOver(b, S) + SumOver(e, S)
  <2>1. \A x \in S : b[x] \in Int /\ e[x] \in Int /\ c[x] = b[x] + e[x]
    BY <1>1
  <2> QED BY <2>1, SumsAdd
<1> QED BY <1>2, <1>3, <1>4

\* The larger and the smaller of two numbers.
LEMMA MaxOfTwo == ASSUME NEW a \in Int, NEW b \in Int PROVE Max({a, b}) = IF a >= b THEN a ELSE b
<1>1. \E x \in {a, b} : \A y \in {a, b} : x >= y
  BY SMT
<1>2. Max({a, b}) \in {a, b} /\ \A y \in {a, b} : Max({a, b}) >= y
  BY <1>1 DEF Max
<1> QED BY <1>2

\* See MaxOfTwo.
LEMMA MinOfTwo == ASSUME NEW a \in Int, NEW b \in Int PROVE Min({a, b}) = IF a <= b THEN a ELSE b
<1>1. \E x \in {a, b} : \A y \in {a, b} : x <= y
  BY SMT
<1>2. Min({a, b}) \in {a, b} /\ \A y \in {a, b} : Min({a, b}) <= y
  BY <1>1 DEF Min
<1> QED BY <1>2

\* A part of a set has no larger a sum, when no term is negative.
LEMMA SumOfPart ==
    ASSUME NEW b, NEW S, IsFiniteSet(S), \A x \in S : b[x] \in Nat, NEW T \in SUBSET S
    PROVE  SumOver(b, T) <= SumOver(b, S)
<1> DEFINE P == {U \in SUBSET S : \A V \in SUBSET U : SumOver(b, V) <= SumOver(b, U)}
<1>1. ASSUME NEW U \in SUBSET S PROVE IsFiniteSet(U) /\ SumOver(b, U) \in Nat
  <2>1. IsFiniteSet(U) /\ \A x \in U : b[x] \in Nat
    BY FS_Subset
  <2> QED BY <2>1, SumNotNegative
<1>2. ASSUME NEW U \in SUBSET S, \A W \in SUBSET U : W # U => W \in P, NEW V \in SUBSET U
      PROVE  SumOver(b, V) <= SumOver(b, U)
  <2>1. CASE V = U
    BY <1>1, <2>1
  <2>2. CASE V # U
    <3>1. PICK x \in U : x \notin V
      BY <2>2
    <3> DEFINE R == U \ {x}
    <3>2. R \in SUBSET S /\ V \in SUBSET R /\ R \in P
      BY <1>2, <3>1
    <3>3. \A y \in U : b[y] \in Int
      OBVIOUS
    <3>4. SumOver(b, U) = b[x] + SumOver(b, R)
      BY <1>1, <3>1, <3>3, SumTakesAway
    <3> HIDE DEF R
    <3>5. SumOver(b, V) <= SumOver(b, R)
      BY <3>2
    <3>6. SumOver(b, R) \in Nat /\ SumOver(b, V) \in Nat /\ b[x] \in Nat
      BY <1>1, <3>1, <3>2
    <3> QED BY <3>4, <3>5, <3>6
  <2> QED BY <2>1, <2>2
<1>3. \A U \in SUBSET S : U \in P
  <2>1. \A U \in SUBSET S : (\A W \in SUBSET U : W # U => W \in P) => U \in P
    BY <1>2
  <2> HIDE DEF P
  <2> QED BY <2>1, SetInduction
<1> QED BY <1>3

\* A union of sets has no more members than they have together.
LEMMA UnionNoMore ==
    ASSUME NEW A, NEW b, NEW S, IsFiniteSet(S),
           \A x \in S : IsFiniteSet(A[x]) /\ b[x] = Cardinality(A[x])
    PROVE  /\ IsFiniteSet(UNION {A[x] : x \in S})
           /\ Cardinality(UNION {A[x] : x \in S}) <= SumOver(b, S)
<1> DEFINE Whole(T) == UNION {A[x] : x \in T}
           P == {T \in SUBSET S : IsFiniteSet(Whole(T)) /\ Cardinality(Whole(T)) <= SumOver(b, T)}
<1>1. ASSUME NEW T \in SUBSET S, \A U \in SUBSET T : U # T => U \in P PROVE T \in P
  <2>1. IsFiniteSet(T)
    BY FS_Subset
  <2>2. SumOver(b, T) = IF T = {} THEN 0 ELSE b[Pick(T)] + SumOver(b, T \ {Pick(T)})
    BY <2>1, SumUnfolds
  <2>3. CASE T = {}
    <3>1. Whole(T) = {}
      BY <2>3
    <3> QED BY <2>2, <2>3, <3>1, FS_EmptySet
  <2>4. CASE T # {}
    <3> DEFINE c == Pick(T)
               R == T \ {c}
    <3>1. c \in T /\ c \in S /\ R \in SUBSET T /\ R # T /\ R \in SUBSET S
      BY <2>4, PickIn
    <3>2. IsFiniteSet(Whole(R)) /\ Cardinality(Whole(R)) <= SumOver(b, R)
      <4>1. R \in P
        BY <1>1, <3>1
      <4> QED BY <4>1
    <3>3. SumOver(b, T) = b[c] + SumOver(b, R)
      BY <2>2, <2>4
    <3> HIDE DEF c
    <3>4. Whole(T) = A[c] \cup Whole(R)
      BY <3>1
    <3>5. IsFiniteSet(R) /\ \A x \in R : b[x] \in Int
      <4>1. IsFiniteSet(R)
        BY <3>1, FS_Subset
      <4>2. \A x \in S : b[x] \in Int
        BY FS_CardinalityType
      <4> QED BY <3>1, <4>1, <4>2
    <3> HIDE DEF R, Whole
    <3>6. SumOver(b, R) \in Int
      BY <3>5, SumIsInt
    <3>7. IsFiniteSet(A[c]) /\ b[c] = Cardinality(A[c])
      BY <3>1
    <3>8. /\ IsFiniteSet(Whole(T))
          /\ Cardinality(Whole(T)) = Cardinality(A[c]) + Cardinality(Whole(R)) - Cardinality(A[c] \cap Whole(R))
      BY <3>2, <3>4, <3>7, FS_Union
    <3>9. Cardinality(A[c] \cap Whole(R)) \in Nat /\ Cardinality(A[c]) \in Nat /\ Cardinality(Whole(R)) \in Nat
      <4>1. IsFiniteSet(A[c] \cap Whole(R))
        BY <3>7, FS_Subset
      <4> QED BY <3>2, <3>7, <4>1, FS_CardinalityType
    <3>10. Cardinality(Whole(T)) <= SumOver(b, T)
      BY <3>2, <3>3, <3>6, <3>7, <3>8, <3>9
    <3> QED BY <3>8, <3>10
  <2> QED BY <2>3, <2>4
<1>2. \A T \in SUBSET S : T \in P
  <2> HIDE DEF P
  <2> QED BY <1>1, SetInduction
<1>3. S \in P
  BY <1>2
<1> QED BY <1>3

\* Induction over the natural numbers, for a property given as a set.
LEMMA CountingUp ==
    ASSUME NEW P, 0 \in P, \A n \in Nat : n \in P => n + 1 \in P
    PROVE  \A n \in Nat : n \in P
<1> DEFINE Bad == {n \in Nat : n \notin P}
<1>1. SUFFICES ASSUME Bad # {} PROVE FALSE
  OBVIOUS
<1>2. PICK m \in Bad : \A k \in Bad : m <= k
  <2>1. Bad \in SUBSET Nat
    OBVIOUS
  <2> HIDE DEF Bad
  <2> QED BY <1>1, <2>1, LeastOfSet
<1>3. m \in Nat /\ m # 0 /\ m - 1 \in Nat /\ ~(m <= m - 1)
  OBVIOUS
<1>4. m - 1 \in P
  BY <1>2, <1>3
<1>5. (m - 1) + 1 \in P /\ (m - 1) + 1 = m
  BY <1>3, <1>4
<1>6. m \notin P
  OBVIOUS
<1> QED BY <1>5, <1>6

\* A sum over an interval adds its last term to that over the rest.
LEMMA SumOfInterval ==
    ASSUME NEW b, NEW m \in Int, NEW n \in Int, \A i \in m..n : b[i] \in Int
    PROVE  /\ SumOver(b, m..n) \in Int
           /\ n < m => SumOver(b, m..n) = 0
           /\ m <= n => SumOver(b, m..n) = SumOver(b, m..(n - 1)) + b[n]
<1>1. IsFiniteSet(m..n)
  BY FS_Interval
<1>2. SumOver(b, m..n) \in Int
  BY <1>1, SumIsInt
<1>3. ASSUME n < m PROVE SumOver(b, m..n) = 0
  <2>1. m..n = {}
    BY <1>3
  <2> QED BY <1>1, <2>1, SumUnfolds
<1>4. ASSUME m <= n PROVE SumOver(b, m..n) = SumOver(b, m..(n - 1)) + b[n]
  <2>1. n \in m..n /\ (m..n) \ {n} = m..(n - 1)
    BY <1>4
  <2>2. SumOver(b, m..n) = b[n] + SumOver(b, (m..n) \ {n})
    BY <1>1, <2>1, SumTakesAway
  <2>3. \A i \in m..(n - 1) : b[i] \in Int
    OBVIOUS
  <2>4. IsFiniteSet(m..(n - 1))
    BY FS_Interval
  <2>5. SumOver(b, m..(n - 1)) \in Int
    BY <2>3, <2>4, SumIsInt
  <2>6. b[n] \in Int
    BY <2>1
  <2>7. SumOver(b, m..n) = b[n] + SumOver(b, m..(n - 1))
    BY <2>1, <2>2
  <2> QED BY <2>5, <2>6, <2>7
<1> QED BY <1>2, <1>3, <1>4

\* The same terms at other places have the same sum.
LEMMA SumMoved ==
    ASSUME NEW b, NEW c, NEW p \in Int, NEW n \in Int, NEW e \in Int, 0 <= n, e + 1 = p + n,
           \A i \in 1..n : b[i] \in Int,
           \A i \in 1..n : \A j \in p..e : i + p = j + 1 => c[j] = b[i]
    PROVE  SumOver(c, p..e) = SumOver(b, 1..n)
<1> DEFINE d == p - 1
<1>d. n \in Nat /\ d \in Int /\ d + 1 = p /\ d + n = e /\ \A i \in 1..n : b[i] \in Int /\ c[d + i] = b[i]
  <2>1. d \in Int /\ d + 1 = p /\ d + n = e
    OBVIOUS
  <2>2. ASSUME NEW i \in 1..n PROVE c[d + i] = b[i]
    <3>1. d + i \in p..e /\ i + p = (d + i) + 1
      OBVIOUS
    <3> HIDE DEF d
    <3> QED BY <3>1
  <2> QED BY <2>1, <2>2
<1> HIDE DEF d
<1> DEFINE P == {k \in Nat : k <= n => SumOver(c, (d + 1)..(d + k)) = SumOver(b, 1..k)}
<1>1. 0 \in P
  <2>1. SumOver(c, (d + 1)..(d + 0)) = 0
    <3>1. d + 0 < d + 1 /\ d + 0 \in Int /\ d + 1 \in Int /\ \A i \in (d + 1)..(d + 0) : c[i] \in Int
      BY <1>d
    <3> QED BY <3>1, SumOfInterval
  <2>2. SumOver(b, 1..0) = 0
    BY SumOfInterval
  <2> QED BY <2>1, <2>2
<1>2. ASSUME NEW k \in Nat, k \in P, k + 1 <= n PROVE SumOver(c, (d + 1)..(d + (k + 1))) = SumOver(b, 1..(k + 1))
  <2>1. SumOver(c, (d + 1)..(d + k)) = SumOver(b, 1..k)
    BY <1>2
  <2>2. SumOver(b, 1..(k + 1)) = SumOver(b, 1..k) + b[k + 1]
    <3>1. 1 <= k + 1 /\ (k + 1) - 1 = k /\ \A i \in 1..(k + 1) : b[i] \in Int
      BY <1>2, <1>d
    <3>2. k + 1 \in Int
      OBVIOUS
    <3> QED BY <3>1, <3>2, SumOfInterval
  <2>3. SumOver(c, (d + 1)..(d + (k + 1))) = SumOver(c, (d + 1)..(d + k)) + c[d + (k + 1)]
    <3>1. \A i \in (d + 1)..(d + (k + 1)) : c[i] \in Int
      <4> TAKE i \in (d + 1)..(d + (k + 1))
      <4>1. i - d \in 1..n /\ d + (i - d) = i
        BY <1>2, <1>d
      <4>2. c[d + (i - d)] = b[i - d] /\ b[i - d] \in Int
        BY <4>1, <1>d
      <4> QED BY <4>1, <4>2
    <3>2. d + 1 \in Int /\ d + (k + 1) \in Int /\ d + 1 <= d + (k + 1) /\ (d + (k + 1)) - 1 = d + k
      BY <1>d
    <3> QED BY <3>1, <3>2, SumOfInterval
  <2>4. c[d + (k + 1)] = b[k + 1]
    BY <1>2, <1>d
  <2> QED BY <2>1, <2>2, <2>3, <2>4
<1>3. \A k \in Nat : k \in P
  <2>1. \A k \in Nat : k \in P => k + 1 \in P
    BY <1>2
  <2> HIDE DEF P
  <2> QED BY <1>1, <2>1, CountingUp
<1>4. n \in P
  BY <1>3
<1> QED BY <1>4, <1>d

\* Equal terms, one for each of n places.
LEMMA SumOfEqual ==
    ASSUME NEW b, NEW x \in Int, NEW n \in Nat, \A i \in 1..n : b[i] = x
    PROVE  SumOver(b, 1..n) = n * x
<1> DEFINE P == {k \in Nat : k <= n => SumOver(b, 1..k) = k * x}
<1>1. 0 \in P
  <2>1. SumOver(b, 1..0) = 0
    BY SumOfInterval
  <2> QED BY <2>1
<1>2. ASSUME NEW k \in Nat, k \in P, k + 1 <= n PROVE SumOver(b, 1..(k + 1)) = (k + 1) * x
  <2>1. SumOver(b, 1..k) = k * x
    BY <1>2
  <2>2. SumOver(b, 1..(k + 1)) = SumOver(b, 1..k) + b[k + 1]
    <3>1. 1 <= k + 1 /\ (k + 1) - 1 = k /\ \A i \in 1..(k + 1) : b[i] \in Int
      BY <1>2
    <3>2. k + 1 \in Int
      OBVIOUS
    <3> QED BY <3>1, <3>2, SumOfInterval
  <2>3. b[k + 1] = x /\ (k + 1) * x = k * x + x
    BY <1>2
  <2> QED BY <2>1, <2>2, <2>3
<1>3. \A k \in Nat : k \in P
  <2>1. \A k \in Nat : k \in P => k + 1 \in P
    BY <1>2
  <2> HIDE DEF P
  <2> QED BY <1>1, <2>1, CountingUp
<1> QED BY <1>3

\* A sum over an interval in two parts.
LEMMA SumInParts ==
    ASSUME NEW b, NEW m \in Int, NEW n \in Int, NEW p, NEW q \in Int, p = n + 1, m <= p, n <= q,
           \A i \in m..q : b[i] \in Int
    PROVE  SumOver(b, m..q) = SumOver(b, m..n) + SumOver(b, p..q)
<1> DEFINE k == q - n
<1>k. k \in Nat /\ n + k = q /\ p = n + 1 /\ m <= n + 1 /\ \A i \in m..(n + k) : b[i] \in Int
  OBVIOUS
<1> HIDE DEF k
<1> DEFINE P == {j \in Nat : j <= k => SumOver(b, m..(n + j)) = SumOver(b, m..n) + SumOver(b, (n + 1)..(n + j))}
<1>0. SumOver(b, m..n) \in Int
  <2>1. \A i \in m..n : b[i] \in Int
    BY <1>k
  <2> QED BY <2>1, SumOfInterval
<1>1. 0 \in P
  <2>1. n + 0 = n /\ n < n + 1 /\ n + 1 \in Int /\ \A i \in (n + 1)..n : b[i] \in Int
    OBVIOUS
  <2>2. SumOver(b, (n + 1)..n) = 0
    BY <2>1, SumOfInterval
  <2> QED BY <1>0, <2>1, <2>2
<1>2. ASSUME NEW j \in Nat, j \in P, j + 1 <= k
      PROVE  SumOver(b, m..(n + (j + 1))) = SumOver(b, m..n) + SumOver(b, (n + 1)..(n + (j + 1)))
  <2> DEFINE e == n + (j + 1)
  <2>0. e \in Int /\ e - 1 = n + j /\ m <= e /\ n + 1 <= e /\ n + 1 \in Int
    BY <1>k
  <2>1. /\ \A i \in m..e : b[i] \in Int
        /\ \A i \in (n + 1)..e : b[i] \in Int
        /\ \A i \in (n + 1)..(e - 1) : b[i] \in Int
    BY <1>2, <1>k
  <2> HIDE DEF e
  <2>2. SumOver(b, m..e) = SumOver(b, m..(e - 1)) + b[e]
    BY <2>0, <2>1, SumOfInterval
  <2>3. SumOver(b, (n + 1)..e) = SumOver(b, (n + 1)..(e - 1)) + b[e]
    BY <2>0, <2>1, SumOfInterval
  <2>4. SumOver(b, (n + 1)..(e - 1)) \in Int
    <3>1. e - 1 \in Int
      BY <2>0
    <3> QED BY <2>0, <2>1, <3>1, SumOfInterval
  <2>5. SumOver(b, m..(e - 1)) = SumOver(b, m..n) + SumOver(b, (n + 1)..(e - 1))
    <3>1. j <= k
      BY <1>2, <1>k
    <3> QED BY <1>2, <2>0, <3>1
  <2>6. b[e] \in Int
    BY <2>0, <2>1
  <2>7. SumOver(b, m..e) = SumOver(b, m..n) + SumOver(b, (n + 1)..e)
    BY <1>0, <2>2, <2>3, <2>4, <2>5, <2>6
  <2> QED BY <2>7 DEF e
<1>3. \A j \in Nat : j \in P
  <2>1. \A j \in Nat : j \in P => j + 1 \in P
    BY <1>2
  <2> HIDE DEF P
  <2> QED BY <1>1, <2>1, CountingUp
<1>4. k \in P
  BY <1>3, <1>k
<1> QED BY <1>4, <1>k
=============================================================================
