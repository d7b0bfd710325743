------------------------- MODULE ArithmeticTheorems -------------------------
(***************************************************************************)
(* The arithmetic the proofs share: sums over finite sets, which the       *)
(* accounts of the trading core are judged by, with the two forms of       *)
(* induction they rest on; division with remainder, which is what words    *)
(* that wrap around do; powers of two; and what Position::applyTrade       *)
(* guarantees of every position, price and quantity.  The library states   *)
(* induction for a predicate; here it is stated for a set, the set of the  *)
(* numbers or of the subsets that have the property.                       *)
(***************************************************************************)
EXTENDS Position, FiniteSets, Functions, FiniteSetTheorems, WellFoundedInduction, TLAPS

(* Every set of natural numbers that is not empty has a least element.     *)
LEMMA LeastNumber ==
  ASSUME NEW S \in SUBSET Nat, S # {}
  PROVE  \E n \in S : \A m \in S : n <= m
<1> DEFINE R == {p \in Nat \X Nat : p[1] < p[2]}
<1>1. IsWellFoundedOn(R, Nat)
  BY NatLessThanWellFounded DEF OpToRel
<1>2. \A m \in Nat, n \in Nat : m < n => <<m, n>> \in R
  OBVIOUS
<1> HIDE DEF R
<1>3. PICK n \in S : \A m \in S : ~(<<m, n>> \in R)
  BY <1>1, WFMin
<1>4. \A m \in S : ~(m < n)
  BY <1>2, <1>3
<1>5. QED
  BY <1>4

(* A set that has zero and the successor of all it has is all of Nat.      *)
LEMMA SetInduction ==
  ASSUME NEW S \in SUBSET Nat, 0 \in S, \A n \in S : n + 1 \in S
  PROVE  \A n \in Nat : n \in S
<1> SUFFICES ASSUME Nat \ S # {} PROVE FALSE
  OBVIOUS
<1>1. PICK n \in Nat \ S : \A m \in Nat \ S : n <= m
  BY LeastNumber
<1>2. n - 1 \in Nat /\ n - 1 \notin Nat \ S
  BY <1>1
<1>3. QED
  BY <1>1, <1>2

(* What is left of a set that gave up an element.                          *)
LEMMA OneLess ==
  ASSUME NEW S, IsFiniteSet(S), NEW T \in SUBSET S, NEW x \in T
  PROVE  /\ T \ {x} \in SUBSET S
         /\ Cardinality(T) \in Nat
         /\ Cardinality(T) >= 1
         /\ Cardinality(T \ {x}) = Cardinality(T) - 1
<1>1. IsFiniteSet(T) /\ Cardinality(T) \in Nat /\ Cardinality(T) # 0
  BY FS_Subset, FS_CardinalityType, FS_EmptySet
<1>2. Cardinality(T \ {x}) = IF x \in T THEN Cardinality(T) - 1 ELSE Cardinality(T)
  BY <1>1, FS_RemoveElement
<1>3. QED
  BY <1>1, <1>2

(* The same for the subsets of a finite set: a family that has the empty   *)
(* set and with every subset those with one more element has them all.     *)
LEMMA SubsetInduction ==
  ASSUME NEW S, IsFiniteSet(S), NEW F, {} \in F,
         \A T \in SUBSET S : \A x \in S : T \in F /\ x \notin T => T \cup {x} \in F
  PROVE  \A T \in SUBSET S : T \in F
<1> DEFINE Good == {n \in Nat : \A T \in SUBSET S : Cardinality(T) = n => T \in F}
<1>1. \A T \in SUBSET S : IsFiniteSet(T) /\ Cardinality(T) \in Nat
  BY FS_Subset, FS_CardinalityType
<1>2. 0 \in Good
  BY <1>1, FS_EmptySet
<1>3. ASSUME NEW n \in Good PROVE n + 1 \in Good
  <2> SUFFICES ASSUME NEW T \in SUBSET S, Cardinality(T) = n + 1 PROVE T \in F
    OBVIOUS
  <2>1. n \in Nat /\ T # {}
    <3>1. n \in Nat /\ Cardinality(T) # 0
      OBVIOUS
    <3>2. QED
      BY <3>1, FS_EmptySet
  <2>2. PICK x : x \in T
    BY <2>1
  <2>3. T \ {x} \in SUBSET S /\ Cardinality(T \ {x}) = n
    BY <2>1, <2>2, OneLess
  <2>4. (T \ {x}) \cup {x} = T
    BY <2>2
  <2>5. T \ {x} \in F
    BY <2>3
  <2>6. QED
    BY <2>2, <2>3, <2>4, <2>5
<1> HIDE DEF Good
<1>4. \A n \in Nat : n \in Good
  <2>1. Good \in SUBSET Nat
    BY DEF Good
  <2>2. QED
    BY <1>2, <1>3, <2>1, SetInduction
<1>5. QED
  BY <1>1, <1>4 DEF Good
-----------------------------------------------------------------------------
(* Along which the sum over a set is computed: each set gives up one       *)
(* element of its choice after the other.                                  *)
AddsUp(f, S, g) ==
  g = [T \in S |-> IF T = {} THEN 0
                   ELSE f[CHOOSE x \in T : TRUE] + g[T \ {CHOOSE x \in T : TRUE}]]

(* Subsets of at most n elements.                                          *)
UpTo(S, n) == {T \in SUBSET S : Cardinality(T) <= n}

(* There is such a function, and only one.                                 *)
LEMMA AddsUpExists ==
  ASSUME NEW S, IsFiniteSet(S), NEW f
  PROVE  \E g : AddsUp(f, SUBSET S, g)
<1> DEFINE Good == {n \in Nat : \E g : AddsUp(f, UpTo(S, n), g)}
           pick(T) == CHOOSE x \in T : TRUE
<1>0. \A T \in SUBSET S : T # {} => pick(T) \in T
  OBVIOUS
<1>1. 0 \in Good
  <2> DEFINE g == [T \in UpTo(S, 0) |-> 0]
  <2>1. \A T \in UpTo(S, 0) : T = {}
    <3>1. \A T \in SUBSET S : \A x \in T : Cardinality(T) \in Nat /\ Cardinality(T) >= 1
      BY OneLess
    <3>2. QED
      BY <3>1 DEF UpTo
  <2>2. AddsUp(f, UpTo(S, 0), g)
    BY <2>1 DEF AddsUp
  <2>3. QED
    BY <2>2
<1>2. ASSUME NEW n \in Good PROVE n + 1 \in Good
  <2>1. n \in Nat
    OBVIOUS
  <2>2. PICK g : AddsUp(f, UpTo(S, n), g)
    OBVIOUS
  <2> DEFINE h == [T \in UpTo(S, n + 1) |->
                     IF T = {} THEN 0 ELSE f[pick(T)] + g[T \ {pick(T)}]]
  <2>3. \A T \in UpTo(S, n + 1) : T # {} => T \ {pick(T)} \in UpTo(S, n)
    <3> SUFFICES ASSUME NEW T \in UpTo(S, n + 1), T # {}
                 PROVE  T \ {pick(T)} \in UpTo(S, n)
      OBVIOUS
    <3>1. T \in SUBSET S /\ Cardinality(T) <= n + 1 /\ pick(T) \in T
      BY <1>0 DEF UpTo
    <3> HIDE DEF pick
    <3>2. QED
      BY <2>1, <3>1, OneLess DEF UpTo
  <2>4. UpTo(S, n) \subseteq UpTo(S, n + 1)
    BY <2>1, FS_Subset, FS_CardinalityType DEF UpTo
  <2>5. \A T \in UpTo(S, n) : g[T] = h[T]
    BY <2>2, <2>4 DEF AddsUp
  <2>6. h = [T \in UpTo(S, n + 1) |->
               IF T = {} THEN 0 ELSE f[pick(T)] + h[T \ {pick(T)}]]
    BY <2>3, <2>5
  <2>7. AddsUp(f, UpTo(S, n + 1), h)
    BY <2>6 DEF AddsUp
  <2>8. QED
    BY <2>1, <2>7
<1>3. Good \in SUBSET Nat
  OBVIOUS
<1> HIDE DEF Good
<1>4. Cardinality(S) \in Nat /\ Cardinality(S) \in Good
  BY <1>1, <1>2, <1>3, SetInduction, FS_CardinalityType
<1>5. UpTo(S, Cardinality(S)) = SUBSET S
  BY FS_Subset DEF UpTo
<1>6. QED
  BY <1>4, <1>5 DEF Good

LEMMA AddsUpUnique ==
  ASSUME NEW S, IsFiniteSet(S), NEW f, NEW g, AddsUp(f, SUBSET S, g),
         NEW T \in SUBSET S, NEW h, AddsUp(f, SUBSET T, h)
  PROVE  h[T] = g[T]
<1> DEFINE Good == {n \in Nat : \A U \in SUBSET T : Cardinality(U) = n => h[U] = g[U]}
           pick(U) == CHOOSE x \in U : TRUE
<1>0. /\ IsFiniteSet(T)
      /\ \A U \in SUBSET T : U # {} => pick(U) \in U
      /\ \A U \in SUBSET T : U \in SUBSET S
  BY FS_Subset
<1>1. 0 \in Good
  <2>1. \A U \in SUBSET T : Cardinality(U) = 0 => U = {}
    BY <1>0, FS_Subset, FS_EmptySet
  <2>2. h[{}] = 0 /\ g[{}] = 0
    BY DEF AddsUp
  <2>3. QED
    BY <2>1, <2>2
<1>2. ASSUME NEW n \in Good PROVE n + 1 \in Good
  <2> SUFFICES ASSUME NEW U \in SUBSET T, Cardinality(U) = n + 1 PROVE h[U] = g[U]
    OBVIOUS
  <2>1. n \in Nat /\ U # {}
    <3>1. n \in Nat /\ Cardinality(U) # 0
      OBVIOUS
    <3>2. QED
      BY <3>1, FS_EmptySet
  <2>2. U \ {pick(U)} \in SUBSET T /\ Cardinality(U \ {pick(U)}) = n
    <3>1. pick(U) \in U
      BY <1>0, <2>1
    <3> HIDE DEF pick
    <3>2. QED
      BY <1>0, <2>1, <3>1, OneLess
  <2>3. h[U \ {pick(U)}] = g[U \ {pick(U)}]
    BY <2>2
  <2>4. QED
    BY <1>0, <2>1, <2>3 DEF AddsUp
<1>3. Good \in SUBSET Nat
  OBVIOUS
<1> HIDE DEF Good
<1>4. Cardinality(T) \in Nat /\ Cardinality(T) \in Good
  BY <1>0, <1>1, <1>2, <1>3, SetInduction, FS_CardinalityType
<1>5. QED
  BY <1>4 DEF Good

(* The sum over a set is what that function gives.                         *)
LEMMA SumAddsUp ==
  ASSUME NEW S, IsFiniteSet(S), NEW f, NEW g, AddsUp(f, SUBSET S, g), NEW T \in SUBSET S
  PROVE  SumFunctionOnSet(f, T) = g[T]
<1> DEFINE P(h) == AddsUp(f, SUBSET T, h)
           iter == CHOOSE h : P(h)
<1>1. \E h : P(h)
  BY AddsUpExists, FS_Subset
<1>2. P(iter)
  <2> HIDE DEF P
  <2>1. QED
    BY <1>1
<1>3. SumFunctionOnSet(f, T) = iter[T]
  BY DEF SumFunctionOnSet, FoldFunctionOnSet, MapThenFoldSet, AddsUp
<1>4. iter[T] = g[T]
  BY <1>2, AddsUpUnique
<1>5. QED
  BY <1>3, <1>4

(* It is an integer, and it does not matter which element is added first.  *)
LEMMA AddsUpInteger ==
  ASSUME NEW S, IsFiniteSet(S), NEW f, \A x \in S : f[x] \in Int,
         NEW g, AddsUp(f, SUBSET S, g)
  PROVE  \A T \in SUBSET S : g[T] \in Int
<1> DEFINE Good == {n \in Nat : \A T \in SUBSET S : Cardinality(T) = n => g[T] \in Int}
           pick(T) == CHOOSE x \in T : TRUE
<1>1. \A T \in SUBSET S : T # {} => pick(T) \in T
  OBVIOUS
<1>2. \A T \in SUBSET S : IsFiniteSet(T) /\ Cardinality(T) \in Nat
  BY FS_Subset, FS_CardinalityType
<1>3. 0 \in Good
  <2>1. \A T \in SUBSET S : Cardinality(T) = 0 => T = {}
    BY <1>2, FS_EmptySet
  <2>2. \A T \in SUBSET S : T = {} => g[T] = 0
    BY DEF AddsUp
  <2>3. \A T \in SUBSET S : Cardinality(T) = 0 => g[T] \in Int
    BY <2>1, <2>2
  <2>4. QED
    BY <2>3
<1>4. ASSUME NEW n \in Good PROVE n + 1 \in Good
  <2> SUFFICES ASSUME NEW T \in SUBSET S, Cardinality(T) = n + 1 PROVE g[T] \in Int
    OBVIOUS
  <2>1. n \in Nat /\ T # {}
    <3>1. n \in Nat /\ Cardinality(T) # 0
      OBVIOUS
    <3>2. QED
      BY <3>1, FS_EmptySet
  <2>2. g[T] = f[pick(T)] + g[T \ {pick(T)}]
    BY <2>1 DEF AddsUp
  <2>3. pick(T) \in T
    BY <1>1, <2>1
  <2> HIDE DEF pick
  <2>4. T \ {pick(T)} \in SUBSET S /\ Cardinality(T \ {pick(T)}) = n
    BY <2>1, <2>3, OneLess
  <2>5. g[T \ {pick(T)}] \in Int
    BY <2>4
  <2>6. QED
    BY <2>2, <2>3, <2>5
<1>5. Good \in SUBSET Nat
  OBVIOUS
<1> HIDE DEF Good
<1>6. \A n \in Nat : n \in Good
  BY <1>3, <1>4, <1>5, SetInduction
<1>7. QED
  BY <1>2, <1>6 DEF Good

SplitsAnywhere(f, S, g) == \A T \in S : \A x \in T : g[T] = f[x] + g[T \ {x}]

LEMMA AddsUpSplits ==
  ASSUME NEW S, IsFiniteSet(S), NEW f, \A x \in S : f[x] \in Int,
         NEW g, AddsUp(f, SUBSET S, g)
  PROVE  SplitsAnywhere(f, SUBSET S, g)
<1> DEFINE Splits(T) == \A x \in T : g[T] = f[x] + g[T \ {x}]
           Good == {n \in Nat : \A T \in SUBSET S : Cardinality(T) = n => Splits(T)}
<1>1. \A T \in SUBSET S : g[T] \in Int
  BY AddsUpInteger
<1>2. \A T \in SUBSET S : IsFiniteSet(T) /\ Cardinality(T) \in Nat
  BY FS_Subset, FS_CardinalityType
<1>3. 0 \in Good
  <2>1. \A T \in SUBSET S : Cardinality(T) = 0 => T = {}
    BY <1>2, FS_EmptySet
  <2>2. Splits({})
    OBVIOUS
  <2> HIDE DEF Splits
  <2>3. QED
    BY <2>1, <2>2
<1>4. ASSUME NEW n \in Good PROVE n + 1 \in Good
  <2> SUFFICES ASSUME NEW T \in SUBSET S, Cardinality(T) = n + 1, NEW x \in T
               PROVE  g[T] = f[x] + g[T \ {x}]
    OBVIOUS
  <2> DEFINE p == CHOOSE y \in T : TRUE
  <2>1. n \in Nat /\ p \in T /\ g[T] = f[p] + g[T \ {p}]
    BY DEF AddsUp
  <2> HIDE DEF p
  <2>2. CASE x = p
    BY <2>1, <2>2
  <2>3. CASE x # p
    <3>1. x \in T \ {p} /\ p \in T \ {x} /\ (T \ {p}) \ {x} = (T \ {x}) \ {p}
      BY <2>1, <2>3
    <3>2. \A y \in T : T \ {y} \in SUBSET S /\ Cardinality(T \ {y}) = n
      BY <2>1, OneLess
    <3>3. \A y \in T : Splits(T \ {y})
      BY <3>2
    <3>4. g[T \ {p}] = f[x] + g[(T \ {p}) \ {x}]
      BY <2>1, <3>1, <3>3
    <3>5. g[T \ {x}] = f[p] + g[(T \ {p}) \ {x}]
      BY <3>1, <3>3
    <3>6. f[x] \in Int /\ f[p] \in Int /\ g[(T \ {p}) \ {x}] \in Int
      BY <1>1, <2>1
    <3>7. QED
      BY <2>1, <3>4, <3>5, <3>6
  <2>4. QED
    BY <2>2, <2>3
<1>5. Good \in SUBSET Nat
  OBVIOUS
<1> HIDE DEF Good
<1>6. \A n \in Nat : n \in Good
  BY <1>3, <1>4, <1>5, SetInduction
<1>7. QED
  BY <1>2, <1>6 DEF Good, SplitsAnywhere

(* So the sum can be taken apart at any element.                           *)
LEMMA SumSplits ==
  ASSUME NEW S, IsFiniteSet(S), NEW f, \A x \in S : f[x] \in Int
  PROVE  /\ SumFunctionOnSet(f, S) \in Int
         /\ S = {} => SumFunctionOnSet(f, S) = 0
         /\ \A x \in S : SumFunctionOnSet(f, S) = f[x] + SumFunctionOnSet(f, S \ {x})
<1>1. PICK g : AddsUp(f, SUBSET S, g)
  BY AddsUpExists
<1>2. \A T \in SUBSET S : SumFunctionOnSet(f, T) = g[T]
  BY <1>1, SumAddsUp
<1>3. S = {} => g[S] = 0
  BY <1>1 DEF AddsUp
<1>4. g[S] \in Int
  BY <1>1, AddsUpInteger
<1>5. \A x \in S : g[S] = f[x] + g[S \ {x}]
  <2>1. SplitsAnywhere(f, SUBSET S, g)
    BY <1>1, AddsUpSplits
  <2>2. S \in SUBSET S
    OBVIOUS
  <2>3. QED
    BY <2>1, <2>2 DEF SplitsAnywhere
<1>6. QED
  BY <1>2, <1>3, <1>4, <1>5

LEMMA SumEmpty == ASSUME NEW f PROVE SumFunctionOnSet(f, {}) = 0
BY SumSplits, FS_EmptySet

(* Functions that agree on the set have the same sum.                      *)
LEMMA SumAgrees ==
  ASSUME NEW S, IsFiniteSet(S), NEW f, NEW g, \A x \in S : f[x] \in Int /\ g[x] = f[x]
  PROVE  SumFunctionOnSet(g, S) = SumFunctionOnSet(f, S)
<1> DEFINE F == {T \in SUBSET S : SumFunctionOnSet(g, T) = SumFunctionOnSet(f, T)}
<1>1. {} \in F
  BY SumEmpty
<1>2. ASSUME NEW T \in SUBSET S, NEW x \in S, T \in F, x \notin T
      PROVE  T \cup {x} \in F
  <2>1. /\ T \cup {x} \in SUBSET S /\ IsFiniteSet(T \cup {x})
        /\ (T \cup {x}) \ {x} = T /\ x \in T \cup {x}
    BY <1>2, FS_Subset
  <2>2. SumFunctionOnSet(f, T \cup {x}) = f[x] + SumFunctionOnSet(f, (T \cup {x}) \ {x})
    BY <2>1, SumSplits
  <2>3. SumFunctionOnSet(g, T \cup {x}) = g[x] + SumFunctionOnSet(g, (T \cup {x}) \ {x})
    <3>1. \A y \in T \cup {x} : g[y] \in Int
      BY <2>1
    <3>2. QED
      BY <2>1, <3>1, SumSplits
  <2>4. SumFunctionOnSet(g, T) = SumFunctionOnSet(f, T)
    BY <1>2
  <2>5. QED
    BY <2>1, <2>2, <2>3, <2>4
<1> HIDE DEF F
<1>3. S \in F
  BY <1>1, <1>2, SubsetInduction
<1>4. QED
  BY <1>3 DEF F

(* The sum after a new element is added.                                   *)
LEMMA SumInsert ==
  ASSUME NEW S, IsFiniteSet(S), NEW x, x \notin S, NEW f,
         \A y \in S \cup {x} : f[y] \in Int
  PROVE  SumFunctionOnSet(f, S \cup {x}) = f[x] + SumFunctionOnSet(f, S)
<1>1. IsFiniteSet(S \cup {x}) /\ x \in S \cup {x} /\ (S \cup {x}) \ {x} = S
  BY FS_AddElement
<1>2. QED
  BY <1>1, SumSplits

(* The sum after the function changed at one element.                      *)
LEMMA SumChange ==
  ASSUME NEW S, IsFiniteSet(S), NEW x \in S, NEW f, NEW g,
         \A y \in S : f[y] \in Int, g[x] \in Int, \A y \in S \ {x} : g[y] = f[y]
  PROVE  SumFunctionOnSet(g, S) = SumFunctionOnSet(f, S) - f[x] + g[x]
<1>1. IsFiniteSet(S \ {x}) /\ \A y \in S : g[y] \in Int
  BY FS_RemoveElement
<1>2. SumFunctionOnSet(f, S) = f[x] + SumFunctionOnSet(f, S \ {x})
  BY SumSplits
<1>3. SumFunctionOnSet(g, S) = g[x] + SumFunctionOnSet(g, S \ {x})
  BY <1>1, SumSplits
<1>4. SumFunctionOnSet(g, S \ {x}) = SumFunctionOnSet(f, S \ {x})
  BY <1>1, SumAgrees
<1>5. SumFunctionOnSet(f, S \ {x}) \in Int
  BY <1>1, SumSplits
<1>6. QED
  BY <1>1, <1>2, <1>3, <1>4, <1>5

(* A sum is at least that of a function that is nowhere larger.            *)
LEMMA SumMonotone ==
  ASSUME NEW S, IsFiniteSet(S), NEW f, NEW g,
         \A x \in S : f[x] \in Int /\ g[x] \in Int /\ f[x] <= g[x]
  PROVE  SumFunctionOnSet(f, S) <= SumFunctionOnSet(g, S)
<1> DEFINE F == {T \in SUBSET S : SumFunctionOnSet(f, T) <= SumFunctionOnSet(g, T)}
<1>1. {} \in F
  BY SumEmpty
<1>2. ASSUME NEW T \in SUBSET S, NEW x \in S, T \in F, x \notin T
      PROVE  T \cup {x} \in F
  <2>1. T \cup {x} \in SUBSET S /\ IsFiniteSet(T)
    BY <1>2, FS_Subset
  <2>2. SumFunctionOnSet(f, T \cup {x}) = f[x] + SumFunctionOnSet(f, T)
    BY <1>2, <2>1, SumInsert
  <2>3. SumFunctionOnSet(g, T \cup {x}) = g[x] + SumFunctionOnSet(g, T)
    BY <1>2, <2>1, SumInsert
  <2>4. SumFunctionOnSet(f, T) \in Int /\ SumFunctionOnSet(g, T) \in Int
    BY <2>1, SumSplits
  <2>5. SumFunctionOnSet(f, T) <= SumFunctionOnSet(g, T)
    BY <1>2
  <2>6. QED
    BY <2>1, <2>2, <2>3, <2>4, <2>5
<1> HIDE DEF F
<1>3. S \in F
  BY <1>1, <1>2, SubsetInduction
<1>4. QED
  BY <1>3 DEF F

(* Zeros add up to nothing.                                                *)
LEMMA SumOfZeros ==
  ASSUME NEW S, IsFiniteSet(S), NEW f, \A x \in S : f[x] = 0
  PROVE  SumFunctionOnSet(f, S) = 0
<1> DEFINE F == {T \in SUBSET S : SumFunctionOnSet(f, T) = 0}
<1>1. {} \in F
  BY SumEmpty
<1>2. ASSUME NEW T \in SUBSET S, NEW x \in S, T \in F, x \notin T
      PROVE  T \cup {x} \in F
  <2>1. IsFiniteSet(T) /\ \A y \in T \cup {x} : f[y] \in Int
    BY FS_Subset
  <2>2. SumFunctionOnSet(f, T \cup {x}) = f[x] + SumFunctionOnSet(f, T)
    BY <1>2, <2>1, SumInsert
  <2>3. QED
    BY <1>2, <2>2
<1> HIDE DEF F
<1>3. S \in F
  BY <1>1, <1>2, SubsetInduction
<1>4. QED
  BY <1>3 DEF F
-----------------------------------------------------------------------------
(* Division with remainder.                                                *)
LEMMA Remainder ==
  ASSUME NEW n \in Int, NEW d \in Int, d > 0
  PROVE  /\ n \div d \in Int /\ n % d \in Int
         /\ n = d * (n \div d) + (n % d)
<1>1. n = d * (n \div d) + (n % d)
  OBVIOUS
<1>2. n \div d \in Int /\ n % d \in Int
  OBVIOUS
<1>3. QED
  BY <1>1, <1>2

(* There is only one quotient, and only one remainder.                     *)
LEMMA QuotientUnique ==
  ASSUME NEW d \in Int, d > 0, NEW q \in Int, NEW r \in Int, 0 <= r, r < d,
         NEW p \in Int, NEW s \in Int, 0 <= s, s < d, d * q + r = d * p + s
  PROVE  q = p /\ r = s
<1>1. d * (q - p) = s - r
  <2>1. d * (q - p) = d * q - d * p
    BY Z3
  <2>2. d * q \in Int /\ d * p \in Int
    OBVIOUS
  <2>3. QED
    BY <2>1, <2>2
<1>2. q - p = 0
  <2>1. ASSUME q - p >= 1 PROVE FALSE
    <3>1. q - p - 1 \in Nat
      BY <2>1
    <3>2. d * (q - p - 1) \in Nat
      BY <3>1
    <3>3. d * (q - p) = d * (q - p - 1) + d
      BY Z3
    <3>4. QED
      BY <1>1, <3>2, <3>3
  <2>2. ASSUME q - p <= -1 PROVE FALSE
    <3>1. p - q - 1 \in Nat
      BY <2>2
    <3>2. d * (p - q - 1) \in Nat
      BY <3>1
    <3>3. d * (q - p) = -(d * (p - q - 1)) - d
      BY Z3
    <3>4. QED
      BY <1>1, <3>2, <3>3
  <2>3. QED
    BY <2>1, <2>2
<1>3. QED
  BY <1>1, <1>2

(* Any way to write a number as a multiple and a small rest is division.   *)
LEMMA DivisionUnique ==
  ASSUME NEW n \in Int, NEW d \in Int, d > 0, NEW q \in Int, NEW r \in Int,
         0 <= r, r < d, n = d * q + r
  PROVE  n \div d = q /\ n % d = r
<1>1. /\ n \div d \in Int /\ n % d \in Int
      /\ n = d * (n \div d) + (n % d)
  BY Remainder
<1>2. 0 <= n % d /\ n % d < d
  OBVIOUS
<1> DEFINE p == n \div d
           s == n % d
<1>3. p \in Int /\ s \in Int /\ 0 <= s /\ s < d /\ d * p + s = d * q + r
  BY <1>1, <1>2
<1> HIDE DEF p, s
<1>4. p = q /\ s = r
  BY <1>3, QuotientUnique
<1>5. QED
  BY <1>4 DEF p, s
-----------------------------------------------------------------------------
(* The subsets of a union of two sets without common elements are as many  *)
(* as the pairs of a subset of each.                                       *)
LEMMA SubsetsOfUnion ==
  ASSUME NEW A, IsFiniteSet(A), NEW B, IsFiniteSet(B), A \cap B = {}
  PROVE  Cardinality(SUBSET (A \cup B)) = Cardinality(SUBSET A) * Cardinality(SUBSET B)
<1> DEFINE pair == [S \in SUBSET (A \cup B) |-> <<S \cap A, S \cap B>>]
<1>1. IsFiniteSet(SUBSET A) /\ IsFiniteSet(SUBSET B)
  BY FS_SUBSET
<1>2. /\ IsFiniteSet((SUBSET A) \X (SUBSET B))
      /\ Cardinality((SUBSET A) \X (SUBSET B)) = Cardinality(SUBSET A) * Cardinality(SUBSET B)
  BY <1>1, FS_Product
<1>3. IsFiniteSet(SUBSET (A \cup B))
  BY FS_Union, FS_SUBSET
<1>4. pair \in [SUBSET (A \cup B) -> (SUBSET A) \X (SUBSET B)]
  OBVIOUS
<1>5. ASSUME NEW S \in SUBSET (A \cup B), NEW T \in SUBSET (A \cup B), pair[S] = pair[T]
      PROVE  S = T
  <2>1. S \cap A = T \cap A /\ S \cap B = T \cap B
    BY <1>5
  <2>2. QED
    BY <2>1
<1>6. ASSUME NEW p \in (SUBSET A) \X (SUBSET B)
      PROVE  \E S \in SUBSET (A \cup B) : pair[S] = p
  <2>1. PICK S \in SUBSET A, T \in SUBSET B : p = <<S, T>>
    OBVIOUS
  <2>2. S \cup T \in SUBSET (A \cup B) /\ (S \cup T) \cap A = S /\ (S \cup T) \cap B = T
    OBVIOUS
  <2>3. QED
    BY <2>1, <2>2
<1>7. pair \in Bijection(SUBSET (A \cup B), (SUBSET A) \X (SUBSET B))
  <2> HIDE DEF pair
  <2>1. QED
    BY <1>4, <1>5, <1>6 DEF Bijection, Injection, Surjection, IsInjective
<1>8. ExistsBijection(SUBSET (A \cup B), (SUBSET A) \X (SUBSET B))
  BY <1>7 DEF ExistsBijection
<1>9. QED
  BY <1>2, <1>3, <1>8, FS_Bijection

(* A power of two counts subsets, which is where its laws come from.       *)
LEMMA PowersMultiply ==
  ASSUME NEW m \in Nat, NEW n \in Nat
  PROVE  2^(m + n) = 2^m * 2^n
<1> DEFINE A == 1..m
           B == (m + 1)..(m + n)
<1>1. IsFiniteSet(A) /\ Cardinality(A) = m
  BY FS_Interval
<1>2. IsFiniteSet(B) /\ Cardinality(B) = n
  BY FS_Interval
<1>3. A \cap B = {} /\ A \cup B = 1..(m + n)
  OBVIOUS
<1>4. IsFiniteSet(1..(m + n)) /\ Cardinality(1..(m + n)) = m + n
  <2>1. 1 \in Int /\ m + n \in Int /\ m + n \in Nat
    OBVIOUS
  <2> DEFINE k == m + n
  <2>2. k \in Nat
    BY <2>1
  <2> HIDE DEF k
  <2>3. IsFiniteSet(1..k) /\ Cardinality(1..k) = IF 1 > k THEN 0 ELSE k - 1 + 1
    BY <2>2, FS_Interval
  <2>4. IsFiniteSet(1..k) /\ Cardinality(1..k) = k
    BY <2>2, <2>3
  <2>5. QED
    BY <2>4 DEF k
<1> HIDE DEF A, B
<1>5. /\ Cardinality(SUBSET (A \cup B)) = 2^(m + n)
      /\ Cardinality(SUBSET A) = 2^m
      /\ Cardinality(SUBSET B) = 2^n
  BY <1>1, <1>2, <1>3, <1>4, FS_SUBSET
<1>6. QED
  BY <1>1, <1>2, <1>3, <1>5, SubsetsOfUnion

(* A power of two is a positive number.                                     *)
LEMMA PowerPositive ==
  ASSUME NEW n \in Nat
  PROVE  2^n \in Nat \ {0}
<1>1. IsFiniteSet(1..n) /\ Cardinality(1..n) = n
  BY FS_Interval
<1>2. IsFiniteSet(SUBSET (1..n)) /\ Cardinality(SUBSET (1..n)) = 2^n
  BY <1>1, FS_SUBSET
<1>3. {} \in SUBSET (1..n)
  OBVIOUS
<1>4. Cardinality(SUBSET (1..n)) \in Nat /\ Cardinality(SUBSET (1..n)) # 0
  BY <1>2, <1>3, FS_CardinalityType, FS_EmptySet
<1>5. QED
  BY <1>2, <1>4

(* A word has twice the values that fit on one side of zero.               *)
LEMMA PowerDoubles ==
  ASSUME NEW n \in Nat \ {0}
  PROVE  2^n = 2 * 2^(n - 1)
<1>1. n - 1 \in Nat /\ 1 \in Nat /\ (n - 1) + 1 = n
  OBVIOUS
<1>2. 2^((n - 1) + 1) = 2^(n - 1) * 2^1
  BY <1>1, PowersMultiply
<1>3. 2^1 = 2
  OBVIOUS
<1>4. 2^(n - 1) \in Nat
  BY <1>1, PowerPositive
<1>5. QED
  BY <1>1, <1>2, <1>3, <1>4
-----------------------------------------------------------------------------
(* A larger factor, a larger product.                                      *)
LEMMA ProductMonotone ==
  ASSUME NEW m \in Nat, NEW n \in Nat, m <= n, NEW k \in Nat
  PROVE  m * k \in Nat /\ n * k \in Nat /\ m * k <= n * k
<1>1. n - m \in Nat
  OBVIOUS
<1>2. (n - m) * k \in Nat /\ m * k \in Nat /\ n * k \in Nat
  BY <1>1
<1>3. (n - m) * k = n * k - m * k
  BY Z3
<1>4. QED
  BY <1>2, <1>3

(* A truncated quotient is an integer.                                     *)
LEMMA DivideType ==
  ASSUME NEW n \in Int, NEW d \in Nat \ {0}
  PROVE  TruncatedDivide(n, d) \in Int
BY DEF TruncatedDivide

(* An average of integers is an integer.                                   *)
LEMMA WeightedPriceType ==
  ASSUME NEW position \in PositionType, NEW price \in Int, NEW quantity \in Nat \ {0}
  PROVE  WeightedPrice(position, price, quantity) \in Int
<1> DEFINE open == Magnitude(position.quantity)
<1>1. open \in Nat /\ position.averagePrice \in Int
  BY DEF PositionType, Magnitude
<1>2. /\ position.averagePrice * open \in Int
      /\ price * quantity \in Int
  BY <1>1
<1>3. /\ position.averagePrice * open + price * quantity \in Int
      /\ open + quantity \in Nat \ {0}
  BY <1>1, <1>2
<1>4. QED
  BY <1>3, DivideType DEF WeightedPrice

(* The signed quantity of a trade is an integer of its magnitude.          *)
LEMMA SignedType ==
  ASSUME NEW side \in Sides, NEW quantity \in Int
  PROVE  /\ Signed(side, quantity) \in Int
         /\ Magnitude(Signed(side, quantity)) = Magnitude(quantity)
BY DEF Signed, Magnitude

(* applyTrade takes a position to a position.                              *)
LEMMA ApplyTradeType ==
  ASSUME NEW position \in PositionType, NEW side \in Sides,
         NEW price \in Int, NEW quantity \in Nat \ {0}
  PROVE  ApplyTrade(position, side, price, quantity) \in PositionType
<1> DEFINE signed == Signed(side, quantity)
<1>1. /\ signed \in Int
      /\ Magnitude(signed) = quantity
      /\ position.quantity + signed \in Int
  BY SignedType DEF PositionType, Magnitude
<1>2. WeightedPrice(position, price, Magnitude(signed)) \in Int
  BY <1>1, WeightedPriceType
<1>3. EntryPriceAfter(position, price, signed) \in Int
  BY <1>1, <1>2 DEF EntryPriceAfter, PositionType
<1>4. QED
  BY <1>1, <1>3 DEF ApplyTrade, PositionType

(* Truncation never takes a quotient out of integer bounds.                *)
LEMMA DivideBetween ==
  ASSUME NEW low \in Nat, NEW high \in Nat, NEW n \in Nat, NEW d \in Nat \ {0},
         low * d <= n, n <= high * d
  PROVE  low <= TruncatedDivide(n, d) /\ TruncatedDivide(n, d) <= high
<1> DEFINE q == n \div d
<1>1. q \in Nat /\ d * q <= n /\ n < d * q + d
  OBVIOUS
<1>2. TruncatedDivide(n, d) = q
  BY DEF TruncatedDivide
<1>3. low <= q
  <2>1. SUFFICES ASSUME q + 1 <= low PROVE FALSE
    BY <1>1
  <2>2. (q + 1) * d <= low * d
    BY <1>1, <2>1, ProductMonotone
  <2>3. (q + 1) * d = d * q + d
    BY <1>1
  <2>4. QED
    BY <1>1, <2>2, <2>3
<1>4. q <= high
  <2>1. SUFFICES ASSUME high + 1 <= q PROVE FALSE
    BY <1>1
  <2>2. (high + 1) * d <= q * d
    BY <1>1, <2>1, ProductMonotone
  <2>3. (high + 1) * d = high * d + d /\ q * d = d * q
    BY <1>1
  <2>4. QED
    BY <1>1, <2>2, <2>3
<1>5. QED
  BY <1>2, <1>3, <1>4

(* The weighted price lies between the two prices it averages.             *)
LEMMA WeightedPriceBetween ==
  ASSUME NEW position \in PositionType, position.averagePrice \in Nat,
         NEW price \in Nat, NEW quantity \in Nat \ {0},
         NEW low \in Nat, NEW high \in Nat,
         low <= position.averagePrice, low <= price,
         position.averagePrice <= high, price <= high
  PROVE  /\ low <= WeightedPrice(position, price, quantity)
         /\ WeightedPrice(position, price, quantity) <= high
<1> DEFINE open == Magnitude(position.quantity)
           sum  == position.averagePrice * open + price * quantity
<1>1. open \in Nat
  BY DEF PositionType, Magnitude
<1>2. sum \in Nat /\ open + quantity \in Nat \ {0}
  BY <1>1
<1>3. low * (open + quantity) <= sum
  <2>1. low * open <= position.averagePrice * open
    BY <1>1, ProductMonotone
  <2>2. low * quantity <= price * quantity
    BY ProductMonotone
  <2>3. low * (open + quantity) = low * open + low * quantity
    BY <1>1
  <2>4. /\ low * open \in Nat /\ low * quantity \in Nat
        /\ position.averagePrice * open \in Nat /\ price * quantity \in Nat
    BY <1>1
  <2>5. QED
    BY <2>1, <2>2, <2>3, <2>4
<1>4. sum <= high * (open + quantity)
  <2>1. position.averagePrice * open <= high * open
    BY <1>1, ProductMonotone
  <2>2. price * quantity <= high * quantity
    BY ProductMonotone
  <2>3. high * (open + quantity) = high * open + high * quantity
    BY <1>1
  <2>4. /\ high * open \in Nat /\ high * quantity \in Nat
        /\ position.averagePrice * open \in Nat /\ price * quantity \in Nat
    BY <1>1
  <2>5. QED
    BY <2>1, <2>2, <2>3, <2>4
<1>5. QED
  BY <1>2, <1>3, <1>4, DivideBetween DEF WeightedPrice

(* A position whose entry price is set exactly when it is open.            *)
Consistent(position) ==
  /\ position \in PositionType
  /\ position.averagePrice \in Nat
  /\ (position.quantity = 0) = (position.averagePrice = 0)

(* "A flat position always has a zero average entry price", and an open    *)
(* one a positive one: applyTrade preserves it for every trade.            *)
LEMMA ApplyTradeConsistent ==
  ASSUME NEW position, Consistent(position), NEW side \in Sides,
         NEW price \in Nat \ {0}, NEW quantity \in Nat \ {0}
  PROVE  Consistent(ApplyTrade(position, side, price, quantity))
<1> DEFINE signed == Signed(side, quantity)
           before == position.quantity
           after  == ApplyTrade(position, side, price, quantity)
<1>1. /\ signed \in Int /\ signed # 0 /\ Magnitude(signed) = quantity
      /\ before \in Int
  BY SignedType DEF PositionType, Magnitude, Consistent, Signed
<1>2. /\ after \in PositionType
      /\ after.quantity = before + signed
      /\ after.averagePrice = EntryPriceAfter(position, price, signed)
  BY ApplyTradeType DEF ApplyTrade, Consistent
<1>3. CASE before = 0
  BY <1>1, <1>2, <1>3 DEF EntryPriceAfter, Consistent
<1>4. CASE before # 0 /\ SameDirection(before, signed)
  <2>1. before + signed # 0
    BY <1>1, <1>4 DEF SameDirection
  <2>2. 1 <= position.averagePrice
    BY <1>4 DEF Consistent
  <2>3. \E high \in Nat : position.averagePrice <= high /\ price <= high
    <3>1. position.averagePrice + price \in Nat
      BY DEF Consistent
    <3>2. QED
      BY <3>1 DEF Consistent
  <2>4. 1 <= WeightedPrice(position, price, quantity)
    BY <2>2, <2>3, WeightedPriceBetween DEF Consistent
  <2>5. WeightedPrice(position, price, quantity) \in Int
    BY WeightedPriceType DEF Consistent
  <2>6. after.averagePrice = WeightedPrice(position, price, quantity)
    BY <1>1, <1>2, <1>4 DEF EntryPriceAfter
  <2>7. QED
    BY <1>2, <2>1, <2>4, <2>5, <2>6 DEF Consistent
<1>5. CASE before # 0 /\ ~SameDirection(before, signed)
  BY <1>1, <1>2, <1>5 DEF EntryPriceAfter, Consistent
<1>6. QED
  BY <1>3, <1>4, <1>5
=============================================================================
