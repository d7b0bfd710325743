------------------------------ MODULE TextProofs ------------------------------
(***************************************************************************)
(* The text functions of src/utilities/ for every text and every sequence  *)
(* of bytes: nothing is lost by trimming, splitting, cutting into chunks,  *)
(* parsing a line, nor by writing bytes as digits or codes.  None of them  *)
(* can be unfolded by the provers as it stands.  A fold is followed by a   *)
(* function of the prefixes (Folds), a function that recurses towards the  *)
(* end of the text by Descends; that the two describe what the definition  *)
(* computes is proved of each, and what follows of every text is then      *)
(* induction on the set of the prefixes or suffixes it holds of.           *)
(***************************************************************************)
EXTENDS TextUtilities, ArithmeticTheorems, SequenceTheorems
-----------------------------------------------------------------------------
(* Where the elements of two joined sequences are.                         *)
LEMMA JoinedElements ==
  ASSUME NEW C, NEW s \in Seq(C), NEW t \in Seq(C)
  PROVE  /\ s \o t \in Seq(C) /\ Len(s \o t) = Len(s) + Len(t)
         /\ Len(s) \in Nat /\ Len(t) \in Nat
         /\ \A j \in 1..Len(s) : (s \o t)[j] = s[j]
         /\ \A j \in 1..Len(t) : (s \o t)[Len(s) + j] = t[j]
<1>1. Len(s) \in Nat /\ Len(t) \in Nat
  BY LenProperties
<1>2. ASSUME NEW j \in 1..Len(s) PROVE (s \o t)[j] = s[j]
  <2>1. j \in 1..(Len(s) + Len(t)) /\ j <= Len(s)
    BY <1>1
  <2>2. QED
    BY <2>1, ConcatProperties
<1>3. ASSUME NEW j \in 1..Len(t) PROVE (s \o t)[Len(s) + j] = t[j]
  <2>1. /\ Len(s) + j \in 1..(Len(s) + Len(t)) /\ ~(Len(s) + j <= Len(s))
        /\ (Len(s) + j) - Len(s) = j
    BY <1>1
  <2>2. QED
    BY <2>1, ConcatProperties
<1>4. QED
  BY <1>1, <1>2, <1>3, ConcatProperties

(* What FlattenSeq is defined by: the pieces joined so far.                *)
Joins(seqs, n, joined) ==
  joined = [i \in 1..n |-> IF i = 1 THEN seqs[i] ELSE joined[i - 1] \o seqs[i]]

(* Its recursion can be followed: joining one more piece appends it.       *)
LEMMA FlattenUnfolds ==
  ASSUME NEW seqs, Len(seqs) \in Nat \ {0}
  PROVE  \E joined : Joins(seqs, Len(seqs), joined) /\ FlattenSeq(seqs) = joined[Len(seqs)]
<1> DEFINE Good == {m \in Nat : \E g : Joins(seqs, m, g)}
           P(g) == Joins(seqs, Len(seqs), g)
           joined == CHOOSE g : P(g)
<1>1. 0 \in Good
  <2> DEFINE g == [i \in 1..0 |-> seqs[i]]
  <2>1. Joins(seqs, 0, g)
    BY DEF Joins
  <2>2. QED
    BY <2>1
<1>2. ASSUME NEW m \in Good PROVE m + 1 \in Good
  <2>1. PICK g : Joins(seqs, m, g)
    OBVIOUS
  <2> DEFINE h == [i \in 1..(m + 1) |-> IF i = 1 THEN seqs[i] ELSE g[i - 1] \o seqs[i]]
  <2>2. ASSUME NEW i \in 1..m PROVE h[i] = g[i]
    <3>1. i \in 1..(m + 1)
      OBVIOUS
    <3>2. h[i] = IF i = 1 THEN seqs[i] ELSE g[i - 1] \o seqs[i]
      BY <3>1
    <3>3. g[i] = IF i = 1 THEN seqs[i] ELSE g[i - 1] \o seqs[i]
      BY <2>1 DEF Joins
    <3>4. QED
      BY <3>2, <3>3
  <2>3. \A i \in 1..(m + 1) : i # 1 => i - 1 \in 1..m
    OBVIOUS
  <2>4. h = [i \in 1..(m + 1) |-> IF i = 1 THEN seqs[i] ELSE h[i - 1] \o seqs[i]]
    BY <2>2, <2>3
  <2>5. Joins(seqs, m + 1, h)
    BY <2>4 DEF Joins
  <2>6. QED
    BY <2>5
<1> HIDE DEF Good
<1>3. Len(seqs) \in Good
  <2>1. Good \in SUBSET Nat
    BY DEF Good
  <2>2. QED
    BY <1>1, <1>2, <2>1, SetInduction
<1>4. P(joined)
  <2>1. \E g : P(g)
    BY <1>3 DEF Good
  <2> HIDE DEF P
  <2>2. QED
    BY <2>1
<1>5. FlattenSeq(seqs) = joined[Len(seqs)]
  BY DEF FlattenSeq, Joins
<1>6. QED
  BY <1>4, <1>5

(* Pieces of one length are found again at multiples of it.                *)
AtMultiples(joined, seqs, size) ==
  \A k \in 1..Len(seqs), i \in 1..size : joined[size * (k - 1) + i] = seqs[k][i]

(* Blocks of one size, joined: where their elements are.                   *)
LEMMA FlattenBlocks ==
  ASSUME NEW C, NEW size \in Nat, NEW D, D = {s \in Seq(C) : Len(s) = size},
         NEW seqs \in Seq(D)
  PROVE  /\ FlattenSeq(seqs) \in Seq(C)
         /\ Len(FlattenSeq(seqs)) = size * Len(seqs)
         /\ AtMultiples(FlattenSeq(seqs), seqs, size)
<1> DEFINE n == Len(seqs)
<1>0. /\ n \in Nat /\ (seqs = <<>> <=> n = 0)
      /\ \A k \in 1..n : seqs[k] \in Seq(C) /\ Len(seqs[k]) = size
  <2>1. \A k \in 1..n : seqs[k] \in D
    BY ElementOfSeq
  <2>2. n \in Nat /\ (seqs = <<>> <=> n = 0)
    BY LenProperties, EmptySeq
  <2>3. QED
    BY <2>1, <2>2
<1>1. CASE n = 0
  <2>1. FlattenSeq(seqs) = <<>>
    BY <1>1 DEF FlattenSeq
  <2>2. QED
    BY <1>1, <2>1 DEF AtMultiples
<1>2. CASE n # 0
  <2>1. PICK g : Joins(seqs, n, g) /\ FlattenSeq(seqs) = g[n]
    BY <1>2, FlattenUnfolds
  <2>2. g[1] = seqs[1] /\ \A i \in 2..n : g[i] = g[i - 1] \o seqs[i]
    <3>1. \A i \in 1..n : g[i] = IF i = 1 THEN seqs[i] ELSE g[i - 1] \o seqs[i]
      BY <2>1 DEF Joins
    <3>2. 1 \in 1..n /\ \A i \in 2..n : i \in 1..n /\ i # 1
      BY <1>2
    <3>3. QED
      BY <3>1, <3>2
  <2> DEFINE Blocks(m) == /\ g[m] \in Seq(C)
                          /\ Len(g[m]) = size * m
                          /\ \A k \in 1..m, i \in 1..size : g[m][size * (k - 1) + i] = seqs[k][i]
             Good == {m \in Nat : m + 1 <= n => Blocks(m + 1)}
  <2>3. Blocks(1)
    BY <1>2, <2>2
  <2>4. ASSUME NEW m \in 1..n, m + 1 <= n, Blocks(m) PROVE Blocks(m + 1)
    <3> DEFINE a == g[m]
               b == seqs[m + 1]
    <3>1. a \in Seq(C) /\ b \in Seq(C) /\ g[m + 1] = a \o b /\ Len(a) = size * m /\ Len(b) = size
      <4>1. m \in Nat /\ m + 1 \in 1..n /\ m + 1 \in 2..n /\ (m + 1) - 1 = m
        BY <1>2, <2>4
      <4>2. g[m + 1] = g[(m + 1) - 1] \o seqs[m + 1]
        BY <2>2, <4>1
      <4>3. QED
        BY <2>4, <4>1, <4>2
    <3>2. size * m \in Nat /\ size * (m + 1) = size * m + size
      OBVIOUS
    <3>3. /\ a \o b \in Seq(C) /\ Len(a \o b) = size * m + size
          /\ \A j \in 1..(size * m) : (a \o b)[j] = a[j]
          /\ \A j \in 1..size : (a \o b)[size * m + j] = b[j]
      <4> DEFINE l == size * m
      <4>1. l \in Nat /\ Len(a) = l /\ a \in Seq(C) /\ b \in Seq(C) /\ Len(b) = size
        BY <3>1, <3>2
      <4> HIDE DEF a, b, l
      <4>2. /\ a \o b \in Seq(C) /\ Len(a \o b) = l + size
            /\ \A j \in 1..l : (a \o b)[j] = a[j]
            /\ \A j \in 1..size : (a \o b)[l + j] = b[j]
        <5>1. /\ a \o b \in Seq(C) /\ Len(a \o b) = Len(a) + Len(b)
              /\ \A j \in 1..Len(a) : (a \o b)[j] = a[j]
              /\ \A j \in 1..Len(b) : (a \o b)[Len(a) + j] = b[j]
          <6>1. a \in Seq(C) /\ b \in Seq(C)
            BY <4>1
          <6>2. QED
            BY <6>1, JoinedElements
        <5>2. QED
          BY <4>1, <5>1
      <4>3. QED
        BY <4>2 DEF l
    <3>4. ASSUME NEW k \in 1..(m + 1), NEW i \in 1..size
          PROVE  (a \o b)[size * (k - 1) + i] = seqs[k][i]
      <4>1. CASE k = m + 1
        <5>1. size * (k - 1) = size * m
          BY <4>1
        <5>2. QED
          BY <3>3, <4>1, <5>1
      <4>2. CASE k # m + 1
        <5>1. k \in 1..m /\ a[size * (k - 1) + i] = seqs[k][i]
          BY <2>4, <4>2
        <5>2. size * (k - 1) + i \in 1..(size * m)
          <6>1. /\ size * (k - 1) \in Nat /\ size * m \in Nat
                /\ size * m = size * (k - 1) + size * (m - (k - 1))
                /\ m - (k - 1) \in Nat /\ m - (k - 1) >= 1
            BY <5>1
          <6>2. size * (m - (k - 1)) >= size
            <7> DEFINE d == m - k
            <7>1. d \in Nat /\ m - (k - 1) = d + 1
              BY <5>1
            <7> HIDE DEF d
            <7>2. size * (d + 1) = size * d + size /\ size * d \in Nat
              BY <7>1
            <7>3. QED
              BY <7>1, <7>2
          <6> DEFINE p == size * (k - 1)
                     q == size * m
                     r == size * (m - (k - 1))
          <6>3. p \in Nat /\ q \in Nat /\ r \in Nat /\ q = p + r /\ r >= size
            BY <6>1, <6>2
          <6> HIDE DEF p, q, r
          <6>4. p + i \in 1..q
            BY <6>3
          <6>5. QED
            BY <6>4 DEF p, q
        <5>3. QED
          BY <3>3, <5>1, <5>2
      <4>3. QED
        BY <4>1, <4>2
    <3> HIDE DEF a, b
    <3>5. g[m + 1] \in Seq(C) /\ Len(g[m + 1]) = size * (m + 1)
      BY <3>1, <3>2, <3>3
    <3>6. \A k \in 1..(m + 1), i \in 1..size : g[m + 1][size * (k - 1) + i] = seqs[k][i]
      BY <3>1, <3>4
    <3>7. QED
      BY <3>5, <3>6
  <2> HIDE DEF Blocks
  <2>5. 0 \in Good
    BY <2>3
  <2>6. ASSUME NEW m \in Good PROVE m + 1 \in Good
    BY <2>4
  <2>7. Good \in SUBSET Nat
    OBVIOUS
  <2> HIDE DEF Good
  <2>8. n - 1 \in Good
    BY <1>2, <2>5, <2>6, <2>7, SetInduction
  <2>9. Blocks(n)
    BY <1>2, <2>8 DEF Good
  <2>10. QED
    BY <2>1, <2>9 DEF Blocks, AtMultiples
<1>3. QED
  BY <1>1, <1>2

(* The least of a set of numbers, and the greatest of one with a bound.    *)
LEMMA MinIs ==
  ASSUME NEW S \in SUBSET Nat, S # {}
  PROVE  Min(S) \in S /\ \A x \in S : Min(S) <= x
<1>1. \E n \in S : \A x \in S : n <= x
  BY LeastNumber
<1>2. QED
  BY <1>1 DEF Min

(* What Max and Min choose, of a set of numbers below or above a bound.    *)
LEMMA MaxIs ==
  ASSUME NEW bound \in Int, NEW S \in SUBSET Int, S # {}, \A x \in S : x <= bound
  PROVE  Max(S) \in S /\ \A x \in S : x <= Max(S)
<1> DEFINE D == {bound - x : x \in S}
<1>1. D \in SUBSET Nat /\ D # {}
  <2>1. \A x \in S : bound - x \in Nat
    OBVIOUS
  <2>2. QED
    BY <2>1
<1>2. PICK d \in D : \A e \in D : d <= e
  BY <1>1, LeastNumber
<1>3. PICK n \in S : d = bound - n
  OBVIOUS
<1>4. \A x \in S : x <= n
  <2> SUFFICES ASSUME NEW x \in S PROVE x <= n
    OBVIOUS
  <2>1. bound - x \in D /\ x \in Int /\ n \in Int
    OBVIOUS
  <2>2. bound - n <= bound - x
    BY <1>2, <1>3, <2>1
  <2>3. QED
    BY <2>1, <2>2
<1>5. \E m \in S : \A x \in S : m >= x
  <2>1. \A x \in S : n >= x
    BY <1>3, <1>4
  <2>2. QED
    BY <2>1
<1>6. Max(S) \in S /\ \A x \in S : Max(S) >= x
  BY <1>5 DEF Max
<1>7. QED
  BY <1>6

(* Along which FoldLeft computes: a set of places gives up its greatest    *)
(* one after the other.                                                    *)
Folds(step, base, places, h) ==
  h = [s \in places |-> IF s = {} THEN base ELSE step[<<h[s \ {Max(s)}], Max(s)>>]]

(* It can be followed for steps that stay in a set.                        *)
LEMMA FoldExists ==
  ASSUME NEW S, IsFiniteSet(S), \A T \in SUBSET S : T # {} => Max(T) \in T,
         NEW V, NEW base \in V, NEW step \in [V \X S -> V]
  PROVE  \E h \in [SUBSET S -> V] : Folds(step, base, SUBSET S, h)
<1> DEFINE Good == {m \in Nat : \E h \in [UpTo(S, m) -> V] : Folds(step, base, UpTo(S, m), h)}
<1>1. 0 \in Good
  <2> DEFINE g == [T \in UpTo(S, 0) |-> base]
  <2>1. \A T \in UpTo(S, 0) : T = {}
    <3>1. \A T \in SUBSET S : \A x \in T : Cardinality(T) \in Nat /\ Cardinality(T) >= 1
      BY OneLess
    <3>2. QED
      BY <3>1 DEF UpTo
  <2>2. Folds(step, base, UpTo(S, 0), g)
    BY <2>1 DEF Folds
  <2>3. QED
    BY <2>2
<1>2. ASSUME NEW m \in Good PROVE m + 1 \in Good
  <2>1. m \in Nat
    OBVIOUS
  <2>2. PICK g \in [UpTo(S, m) -> V] : Folds(step, base, UpTo(S, m), g)
    OBVIOUS
  <2> DEFINE next(T, f) == IF T = {} THEN base ELSE step[<<f[T \ {Max(T)}], Max(T)>>]
             h == [T \in UpTo(S, m + 1) |-> next(T, g)]
  <2>3. \A T \in UpTo(S, m + 1) : T # {} => T \ {Max(T)} \in UpTo(S, m) /\ Max(T) \in S
    <3> SUFFICES ASSUME NEW T \in UpTo(S, m + 1), T # {}
                 PROVE  T \ {Max(T)} \in UpTo(S, m) /\ Max(T) \in S
      OBVIOUS
    <3>1. T \in SUBSET S /\ Cardinality(T) <= m + 1 /\ Max(T) \in T
      BY DEF UpTo
    <3>2. QED
      BY <2>1, <3>1, OneLess DEF UpTo
  <2>4. UpTo(S, m) \subseteq UpTo(S, m + 1)
    BY <2>1, FS_Subset, FS_CardinalityType DEF UpTo
  <2>5. \A T \in UpTo(S, m) : g[T] = h[T]
    BY <2>2, <2>4 DEF Folds
  <2>6. \A T \in UpTo(S, m + 1) : next(T, g) \in V
    BY <2>2, <2>3
  <2>7. h \in [UpTo(S, m + 1) -> V]
    BY <2>6
  <2>8. \A T \in UpTo(S, m + 1) : h[T] = next(T, h)
    BY <2>3, <2>5
  <2>9. Folds(step, base, UpTo(S, m + 1), h)
    BY <2>8 DEF Folds
  <2> HIDE DEF h
  <2>10. m + 1 \in Nat
    BY <2>1
  <2>11. QED
    BY <2>7, <2>9, <2>10
<1>3. Good \in SUBSET Nat
  OBVIOUS
<1> HIDE DEF Good
<1>4. Cardinality(S) \in Nat /\ Cardinality(S) \in Good
  BY <1>1, <1>2, <1>3, SetInduction, FS_CardinalityType
<1>5. UpTo(S, Cardinality(S)) = SUBSET S
  BY FS_Subset DEF UpTo
<1>6. QED
  BY <1>4, <1>5 DEF Good

(* The places of a sequence are such a set.                                *)
LEMMA PlacesFold ==
  ASSUME NEW n \in Nat, NEW V, NEW base \in V, NEW step \in [V \X (1..n) -> V]
  PROVE  /\ \A T \in SUBSET (1..n) : T # {} => Max(T) \in T
         /\ \E h \in [SUBSET (1..n) -> V] : Folds(step, base, SUBSET (1..n), h)
<1>1. PICK S : S = 1..n
  OBVIOUS
<1>2. IsFiniteSet(S)
  BY <1>1, FS_Interval
<1>3. \A T \in SUBSET S : T # {} => Max(T) \in T
  <2> SUFFICES ASSUME NEW T \in SUBSET S, T # {} PROVE Max(T) \in T
    OBVIOUS
  <2>1. T \in SUBSET Int /\ n \in Int /\ \A x \in T : x <= n
    BY <1>1
  <2>2. QED
    BY <2>1, MaxIs
<1>4. step \in [V \X S -> V]
  BY <1>1
<1>5. \E h \in [SUBSET S -> V] : Folds(step, base, SUBSET S, h)
  BY <1>2, <1>3, <1>4, FoldExists
<1>6. QED
  BY <1>1, <1>3, <1>5

(* The first places of a sequence without the last of them.                *)
LEMMA PrefixFolds ==
  ASSUME NEW k \in Nat \ {0}
  PROVE  Max(1..k) = k /\ (1..k) \ {k} = 1..(k - 1) /\ 1..k # {}
<1>1. Max(1..k) \in 1..k /\ \A x \in 1..k : x <= Max(1..k)
  <2>1. PICK S : S = 1..k
    OBVIOUS
  <2>2. S \in SUBSET Int /\ S # {} /\ k \in Int /\ \A x \in S : x <= k
    BY <2>1
  <2>3. Max(S) \in S /\ \A x \in S : x <= Max(S)
    BY <2>2, MaxIs
  <2>4. QED
    BY <2>1, <2>3
<1>2. k \in 1..k
  OBVIOUS
<1>3. QED
  BY <1>1, <1>2

(* The number that digits stand for, digit by digit.                       *)
LEMMA ValueUnfolds ==
  ASSUME NEW base \in Int, NEW digits \in Seq(Int)
  PROVE  \E g : /\ g[0] = 0
                /\ \A k \in 1..Len(digits) : g[k] = base * g[k - 1] + digits[k]
                /\ \A k \in 0..Len(digits) : g[k] \in Int
                /\ Value(digits, base) = g[Len(digits)]
<1> DEFINE n == Len(digits)
           P(h) == h = [s \in SUBSET (1..n) |->
                          IF s = {} THEN 0 ELSE base * h[s \ {Max(s)}] + digits[Max(s)]]
           iter == CHOOSE h : P(h)
<1>1. n \in Nat /\ DOMAIN digits = 1..n /\ \A k \in 1..n : digits[k] \in Int
  BY LenProperties, ElementOfSeq
<1>2. \E h \in [SUBSET (1..n) -> Int] : P(h)
  <2> DEFINE step == [p \in Int \X (1..n) |-> base * p[1] + digits[p[2]]]
  <2>1. step \in [Int \X (1..n) -> Int]
    BY <1>1
  <2> HIDE DEF step
  <2>2. /\ \A T \in SUBSET (1..n) : T # {} => Max(T) \in T
        /\ \E h \in [SUBSET (1..n) -> Int] : Folds(step, 0, SUBSET (1..n), h)
    <3>1. n \in Nat /\ 0 \in Int
      BY <1>1
    <3> HIDE DEF n
    <3>2. QED
      BY <2>1, <3>1, PlacesFold
  <2>2a. PICK h \in [SUBSET (1..n) -> Int] : Folds(step, 0, SUBSET (1..n), h)
    BY <2>2
  <2>3. \A s \in SUBSET (1..n) : s # {} => Max(s) \in s /\ s \ {Max(s)} \in SUBSET (1..n)
    BY <2>2
  <2>4. \A s \in SUBSET (1..n) :
          h[s] = IF s = {} THEN 0 ELSE base * h[s \ {Max(s)}] + digits[Max(s)]
    <3> SUFFICES ASSUME NEW s \in SUBSET (1..n)
                 PROVE  h[s] = IF s = {} THEN 0 ELSE base * h[s \ {Max(s)}] + digits[Max(s)]
      OBVIOUS
    <3>1. h[s] = IF s = {} THEN 0 ELSE step[<<h[s \ {Max(s)}], Max(s)>>]
      BY <2>2a DEF Folds
    <3>2. s # {} => <<h[s \ {Max(s)}], Max(s)>> \in Int \X (1..n)
      BY <2>3
    <3>3. s # {} => step[<<h[s \ {Max(s)}], Max(s)>>] = base * h[s \ {Max(s)}] + digits[Max(s)]
      BY <3>2 DEF step
    <3>4. QED
      BY <3>1, <3>3
  <2>5. P(h)
    BY <2>4
  <2>6. QED
    BY <2>5
<1>3. P(iter)
  <2>1. \E h : P(h)
    BY <1>2
  <2> HIDE DEF P
  <2>2. QED
    BY <2>1
<1>4. Value(digits, base) = iter[1..n]
  BY <1>1 DEF Value, FoldLeft, MapThenFoldSet
<1> HIDE DEF iter
<1> DEFINE g == [k \in 0..n |-> iter[1..k]]
<1>5. g[0] = 0
  <2>1. 1..0 = {} /\ 0 \in 0..n
    BY <1>1
  <2>2. QED
    BY <1>3, <2>1
<1>6. ASSUME NEW k \in 1..n PROVE g[k] = base * g[k - 1] + digits[k]
  <2>1. k \in 0..n /\ k - 1 \in 0..n /\ 1..k \in SUBSET (1..n)
    BY <1>1
  <2>2. Max(1..k) = k /\ (1..k) \ {k} = 1..(k - 1) /\ 1..k # {}
    <3>1. k \in Nat \ {0}
      BY <1>1
    <3>2. QED
      BY <3>1, PrefixFolds
  <2>3. iter[1..k] = base * iter[1..(k - 1)] + digits[k]
    BY <1>3, <2>1, <2>2
  <2>4. QED
    BY <2>1, <2>3
<1>7. \A k \in 0..n : g[k] \in Int
  <2> DEFINE Good == {k \in Nat : k <= n => g[k] \in Int}
  <2>1. 0 \in Good
    BY <1>5
  <2>2. ASSUME NEW k \in Good PROVE k + 1 \in Good
    <3>1. CASE k + 1 <= n
      <4>1. k + 1 \in 1..n /\ (k + 1) - 1 = k /\ g[k] \in Int /\ digits[k + 1] \in Int
        BY <1>1, <3>1
      <4>2. g[k + 1] = base * g[k] + digits[k + 1]
        BY <1>6, <4>1
      <4> HIDE DEF g
      <4>3. base * g[k] \in Int
        BY <4>1
      <4>4. QED
        BY <4>1, <4>2, <4>3
    <3>2. QED
      BY <3>1, <1>1
  <2>3. Good \in SUBSET Nat
    OBVIOUS
  <2> HIDE DEF Good
  <2>4. \A k \in Nat : k \in Good
    BY <2>1, <2>2, <2>3, SetInduction
  <2>5. \A k \in Nat : k <= n => g[k] \in Int
    BY <2>4 DEF Good
  <2> HIDE DEF g
  <2>6. QED
    BY <1>1, <2>5
<1>8. Value(digits, base) = g[n]
  BY <1>1, <1>4
<1> HIDE DEF g
<1>9. QED
  BY <1>5, <1>6, <1>7, <1>8

-----------------------------------------------------------------------------
-----------------------------------------------------------------------------
(* Bytes and their digits.                                                 *)
LEMMA HexDigits ==
  ASSUME NEW byte \in 0..255
  PROVE  /\ byte \div 16 \in 0..15 /\ byte % 16 \in 0..15
         /\ 16 * (byte \div 16) + (byte % 16) = byte
OBVIOUS

(* The bytes read back from their hexadecimal digits.                      *)
LEMMA HexIsKept ==
  ASSUME NEW bytes \in Seq(0..255)
  PROVE  HexToBytes(BytesToHex(bytes)) = bytes
<1> DEFINE n == Len(bytes)
           pairs == [k \in DOMAIN bytes |-> <<bytes[k] \div 16, bytes[k] % 16>>]
           digits == BytesToHex(bytes)
<1>1. n \in Nat /\ DOMAIN bytes = 1..n /\ bytes \in [1..n -> 0..255]
  BY LenProperties
<1>2. /\ \A k \in 1..n : pairs[k] = <<bytes[k] \div 16, bytes[k] % 16>>
      /\ \A k \in 1..n : pairs[k] \in Seq(0..15) /\ Len(pairs[k]) = 2
      /\ pairs \in Seq(Seq(0..15)) /\ Len(pairs) = n
  <2>1. \A k \in 1..n : pairs[k] = <<bytes[k] \div 16, bytes[k] % 16>>
    BY <1>1
  <2>3. ASSUME NEW k \in 1..n PROVE pairs[k] \in Seq(0..15) /\ Len(pairs[k]) = 2
    <3> DEFINE high == bytes[k] \div 16
               low == bytes[k] % 16
    <3>1. bytes[k] \in 0..255
      BY <1>1
    <3>2. high \in 0..15 /\ low \in 0..15
      BY <3>1, HexDigits
    <3>3. pairs[k] = <<high, low>>
      BY <2>1
    <3> HIDE DEF high, low, pairs
    <3>4. QED
      BY <3>2, <3>3
  <2>4. pairs \in [1..n -> Seq(0..15)]
    BY <1>1, <2>1, <2>3
  <2> HIDE DEF pairs
  <2>5. QED
    BY <1>1, <2>1, <2>3, <2>4
<1>3. digits = FlattenSeq(pairs)
  BY DEF BytesToHex
<1> HIDE DEF pairs, digits
<1>4. /\ Len(digits) = 2 * n
      /\ \A k \in 1..n, i \in 1..2 : digits[2 * (k - 1) + i] = pairs[k][i]
  <2>2. /\ 2 \in Nat /\ Len(pairs) \in Nat
        /\ \A k \in 1..Len(pairs) : pairs[k] \in Seq(0..15) /\ Len(pairs[k]) = 2
    BY <1>1, <1>2
  <2>3. /\ Len(FlattenSeq(pairs)) = 2 * Len(pairs)
        /\ \A k \in 1..Len(pairs), i \in 1..2 : FlattenSeq(pairs)[2 * (k - 1) + i] = pairs[k][i]
    <3>1. PICK C, size, D : C = 0..15 /\ size = 2 /\ D = {s \in Seq(C) : Len(s) = size}
      OBVIOUS
    <3>2. size \in Nat /\ D = {s \in Seq(C) : Len(s) = size} /\ pairs \in Seq(D)
      <4>1. \A k \in 1..Len(pairs) : pairs[k] \in D
        BY <2>2, <3>1
      <4>2. pairs \in Seq(Seq(0..15))
        BY <1>2
      <4>3. QED
        BY <3>1, <4>1, <4>2, LenProperties
    <3>3. /\ FlattenSeq(pairs) \in Seq(C)
          /\ Len(FlattenSeq(pairs)) = size * Len(pairs)
          /\ AtMultiples(FlattenSeq(pairs), pairs, size)
      <4>1. size \in Nat
        BY <3>2
      <4>2. D = {s \in Seq(C) : Len(s) = size}
        BY <3>2
      <4>3. pairs \in Seq(D)
        BY <3>2
      <4>4. QED
        BY <4>1, <4>2, <4>3, FlattenBlocks
    <3>4. QED
      BY <3>1, <3>3 DEF AtMultiples
  <2>4. QED
    BY <1>2, <1>3, <2>3
<1>5. ASSUME NEW k \in 1..n
      PROVE  16 * HexCode(digits[2 * k - 1]) + HexCode(digits[2 * k]) = bytes[k]
  <2> DEFINE high == bytes[k] \div 16
             low == bytes[k] % 16
  <2>1. digits[2 * (k - 1) + 1] = high /\ digits[2 * (k - 1) + 2] = low
    <3>1. 1 \in 1..2 /\ 2 \in 1..2
      OBVIOUS
    <3>2. digits[2 * (k - 1) + 1] = pairs[k][1] /\ digits[2 * (k - 1) + 2] = pairs[k][2]
      BY <1>4, <3>1
    <3>3. pairs[k] = <<high, low>>
      BY <1>2
    <3>4. QED
      BY <3>2, <3>3
  <2>2. 2 * (k - 1) + 1 = 2 * k - 1 /\ 2 * (k - 1) + 2 = 2 * k
    BY <1>1
  <2>3. high \in 0..15 /\ low \in 0..15 /\ 16 * high + low = bytes[k]
    <3>1. bytes[k] \in 0..255
      BY <1>1
    <3>2. QED
      BY <3>1, HexDigits
  <2> HIDE DEF high, low
  <2>4. digits[2 * k - 1] = high /\ digits[2 * k] = low
    BY <2>1, <2>2
  <2>5. HexCode(high) = high /\ HexCode(low) = low
    BY <2>3 DEF HexCode
  <2>6. QED
    BY <2>3, <2>4, <2>5
<1>6. Len(digits) \div 2 = n
  <2>1. n \in Nat /\ Len(digits) = 2 * n
    BY <1>1, <1>4
  <2> HIDE DEF n
  <2>2. QED
    BY <2>1
<1>7. HexToBytes(digits) = [k \in 1..n |-> bytes[k]]
  BY <1>5, <1>6 DEF HexToBytes
<1>8. QED
  BY <1>1, <1>7 DEF digits

(* The four codes of a block, and what they stand for.                     *)
Encodes(codes, byte0, byte1, byte2, present) ==
  LET Code(i) == IF codes[i] = Padding THEN 0 ELSE codes[i]
  IN  /\ codes \in Seq(0..64) /\ Len(codes) = 4
      /\ \A i \in 1..4 : codes[i] = Padding <=> i > present + 1
      /\ \A i \in 1..4 : Code(i) \in 0..63
      /\ 64 * (64 * (64 * Code(1) + Code(2)) + Code(3)) + Code(4)
           = 256 * (256 * byte0 + byte1) + byte2

(* The four codes of a block have the bits of its bytes, and padding for   *)
(* the bytes that are not present.                                         *)
LEMMA CodesOfBlock ==
  ASSUME NEW byte0 \in 0..255, NEW byte1 \in 0..255, NEW byte2 \in 0..255,
         NEW present \in Nat \ {0},
         present = 1 => byte1 = 0 /\ byte2 = 0,
         present = 2 => byte2 = 0
  PROVE  Encodes(Base64Block(byte0, byte1, byte2, present), byte0, byte1, byte2, present)
<1> DEFINE codes == Base64Block(byte0, byte1, byte2, present)
           Code(i) == IF codes[i] = Padding THEN 0 ELSE codes[i]
           q0 == byte0 \div 4
           r0 == byte0 % 4
           q1 == byte1 \div 16
           r1 == byte1 % 16
           q2 == byte2 \div 64
           r2 == byte2 % 64
<1>1. /\ q0 \in 0..63 /\ r0 \in 0..3 /\ byte0 = 4 * q0 + r0
      /\ q1 \in 0..15 /\ r1 \in 0..15 /\ byte1 = 16 * q1 + r1
      /\ q2 \in 0..3 /\ r2 \in 0..63 /\ byte2 = 64 * q2 + r2
  OBVIOUS
<1>2. codes = <<q0, r0 * 16 + q1,
                IF present > 1 THEN r1 * 4 + q2 ELSE 64,
                IF present > 2 THEN r2 ELSE 64>>
  BY DEF Base64Block, Padding
<1> HIDE DEF q0, r0, q1, r1, q2, r2, codes
<1>3. /\ codes[1] = q0 /\ codes[2] = r0 * 16 + q1
      /\ codes[3] = IF present > 1 THEN r1 * 4 + q2 ELSE 64
      /\ codes[4] = IF present > 2 THEN r2 ELSE 64
  BY <1>2
<1>4. /\ q0 \in 0..63 /\ r0 * 16 + q1 \in 0..63 /\ r1 * 4 + q2 \in 0..63 /\ r2 \in 0..63
  BY <1>1
<1>5. codes \in Seq(0..64) /\ Len(codes) = 4
  <2> DEFINE c1 == q0
             c2 == r0 * 16 + q1
             c3 == IF present > 1 THEN r1 * 4 + q2 ELSE 64
             c4 == IF present > 2 THEN r2 ELSE 64
  <2>1. c1 \in 0..64 /\ c2 \in 0..64 /\ c3 \in 0..64 /\ c4 \in 0..64
    BY <1>4
  <2>2. codes = <<c1, c2, c3, c4>>
    BY <1>2
  <2> HIDE DEF c1, c2, c3, c4
  <2>3. QED
    BY <2>1, <2>2
<1>6. \A i \in 1..4 : codes[i] = Padding <=> i > present + 1
  <2>1. \A i \in 1..4 : i = 1 \/ i = 2 \/ i = 3 \/ i = 4
    OBVIOUS
  <2>2. codes[1] # 64 /\ codes[2] # 64
    BY <1>3, <1>4
  <2>3. codes[3] = 64 <=> 3 > present + 1
    BY <1>3, <1>4
  <2>4. codes[4] = 64 <=> 4 > present + 1
    BY <1>3, <1>4
  <2>5. ~(1 > present + 1) /\ ~(2 > present + 1)
    OBVIOUS
  <2>6. QED
    BY <2>1, <2>2, <2>3, <2>4, <2>5 DEF Padding
<1>7. /\ Code(1) = q0 /\ Code(2) = r0 * 16 + q1
      /\ Code(3) = r1 * 4 + q2 /\ Code(4) = r2
  <2>1. Code(1) = q0 /\ Code(2) = r0 * 16 + q1
    BY <1>3, <1>4 DEF Padding
  <2>2. Code(3) = r1 * 4 + q2
    BY <1>1, <1>3, <1>4 DEF Padding
  <2>3. Code(4) = r2
    BY <1>1, <1>3, <1>4 DEF Padding
  <2>4. QED
    BY <2>1, <2>2, <2>3
<1> HIDE DEF Code
<1>8. \A i \in 1..4 : Code(i) \in 0..63
  <2>1. \A i \in 1..4 : i = 1 \/ i = 2 \/ i = 3 \/ i = 4
    OBVIOUS
  <2>2. QED
    BY <1>4, <1>7, <2>1
<1>9. 64 * (64 * (64 * Code(1) + Code(2)) + Code(3)) + Code(4)
        = 256 * (256 * byte0 + byte1) + byte2
  BY <1>1, <1>7
<1>10. QED
  BY <1>5, <1>6, <1>8, <1>9 DEF Encodes, codes, Code

(* A function on the first positions is a sequence.                        *)
LEMMA IsSequence ==
  ASSUME NEW n \in Nat, NEW V, NEW d \in [1..n -> V]
  PROVE  d \in Seq(V) /\ Len(d) = n
OBVIOUS

(* The number that up to four digits stand for.                            *)
LEMMA ValueOfFew ==
  ASSUME NEW base \in Int, NEW n \in 1..4, NEW d \in [1..n -> Int]
  PROVE  /\ d \in Seq(Int) /\ Len(d) = n
         /\ n = 1 => Value(d, base) = d[1]
         /\ n = 2 => Value(d, base) = base * d[1] + d[2]
         /\ n = 3 => Value(d, base) = base * (base * d[1] + d[2]) + d[3]
         /\ n = 4 => Value(d, base) = base * (base * (base * d[1] + d[2]) + d[3]) + d[4]
<1>1. d \in Seq(Int) /\ Len(d) = n
  <2>1. n \in Nat
    OBVIOUS
  <2>2. QED
    BY <2>1, IsSequence
<1>2. PICK g : /\ g[0] = 0
               /\ \A k \in 1..Len(d) : g[k] = base * g[k - 1] + d[k]
               /\ \A k \in 0..Len(d) : g[k] \in Int
               /\ Value(d, base) = g[Len(d)]
  BY <1>1, ValueUnfolds
<1>3. \A k \in 1..n : g[k] = base * g[k - 1] + d[k]
  BY <1>1, <1>2
<1>4. g[1] = d[1]
  <2>1. 1 \in 1..n /\ 1 - 1 = 0 /\ d[1] \in Int /\ base * 0 = 0
    OBVIOUS
  <2>2. QED
    BY <1>2, <1>3, <2>1
<1>5. n >= 2 => g[2] = base * g[1] + d[2]
  <2>1. n >= 2 => 2 \in 1..n /\ 2 - 1 = 1
    OBVIOUS
  <2>2. QED
    BY <1>3, <2>1
<1>6. n >= 3 => g[3] = base * g[2] + d[3]
  <2>1. n >= 3 => 3 \in 1..n /\ 3 - 1 = 2
    OBVIOUS
  <2>2. QED
    BY <1>3, <2>1
<1>7. n >= 4 => g[4] = base * g[3] + d[4]
  <2>1. n >= 4 => 4 \in 1..n /\ 4 - 1 = 3
    OBVIOUS
  <2>2. QED
    BY <1>3, <2>1
<1>8. Value(d, base) = g[n]
  BY <1>1, <1>2
<1>9. QED
  BY <1>1, <1>4, <1>5, <1>6, <1>7, <1>8

(* How many blocks of three so many bytes are, and what the last one has.  *)
LEMMA BlocksOfThree ==
  ASSUME NEW n \in Nat
  PROVE  LET m == (n + 2) \div 3
         IN  /\ m \in Nat
             /\ n - 3 * (m - 1) \in 1..3
             /\ \A b \in 1..m : b = m \/ n - 3 * (b - 1) >= 4
             /\ (2 * n) % 3 = 3 - (n - 3 * (m - 1))
<1> DEFINE m == (n + 2) \div 3
           r == (n + 2) % 3
<1>1. m \in Nat /\ r \in 0..2 /\ n + 2 = 3 * m + r
  OBVIOUS
<1> HIDE DEF m, r
<1>2. n - 3 * (m - 1) = r + 1
  BY <1>1
<1>3. (2 * n) % 3 = 2 - r
  <2>1. 2 * n = 3 * (2 * m - 2 + r) + (2 - r)
    BY <1>1
  <2>2. QED
    BY <1>1, <2>1
<1>4. ASSUME NEW b \in 1..m, b # m PROVE n - 3 * (b - 1) >= 4
  BY <1>1, <1>2, <1>4
<1>5. QED
  BY <1>1, <1>2, <1>3, <1>4 DEF m

(* The codes of some bytes are those of their blocks.                      *)
LEMMA CodesOfBlocks ==
  ASSUME NEW bytes \in Seq(0..255)
  PROVE  LET n == Len(bytes)
             m == (n + 2) \div 3
             codes == Base64Encode(bytes)
             Byte(k) == IF k \in DOMAIN bytes THEN bytes[k] ELSE 0
         IN  /\ codes \in Seq(0..64) /\ Len(codes) = 4 * m
             /\ \A b \in 1..m :
                  LET present == n - 3 * (b - 1)
                      block == Base64Block(Byte(3 * (b - 1) + 1), Byte(3 * (b - 1) + 2),
                                           Byte(3 * (b - 1) + 3), present)
                  IN  /\ Encodes(block, Byte(3 * (b - 1) + 1), Byte(3 * (b - 1) + 2),
                                 Byte(3 * (b - 1) + 3), present)
                      /\ \A i \in 1..4 : codes[4 * (b - 1) + i] = block[i]
<1> DEFINE n == Len(bytes)
           m == (n + 2) \div 3
           codes == Base64Encode(bytes)
           Byte(k) == IF k \in DOMAIN bytes THEN bytes[k] ELSE 0
           present(b) == n - 3 * (b - 1)
           block(b) == Base64Block(Byte(3 * (b - 1) + 1), Byte(3 * (b - 1) + 2),
                                   Byte(3 * (b - 1) + 3), present(b))
           blocks == [b \in 1..m |-> block(b)]
<1>1. n \in Nat /\ DOMAIN bytes = 1..n /\ \A k \in 1..n : bytes[k] \in 0..255
  BY LenProperties, ElementOfSeq
<1>2. m \in Nat /\ \A b \in 1..m : present(b) \in Nat \ {0}
  <2>1. /\ m \in Nat /\ n - 3 * (m - 1) \in 1..3
        /\ \A b \in 1..m : b = m \/ n - 3 * (b - 1) >= 4
    BY <1>1, BlocksOfThree
  <2> HIDE DEF m, n
  <2>2. QED
    BY <1>1, <2>1
<1> HIDE DEF m
<1>3. codes = FlattenSeq(blocks)
  <2> DEFINE Here(k) == IF k <= n THEN bytes[k] ELSE 0
  <2>1. ASSUME NEW b \in 1..m
        PROVE  Base64Block(Here(3 * b - 2), Here(3 * b - 1), Here(3 * b), n - 3 * (b - 1))
                 = block(b)
    <3>1. /\ 3 * (b - 1) + 1 = 3 * b - 2 /\ 3 * (b - 1) + 2 = 3 * b - 1
          /\ 3 * (b - 1) + 3 = 3 * b
          /\ 3 * b - 2 \in Nat \ {0} /\ 3 * b - 1 \in Nat \ {0} /\ 3 * b \in Nat \ {0}
      BY <1>2
    <3>2. \A k \in Nat \ {0} : Here(k) = Byte(k)
      BY <1>1
    <3> HIDE DEF Here, Byte
    <3>3. QED
      BY <3>1, <3>2
  <2> HIDE DEF Here, Byte
  <2>2. [b \in 1..m |-> Base64Block(Here(3 * b - 2), Here(3 * b - 1), Here(3 * b),
                                    n - 3 * (b - 1))] = blocks
    <3> HIDE DEF block
    <3>1. QED
      BY <2>1
  <2>3. QED
    BY <2>2 DEF Base64Encode, Here, m, n
<1>4. ASSUME NEW b \in 1..m
      PROVE  /\ \A i \in 1..3 : Byte(3 * (b - 1) + i) \in 0..255
             /\ \A i \in 1..3 : i > present(b) => Byte(3 * (b - 1) + i) = 0
  <2>1. \A k : Byte(k) \in 0..255
    <3>1. 0 \in 0..255
      OBVIOUS
    <3>2. QED
      BY <1>1, <3>1, Zenon
  <2>2. \A i \in 1..3 : i > present(b) => ~(3 * (b - 1) + i \in 1..n)
    <3> HIDE DEF n
    <3>1. QED
      BY <1>1, <1>2
  <2>3. QED
    BY <1>1, <2>1, <2>2
<1> HIDE DEF Byte, present
<1>5. ASSUME NEW b \in 1..m
      PROVE  Encodes(block(b), Byte(3 * (b - 1) + 1), Byte(3 * (b - 1) + 2),
                     Byte(3 * (b - 1) + 3), present(b))
  <2> DEFINE byte0 == Byte(3 * (b - 1) + 1)
             byte1 == Byte(3 * (b - 1) + 2)
             byte2 == Byte(3 * (b - 1) + 3)
             p == present(b)
  <2>1. /\ byte0 \in 0..255 /\ byte1 \in 0..255 /\ byte2 \in 0..255
        /\ p \in Nat \ {0}
        /\ 2 > p => byte1 = 0
        /\ 3 > p => byte2 = 0
    <3>1. 1 \in 1..3 /\ 2 \in 1..3 /\ 3 \in 1..3
      OBVIOUS
    <3>2. QED
      BY <1>2, <1>4, <3>1
  <2>2. (p = 1 => byte1 = 0 /\ byte2 = 0) /\ (p = 2 => byte2 = 0)
    <3> HIDE DEF byte0, byte1, byte2, p
    <3>1. QED
      BY <2>1
  <2> HIDE DEF byte0, byte1, byte2, p
  <2>3. Encodes(Base64Block(byte0, byte1, byte2, p), byte0, byte1, byte2, p)
    <3>1. byte0 \in 0..255
      BY <2>1
    <3>2. byte1 \in 0..255
      BY <2>1
    <3>3. byte2 \in 0..255
      BY <2>1
    <3>4. p \in Nat \ {0}
      BY <2>1
    <3>5. p = 1 => byte1 = 0 /\ byte2 = 0
      BY <2>2
    <3>6. p = 2 => byte2 = 0
      BY <2>2
    <3>7. QED
      BY <3>1, <3>2, <3>3, <3>4, <3>5, <3>6, CodesOfBlock
  <2>4. QED
    BY <2>3 DEF byte0, byte1, byte2, p
<1>6. \A b \in 1..m : block(b) \in Seq(0..64) /\ Len(block(b)) = 4
  <2> HIDE DEF block
  <2>1. QED
    BY <1>5 DEF Encodes
<1> HIDE DEF block
<1>7. /\ codes \in Seq(0..64) /\ Len(codes) = 4 * m
      /\ \A b \in 1..m, i \in 1..4 : codes[4 * (b - 1) + i] = block(b)[i]
  <2>1. PICK C, size, D : C = 0..64 /\ size = 4 /\ D = {s \in Seq(C) : Len(s) = size}
    OBVIOUS
  <2>2. \A b \in 1..m : block(b) \in D
    BY <1>6, <2>1
  <2>3. blocks \in Seq(D) /\ Len(blocks) = m /\ \A b \in 1..m : blocks[b] = block(b)
    <3>1. blocks \in [1..m -> D]
      BY <2>2
    <3>2. QED
      BY <1>2, <3>1
  <2> HIDE DEF blocks
  <2>4. /\ FlattenSeq(blocks) \in Seq(C)
        /\ Len(FlattenSeq(blocks)) = size * Len(blocks)
        /\ AtMultiples(FlattenSeq(blocks), blocks, size)
    <3>1. size \in Nat
      BY <2>1
    <3>2. D = {s \in Seq(C) : Len(s) = size}
      BY <2>1
    <3>3. blocks \in Seq(D)
      BY <2>3
    <3>4. QED
      BY <3>1, <3>2, <3>3, FlattenBlocks
  <2>5. /\ codes \in Seq(0..64) /\ Len(codes) = 4 * m
        /\ \A b \in 1..m, i \in 1..4 : codes[4 * (b - 1) + i] = blocks[b][i]
    BY <1>3, <2>1, <2>3, <2>4 DEF AtMultiples
  <2>6. QED
    BY <2>3, <2>5
<1> HIDE DEF n, codes
<1>8. QED
  BY <1>5, <1>7 DEF n, m, codes, Byte, present, block

(* The codes of any bytes can be read back, block by block, and are padded *)
(* behind the last.                                                        *)
LEMMA Base64IsKept ==
  ASSUME NEW bytes \in Seq(0..255)
  PROVE  LET codes == Base64Encode(bytes)
             Code(k) == IF codes[k] = Padding THEN 0 ELSE codes[k]
             Byte(k) == IF k \in DOMAIN bytes THEN bytes[k] ELSE 0
         IN  /\ Len(codes) % 4 = 0
             /\ \A k \in DOMAIN codes :
                  codes[k] = Padding <=> k > Len(codes) - ((2 * Len(bytes)) % 3)
             /\ \A b \in 1..(Len(codes) \div 4) :
                  Value([k \in 1..4 |-> Code(4 * (b - 1) + k)], 64)
                    = Value([k \in 1..3 |-> Byte(3 * (b - 1) + k)], 256)
<1> DEFINE n == Len(bytes)
           m == (n + 2) \div 3
           codes == Base64Encode(bytes)
           Code(k) == IF codes[k] = Padding THEN 0 ELSE codes[k]
           Byte(k) == IF k \in DOMAIN bytes THEN bytes[k] ELSE 0
           present(b) == n - 3 * (b - 1)
           block(b) == Base64Block(Byte(3 * (b - 1) + 1), Byte(3 * (b - 1) + 2),
                                   Byte(3 * (b - 1) + 3), present(b))
<1>1. /\ codes \in Seq(0..64) /\ Len(codes) = 4 * m
      /\ \A b \in 1..m : /\ Encodes(block(b), Byte(3 * (b - 1) + 1), Byte(3 * (b - 1) + 2),
                                    Byte(3 * (b - 1) + 3), present(b))
                         /\ \A i \in 1..4 : codes[4 * (b - 1) + i] = block(b)[i]
  BY CodesOfBlocks
<1>2. n \in Nat /\ DOMAIN bytes = 1..n /\ \A k \in 1..n : bytes[k] \in 0..255
  BY LenProperties, ElementOfSeq
<1>3. /\ m \in Nat /\ present(m) \in 1..3
      /\ \A b \in 1..m : b = m \/ present(b) >= 4
      /\ (2 * n) % 3 = 3 - present(m)
  <2> HIDE DEF n
  <2>1. QED
    BY <1>2, BlocksOfThree
<1>4. \A k : Byte(k) \in Int
  <2>1. \A k : Byte(k) \in 0..255
    <3>1. 0 \in 0..255
      OBVIOUS
    <3>2. QED
      BY <1>2, <3>1, Zenon
  <2> HIDE DEF Byte
  <2>2. 0..255 \subseteq Int
    OBVIOUS
  <2>3. QED
    BY <2>1, <2>2, Zenon
<1>5. Len(codes) % 4 = 0 /\ Len(codes) \div 4 = m
  <2> HIDE DEF m
  <2>1. QED
    BY <1>1, <1>3
<1>6. DOMAIN codes = 1..(4 * m)
  <2>1. DOMAIN codes = 1..Len(codes)
    BY <1>1, LenProperties
  <2>2. QED
    BY <1>1, <2>1
<1> HIDE DEF m, codes, block, Byte, n, present
<1>7. ASSUME NEW k \in 1..(4 * m)
      PROVE  codes[k] = Padding <=> k > Len(codes) - ((2 * Len(bytes)) % 3)
  <2>1. PICK b \in 1..m, i \in 1..4 : k = 4 * (b - 1) + i
    <3> DEFINE b == ((k - 1) \div 4) + 1
               i == ((k - 1) % 4) + 1
    <3>1. b \in 1..m /\ i \in 1..4 /\ k = 4 * (b - 1) + i
      BY <1>3
    <3> HIDE DEF b, i
    <3>2. QED
      BY <3>1
  <2>2. codes[k] = Padding <=> i > present(b) + 1
    <3>1. codes[k] = block(b)[i]
      BY <1>1, <2>1
    <3>2. Encodes(block(b), Byte(3 * (b - 1) + 1), Byte(3 * (b - 1) + 2),
                  Byte(3 * (b - 1) + 3), present(b))
      BY <1>1
    <3>3. \A j \in 1..4 : block(b)[j] = Padding <=> j > present(b) + 1
      BY <3>2, Zenon DEF Encodes
    <3>4. QED
      BY <3>1, <3>3
  <2>3. present(b) \in Int
    BY <1>2 DEF present
  <2>4. Len(codes) - ((2 * Len(bytes)) % 3) = 4 * m - (3 - present(m))
    BY <1>1, <1>3 DEF n
  <2>5. i > present(b) + 1 <=> k > 4 * m - (3 - present(m))
    <3>1. CASE b = m
      BY <1>3, <2>1, <3>1
    <3>2. CASE b # m
      <4>1. present(b) >= 4
        BY <1>3, <3>2
      <4>2. b <= m - 1
        BY <1>3, <3>2
      <4>3. QED
        BY <1>3, <2>1, <2>3, <4>1, <4>2
    <3>3. QED
      BY <3>1, <3>2
  <2>6. QED
    BY <2>2, <2>4, <2>5
<1>8. ASSUME NEW b \in 1..m
      PROVE  Value([k \in 1..4 |-> Code(4 * (b - 1) + k)], 64)
               = Value([k \in 1..3 |-> Byte(3 * (b - 1) + k)], 256)
  <2> DEFINE c == [k \in 1..4 |-> Code(4 * (b - 1) + k)]
             d == [k \in 1..3 |-> Byte(3 * (b - 1) + k)]
             CodeAt(i) == IF block(b)[i] = Padding THEN 0 ELSE block(b)[i]
  <2>1. /\ \A i \in 1..4 : CodeAt(i) \in 0..63
        /\ 64 * (64 * (64 * CodeAt(1) + CodeAt(2)) + CodeAt(3)) + CodeAt(4)
             = 256 * (256 * Byte(3 * (b - 1) + 1) + Byte(3 * (b - 1) + 2))
                 + Byte(3 * (b - 1) + 3)
    BY <1>1 DEF Encodes
  <2>2. \A i \in 1..4 : c[i] = CodeAt(i)
    BY <1>1
  <2>3. \A i \in 1..3 : d[i] = Byte(3 * (b - 1) + i)
    OBVIOUS
  <2>4. c \in [1..4 -> Int]
    <3> HIDE DEF CodeAt
    <3>1. \A i \in 1..4 : CodeAt(i) \in Int
      <4>1. 0..63 \subseteq Int
        OBVIOUS
      <4>2. QED
        BY <2>1, <4>1, Zenon
    <3>2. c = [i \in 1..4 |-> c[i]]
      OBVIOUS
    <3> HIDE DEF c
    <3>3. \A i \in 1..4 : c[i] \in Int
      BY <2>2, <3>1, Zenon
    <3>4. QED
      BY <3>2, <3>3
  <2>5. d \in [1..3 -> Int]
    BY <1>4
  <2> HIDE DEF c, d, CodeAt
  <2>6. Value(c, 64) = 64 * (64 * (64 * c[1] + c[2]) + c[3]) + c[4]
    <3>1. PICK size \in 1..4 : size = 4
      OBVIOUS
    <3>2. c \in [1..size -> Int]
      BY <2>4, <3>1
    <3>3. QED
      BY <3>1, <3>2, ValueOfFew
  <2>7. Value(d, 256) = 256 * (256 * d[1] + d[2]) + d[3]
    <3>1. PICK size \in 1..4 : size = 3
      OBVIOUS
    <3>2. d \in [1..size -> Int]
      BY <2>5, <3>1
    <3>3. QED
      BY <3>1, <3>2, ValueOfFew
  <2>8. /\ c[1] = CodeAt(1) /\ c[2] = CodeAt(2) /\ c[3] = CodeAt(3) /\ c[4] = CodeAt(4)
        /\ d[1] = Byte(3 * (b - 1) + 1) /\ d[2] = Byte(3 * (b - 1) + 2)
        /\ d[3] = Byte(3 * (b - 1) + 3)
    BY <2>2, <2>3
  <2>9. Value(c, 64) = Value(d, 256)
    BY <2>1, <2>6, <2>7, <2>8
  <2>10. QED
    BY <2>9 DEF c, d
<1>9. QED
  BY <1>5, <1>6, <1>7, <1>8 DEF codes, Byte

(* A pair.                                                                 *)
LEMMA AppendToOne ==
  ASSUME NEW a, NEW b
  PROVE  Append(<<a>>, b) = <<a, b>>
<1> DEFINE s == Append(<<a>>, b)
           t == <<a, b>>
<1>1. PICK S : a \in S /\ b \in S
  <2>1. a \in {a, b} /\ b \in {a, b}
    OBVIOUS
  <2>2. QED
    BY <2>1
<1>2. <<a>> \in Seq(S) /\ Len(<<a>>) = 1 /\ <<a>>[1] = a
  BY <1>1
<1>3. s \in Seq(S) /\ Len(s) = 2 /\ s[1] = a /\ s[2] = b
  BY <1>1, <1>2, AppendProperties
<1>4. t \in Seq(S) /\ Len(t) = 2 /\ t[1] = a /\ t[2] = b
  BY <1>1
<1> HIDE DEF s, t
<1>5. \A k \in 1..2 : k = 1 \/ k = 2
  OBVIOUS
<1>6. s = t
  BY <1>3, <1>4, <1>5, SeqEqual
<1>7. QED
  BY <1>6 DEF s, t

(* The hexadecimal digits of a number of eight bits.                       *)
LEMMA ByteToHex ==
  ASSUME NEW value \in Int
  PROVE  LET n == value % 256
         IN  IntToHex(value, 8) = IF n < 16 THEN <<n>> ELSE <<n \div 16, n % 16>>
<1> DEFINE P(f) == f = [n \in 0..(2^8 - 1) |->
                          IF n < 16 THEN <<n>> ELSE Append(f[n \div 16], n % 16)]
           result == CHOOSE f : P(f)
           h == [n \in 0..255 |-> IF n < 16 THEN <<n>> ELSE <<n \div 16, n % 16>>]
<1>1. 2^8 = 256
  <2>1. 2^0 = 1
    OBVIOUS
  <2>2. /\ 2^1 = 2 * 2^0 /\ 2^2 = 2 * 2^1 /\ 2^3 = 2 * 2^2 /\ 2^4 = 2 * 2^3
        /\ 2^5 = 2 * 2^4 /\ 2^6 = 2 * 2^5 /\ 2^7 = 2 * 2^6 /\ 2^8 = 2 * 2^7
    <3>1. /\ 2^1 = 2 * 2^(1 - 1) /\ 2^2 = 2 * 2^(2 - 1) /\ 2^3 = 2 * 2^(3 - 1)
          /\ 2^4 = 2 * 2^(4 - 1) /\ 2^5 = 2 * 2^(5 - 1) /\ 2^6 = 2 * 2^(6 - 1)
          /\ 2^7 = 2 * 2^(7 - 1) /\ 2^8 = 2 * 2^(8 - 1)
      BY PowerDoubles
    <3>2. /\ 1 - 1 = 0 /\ 2 - 1 = 1 /\ 3 - 1 = 2 /\ 4 - 1 = 3
          /\ 5 - 1 = 4 /\ 6 - 1 = 5 /\ 7 - 1 = 6 /\ 8 - 1 = 7
      OBVIOUS
    <3>3. QED
      BY <3>1, <3>2
  <2>3. QED
    BY <2>1, <2>2
<1>2. P(h)
  <2>1. ASSUME NEW n \in 0..255, ~(n < 16)
        PROVE  h[n] = Append(h[n \div 16], n % 16)
    <3> DEFINE high == n \div 16
               low == n % 16
    <3>1. high \in 0..255 /\ high < 16
      OBVIOUS
    <3>2. h[n] = <<high, low>>
      BY <2>1
    <3> HIDE DEF high, low
    <3>3. h[high] = <<high>>
      BY <3>1
    <3>4. QED
      BY <3>2, <3>3, AppendToOne DEF high, low
  <2>2. \A n \in 0..255 : n < 16 => h[n] = <<n>>
    OBVIOUS
  <2>3. h = [n \in 0..255 |-> h[n]]
    OBVIOUS
  <2> HIDE DEF h
  <2>4. h = [n \in 0..255 |-> IF n < 16 THEN <<n>> ELSE Append(h[n \div 16], n % 16)]
    BY <2>1, <2>2, <2>3
  <2>5. 2^8 - 1 = 255
    BY <1>1
  <2>6. QED
    BY <2>4, <2>5
<1>3. P(result)
  <2> HIDE DEF P
  <2>1. QED
    BY <1>2
<1>4. IntToHex(value, 8) = result[value % 256]
  BY <1>1 DEF IntToHex
<1>5. ASSUME NEW n \in 0..255
      PROVE  result[n] = IF n < 16 THEN <<n>> ELSE <<n \div 16, n % 16>>
  <2> HIDE DEF result
  <2>1. 2^8 - 1 = 255
    BY <1>1
  <2>2. \A k \in 0..255 :
          result[k] = IF k < 16 THEN <<k>> ELSE Append(result[k \div 16], k % 16)
    <3>1. result = [k \in 0..(2^8 - 1) |->
                      IF k < 16 THEN <<k>> ELSE Append(result[k \div 16], k % 16)]
      BY <1>3
    <3>2. result = [k \in 0..255 |->
                      IF k < 16 THEN <<k>> ELSE Append(result[k \div 16], k % 16)]
      BY <2>1, <3>1
    <3>3. QED
      BY <3>2, Zenon
  <2>3. CASE n < 16
    BY <2>2, <2>3
  <2>4. CASE ~(n < 16)
    <3> DEFINE high == n \div 16
               low == n % 16
    <3>1. high \in 0..255 /\ high < 16
      OBVIOUS
    <3>2. result[n] = Append(result[high], low)
      BY <2>2, <2>4
    <3> HIDE DEF high, low
    <3>3. result[high] = <<high>>
      BY <2>2, <3>1
    <3>4. result[n] = <<high, low>>
      BY <3>2, <3>3, AppendToOne
    <3>5. QED
      BY <2>4, <3>4 DEF high, low
  <2>5. QED
    BY <2>3, <2>4
<1>6. value % 256 \in 0..255
  OBVIOUS
<1> HIDE DEF result
<1>7. QED
  BY <1>4, <1>5, <1>6

(* They stand for the number, and do not begin with 0.                     *)
LEMMA NumberIsKept ==
  ASSUME NEW number \in Int
  PROVE  LET digits == IntToHex(number, 8)
         IN  /\ Value(digits, 16) = number % 256
             /\ digits[1] = 0 => digits = <<0>>
<1> DEFINE n == number % 256
           high == n \div 16
           low == n % 16
           digits == IntToHex(number, 8)
<1>1. digits = IF n < 16 THEN <<n>> ELSE <<high, low>>
  BY ByteToHex
<1>2. n \in 0..255
  OBVIOUS
<1>3. /\ high \in Int /\ low \in Int /\ n = 16 * high + low
      /\ ~(n < 16) => high # 0
  <2> HIDE DEF n
  <2>1. QED
    BY <1>2
<1> HIDE DEF n, high, low, digits
<1>4. CASE n < 16
  <2>1. digits = <<n>>
    BY <1>1, <1>4
  <2>2. digits \in [1..1 -> Int] /\ digits[1] = n
    BY <1>2, <2>1
  <2>3. Value(digits, 16) = digits[1]
    <3>1. PICK base \in Int, size \in 1..4 : base = 16 /\ size = 1
      OBVIOUS
    <3>2. digits \in [1..size -> Int]
      BY <2>2, <3>1
    <3>3. QED
      BY <3>1, <3>2, ValueOfFew
  <2>4. Value(digits, 16) = n
    BY <1>3, <2>2, <2>3
  <2>5. QED
    BY <2>1, <2>2, <2>4 DEF n, digits
<1>5. CASE ~(n < 16)
  <2>1. digits = <<high, low>>
    BY <1>1, <1>5
  <2>2. digits \in [1..2 -> Int] /\ digits[1] = high /\ digits[2] = low
    BY <1>3, <2>1
  <2>3. Value(digits, 16) = 16 * digits[1] + digits[2]
    <3>1. PICK base \in Int, size \in 1..4 : base = 16 /\ size = 2
      OBVIOUS
    <3>2. digits \in [1..size -> Int]
      BY <2>2, <3>1
    <3>3. QED
      BY <3>1, <3>2, ValueOfFew
  <2>4. Value(digits, 16) = n
    BY <1>3, <2>2, <2>3
  <2>5. QED
    BY <1>3, <1>5, <2>2, <2>4 DEF n, digits
<1>6. QED
  BY <1>4, <1>5

(* All of it, for as many bytes as there are.                              *)
THEOREM AllBytesAreKept ==
  ASSUME NEW bytes \in Seq(0..255)
  PROVE  KeepsBytes(bytes)
<1> DEFINE start == Substr(bytes, 0, 2)
           number == Value(start, 256)
<1>1. start \in Seq(Int)
  <2> DEFINE end == Min({0 + 2, Len(bytes)})
  <2>1. Len(bytes) \in Nat /\ \A k \in 1..Len(bytes) : bytes[k] \in 0..255
    BY LenProperties, ElementOfSeq
  <2>2. end \in Nat /\ end <= Len(bytes)
    <3> DEFINE S == {0 + 2, Len(bytes)}
    <3>1. S \in SUBSET Nat /\ S # {}
      BY <2>1
    <3>2. Min(S) \in S /\ \A x \in S : Min(S) <= x
      <4> HIDE DEF S
      <4>1. QED
        BY <3>1, MinIs
    <3>3. QED
      BY <3>1, <3>2
  <2>3. start = SubSeq(bytes, 1, end)
    BY DEF Substr
  <2> HIDE DEF end
  <2>4. SubSeq(bytes, 1, end) \in Seq(Int)
    <3>1. bytes \in Seq(Int)
      <4>1. \A k \in 1..Len(bytes) : bytes[k] \in Int
        <5>1. 0..255 \subseteq Int
          OBVIOUS
        <5>2. QED
          BY <2>1, <5>1, Zenon
      <4>2. bytes \in [1..Len(bytes) -> Int]
        BY <4>1, LenProperties
      <4>3. QED
        BY <2>1, <4>2
    <3>2. QED
      BY <2>1, <2>2, <3>1, SubSeqProperties
  <2>5. QED
    BY <2>3, <2>4
<1> HIDE DEF start
<1>2. number \in Int
  <2>1. PICK g : /\ \A k \in 0..Len(start) : g[k] \in Int
                 /\ Value(start, 256) = g[Len(start)]
    BY <1>1, ValueUnfolds
  <2>2. Len(start) \in Nat
    BY <1>1, LenProperties
  <2>3. QED
    BY <2>1, <2>2
<1> HIDE DEF number
<1>3. /\ Value(IntToHex(number, 8), 16) = number % 256
      /\ IntToHex(number, 8)[1] = 0 => IntToHex(number, 8) = <<0>>
  BY <1>2, NumberIsKept
<1>4. QED
  BY <1>3, HexIsKept, Base64IsKept DEF KeepsBytes, number, start

-----------------------------------------------------------------------------
(* What the least and the greatest number of a set are.                    *)
LEMMA MinEquals ==
  ASSUME NEW S \in SUBSET Int, NEW x \in S, \A y \in S : x <= y
  PROVE  Min(S) = x
<1>1. Min(S) \in S /\ \A y \in S : Min(S) <= y
  BY DEF Min
<1>2. Min(S) \in Int /\ x \in Int /\ Min(S) <= x /\ x <= Min(S)
  BY <1>1
<1>3. QED
  BY <1>2

(* The element of a set no other is above.                                 *)
LEMMA MaxEquals ==
  ASSUME NEW S \in SUBSET Int, NEW x \in S, \A y \in S : y <= x
  PROVE  Max(S) = x
<1>0. \E z \in S : \A y \in S : z >= y
  OBVIOUS
<1>1. Max(S) \in S /\ \A y \in S : Max(S) >= y
  BY <1>0 DEF Max
<1>2. Max(S) \in Int /\ x \in Int /\ Max(S) <= x /\ x <= Max(S)
  BY <1>1
<1>3. QED
  BY <1>2

(* A slice of a sequence.                                                  *)
LEMMA Slice ==
  ASSUME NEW C, NEW t \in Seq(C), NEW a \in 1..(Len(t) + 1), NEW b \in (a - 1)..Len(t)
  PROVE  /\ Len(t) \in Nat /\ a \in Int /\ b \in Int
         /\ SubSeq(t, a, b) \in Seq(C)
         /\ Len(SubSeq(t, a, b)) = b - a + 1
         /\ \A i \in 1..(b - a + 1) : SubSeq(t, a, b)[i] = t[a + i - 1]
<1>1. Len(t) \in Nat
  BY LenProperties
<1>2. a \in Int /\ b \in Int /\ a >= 1 /\ b <= Len(t) /\ b >= a - 1
  BY <1>1
<1>3. \A i \in a..b : t[i] \in C
  <2>1. \A i \in a..b : i \in 1..Len(t)
    BY <1>1, <1>2
  <2>2. QED
    BY <2>1, ElementOfSeq
<1>4. /\ SubSeq(t, a, b) \in Seq(C)
      /\ Len(SubSeq(t, a, b)) = IF a <= b THEN b - a + 1 ELSE 0
      /\ \A i \in 1..(b - a + 1) : SubSeq(t, a, b)[i] = t[a + i - 1]
  BY <1>2, <1>3, SubSeqProperties
<1>5. (IF a <= b THEN b - a + 1 ELSE 0) = b - a + 1
  BY <1>2
<1>6. QED
  BY <1>1, <1>2, <1>4, <1>5

(* substr takes what is asked for, as far as the text goes.                *)
LEMMA SubstrIs ==
  ASSUME NEW C, NEW t \in Seq(C), NEW pos \in 0..Len(t)
  PROVE  /\ \A count \in Int : count < 0 => Substr(t, pos, count) = SubSeq(t, pos + 1, Len(t))
         /\ \A count \in Nat : pos + count <= Len(t) =>
                                 Substr(t, pos, count) = SubSeq(t, pos + 1, pos + count)
         /\ \A count \in Nat : pos + count >= Len(t) =>
                                 Substr(t, pos, count) = SubSeq(t, pos + 1, Len(t))
<1>1. Len(t) \in Nat /\ pos \in Nat
  BY LenProperties
<1>2. ASSUME NEW count \in Nat
      PROVE  /\ pos + count <= Len(t) => Min({pos + count, Len(t)}) = pos + count
             /\ pos + count >= Len(t) => Min({pos + count, Len(t)}) = Len(t)
  <2> DEFINE x == pos + count
             y == Len(t)
  <2>1. x \in Int /\ y \in Int
    BY <1>1
  <2> HIDE DEF x, y
  <2>1a. PICK S : S = {x, y}
    OBVIOUS
  <2>1b. S \in SUBSET Int /\ x \in S /\ y \in S
    BY <2>1, <2>1a
  <2>2. x <= y => Min(S) = x
    <3>1. x <= y => \A z \in S : x <= z
      BY <2>1, <2>1a
    <3>2. QED
      BY <2>1b, <3>1, MinEquals
  <2>3. x >= y => Min(S) = y
    <3>1. x >= y => \A z \in S : y <= z
      BY <2>1, <2>1a
    <3>2. QED
      BY <2>1b, <3>1, MinEquals
  <2>4. QED
    BY <2>1a, <2>2, <2>3 DEF x, y
<1>3. \A count \in Nat : ~(count < 0)
  OBVIOUS
<1>4. QED
  BY <1>2, <1>3 DEF Substr

(* Where the loops stop: at the outermost characters that are to stay.     *)
Outer(text, chars, left, right) ==
  /\ left \in 0..right /\ right \in 0..(Len(text) - 1)
  /\ text[left + 1] \notin chars /\ text[right + 1] \notin chars
  /\ \A k \in 1..left : text[k] \in chars
  /\ \A k \in (right + 2)..Len(text) : text[k] \in chars

(* There are such characters, if any are to stay, and only these two.      *)
LEMMA OuterExists ==
  ASSUME NEW C, NEW text \in Seq(C), NEW chars, ~(Range(text) \subseteq chars)
  PROVE  \E left, right \in Int : Outer(text, chars, left, right)
<1> DEFINE n == Len(text)
           S == {k \in 1..n : text[k] \notin chars}
<1>1. n \in Nat /\ DOMAIN text = 1..n
  BY LenProperties
<1>2. S # {}
  BY <1>1 DEF Range
<1>3. S \in SUBSET Nat /\ S \in SUBSET Int /\ n \in Int /\ \A x \in S : x <= n
  BY <1>1
<1> DEFINE l == Min(S)
           r == Max(S)
<1>4. l \in S /\ \A x \in S : l <= x
  <2> HIDE DEF S
  <2>1. QED
    BY <1>2, <1>3, MinIs
<1>5. r \in S /\ \A x \in S : x <= r
  <2> HIDE DEF S
  <2>1. QED
    BY <1>2, <1>3, MaxIs
<1> HIDE DEF l, r
<1>6. l \in 1..n /\ r \in 1..n /\ l <= r /\ text[l] \notin chars /\ text[r] \notin chars
  BY <1>4, <1>5
<1>7. \A k \in 1..(l - 1) : text[k] \in chars
  BY <1>1, <1>4, <1>6
<1>8. \A k \in (r + 1)..n : text[k] \in chars
  BY <1>1, <1>5, <1>6
<1>9. Outer(text, chars, l - 1, r - 1)
  <2>1. (l - 1) + 1 = l /\ (r - 1) + 1 = r /\ (r - 1) + 2 = r + 1
        /\ l - 1 \in 0..(r - 1) /\ r - 1 \in 0..(n - 1)
    BY <1>1, <1>6
  <2>2. QED
    BY <1>6, <1>7, <1>8, <2>1 DEF Outer
<1>10. l - 1 \in Int /\ r - 1 \in Int
  BY <1>6
<1>11. QED
  BY <1>9, <1>10

(* Both searches find them.                                                *)
LEMMA SearchesStop ==
  ASSUME NEW C, NEW text \in Seq(C), NEW chars, NEW left \in Int, NEW right \in Int,
         Outer(text, chars, left, right)
  PROVE  First(text, chars) = left /\ Final(text, chars) = right
<1> DEFINE n == Len(text)
           S == {k \in 0..n : k = n \/ text[k + 1] \notin chars}
           T == {k \in 0..(n - 1) : k = 0 \/ text[k + 1] \notin chars}
<1>1. n \in Nat
  BY LenProperties
<1>2. /\ left \in 0..right /\ right \in 0..(n - 1)
      /\ text[left + 1] \notin chars /\ text[right + 1] \notin chars
      /\ \A k \in 1..left : text[k] \in chars
      /\ \A k \in (right + 2)..n : text[k] \in chars
  BY DEF Outer
<1> HIDE DEF n
<1>3. S \in SUBSET Int /\ left \in S
  BY <1>1, <1>2
<1>4. \A k \in S : left <= k
  <2> SUFFICES ASSUME NEW k \in S, k < left PROVE FALSE
    BY <1>2
  <2>1. k + 1 \in 1..left /\ k # n
    BY <1>1, <1>2
  <2>2. QED
    BY <1>2, <2>1
<1>5. Min(S) = left
  <2> HIDE DEF S
  <2>1. QED
    BY <1>3, <1>4, MinEquals
<1>6. T \in SUBSET Int /\ right \in T
  BY <1>1, <1>2
<1>7. \A k \in T : k <= right
  <2> SUFFICES ASSUME NEW k \in T, right < k PROVE FALSE
    BY <1>2
  <2>1. k + 1 \in (right + 2)..n /\ k # 0
    BY <1>1, <1>2
  <2>2. QED
    BY <1>2, <2>1
<1>8. Max(T) = right
  <2> HIDE DEF T
  <2>1. QED
    BY <1>6, <1>7, MaxEquals
<1>9. QED
  BY <1>5, <1>8 DEF First, Final, n

(* If none are to stay, the search from the left reaches the end.          *)
LEMMA SearchEnds ==
  ASSUME NEW C, NEW text \in Seq(C), NEW chars, Range(text) \subseteq chars
  PROVE  First(text, chars) = Len(text) /\ (Len(text) > 0 => Final(text, chars) = 0)
<1> DEFINE n == Len(text)
           S == {k \in 0..n : k = n \/ text[k + 1] \notin chars}
           T == {k \in 0..(n - 1) : k = 0 \/ text[k + 1] \notin chars}
<1>1. n \in Nat /\ \A k \in 1..n : text[k] \in chars
  <2>1. n \in Nat /\ DOMAIN text = 1..n
    BY LenProperties
  <2>2. \A k \in 1..n : text[k] \in Range(text)
    BY <2>1 DEF Range
  <2>3. QED
    BY <2>1, <2>2
<1> HIDE DEF n
<1>2. S = {n}
  <2>1. \A k \in 0..n : k # n => k + 1 \in 1..n
    BY <1>1
  <2>2. QED
    BY <1>1, <2>1
<1>3. Min({n}) = n
  <2>1. {n} \in SUBSET Int /\ n \in {n} /\ \A y \in {n} : n <= y
    BY <1>1
  <2>2. QED
    BY <2>1, MinEquals
<1>4. n > 0 => T = {0}
  <2>1. \A k \in 0..(n - 1) : k + 1 \in 1..n
    BY <1>1
  <2>2. QED
    BY <1>1, <2>1
<1>5. Max({0}) = 0
  <2>1. {0} \in SUBSET Int /\ 0 \in {0} /\ \A y \in {0} : y <= 0
    OBVIOUS
  <2>2. QED
    BY <2>1, MaxEquals
<1>6. First(text, chars) = n
  BY <1>2, <1>3 DEF First, n
<1>7. n > 0 => Final(text, chars) = 0
  BY <1>4, <1>5 DEF Final, n
<1>8. QED
  BY <1>6, <1>7 DEF n

(* Turned round, the outermost characters are the same ones.               *)
LEMMA TurnedRound ==
  ASSUME NEW C, NEW t \in Seq(C)
  PROVE  /\ Reverse(t) \in Seq(C) /\ Len(Reverse(t)) = Len(t)
         /\ \A i \in 1..Len(t) : Reverse(t)[i] = t[Len(t) - i + 1]
<1> DEFINE n == Len(t)
           r == Reverse(t)
<1>1. n \in Nat /\ \A i \in 1..n : t[i] \in C
  BY LenProperties, ElementOfSeq
<1> HIDE DEF n
<1>2. r = [i \in 1..n |-> t[n - i + 1]]
  BY DEF Reverse, n
<1> HIDE DEF r
<1>3. \A i \in 1..n : n - i + 1 \in 1..n
  BY <1>1
<1>4. r \in [1..n -> C] /\ \A i \in 1..n : r[i] = t[n - i + 1]
  BY <1>1, <1>2, <1>3
<1>5. r \in Seq(C) /\ Len(r) = n
  BY <1>1, <1>4, IsSequence
<1>6. QED
  BY <1>4, <1>5 DEF r, n

(* Turned round, the outermost characters that stay change places.         *)
LEMMA OuterTurnedRound ==
  ASSUME NEW C, NEW t \in Seq(C), NEW chars, NEW left \in Int, NEW right \in Int,
         Outer(t, chars, left, right)
  PROVE  Outer(Reverse(t), chars, Len(t) - 1 - right, Len(t) - 1 - left)
<1> DEFINE n == Len(t)
           r == Reverse(t)
<1>1. /\ n \in Nat /\ Len(r) = n
      /\ \A i \in 1..n : r[i] = t[n - i + 1]
  BY LenProperties, TurnedRound
<1>2. /\ left \in 0..right /\ right \in 0..(n - 1)
      /\ t[left + 1] \notin chars /\ t[right + 1] \notin chars
      /\ \A k \in 1..left : t[k] \in chars
      /\ \A k \in (right + 2)..n : t[k] \in chars
  BY DEF Outer
<1> HIDE DEF n, r
<1> DEFINE a == n - 1 - right
           z == n - 1 - left
<1>3. a \in 0..z /\ z \in 0..(n - 1)
  BY <1>1, <1>2
<1>4. r[a + 1] \notin chars /\ r[z + 1] \notin chars
  <2>1. /\ a + 1 \in 1..n /\ n - (a + 1) + 1 = right + 1
        /\ z + 1 \in 1..n /\ n - (z + 1) + 1 = left + 1
    BY <1>1, <1>2
  <2>2. r[a + 1] = t[n - (a + 1) + 1] /\ r[z + 1] = t[n - (z + 1) + 1]
    BY <1>1, <2>1
  <2>3. QED
    BY <1>2, <2>1, <2>2
<1>5. ASSUME NEW k \in 1..a PROVE r[k] \in chars
  <2>1. k \in 1..n /\ n - k + 1 \in (right + 2)..n
    BY <1>1, <1>2
  <2>2. QED
    BY <1>1, <1>2, <2>1
<1>6. ASSUME NEW k \in (z + 2)..n PROVE r[k] \in chars
  <2>1. k \in 1..n /\ n - k + 1 \in 1..left
    BY <1>1, <1>2
  <2>2. QED
    BY <1>1, <1>2, <2>1
<1> HIDE DEF a, z
<1>7. Outer(r, chars, a, z)
  BY <1>1, <1>3, <1>4, <1>5, <1>6 DEF Outer
<1>8. QED
  BY <1>7 DEF r, a, z, n

(* What is left when the left is gone.                                     *)
LEMMA OuterOfRest ==
  ASSUME NEW C, NEW t \in Seq(C), NEW chars, NEW left \in Int, NEW right \in Int,
         Outer(t, chars, left, right)
  PROVE  LET rest == SubSeq(t, left + 1, Len(t))
         IN  /\ rest \in Seq(C) /\ Len(rest) = Len(t) - left
             /\ \A i \in 1..(Len(t) - left) : rest[i] = t[left + i]
             /\ Outer(rest, chars, 0, right - left)
<1> DEFINE n == Len(t)
           rest == SubSeq(t, left + 1, n)
           m == n - left
<1>1. n \in Nat
  BY LenProperties
<1>2. /\ left \in 0..right /\ right \in 0..(n - 1)
      /\ t[left + 1] \notin chars /\ t[right + 1] \notin chars
      /\ \A k \in (right + 2)..n : t[k] \in chars
  BY DEF Outer
<1>3. /\ rest \in Seq(C) /\ Len(rest) = m
      /\ \A i \in 1..m : rest[i] = t[left + i]
  <2>1. left + 1 \in 1..(n + 1) /\ n \in ((left + 1) - 1)..n
    BY <1>1, <1>2
  <2>2. /\ rest \in Seq(C) /\ Len(rest) = n - (left + 1) + 1
        /\ \A i \in 1..(n - (left + 1) + 1) : rest[i] = t[(left + 1) + i - 1]
    BY <2>1, Slice
  <2> HIDE DEF rest, n
  <2>3. n - (left + 1) + 1 = m /\ \A i \in 1..m : (left + 1) + i - 1 = left + i
    BY <1>1, <1>2
  <2>4. QED
    BY <2>2, <2>3
<1> HIDE DEF n, rest
<1>4. m \in Nat /\ 0 \in 0..(right - left) /\ right - left \in 0..(m - 1)
  BY <1>1, <1>2
<1>5. rest[0 + 1] \notin chars /\ rest[(right - left) + 1] \notin chars
  <2>1. 0 + 1 \in 1..m /\ left + (0 + 1) = left + 1
        /\ (right - left) + 1 \in 1..m /\ left + ((right - left) + 1) = right + 1
    BY <1>1, <1>2
  <2>2. rest[0 + 1] = t[left + (0 + 1)]
        /\ rest[(right - left) + 1] = t[left + ((right - left) + 1)]
    BY <1>3, <2>1
  <2>3. QED
    BY <1>2, <2>1, <2>2
<1>6. ASSUME NEW k \in ((right - left) + 2)..m PROVE rest[k] \in chars
  <2>1. k \in 1..m /\ left + k \in (right + 2)..n
    BY <1>1, <1>2
  <2>2. QED
    BY <1>2, <1>3, <2>1
<1> HIDE DEF m
<1>7. Outer(rest, chars, 0, right - left)
  <2>1. \A k \in 1..0 : rest[k] \in chars
    OBVIOUS
  <2>2. QED
    BY <1>3, <1>4, <1>5, <1>6, <2>1 DEF Outer
<1>8. QED
  BY <1>3, <1>7 DEF m, n, rest

(* The middle, and how to recognise it.                                    *)
Middle(t, left, right) == SubSeq(t, left + 1, right + 1)

(* What is in the middle of a text.                                        *)
LEMMA MiddleElements ==
  ASSUME NEW C, NEW t \in Seq(C), NEW chars, NEW left \in Int, NEW right \in Int,
         Outer(t, chars, left, right)
  PROVE  /\ Len(t) \in Nat /\ left \in 0..right /\ right \in 0..(Len(t) - 1)
         /\ Middle(t, left, right) \in Seq(C)
         /\ Len(Middle(t, left, right)) = right - left + 1
         /\ \A i \in 1..(right - left + 1) : Middle(t, left, right)[i] = t[left + i]
<1> DEFINE n == Len(t)
           s == SubSeq(t, left + 1, right + 1)
<1>1. n \in Nat
  BY LenProperties
<1>2. left \in 0..right /\ right \in 0..(n - 1)
  BY DEF Outer
<1>3. left + 1 \in 1..(n + 1) /\ right + 1 \in ((left + 1) - 1)..n
  <2> HIDE DEF n
  <2>1. QED
    BY <1>1, <1>2
<1>4. /\ s \in Seq(C) /\ Len(s) = (right + 1) - (left + 1) + 1
      /\ \A i \in 1..((right + 1) - (left + 1) + 1) : s[i] = t[(left + 1) + i - 1]
  BY <1>3, Slice
<1> HIDE DEF s, n
<1>5. /\ (right + 1) - (left + 1) + 1 = right - left + 1
      /\ \A i \in 1..(right - left + 1) : (left + 1) + i - 1 = left + i
  BY <1>1, <1>2
<1>6. QED
  BY <1>1, <1>2, <1>4, <1>5 DEF Middle, n, s

(* The middle is known by its characters.                                  *)
LEMMA MiddleEquals ==
  ASSUME NEW C, NEW t \in Seq(C), NEW chars, NEW left \in Int, NEW right \in Int,
         Outer(t, chars, left, right),
         NEW s \in Seq(C), Len(s) = right - left + 1,
         \A i \in 1..(right - left + 1) : s[i] = t[left + i]
  PROVE  s = Middle(t, left, right)
<1> DEFINE m == Middle(t, left, right)
<1>1. /\ m \in Seq(C) /\ Len(m) = right - left + 1
      /\ \A i \in 1..(right - left + 1) : m[i] = t[left + i]
  BY MiddleElements
<1> HIDE DEF m
<1>2. s = m
  BY <1>1, SeqEqual
<1>3. QED
  BY <1>2 DEF m

(* substr from the one character to the other.                             *)
LEMMA MiddleBySubstr ==
  ASSUME NEW C, NEW t \in Seq(C), NEW chars, NEW left \in Int, NEW right \in Int,
         Outer(t, chars, left, right)
  PROVE  Substr(t, left, right - left + 1) = Middle(t, left, right)
<1>1. Len(t) \in Nat /\ left \in 0..right /\ right \in 0..(Len(t) - 1)
  BY MiddleElements
<1> DEFINE count == right - left + 1
<1>2. /\ left \in 0..Len(t) /\ count \in Nat /\ left + count = right + 1
      /\ left + count <= Len(t)
  BY <1>1
<1> HIDE DEF count
<1>3. Substr(t, left, count) = SubSeq(t, left + 1, left + count)
  BY <1>2, SubstrIs
<1>4. QED
  BY <1>2, <1>3 DEF count, Middle

(* Dropping the left, turning round and dropping the left again.           *)
LEMMA MiddleByTurning ==
  ASSUME NEW C, NEW t \in Seq(C), NEW chars, NEW left \in Int, NEW right \in Int,
         Outer(t, chars, left, right)
  PROVE  LET rest == SubSeq(t, left + 1, Len(t))
             other == Reverse(rest)
         IN  /\ Outer(rest, chars, 0, right - left)
             /\ Outer(other, chars, (Len(t) - 1) - right, Len(rest) - 1)
             /\ Reverse(SubSeq(other, (Len(t) - 1) - right + 1, Len(rest)))
                  = Middle(t, left, right)
<1> DEFINE n == Len(t)
           rest == SubSeq(t, left + 1, n)
           m == n - left
           other == Reverse(rest)
           gone == (n - 1) - right
           turned == SubSeq(other, gone + 1, m)
           size == right - left + 1
<1>1. n \in Nat /\ left \in 0..right /\ right \in 0..(n - 1)
  BY MiddleElements
<1>2. /\ rest \in Seq(C) /\ Len(rest) = m
      /\ \A i \in 1..m : rest[i] = t[left + i]
      /\ Outer(rest, chars, 0, right - left)
  BY OuterOfRest
<1> HIDE DEF rest, n
<1>3. /\ other \in Seq(C) /\ Len(other) = m
      /\ \A i \in 1..m : other[i] = rest[m - i + 1]
  <2> HIDE DEF m
  <2>1. QED
    BY <1>2, TurnedRound
<1>4. Outer(other, chars, gone, m - 1)
  <2>1. 0 \in Int /\ right - left \in Int
    BY <1>1
  <2>2. Outer(Reverse(rest), chars, Len(rest) - 1 - (right - left), Len(rest) - 1 - 0)
    BY <1>2, <2>1, OuterTurnedRound
  <2>3. m - 1 - (right - left) = gone /\ m - 1 - 0 = m - 1
    BY <1>1
  <2>4. QED
    BY <1>2, <2>2, <2>3
<1> HIDE DEF other
<1>5. /\ turned \in Seq(C) /\ Len(turned) = size
      /\ \A i \in 1..size : turned[i] = other[gone + i]
  <2>1. /\ gone \in Int /\ m - 1 \in Int
        /\ m - gone = size
    BY <1>1
  <2> HIDE DEF gone, m, size
  <2>2. /\ turned \in Seq(C) /\ Len(turned) = m - gone
        /\ \A i \in 1..(m - gone) : turned[i] = other[gone + i]
    <3> DEFINE last == m - 1
    <3>1. last \in Int /\ gone \in Int /\ other \in Seq(C) /\ Outer(other, chars, gone, last)
      BY <1>3, <1>4, <2>1
    <3> HIDE DEF last, turned
    <3>2. /\ SubSeq(other, gone + 1, Len(other)) \in Seq(C)
          /\ Len(SubSeq(other, gone + 1, Len(other))) = Len(other) - gone
          /\ \A i \in 1..(Len(other) - gone) :
               SubSeq(other, gone + 1, Len(other))[i] = other[gone + i]
      BY <3>1, OuterOfRest
    <3>3. QED
      BY <1>3, <3>2 DEF turned
  <2>3. QED
    BY <2>1, <2>2
<1> HIDE DEF turned
<1>6. /\ Reverse(turned) \in Seq(C) /\ Len(Reverse(turned)) = size
      /\ \A i \in 1..size : Reverse(turned)[i] = turned[size - i + 1]
  <2> HIDE DEF size
  <2>1. QED
    BY <1>5, TurnedRound
<1>7. ASSUME NEW i \in 1..size PROVE Reverse(turned)[i] = t[left + i]
  <2>1. /\ size - i + 1 \in 1..size /\ gone + (size - i + 1) \in 1..m
        /\ m - (gone + (size - i + 1)) + 1 = i /\ i \in 1..m
    BY <1>1
  <2> HIDE DEF size, gone, m
  <2>2. Reverse(turned)[i] = turned[size - i + 1]
    BY <1>6
  <2>3. turned[size - i + 1] = other[gone + (size - i + 1)]
    BY <1>5, <2>1
  <2>4. other[gone + (size - i + 1)] = rest[i]
    BY <1>3, <2>1
  <2>5. QED
    BY <1>2, <2>1, <2>2, <2>3, <2>4
<1>8. Reverse(turned) = Middle(t, left, right)
  BY <1>6, <1>7, MiddleEquals
<1>9. QED
  BY <1>2, <1>4, <1>8 DEF n, rest, m, other, gone, turned

(* A text of spaces leaves nothing.                                        *)
LEMMA SpacesAreTrimmed ==
  ASSUME NEW C, NEW text \in Seq(C), Range(text) \subseteq Space
  PROVE  Trim1(text) = <<>> /\ Trim2(text) = <<>>
<1> DEFINE n == Len(text)
<1>1. n \in Nat /\ (text = <<>> <=> n = 0)
  BY LenProperties, EmptySeq
<1>2. First(text, Space) = n /\ (n > 0 => Final(text, Space) = 0)
  BY SearchEnds
<1>3. SubSeq(text, n + 1, n) = <<>>
  <2>1. n + 1 \in Int /\ n \in Int /\ n < n + 1
    BY <1>1
  <2> HIDE DEF n
  <2>2. QED
    BY <2>1, SubSeqEmpty
<1>4. Trim1(text) = <<>>
  <2> DEFINE end == IF text = <<>> THEN 0 ELSE Final(text, Space)
             count == end - n + 1
  <2>1. end = 0 /\ count = 1 - n
    BY <1>1, <1>2
  <2>2. Trim1(text) = Substr(text, n, count)
    BY <1>2 DEF Trim1
  <2>3. /\ n \in 0..Len(text) /\ count \in Int
        /\ count < 0 \/ (count \in Nat /\ n + count >= Len(text))
    BY <1>1, <2>1
  <2> HIDE DEF count, end
  <2>4. Substr(text, n, count) = SubSeq(text, n + 1, Len(text))
    <3>1. CASE count < 0
      BY <2>3, <3>1, SubstrIs
    <3>2. CASE count \in Nat /\ n + count >= Len(text)
      BY <2>3, <3>2, SubstrIs
    <3>3. QED
      BY <2>3, <3>1, <3>2
  <2>5. QED
    BY <1>3, <2>2, <2>4
<1>5. Substr(text, First(text, Space), -1) = <<>>
  <2>1. n \in 0..Len(text) /\ -1 \in Int /\ -1 < 0
    BY <1>1
  <2> HIDE DEF n
  <2>2. Substr(text, n, -1) = SubSeq(text, n + 1, Len(text))
    BY <2>1, SubstrIs
  <2>3. QED
    BY <1>2, <1>3, <2>2 DEF n
<1>6. Reverse(<<>>) = <<>>
  <2>1. <<>> \in Seq(C) /\ Len(<<>>) = 0
    BY EmptySeq
  <2>2. Reverse(<<>>) \in Seq(C) /\ Len(Reverse(<<>>)) = 0
    BY <2>1, TurnedRound
  <2>3. QED
    BY <2>2, EmptySeq
<1>7. Substr(<<>>, First(<<>>, Space), -1) = <<>>
  <2>1. <<>> \in Seq(C) /\ Len(<<>>) = 0 /\ Range(<<>>) \subseteq Space
    BY EmptySeq DEF Range
  <2>2. First(<<>>, Space) = 0
    BY <2>1, SearchEnds
  <2>3. 0 \in 0..Len(<<>>) /\ -1 \in Int /\ -1 < 0
    BY <2>1
  <2>4. Substr(<<>>, 0, -1) = SubSeq(<<>>, 0 + 1, Len(<<>>))
    BY <2>1, <2>3, SubstrIs
  <2>5. SubSeq(<<>>, 0 + 1, 0) = <<>>
    BY SubSeqEmpty
  <2>6. QED
    BY <2>1, <2>2, <2>4, <2>5
<1>8. Trim2(text) = <<>>
  BY <1>5, <1>6, <1>7 DEF Trim2
<1>9. QED
  BY <1>4, <1>8

(* A text of what isspace holds for leaves nothing either.                 *)
LEMMA SpacesAreErased ==
  ASSUME NEW C, NEW text \in Seq(C), Range(text) \subseteq IsSpace
  PROVE  TrimEx(text) = <<>>
<1> DEFINE n == Len(text)
<1>1. n \in Nat /\ (text = <<>> <=> n = 0)
  BY LenProperties, EmptySeq
<1>2. First(text, IsSpace) = n
  BY SearchEnds
<1>3. First(Reverse(text), IsSpace) \in 0..n
  <2> DEFINE r == Reverse(text)
  <2>1. r \in Seq(C) /\ Len(r) = n
    BY TurnedRound
  <2>2. Range(r) \subseteq IsSpace
    <3>1. DOMAIN r = 1..n /\ DOMAIN text = 1..n
      BY <2>1, LenProperties
    <3>2. \A i \in 1..n : n - i + 1 \in 1..n /\ r[i] = text[n - i + 1]
      BY <1>1, TurnedRound
    <3>3. \A i \in 1..n : text[i] \in IsSpace
      BY <3>1 DEF Range
    <3> HIDE DEF r
    <3>4. \A i \in 1..n : r[i] \in IsSpace
      BY <3>2, <3>3
    <3>5. QED
      BY <3>1, <3>4 DEF Range
  <2> HIDE DEF r
  <2>3. First(r, IsSpace) = Len(r)
    BY <2>1, <2>2, SearchEnds
  <2>4. QED
    BY <1>1, <2>1, <2>3 DEF r
<1>4. QED
  BY <1>1, <1>2, <1>3 DEF TrimEx

(* Nor does a text of blanks.                                              *)
LEMMA BlanksAreTrimmed ==
  ASSUME NEW C, NEW text \in Seq(C), Range(text) \subseteq Blank
  PROVE  StripFast(text) \in {<<>>, Undefined}
<1> DEFINE n == Len(text)
<1>1. n \in Nat /\ (text = <<>> <=> n = 0)
  BY LenProperties, EmptySeq
<1>2. First(text, Blank) = n
  BY SearchEnds
<1>3. CASE text # <<>>
  <2> DEFINE S == {n - 1} \cup {k \in n..(n - 1) : text[k + 1] \notin Blank}
  <2>1. S = {n - 1} /\ n - 1 \in Int
    BY <1>1
  <2>2. Max({n - 1}) = n - 1
    <3> DEFINE x == n - 1
    <3>1. {x} \in SUBSET Int /\ x \in {x} /\ \A y \in {x} : y <= x
      BY <2>1
    <3> HIDE DEF x
    <3>2. Max({x}) = x
      BY <3>1, MaxEquals
    <3>3. QED
      BY <3>2 DEF x
  <2>3. StripFast(text) = Substr(text, n, (n - 1) - n + 1)
    BY <1>2, <1>3, <2>1, <2>2 DEF StripFast
  <2>4. (n - 1) - n + 1 = 0
    BY <1>1
  <2>5. n \in 0..Len(text) /\ 0 \in Nat /\ n + 0 <= Len(text) /\ n + 0 = n
    BY <1>1
  <2> HIDE DEF n
  <2>6. Substr(text, n, 0) = SubSeq(text, n + 1, n + 0)
    BY <2>5, SubstrIs
  <2>7. SubSeq(text, n + 1, n) = <<>>
    <3>1. n + 1 \in Int /\ n \in Int /\ n < n + 1
      BY <1>1
    <3>2. QED
      BY <3>1, SubSeqEmpty
  <2>8. QED
    BY <2>3, <2>4, <2>5, <2>6, <2>7
<1>4. CASE text = <<>>
  BY <1>4 DEF StripFast
<1>5. QED
  BY <1>3, <1>4

(* Of any other text every way of trimming it leaves the middle.           *)
LEMMA StripLeavesMiddle ==
  ASSUME NEW C, NEW text \in Seq(C), NEW chars, NEW left \in Int, NEW right \in Int,
         Outer(text, chars, left, right)
  PROVE  StripOf(text, chars) = Middle(text, left, right)
<1> DEFINE n == Len(text)
           rest == SubSeq(text, left + 1, n)
           last == right - left
<1>1. n \in Nat /\ left \in 0..right /\ right \in 0..(n - 1)
  BY MiddleElements
<1>2. /\ rest \in Seq(C) /\ Len(rest) = n - left
      /\ \A i \in 1..(n - left) : rest[i] = text[left + i]
      /\ Outer(rest, chars, 0, last)
  BY OuterOfRest
<1>3. First(text, chars) = left
  BY SearchesStop
<1>4. Substr(text, left, -1) = rest
  <2>1. left \in 0..n /\ -1 \in Int /\ -1 < 0
    BY <1>1
  <2>2. QED
    BY <2>1, SubstrIs
<1> HIDE DEF rest
<1>5. last \in Int /\ last \in Nat /\ 0 \in Int /\ last + 1 <= n - left /\ last + 1 = right - left + 1
  BY <1>1
<1> HIDE DEF last
<1>6. rest # <<>>
  BY <1>1, <1>2, <1>5, EmptySeq
<1>7. Final(rest, chars) = last
  BY <1>2, <1>5, SearchesStop
<1> DEFINE s == Substr(rest, 0, last + 1)
<1>8. s = Middle(rest, 0, last)
  <2>1. Substr(rest, 0, last - 0 + 1) = Middle(rest, 0, last)
    BY <1>2, <1>5, MiddleBySubstr
  <2>2. last - 0 + 1 = last + 1
    BY <1>5
  <2>3. QED
    BY <2>1, <2>2
<1> HIDE DEF s
<1>9. /\ s \in Seq(C) /\ Len(s) = right - left + 1
      /\ \A i \in 1..(right - left + 1) : s[i] = text[left + i]
  <2>1. /\ Middle(rest, 0, last) \in Seq(C) /\ Len(Middle(rest, 0, last)) = last - 0 + 1
        /\ \A i \in 1..(last - 0 + 1) : Middle(rest, 0, last)[i] = rest[0 + i]
    BY <1>2, <1>5, MiddleElements
  <2>2. last - 0 + 1 = right - left + 1
    BY <1>5
  <2>3. \A i \in 1..(right - left + 1) : 0 + i = i /\ i \in 1..(n - left)
    BY <1>1, <1>5
  <2> HIDE DEF n
  <2>4. QED
    BY <1>2, <1>8, <2>1, <2>2, <2>3
<1>10. s = Middle(text, left, right)
  BY <1>9, MiddleEquals
<1>11. QED
  BY <1>3, <1>4, <1>6, <1>7, <1>10 DEF StripOf, s

(* More characters make no difference to a text without the others.        *)
LEMMA OuterOfMore ==
  ASSUME NEW C, NEW text \in Seq(C), NEW chars, NEW more, NEW left \in Int, NEW right \in Int,
         Outer(text, chars, left, right), chars \subseteq more,
         Range(text) \cap more \subseteq chars
  PROVE  Outer(text, more, left, right)
<1> DEFINE n == Len(text)
<1>1. n \in Nat /\ left \in 0..right /\ right \in 0..(n - 1)
  BY MiddleElements
<1>2. \A k \in 1..n : text[k] \in Range(text)
  <2>1. DOMAIN text = 1..n
    BY LenProperties
  <2>2. QED
    BY <2>1 DEF Range
<1>3. \A k \in 1..n : text[k] \in more <=> text[k] \in chars
  BY <1>2
<1>4. /\ left + 1 \in 1..n /\ right + 1 \in 1..n
      /\ \A k \in 1..left : k \in 1..n
      /\ \A k \in (right + 2)..n : k \in 1..n
  BY <1>1
<1>5. QED
  BY <1>3, <1>4 DEF Outer

(* Every trim of spaces leaves the middle.                                 *)
LEMMA SpacedTextIsTrimmed ==
  ASSUME NEW C, NEW text \in Seq(C), NEW left \in Int, NEW right \in Int,
         Outer(text, Space, left, right)
  PROVE  /\ Trim1(text) = Middle(text, left, right)
         /\ Trim2(text) = Middle(text, left, right)
         /\ Trim3(text) = Middle(text, left, right)
         /\ Range(text) \cap IsSpace \subseteq Space => Trim(text) = Middle(text, left, right)
<1> DEFINE n == Len(text)
<1>1. n \in Nat /\ left \in 0..right /\ right \in 0..(n - 1)
  BY MiddleElements
<1>2. First(text, Space) = left /\ Final(text, Space) = right
  BY SearchesStop
<1>3. text # <<>>
  BY <1>1, EmptySeq
<1>4. Substr(text, left, right - left + 1) = Middle(text, left, right)
  BY MiddleBySubstr
<1>5. Trim1(text) = Middle(text, left, right)
  BY <1>2, <1>3, <1>4 DEF Trim1
<1>6. Trim2(text) = Middle(text, left, right)
  <2> DEFINE rest == SubSeq(text, left + 1, n)
             other == Reverse(rest)
             gone == (n - 1) - right
             last == Len(rest) - 1
  <2>1. /\ Outer(rest, Space, 0, right - left)
        /\ Outer(other, Space, gone, last)
        /\ Reverse(SubSeq(other, gone + 1, Len(rest))) = Middle(text, left, right)
    BY MiddleByTurning
  <2>2. rest \in Seq(C) /\ Len(rest) = n - left
    BY OuterOfRest
  <2>3. other \in Seq(C) /\ Len(other) = Len(rest)
    <3> HIDE DEF rest
    <3>1. QED
      BY <2>2, TurnedRound
  <2>4. Substr(text, First(text, Space), -1) = rest
    <3>1. left \in 0..n /\ -1 \in Int /\ -1 < 0
      BY <1>1
    <3>2. QED
      BY <1>2, <3>1, SubstrIs
  <2> HIDE DEF rest, n
  <2>5. gone \in Int /\ last \in Int /\ gone \in 0..Len(other)
    BY <1>1, <2>2, <2>3
  <2> HIDE DEF other, gone, last
  <2>6. First(other, Space) = gone
    BY <2>1, <2>3, <2>5, SearchesStop
  <2>7. Substr(other, gone, -1) = SubSeq(other, gone + 1, Len(other))
    <3>1. -1 \in Int /\ -1 < 0
      OBVIOUS
    <3>2. QED
      BY <2>3, <2>5, <3>1, SubstrIs
  <2>8. QED
    BY <2>1, <2>3, <2>4, <2>6, <2>7 DEF Trim2, other
<1>7. Trim3(text) = Middle(text, left, right)
  BY StripLeavesMiddle DEF Trim3
<1>8. ASSUME Range(text) \cap IsSpace \subseteq Space
      PROVE  Trim(text) = Middle(text, left, right)
  <2>1. Outer(text, IsSpace, left, right)
    <3>1. Space \subseteq IsSpace
      BY DEF IsSpace, Blank, Space
    <3>2. QED
      BY <1>8, <3>1, OuterOfMore
  <2>2. Final(text, IsSpace) = right
    BY <2>1, SearchesStop
  <2>3. ~(right - left + 1 < 0)
    BY <1>1
  <2>4. QED
    BY <1>2, <1>3, <1>4, <2>2, <2>3 DEF Trim
<1>9. QED
  BY <1>5, <1>6, <1>7, <1>8

(* trimEx leaves the middle.                                               *)
LEMMA SpacesAreDropped ==
  ASSUME NEW C, NEW text \in Seq(C), NEW left \in Int, NEW right \in Int,
         Outer(text, IsSpace, left, right)
  PROVE  TrimEx(text) = Middle(text, left, right)
<1> DEFINE n == Len(text)
<1>1. n \in Nat /\ left \in 0..right /\ right \in 0..(n - 1)
  BY MiddleElements
<1>2. First(text, IsSpace) = left
  BY SearchesStop
<1>3. Substr(text, left, right - left + 1) = Middle(text, left, right)
  BY MiddleBySubstr
<1>4. QED
  <2> DEFINE other == Reverse(text)
             a == n - 1 - right
             z == n - 1 - left
  <2>1. other \in Seq(C) /\ Outer(other, IsSpace, a, z)
    BY TurnedRound, OuterTurnedRound
  <2>2. a \in Int /\ z \in Int
    BY <1>1
  <2>3. First(other, IsSpace) = a
    <3> HIDE DEF other, a, z
    <3>1. QED
      BY <2>1, <2>2, SearchesStop
  <2>4. n - a = right + 1 /\ left < right + 1 /\ (right + 1) - left = right - left + 1
    BY <1>1
  <2> HIDE DEF a, z
  <2>5. QED
    BY <1>2, <1>3, <2>3, <2>4 DEF TrimEx
(* Both strips leave the middle.                                           *)
LEMMA BlankedTextIsTrimmed ==
  ASSUME NEW C, NEW text \in Seq(C), NEW left \in Int, NEW right \in Int,
         Outer(text, Blank, left, right)
  PROVE  /\ Strip(text) = Middle(text, left, right)
         /\ StripFast(text) = Middle(text, left, right)
<1> DEFINE n == Len(text)
<1>1. n \in Nat /\ left \in 0..right /\ right \in 0..(n - 1)
  BY MiddleElements
<1>2. First(text, Blank) = left
  BY SearchesStop
<1>3. text # <<>>
  BY <1>1, EmptySeq
<1>4. Substr(text, left, right - left + 1) = Middle(text, left, right)
  BY MiddleBySubstr
<1>5. Strip(text) = Middle(text, left, right)
  BY StripLeavesMiddle DEF Strip
<1>6. StripFast(text) = Middle(text, left, right)
  <2> DEFINE S == {left - 1} \cup {k \in left..(n - 1) : text[k + 1] \notin Blank}
  <2>1. /\ text[right + 1] \notin Blank
        /\ \A k \in (right + 2)..n : text[k] \in Blank
    BY DEF Outer
  <2> HIDE DEF n
  <2>2. S \in SUBSET Int /\ right \in S
    BY <1>1, <2>1
  <2>3. \A k \in S : k <= right
    <3> SUFFICES ASSUME NEW k \in S, right < k PROVE FALSE
      BY <1>1, <2>2
    <3>1. k + 1 \in (right + 2)..n /\ k # left - 1
      BY <1>1
    <3>2. QED
      BY <2>1, <3>1
  <2>4. Max(S) = right
    <3> HIDE DEF S
    <3>1. QED
      BY <2>2, <2>3, MaxEquals
  <2>5. QED
    BY <1>2, <1>3, <1>4, <2>4 DEF StripFast, n
<1>8. QED
  BY <1>5, <1>5, <1>6

(* trim leaves, on the right, nothing isspace holds for.                   *)
LEMMA RightIsTrimmed ==
  ASSUME NEW C, NEW text \in Seq(C), ~(Range(text) \subseteq IsSpace)
  PROVE  Last(Trim(text)) \notin IsSpace
<1>1. Space \subseteq IsSpace
  BY DEF IsSpace, Blank, Space
<1>2. PICK left \in Int, right \in Int : Outer(text, IsSpace, left, right)
  BY OuterExists
<1>3. PICK start \in Int, last \in Int : Outer(text, Space, start, last)
  BY <1>1, OuterExists
<1>4. PICK n \in Nat : n = Len(text)
  BY LenProperties
<1>5. right \in 0..(n - 1) /\ text[right + 1] \notin IsSpace
  BY <1>2, <1>4 DEF Outer
<1>6. start \in 0..(n - 1) /\ \A k \in 1..start : text[k] \in Space
  BY <1>3, <1>4 DEF Outer
<1>7. start <= right
  <2>1. right + 1 \notin 1..start
    BY <1>1, <1>5, <1>6
  <2>2. QED
    BY <1>5, <1>6, <2>1
<1>8. First(text, Space) = start /\ Final(text, IsSpace) = right
  BY <1>2, <1>3, SearchesStop
<1>9. PICK count \in Nat \ {0} : count = right - start + 1 /\ start + count = right + 1
  BY <1>5, <1>6, <1>7
<1>10. Trim(text) = Substr(text, start, count)
  <2>1. text # <<>>
    BY <1>4, <1>5, EmptySeq
  <2>2. ~(count < 0)
    OBVIOUS
  <2>3. QED
    BY <1>8, <1>9, <2>1, <2>2 DEF Trim
<1>11. Substr(text, start, count) = SubSeq(text, start + 1, right + 1)
  <2>1. start \in 0..Len(text) /\ count \in Nat /\ start + count <= Len(text)
    BY <1>4, <1>5, <1>6, <1>9
  <2>2. QED
    BY <1>9, <2>1, SubstrIs
<1>12. PICK s : s = SubSeq(text, start + 1, right + 1)
  OBVIOUS
<1>13. s \in Seq(C) /\ Len(s) = count /\ s[count] = text[right + 1]
  <2>1. start + 1 \in 1..(Len(text) + 1) /\ right + 1 \in ((start + 1) - 1)..Len(text)
    BY <1>4, <1>5, <1>6, <1>7
  <2>2. /\ s \in Seq(C) /\ Len(s) = (right + 1) - (start + 1) + 1
        /\ \A i \in 1..((right + 1) - (start + 1) + 1) : s[i] = text[(start + 1) + i - 1]
    BY <1>12, <2>1, Slice
  <2>3. /\ (right + 1) - (start + 1) + 1 = count /\ count \in 1..count
        /\ (start + 1) + count - 1 = right + 1
    BY <1>5, <1>6, <1>9
  <2>4. QED
    BY <2>2, <2>3
<1>14. QED
  BY <1>5, <1>10, <1>11, <1>12, <1>13 DEF Last

(* It is the middle indeed.                                                *)
LEMMA MiddleIsMiddle ==
  ASSUME NEW C, NEW text \in Seq(C), NEW chars, NEW left \in Int, NEW right \in Int,
         Outer(text, chars, left, right)
  PROVE  IsMiddle(Middle(text, left, right), text, chars)
<1> DEFINE n == Len(text)
           m == Middle(text, left, right)
           size == right - left + 1
<1>1. /\ n \in Nat /\ left \in 0..right /\ right \in 0..(n - 1)
      /\ m \in Seq(C) /\ Len(m) = size
      /\ \A i \in 1..size : m[i] = text[left + i]
  <2>1. /\ Len(text) \in Nat /\ left \in 0..right /\ right \in 0..(Len(text) - 1)
        /\ Middle(text, left, right) \in Seq(C)
        /\ Len(Middle(text, left, right)) = right - left + 1
        /\ \A i \in 1..(right - left + 1) : Middle(text, left, right)[i] = text[left + i]
    BY MiddleElements
  <2>2. QED
    BY ONLY <2>1
<1>2. /\ text[left + 1] \notin chars /\ text[right + 1] \notin chars
      /\ \A k \in 1..left : text[k] \in chars
      /\ \A k \in (right + 2)..n : text[k] \in chars
  BY DEF Outer
<1>3. m = Substr(text, left, (right + 1) - left)
  <2>1. Substr(text, left, right - left + 1) = m
    BY MiddleBySubstr
  <2>2. (right + 1) - left = right - left + 1
    BY <1>1
  <2>3. QED
    BY <2>1, <2>2
<1> HIDE DEF m, n
<1>4. m # <<>> /\ Head(m) \notin chars /\ Last(m) \notin chars
  <2>1. 1 \in 1..size /\ size \in 1..size /\ left + size = right + 1
    BY <1>1
  <2>2. m # <<>>
    BY <1>1, <2>1, EmptySeq
  <2>3. m[1] = text[left + 1] /\ m[size] = text[right + 1]
    BY <1>1, <2>1
  <2>4. Head(m) = m[1]
    BY <1>1, <2>2
  <2>5. QED
    BY <1>1, <1>2, <2>2, <2>3, <2>4 DEF Last
<1>5. Range(Substr(text, 0, left)) \subseteq chars
  <2>1. 0 \in 0..Len(text) /\ left \in Nat /\ 0 + left <= Len(text)
        /\ 0 + 1 \in 1..(Len(text) + 1) /\ 0 + left \in ((0 + 1) - 1)..Len(text)
    BY <1>1 DEF n
  <2>2. Substr(text, 0, left) = SubSeq(text, 0 + 1, 0 + left)
    BY <2>1, SubstrIs
  <2> DEFINE s == SubSeq(text, 0 + 1, 0 + left)
  <2>3. /\ s \in Seq(C) /\ Len(s) = (0 + left) - (0 + 1) + 1
        /\ \A i \in 1..((0 + left) - (0 + 1) + 1) : s[i] = text[(0 + 1) + i - 1]
    BY <2>1, Slice
  <2>4. DOMAIN s = 1..Len(s)
    BY <2>3, LenProperties
  <2> HIDE DEF s
  <2>5. (0 + left) - (0 + 1) + 1 = left /\ \A i \in 1..left : (0 + 1) + i - 1 = i
    BY <1>1
  <2>6. DOMAIN s = 1..left /\ \A i \in 1..left : s[i] \in chars
    BY <1>2, <2>3, <2>4, <2>5
  <2>7. QED
    BY <2>2, <2>6 DEF s, Range
<1>6. Range(Substr(text, right + 1, -1)) \subseteq chars
  <2>1. /\ right + 1 \in 0..n /\ -1 \in Int /\ -1 < 0
        /\ (right + 1) + 1 \in 1..(n + 1) /\ n \in (((right + 1) + 1) - 1)..n
    BY <1>1
  <2>2. Substr(text, right + 1, -1) = SubSeq(text, (right + 1) + 1, n)
    BY <2>1, SubstrIs DEF n
  <2> DEFINE s == SubSeq(text, (right + 1) + 1, n)
             l == n - ((right + 1) + 1) + 1
  <2>3. /\ s \in Seq(C) /\ Len(s) = l
        /\ \A i \in 1..l : s[i] = text[((right + 1) + 1) + i - 1]
    BY <2>1, Slice DEF n
  <2>4. DOMAIN s = 1..Len(s)
    BY <2>3, LenProperties
  <2> HIDE DEF s
  <2>5. \A i \in 1..l : ((right + 1) + 1) + i - 1 \in (right + 2)..n
    BY <1>1
  <2> HIDE DEF l
  <2>6. DOMAIN s = 1..l /\ \A i \in 1..l : s[i] \in chars
    BY <1>2, <2>3, <2>4, <2>5
  <2>7. QED
    BY <2>2, <2>6 DEF s, Range
<1>7. left \in 0..Len(text) /\ right + 1 \in 0..Len(text) /\ left <= right + 1
  BY <1>1 DEF n
<1>8. QED
  BY <1>3, <1>4, <1>5, <1>6, <1>7 DEF IsMiddle, m

-----------------------------------------------------------------------------
(* Sequences of pieces of text.                                            *)
Pieces(C) == Seq(Seq(C))

(* Every piece is a sequence.                                              *)
LEMMA PiecesHave ==
  ASSUME NEW C, NEW seqs \in Pieces(C)
  PROVE  /\ Len(seqs) \in Nat /\ DOMAIN seqs = 1..Len(seqs)
         /\ \A k \in 1..Len(seqs) : seqs[k] \in Seq(C)
         /\ seqs = <<>> <=> Len(seqs) = 0
BY LenProperties, ElementOfSeq, EmptySeq DEF Pieces

(* A function to sequences is a sequence of pieces.                        *)
LEMMA PiecesAre ==
  ASSUME NEW C, NEW n \in Nat, NEW f \in [1..n -> Seq(C)]
  PROVE  f \in Pieces(C) /\ Len(f) = n
BY IsSequence DEF Pieces

(* Pieces are known one by one.                                            *)
LEMMA PiecesEqual ==
  ASSUME NEW C, NEW s \in Pieces(C), NEW t \in Pieces(C), Len(s) = Len(t),
         \A k \in 1..Len(s) : s[k] = t[k]
  PROVE  s = t
BY SeqEqual DEF Pieces

(* No piece, and one.                                                      *)
LEMMA FewPieces ==
  ASSUME NEW C, NEW s \in Seq(C)
  PROVE  /\ <<>> \in Pieces(C) /\ Len(<<>>) = 0
         /\ <<s>> \in Pieces(C) /\ Len(<<s>>) = 1 /\ <<s>>[1] = s
<1>1. <<>> \in Pieces(C) /\ Len(<<>>) = 0
  BY EmptySeq DEF Pieces
<1>2. <<s>> \in Pieces(C) /\ Len(<<s>>) = 1 /\ <<s>>[1] = s
  BY DEF Pieces
<1>3. QED
  BY <1>1, <1>2

(* One more piece.                                                         *)
LEMMA PiecesAppended ==
  ASSUME NEW C, NEW seqs \in Pieces(C), NEW s \in Seq(C)
  PROVE  /\ Append(seqs, s) \in Pieces(C) /\ Len(Append(seqs, s)) = Len(seqs) + 1
         /\ \A k \in 1..Len(seqs) : Append(seqs, s)[k] = seqs[k]
         /\ Append(seqs, s)[Len(seqs) + 1] = s
BY AppendProperties DEF Pieces

(* Pieces and more pieces.                                                 *)
LEMMA PiecesJoined ==
  ASSUME NEW C, NEW s \in Pieces(C), NEW t \in Pieces(C)
  PROVE  /\ s \o t \in Pieces(C) /\ Len(s \o t) = Len(s) + Len(t)
         /\ \A k \in 1..Len(s) : (s \o t)[k] = s[k]
         /\ \A k \in 1..Len(t) : (s \o t)[Len(s) + k] = t[k]
<1>1. PICK D : D = Seq(C)
  OBVIOUS
<1>2. s \in Seq(D) /\ t \in Seq(D)
  BY <1>1 DEF Pieces
<1>3. /\ s \o t \in Seq(D) /\ Len(s \o t) = Len(s) + Len(t)
      /\ \A k \in 1..Len(s) : (s \o t)[k] = s[k]
      /\ \A k \in 1..Len(t) : (s \o t)[Len(s) + k] = t[k]
  BY <1>2, JoinedElements
<1>4. QED
  BY <1>1, <1>3 DEF Pieces

(* A piece in front of others.                                             *)
LEMMA PieceBefore ==
  ASSUME NEW C, NEW s \in Seq(C), NEW seqs \in Pieces(C)
  PROVE  /\ <<s>> \o seqs \in Pieces(C) /\ Len(<<s>> \o seqs) = Len(seqs) + 1
         /\ (<<s>> \o seqs)[1] = s
         /\ \A k \in 1..Len(seqs) : (<<s>> \o seqs)[k + 1] = seqs[k]
<1> DEFINE one == <<s>>
<1>1. one \in Pieces(C) /\ Len(one) = 1 /\ one[1] = s
  BY FewPieces
<1>2. Len(seqs) \in Nat
  BY PiecesHave
<1> HIDE DEF one
<1>3. /\ one \o seqs \in Pieces(C) /\ Len(one \o seqs) = Len(one) + Len(seqs)
      /\ \A k \in 1..Len(one) : (one \o seqs)[k] = one[k]
      /\ \A k \in 1..Len(seqs) : (one \o seqs)[Len(one) + k] = seqs[k]
  <2>1. one \in Pieces(C)
    BY <1>1
  <2>2. QED
    BY <2>1, PiecesJoined
<1>4. 1 \in 1..1 /\ \A k \in 1..Len(seqs) : 1 + k = k + 1
  BY <1>2
<1>5. /\ one \o seqs \in Pieces(C) /\ Len(one \o seqs) = Len(seqs) + 1
      /\ (one \o seqs)[1] = s
      /\ \A k \in 1..Len(seqs) : (one \o seqs)[k + 1] = seqs[k]
  BY <1>1, <1>2, <1>3, <1>4
<1>6. QED
  BY <1>5 DEF one

(* The pieces joined so far, one after the other from none.                *)
JoinSteps(seqs, g) ==
  /\ g[0] = <<>>
  /\ \A i \in 1..Len(seqs) : g[i] = g[i - 1] \o seqs[i]

(* FlattenSeq joins the pieces one by one, from the left.                  *)
LEMMA FlattenSteps ==
  ASSUME NEW C, NEW seqs \in Pieces(C)
  PROVE  \E g : /\ JoinSteps(seqs, g)
                /\ \A i \in 0..Len(seqs) : g[i] \in Seq(C)
                /\ FlattenSeq(seqs) = g[Len(seqs)]
<1> DEFINE n == Len(seqs)
<1>1. n \in Nat /\ \A i \in 1..n : seqs[i] \in Seq(C)
  BY PiecesHave
<1>2. <<>> \in Seq(C)
  BY EmptySeq
<1>3. CASE n = 0
  <2> DEFINE g == [i \in {0} |-> <<>>]
  <2>1. seqs = <<>>
    BY <1>3, PiecesHave
  <2>2. FlattenSeq(seqs) = <<>>
    BY <1>3, <2>1 DEF FlattenSeq
  <2>3. JoinSteps(seqs, g)
    BY <1>3 DEF JoinSteps
  <2>4. \A i \in 0..n : g[i] \in Seq(C)
    BY <1>2, <1>3
  <2>5. QED
    BY <1>3, <2>2, <2>3, <2>4
<1>4. CASE n # 0
  <2>1. PICK f : Joins(seqs, n, f) /\ FlattenSeq(seqs) = f[n]
    BY <1>1, <1>4, FlattenUnfolds
  <2>2. \A i \in 1..n : f[i] = IF i = 1 THEN seqs[i] ELSE f[i - 1] \o seqs[i]
    BY <2>1 DEF Joins
  <2> DEFINE g == [i \in 0..n |-> IF i = 0 THEN <<>> ELSE f[i]]
  <2>3. g[0] = <<>> /\ \A i \in 1..n : g[i] = f[i]
    BY <1>1
  <2>4. g[n] = f[n]
    BY <1>1, <1>4
  <2> HIDE DEF g, n
  <2>5. ASSUME NEW i \in 1..n PROVE g[i] = g[i - 1] \o seqs[i]
    <3>1. CASE i = 1
      <4>1. seqs[i] \in Seq(C)
        BY <1>1
      <4>2. <<>> \o seqs[i] = seqs[i]
        BY <4>1, ConcatEmptySeq
      <4>3. f[i] = seqs[i]
        BY <2>2, <3>1
      <4>4. i - 1 = 0
        BY <3>1
      <4>5. QED
        BY <2>3, <4>2, <4>3, <4>4
    <3>2. CASE i # 1
      <4>1. i - 1 \in 1..n
        BY <1>1, <3>2
      <4>2. f[i] = f[i - 1] \o seqs[i]
        BY <2>2, <3>2
      <4>3. QED
        BY <2>3, <4>1, <4>2
    <3>3. QED
      BY <3>1, <3>2
  <2> DEFINE Good == {i \in Nat : i <= n => g[i] \in Seq(C)}
  <2>6. 0 \in Good
    BY <1>2, <2>3
  <2>7. ASSUME NEW i \in Good PROVE i + 1 \in Good
    <3>1. CASE i + 1 <= n
      <4>1. i + 1 \in 1..n /\ (i + 1) - 1 = i /\ g[i] \in Seq(C)
        BY <1>1, <3>1
      <4>2. g[i + 1] = g[i] \o seqs[i + 1] /\ seqs[i + 1] \in Seq(C)
        BY <1>1, <2>5, <4>1
      <4>3. g[i + 1] \in Seq(C)
        BY <4>1, <4>2, ConcatProperties
      <4>4. QED
        BY <4>3
    <3>2. QED
      BY <3>1
  <2>8. Good \in SUBSET Nat
    OBVIOUS
  <2> HIDE DEF Good
  <2>9. \A i \in Nat : i \in Good
    BY <2>6, <2>7, <2>8, SetInduction
  <2>10. \A i \in 0..n : g[i] \in Seq(C)
    BY <1>1, <2>9 DEF Good
  <2>11. JoinSteps(seqs, g)
    BY <2>3, <2>5 DEF JoinSteps, n
  <2>12. QED
    BY <2>1, <2>4, <2>10, <2>11 DEF n
<1>5. QED
  BY <1>3, <1>4

(* Whoever follows these steps joins them all.                             *)
LEMMA FlattenIs ==
  ASSUME NEW C, NEW seqs \in Pieces(C), NEW h, JoinSteps(seqs, h)
  PROVE  FlattenSeq(seqs) = h[Len(seqs)] /\ FlattenSeq(seqs) \in Seq(C)
<1> DEFINE n == Len(seqs)
<1>1. n \in Nat
  BY PiecesHave
<1>2. PICK g : /\ JoinSteps(seqs, g)
               /\ \A i \in 0..n : g[i] \in Seq(C)
               /\ FlattenSeq(seqs) = g[n]
  BY FlattenSteps
<1>3. /\ g[0] = h[0]
      /\ \A i \in 1..n : g[i] = g[i - 1] \o seqs[i] /\ h[i] = h[i - 1] \o seqs[i]
  BY <1>2 DEF JoinSteps
<1> DEFINE Good == {i \in Nat : i <= n => g[i] = h[i]}
<1> HIDE DEF n
<1>4. 0 \in Good
  BY <1>3
<1>5. ASSUME NEW i \in Good PROVE i + 1 \in Good
  <2>1. i + 1 <= n => i + 1 \in 1..n /\ (i + 1) - 1 = i /\ g[i] = h[i]
    BY <1>1
  <2>2. i + 1 <= n => g[i + 1] = h[i + 1]
    BY <1>3, <2>1
  <2>3. QED
    BY <2>2
<1>6. Good \in SUBSET Nat
  OBVIOUS
<1> HIDE DEF Good
<1>7. n \in Good
  BY <1>1, <1>4, <1>5, <1>6, SetInduction
<1>8. g[n] = h[n] /\ n \in 0..n
  BY <1>1, <1>7 DEF Good
<1>9. QED
  BY <1>2, <1>8 DEF n

(* No piece joins to nothing.                                              *)
LEMMA FlattenEmpty == FlattenSeq(<<>>) = <<>>
<1>1. Len(<<>>) = 0
  BY EmptySeq
<1>2. QED
  BY <1>1 DEF FlattenSeq

(* One more piece at the end, and one more at the beginning.               *)
LEMMA FlattenAppend ==
  ASSUME NEW C, NEW seqs \in Pieces(C), NEW s \in Seq(C)
  PROVE  FlattenSeq(Append(seqs, s)) = FlattenSeq(seqs) \o s
<1> DEFINE n == Len(seqs)
           more == Append(seqs, s)
<1>1. n \in Nat
  BY PiecesHave
<1>2. PICK g : /\ JoinSteps(seqs, g)
               /\ \A i \in 0..n : g[i] \in Seq(C)
               /\ FlattenSeq(seqs) = g[n]
  BY FlattenSteps
<1>3. /\ more \in Pieces(C) /\ Len(more) = n + 1
      /\ \A i \in 1..n : more[i] = seqs[i]
      /\ more[n + 1] = s
  BY PiecesAppended
<1>4. g[0] = <<>> /\ \A i \in 1..n : g[i] = g[i - 1] \o seqs[i]
  BY <1>2 DEF JoinSteps
<1> HIDE DEF n, more
<1> DEFINE h == [i \in 0..(n + 1) |-> IF i = n + 1 THEN g[n] \o s ELSE g[i]]
<1>5. h[n + 1] = g[n] \o s /\ \A i \in 0..n : h[i] = g[i]
  BY <1>1
<1> HIDE DEF h
<1>6. ASSUME NEW i \in 1..(n + 1) PROVE h[i] = h[i - 1] \o more[i]
  <2>1. CASE i = n + 1
    <3>1. i - 1 = n /\ n \in 0..n
      BY <1>1, <2>1
    <3>2. QED
      BY <1>3, <1>5, <2>1, <3>1
  <2>2. CASE i # n + 1
    <3>1. i \in 1..n /\ i \in 0..n /\ i - 1 \in 0..n
      BY <1>1, <2>2
    <3>2. QED
      BY <1>3, <1>4, <1>5, <3>1
  <2>3. QED
    BY <2>1, <2>2
<1>7. JoinSteps(more, h)
  <2>1. 0 \in 0..n
    BY <1>1
  <2>2. QED
    BY <1>3, <1>4, <1>5, <1>6, <2>1 DEF JoinSteps
<1>8. FlattenSeq(more) = h[n + 1]
  BY <1>3, <1>7, FlattenIs
<1>9. QED
  BY <1>2, <1>5, <1>8 DEF more

(* A piece in front is in front of all that is joined.                     *)
LEMMA FlattenCons ==
  ASSUME NEW C, NEW s \in Seq(C), NEW seqs \in Pieces(C)
  PROVE  /\ <<s>> \o seqs \in Pieces(C)
         /\ FlattenSeq(seqs) \in Seq(C)
         /\ FlattenSeq(<<s>> \o seqs) = s \o FlattenSeq(seqs)
<1> DEFINE n == Len(seqs)
           more == <<s>> \o seqs
<1>1. n \in Nat
  BY PiecesHave
<1>2. PICK g : /\ JoinSteps(seqs, g)
               /\ \A i \in 0..n : g[i] \in Seq(C)
               /\ FlattenSeq(seqs) = g[n]
  BY FlattenSteps
<1>4. /\ more \in Pieces(C) /\ Len(more) = n + 1
      /\ more[1] = s
      /\ \A i \in 1..n : more[i + 1] = seqs[i]
  BY PieceBefore
<1>5. g[0] = <<>> /\ \A i \in 1..n : g[i] = g[i - 1] \o seqs[i]
  BY <1>2 DEF JoinSteps
<1>6. \A i \in 1..n : seqs[i] \in Seq(C)
  BY PiecesHave
<1> HIDE DEF n, more
<1> DEFINE h == [i \in 0..(n + 1) |-> IF i = 0 THEN <<>> ELSE s \o g[i - 1]]
<1>7. h[0] = <<>> /\ \A i \in 1..(n + 1) : h[i] = s \o g[i - 1]
  BY <1>1
<1> HIDE DEF h
<1>8. ASSUME NEW i \in 1..(n + 1) PROVE h[i] = h[i - 1] \o more[i]
  <2>1. CASE i = 1
    <3>1. i - 1 = 0
      BY <2>1
    <3>2. s \o <<>> = s /\ <<>> \o s = s
      BY ConcatEmptySeq
    <3>3. h[i] = s \o g[0]
      BY <1>7, <3>1
    <3>4. QED
      BY <1>4, <1>5, <1>7, <2>1, <3>1, <3>2, <3>3
  <2>2. CASE i # 1
    <3> DEFINE j == i - 1
    <3>1. /\ j \in 1..n /\ j \in 1..(n + 1) /\ j - 1 \in 0..n /\ j + 1 = i
          /\ i - 1 = j
      BY <1>1, <2>2
    <3> HIDE DEF j
    <3>2. h[i] = s \o g[j] /\ h[j] = s \o g[j - 1] /\ more[i] = seqs[j]
      BY <1>4, <1>7, <3>1
    <3>3. g[j] = g[j - 1] \o seqs[j] /\ g[j - 1] \in Seq(C) /\ seqs[j] \in Seq(C)
      BY <1>2, <1>5, <1>6, <3>1
    <3>4. (s \o g[j - 1]) \o seqs[j] = s \o (g[j - 1] \o seqs[j])
      <4>1. PICK a \in Seq(C), b \in Seq(C) : a = g[j - 1] /\ b = seqs[j]
        BY <3>3
      <4>2. (s \o a) \o b = s \o (a \o b)
        BY ConcatAssociative
      <4>3. QED
        BY <4>1, <4>2
    <3>5. QED
      BY <3>1, <3>2, <3>3, <3>4
  <2>3. QED
    BY <2>1, <2>2
<1>9. JoinSteps(more, h)
  BY <1>4, <1>7, <1>8 DEF JoinSteps
<1>10. FlattenSeq(more) = h[n + 1]
  BY <1>4, <1>9, FlattenIs
<1>11. h[n + 1] = s \o g[n]
  <2>1. n + 1 \in 1..(n + 1) /\ (n + 1) - 1 = n
    BY <1>1
  <2>2. QED
    BY <1>7, <2>1
<1>12. n \in 0..n
  BY <1>1
<1>13. QED
  BY <1>2, <1>4, <1>10, <1>11, <1>12 DEF more

(* Join appends to the first part what the others make of it, each behind  *)
(* a delimiter.                                                            *)
Behind(parts, d) == [k \in 1..(Len(parts) - 1) |-> d \o parts[k + 1]]

(* The first piece, then every other with a delimiter before it.           *)
Unfolds(parts, d, C) ==
  /\ Len(parts) \in Nat \ {0} /\ parts[1] \in Seq(C)
  /\ Behind(parts, d) \in Pieces(C)
  /\ Len(Behind(parts, d)) = Len(parts) - 1
  /\ \A k \in 1..(Len(parts) - 1) : Behind(parts, d)[k] = d \o parts[k + 1]
  /\ FlattenSeq(Behind(parts, d)) \in Seq(C)
  /\ Join(parts, d) = parts[1] \o FlattenSeq(Behind(parts, d))
  /\ Join(parts, d) \in Seq(C)

(* That is what Join does.                                                 *)
LEMMA JoinUnfolds ==
  ASSUME NEW C, NEW d \in Seq(C), NEW parts \in Pieces(C), Len(parts) # 0
  PROVE  Unfolds(parts, d, C)
<1> DEFINE n == Len(parts)
           b == Behind(parts, d)
<1>1. n \in Nat \ {0} /\ \A k \in 1..n : parts[k] \in Seq(C)
  BY PiecesHave
<1>2. parts # <<>> /\ Head(parts) = parts[1]
  <2>1. parts # <<>>
    BY PiecesHave
  <2>2. QED
    BY <1>1, <2>1
<1> HIDE DEF n
<1>3. ASSUME NEW k \in 1..(n - 1) PROVE d \o parts[k + 1] \in Seq(C)
  <2>1. k + 1 \in 1..n
    BY <1>1
  <2>2. PICK p \in Seq(C) : p = parts[k + 1]
    BY <1>1, <2>1
  <2>3. QED
    BY <2>2, ConcatProperties
<1>4. b \in [1..(n - 1) -> Seq(C)] /\ \A k \in 1..(n - 1) : b[k] = d \o parts[k + 1]
  BY <1>3 DEF Behind, n
<1> HIDE DEF b
<1>5. b \in Pieces(C) /\ Len(b) = n - 1
  <2>1. PICK m \in Nat : m = n - 1
    BY <1>1
  <2>2. b \in [1..m -> Seq(C)]
    BY <1>4, <2>1
  <2>3. QED
    BY <2>1, <2>2, PiecesAre
<1>6. FlattenSeq(b) \in Seq(C)
  <2>1. PICK g : JoinSteps(b, g)
    BY <1>5, FlattenSteps
  <2>2. QED
    BY <1>5, <2>1, FlattenIs
<1>7. parts[1] \in Seq(C)
  BY <1>1
<1>8. Join(parts, d) = parts[1] \o FlattenSeq(b)
  BY <1>2 DEF Join, Behind, b
<1>9. parts[1] \o FlattenSeq(b) \in Seq(C)
  <2>1. PICK p \in Seq(C), q \in Seq(C) : p = parts[1] /\ q = FlattenSeq(b)
    BY <1>6, <1>7
  <2>2. QED
    BY <2>1, ConcatProperties
<1>10. QED
  BY <1>1, <1>4, <1>5, <1>6, <1>7, <1>8, <1>9 DEF b, n, Unfolds

(* A single piece joins to itself.                                         *)
LEMMA JoinOne ==
  ASSUME NEW C, NEW d \in Seq(C), NEW x \in Seq(C)
  PROVE  Join(<<x>>, d) = x
<1> DEFINE one == <<x>>
<1>1. one \in Pieces(C) /\ Len(one) = 1 /\ one[1] = x
  BY FewPieces
<1> HIDE DEF one
<1>2. Len(one) # 0
  BY <1>1
<1>3. /\ Behind(one, d) \in Pieces(C) /\ Len(Behind(one, d)) = Len(one) - 1
      /\ Join(one, d) = one[1] \o FlattenSeq(Behind(one, d))
  <2>1. one \in Pieces(C)
    BY <1>1
  <2>2. Unfolds(one, d, C)
    <3>1. one \in Pieces(C) /\ Len(one) # 0
      BY <1>2, <2>1
    <3>2. one \in Pieces(C)
      BY <3>1
    <3>3. Len(one) # 0
      BY <3>1
    <3>4. Unfolds(one, d, C)
      BY <3>2, <3>3, JoinUnfolds
    <3>5. QED
      BY <3>4 DEF Unfolds
  <2>3. QED
    BY <2>2 DEF Unfolds
<1>4. Behind(one, d) = <<>>
  BY <1>1, <1>3, PiecesHave
<1>5. x \o <<>> = x
  BY ConcatEmptySeq
<1>6. QED
  BY <1>1, <1>3, <1>4, <1>5, FlattenEmpty DEF one

(* One more piece is joined behind one more delimiter.                     *)
LEMMA JoinAppend ==
  ASSUME NEW C, NEW d \in Seq(C), NEW parts \in Pieces(C), Len(parts) # 0, NEW x \in Seq(C)
  PROVE  Join(Append(parts, x), d) = (Join(parts, d) \o d) \o x
<1> DEFINE n == Len(parts)
           more == Append(parts, x)
           b == Behind(parts, d)
           c == Behind(more, d)
           f == FlattenSeq(b)
           h == parts[1]
<1>1. /\ n \in Nat \ {0} /\ h \in Seq(C)
      /\ b \in Pieces(C) /\ Len(b) = n - 1
      /\ \A k \in 1..(n - 1) : b[k] = d \o parts[k + 1]
      /\ f \in Seq(C) /\ Join(parts, d) = h \o f
  <2>1. Unfolds(parts, d, C)
    BY JoinUnfolds
  <2>2. QED
    BY <2>1 DEF Unfolds
<1>2. /\ more \in Pieces(C) /\ Len(more) = n + 1
      /\ \A k \in 1..n : more[k] = parts[k]
      /\ more[n + 1] = x
  BY PiecesAppended
<1> HIDE DEF more
<1>3. /\ c \in Pieces(C) /\ Len(c) = n
      /\ \A k \in 1..n : c[k] = d \o more[k + 1]
      /\ Join(more, d) = more[1] \o FlattenSeq(c)
  <2>1. Len(more) # 0 /\ Len(more) - 1 = n
    BY <1>1, <1>2
  <2>2. /\ c \in Pieces(C) /\ Len(c) = Len(more) - 1
        /\ \A k \in 1..(Len(more) - 1) : c[k] = d \o more[k + 1]
        /\ Join(more, d) = more[1] \o FlattenSeq(c)
    <3>1. more \in Pieces(C) /\ Len(more) # 0
      BY <1>2, <2>1
    <3>2. more \in Pieces(C)
      BY <3>1
    <3>3. Len(more) # 0
      BY <3>1
    <3>4. Unfolds(more, d, C)
      BY <3>2, <3>3, JoinUnfolds
    <3>5. QED
      BY <3>4 DEF Unfolds
  <2> HIDE DEF c, n
  <2>3. QED
    BY <2>1, <2>2
<1> HIDE DEF n, b, c
<1>4. d \o x \in Seq(C)
  BY ConcatProperties
<1>5. c = Append(b, d \o x)
  <2> DEFINE e == d \o x
  <2>1. e \in Seq(C)
    BY <1>4
  <2> HIDE DEF e
  <2>3. /\ Append(b, e) \in Pieces(C) /\ Len(Append(b, e)) = Len(b) + 1
        /\ \A k \in 1..Len(b) : Append(b, e)[k] = b[k]
        /\ Append(b, e)[Len(b) + 1] = e
    <3>1. b \in Pieces(C)
      BY <1>1
    <3>2. QED
      BY <2>1, <3>1, PiecesAppended
  <2>4. ASSUME NEW k \in 1..n PROVE c[k] = Append(b, e)[k]
    <3>1. CASE k = n
      <4>1. c[k] = d \o x
        BY <1>1, <1>2, <1>3, <3>1
      <4>2. Append(b, e)[k] = e
        BY <1>1, <2>3, <3>1
      <4>3. QED
        BY <4>1, <4>2 DEF e
    <3>2. CASE k # n
      <4>1. k \in 1..(n - 1) /\ k + 1 \in 1..n
        BY <1>1, <3>2
      <4>2. QED
        BY <1>1, <1>2, <1>3, <2>3, <4>1
    <3>3. QED
      BY <3>1, <3>2
  <2>5. Len(c) = n /\ Len(Append(b, e)) = n
    BY <1>1, <1>3, <2>3
  <2>6. c = Append(b, e)
    <3>1. c \in Pieces(C) /\ Append(b, e) \in Pieces(C) /\ Len(c) = Len(Append(b, e))
          /\ \A k \in 1..Len(c) : c[k] = Append(b, e)[k]
      BY <1>3, <2>3, <2>4, <2>5
    <3>2. QED
      BY <3>1, PiecesEqual
  <2>7. QED
    BY <2>6 DEF e
<1>6. FlattenSeq(c) = f \o (d \o x)
  <2>1. PICK e \in Seq(C) : e = d \o x
    BY <1>4
  <2>2. FlattenSeq(Append(b, e)) = FlattenSeq(b) \o e
    BY <1>1, FlattenAppend
  <2>3. QED
    BY <1>5, <2>1, <2>2
<1>7. more[1] = h
  BY <1>1, <1>2
<1> HIDE DEF f, h
<1>8. h \o (f \o (d \o x)) = ((h \o f) \o d) \o x
  <2>1. h \in Seq(C) /\ f \in Seq(C)
    BY <1>1
  <2>2. h \o f \in Seq(C)
    BY <2>1, ConcatProperties
  <2>3. ((h \o f) \o d) \o x = (h \o f) \o (d \o x)
    <3>1. PICK a \in Seq(C) : a = h \o f
      BY <2>2
    <3>2. (a \o d) \o x = a \o (d \o x)
      BY ConcatAssociative
    <3>3. QED
      BY <3>1, <3>2
  <2>4. (h \o f) \o (d \o x) = h \o (f \o (d \o x))
    <3>1. PICK a \in Seq(C) : a = d \o x
      BY <1>4
    <3>2. PICK p \in Seq(C) : p = h
      BY <2>1
    <3>3. PICK q \in Seq(C) : q = f
      BY <2>1
    <3>4. (p \o q) \o a = p \o (q \o a)
      BY ConcatAssociative
    <3>5. QED
      BY <3>1, <3>2, <3>3, <3>4
  <2>5. QED
    BY <2>3, <2>4
<1>9. QED
  BY <1>1, <1>3, <1>6, <1>7, <1>8 DEF more

(* A piece in front is joined before one more delimiter.                   *)
LEMMA JoinCons ==
  ASSUME NEW C, NEW d \in Seq(C), NEW x \in Seq(C), NEW parts \in Pieces(C), Len(parts) # 0
  PROVE  Join(<<x>> \o parts, d) = x \o (d \o Join(parts, d))
<1> DEFINE n == Len(parts)
           more == <<x>> \o parts
           b == Behind(parts, d)
           c == Behind(more, d)
           f == FlattenSeq(b)
           h == parts[1]
<1>1. /\ n \in Nat \ {0} /\ h \in Seq(C)
      /\ b \in Pieces(C) /\ Len(b) = n - 1
      /\ \A k \in 1..(n - 1) : b[k] = d \o parts[k + 1]
      /\ f \in Seq(C) /\ Join(parts, d) = h \o f
  <2>1. Unfolds(parts, d, C)
    BY JoinUnfolds
  <2>2. QED
    BY <2>1 DEF Unfolds
<1>3. /\ more \in Pieces(C) /\ Len(more) = n + 1
      /\ more[1] = x
      /\ \A k \in 1..n : more[k + 1] = parts[k]
  BY PieceBefore
<1> HIDE DEF more
<1>4. /\ c \in Pieces(C) /\ Len(c) = n
      /\ \A k \in 1..n : c[k] = d \o more[k + 1]
      /\ Join(more, d) = more[1] \o FlattenSeq(c)
  <2>1. Len(more) # 0 /\ Len(more) - 1 = n
    BY <1>1, <1>3
  <2>2. /\ c \in Pieces(C) /\ Len(c) = Len(more) - 1
        /\ \A k \in 1..(Len(more) - 1) : c[k] = d \o more[k + 1]
        /\ Join(more, d) = more[1] \o FlattenSeq(c)
    <3>1. more \in Pieces(C) /\ Len(more) # 0
      BY <1>3, <2>1
    <3>2. more \in Pieces(C)
      BY <3>1
    <3>3. Len(more) # 0
      BY <3>1
    <3>4. Unfolds(more, d, C)
      BY <3>2, <3>3, JoinUnfolds
    <3>5. QED
      BY <3>4 DEF Unfolds
  <2> HIDE DEF c, n
  <2>3. QED
    BY <2>1, <2>2
<1> HIDE DEF n, b, c
<1>5. d \o h \in Seq(C)
  <2> HIDE DEF h
  <2>1. QED
    BY <1>1, ConcatProperties
<1>6. c = <<d \o h>> \o b
  <2> DEFINE e == d \o h
             m == <<e>> \o b
  <2>1. e \in Seq(C)
    BY <1>5
  <2> HIDE DEF e
  <2>3. /\ m \in Pieces(C) /\ Len(m) = Len(b) + 1
        /\ m[1] = e
        /\ \A i \in 1..Len(b) : m[i + 1] = b[i]
    <3>1. b \in Pieces(C)
      BY <1>1
    <3>2. QED
      BY <2>1, <3>1, PieceBefore
  <2> HIDE DEF m
  <2>4. ASSUME NEW k \in 1..n PROVE c[k] = m[k]
    <3>1. c[k] = d \o parts[k]
      BY <1>1, <1>3, <1>4
    <3>2. CASE k = 1
      BY <2>3, <3>1, <3>2 DEF e, h
    <3>3. CASE k # 1
      <4>1. k - 1 \in 1..(n - 1) /\ (k - 1) + 1 = k
        BY <1>1, <3>3
      <4>2. m[(k - 1) + 1] = b[k - 1] /\ b[k - 1] = d \o parts[(k - 1) + 1]
        BY <1>1, <2>3, <4>1
      <4>3. QED
        BY <3>1, <4>1, <4>2
    <3>4. QED
      BY <3>2, <3>3
  <2>5. Len(c) = n /\ Len(m) = n
    BY <1>1, <1>4, <2>3
  <2>6. c = m
    <3>1. c \in Pieces(C) /\ m \in Pieces(C) /\ Len(c) = Len(m)
          /\ \A k \in 1..Len(c) : c[k] = m[k]
      BY <1>4, <2>3, <2>4, <2>5
    <3>2. QED
      BY <3>1, PiecesEqual
  <2>7. QED
    BY <2>6 DEF m, e
<1>7. FlattenSeq(c) = (d \o h) \o f
  <2>1. PICK e \in Seq(C) : e = d \o h
    BY <1>5
  <2>2. FlattenSeq(<<e>> \o b) = e \o FlattenSeq(b)
    BY <1>1, FlattenCons
  <2>3. QED
    BY <1>6, <2>1, <2>2
<1> HIDE DEF h, f
<1>8. (d \o h) \o f = d \o (h \o f)
  BY <1>1, ConcatAssociative
<1>9. QED
  BY <1>1, <1>3, <1>4, <1>7, <1>8 DEF more

(* What holds at a place as soon as it holds at all later ones holds at    *)
(* every place.                                                            *)
LEMMA DownwardInduction ==
  ASSUME NEW n \in Nat, NEW S,
         \A i \in 0..n : (\A j \in (i + 1)..n : j \in S) => i \in S
  PROVE  \A i \in 0..n : i \in S
<1> DEFINE Good == {m \in Nat : \A j \in 0..n : j >= n - m => j \in S}
<1>1. 0 \in Good
  <2>1. ASSUME NEW j \in 0..n, j >= n - 0 PROVE j \in S
    <3>1. j = n /\ ~(\E k \in (j + 1)..n : TRUE)
      BY <2>1
    <3>2. QED
      BY <3>1
  <2>2. QED
    BY <2>1
<1>2. ASSUME NEW m \in Good PROVE m + 1 \in Good
  <2>1. m \in Nat /\ \A j \in 0..n : j >= n - m => j \in S
    OBVIOUS
  <2>2. ASSUME NEW j \in 0..n, j >= n - (m + 1) PROVE j \in S
    <3>1. \A k \in (j + 1)..n : k \in 0..n /\ k >= n - m
      BY <2>1, <2>2
    <3>2. QED
      BY <2>1, <3>1
  <2>3. QED
    BY <2>1, <2>2
<1>3. Good \in SUBSET Nat
  OBVIOUS
<1>4. n \in Good
  <2> HIDE DEF Good
  <2>1. QED
    BY <1>1, <1>2, <1>3, SetInduction
<1>5. QED
  BY <1>4

(* A recursion that goes to a later place until it stops has a solution.   *)
Descends(h, first, n, stop, last, piece, next) ==
  \A i \in first..n : h[i] = IF i \in stop THEN last[i] ELSE piece[i] \o h[next[i]]

(* A function that is defined at a place by its value at a later one.      *)
LEMMA DownwardExists ==
  ASSUME NEW n \in Nat, NEW stop, NEW last, NEW piece, NEW next,
         \A i \in 0..n : i \notin stop => next[i] \in (i + 1)..n
  PROVE  \E h : Descends(h, 0, n, stop, last, piece, next)
<1> DEFINE Good == {m \in Nat : m <= n + 1 =>
                      \E h : Descends(h, (n + 1) - m, n, stop, last, piece, next)}
<1>1. 0 \in Good
  <2>1. Descends(last, (n + 1) - 0, n, stop, last, piece, next)
    <3>1. ~(\E i \in ((n + 1) - 0)..n : TRUE)
      OBVIOUS
    <3>2. QED
      BY <3>1 DEF Descends
  <2>2. QED
    BY <2>1
<1>2. ASSUME NEW m \in Good PROVE m + 1 \in Good
  <2>1. m \in Nat
    OBVIOUS
  <2>2. ASSUME m + 1 <= n + 1
        PROVE  \E h : Descends(h, (n + 1) - (m + 1), n, stop, last, piece, next)
    <3>1. PICK h : Descends(h, (n + 1) - m, n, stop, last, piece, next)
      BY <2>1, <2>2
    <3> DEFINE f == n - m
               g == [i \in f..n |-> IF i # f THEN h[i]
                                    ELSE IF f \in stop THEN last[f] ELSE piece[f] \o h[next[f]]]
    <3>2. f \in 0..n /\ (n + 1) - m = f + 1 /\ (n + 1) - (m + 1) = f
      BY <2>1, <2>2
    <3> HIDE DEF f
    <3>3. \A i \in (f + 1)..n : i \in f..n /\ i \in 0..n /\ g[i] = h[i]
      BY <3>2
    <3>4. ASSUME NEW i \in f..n
          PROVE  g[i] = IF i \in stop THEN last[i] ELSE piece[i] \o g[next[i]]
      <4>1. i \in 0..n /\ \A j \in (i + 1)..n : j \in (f + 1)..n
        BY <3>2
      <4>2. i \notin stop => g[next[i]] = h[next[i]]
        BY <3>3, <4>1
      <4>3. CASE i = f
        <5>1. g[i] = IF i \in stop THEN last[i] ELSE piece[i] \o h[next[i]]
          BY <4>3
        <5>2. QED
          BY <4>2, <5>1
      <4>4. CASE i # f
        <5>1. i \in (f + 1)..n
          BY <3>2, <4>4
        <5>2. h[i] = IF i \in stop THEN last[i] ELSE piece[i] \o h[next[i]]
          BY <3>1, <3>2, <5>1 DEF Descends
        <5>3. QED
          BY <3>3, <4>2, <5>1, <5>2
      <4>5. QED
        BY <4>3, <4>4
    <3> HIDE DEF g
    <3>5. Descends(g, f, n, stop, last, piece, next)
      BY <3>4 DEF Descends
    <3>6. QED
      BY <3>2, <3>5
  <2>3. QED
    BY <2>1, <2>2
<1>3. Good \in SUBSET Nat
  OBVIOUS
<1>4. n + 1 \in Good
  <2> HIDE DEF Good
  <2>1. n + 1 \in Nat
    OBVIOUS
  <2>2. QED
    BY <1>1, <1>2, <1>3, <2>1, SetInduction
<1>5. (n + 1) - (n + 1) = 0
  OBVIOUS
<1>6. QED
  BY <1>4, <1>5

-----------------------------------------------------------------------------
(* What is kept of the first elements, one element after the other.        *)
DropSteps(seq, dropped, g) ==
  /\ g[0] = <<>>
  /\ \A k \in 1..Len(seq) :
       g[k] = IF seq[k] \in dropped THEN g[k - 1] ELSE Append(g[k - 1], seq[k])

(* Dropping goes through the elements one by one.                          *)
LEMMA DropUnfolds ==
  ASSUME NEW E, NEW seq \in Seq(E), NEW dropped
  PROVE  \E g : /\ DropSteps(seq, dropped, g)
                /\ \A k \in 0..Len(seq) : g[k] \in Seq(E)
                /\ Dropping(seq, dropped) = g[Len(seq)]
<1> DEFINE n == Len(seq)
           V == Seq(E)
           Kept(kept, e) == IF e \in dropped THEN kept ELSE Append(kept, e)
           P(h) == h = [s \in SUBSET (1..n) |->
                          IF s = {} THEN <<>> ELSE Kept(h[s \ {Max(s)}], seq[Max(s)])]
           iter == CHOOSE h : P(h)
<1>1. n \in Nat /\ DOMAIN seq = 1..n /\ \A k \in 1..n : seq[k] \in E
  BY LenProperties, ElementOfSeq
<1>1a. <<>> \in V /\ \A v \in V, e \in E : Kept(v, e) \in V
  BY EmptySeq, AppendProperties
<1> HIDE DEF V
<1>2. \E h \in [SUBSET (1..n) -> V] : P(h)
  <2> DEFINE step == [p \in V \X (1..n) |-> Kept(p[1], seq[p[2]])]
  <2>1. step \in [V \X (1..n) -> V]
    <3> HIDE DEF Kept
    <3>1. QED
      BY <1>1, <1>1a
  <2> HIDE DEF step
  <2>2. /\ \A T \in SUBSET (1..n) : T # {} => Max(T) \in T
        /\ \E h \in [SUBSET (1..n) -> V] : Folds(step, <<>>, SUBSET (1..n), h)
    <3>1. PICK base \in V : base = <<>>
      BY <1>1a
    <3>2. n \in Nat
      BY <1>1
    <3> HIDE DEF n
    <3>3. /\ \A T \in SUBSET (1..n) : T # {} => Max(T) \in T
          /\ \E h \in [SUBSET (1..n) -> V] : Folds(step, base, SUBSET (1..n), h)
      BY <2>1, <3>2, PlacesFold
    <3>4. QED
      BY <3>1, <3>3
  <2>3. PICK h \in [SUBSET (1..n) -> V] : Folds(step, <<>>, SUBSET (1..n), h)
    BY <2>2
  <2>4. \A s \in SUBSET (1..n) : s # {} => Max(s) \in s /\ s \ {Max(s)} \in SUBSET (1..n)
    BY <2>2
  <2> HIDE DEF Kept
  <2>5. ASSUME NEW s \in SUBSET (1..n)
        PROVE  h[s] = IF s = {} THEN <<>> ELSE Kept(h[s \ {Max(s)}], seq[Max(s)])
    <3>1. h[s] = IF s = {} THEN <<>> ELSE step[<<h[s \ {Max(s)}], Max(s)>>]
      BY <2>3 DEF Folds
    <3>2. s # {} => <<h[s \ {Max(s)}], Max(s)>> \in V \X (1..n)
      BY <2>4
    <3>3. s # {} => step[<<h[s \ {Max(s)}], Max(s)>>] = Kept(h[s \ {Max(s)}], seq[Max(s)])
      BY <3>2 DEF step
    <3>4. QED
      BY <3>1, <3>3
  <2>6. P(h)
    BY <2>5
  <2>7. QED
    BY <2>6
<1>3. P(iter)
  <2>1. \E h : P(h)
    BY <1>2
  <2> HIDE DEF P
  <2>2. QED
    BY <2>1
<1>4. Dropping(seq, dropped) = iter[1..n]
  BY <1>1 DEF Dropping, FoldLeft, MapThenFoldSet
<1> HIDE DEF iter
<1> DEFINE g == [k \in 0..n |-> iter[1..k]]
<1>5. g[0] = <<>>
  <2>1. 1..0 = {} /\ 0 \in 0..n
    BY <1>1
  <2>2. iter[{}] = <<>>
    BY <1>3
  <2>3. QED
    BY <2>1, <2>2
<1>6. ASSUME NEW k \in 1..n PROVE g[k] = Kept(g[k - 1], seq[k])
  <2>1. k \in Nat \ {0} /\ 1..k \in SUBSET (1..n) /\ k \in 0..n /\ k - 1 \in 0..n
    BY <1>1
  <2>2. Max(1..k) = k /\ (1..k) \ {k} = 1..(k - 1) /\ 1..k # {}
    BY <2>1, PrefixFolds
  <2> HIDE DEF Kept
  <2>3. iter[1..k] = Kept(iter[1..(k - 1)], seq[k])
    BY <1>3, <2>1, <2>2
  <2>4. QED
    BY <2>1, <2>3
<1>7. g[n] = iter[1..n]
  BY <1>1
<1> HIDE DEF g
<1> DEFINE Good == {k \in Nat : k <= n => g[k] \in V}
<1>8. 0 \in Good
  BY <1>1a, <1>5
<1>9. ASSUME NEW k \in Good PROVE k + 1 \in Good
  <2>1. CASE k + 1 <= n
    <3>1. k + 1 \in 1..n /\ (k + 1) - 1 = k /\ g[k] \in V
      BY <1>1, <2>1
    <3> HIDE DEF Kept
    <3>2. Kept(g[k], seq[k + 1]) \in V
      BY <1>1, <1>1a, <3>1
    <3>3. g[k + 1] \in V
      BY <1>6, <3>1, <3>2
    <3>4. QED
      BY <3>3
  <2>2. QED
    BY <2>1
<1>10. Good \in SUBSET Nat
  OBVIOUS
<1> HIDE DEF Good
<1>11. \A k \in Nat : k \in Good
  BY <1>8, <1>9, <1>10, SetInduction
<1>12. \A k \in 0..n : g[k] \in V
  BY <1>1, <1>11 DEF Good
<1>13. DropSteps(seq, dropped, g)
  BY <1>5, <1>6 DEF DropSteps
<1>14. QED
  BY <1>4, <1>7, <1>12, <1>13 DEF V

(* Whoever follows these steps keeps the same.                             *)
LEMMA DropIs ==
  ASSUME NEW E, NEW seq \in Seq(E), NEW dropped, NEW h, DropSteps(seq, dropped, h)
  PROVE  Dropping(seq, dropped) = h[Len(seq)]
<1> DEFINE n == Len(seq)
<1>1. n \in Nat
  BY LenProperties
<1>2. PICK g : DropSteps(seq, dropped, g) /\ Dropping(seq, dropped) = g[n]
  BY DropUnfolds
<1>3. /\ g[0] = h[0]
      /\ \A k \in 1..n : /\ g[k] = IF seq[k] \in dropped THEN g[k - 1] ELSE Append(g[k - 1], seq[k])
                         /\ h[k] = IF seq[k] \in dropped THEN h[k - 1] ELSE Append(h[k - 1], seq[k])
  BY <1>2 DEF DropSteps
<1> DEFINE Good == {k \in Nat : k <= n => g[k] = h[k]}
<1> HIDE DEF n
<1>4. 0 \in Good
  BY <1>3
<1>5. ASSUME NEW k \in Good PROVE k + 1 \in Good
  <2>1. k + 1 <= n => k + 1 \in 1..n /\ (k + 1) - 1 = k /\ g[k] = h[k]
    BY <1>1
  <2>2. k + 1 <= n => g[k + 1] = h[k + 1]
    BY <1>3, <2>1
  <2>3. QED
    BY <2>2
<1>6. Good \in SUBSET Nat
  OBVIOUS
<1> HIDE DEF Good
<1>7. n \in Good
  BY <1>1, <1>4, <1>5, <1>6, SetInduction
<1>8. g[n] = h[n]
  BY <1>1, <1>7 DEF Good
<1>9. QED
  BY <1>2, <1>8 DEF n

(* An element behind what is joined.                                       *)
LEMMA JoinedAppend ==
  ASSUME NEW E, NEW a \in Seq(E), NEW b \in Seq(E), NEW e \in E
  PROVE  a \o Append(b, e) = Append(a \o b, e)
<1>1. <<e>> \in Seq(E)
  OBVIOUS
<1>2. a \o b \in Seq(E)
  BY ConcatProperties
<1>3. Append(b, e) = b \o <<e>>
  BY AppendIsConcat
<1>4. Append(a \o b, e) = (a \o b) \o <<e>>
  BY <1>2, AppendIsConcat
<1>5. (a \o b) \o <<e>> = a \o (b \o <<e>>)
  BY <1>1, ConcatAssociative
<1>6. QED
  BY <1>3, <1>4, <1>5

(* What is left has elements of the same kind.                             *)
LEMMA DropType ==
  ASSUME NEW E, NEW s \in Seq(E), NEW dropped
  PROVE  Dropping(s, dropped) \in Seq(E)
<1>1. Len(s) \in 0..Len(s)
  BY LenProperties
<1>2. QED
  BY <1>1, DropUnfolds

(* What is kept of two sequences in a row.                                 *)
DropsApart(s, t, dropped) ==
  Dropping(s \o t, dropped) = Dropping(s, dropped) \o Dropping(t, dropped)

(* Dropping from two sequences, one after the other.                       *)
LEMMA DropJoined ==
  ASSUME NEW E, NEW s \in Seq(E), NEW t \in Seq(E), NEW dropped
  PROVE  DropsApart(s, t, dropped)
<1> DEFINE m == Len(s)
           n == Len(t)
           all == s \o t
<1>1. /\ all \in Seq(E) /\ Len(all) = m + n /\ m \in Nat /\ n \in Nat
      /\ \A j \in 1..m : all[j] = s[j]
      /\ \A j \in 1..n : all[m + j] = t[j]
  BY JoinedElements
<1>2. PICK g : /\ DropSteps(s, dropped, g)
               /\ \A k \in 0..m : g[k] \in Seq(E)
               /\ Dropping(s, dropped) = g[m]
  BY DropUnfolds
<1>3. PICK h : /\ DropSteps(t, dropped, h)
               /\ \A k \in 0..n : h[k] \in Seq(E)
               /\ Dropping(t, dropped) = h[n]
  BY DropUnfolds
<1>4. \A k \in 1..n : t[k] \in E
  BY ElementOfSeq
<1>5. /\ g[0] = <<>>
      /\ \A k \in 1..m : g[k] = IF s[k] \in dropped THEN g[k - 1] ELSE Append(g[k - 1], s[k])
      /\ h[0] = <<>>
      /\ \A k \in 1..n : h[k] = IF t[k] \in dropped THEN h[k - 1] ELSE Append(h[k - 1], t[k])
  BY <1>2, <1>3 DEF DropSteps
<1>6. m \in 0..m /\ n \in 0..n
  BY <1>1
<1> HIDE DEF m, n, all
<1> DEFINE f == [k \in 0..(m + n) |-> IF k <= m THEN g[k] ELSE g[m] \o h[k - m]]
<1>7. /\ \A k \in 0..m : f[k] = g[k]
      /\ \A k \in 1..n : f[m + k] = g[m] \o h[k]
  <2>1. \A k \in 0..m : k \in 0..(m + n) /\ k <= m
    BY <1>1
  <2>2. \A k \in 1..n : m + k \in 0..(m + n) /\ ~(m + k <= m) /\ (m + k) - m = k
    BY <1>1
  <2>3. QED
    BY <2>1, <2>2
<1>8. f[m] = g[m] \o h[0]
  <2>1. PICK a \in Seq(E) : a = g[m]
    BY <1>2, <1>6
  <2>2. a \o <<>> = a
    BY ConcatEmptySeq
  <2>3. f[m] = g[m]
    BY <1>6, <1>7
  <2>4. QED
    BY <1>5, <2>1, <2>2, <2>3
<1> HIDE DEF f
<1>9. \A k \in 0..n : f[m + k] = g[m] \o h[k]
  <2>1. \A k \in 0..n : k = 0 \/ k \in 1..n
    BY <1>1
  <2>2. m + 0 = m
    BY <1>1
  <2>3. QED
    BY <1>7, <1>8, <2>1, <2>2
<1>10. ASSUME NEW k \in 1..(m + n)
       PROVE  f[k] = IF all[k] \in dropped THEN f[k - 1] ELSE Append(f[k - 1], all[k])
  <2>1. CASE k <= m
    <3>1. k \in 1..m /\ k \in 0..m /\ k - 1 \in 0..m
      BY <1>1, <2>1
    <3>2. f[k] = g[k] /\ f[k - 1] = g[k - 1] /\ all[k] = s[k]
      BY <1>1, <1>7, <3>1
    <3>3. QED
      BY <1>5, <3>1, <3>2
  <2>2. CASE ~(k <= m)
    <3>1. PICK j \in 1..n : k = m + j
      <4>1. k - m \in 1..n /\ k = m + (k - m)
        BY <1>1, <2>2
      <4>2. QED
        BY <4>1
    <3>2. j \in 0..n /\ j - 1 \in 0..n /\ k - 1 = m + (j - 1)
      BY <1>1, <3>1
    <3>3. f[k] = g[m] \o h[j] /\ f[k - 1] = g[m] \o h[j - 1] /\ all[k] = t[j]
      BY <1>1, <1>9, <3>1, <3>2
    <3>4. PICK a \in Seq(E), b \in Seq(E), e \in E : a = g[m] /\ b = h[j - 1] /\ e = t[j]
      BY <1>2, <1>3, <1>4, <1>6, <3>2
    <3>5. a \o Append(b, e) = Append(a \o b, e)
      BY JoinedAppend
    <3>6. h[j] = IF t[j] \in dropped THEN h[j - 1] ELSE Append(h[j - 1], t[j])
      BY <1>5
    <3>7. QED
      BY <3>3, <3>4, <3>5, <3>6
  <2>3. QED
    BY <2>1, <2>2
<1>11. f[0] = <<>>
  <2>1. 0 \in 0..m
    BY <1>1
  <2>2. QED
    BY <1>5, <1>7, <2>1
<1>12. DropSteps(all, dropped, f)
  BY <1>1, <1>10, <1>11 DEF DropSteps
<1>13. Dropping(all, dropped) = f[m + n]
  BY <1>1, <1>12, DropIs
<1>14. f[m + n] = g[m] \o h[n]
  BY <1>6, <1>9
<1>15. QED
  BY <1>2, <1>3, <1>6, <1>13, <1>14 DEF all, m, n, DropsApart

(* Nothing of it is kept, or all, or what becomes of one.                  *)
LEMMA DropNone ==
  ASSUME NEW E, NEW s \in Seq(E), NEW dropped, \A k \in 1..Len(s) : s[k] \notin dropped
  PROVE  Dropping(s, dropped) = s
<1> DEFINE n == Len(s)
           g == [k \in 0..n |-> SubSeq(s, 1, k)]
<1>1. n \in Nat /\ \A k \in 1..n : s[k] \in E
  BY LenProperties, ElementOfSeq
<1>2. \A k \in 0..n : /\ SubSeq(s, 1, k) \in Seq(E) /\ Len(SubSeq(s, 1, k)) = k
                      /\ \A i \in 1..k : SubSeq(s, 1, k)[i] = s[i]
  <2> SUFFICES ASSUME NEW k \in 0..n
               PROVE  /\ SubSeq(s, 1, k) \in Seq(E) /\ Len(SubSeq(s, 1, k)) = k
                      /\ \A i \in 1..k : SubSeq(s, 1, k)[i] = s[i]
    OBVIOUS
  <2>1. PICK a : a = 1
    OBVIOUS
  <2>2. a \in 1..(Len(s) + 1) /\ k \in (a - 1)..Len(s)
    BY <1>1, <2>1
  <2>3. /\ SubSeq(s, a, k) \in Seq(E)
        /\ Len(SubSeq(s, a, k)) = k - a + 1
        /\ \A i \in 1..(k - a + 1) : SubSeq(s, a, k)[i] = s[a + i - 1]
    BY <2>2, Slice
  <2>4. k - a + 1 = k /\ \A i \in 1..k : a + i - 1 = i
    BY <1>1, <2>1
  <2>5. QED
    BY <2>1, <2>3, <2>4
<1>3. g[0] = <<>>
  <2>1. 0 \in 0..n
    BY <1>1
  <2>2. Len(SubSeq(s, 1, 0)) = 0 /\ SubSeq(s, 1, 0) \in Seq(E)
    BY <1>2, <2>1
  <2>3. SubSeq(s, 1, 0) = <<>>
    BY <2>2, EmptySeq
  <2>4. QED
    BY <2>1, <2>3
<1>4. ASSUME NEW k \in 1..n PROVE g[k] = Append(g[k - 1], s[k])
  <2>1. k \in 0..n /\ k - 1 \in 0..n /\ k - 1 + 1 = k /\ s[k] \in E
    BY <1>1
  <2>2. PICK a \in Seq(E) : /\ a = SubSeq(s, 1, k - 1) /\ Len(a) = k - 1
                            /\ \A i \in 1..(k - 1) : a[i] = s[i]
    BY <1>2, <2>1
  <2>3. PICK b \in Seq(E) : /\ b = SubSeq(s, 1, k) /\ Len(b) = k
                            /\ \A i \in 1..k : b[i] = s[i]
    BY <1>2, <2>1
  <2>4. PICK e \in E : e = s[k]
    BY <2>1
  <2>5. /\ Append(a, e) \in Seq(E) /\ Len(Append(a, e)) = Len(a) + 1
        /\ \A i \in 1..Len(a) : Append(a, e)[i] = a[i]
        /\ Append(a, e)[Len(a) + 1] = e
    BY AppendProperties
  <2>6. \A i \in 1..k : i \in 1..(k - 1) \/ i = k
    BY <1>1
  <2>7. \A i \in 1..k : Append(a, e)[i] = b[i]
    BY <2>1, <2>2, <2>3, <2>4, <2>5, <2>6
  <2>8. Append(a, e) = b
    <3>1. Len(Append(a, e)) = Len(b)
      BY <2>1, <2>2, <2>3, <2>5
    <3>2. \A i \in 1..Len(b) : Append(a, e)[i] = b[i]
      BY <2>3, <2>7
    <3>3. QED
      BY <2>5, <3>1, <3>2, SeqEqual
  <2>9. QED
    BY <2>1, <2>2, <2>3, <2>4, <2>8
<1>5. g[n] = s
  <2>1. n \in 0..n /\ 1..n = 1..Len(s)
    BY <1>1
  <2>2. SubSeq(s, 1, n) = s
    <3>1. PICK b \in Seq(E) : b = SubSeq(s, 1, n) /\ Len(b) = n /\ \A i \in 1..n : b[i] = s[i]
      BY <1>2, <2>1
    <3>2. b = s
      BY <3>1, SeqEqual
    <3>3. QED
      BY <3>1, <3>2
  <2>3. QED
    BY <2>1, <2>2
<1> HIDE DEF g
<1>6. DropSteps(s, dropped, g)
  BY <1>3, <1>4 DEF DropSteps
<1>7. QED
  BY <1>5, <1>6, DropIs

(* Dropping from nothing, and from one element.                            *)
LEMMA DropFew ==
  ASSUME NEW E, NEW e \in E, NEW dropped
  PROVE  /\ Dropping(<<>>, dropped) = <<>>
         /\ Dropping(<<e>>, dropped) = IF e \in dropped THEN <<>> ELSE <<e>>
<1> DEFINE one == <<e>>
           g == [k \in 0..1 |-> IF k = 0 \/ e \in dropped THEN <<>> ELSE <<e>>]
<1>1. <<>> \in Seq(E) /\ Len(<<>>) = 0 /\ one \in Seq(E) /\ Len(one) = 1 /\ one[1] = e
  BY EmptySeq
<1>2. Append(<<>>, e) = <<e>>
  OBVIOUS
<1>3. Dropping(<<>>, dropped) = <<>>
  <2>1. \A k \in 1..Len(<<>>) : <<>>[k] \notin dropped
    BY <1>1
  <2>2. QED
    BY <1>1, <2>1, DropNone
<1>4. DropSteps(one, dropped, g)
  <2>1. g[0] = <<>> /\ g[1] = IF e \in dropped THEN <<>> ELSE <<e>>
    OBVIOUS
  <2> HIDE DEF one, g
  <2>2. \A k \in 1..1 : k = 1 /\ k - 1 = 0
    OBVIOUS
  <2>3. QED
    BY <1>1, <1>2, <2>1, <2>2 DEF DropSteps
<1>5. g[1] = IF e \in dropped THEN <<>> ELSE <<e>>
  OBVIOUS
<1>6. Dropping(one, dropped) = g[Len(one)]
  <2> HIDE DEF one, g
  <2>1. one \in Seq(E)
    BY <1>1
  <2>2. QED
    BY <1>4, <2>1, DropIs
<1>7. QED
  BY <1>1, <1>3, <1>5, <1>6

(* Dropping from a sequence with one element more in front.                *)
LEMMA DropCons ==
  ASSUME NEW E, NEW e \in E, NEW s \in Seq(E), NEW dropped
  PROVE  Dropping(<<e>> \o s, dropped) =
           IF e \in dropped THEN Dropping(s, dropped) ELSE <<e>> \o Dropping(s, dropped)
<1> DEFINE one == <<e>>
<1>1. one \in Seq(E)
  OBVIOUS
<1>2. Dropping(one, dropped) = IF e \in dropped THEN <<>> ELSE one
  <2>1. Dropping(<<e>>, dropped) = IF e \in dropped THEN <<>> ELSE <<e>>
    BY DropFew
  <2>2. QED
    BY <2>1
<1> HIDE DEF one
<1>3. Dropping(one \o s, dropped) = Dropping(one, dropped) \o Dropping(s, dropped)
  <2>1. PICK t \in Seq(E) : t = one
    BY <1>1
  <2>2. DropsApart(t, s, dropped)
    BY DropJoined
  <2>3. QED
    BY <2>1, <2>2 DEF DropsApart
<1>4. PICK d \in Seq(E) : d = Dropping(s, dropped)
  BY DropType
<1>5. <<>> \o d = d
  BY ConcatEmptySeq
<1>6. QED
  BY <1>2, <1>3, <1>4, <1>5 DEF one

-----------------------------------------------------------------------------
(* What a text has from one position up to another, counted from 0.        *)
Part(t, a, b) == SubSeq(t, a + 1, b)

(* What a part of a text has, and that Substr returns it.                  *)
LEMMA PartHas ==
  ASSUME NEW C, NEW t \in Seq(C), NEW a \in 0..Len(t), NEW b \in a..Len(t)
  PROVE  /\ Len(t) \in Nat /\ a \in Nat /\ b \in Nat
         /\ Part(t, a, b) \in Seq(C) /\ Len(Part(t, a, b)) = b - a
         /\ \A i \in 1..(b - a) : Part(t, a, b)[i] = t[a + i]
         /\ Substr(t, a, b - a) = Part(t, a, b)
         /\ Substr(t, a, -1) = Part(t, a, Len(t))
<1>1. Len(t) \in Nat /\ a \in Nat /\ b \in Nat /\ a <= b /\ b <= Len(t)
  BY LenProperties
<1>2. PICK c : c = a + 1
  OBVIOUS
<1>3. c \in 1..(Len(t) + 1) /\ b \in (c - 1)..Len(t)
  BY <1>1, <1>2
<1>4. /\ SubSeq(t, c, b) \in Seq(C)
      /\ Len(SubSeq(t, c, b)) = b - c + 1
      /\ \A i \in 1..(b - c + 1) : SubSeq(t, c, b)[i] = t[c + i - 1]
  BY <1>3, Slice
<1>5. b - c + 1 = b - a /\ \A i \in 1..(b - a) : c + i - 1 = a + i
  BY <1>1, <1>2
<1>6. /\ Part(t, a, b) \in Seq(C) /\ Len(Part(t, a, b)) = b - a
      /\ \A i \in 1..(b - a) : Part(t, a, b)[i] = t[a + i]
  BY <1>2, <1>4, <1>5 DEF Part
<1>7. Substr(t, a, b - a) = Part(t, a, b)
  <2>1. b - a \in Nat /\ a + (b - a) <= Len(t) /\ a + (b - a) = b
    BY <1>1
  <2>2. \A count \in Nat : a + count <= Len(t) => Substr(t, a, count) = SubSeq(t, a + 1, a + count)
    BY SubstrIs
  <2>3. Substr(t, a, b - a) = SubSeq(t, a + 1, a + (b - a))
    BY <2>1, <2>2
  <2>4. QED
    BY <2>1, <2>3 DEF Part
<1>8. Substr(t, a, -1) = Part(t, a, Len(t))
  <2>1. \A count \in Int : count < 0 => Substr(t, a, count) = SubSeq(t, a + 1, Len(t))
    BY SubstrIs
  <2>2. -1 \in Int /\ -1 < 0
    OBVIOUS
  <2>3. QED
    BY <2>1, <2>2 DEF Part
<1>9. QED
  BY <1>1, <1>6, <1>7, <1>8

(* A part and the next one.                                                *)
LEMMA PartsJoined ==
  ASSUME NEW C, NEW t \in Seq(C), NEW a \in 0..Len(t), NEW b \in a..Len(t), NEW c \in b..Len(t)
  PROVE  Part(t, a, b) \o Part(t, b, c) = Part(t, a, c)
<1>1. Len(t) \in Nat /\ a \in Nat /\ b \in Nat /\ a <= b /\ b <= Len(t)
  BY LenProperties
<1>2. c \in Nat /\ c \in a..Len(t) /\ b \in 0..Len(t) /\ b <= c
  BY <1>1
<1>3. PICK p \in Seq(C) : /\ p = Part(t, a, b) /\ Len(p) = b - a
                          /\ \A i \in 1..(b - a) : p[i] = t[a + i]
  BY PartHas
<1>4. PICK q \in Seq(C) : /\ q = Part(t, b, c) /\ Len(q) = c - b
                          /\ \A i \in 1..(c - b) : q[i] = t[b + i]
  BY <1>2, PartHas
<1>5. PICK r \in Seq(C) : /\ r = Part(t, a, c) /\ Len(r) = c - a
                          /\ \A i \in 1..(c - a) : r[i] = t[a + i]
  BY <1>2, PartHas
<1>6. /\ p \o q \in Seq(C) /\ Len(p \o q) = Len(p) + Len(q)
      /\ \A j \in 1..Len(p) : (p \o q)[j] = p[j]
      /\ \A j \in 1..Len(q) : (p \o q)[Len(p) + j] = q[j]
  BY JoinedElements
<1>7. Len(p \o q) = Len(r)
  BY <1>1, <1>2, <1>3, <1>4, <1>5, <1>6
<1>8. ASSUME NEW i \in 1..Len(r) PROVE (p \o q)[i] = r[i]
  <2>1. r[i] = t[a + i]
    BY <1>5
  <2>2. CASE i <= b - a
    <3>1. i \in 1..Len(p)
      BY <1>1, <1>3, <2>2
    <3>2. QED
      BY <1>3, <1>6, <2>1, <3>1
  <2>3. CASE ~(i <= b - a)
    <3>1. PICK j \in 1..Len(q) : i = Len(p) + j
      <4>1. i - (b - a) \in 1..Len(q) /\ i = Len(p) + (i - (b - a))
        BY <1>1, <1>2, <1>3, <1>4, <1>5, <2>3
      <4>2. QED
        BY <4>1
    <3>2. b + j = a + i
      BY <1>1, <1>2, <1>3, <1>4, <3>1
    <3>3. QED
      BY <1>4, <1>6, <2>1, <3>1, <3>2
  <2>4. QED
    BY <2>2, <2>3
<1>9. p \o q = r
  BY <1>5, <1>6, <1>7, <1>8, SeqEqual
<1>10. QED
  BY <1>3, <1>4, <1>5, <1>9

(* The whole text, and parts without a character.                          *)
LEMMA PartsAtEnds ==
  ASSUME NEW C, NEW t \in Seq(C)
  PROVE  /\ Part(t, 0, Len(t)) = t
         /\ \A a \in 0..Len(t) : Part(t, a, a) = <<>>
         /\ \A a \in 0..Len(t) : \A b \in a..Len(t) : Part(t, a, b) = <<>> => a = b
<1>1. Len(t) \in Nat
  BY LenProperties
<1>2. Part(t, 0, Len(t)) = t
  <2>1. 0 \in 0..Len(t) /\ Len(t) \in 0..Len(t)
    BY <1>1
  <2>2. PICK r \in Seq(C) : /\ r = Part(t, 0, Len(t)) /\ Len(r) = Len(t) - 0
                            /\ \A i \in 1..(Len(t) - 0) : r[i] = t[0 + i]
    BY <2>1, PartHas
  <2>3. Len(r) = Len(t) /\ \A i \in 1..Len(t) : r[i] = t[i]
    BY <1>1, <2>2
  <2>4. r = t
    BY <2>3, SeqEqual
  <2>5. QED
    BY <2>2, <2>4
<1>3. ASSUME NEW a \in 0..Len(t) PROVE Part(t, a, a) = <<>>
  <2>1. a \in a..Len(t) /\ a - a = 0
    BY <1>1
  <2>2. Part(t, a, a) \in Seq(C) /\ Len(Part(t, a, a)) = a - a
    BY <2>1, PartHas
  <2>3. QED
    BY <2>1, <2>2, EmptySeq
<1>4. ASSUME NEW a \in 0..Len(t), NEW b \in a..Len(t), Part(t, a, b) = <<>> PROVE a = b
  <2>1. Len(Part(t, a, b)) = b - a
    BY PartHas
  <2>2. Len(<<>>) = 0
    BY EmptySeq
  <2>3. QED
    BY <1>1, <1>4, <2>1, <2>2
<1>5. QED
  BY <1>2, <1>3, <1>4

(* A part that is longer by a character.                                   *)
LEMMA PartAppend ==
  ASSUME NEW C, NEW t \in Seq(C), NEW b \in 0..(Len(t) - 1), NEW a \in 0..b
  PROVE  /\ t[b + 1] \in C
         /\ Part(t, a, b + 1) = Append(Part(t, a, b), t[b + 1])
         /\ Part(t, b, b + 1) = <<t[b + 1]>>
<1>1. Len(t) \in Nat /\ a \in Nat /\ b \in Nat /\ a <= b /\ b + 1 <= Len(t) /\ (b + 1) - b = 1
  BY LenProperties
<1>2. /\ a \in 0..Len(t) /\ b \in a..Len(t) /\ b + 1 \in b..Len(t) /\ b \in 0..Len(t)
      /\ b + 1 \in 1..Len(t)
  BY <1>1
<1>3. t[b + 1] \in C
  BY <1>2, ElementOfSeq
<1>4. Part(t, b, b + 1) = <<t[b + 1]>>
  <2>1. PICK r \in Seq(C) : /\ r = Part(t, b, b + 1) /\ Len(r) = (b + 1) - b
                            /\ \A i \in 1..((b + 1) - b) : r[i] = t[b + i]
    BY <1>2, PartHas
  <2>2. Len(r) = 1 /\ r[1] = t[b + 1]
    BY <1>1, <2>1
  <2>3. r = <<t[b + 1]>>
    <3> DEFINE one == <<t[b + 1]>>
    <3>1. one \in Seq(C) /\ Len(one) = 1 /\ one[1] = t[b + 1]
      BY <1>3
    <3> HIDE DEF one
    <3>2. \A i \in 1..1 : i = 1
      OBVIOUS
    <3>3. r = one
      BY <2>2, <3>1, <3>2, SeqEqual
    <3>4. QED
      BY <3>3 DEF one
  <2>4. QED
    BY <2>1, <2>3
<1>5. Part(t, a, b) \o Part(t, b, b + 1) = Part(t, a, b + 1)
  <2>1. PICK c \in b..Len(t) : c = b + 1
    BY <1>2
  <2>2. Part(t, a, b) \o Part(t, b, c) = Part(t, a, c)
    BY <1>2, PartsJoined
  <2>3. QED
    BY <2>1, <2>2
<1>6. Append(Part(t, a, b), t[b + 1]) = Part(t, a, b) \o <<t[b + 1]>>
  <2>1. PICK p \in Seq(C) : p = Part(t, a, b)
    BY <1>2, PartHas
  <2>2. PICK e \in C : e = t[b + 1]
    BY <1>3
  <2>3. Append(p, e) = p \o <<e>>
    BY AppendIsConcat
  <2>4. QED
    BY <2>1, <2>2, <2>3
<1>7. QED
  BY <1>3, <1>4, <1>5, <1>6

(* The chunks that begin at each position.                                 *)
ChunkSteps(f, text, size) ==
  \A i \in 0..Len(text) :
    f[i] = IF i + size >= Len(text) THEN <<Part(text, i, Len(text))>>
           ELSE <<Part(text, i, i + size)>> \o f[i + size]

(* That is what Chunks does.                                               *)
LEMMA ChunksUnfold ==
  ASSUME NEW C, NEW text \in Seq(C), NEW size \in Nat \ {0}
  PROVE  \E f : ChunkSteps(f, text, size) /\ Chunks(text, size) = f[0]
<1> DEFINE n == Len(text)
           Q(h) == h = [prev \in 0..n |->
                          IF prev + size >= n THEN <<Substr(text, prev, -1)>>
                          ELSE <<Substr(text, prev, size)>> \o h[prev + size]]
           f == CHOOSE h : Q(h)
           stop == {i \in 0..n : i + size >= n}
           last == [i \in 0..n |-> <<Substr(text, i, -1)>>]
           piece == [i \in 0..n |-> <<Substr(text, i, size)>>]
           next == [i \in 0..n |-> i + size]
<1>1. n \in Nat /\ size \in Nat /\ size > 0
  BY LenProperties
<1>2. PICK h : Descends(h, 0, n, stop, last, piece, next)
  <2>1. \A i \in 0..n : i \notin stop => next[i] \in (i + 1)..n
    BY <1>1
  <2>2. n \in Nat
    BY <1>1
  <2> HIDE DEF n, stop, last, piece, next
  <2>3. QED
    BY <2>1, <2>2, DownwardExists
<1>3. ASSUME NEW i \in 0..n
      PROVE  h[i] = IF i + size >= n THEN <<Substr(text, i, -1)>>
                    ELSE <<Substr(text, i, size)>> \o h[i + size]
  <2>1. h[i] = IF i \in stop THEN last[i] ELSE piece[i] \o h[next[i]]
    BY <1>2 DEF Descends
  <2>2. QED
    BY <2>1
<1>4. \E g : Q(g)
  <2> DEFINE g == [i \in 0..n |-> h[i]]
  <2>1. ASSUME NEW i \in 0..n
        PROVE  g[i] = IF i + size >= n THEN <<Substr(text, i, -1)>>
                      ELSE <<Substr(text, i, size)>> \o g[i + size]
    <3>1. ~(i + size >= n) => i + size \in 0..n
      BY <1>1
    <3>2. QED
      BY <1>3, <3>1
  <2>2. Q(g)
    BY <2>1
  <2>3. QED
    BY <2>2
<1>5. Q(f)
  <2> HIDE DEF Q
  <2>1. QED
    BY <1>4
<1>6. Chunks(text, size) = f[0]
  BY DEF Chunks
<1> HIDE DEF f
<1>7. ASSUME NEW i \in 0..n
      PROVE  f[i] = IF i + size >= n THEN <<Part(text, i, n)>>
                    ELSE <<Part(text, i, i + size)>> \o f[i + size]
  <2>1. n \in i..n
    BY <1>1
  <2>2. Substr(text, i, -1) = Part(text, i, n)
    BY <2>1, PartHas
  <2>3. ASSUME ~(i + size >= n) PROVE Substr(text, i, size) = Part(text, i, i + size)
    <3>1. PICK b \in i..n : b = i + size
      BY <1>1, <2>3
    <3>2. Substr(text, i, b - i) = Part(text, i, b)
      BY PartHas
    <3>3. b - i = size
      BY <1>1, <3>1
    <3>4. QED
      BY <3>1, <3>2, <3>3
  <2>4. f[i] = IF i + size >= n THEN <<Substr(text, i, -1)>>
               ELSE <<Substr(text, i, size)>> \o f[i + size]
    BY <1>5
  <2>5. QED
    BY <2>2, <2>3, <2>4
<1>8. ChunkSteps(f, text, size)
  BY <1>7 DEF ChunkSteps
<1>9. QED
  BY <1>6, <1>8

(* One piece alone.                                                        *)
LEMMA FlattenOne ==
  ASSUME NEW C, NEW s \in Seq(C)
  PROVE  FlattenSeq(<<s>>) = s
<1>1. <<>> \in Pieces(C)
  BY FewPieces
<1>2. PICK none \in Pieces(C) : none = <<>>
  BY <1>1
<1>3. FlattenSeq(Append(none, s)) = FlattenSeq(none) \o s
  BY FlattenAppend
<1>4. Append(<<>>, s) = <<s>>
  OBVIOUS
<1>5. <<>> \o s = s
  BY ConcatEmptySeq
<1>6. QED
  BY <1>2, <1>3, <1>4, <1>5, FlattenEmpty

(* No piece is longer than so many characters.                             *)
Within(pieces, size) == \A k \in 1..Len(pieces) : Len(pieces[k]) <= size

(* One piece in front that is no longer either.                            *)
LEMMA WithinFew ==
  ASSUME NEW C, NEW s \in Seq(C), NEW size \in Nat, Len(s) <= size, NEW pieces \in Pieces(C)
  PROVE  /\ Within(<<s>>, size)
         /\ Within(pieces, size) => Within(<<s>> \o pieces, size)
<1>1. Len(<<s>>) = 1 /\ <<s>>[1] = s /\ \A k \in 1..1 : k = 1
  OBVIOUS
<1>2. Within(<<s>>, size)
  BY <1>1 DEF Within
<1>3. ASSUME Within(pieces, size) PROVE Within(<<s>> \o pieces, size)
  <2> DEFINE more == <<s>> \o pieces
  <2>1. /\ Len(more) = Len(pieces) + 1 /\ more[1] = s
        /\ \A k \in 1..Len(pieces) : more[k + 1] = pieces[k]
    BY PieceBefore
  <2>2. Len(pieces) \in Nat
    BY PiecesHave
  <2> HIDE DEF more
  <2>3. ASSUME NEW k \in 1..Len(more) PROVE Len(more[k]) <= size
    <3>1. CASE k = 1
      BY <2>1, <3>1
    <3>2. CASE k # 1
      <4>1. k - 1 \in 1..Len(pieces) /\ (k - 1) + 1 = k
        BY <2>1, <2>2, <3>2
      <4>2. more[k] = pieces[k - 1]
        BY <2>1, <4>1
      <4>3. QED
        BY <1>3, <4>1, <4>2 DEF Within
    <3>3. QED
      BY <3>1, <3>2
  <2>4. QED
    BY <2>3 DEF Within, more
<1>4. QED
  BY <1>2, <1>3

(* The chunks are no longer than they may be, and are the text in a row.   *)
LEMMA ChunksAreKept ==
  ASSUME NEW C, NEW text \in Seq(C), NEW size \in Nat \ {0}
  PROVE  /\ FlattenSeq(Chunks(text, size)) = text
         /\ \A k \in DOMAIN Chunks(text, size) : Len(Chunks(text, size)[k]) <= size
<1> DEFINE n == Len(text)
<1>1. n \in Nat /\ size \in Nat /\ size > 0
  BY LenProperties
<1>2. PICK f : ChunkSteps(f, text, size) /\ Chunks(text, size) = f[0]
  BY ChunksUnfold
<1>3. \A i \in 0..n : f[i] = IF i + size >= n THEN <<Part(text, i, n)>>
                             ELSE <<Part(text, i, i + size)>> \o f[i + size]
  BY <1>2 DEF ChunkSteps
<1> DEFINE Good == {i \in 0..n : /\ f[i] \in Pieces(C) /\ Within(f[i], size)
                                 /\ FlattenSeq(f[i]) = Part(text, i, n)}
<1>4. ASSUME NEW i \in 0..n, \A j \in (i + 1)..n : j \in Good PROVE i \in Good
  <2>1. CASE i + size >= n
    <3>1. PICK p \in Seq(C) : p = Part(text, i, n) /\ Len(p) = n - i
      <4>1. PICK b \in i..n : b = n
        BY <1>1
      <4>2. Part(text, i, b) \in Seq(C) /\ Len(Part(text, i, b)) = b - i
        BY PartHas
      <4>3. QED
        BY <4>1, <4>2
    <3>2. f[i] = <<p>>
      BY <1>3, <2>1, <3>1
    <3>3. <<p>> \in Pieces(C)
      BY FewPieces
    <3>4. Len(p) <= size
      BY <1>1, <2>1, <3>1
    <3>5. Within(<<p>>, size)
      <4>1. PICK none \in Pieces(C) : none = <<p>>
        BY <3>3
      <4>2. size \in Nat
        BY <1>1
      <4>3. QED
        BY <3>4, <4>2, WithinFew
    <3>6. FlattenSeq(<<p>>) = p
      BY FlattenOne
    <3>7. QED
      BY <3>1, <3>2, <3>3, <3>5, <3>6
  <2>2. CASE ~(i + size >= n)
    <3>1. PICK b \in (i + 1)..n : b = i + size
      BY <1>1, <2>2
    <3>2. i \in 0..n /\ b \in i..n /\ n \in b..n /\ b \in Good
      BY <1>1, <1>4, <3>1
    <3>3. PICK p \in Seq(C) : p = Part(text, i, b) /\ Len(p) = b - i
      BY <3>2, PartHas
    <3>4. PICK rest \in Pieces(C) : /\ rest = f[b] /\ Within(rest, size)
                                    /\ FlattenSeq(rest) = Part(text, b, n)
      BY <3>2
    <3>5. f[i] = <<p>> \o rest
      BY <1>3, <2>2, <3>1, <3>3, <3>4
    <3>6. <<p>> \o rest \in Pieces(C)
      BY PieceBefore
    <3>7. Within(<<p>> \o rest, size)
      <4>1. Len(p) <= size
        BY <1>1, <3>1, <3>3
      <4>2. size \in Nat
        BY <1>1
      <4>3. QED
        BY <3>4, <4>1, <4>2, WithinFew
    <3>8. FlattenSeq(<<p>> \o rest) = p \o FlattenSeq(rest)
      BY FlattenCons
    <3>9. Part(text, i, b) \o Part(text, b, n) = Part(text, i, n)
      BY <3>2, PartsJoined
    <3>10. QED
      BY <3>3, <3>4, <3>5, <3>6, <3>7, <3>8, <3>9
  <2>3. QED
    BY <2>1, <2>2
<1>5. 0 \in Good
  <2>1. n \in Nat /\ 0 \in 0..n
    BY <1>1
  <2> HIDE DEF Good, n
  <2>2. \A i \in 0..n : i \in Good
    BY <1>4, <2>1, DownwardInduction
  <2>3. QED
    BY <2>1, <2>2
<1>6. /\ f[0] \in Pieces(C) /\ Within(f[0], size)
      /\ FlattenSeq(f[0]) = Part(text, 0, n)
  BY <1>5
<1>7. Part(text, 0, n) = text
  BY PartsAtEnds
<1>8. DOMAIN f[0] = 1..Len(f[0])
  BY <1>6, PiecesHave
<1>9. QED
  BY <1>2, <1>6, <1>7, <1>8 DEF Within

(* Where the delimiter is, from a position on.                             *)
FoundAt(text, d, i) == {k \in i..(Len(text) - Len(d)) : Part(text, k, k + Len(d)) = d}

(* Where the delimiter is found first, the text has it.                    *)
LEMMA FirstFound ==
  ASSUME NEW C, NEW text \in Seq(C), NEW d \in Seq(C), Len(d) # 0,
         NEW i \in 0..Len(text), FoundAt(text, d, i) # {}
  PROVE  LET k == Min(FoundAt(text, d, i))
         IN  /\ Len(d) \in Nat \ {0} /\ k \in i..Len(text) /\ k + Len(d) \in (i + 1)..Len(text)
             /\ Part(text, k, k + Len(d)) = d
             /\ k \in FoundAt(text, d, i) /\ \A j \in FoundAt(text, d, i) : k <= j
<1>1. Len(text) \in Nat /\ Len(d) \in Nat \ {0}
  BY LenProperties
<1>2. PICK S : S = FoundAt(text, d, i)
  OBVIOUS
<1>3. S \in SUBSET Nat /\ S # {}
  BY <1>1, <1>2 DEF FoundAt
<1>4. Min(S) \in S /\ \A j \in S : Min(S) <= j
  BY <1>3, MinIs
<1>5. PICK k \in S : k = Min(S)
  BY <1>4
<1>6. k \in i..(Len(text) - Len(d)) /\ Part(text, k, k + Len(d)) = d
  BY <1>2 DEF FoundAt
<1>7. k \in i..Len(text) /\ k + Len(d) \in (i + 1)..Len(text)
  BY <1>1, <1>6
<1>8. QED
  BY <1>1, <1>2, <1>4, <1>5, <1>6, <1>7

(* What split leaves of the text from each position on.                    *)
SplitSteps(f, text, d) ==
  \A i \in 0..Len(text) :
    f[i] = IF FoundAt(text, d, i) = {} THEN <<Part(text, i, Len(text))>>
           ELSE <<Part(text, i, Min(FoundAt(text, d, i)))>>
                  \o f[Min(FoundAt(text, d, i)) + Len(d)]

(* That is what SplitAt does.                                              *)
LEMMA SplitUnfolds ==
  ASSUME NEW C, NEW text \in Seq(C), NEW d \in Seq(C), Len(d) # 0
  PROVE  \E f : SplitSteps(f, text, d) /\ SplitAt(text, d) = f[0]
<1> DEFINE n == Len(text)
           m == Len(d)
           Found(i) == {k \in i..(n - m) : Substr(text, k, m) = d}
           Q(h) == h = [prev \in 0..n |->
                          IF Found(prev) = {} THEN <<Substr(text, prev, -1)>>
                          ELSE <<Substr(text, prev, Min(Found(prev)) - prev)>>
                                 \o h[Min(Found(prev)) + m]]
           f == CHOOSE h : Q(h)
           stop == {i \in 0..n : Found(i) = {}}
           last == [i \in 0..n |-> <<Substr(text, i, -1)>>]
           piece == [i \in 0..n |-> <<Substr(text, i, Min(Found(i)) - i)>>]
           next == [i \in 0..n |-> Min(Found(i)) + m]
<1>1. n \in Nat /\ m \in Nat \ {0}
  BY LenProperties
<1>2. ASSUME NEW i \in 0..n PROVE Found(i) = FoundAt(text, d, i)
  <2>1. ASSUME NEW k \in i..(n - m) PROVE Substr(text, k, m) = Part(text, k, k + m)
    <3>1. k \in 0..n
      BY <1>1
    <3>2. PICK b \in k..n : b = k + m
      BY <1>1
    <3>3. Substr(text, k, b - k) = Part(text, k, b)
      BY <3>1, PartHas
    <3>4. b - k = m
      BY <1>1, <3>2
    <3>5. QED
      BY <3>2, <3>3, <3>4
  <2>2. QED
    BY <2>1 DEF FoundAt
<1>3. ASSUME NEW i \in 0..n, Found(i) # {}
      PROVE  /\ Min(Found(i)) \in i..n /\ Min(Found(i)) + m \in (i + 1)..n
             /\ Substr(text, i, Min(Found(i)) - i) = Part(text, i, Min(Found(i)))
  <2>1. FoundAt(text, d, i) # {}
    BY <1>2, <1>3
  <2>2. /\ Min(FoundAt(text, d, i)) \in i..n /\ Min(FoundAt(text, d, i)) + m \in (i + 1)..n
    BY <2>1, FirstFound
  <2>3. PICK b \in i..n : b = Min(Found(i)) /\ b + m \in (i + 1)..n
    BY <1>2, <2>2
  <2>4. Substr(text, i, b - i) = Part(text, i, b)
    BY PartHas
  <2>5. QED
    BY <2>3, <2>4
<1> HIDE DEF Found
<1>4. PICK h : Descends(h, 0, n, stop, last, piece, next)
  <2>1. \A i \in 0..n : i \notin stop => next[i] \in (i + 1)..n
    BY <1>3
  <2>2. n \in Nat
    BY <1>1
  <2> HIDE DEF n, stop, last, piece, next
  <2>3. QED
    BY <2>1, <2>2, DownwardExists
<1>5. ASSUME NEW i \in 0..n
      PROVE  h[i] = IF Found(i) = {} THEN <<Substr(text, i, -1)>>
                    ELSE <<Substr(text, i, Min(Found(i)) - i)>> \o h[Min(Found(i)) + m]
  <2>1. h[i] = IF i \in stop THEN last[i] ELSE piece[i] \o h[next[i]]
    BY <1>4 DEF Descends
  <2>2. QED
    BY <2>1
<1>6. \E g : Q(g)
  <2> DEFINE g == [i \in 0..n |-> h[i]]
  <2>1. ASSUME NEW i \in 0..n
        PROVE  g[i] = IF Found(i) = {} THEN <<Substr(text, i, -1)>>
                      ELSE <<Substr(text, i, Min(Found(i)) - i)>> \o g[Min(Found(i)) + m]
    <3>1. Found(i) # {} => Min(Found(i)) + m \in 0..n
      <4>1. Found(i) # {} => Min(Found(i)) + m \in (i + 1)..n
        BY <1>3
      <4>2. QED
        BY <1>1, <4>1
    <3>2. QED
      BY <1>5, <3>1
  <2>2. Q(g)
    BY <2>1
  <2>3. QED
    BY <2>2
<1>7. Q(f)
  <2> HIDE DEF Q
  <2>1. QED
    BY <1>6
<1>8. SplitAt(text, d) = f[0]
  BY DEF SplitAt, Found
<1> HIDE DEF f
<1>9. ASSUME NEW i \in 0..n
      PROVE  f[i] = IF FoundAt(text, d, i) = {} THEN <<Part(text, i, n)>>
                    ELSE <<Part(text, i, Min(FoundAt(text, d, i)))>>
                           \o f[Min(FoundAt(text, d, i)) + m]
  <2>1. PICK b \in i..n : b = n
    BY <1>1
  <2>2. Substr(text, i, -1) = Part(text, i, n)
    BY PartHas
  <2>3. f[i] = IF Found(i) = {} THEN <<Substr(text, i, -1)>>
               ELSE <<Substr(text, i, Min(Found(i)) - i)>> \o f[Min(Found(i)) + m]
    BY <1>7
  <2>4. QED
    BY <1>2, <1>3, <2>2, <2>3
<1>10. SplitSteps(f, text, d)
  BY <1>9 DEF SplitSteps
<1>11. QED
  BY <1>8, <1>10

(* The parts joined by the delimiter are the text.                         *)
LEMMA SplitIsJoined ==
  ASSUME NEW C, NEW text \in Seq(C), NEW d \in Seq(C), Len(d) # 0
  PROVE  Join(SplitAt(text, d), d) = text
<1> DEFINE n == Len(text)
           Found(i) == FoundAt(text, d, i)
<1>1. n \in Nat
  BY LenProperties
<1>2. PICK f : SplitSteps(f, text, d) /\ SplitAt(text, d) = f[0]
  BY SplitUnfolds
<1>3. \A i \in 0..n : f[i] = IF Found(i) = {} THEN <<Part(text, i, n)>>
                             ELSE <<Part(text, i, Min(Found(i)))>> \o f[Min(Found(i)) + Len(d)]
  BY <1>2 DEF SplitSteps
<1> DEFINE Good == {i \in 0..n : /\ f[i] \in Pieces(C) /\ Len(f[i]) # 0
                                 /\ Join(f[i], d) = Part(text, i, n)}
<1>4. ASSUME NEW i \in 0..n, \A j \in (i + 1)..n : j \in Good PROVE i \in Good
  <2>1. CASE Found(i) = {}
    <3>1. PICK p \in Seq(C) : p = Part(text, i, n)
      <4>1. PICK b \in i..n : b = n
        BY <1>1
      <4>2. Part(text, i, b) \in Seq(C)
        BY PartHas
      <4>3. QED
        BY <4>1, <4>2
    <3>2. f[i] = <<p>>
      BY <1>3, <2>1, <3>1
    <3>3. <<p>> \in Pieces(C) /\ Len(<<p>>) = 1
      BY FewPieces
    <3>4. PICK one \in Pieces(C) : one = <<p>> /\ Len(one) = 1
      BY <3>3
    <3>5. Join(<<p>>, d) = p
      BY JoinOne
    <3>6. Len(one) # 0
      BY <3>4
    <3>7. f[i] = one /\ Join(one, d) = p
      BY <3>2, <3>4, <3>5
    <3>8. QED
      BY <3>1, <3>6, <3>7
  <2>2. CASE Found(i) # {}
    <3>1. PICK k \in i..n : /\ k = Min(Found(i)) /\ k + Len(d) \in (i + 1)..n
                            /\ Part(text, k, k + Len(d)) = d
      BY <2>2, FirstFound
    <3>2. PICK b \in (i + 1)..n : b = k + Len(d)
      BY <3>1
    <3>3. /\ b \in Good /\ i \in 0..n /\ k \in i..n /\ k \in 0..n /\ b \in k..n /\ n \in b..n
          /\ n \in k..n
      <4>1. Len(d) \in Nat
        BY LenProperties
      <4>2. QED
        BY <1>1, <1>4, <3>1, <3>2, <4>1
    <3>4. PICK p \in Seq(C) : p = Part(text, i, k)
      BY <3>3, PartHas
    <3>5. PICK rest \in Pieces(C) : rest = f[b] /\ Len(rest) # 0 /\ Join(rest, d) = Part(text, b, n)
      BY <3>3
    <3>6. f[i] = <<p>> \o rest
      BY <1>3, <2>2, <3>1, <3>2, <3>4, <3>5
    <3>7. <<p>> \o rest \in Pieces(C) /\ Len(<<p>> \o rest) = Len(rest) + 1
      BY PieceBefore
    <3>8. Len(<<p>> \o rest) # 0
      <4>1. Len(rest) \in Nat
        BY PiecesHave
      <4>2. QED
        BY <3>7, <4>1
    <3>9. Join(<<p>> \o rest, d) = p \o (d \o Join(rest, d))
      <4>1. Len(rest) # 0
        BY <3>5
      <4>2. QED
        BY <4>1, JoinCons
    <3>10. Part(text, k, b) \o Part(text, b, n) = Part(text, k, n)
      BY <3>3, PartsJoined
    <3>11. Part(text, i, k) \o Part(text, k, n) = Part(text, i, n)
      BY <3>3, PartsJoined
    <3>12. QED
      BY <3>1, <3>2, <3>4, <3>5, <3>6, <3>7, <3>8, <3>9, <3>10, <3>11
  <2>3. QED
    BY <2>1, <2>2
<1>5. 0 \in Good
  <2>1. n \in Nat /\ 0 \in 0..n
    BY <1>1
  <2> HIDE DEF Good, n
  <2>2. \A i \in 0..n : i \in Good
    BY <1>4, <2>1, DownwardInduction
  <2>3. QED
    BY <2>1, <2>2
<1>6. Part(text, 0, n) = text
  BY PartsAtEnds
<1>7. QED
  BY <1>2, <1>5, <1>6

(* Where one of the delimiters is, from a position on.                     *)
FoundAny(text, delimiters, i) == {k \in i..(Len(text) - 1) : text[k + 1] \in delimiters}

(* Where the first of the delimiters is found.                             *)
LEMMA FirstOfAny ==
  ASSUME NEW C, NEW text \in Seq(C), NEW delimiters, NEW i \in 0..Len(text),
         FoundAny(text, delimiters, i) # {}
  PROVE  LET k == Min(FoundAny(text, delimiters, i))
         IN  /\ k \in i..(Len(text) - 1) /\ text[k + 1] \in delimiters
             /\ \A j \in i..(k - 1) : text[j + 1] \notin delimiters
<1>1. Len(text) \in Nat
  BY LenProperties
<1>2. PICK S : S = FoundAny(text, delimiters, i)
  OBVIOUS
<1>3. S \in SUBSET Nat /\ S # {}
  BY <1>1, <1>2 DEF FoundAny
<1>4. Min(S) \in S /\ \A j \in S : Min(S) <= j
  BY <1>3, MinIs
<1>5. PICK k \in S : k = Min(S)
  BY <1>4
<1>6. k \in i..(Len(text) - 1) /\ text[k + 1] \in delimiters
  BY <1>2 DEF FoundAny
<1>7. ASSUME NEW j \in i..(k - 1) PROVE text[j + 1] \notin delimiters
  <2>1. j \in i..(Len(text) - 1) /\ ~(k <= j)
    BY <1>1, <1>6
  <2>2. j \notin S
    BY <1>4, <1>5, <2>1
  <2>3. QED
    BY <1>2, <2>1, <2>2 DEF FoundAny
<1>8. QED
  BY <1>2, <1>5, <1>6, <1>7

(* What the other split leaves of the text from each position on.          *)
AnySteps(f, text, delimiters) ==
  \A i \in 0..Len(text) :
    f[i] = IF i = Len(text) THEN <<>>
           ELSE IF FoundAny(text, delimiters, i) = {} THEN <<Part(text, i, Len(text))>>
           ELSE (IF i = Min(FoundAny(text, delimiters, i)) THEN <<>>
                 ELSE <<Part(text, i, Min(FoundAny(text, delimiters, i)))>>)
                  \o f[Min(FoundAny(text, delimiters, i)) + 1]

(* That is what SplitAny does.                                             *)
LEMMA AnyUnfolds ==
  ASSUME NEW C, NEW text \in Seq(C), NEW delimiters
  PROVE  \E f : AnySteps(f, text, delimiters) /\ SplitAny(text, delimiters) = f[0]
<1> DEFINE n == Len(text)
           Found(i) == {k \in i..(n - 1) : text[k + 1] \in delimiters}
           Second(i) == IF Found(i) = {} THEN n ELSE Min(Found(i))
           Piece(i) == IF i = Second(i) THEN <<>> ELSE <<Substr(text, i, Second(i) - i)>>
           Q(h) == h = [first \in 0..n |->
                          IF first = n THEN <<>>
                          ELSE Piece(first) \o IF Found(first) = {} THEN <<>>
                                               ELSE h[Second(first) + 1]]
           f == CHOOSE h : Q(h)
           stop == {i \in 0..n : i = n \/ Found(i) = {}}
           last == [i \in 0..n |-> IF i = n THEN <<>> ELSE Piece(i) \o <<>>]
           piece == [i \in 0..n |-> Piece(i)]
           next == [i \in 0..n |-> Second(i) + 1]
<1>1. n \in Nat
  BY LenProperties
<1>2. \A i \in 0..n : Found(i) = FoundAny(text, delimiters, i)
  BY DEF FoundAny
<1>3. ASSUME NEW i \in 0..n, Found(i) # {}
      PROVE  /\ Second(i) = Min(Found(i))
             /\ Second(i) \in i..n /\ Second(i) + 1 \in (i + 1)..n
  <2>1. FoundAny(text, delimiters, i) # {}
    BY <1>2, <1>3
  <2>2. Min(FoundAny(text, delimiters, i)) \in i..(n - 1)
    BY <2>1, FirstOfAny
  <2>3. PICK b \in i..(n - 1) : b = Second(i) /\ b = Min(Found(i))
    BY <1>2, <1>3, <2>2
  <2> HIDE DEF Found, Second
  <2>4. QED
    BY <1>1, <2>3
<1>4. ASSUME NEW i \in 0..n
      PROVE  /\ Second(i) \in i..n
             /\ Substr(text, i, Second(i) - i) = Part(text, i, Second(i))
  <2>1. PICK b \in i..n : b = Second(i)
    <3>1. CASE Found(i) = {}
      BY <1>1, <3>1
    <3>2. CASE Found(i) # {}
      BY <1>3, <3>2
    <3>3. QED
      BY <3>1, <3>2
  <2>2. Substr(text, i, b - i) = Part(text, i, b)
    BY PartHas
  <2>3. QED
    BY <2>1, <2>2
<1>5. \A i \in 0..n : Found(i) = {} => Second(i) = n
  OBVIOUS
<1>6. \A i \in 0..n : Piece(i) = IF i = Second(i) THEN <<>> ELSE <<Part(text, i, Second(i))>>
  BY <1>4
<1> HIDE DEF Second
<1>7. SplitAny(text, delimiters) = f[0]
  BY DEF SplitAny, Second
<1> HIDE DEF Found, Piece
<1>8. PICK h : Descends(h, 0, n, stop, last, piece, next)
  <2>1. \A i \in 0..n : i \notin stop => next[i] \in (i + 1)..n
    BY <1>3
  <2>2. n \in Nat
    BY <1>1
  <2> HIDE DEF n, stop, last, piece, next
  <2>3. QED
    BY <2>1, <2>2, DownwardExists
<1>9. ASSUME NEW i \in 0..n
      PROVE  h[i] = IF i = n THEN <<>>
                    ELSE Piece(i) \o IF Found(i) = {} THEN <<>> ELSE h[Second(i) + 1]
  <2>1. h[i] = IF i \in stop THEN last[i] ELSE piece[i] \o h[next[i]]
    BY <1>8 DEF Descends
  <2>2. QED
    BY <2>1
<1>10. \E g : Q(g)
  <2> DEFINE g == [i \in 0..n |-> h[i]]
  <2>1. ASSUME NEW i \in 0..n
        PROVE  g[i] = IF i = n THEN <<>>
                      ELSE Piece(i) \o IF Found(i) = {} THEN <<>> ELSE g[Second(i) + 1]
    <3>1. Found(i) # {} => Second(i) + 1 \in 0..n
      <4>1. Found(i) # {} => Second(i) + 1 \in (i + 1)..n
        BY <1>3
      <4>2. QED
        BY <1>1, <4>1
    <3>2. QED
      BY <1>9, <3>1
  <2>2. Q(g)
    BY <2>1
  <2>3. QED
    BY <2>2
<1>11. Q(f)
  <2> HIDE DEF Q
  <2>1. QED
    BY <1>10
<1> HIDE DEF f
<1>12. ASSUME NEW i \in 0..n
       PROVE  f[i] = IF i = n THEN <<>>
                     ELSE IF FoundAny(text, delimiters, i) = {} THEN <<Part(text, i, n)>>
                     ELSE (IF i = Min(FoundAny(text, delimiters, i)) THEN <<>>
                           ELSE <<Part(text, i, Min(FoundAny(text, delimiters, i)))>>)
                            \o f[Min(FoundAny(text, delimiters, i)) + 1]
  <2>1. f[i] = IF i = n THEN <<>>
               ELSE Piece(i) \o IF Found(i) = {} THEN <<>> ELSE f[Second(i) + 1]
    BY <1>11
  <2>2. CASE i = n
    BY <2>1, <2>2
  <2>3. CASE i # n /\ Found(i) = {}
    <3>1. Piece(i) = <<Part(text, i, n)>>
      BY <1>5, <1>6, <2>3
    <3>2. PICK p \in Seq(C) : p = Part(text, i, n)
      <4>1. PICK b \in i..n : b = n
        BY <1>1
      <4>2. Part(text, i, b) \in Seq(C)
        BY PartHas
      <4>3. QED
        BY <4>1, <4>2
    <3>3. <<p>> \o <<>> = <<p>>
      <4>1. PICK one \in Pieces(C) : one = <<p>>
        BY FewPieces
      <4>2. one \o <<>> = one
        BY ConcatEmptySeq DEF Pieces
      <4>3. QED
        BY <4>1, <4>2
    <3>4. QED
      BY <1>2, <2>1, <2>3, <3>1, <3>2, <3>3
  <2>4. CASE i # n /\ Found(i) # {}
    <3>1. Second(i) = Min(FoundAny(text, delimiters, i))
      BY <1>2, <1>3, <2>4
    <3>2. QED
      BY <1>2, <1>6, <2>1, <2>4, <3>1
  <2>5. QED
    BY <2>2, <2>3, <2>4
<1>13. AnySteps(f, text, delimiters)
  BY <1>12 DEF AnySteps
<1>14. QED
  BY <1>7, <1>13

(* Sequences of one element.                                               *)
LEMMA SameOne == ASSUME NEW a, NEW b PROVE <<a>> = <<b>> <=> a = b
<1>1. <<a>>[1] = a /\ <<b>>[1] = b
  OBVIOUS
<1>2. QED
  BY <1>1

(* A part without a character is none.                                     *)
LEMMA PartEmpty ==
  ASSUME NEW C, NEW t \in Seq(C), NEW a \in 0..Len(t), NEW b \in a..Len(t)
  PROVE  Part(t, a, b) \in Seq(C) /\ (Part(t, a, b) = <<>> <=> a = b)
<1>1. Part(t, a, b) \in Seq(C)
  BY PartHas
<1>2. QED
  BY <1>1, PartsAtEnds

(* Which parts are left out when the empty ones are.                       *)
LEMMA DropEmptyParts ==
  ASSUME NEW C, NEW p \in Seq(C), NEW rest \in Pieces(C)
  PROVE  /\ <<p>> \in Pieces(C) /\ <<p>> \o rest \in Pieces(C)
         /\ Dropping(<<p>>, {<<>>}) = IF p = <<>> THEN <<>> ELSE <<p>>
         /\ Dropping(<<p>> \o rest, {<<>>})
              = (IF p = <<>> THEN <<>> ELSE <<p>>) \o Dropping(rest, {<<>>})
<1>1. <<p>> \in Pieces(C) /\ <<p>> \o rest \in Pieces(C)
  BY FewPieces, PieceBefore
<1>2. PICK N : N = {<<>>}
  OBVIOUS
<1>3. PICK D : D = Seq(C)
  OBVIOUS
<1>4. p \in D /\ rest \in Seq(D)
  BY <1>3 DEF Pieces
<1>5. PICK q \in D, others \in Seq(D) : q = p /\ others = rest
  BY <1>4
<1>6. Dropping(<<q>>, N) = IF q \in N THEN <<>> ELSE <<q>>
  BY DropFew
<1>7. Dropping(<<q>> \o others, N)
        = IF q \in N THEN Dropping(others, N) ELSE <<q>> \o Dropping(others, N)
  BY DropCons
<1>8. <<>> \o Dropping(others, N) = Dropping(others, N)
  <2>1. Dropping(others, N) \in Seq(D)
    BY DropType
  <2>2. QED
    BY <2>1, ConcatEmptySeq
<1>9. q \in N <=> q = <<>>
  BY <1>2
<1>10. QED
  BY <1>1, <1>2, <1>5, <1>6, <1>7, <1>8, <1>9

(* Leaving out the empty parts of one split gives what the other does.     *)
LEMMA SplitsAgree ==
  ASSUME NEW C, NEW comma \in C, NEW text \in Seq(C)
  PROVE  SplitAny(text, {comma}) = Dropping(SplitAt(text, <<comma>>), {<<>>})
<1> DEFINE n == Len(text)
           d == <<comma>>
           Found(i) == FoundAt(text, d, i)
<1>1. n \in Nat
  BY LenProperties
<1>2. d \in Seq(C) /\ Len(d) = 1
  OBVIOUS
<1>3. PICK f : SplitSteps(f, text, d) /\ SplitAt(text, d) = f[0]
  <2> HIDE DEF d
  <2>1. Len(d) # 0
    BY <1>2
  <2>2. d \in Seq(C)
    BY <1>2
  <2>3. QED
    BY <2>1, <2>2, SplitUnfolds
<1>4. PICK g : AnySteps(g, text, {comma}) /\ SplitAny(text, {comma}) = g[0]
  BY AnyUnfolds
<1>5. ASSUME NEW i \in 0..n PROVE FoundAny(text, {comma}, i) = Found(i)
  <2>1. ASSUME NEW k \in i..(n - 1) PROVE text[k + 1] = comma <=> Part(text, k, k + 1) = d
    <3>1. k \in 0..(Len(text) - 1) /\ k \in 0..k
      BY <1>1
    <3>2. Part(text, k, k + 1) = <<text[k + 1]>>
      BY <3>1, PartAppend
    <3>3. QED
      BY <3>2, SameOne
  <2> HIDE DEF d
  <2>2. QED
    BY <1>2, <2>1 DEF FoundAny, FoundAt
<1>6. ASSUME NEW i \in 0..n
      PROVE  /\ f[i] = IF Found(i) = {} THEN <<Part(text, i, n)>>
                       ELSE <<Part(text, i, Min(Found(i)))>> \o f[Min(Found(i)) + 1]
             /\ g[i] = IF i = n THEN <<>>
                       ELSE IF Found(i) = {} THEN <<Part(text, i, n)>>
                       ELSE (IF i = Min(Found(i)) THEN <<>>
                             ELSE <<Part(text, i, Min(Found(i)))>>) \o g[Min(Found(i)) + 1]
  <2> HIDE DEF d
  <2>1. QED
    BY <1>2, <1>3, <1>4, <1>5 DEF SplitSteps, AnySteps
<1> HIDE DEF d
<1> DEFINE Good == {i \in 0..n : f[i] \in Pieces(C) /\ Dropping(f[i], {<<>>}) = g[i]}
<1>8. ASSUME NEW i \in 0..n, \A j \in (i + 1)..n : j \in Good PROVE i \in Good
  <2>1. CASE Found(i) = {}
    <3>1. PICK p \in Seq(C) : p = Part(text, i, n) /\ (p = <<>> <=> i = n)
      <4>1. PICK b \in i..n : b = n
        BY <1>1
      <4>2. Part(text, i, b) \in Seq(C) /\ (Part(text, i, b) = <<>> <=> i = b)
        BY PartEmpty
      <4>3. QED
        BY <4>1, <4>2
    <3>2. f[i] = <<p>> /\ g[i] = IF p = <<>> THEN <<>> ELSE <<p>>
      BY <1>6, <2>1, <3>1
    <3>3. <<p>> \in Pieces(C) /\ Dropping(<<p>>, {<<>>}) = IF p = <<>> THEN <<>> ELSE <<p>>
      <4>1. PICK none \in Pieces(C) : none = <<>>
        BY FewPieces
      <4>2. QED
        BY DropEmptyParts
    <3>4. QED
      BY <3>2, <3>3
  <2>2. CASE Found(i) # {}
    <3>1. PICK k \in i..(n - 1) : k = Min(Found(i))
      <4>1. FoundAny(text, {comma}, i) # {}
        BY <1>5, <2>2
      <4>2. Min(FoundAny(text, {comma}, i)) \in i..(n - 1)
        BY <4>1, FirstOfAny
      <4>3. QED
        BY <1>5, <4>2
    <3>2. k \in i..n /\ k + 1 \in Good /\ i # n
      <4>1. k \in i..n /\ i # n
        BY <1>1, <3>1
      <4>2. PICK j \in (i + 1)..n : j = k + 1
        BY <1>1, <3>1
      <4>3. j \in Good
        BY <1>8
      <4>4. QED
        BY <4>1, <4>2, <4>3
    <3>3. PICK p \in Seq(C) : p = Part(text, i, k) /\ (p = <<>> <=> i = k)
      <4>1. PICK b \in i..n : b = k
        BY <3>2
      <4>2. Part(text, i, b) \in Seq(C) /\ (Part(text, i, b) = <<>> <=> i = b)
        BY PartEmpty
      <4>3. QED
        BY <4>1, <4>2
    <3>4. PICK rest \in Pieces(C) : rest = f[k + 1] /\ Dropping(rest, {<<>>}) = g[k + 1]
      BY <3>2
    <3>5. f[i] = <<p>> \o rest
          /\ g[i] = (IF p = <<>> THEN <<>> ELSE <<p>>) \o Dropping(rest, {<<>>})
      BY <1>6, <2>2, <3>1, <3>2, <3>3, <3>4
    <3>6. <<p>> \o rest \in Pieces(C)
      BY PieceBefore
    <3>7. Dropping(<<p>> \o rest, {<<>>})
            = (IF p = <<>> THEN <<>> ELSE <<p>>) \o Dropping(rest, {<<>>})
      BY DropEmptyParts
    <3>8. QED
      BY <3>5, <3>6, <3>7
  <2>3. QED
    BY <2>1, <2>2
<1>9. 0 \in Good
  <2>1. n \in Nat /\ 0 \in 0..n
    BY <1>1
  <2> HIDE DEF Good, n
  <2>2. \A i \in 0..n : i \in Good
    BY <1>8, <2>1, DownwardInduction
  <2>3. QED
    BY <2>1, <2>2
<1>10. QED
  BY <1>3, <1>4, <1>9 DEF d

(* What is dropped from both sides of a character that is dropped.         *)
LEMMA DropAround ==
  ASSUME NEW C, NEW text \in Seq(C), NEW chars,
         NEW i \in 0..Len(text), NEW k \in i..(Len(text) - 1), text[k + 1] \in chars
  PROVE  Dropping(Part(text, i, Len(text)), chars)
           = Dropping(Part(text, i, k), chars) \o Dropping(Part(text, k + 1, Len(text)), chars)
<1> DEFINE n == Len(text)
<1>1. n \in Nat
  BY LenProperties
<1>2. PICK m \in k..n : m = k + 1
  BY <1>1
<1>3. /\ k \in i..n /\ k \in 0..n /\ n \in m..n /\ n \in k..n /\ m \in 0..n
      /\ k \in 0..(n - 1) /\ k \in 0..k
  BY <1>1, <1>2
<1>4. PICK p \in Seq(C) : p = Part(text, i, k)
  BY <1>3, PartHas
<1>5. PICK c \in C : c = text[k + 1] /\ Part(text, k, m) = <<c>>
  BY <1>2, <1>3, PartAppend
<1>6. PICK rest \in Seq(C) : rest = Part(text, m, n)
  BY <1>3, PartHas
<1>7. PICK q \in Seq(C) : q = Part(text, k, m) /\ Dropping(q, chars) = <<>>
  <2>1. Part(text, k, m) \in Seq(C)
    BY <1>3, PartHas
  <2>2. Dropping(<<c>>, chars) = IF c \in chars THEN <<>> ELSE <<c>>
    BY DropFew
  <2>3. QED
    BY <1>5, <2>1, <2>2
<1>8. PICK others \in Seq(C) : others = q \o rest
  <2>1. q \o rest \in Seq(C)
    BY ConcatProperties
  <2>2. QED
    BY <2>1
<1>9. Part(text, i, n) = p \o others
  <2>1. Part(text, k, m) \o Part(text, m, n) = Part(text, k, n)
    BY <1>3, PartsJoined
  <2>2. Part(text, i, k) \o Part(text, k, n) = Part(text, i, n)
    BY <1>3, PartsJoined
  <2>3. QED
    BY <1>4, <1>6, <1>7, <1>8, <2>1, <2>2
<1> HIDE DEF n
<1>10. Dropping(others, chars) = Dropping(rest, chars)
  <2>1. DropsApart(q, rest, chars)
    BY DropJoined
  <2>2. Dropping(rest, chars) \in Seq(C)
    BY DropType
  <2>3. <<>> \o Dropping(rest, chars) = Dropping(rest, chars)
    BY <2>2, ConcatEmptySeq
  <2>4. QED
    BY <1>7, <1>8, <2>1, <2>3 DEF DropsApart
<1>11. DropsApart(p, others, chars)
  BY DropJoined
<1>12. QED
  BY <1>2, <1>4, <1>6, <1>9, <1>10, <1>11 DEF n, DropsApart

(* What is left when characters are removed are the pieces between them.   *)
LEMMA RemovedIsSplit ==
  ASSUME NEW C, NEW text \in Seq(C), NEW chars
  PROVE  Dropping(text, chars) = FlattenSeq(SplitAny(text, chars))
<1> DEFINE n == Len(text)
           Found(i) == FoundAny(text, chars, i)
<1>1. n \in Nat
  BY LenProperties
<1>2. PICK g : AnySteps(g, text, chars) /\ SplitAny(text, chars) = g[0]
  BY AnyUnfolds
<1>3. \A i \in 0..n : g[i] = IF i = n THEN <<>>
                             ELSE IF Found(i) = {} THEN <<Part(text, i, n)>>
                             ELSE (IF i = Min(Found(i)) THEN <<>>
                                   ELSE <<Part(text, i, Min(Found(i)))>>) \o g[Min(Found(i)) + 1]
  BY <1>2 DEF AnySteps
<1> DEFINE Good == {i \in 0..n : /\ g[i] \in Pieces(C)
                                 /\ FlattenSeq(g[i]) = Dropping(Part(text, i, n), chars)}
<1>4. ASSUME NEW i \in 0..n, NEW k \in i..n, \A j \in i..(k - 1) : text[j + 1] \notin chars
      PROVE  /\ Part(text, i, k) \in Seq(C)
             /\ Dropping(Part(text, i, k), chars) = Part(text, i, k)
  <2>1. PICK p \in Seq(C) : /\ p = Part(text, i, k) /\ Len(p) = k - i
                            /\ \A j \in 1..(k - i) : p[j] = text[i + j]
    BY PartHas
  <2>2. ASSUME NEW j \in 1..Len(p) PROVE p[j] \notin chars
    <3>1. i + j - 1 \in i..(k - 1) /\ (i + j - 1) + 1 = i + j
      BY <1>1, <2>1
    <3>2. p[j] = text[i + j]
      BY <2>1
    <3>3. QED
      BY <1>4, <3>1, <3>2
  <2>3. Dropping(p, chars) = p
    BY <2>2, DropNone
  <2>4. QED
    BY <2>1, <2>3
<1>5. ASSUME NEW i \in 0..n, \A j \in (i + 1)..n : j \in Good PROVE i \in Good
  <2>1. CASE i = n
    <3>1. g[i] = <<>>
      BY <1>3, <2>1
    <3>2. <<>> \in Pieces(C)
      BY FewPieces
    <3>3. Part(text, i, n) = <<>>
      BY <2>1, PartsAtEnds
    <3>4. Dropping(<<>>, chars) = <<>>
      <4>1. PICK none \in Seq(C) : none = <<>> /\ Len(none) = 0
        BY EmptySeq
      <4>2. \A j \in 1..Len(none) : none[j] \notin chars
        BY <4>1
      <4>3. Dropping(none, chars) = none
        BY <4>2, DropNone
      <4>4. QED
        BY <4>1, <4>3
    <3>5. QED
      BY <3>1, <3>2, <3>3, <3>4, FlattenEmpty
  <2>2. CASE i # n /\ Found(i) = {}
    <3>1. \A j \in i..(n - 1) : text[j + 1] \notin chars
      BY <2>2 DEF FoundAny
    <3>2. PICK b \in i..n : b = n
      BY <1>1
    <3>3. /\ Part(text, i, b) \in Seq(C)
          /\ Dropping(Part(text, i, b), chars) = Part(text, i, b)
      BY <1>4, <3>1, <3>2
    <3>4. PICK p \in Seq(C) : p = Part(text, i, n) /\ Dropping(p, chars) = p
      BY <3>2, <3>3
    <3>5. g[i] = <<p>>
      BY <1>3, <2>2, <3>4
    <3>6. <<p>> \in Pieces(C)
      BY FewPieces
    <3>7. FlattenSeq(<<p>>) = p
      BY FlattenOne
    <3>8. QED
      BY <3>4, <3>5, <3>6, <3>7
  <2>3. CASE i # n /\ Found(i) # {}
    <3>1. PICK k \in i..(n - 1) : /\ k = Min(Found(i)) /\ text[k + 1] \in chars
                                  /\ \A j \in i..(k - 1) : text[j + 1] \notin chars
      BY <2>3, FirstOfAny
    <3>2. PICK m \in (i + 1)..n : m = k + 1
      BY <1>1, <3>1
    <3>3. m \in Good
      BY <1>5
    <3>4. /\ k \in i..n /\ k \in 0..n /\ m \in k..n /\ n \in m..n /\ n \in k..n /\ m \in 0..n
          /\ k \in 0..(n - 1) /\ k \in 0..k
      BY <1>1, <3>1, <3>2
    <3>5. PICK p \in Seq(C) : p = Part(text, i, k) /\ Dropping(p, chars) = p
      BY <1>4, <3>1, <3>4
    <3>7. PICK rest \in Seq(C) : rest = Part(text, m, n)
      BY <3>4, PartHas
    <3>9. Dropping(Part(text, i, n), chars) = p \o Dropping(rest, chars)
      <4>1. Dropping(Part(text, i, n), chars)
              = Dropping(Part(text, i, k), chars) \o Dropping(Part(text, k + 1, n), chars)
        BY <3>1, DropAround
      <4>2. QED
        BY <3>2, <3>5, <3>7, <4>1
    <3>10. PICK others \in Pieces(C) : /\ others = g[m]
                                       /\ FlattenSeq(others) = Dropping(rest, chars)
      BY <3>3, <3>7
    <3>11. CASE i = k
      <4>1. p = <<>>
        BY <3>4, <3>5, <3>11, PartEmpty
      <4>2. g[i] = <<>> \o others
        BY <1>3, <2>3, <3>1, <3>2, <3>10, <3>11
      <4>3. <<>> \o others = others
        BY ConcatEmptySeq DEF Pieces
      <4>4. Dropping(rest, chars) \in Seq(C)
        BY DropType
      <4>5. <<>> \o Dropping(rest, chars) = Dropping(rest, chars)
        BY <4>4, ConcatEmptySeq
      <4>6. QED
        BY <3>9, <3>10, <4>1, <4>2, <4>3, <4>5
    <3>12. CASE i # k
      <4>1. g[i] = <<p>> \o others
        BY <1>3, <2>3, <3>1, <3>2, <3>5, <3>10, <3>12
      <4>2. <<p>> \o others \in Pieces(C)
        BY PieceBefore
      <4>3. FlattenSeq(<<p>> \o others) = p \o FlattenSeq(others)
        BY FlattenCons
      <4>4. QED
        BY <3>9, <3>10, <4>1, <4>2, <4>3
    <3>13. QED
      BY <3>11, <3>12
  <2>4. QED
    BY <2>1, <2>2, <2>3
<1>6. 0 \in Good
  <2>1. n \in Nat /\ 0 \in 0..n
    BY <1>1
  <2> HIDE DEF Good, n
  <2>2. \A i \in 0..n : i \in Good
    BY <1>5, <2>1, DownwardInduction
  <2>3. QED
    BY <2>1, <2>2
<1>7. Part(text, 0, n) = text
  BY PartsAtEnds
<1>8. QED
  BY <1>2, <1>6, <1>7

-----------------------------------------------------------------------------
(* The states of the parser, and what each character does to one.          *)
ParserStates(C, n) ==
  [parts : Pieces(C), prev : 0..n, dQuotes : BOOLEAN, sQuotes : BOOLEAN]

(* A comma that ends a field.                                              *)
Breaks(s, c) == c = "," /\ ~s.dQuotes /\ ~s.sQuotes

(* Substr returns text.                                                    *)
LEMMA SubstrType ==
  ASSUME NEW C, NEW t \in Seq(C), NEW pos \in 0..Len(t), NEW count \in Int
  PROVE  Substr(t, pos, count) \in Seq(C)
<1>1. Len(t) \in Nat /\ pos \in Nat
  BY LenProperties
<1>2. SubSeq(t, pos + 1, Len(t)) \in Seq(C)
  <2>1. PICK a \in 1..(Len(t) + 1) : a = pos + 1
    BY <1>1
  <2>2. PICK b \in (a - 1)..Len(t) : b = Len(t)
    BY <1>1, <2>1
  <2>3. SubSeq(t, a, b) \in Seq(C)
    BY Slice
  <2>4. QED
    BY <2>1, <2>2, <2>3
<1>3. CASE count < 0
  BY <1>2, <1>3, SubstrIs
<1>4. CASE ~(count < 0) /\ pos + count >= Len(t)
  <2>1. count \in Nat
    BY <1>4
  <2>2. QED
    BY <1>2, <1>4, <2>1, SubstrIs
<1>5. CASE ~(count < 0) /\ ~(pos + count >= Len(t))
  <2>1. count \in Nat /\ pos + count <= Len(t)
    BY <1>1, <1>5
  <2>2. Substr(t, pos, count) = SubSeq(t, pos + 1, pos + count)
    BY <2>1, SubstrIs
  <2>3. PICK a \in 1..(Len(t) + 1) : a = pos + 1
    BY <1>1
  <2>4. PICK b \in (a - 1)..Len(t) : b = pos + count
    BY <1>1, <2>1, <2>3
  <2>5. SubSeq(t, a, b) \in Seq(C)
    BY Slice
  <2>6. QED
    BY <2>2, <2>3, <2>4, <2>5
<1>6. QED
  BY <1>3, <1>4, <1>5

(* What the parser does with one character.                                *)
LEMMA StepOfParser ==
  ASSUME NEW C, NEW line \in Seq(C), NEW idx \in 0..(Len(line) - 1),
         NEW s \in ParserStates(C, Len(line))
  PROVE  LET next == ParserStep(s, line, idx)
             c == line[idx + 1]
         IN  /\ next \in ParserStates(C, Len(line))
             /\ next.parts = IF Breaks(s, c)
                             THEN Append(s.parts, Substr(line, s.prev, idx - s.prev))
                             ELSE s.parts
             /\ next.prev = IF Breaks(s, c) THEN idx + 1 ELSE s.prev
             /\ next.dQuotes = IF c = "double" THEN ~s.dQuotes ELSE s.dQuotes
             /\ next.sQuotes = IF c = "single" THEN ~s.sQuotes ELSE s.sQuotes
<1> DEFINE next == ParserStep(s, line, idx)
           c == line[idx + 1]
           piece == Substr(line, s.prev, idx - s.prev)
           longer == Append(s.parts, piece)
<1>1. /\ Len(line) \in Nat /\ idx + 1 \in 0..Len(line)
      /\ s.prev \in 0..Len(line) /\ s.parts \in Pieces(C)
      /\ s.dQuotes \in BOOLEAN /\ s.sQuotes \in BOOLEAN
      /\ s = [parts |-> s.parts, prev |-> s.prev, dQuotes |-> s.dQuotes, sQuotes |-> s.sQuotes]
  BY LenProperties DEF ParserStates
<1>2. piece \in Seq(C)
  <2>1. PICK pos \in 0..Len(line), count \in Int : pos = s.prev /\ count = idx - s.prev
    BY <1>1
  <2>2. Substr(line, pos, count) \in Seq(C)
    BY SubstrType
  <2>3. QED
    BY <2>1, <2>2
<1>3. longer \in Pieces(C)
  <2> HIDE DEF piece
  <2>1. PICK parts \in Pieces(C), p \in Seq(C) : parts = s.parts /\ p = piece
    BY <1>1, <1>2
  <2>2. Append(parts, p) \in Pieces(C)
    BY PiecesAppended
  <2>3. QED
    BY <2>1, <2>2
<1>4. next = CASE c = "double" -> [s EXCEPT !.dQuotes = ~@]
               [] c = "single" -> [s EXCEPT !.sQuotes = ~@]
               [] c = "," /\ ~s.dQuotes /\ ~s.sQuotes -> [s EXCEPT !.parts = longer, !.prev = idx + 1]
               [] OTHER -> s
  BY <1>1 DEF ParserStep
<1> HIDE DEF next, c, longer
<1>5. CASE c = "double"
  <2>1. ~Breaks(s, c)
    BY <1>5 DEF Breaks
  <2>2. next = [s EXCEPT !.dQuotes = ~@]
    BY <1>4, <1>5
  <2>3. /\ next \in ParserStates(C, Len(line)) /\ next.parts = s.parts /\ next.prev = s.prev
        /\ next.dQuotes = ~s.dQuotes /\ next.sQuotes = s.sQuotes
    BY <1>1, <2>2 DEF ParserStates
  <2>4. QED
    BY <1>5, <2>1, <2>3 DEF next, c
<1>6. CASE c = "single"
  <2>1. ~Breaks(s, c)
    BY <1>6 DEF Breaks
  <2>2. next = [s EXCEPT !.sQuotes = ~@]
    BY <1>4, <1>6
  <2>3. /\ next \in ParserStates(C, Len(line)) /\ next.parts = s.parts /\ next.prev = s.prev
        /\ next.dQuotes = s.dQuotes /\ next.sQuotes = ~s.sQuotes
    BY <1>1, <2>2 DEF ParserStates
  <2>4. QED
    BY <1>6, <2>1, <2>3 DEF next, c
<1>7. CASE Breaks(s, c)
  <2>1. c = "," /\ ~s.dQuotes /\ ~s.sQuotes
    BY <1>7 DEF Breaks
  <2>2. next = [s EXCEPT !.parts = longer, !.prev = idx + 1]
    BY <1>4, <2>1
  <2>3. /\ next \in ParserStates(C, Len(line)) /\ next.parts = longer /\ next.prev = idx + 1
        /\ next.dQuotes = s.dQuotes /\ next.sQuotes = s.sQuotes
    BY <1>1, <1>3, <2>2 DEF ParserStates
  <2>4. QED
    BY <1>7, <2>1, <2>3 DEF next, c, longer
<1>8. CASE c # "double" /\ c # "single" /\ ~Breaks(s, c)
  <2>1. next = s
    BY <1>4, <1>8 DEF Breaks
  <2>2. QED
    BY <1>1, <1>8, <2>1 DEF next, c
<1>9. QED
  BY <1>5, <1>6, <1>7, <1>8

(* The fields of a state of the parser.                                    *)
LEMMA ParserStateHas ==
  ASSUME NEW C, NEW n \in Nat, NEW s \in ParserStates(C, n)
  PROVE  /\ s.prev \in 0..n /\ s.parts \in Pieces(C)
         /\ s.dQuotes \in BOOLEAN /\ s.sQuotes \in BOOLEAN
BY DEF ParserStates

(* The states of the parser on its way along a line.                       *)
Parses(st, line) ==
  /\ st[0] = ParserInit
  /\ \A k \in 1..Len(line) : st[k] = ParserStep(st[k - 1], line, k - 1)

(* The parser begins in one of its states.                                 *)
LEMMA ParserInitType ==
  ASSUME NEW C, NEW n \in Nat
  PROVE  ParserInit \in ParserStates(C, n)
<1>1. PICK none \in Pieces(C) : none = <<>>
  BY EmptySeq DEF Pieces
<1>2. ParserInit = [parts |-> none, prev |-> 0, dQuotes |-> FALSE, sQuotes |-> FALSE]
  BY <1>1 DEF ParserInit
<1>3. QED
  BY <1>2 DEF ParserStates

(* That is how a line is parsed.                                           *)
LEMMA ParseUnfolds ==
  ASSUME NEW C, NEW line \in Seq(C)
  PROVE  \E st : /\ Parses(st, line)
                 /\ \A k \in 0..Len(line) : st[k] \in ParserStates(C, Len(line))
                 /\ line # <<>> =>
                      ParseLine(line) = Append(st[Len(line)].parts,
                                               Substr(line, st[Len(line)].prev,
                                                      Len(line) - st[Len(line)].prev))
<1> DEFINE n == Len(line)
           V == ParserStates(C, n)
           idxs == [k \in 1..n |-> k - 1]
           P(h) == h = [s \in SUBSET (1..n) |->
                          IF s = {} THEN ParserInit
                          ELSE ParserStep(h[s \ {Max(s)}], line, idxs[Max(s)])]
           iter == CHOOSE h : P(h)
<1>1. n \in Nat
  BY LenProperties
<1>2. ParserInit \in V
  <2> HIDE DEF n
  <2>1. QED
    BY <1>1, ParserInitType
<1>3. ASSUME NEW v \in V, NEW k \in 1..n PROVE ParserStep(v, line, idxs[k]) \in V
  <2>1. PICK idx \in 0..(n - 1) : idx = idxs[k]
    BY <1>1
  <2>2. ParserStep(v, line, idx) \in V
    BY StepOfParser
  <2>3. QED
    BY <2>1, <2>2
<1> HIDE DEF V
<1>4. \E h \in [SUBSET (1..n) -> V] : P(h)
  <2> DEFINE step == [p \in V \X (1..n) |-> ParserStep(p[1], line, idxs[p[2]])]
  <2>1. step \in [V \X (1..n) -> V]
    <3> HIDE DEF idxs
    <3>1. QED
      BY <1>3
  <2> HIDE DEF step
  <2>2. /\ \A T \in SUBSET (1..n) : T # {} => Max(T) \in T
        /\ \E h \in [SUBSET (1..n) -> V] : Folds(step, ParserInit, SUBSET (1..n), h)
    <3>1. PICK base \in V : base = ParserInit
      BY <1>2
    <3>2. n \in Nat
      BY <1>1
    <3> HIDE DEF n
    <3>3. /\ \A T \in SUBSET (1..n) : T # {} => Max(T) \in T
          /\ \E h \in [SUBSET (1..n) -> V] : Folds(step, base, SUBSET (1..n), h)
      BY <2>1, <3>2, PlacesFold
    <3>4. QED
      BY <3>1, <3>3
  <2>3. PICK h \in [SUBSET (1..n) -> V] : Folds(step, ParserInit, SUBSET (1..n), h)
    BY <2>2
  <2>4. \A s \in SUBSET (1..n) : s # {} => Max(s) \in s /\ s \ {Max(s)} \in SUBSET (1..n)
    BY <2>2
  <2> HIDE DEF idxs
  <2>5. ASSUME NEW s \in SUBSET (1..n)
        PROVE  h[s] = IF s = {} THEN ParserInit
                      ELSE ParserStep(h[s \ {Max(s)}], line, idxs[Max(s)])
    <3>1. h[s] = IF s = {} THEN ParserInit ELSE step[<<h[s \ {Max(s)}], Max(s)>>]
      BY <2>3 DEF Folds
    <3>2. s # {} => <<h[s \ {Max(s)}], Max(s)>> \in V \X (1..n)
      BY <2>4
    <3>3. s # {} => step[<<h[s \ {Max(s)}], Max(s)>>]
                      = ParserStep(h[s \ {Max(s)}], line, idxs[Max(s)])
      BY <3>2 DEF step
    <3>4. QED
      BY <3>1, <3>3
  <2>6. P(h)
    BY <2>5
  <2>7. QED
    BY <2>6
<1>5. P(iter)
  <2>1. \E h : P(h)
    BY <1>4
  <2> HIDE DEF P
  <2>2. QED
    BY <2>1
<1>6. line # <<>> => ParseLine(line) = Append(iter[1..n].parts,
                                              Substr(line, iter[1..n].prev, n - iter[1..n].prev))
  <2>1. DOMAIN idxs = 1..n
    OBVIOUS
  <2>2. FoldLeft(LAMBDA s, idx : ParserStep(s, line, idx), ParserInit, idxs) = iter[1..n]
    <3> HIDE DEF n
    <3>1. QED
      BY <2>1 DEF FoldLeft, MapThenFoldSet
  <2>3. QED
    BY <2>2 DEF ParseLine
<1> HIDE DEF iter
<1> DEFINE st == [k \in 0..n |-> iter[1..k]]
<1>7. st[0] = ParserInit
  <2>1. 1..0 = {} /\ 0 \in 0..n
    BY <1>1
  <2>2. iter[{}] = ParserInit
    BY <1>5
  <2>3. QED
    BY <2>1, <2>2
<1>8. ASSUME NEW k \in 1..n PROVE st[k] = ParserStep(st[k - 1], line, idxs[k])
  <2>1. k \in Nat \ {0} /\ 1..k \in SUBSET (1..n) /\ k \in 0..n /\ k - 1 \in 0..n
    BY <1>1
  <2>2. Max(1..k) = k /\ (1..k) \ {k} = 1..(k - 1) /\ 1..k # {}
    BY <2>1, PrefixFolds
  <2> HIDE DEF idxs
  <2>3. iter[1..k] = ParserStep(iter[1..(k - 1)], line, idxs[k])
    BY <1>5, <2>1, <2>2
  <2>4. QED
    BY <2>1, <2>3
<1>9. st[n] = iter[1..n]
  BY <1>1
<1>10. \A k \in 1..n : idxs[k] = k - 1
  OBVIOUS
<1> HIDE DEF st, idxs
<1> DEFINE Good == {k \in Nat : k <= n => st[k] \in V}
<1>11. 0 \in Good
  BY <1>2, <1>7
<1>12. ASSUME NEW k \in Good PROVE k + 1 \in Good
  <2>1. CASE k + 1 <= n
    <3>1. k + 1 \in 1..n /\ (k + 1) - 1 = k /\ st[k] \in V
      BY <1>1, <2>1
    <3>2. ParserStep(st[k], line, idxs[k + 1]) \in V
      BY <1>3, <3>1
    <3>3. st[k + 1] \in V
      BY <1>8, <3>1, <3>2
    <3>4. QED
      BY <3>3
  <2>2. QED
    BY <2>1
<1>13. Good \in SUBSET Nat
  OBVIOUS
<1> HIDE DEF Good
<1>14. \A k \in Nat : k \in Good
  BY <1>11, <1>12, <1>13, SetInduction
<1>15. \A k \in 0..n : st[k] \in V
  BY <1>1, <1>14 DEF Good
<1>16. Parses(st, line)
  BY <1>7, <1>8, <1>10 DEF Parses
<1>17. QED
  BY <1>6, <1>9, <1>15, <1>16 DEF V

(* A text that has no comma outside quotes; the sets are of the places     *)
(* behind which a quotation of either kind is open.                        *)
QuotedBy(D, Q, x) ==
  /\ 0 \notin D /\ 0 \notin Q
  /\ \A k \in 1..Len(x) : /\ k \in D <=> (k - 1 \in D <=> x[k] # "double")
                          /\ k \in Q <=> (k - 1 \in Q <=> x[k] # "single")
                          /\ x[k] = "," => k - 1 \in D \/ k - 1 \in Q

(* The same, and whether a quotation is open behind the last character.    *)
Quoted(x, d, q) ==
  \E D, Q : QuotedBy(D, Q, x) /\ (Len(x) \in D <=> d) /\ (Len(x) \in Q <=> q)

(* Nothing is open in a text without a character.                          *)
LEMMA QuotedEmpty == Quoted(<<>>, FALSE, FALSE)
<1> DEFINE none == <<>>
<1>1. Len(none) = 0
  BY EmptySeq
<1> HIDE DEF none
<1>2. ~(\E k \in 1..0 : TRUE)
  OBVIOUS
<1>3. QuotedBy({}, {}, none)
  BY <1>1, <1>2 DEF QuotedBy
<1>4. QED
  BY <1>1, <1>3 DEF Quoted, none

(* One more character, a comma only within quotes.                         *)
Continues(x, c, d, q) ==
  Quoted(x, d, q) /\ (c = "," => d \/ q)
    => Quoted(Append(x, c), d <=> c # "double", q <=> c # "single")

(* It leaves a text that has no comma outside quotes.                      *)
LEMMA QuotedMore ==
  ASSUME NEW C, NEW x \in Seq(C), NEW c \in C, NEW d, NEW q
  PROVE  Continues(x, c, d, q)
<1> DEFINE n == Len(x)
           y == Append(x, c)
<1>0. SUFFICES ASSUME Quoted(x, d, q), c = "," => d \/ q
               PROVE  Quoted(y, d <=> c # "double", q <=> c # "single")
  BY DEF Continues
<1>1. n \in Nat
  BY LenProperties
<1>2. Len(y) = n + 1 /\ y[n + 1] = c /\ \A k \in 1..n : y[k] = x[k]
  BY AppendProperties
<1>3. PICK D, Q : QuotedBy(D, Q, x) /\ (n \in D <=> d) /\ (n \in Q <=> q)
  BY <1>0 DEF Quoted
<1>4. /\ 0 \notin D /\ 0 \notin Q
      /\ \A k \in 1..n : /\ k \in D <=> (k - 1 \in D <=> x[k] # "double")
                         /\ k \in Q <=> (k - 1 \in Q <=> x[k] # "single")
                         /\ x[k] = "," => k - 1 \in D \/ k - 1 \in Q
  BY <1>3 DEF QuotedBy
<1> HIDE DEF n, y
<1> DEFINE E == {k \in 0..(n + 1) : IF k = n + 1 THEN d <=> c # "double" ELSE k \in D}
           R == {k \in 0..(n + 1) : IF k = n + 1 THEN q <=> c # "single" ELSE k \in Q}
<1>5. /\ n + 1 \in E <=> (d <=> c # "double")
      /\ n + 1 \in R <=> (q <=> c # "single")
      /\ \A k \in 0..n : (k \in E <=> k \in D) /\ (k \in R <=> k \in Q)
  <2>1. n + 1 \in 0..(n + 1) /\ \A k \in 0..n : k \in 0..(n + 1) /\ k # n + 1
    BY <1>1
  <2>2. QED
    BY <2>1
<1> HIDE DEF E, R
<1>6. 0 \notin E /\ 0 \notin R
  <2>1. 0 \in 0..n
    BY <1>1
  <2>2. QED
    BY <1>4, <1>5, <2>1
<1>7. ASSUME NEW k \in 1..(n + 1)
      PROVE  /\ k \in E <=> (k - 1 \in E <=> y[k] # "double")
             /\ k \in R <=> (k - 1 \in R <=> y[k] # "single")
             /\ y[k] = "," => k - 1 \in E \/ k - 1 \in R
  <2>1. CASE k = n + 1
    <3>1. k - 1 = n /\ n \in 0..n
      BY <1>1, <2>1
    <3>2. (k - 1 \in E <=> d) /\ (k - 1 \in R <=> q)
      BY <1>3, <1>5, <3>1
    <3>3. y[k] = c
      BY <1>2, <2>1
    <3>4. QED
      BY <1>0, <1>5, <2>1, <3>2, <3>3
  <2>2. CASE k # n + 1
    <3>1. k \in 1..n /\ k \in 0..n /\ k - 1 \in 0..n
      BY <1>1, <2>2
    <3>2. y[k] = x[k]
      BY <1>2, <3>1
    <3>3. QED
      BY <1>4, <1>5, <3>1, <3>2
  <2>3. QED
    BY <2>1, <2>2
<1>8. QuotedBy(E, R, y)
  BY <1>2, <1>6, <1>7 DEF QuotedBy
<1>9. QED
  BY <1>2, <1>5, <1>8 DEF Quoted

(* The parser takes such a text for one field.                             *)
LEMMA QuotedIsOneField ==
  ASSUME NEW C, NEW x \in Seq(C), x # <<>>, NEW d, NEW q, Quoted(x, d, q)
  PROVE  ParseLine(x) = <<x>>
<1> DEFINE n == Len(x)
<1>1. n \in Nat
  BY LenProperties
<1>2. PICK st : /\ Parses(st, x)
                /\ \A k \in 0..n : st[k] \in ParserStates(C, n)
                /\ ParseLine(x) = Append(st[n].parts, Substr(x, st[n].prev, n - st[n].prev))
  BY ParseUnfolds
<1>3. PICK D, Q : QuotedBy(D, Q, x)
  BY DEF Quoted
<1>4. /\ 0 \notin D /\ 0 \notin Q
      /\ \A k \in 1..n : /\ k \in D <=> (k - 1 \in D <=> x[k] # "double")
                         /\ k \in Q <=> (k - 1 \in Q <=> x[k] # "single")
                         /\ x[k] = "," => k - 1 \in D \/ k - 1 \in Q
  BY <1>3 DEF QuotedBy
<1> DEFINE Same(k) == /\ st[k].parts = <<>> /\ st[k].prev = 0
                      /\ st[k].dQuotes <=> k \in D
                      /\ st[k].sQuotes <=> k \in Q
           Good == {k \in Nat : k <= n => Same(k)}
<1>5. 0 \in Good
  <2>1. st[0] = ParserInit
    BY <1>2 DEF Parses
  <2>2. /\ ParserInit.parts = <<>> /\ ParserInit.prev = 0
        /\ ParserInit.dQuotes = FALSE /\ ParserInit.sQuotes = FALSE
    BY DEF ParserInit
  <2>3. Same(0)
    BY <1>4, <2>1, <2>2
  <2> HIDE DEF Same
  <2>4. QED
    BY <2>3
<1>6. ASSUME NEW k \in Good PROVE k + 1 \in Good
  <2>1. CASE k + 1 <= n
    <3>1. /\ k \in 0..(n - 1) /\ k + 1 \in 1..n /\ (k + 1) - 1 = k /\ k \in 0..n
      BY <1>1, <2>1
    <3>2. Same(k)
      BY <1>1, <2>1
    <3>3. st[k + 1] = ParserStep(st[k], x, k)
      BY <1>2, <3>1 DEF Parses
    <3>4. PICK s \in ParserStates(C, n) : s = st[k]
      BY <1>2, <3>1
    <3>5. /\ st[k + 1].parts = IF Breaks(s, x[k + 1])
                               THEN Append(s.parts, Substr(x, s.prev, k - s.prev))
                               ELSE s.parts
          /\ st[k + 1].prev = IF Breaks(s, x[k + 1]) THEN k + 1 ELSE s.prev
          /\ st[k + 1].dQuotes = IF x[k + 1] = "double" THEN ~s.dQuotes ELSE s.dQuotes
          /\ st[k + 1].sQuotes = IF x[k + 1] = "single" THEN ~s.sQuotes ELSE s.sQuotes
      BY <3>1, <3>3, <3>4, StepOfParser
    <3>6. /\ k + 1 \in D <=> (k \in D <=> x[k + 1] # "double")
          /\ k + 1 \in Q <=> (k \in Q <=> x[k + 1] # "single")
          /\ x[k + 1] = "," => k \in D \/ k \in Q
      <4> HIDE DEF Good, n
      <4>1. PICK m \in 1..n : m = k + 1 /\ m - 1 = k
        BY <3>1
      <4>2. QED
        BY <1>4, <4>1
    <3>7. ~Breaks(s, x[k + 1])
      BY <3>2, <3>4, <3>6 DEF Breaks
    <3>8. Same(k + 1)
      BY <3>2, <3>4, <3>5, <3>6, <3>7
    <3> HIDE DEF Same
    <3>9. QED
      BY <3>1, <3>8
  <2>2. QED
    BY <2>1
<1>7. Good \in SUBSET Nat
  OBVIOUS
<1>8. Same(n)
  <2> HIDE DEF Good
  <2>1. n \in Good
    BY <1>1, <1>5, <1>6, <1>7, SetInduction
  <2>2. QED
    BY <1>1, <2>1 DEF Good
<1>9. Substr(x, 0, n - 0) = x
  <2>1. PICK a \in 0..n : a = 0
    BY <1>1
  <2>2. PICK b \in a..n : b = n
    BY <1>1, <2>1
  <2>3. Substr(x, a, b - a) = Part(x, a, b)
    BY PartHas
  <2>4. Part(x, 0, n) = x
    BY PartsAtEnds
  <2>5. QED
    BY <2>1, <2>2, <2>3, <2>4
<1>10. Append(<<>>, x) = <<x>>
  OBVIOUS
<1>11. QED
  BY <1>2, <1>8, <1>9, <1>10

(* A last part that is longer makes what is joined longer.                 *)
LEMMA JoinLonger ==
  ASSUME NEW C, NEW d \in Seq(C), NEW parts \in Pieces(C), NEW x \in Seq(C), NEW c \in C
  PROVE  /\ Join(Append(parts, x), d) \in Seq(C)
         /\ Join(Append(parts, Append(x, c)), d) = Append(Join(Append(parts, x), d), c)
<1>1. PICK y \in Seq(C) : y = Append(x, c)
  BY AppendProperties
<1>2. CASE Len(parts) = 0
  <2>1. parts = <<>>
    BY <1>2, PiecesHave
  <2>2. Append(<<>>, x) = <<x>> /\ Append(<<>>, y) = <<y>>
    OBVIOUS
  <2>3. Join(<<x>>, d) = x
    BY JoinOne
  <2>4. Join(<<y>>, d) = y
    BY JoinOne
  <2>5. QED
    BY <1>1, <2>1, <2>2, <2>3, <2>4
<1>3. CASE Len(parts) # 0
  <2>1. Join(Append(parts, x), d) = (Join(parts, d) \o d) \o x
    BY <1>3, JoinAppend
  <2>2. Join(Append(parts, y), d) = (Join(parts, d) \o d) \o y
    BY <1>3, JoinAppend
  <2>3. PICK j \in Seq(C) : j = Join(parts, d)
    <3>1. Unfolds(parts, d, C)
      BY <1>3, JoinUnfolds
    <3>2. QED
      BY <3>1 DEF Unfolds
  <2>4. PICK a \in Seq(C) : a = j \o d
    <3>1. j \o d \in Seq(C)
      BY ConcatProperties
    <3>2. QED
      BY <3>1
  <2>5. a \o x \in Seq(C)
    BY ConcatProperties
  <2>6. a \o Append(x, c) = Append(a \o x, c)
    BY JoinedAppend
  <2>7. QED
    BY <1>1, <2>1, <2>2, <2>3, <2>4, <2>5, <2>6
<1>4. QED
  BY <1>2, <1>3

(* A text that is a field: no comma in it is outside quotes.               *)
IsField(x) == \E d, q : Quoted(x, d, q)

(* What is parsed of a line when the parser is at a position: the parts so *)
(* far and what is behind the last comma are the line up to there, and no  *)
(* part has a comma outside quotes.                                        *)
ParsedTo(s, line, k) ==
  /\ s.prev <= k
  /\ Join(Append(s.parts, Part(line, s.prev, k)), <<",">>) = Part(line, 0, k)
  /\ \A j \in 1..Len(s.parts) : IsField(s.parts[j])
  /\ Quoted(Part(line, s.prev, k), s.dQuotes, s.sQuotes)

(* A text of one character.                                                *)
LEMMA OnePiece == ASSUME NEW C, NEW c \in C PROVE <<c>> \in Seq(C)
  OBVIOUS

(* It is so at the beginning of the line.                                  *)
LEMMA ParsedInit ==
  ASSUME NEW C, NEW line \in Seq(C)
  PROVE  "," \in C => ParsedTo(ParserInit, line, 0)
<1>0. SUFFICES ASSUME "," \in C PROVE ParsedTo(ParserInit, line, 0)
  OBVIOUS
<1>1. Len(line) \in Nat /\ 0 \in 0..Len(line)
  BY LenProperties
<1>2. Part(line, 0, 0) = <<>>
  BY <1>1, PartsAtEnds
<1>3. Append(<<>>, <<>>) = << <<>> >>
  OBVIOUS
<1>4. Join(<< <<>> >>, <<",">>) = <<>>
  <2>0. <<",">> \in Seq(C)
    BY ONLY <1>0, OnePiece
  <2>1. PICK d \in Seq(C) : d = <<",">>
    BY <2>0
  <2>2. PICK none \in Seq(C) : none = <<>>
    BY EmptySeq
  <2>3. Join(<<none>>, d) = none
    BY JoinOne
  <2>4. QED
    BY <2>1, <2>2, <2>3
<1>5. /\ ParserInit.parts = <<>> /\ ParserInit.prev = 0
      /\ ParserInit.dQuotes = FALSE /\ ParserInit.sQuotes = FALSE
  BY DEF ParserInit
<1>6. ~(\E j \in 1..Len(<<>>) : TRUE)
  <2>1. Len(<<>>) = 0
    BY EmptySeq
  <2>2. QED
    BY <2>1
<1>7. PICK s : s = ParserInit
  OBVIOUS
<1>8. s.prev <= 0 /\ Join(Append(s.parts, Part(line, s.prev, 0)), <<",">>) = Part(line, 0, 0)
  <2>1. s.prev = 0 /\ s.parts = <<>>
    BY <1>5, <1>7
  <2>2. Part(line, s.prev, 0) = <<>>
    BY <1>2, <2>1
  <2>3. s.prev <= 0
    BY ONLY <2>1
  <2>4. Join(Append(s.parts, Part(line, s.prev, 0)), <<",">>) = <<>>
    BY <1>3, <1>4, <2>1, <2>2
  <2>5. QED
    BY <1>2, <2>3, <2>4
<1>9. \A j \in 1..Len(s.parts) : IsField(s.parts[j])
  BY <1>5, <1>6, <1>7
<1>10. Quoted(Part(line, s.prev, 0), s.dQuotes, s.sQuotes)
  BY <1>2, <1>5, <1>7, QuotedEmpty
<1>11. QED
  BY <1>7, <1>8, <1>9, <1>10 DEF ParsedTo

(* It stays so with every character.                                       *)
LEMMA ParsedMore ==
  ASSUME NEW C, NEW line \in Seq(C), NEW k \in 0..(Len(line) - 1),
         NEW s \in ParserStates(C, Len(line))
  PROVE  "," \in C /\ ParsedTo(s, line, k) => ParsedTo(ParserStep(s, line, k), line, k + 1)
<1>0. SUFFICES ASSUME "," \in C, ParsedTo(s, line, k)
               PROVE  ParsedTo(ParserStep(s, line, k), line, k + 1)
  OBVIOUS
<1> DEFINE n == Len(line)
           c == line[k + 1]
           d == <<",">>
           next == ParserStep(s, line, k)
<1>1. n \in Nat
  BY LenProperties
<1>2. s.prev \in 0..n /\ s.parts \in Pieces(C) /\ s.dQuotes \in BOOLEAN /\ s.sQuotes \in BOOLEAN
  <2>1. PICK m \in Nat : m = n
    BY <1>1
  <2>2. s \in ParserStates(C, m)
    BY <2>1
  <2>3. s.prev \in 0..m /\ s.parts \in Pieces(C) /\ s.dQuotes \in BOOLEAN /\ s.sQuotes \in BOOLEAN
    BY <2>2, ParserStateHas
  <2>4. QED
    BY <2>1, <2>3
<1>3. d \in Seq(C)
  BY ONLY <1>0, OnePiece
<1>4. /\ next.parts = IF Breaks(s, c) THEN Append(s.parts, Substr(line, s.prev, k - s.prev))
                      ELSE s.parts
      /\ next.prev = IF Breaks(s, c) THEN k + 1 ELSE s.prev
      /\ next.dQuotes = IF c = "double" THEN ~s.dQuotes ELSE s.dQuotes
      /\ next.sQuotes = IF c = "single" THEN ~s.sQuotes ELSE s.sQuotes
  BY StepOfParser
<1>5. /\ s.prev <= k
      /\ Join(Append(s.parts, Part(line, s.prev, k)), d) = Part(line, 0, k)
      /\ \A j \in 1..Len(s.parts) : IsField(s.parts[j])
      /\ Quoted(Part(line, s.prev, k), s.dQuotes, s.sQuotes)
  BY <1>0 DEF ParsedTo
<1>6. PICK prev \in 0..k : prev = s.prev
  <2>1. s.prev \in 0..n
    BY <1>2
  <2>2. s.prev <= k
    BY <1>5
  <2> HIDE DEF n
  <2>3. s.prev \in 0..k
    BY <1>1, <2>1, <2>2
  <2>4. QED
    BY <2>3
<1>7. prev \in 0..n /\ k \in prev..n /\ 0 \in 0..n /\ k \in 0..n /\ 0 \in 0..k
      /\ k + 1 \in 0..n /\ k + 1 \in k..n /\ k \in 0..(n - 1)
  BY <1>1
<1>8. PICK p \in Seq(C) : p = Part(line, prev, k) /\ Substr(line, prev, k - prev) = p
  BY <1>7, PartHas
<1>9. PICK parts \in Pieces(C) : parts = s.parts
  BY <1>2
<1> HIDE DEF d, next
<1>10. PICK e \in C : e = c /\ Part(line, prev, k + 1) = Append(p, e) /\ Part(line, k, k + 1) = <<e>>
  <2>1. /\ line[k + 1] \in C /\ Part(line, prev, k + 1) = Append(Part(line, prev, k), line[k + 1])
        /\ Part(line, k, k + 1) = <<line[k + 1]>>
    BY <1>7, PartAppend
  <2>2. QED
    BY <1>8, <2>1
<1>11. Part(line, 0, k + 1) = Append(Part(line, 0, k), e)
  <2>1. PICK a \in 0..k : a = 0
    BY <1>7
  <2>2. Part(line, a, k + 1) = Append(Part(line, a, k), line[k + 1])
    BY <1>7, PartAppend
  <2>3. QED
    BY <1>10, <2>1, <2>2
<1> HIDE DEF c, n
<1>12. CASE Breaks(s, c)
  <2>1. c = "," /\ s.dQuotes = FALSE /\ s.sQuotes = FALSE
    BY <1>2, <1>12 DEF Breaks
  <2>2. PICK more \in Pieces(C) : /\ more = Append(parts, p) /\ Len(more) = Len(parts) + 1
                                  /\ \A j \in 1..Len(parts) : more[j] = parts[j]
                                  /\ more[Len(parts) + 1] = p
    BY PiecesAppended
  <2>3. Len(parts) \in Nat
    BY PiecesHave
  <2>4. next.parts = more /\ next.prev = k + 1 /\ next.dQuotes = FALSE /\ next.sQuotes = FALSE
    BY <1>4, <1>6, <1>8, <1>9, <1>12, <2>1, <2>2
  <2>5. Part(line, k + 1, k + 1) = <<>>
    BY <1>7, PartsAtEnds DEF n
  <2>6. PICK none \in Seq(C) : none = <<>>
    BY EmptySeq
  <2>7. Join(more, d) = Part(line, 0, k)
    BY <1>5, <1>6, <1>8, <1>9, <2>2
  <2>8. Len(more) # 0
    BY <2>2, <2>3
  <2>9. Join(Append(more, none), d) = (Join(more, d) \o d) \o none
    <3>1. d \in Seq(C)
      BY <1>3
    <3>2. QED
      BY <2>8, <3>1, JoinAppend
  <2>10. PICK z \in Seq(C) : z = Part(line, 0, k)
    BY <1>7, PartHas DEF n
  <2>11. Append(z, e) = z \o <<e>>
    BY AppendIsConcat
  <2>12. d = <<e>>
    BY <1>10, <2>1 DEF d
  <2>13. PICK w \in Seq(C) : w = z \o d
    <3>1. PICK u \in Seq(C) : u = d
      BY <1>3
    <3>2. z \o u \in Seq(C)
      BY ConcatProperties
    <3>3. QED
      BY <3>1, <3>2
  <2>14. w \o none = w
    BY <2>6, ConcatEmptySeq
  <2>15. Join(Append(more, none), d) = Part(line, 0, k + 1)
    BY <1>11, <2>7, <2>9, <2>10, <2>11, <2>12, <2>13, <2>14
  <2>16. ASSUME NEW j \in 1..Len(more) PROVE IsField(more[j])
    <3>1. CASE j = Len(parts) + 1
      <4>1. IsField(p)
        BY <1>5, <1>6, <1>8 DEF IsField
      <4>2. QED
        BY <2>2, <3>1, <4>1
    <3>2. CASE j # Len(parts) + 1
      <4>1. j \in 1..Len(parts)
        BY <2>2, <2>3, <3>2
      <4>2. QED
        BY <1>5, <1>9, <2>2, <4>1
    <3>3. QED
      BY <3>1, <3>2
  <2>17. k + 1 <= k + 1
    BY <1>7
  <2>18. ParsedTo(next, line, k + 1)
    BY <2>4, <2>5, <2>6, <2>15, <2>16, <2>17, QuotedEmpty DEF ParsedTo, d
  <2>19. QED
    BY <2>18 DEF next
<1>13. CASE ~Breaks(s, c)
  <2>1. next.parts = parts /\ next.prev = prev
    BY <1>4, <1>6, <1>9, <1>13
  <2>2. Join(Append(parts, Append(p, e)), d) = Append(Join(Append(parts, p), d), e)
    <3>1. PICK u \in Seq(C) : u = d
      BY <1>3
    <3>2. Join(Append(parts, Append(p, e)), u) = Append(Join(Append(parts, p), u), e)
      BY JoinLonger
    <3>3. QED
      BY <3>1, <3>2
  <2>3. Join(Append(parts, p), d) = Part(line, 0, k)
    BY <1>5, <1>6, <1>8, <1>9
  <2>4. Quoted(p, s.dQuotes, s.sQuotes) /\ (e = "," => s.dQuotes \/ s.sQuotes)
    BY <1>5, <1>6, <1>8, <1>10, <1>13 DEF Breaks
  <2>5. Quoted(Append(p, e), s.dQuotes <=> e # "double", s.sQuotes <=> e # "single")
    <3>1. PICK a, b : a = s.dQuotes /\ b = s.sQuotes
      OBVIOUS
    <3>2. Continues(p, e, a, b)
      BY QuotedMore
    <3>3. QED
      BY <2>4, <3>1, <3>2 DEF Continues
  <2>6. /\ next.dQuotes = (s.dQuotes <=> e # "double")
        /\ next.sQuotes = (s.sQuotes <=> e # "single")
    BY <1>2, <1>4, <1>10
  <2>7. Quoted(Append(p, e), next.dQuotes, next.sQuotes)
    BY <2>5, <2>6
  <2>8. next.prev <= k + 1
    BY <1>7, <2>1
  <2>9. \A j \in 1..Len(next.parts) : IsField(next.parts[j])
    BY <1>5, <1>9, <2>1
  <2>10. Join(Append(next.parts, Part(line, next.prev, k + 1)), d) = Part(line, 0, k + 1)
    BY <1>10, <1>11, <2>1, <2>2, <2>3
  <2>11. Quoted(Part(line, next.prev, k + 1), next.dQuotes, next.sQuotes)
    BY <1>10, <2>1, <2>7
  <2>12. ParsedTo(next, line, k + 1)
    BY <2>8, <2>9, <2>10, <2>11 DEF ParsedTo, d
  <2>13. QED
    BY <2>12 DEF next
<1>14. QED
  BY <1>12, <1>13

(* A line is its fields and the commas between them, and no field has a    *)
(* comma outside quotes.                                                   *)
FieldsHold(line, C) ==
  LET fields == ParseLine(line)
  IN  /\ fields \in Pieces(C)
      /\ Join(fields, <<",">>) = line
      /\ \A j \in 1..Len(fields) : IsField(fields[j])

(* So it is at the end.                                                    *)
LEMMA ParsedAll ==
  ASSUME NEW C, NEW line \in Seq(C), NEW st,
         Parses(st, line),
         \A k \in 0..Len(line) : st[k] \in ParserStates(C, Len(line))
  PROVE  "," \in C => ParsedTo(st[Len(line)], line, Len(line))
<1>0. SUFFICES ASSUME "," \in C PROVE ParsedTo(st[Len(line)], line, Len(line))
  OBVIOUS
<1>1. PICK n \in Nat : n = Len(line)
  BY LenProperties
<1> DEFINE Good == {k \in Nat : k <= n => ParsedTo(st[k], line, k)}
<1>2. 0 \in Good
  <2>1. ParsedTo(ParserInit, line, 0)
    BY <1>0, ParsedInit
  <2>2. QED
    BY <2>1 DEF Parses
<1>3. ASSUME NEW k \in Good PROVE k + 1 \in Good
  <2>1. SUFFICES ASSUME k + 1 <= n PROVE ParsedTo(st[k + 1], line, k + 1)
    OBVIOUS
  <2>2. k \in Nat /\ k \in 0..(n - 1) /\ k \in 0..n /\ k + 1 \in 1..n /\ (k + 1) - 1 = k
    BY <1>1, <2>1
  <2>3. ParsedTo(st[k], line, k)
    BY <2>2
  <2>4. PICK s \in ParserStates(C, Len(line)) : s = st[k]
    BY <1>1, <2>2
  <2>5. PICK i \in 0..(Len(line) - 1) : i = k
    BY <1>1, <2>2
  <2>6. ParsedTo(ParserStep(s, line, i), line, i + 1)
    BY <1>0, <2>3, <2>4, <2>5, ParsedMore
  <2>7. st[k + 1] = ParserStep(st[k], line, k)
    BY <1>1, <2>2 DEF Parses
  <2>8. QED
    BY <2>4, <2>5, <2>6, <2>7
<1>4. Good \in SUBSET Nat
  OBVIOUS
<1> HIDE DEF Good
<1>5. n \in Good
  BY <1>1, <1>2, <1>3, <1>4, SetInduction
<1>6. QED
  BY <1>1, <1>5 DEF Good

(* That is what parsing a line leaves.                                     *)
LEMMA FieldsAreKept ==
  ASSUME NEW C, NEW line \in Seq(C)
  PROVE  "," \in C => FieldsHold(line, C)
<1>0. SUFFICES ASSUME "," \in C PROVE FieldsHold(line, C)
  OBVIOUS
<1>1. CASE line = <<>>
  <2>1. ParseLine(line) = <<>>
    BY <1>1 DEF ParseLine
  <2>2. Join(<<>>, <<",">>) = <<>>
    BY DEF Join
  <2>3. PICK none \in Pieces(C) : none = <<>> /\ Len(none) = 0
    BY EmptySeq DEF Pieces
  <2>4. ~(\E j \in 1..0 : TRUE)
    OBVIOUS
  <2>5. QED
    BY <1>1, <2>1, <2>2, <2>3, <2>4 DEF FieldsHold
<1>2. CASE line # <<>>
  <2>1. PICK st : /\ Parses(st, line)
                  /\ \A k \in 0..Len(line) : st[k] \in ParserStates(C, Len(line))
                  /\ ParseLine(line) = Append(st[Len(line)].parts,
                                              Substr(line, st[Len(line)].prev,
                                                     Len(line) - st[Len(line)].prev))
    BY <1>2, ParseUnfolds
  <2>2. PICK n \in Nat : n = Len(line)
    BY LenProperties
  <2>3. PICK s : s = st[n] /\ s \in ParserStates(C, n)
    <3>1. n \in 0..n
      BY ONLY <2>2
    <3>2. QED
      BY <2>1, <2>2, <3>1
  <2>4. s.prev \in 0..n /\ s.parts \in Pieces(C) /\ s.dQuotes \in BOOLEAN /\ s.sQuotes \in BOOLEAN
    BY <2>3, ParserStateHas
  <2>5. ParsedTo(s, line, n)
    BY <1>0, <2>1, <2>2, <2>3, ParsedAll
  <2>6. PICK prev \in 0..n : prev = s.prev
    BY <2>4
  <2>7. PICK parts \in Pieces(C) : parts = s.parts
    BY <2>4
  <2>8. n \in prev..n
    BY <2>2, <2>6
  <2>9. PICK p \in Seq(C) : p = Part(line, prev, n) /\ Substr(line, prev, n - prev) = p
    BY <2>2, <2>6, <2>8, PartHas
  <2>10. PICK more \in Pieces(C) : /\ more = Append(parts, p) /\ Len(more) = Len(parts) + 1
                                   /\ \A j \in 1..Len(parts) : more[j] = parts[j]
                                   /\ more[Len(parts) + 1] = p
    BY PiecesAppended
  <2>11. ParseLine(line) = more
    BY <2>1, <2>2, <2>3, <2>6, <2>7, <2>9, <2>10
  <2>12. /\ Join(Append(s.parts, Part(line, s.prev, n)), <<",">>) = Part(line, 0, n)
         /\ \A j \in 1..Len(s.parts) : IsField(s.parts[j])
         /\ Quoted(Part(line, s.prev, n), s.dQuotes, s.sQuotes)
    BY <2>5 DEF ParsedTo
  <2>13. Join(more, <<",">>) = line
    <3>1. Part(line, 0, n) = line
      BY <2>2, PartsAtEnds
    <3>2. QED
      BY <2>6, <2>7, <2>9, <2>10, <2>12, <3>1
  <2>14. Len(parts) \in Nat
    BY PiecesHave
  <2>15. ASSUME NEW j \in 1..Len(more) PROVE IsField(more[j])
    <3>1. CASE j = Len(parts) + 1
      <4>1. IsField(p)
        BY <2>6, <2>9, <2>12 DEF IsField
      <4>2. QED
        BY <2>10, <3>1, <4>1
    <3>2. CASE j # Len(parts) + 1
      <4>1. j \in 1..Len(parts)
        BY <2>10, <2>14, <3>2
      <4>2. QED
        BY <2>7, <2>10, <2>12, <4>1
    <3>3. QED
      BY <3>1, <3>2
  <2>16. QED
    BY <2>11, <2>13, <2>15 DEF FieldsHold
<1>3. QED
  BY <1>1, <1>2

(* A header finds the last of the fields that have its name, unless the    *)
(* index of a column does not reach that far.                              *)
LEMMA HeaderFinds ==
  ASSUME NEW C, NEW line \in Seq(C), ParseLine(line) \in Pieces(C),
         NEW name \in Range(ParseLine(line)),
         \A k \in DOMAIN ParseLine(line) : ParseLine(line)[k] = name => k <= ColumnRange
  PROVE  FieldOf(Headers(line), ParseLine(line), name) = name
<1>1. PICK names \in Pieces(C) : names = ParseLine(line)
  OBVIOUS
<1>2. PICK n \in Nat : n = Len(names) /\ DOMAIN names = 1..n
  BY PiecesHave
<1>3. PICK S : S = {k \in DOMAIN names : names[k] = name}
  OBVIOUS
<1>4. S \in SUBSET Int /\ \A x \in S : x <= n
  BY <1>2, <1>3
<1>5. S # {}
  BY <1>1, <1>3 DEF Range
<1>6. PICK k : k = Max(S) /\ k \in S
  <2>1. n \in Int
    BY <1>2
  <2>2. Max(S) \in S
    BY <1>4, <1>5, <2>1, MaxIs
  <2>3. QED
    BY <2>2
<1>7. k \in 1..n /\ names[k] = name
  BY <1>2, <1>3, <1>6
<1>8. PICK headers : headers = Headers(line)
  OBVIOUS
<1>9. headers = [x \in Range(names) |->
                   (Max({i \in DOMAIN names : names[i] = x}) - 1) % ColumnRange]
  BY <1>1, <1>8 DEF Headers
<1>10. name \in DOMAIN headers /\ headers[name] = k - 1
  <2>1. name \in DOMAIN headers /\ headers[name] = (k - 1) % ColumnRange
    BY <1>1, <1>3, <1>6, <1>9
  <2>2. k <= ColumnRange
    BY <1>1, <1>2, <1>7
  <2>3. (k - 1) % ColumnRange = k - 1
    <3>1. PICK range \in Nat \ {0} : range = ColumnRange
      BY ColumnRangeAssumption
    <3>2. k - 1 \in 0..(range - 1)
      BY <1>2, <1>7, <2>2, <3>1
    <3>3. (k - 1) % range = k - 1
      BY ONLY <3>1, <3>2, range \in Nat \ {0}
    <3>4. QED
      BY <3>1, <3>3
  <2>4. QED
    BY <2>1, <2>3
<1>11. k - 1 < n /\ (k - 1) + 1 = k
  BY <1>2, <1>7
<1>12. FieldOf(headers, names, name) = names[headers[name] + 1]
  BY <1>2, <1>10, <1>11 DEF FieldOf
<1>13. QED
  BY <1>1, <1>7, <1>8, <1>10, <1>11, <1>12

-----------------------------------------------------------------------------
(* What the ways to trim leave of a text.                                  *)
TrimsAgree(line) ==
  /\ IF Range(line) \subseteq Space
     THEN Trim1(line) = <<>> /\ Trim2(line) = <<>>
     ELSE /\ IsMiddle(Trim1(line), line, Space)
          /\ Trim2(line) = Trim1(line) /\ Trim3(line) = Trim1(line)
          /\ Range(line) \cap IsSpace \subseteq Space => Trim(line) = Trim1(line)
  /\ IF Range(line) \subseteq Blank
     THEN StripFast(line) \in {<<>>, Undefined}
     ELSE /\ IsMiddle(Strip(line), line, Blank)
          /\ StripFast(line) = Strip(line)
          /\ Range(line) \cap IsSpace \subseteq Blank => TrimEx(line) = Strip(line)
  /\ IF Range(line) \subseteq IsSpace
     THEN TrimEx(line) = <<>>
     ELSE /\ IsMiddle(TrimEx(line), line, IsSpace)
          /\ Last(Trim(line)) \notin IsSpace

(* For every text.                                                         *)
LEMMA TrimsKeep ==
  ASSUME NEW C, NEW line \in Seq(C)
  PROVE  TrimsAgree(line)
<1>1. IF Range(line) \subseteq Space
      THEN Trim1(line) = <<>> /\ Trim2(line) = <<>>
      ELSE /\ IsMiddle(Trim1(line), line, Space)
           /\ Trim2(line) = Trim1(line) /\ Trim3(line) = Trim1(line)
           /\ Range(line) \cap IsSpace \subseteq Space => Trim(line) = Trim1(line)
  <2>1. CASE Range(line) \subseteq Space
    BY <2>1, SpacesAreTrimmed
  <2>2. CASE ~(Range(line) \subseteq Space)
    <3>1. PICK left \in Int, right \in Int : Outer(line, Space, left, right)
      BY <2>2, OuterExists
    <3>2. /\ Trim1(line) = Middle(line, left, right)
          /\ Trim2(line) = Middle(line, left, right)
          /\ Trim3(line) = Middle(line, left, right)
          /\ Range(line) \cap IsSpace \subseteq Space => Trim(line) = Middle(line, left, right)
      BY <3>1, SpacedTextIsTrimmed
    <3>3. IsMiddle(Middle(line, left, right), line, Space)
      BY <3>1, MiddleIsMiddle
    <3>4. QED
      BY <2>2, <3>2, <3>3
  <2>3. QED
    BY <2>1, <2>2
<1>2. IF Range(line) \subseteq Blank
      THEN StripFast(line) \in {<<>>, Undefined}
      ELSE /\ IsMiddle(Strip(line), line, Blank)
           /\ StripFast(line) = Strip(line)
           /\ Range(line) \cap IsSpace \subseteq Blank => TrimEx(line) = Strip(line)
  <2>1. CASE Range(line) \subseteq Blank
    BY <2>1, BlanksAreTrimmed
  <2>2. CASE ~(Range(line) \subseteq Blank)
    <3>1. PICK left \in Int, right \in Int : Outer(line, Blank, left, right)
      BY <2>2, OuterExists
    <3>2. Strip(line) = Middle(line, left, right) /\ StripFast(line) = Middle(line, left, right)
      BY <3>1, BlankedTextIsTrimmed
    <3>3. IsMiddle(Middle(line, left, right), line, Blank)
      BY <3>1, MiddleIsMiddle
    <3>4. ASSUME Range(line) \cap IsSpace \subseteq Blank
          PROVE  TrimEx(line) = Middle(line, left, right)
      <4>1. Blank \subseteq IsSpace
        BY DEF IsSpace
      <4>2. Outer(line, IsSpace, left, right)
        BY <3>1, <3>4, <4>1, OuterOfMore
      <4>3. QED
        BY <4>2, SpacesAreDropped
    <3>5. QED
      BY <2>2, <3>2, <3>3, <3>4
  <2>3. QED
    BY <2>1, <2>2
<1>3. IF Range(line) \subseteq IsSpace
      THEN TrimEx(line) = <<>>
      ELSE /\ IsMiddle(TrimEx(line), line, IsSpace)
           /\ Last(Trim(line)) \notin IsSpace
  <2>1. CASE Range(line) \subseteq IsSpace
    BY <2>1, SpacesAreErased
  <2>2. CASE ~(Range(line) \subseteq IsSpace)
    <3>1. PICK left \in Int, right \in Int : Outer(line, IsSpace, left, right)
      BY <2>2, OuterExists
    <3>2. TrimEx(line) = Middle(line, left, right)
      BY <3>1, SpacesAreDropped
    <3>3. IsMiddle(Middle(line, left, right), line, IsSpace)
      BY <3>1, MiddleIsMiddle
    <3>4. Last(Trim(line)) \notin IsSpace
      BY <2>2, RightIsTrimmed
    <3>5. QED
      BY <2>2, <3>2, <3>3, <3>4
  <2>3. QED
    BY <2>1, <2>2
<1>4. QED
  BY <1>1, <1>2, <1>3 DEF TrimsAgree

(* What was split or cut is the text still.                                *)
PiecesAgree(line) ==
  /\ \A d \in {<<",">>, <<",", " ">>, <<" ", " ">>} : Join(SplitAt(line, d), d) = line
  /\ \A size \in 1..3 : LET chunks == Chunks(line, size)
                        IN  /\ FlattenSeq(chunks) = line
                            /\ \A k \in DOMAIN chunks : Len(chunks[k]) <= size
  /\ SplitAny(line, {","}) = Dropping(SplitAt(line, <<",">>), {<<>>})
  /\ RemoveChars(line) = FlattenSeq(SplitAny(line, {"tab", "newline"}))

(* Texts of one and of two characters.                                     *)
LEMMA TwoPieces ==
  ASSUME NEW C, NEW a \in C, NEW b \in C
  PROVE  /\ <<a>> \in Seq(C) /\ Len(<<a>>) = 1
         /\ <<a, b>> \in Seq(C) /\ Len(<<a, b>>) = 2
  OBVIOUS

(* For every text.                                                         *)
LEMMA PiecesKeep ==
  ASSUME NEW C, NEW line \in Seq(C), NEW comma \in C, NEW space \in C
  PROVE  comma = "," /\ space = " " => PiecesAgree(line)
<1>0. SUFFICES ASSUME comma = "," /\ space = " " PROVE PiecesAgree(line)
  OBVIOUS
<1>1. ASSUME NEW d \in {<<comma>>, <<comma, space>>, <<space, space>>}
      PROVE  Join(SplitAt(line, d), d) = line
  <2>1. d \in Seq(C) /\ (Len(d) = 1 \/ Len(d) = 2)
    BY ONLY <1>1, TwoPieces
  <2>2. Len(d) # 0
    BY ONLY <2>1
  <2>3. QED
    BY ONLY <2>1, <2>2, SplitIsJoined, line \in Seq(C)
<1>2. ASSUME NEW size \in 1..3
      PROVE  /\ FlattenSeq(Chunks(line, size)) = line
             /\ \A k \in DOMAIN Chunks(line, size) : Len(Chunks(line, size)[k]) <= size
  <2>1. PICK n \in Nat \ {0} : n = size
    BY ONLY <1>2
  <2>2. /\ FlattenSeq(Chunks(line, n)) = line
        /\ \A k \in DOMAIN Chunks(line, n) : Len(Chunks(line, n)[k]) <= n
    BY ChunksAreKept
  <2>3. QED
    BY <2>1, <2>2
<1>3. SplitAny(line, {comma}) = Dropping(SplitAt(line, <<comma>>), {<<>>})
  BY SplitsAgree
<1>4. RemoveChars(line) = FlattenSeq(SplitAny(line, {"tab", "newline"}))
  BY RemovedIsSplit DEF RemoveChars
<1>5. QED
  BY <1>0, <1>1, <1>2, <1>3, <1>4 DEF PiecesAgree

(* What was parsed is the line still, and every field can be found.        *)
FieldsAgree(line) ==
  LET fields == ParseLine(line)
  IN  /\ Join(fields, <<",">>) = line
      /\ \A field \in Range(fields) : field # <<>> => ParseLine(field) = <<field>>
      /\ \A name \in Range(fields) :
           (\A k \in DOMAIN fields : fields[k] = name => k <= ColumnRange) =>
             FieldOf(Headers(line), fields, name) = name

(* For every text.                                                         *)
LEMMA FieldsKeep ==
  ASSUME NEW C, NEW line \in Seq(C)
  PROVE  "," \in C => FieldsAgree(line)
<1>0. SUFFICES ASSUME "," \in C PROVE FieldsAgree(line)
  OBVIOUS
<1>1. FieldsHold(line, C)
  BY <1>0, FieldsAreKept
<1>2. PICK fields \in Pieces(C) : fields = ParseLine(line)
  BY <1>1 DEF FieldsHold
<1>3. Join(fields, <<",">>) = line /\ \A j \in 1..Len(fields) : IsField(fields[j])
  BY <1>1, <1>2 DEF FieldsHold
<1>4. DOMAIN fields = 1..Len(fields) /\ \A j \in 1..Len(fields) : fields[j] \in Seq(C)
  BY PiecesHave
<1>5. ASSUME NEW field \in Range(fields), field # <<>> PROVE ParseLine(field) = <<field>>
  <2>1. field \in Seq(C) /\ IsField(field)
    BY <1>3, <1>4 DEF Range
  <2>2. PICK d, q : Quoted(field, d, q)
    BY <2>1 DEF IsField
  <2>3. QED
    BY <1>5, <2>1, <2>2, QuotedIsOneField
<1>6. ASSUME NEW name \in Range(fields),
             \A k \in DOMAIN fields : fields[k] = name => k <= ColumnRange
      PROVE  FieldOf(Headers(line), fields, name) = name
  BY <1>2, <1>6, HeaderFinds
<1>7. QED
  BY <1>2, <1>3, <1>5, <1>6 DEF FieldsAgree

(* A sequence of some is a sequence of more.                               *)
LEMMA OfMore ==
  ASSUME NEW C, NEW D, C \subseteq D, NEW s \in Seq(C)
  PROVE  s \in Seq(D)
<1>1. PICK n \in Nat : n = Len(s) /\ DOMAIN s = 1..n
  BY LenProperties
<1>2. s \in [1..n -> D]
  <2>1. s = [i \in 1..n |-> s[i]] /\ \A i \in 1..n : s[i] \in C
    BY <1>1, LenProperties
  <2>2. QED
    BY <2>1
<1>3. QED
  BY <1>2, IsSequence

(* What MCStandalone checks of texts of up to four characters, of every    *)
(* text: the ways to trim leave its middle and agree where they mean the   *)
(* same characters, what is split or cut joins to it again, the two splits *)
(* agree, a line is its fields and its commas, every field parses to       *)
(* itself and is found by its name if no column of that name is beyond the *)
(* range of the index.                                                     *)
THEOREM AllTextIsKept ==
  ASSUME NEW C, NEW line \in Seq(C)
  PROVE  KeepsText(line)
<1>1. PICK D : D = C \cup {",", " "}
  OBVIOUS
<1>2. PICK comma \in D, space \in D : comma = "," /\ space = " "
  BY <1>1
<1>3. line \in Seq(D)
  BY <1>1, OfMore
<1>4. TrimsAgree(line)
  BY TrimsKeep
<1>5. PiecesAgree(line)
  BY <1>2, <1>3, PiecesKeep
<1>6. FieldsAgree(line)
  BY <1>2, <1>3, FieldsKeep
<1>7. QED
  BY <1>4, <1>5, <1>6 DEF TrimsAgree, PiecesAgree, FieldsAgree, KeepsText
=============================================================================
