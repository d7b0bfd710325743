-------------------------- MODULE StandaloneProofs --------------------------
(***************************************************************************)
(* The components that share no state with the pipeline, for every value   *)
(* of their constants: that the timer measures what it should, that        *)
(* counters lose nothing, that a guard judges by the exceptions of its own *)
(* scope, that the log keeps its latest lines, that market data comes in   *)
(* once and in order, that a session sends only sound orders, that the     *)
(* text functions lose nothing (TextProofs), and that the ring is a queue  *)
(* whose threads never meet in a slot.  Each has an inductive invariant of *)
(* its own, in a section of its own.                                       *)
(***************************************************************************)
EXTENDS MCStandalone, SequenceTheorems, ArithmeticTheorems, TextProofs

(* The difference of two words is the word of the difference.              *)
LEMMA WordOfDifference ==
  ASSUME WordRange \in Nat \ {0}, NEW x \in Int, NEW y \in Int
  PROVE  /\ Timer!Word(x) \in Int
         /\ Timer!Word(Timer!Word(x) - Timer!Word(y)) = Timer!Word(x - y)
<1> DEFINE w == WordRange
           a == x \div w
           r == x % w
           b == y \div w
           s == y % w
           c == (x - y) \div w
           t == (x - y) % w
<1>1. /\ a \in Int /\ r \in Int /\ b \in Int /\ s \in Int /\ c \in Int /\ t \in Int
      /\ x = w * a + r /\ y = w * b + s /\ x - y = w * c + t
  <2>1. w \in Int /\ w > 0 /\ x - y \in Int
    OBVIOUS
  <2>2. QED
    BY <2>1, Remainder
<1>2. 0 <= t /\ t < w /\ w \in Int /\ w > 0
  OBVIOUS
<1> HIDE DEF w, a, r, b, s, c, t
<1>3. r - s = w * (c - a + b) + t
  <2>1. w * (c - a + b) = w * c - w * a + w * b
    BY <1>1, <1>2, Z3
  <2>2. w * c \in Int /\ w * a \in Int /\ w * b \in Int
    BY <1>1, <1>2
  <2> DEFINE wa == w * a
             wb == w * b
             wc == w * c
  <2>3. /\ wa \in Int /\ wb \in Int /\ wc \in Int
        /\ x = wa + r /\ y = wb + s /\ x - y = wc + t
        /\ w * (c - a + b) = wc - wa + wb
    BY <1>1, <2>1, <2>2
  <2> HIDE DEF wa, wb, wc
  <2>4. r - s = wc - wa + wb + t
    BY <1>1, <2>3
  <2>5. QED
    BY <2>3, <2>4
<1>4. r - s \in Int /\ c - a + b \in Int
  BY <1>1
<1> DEFINE q == c - a + b
           n == r - s
<1>5. n \in Int /\ q \in Int /\ n = w * q + t
  BY <1>3, <1>4
<1> HIDE DEF n, q
<1>6. n % w = t
  BY <1>1, <1>2, <1>5, DivisionUnique
<1>7. QED
  BY <1>1, <1>6 DEF Timer!Word, n, w, r, s, t

(* What a division drops is less than the divisor.                         *)
LEMMA DivisionDrops ==
  ASSUME NEW n \in Int, NEW d \in Int, d > 0
  PROVE  n \div d \in Int /\ (n \div d) * d <= n /\ n < (n \div d) * d + d
<1> DEFINE q == n \div d
           r == n % d
<1>1. q \in Int /\ r \in Int /\ n = d * q + r
  BY Remainder
<1>2. 0 <= r /\ r < d
  OBVIOUS
<1> HIDE DEF q, r
<1>3. d * q = q * d /\ q * d \in Int
  BY <1>1
<1>4. QED
  BY <1>1, <1>2, <1>3 DEF q

(* Comparing products by a positive factor compares the numbers.           *)
LEMMA FactorOrder ==
  ASSUME NEW x \in Int, NEW y \in Int, NEW d \in Int, d > 0
  PROVE  /\ x * d < y * d <=> x < y
         /\ x * d <= y * d <=> x <= y
<1>1. x <= y => x * d <= y * d
  BY Z3
<1>2. x < y => x * d < y * d
  BY Z3
<1>3. x * d \in Int /\ y * d \in Int
  OBVIOUS
<1>4. y < x => y * d < x * d
  BY Z3
<1>5. y <= x => y * d <= x * d
  BY Z3
<1>6. QED
  BY <1>1, <1>2, <1>3, <1>4, <1>5

(* A number divided by a positive one is a number.                         *)
LEMMA QuotientNat ==
  ASSUME NEW n \in Nat, NEW d \in Int, d > 0
  PROVE  n \div d \in Nat
<1> DEFINE q == n \div d
<1>1. q \in Int /\ n < q * d + d
  BY DivisionDrops
<1> HIDE DEF q
<1>2. (q + 1) * d = q * d + d /\ 0 * d = 0
  BY <1>1, Z3
<1>3. 0 * d < (q + 1) * d
  BY <1>1, <1>2
<1>4. 0 < q + 1
  BY <1>1, <1>3, FactorOrder
<1>5. QED
  BY <1>1, <1>4 DEF q

(* The program's constants: a rate, a second and a sleep that are none of  *)
(* them nothing.                                                           *)
TimerConstants ==
  /\ WordRange \in Nat \ {0} /\ Second \in Nat \ {0} /\ Calibration \in Nat \ {0}
  /\ RateTicks \in Nat \ {0} /\ RateNanos \in Nat \ {0}
  /\ Origins \subseteq Int /\ MaxTime \in Nat

(* The counter makes the ticks of an interval up to one, and the product   *)
(* with a second does not wrap around, if it fits as ProductFits says.     *)
LEMMA TicksOfInterval ==
  ASSUME TimerConstants, origin \in Int,
         NEW from \in Nat, NEW to \in Nat, from <= to, Timer!ProductFits(to - from)
  PROVE  \E n \in Nat :
           /\ Timer!Word(Timer!Since(from, to) * Second) = n * Second
           /\ (to - from) * RateTicks - RateNanos < n * RateNanos
           /\ n * RateNanos < (to - from) * RateTicks + RateNanos
<1> DEFINE x == origin + from * RateTicks
           y == origin + to * RateTicks
           a == x \div RateNanos
           b == y \div RateNanos
           i == (to - from) * RateTicks
           n == b - a
<1>1. /\ RateTicks \in Int /\ RateNanos \in Int /\ RateNanos > 0 /\ Second \in Int /\ Second > 0
      /\ WordRange \in Int /\ WordRange > 0
  BY DEF TimerConstants
<1>2. x \in Int /\ y \in Int /\ i \in Int /\ i >= 0 /\ y = x + i
  <2>1. from * RateTicks \in Int /\ to * RateTicks \in Int /\ i \in Int
    BY <1>1
  <2>2. i = to * RateTicks - from * RateTicks
    BY <1>1, Z3
  <2>3. i >= 0
    <3>1. from * RateTicks <= to * RateTicks
      <4>1. RateTicks > 0
        BY DEF TimerConstants
      <4>2. QED
        BY <1>1, <4>1, FactorOrder
    <3> HIDE DEF i
    <3>2. QED
      BY <2>1, <2>2, <3>1
  <2> HIDE DEF i
  <2>4. QED
    BY <2>1, <2>2, <2>3
<1>3. /\ a \in Int /\ a * RateNanos <= x /\ x < a * RateNanos + RateNanos
      /\ b \in Int /\ b * RateNanos <= y /\ y < b * RateNanos + RateNanos
  <2> HIDE DEF x, y
  <2>1. QED
    BY <1>1, <1>2, DivisionDrops
<1> HIDE DEF x, y, a, b, i
<1>4. i - RateNanos < n * RateNanos /\ n * RateNanos < i + RateNanos /\ n \in Int
  <2>1. n * RateNanos = b * RateNanos - a * RateNanos
    BY <1>1, <1>3, Z3
  <2>2. a * RateNanos \in Int /\ b * RateNanos \in Int
    BY <1>1, <1>3
  <2>3. n \in Int
    BY <1>3
  <2> HIDE DEF n
  <2>4. QED
    BY <1>1, <1>2, <1>3, <2>1, <2>2, <2>3
<1> HIDE DEF n
<1>5. n >= 0
  <2>1. (-1) * RateNanos = - RateNanos /\ n * RateNanos \in Int
    BY <1>1, <1>4
  <2>2. (-1) * RateNanos < n * RateNanos
    BY <1>1, <1>2, <1>4, <2>1
  <2>3. -1 < n
    BY <1>1, <1>4, <2>2, FactorOrder
  <2>4. QED
    BY <1>4, <2>3
<1>6. n * Second < WordRange
  <2>1. (i + RateNanos) * Second <= WordRange * RateNanos
    BY DEF Timer!ProductFits, i
  <2>2. (n * RateNanos) * Second < (i + RateNanos) * Second
    <3> DEFINE p == n * RateNanos
               q == i + RateNanos
    <3>1. p \in Int /\ q \in Int /\ p < q
      BY <1>1, <1>2, <1>4
    <3> HIDE DEF p, q
    <3>2. p * Second < q * Second
      BY <1>1, <3>1, FactorOrder
    <3>3. QED
      BY <3>2 DEF p, q
  <2>3. (n * RateNanos) * Second = (n * Second) * RateNanos
    BY <1>1, <1>4, Z3
  <2>4. n * Second \in Int /\ WordRange * RateNanos \in Int /\ (n * Second) * RateNanos \in Int
        /\ (i + RateNanos) * Second \in Int
    BY <1>1, <1>2, <1>4
  <2>5. (n * Second) * RateNanos < WordRange * RateNanos
    BY <2>1, <2>2, <2>3, <2>4
  <2>6. QED
    BY <1>1, <2>4, <2>5, FactorOrder
<1>7. n < WordRange
  <2>1. n <= n * Second
    <3>1. 1 * n <= Second * n
      BY <1>1, <1>4, <1>5, Z3
    <3>2. 1 * n = n /\ Second * n = n * Second
      BY <1>1, <1>4
    <3>3. QED
      BY <3>1, <3>2
  <2>2. n * Second \in Int
    BY <1>1, <1>4
  <2>3. QED
    BY <1>1, <1>4, <1>6, <2>1, <2>2
<1>8. Timer!Since(from, to) = n
  <2>1. /\ Timer!Rdtsc(from) = Timer!Word(a) /\ Timer!Rdtsc(to) = Timer!Word(b)
    BY DEF Timer!Rdtsc, a, b, x, y
  <2>2. Timer!Since(from, to) = Timer!Word(Timer!Word(b) - Timer!Word(a))
    BY <2>1 DEF Timer!Since
  <2>3. WordRange \in Nat \ {0}
    BY DEF TimerConstants
  <2>4. Timer!Since(from, to) = Timer!Word(n)
    BY <1>3, <2>2, <2>3, WordOfDifference DEF n
  <2>5. n % WordRange = n
    BY <1>1, <1>4, <1>5, <1>7
  <2>6. QED
    BY <2>4, <2>5 DEF Timer!Word
<1>9. (n * Second) % WordRange = n * Second
  <2>1. n * Second \in Int /\ n * Second >= 0
    BY <1>1, <1>4, <1>5
  <2>2. QED
    BY <1>1, <1>6, <2>1
<1>10. QED
  BY <1>4, <1>5, <1>8, <1>9 DEF Timer!Word, i

(* The frequency is as close to the true one as the reads allow.           *)
LEMMA FrequencyIsClose ==
  ASSUME TimerConstants, origin \in Int,
         NEW t1 \in Nat, NEW t2 \in Nat, NEW t3 \in Nat, NEW t4 \in Nat,
         t1 < t3, t2 <= t4, Timer!ProductFits(t4 - t2)
  PROVE  /\ Timer!Frequency(<<t1, t2, t3, t4>>) \in Int
         /\ Timer!Distance(Timer!Frequency(<<t1, t2, t3, t4>>) * RateNanos,
                            RateTicks * Second) * (t3 - t1)
              < (Timer!Distance(t4 - t2, t3 - t1) * RateTicks + RateNanos) * Second
                + RateNanos * (t3 - t1)
<1> DEFINE c == t3 - t1
           w == t4 - t2
           D == RateNanos
           N == RateTicks
           S == Second
           R == N * S
           f == Timer!Frequency(<<t1, t2, t3, t4>>)
           F == f * D
           g == Timer!Distance(w, c)
<1>1. /\ c \in Int /\ c > 0 /\ w \in Int /\ w >= 0
      /\ D \in Int /\ D > 0 /\ N \in Int /\ N > 0 /\ S \in Int /\ S > 0
  BY DEF TimerConstants
<1>2. PICK n \in Nat : /\ Timer!Word(Timer!Since(t2, t4) * S) = n * S
                       /\ w * N - D < n * D /\ n * D < w * N + D
  BY TicksOfInterval
<1>3. f = (n * S) \div c
  BY <1>2 DEF Timer!Frequency
<1> HIDE DEF f, c, w, D, N, S
<1>4. f \in Int /\ f * c <= n * S /\ n * S < f * c + c
  <2>1. n * S \in Int
    BY <1>1
  <2>2. QED
    BY <1>1, <1>3, <2>1, DivisionDrops
<1>5. R \in Int /\ R > 0 /\ w * R \in Int /\ c * R \in Int /\ D * S \in Int /\ D * c \in Int
  <2>1. R \in Int
    BY <1>1
  <2>2. 0 * S = 0 /\ 0 * S < N * S
    BY <1>1, FactorOrder
  <2> HIDE DEF R
  <2>3. QED
    BY <1>1, <2>1, <2>2 DEF R
<1>6. (n * D) * S = (n * S) * D /\ (f * c) * D = F * c /\ (w * N) * S = w * R
  BY <1>1, <1>4, Z3
<1>7. w * R - D * S < (n * S) * D /\ (n * S) * D < w * R + D * S
  <2> DEFINE p == w * N - D
             q == n * D
             r == w * N + D
  <2>1. p \in Int /\ q \in Int /\ r \in Int
    BY <1>1
  <2>2. p * S = (w * N) * S - D * S /\ r * S = (w * N) * S + D * S
    BY <1>1, Z3
  <2>3. p < q /\ q < r
    BY <1>2
  <2> HIDE DEF p, q, r
  <2>4. p * S < q * S /\ q * S < r * S
    BY <1>1, <2>1, <2>3, FactorOrder
  <2>5. QED
    BY <1>6, <2>2, <2>4 DEF q
<1>8. F * c <= (n * S) * D /\ (n * S) * D < F * c + D * c
  <2> DEFINE p == f * c
             q == n * S
  <2>1. p \in Int /\ q \in Int /\ p + c \in Int /\ p <= q /\ q < p + c
    BY <1>1, <1>4
  <2>2. (p + c) * D = p * D + D * c
    <3>1. p \in Int
      BY <2>1
    <3> HIDE DEF p
    <3>2. QED
      BY <1>1, <3>1, Z3
  <2> HIDE DEF p, q
  <2>3. p * D <= q * D /\ q * D < (p + c) * D
    BY <1>1, <2>1, FactorOrder
  <2>4. p * D = F * c /\ q * D = (n * S) * D
    BY <1>6 DEF p, q
  <2>5. QED
    BY <2>2, <2>3, <2>4
<1>9. F \in Int /\ F * c \in Int /\ (n * S) * D \in Int
  BY <1>1, <1>4
<1>10. g \in Int /\ g * R \in Int /\ (w - c) * R <= g * R /\ (c - w) * R <= g * R
  <2>1. g \in Int /\ w - c <= g /\ c - w <= g /\ w - c \in Int /\ c - w \in Int
    BY <1>1 DEF Timer!Distance
  <2> HIDE DEF g, R
  <2>2. g * R \in Int
    BY <1>5, <2>1
  <2>3. (w - c) * R <= g * R
    BY <1>5, <2>1, FactorOrder
  <2>4. (c - w) * R <= g * R
    BY <1>5, <2>1, FactorOrder
  <2>5. QED
    BY <2>1, <2>2, <2>3, <2>4
<1>11. (w - c) * R = w * R - c * R /\ (c - w) * R = c * R - w * R
  BY <1>1, <1>5, Z3
<1>12. (g * N + D) * S = g * R + D * S
  BY <1>1, <1>10, Z3
<1> HIDE DEF F, R, g
<1>13. Timer!Distance(F, R) * c < g * R + D * S + D * c
  <2>1. CASE F < R
    <3>1. (R - F) * c = c * R - F * c
      BY <1>1, <1>5, <1>9, Z3
    <3>2. Timer!Distance(F, R) = R - F
      BY <2>1 DEF Timer!Distance
    <3>3. QED
      BY <1>5, <1>7, <1>8, <1>9, <1>10, <1>11, <3>1, <3>2
  <2>2. CASE ~(F < R)
    <3>1. (F - R) * c = F * c - c * R
      BY <1>1, <1>5, <1>9, Z3
    <3>2. Timer!Distance(F, R) = F - R
      BY <2>2 DEF Timer!Distance
    <3>3. D * c > 0
      <4>1. 0 * c = 0 /\ 0 * c < D * c
        BY <1>1, FactorOrder
      <4>2. QED
        BY <4>1
    <3>4. QED
      BY <1>5, <1>7, <1>8, <1>9, <1>10, <1>11, <3>1, <3>2, <3>3
  <2>3. QED
    BY <2>1, <2>2
<1>14. QED
  BY <1>4, <1>12, <1>13 DEF F, R, g, f, c, w, D, N, S

(* What elapsed_ns says of an interval, at the frequency it has, is what   *)
(* the counter made of it.                                                 *)
LEMMA ElapsedIsClose ==
  ASSUME TimerConstants, origin \in Int, frequency \in Nat \ {0},
         NEW from \in Nat, NEW to \in Nat, from <= to, Timer!ProductFits(to - from)
  PROVE  /\ Timer!ElapsedNs(from, to) * frequency * RateNanos
              < (to - from) * RateTicks * Second + RateNanos * Second
         /\ (to - from) * RateTicks * Second
              < Timer!ElapsedNs(from, to) * frequency * RateNanos
                + (frequency + Second) * RateNanos
<1> DEFINE D == RateNanos
           S == Second
           f == frequency
           i == (to - from) * RateTicks
           e == Timer!ElapsedNs(from, to)
<1>1. /\ D \in Int /\ D > 0 /\ S \in Int /\ S > 0 /\ f \in Int /\ f > 0 /\ i \in Int
  BY DEF TimerConstants
<1>2. PICK n \in Nat : /\ Timer!Word(Timer!Since(from, to) * S) = n * S
                       /\ i - D < n * D /\ n * D < i + D
  BY TicksOfInterval
<1>3. e = (n * S) \div f
  BY <1>2 DEF Timer!ElapsedNs
<1> HIDE DEF e, i, f, D, S
<1>4. e \in Int /\ e * f <= n * S /\ n * S < e * f + f
  <2>1. n * S \in Int
    BY <1>1
  <2>2. QED
    BY <1>1, <1>3, <2>1, DivisionDrops
<1>5. (n * D) * S = (n * S) * D
  BY <1>1, Z3
<1>6. i * S - D * S < (n * S) * D /\ (n * S) * D < i * S + D * S
  <2> DEFINE p == i - D
             q == n * D
             r == i + D
  <2>1. p \in Int /\ q \in Int /\ r \in Int /\ p < q /\ q < r
    BY <1>1, <1>2
  <2>2. p * S = i * S - D * S /\ r * S = i * S + D * S
    BY <1>1, Z3
  <2> HIDE DEF p, q, r
  <2>3. p * S < q * S /\ q * S < r * S
    BY <1>1, <2>1, FactorOrder
  <2>4. QED
    BY <1>5, <2>2, <2>3 DEF q
<1>7. (e * f) * D <= (n * S) * D /\ (n * S) * D < (e * f) * D + f * D
  <2> DEFINE p == e * f
             q == n * S
  <2>1. p \in Int /\ q \in Int /\ p + f \in Int /\ p <= q /\ q < p + f
    BY <1>1, <1>4
  <2> HIDE DEF p, q
  <2>2. (p + f) * D = p * D + f * D
    BY <1>1, <2>1, Z3
  <2>3. p * D <= q * D /\ q * D < (p + f) * D
    BY <1>1, <2>1, FactorOrder
  <2>4. QED
    BY <2>2, <2>3 DEF p, q
<1>8. (f + S) * D = f * D + D * S
  BY <1>1, Z3
<1>9. i * S \in Int /\ D * S \in Int /\ (n * S) * D \in Int /\ (e * f) * D \in Int /\ f * D \in Int
  BY <1>1, <1>4
<1> DEFINE a == i * S
           b == D * S
           m == (n * S) * D
           k == (e * f) * D
           h == f * D
<1>10. /\ a \in Int /\ b \in Int /\ m \in Int /\ k \in Int /\ h \in Int
       /\ a - b < m /\ m < a + b /\ k <= m /\ m < k + h /\ (f + S) * D = h + b
  BY <1>6, <1>7, <1>8, <1>9
<1> HIDE DEF a, b, m, k, h
<1>11. k < a + b /\ a < k + (f + S) * D
  BY <1>10
<1>12. QED
  BY <1>11 DEF a, b, k, e, i, f, D, S

(* The frequency is a number.                                              *)
LEMMA FrequencyType ==
  ASSUME TimerConstants, origin \in Int,
         NEW t1, NEW t2 \in Nat, NEW t3, NEW t4 \in Nat, t3 - t1 \in Int, t3 - t1 > 0
  PROVE  Timer!Frequency(<<t1, t2, t3, t4>>) \in Nat
<1> DEFINE d == t3 - t1
           n == Timer!Since(t2, t4) * Second
<1>1. WordRange \in Int /\ WordRange > 0 /\ Second \in Int
  BY DEF TimerConstants
<1>2. ASSUME NEW u \in Nat PROVE Timer!Rdtsc(u) \in Int
  <2> DEFINE p == origin + u * RateTicks
             q == p \div RateNanos
  <2>1. p \in Int /\ RateNanos \in Int /\ RateNanos > 0
    BY DEF TimerConstants
  <2> HIDE DEF p
  <2>2. q \in Int
    BY <2>1, Remainder
  <2> HIDE DEF q
  <2>3. q % WordRange \in Int
    BY <1>1, <2>2, Remainder
  <2>4. QED
    BY <2>3 DEF Timer!Rdtsc, Timer!Word, p, q
<1>3. Timer!Since(t2, t4) \in Int
  <2> DEFINE r == Timer!Rdtsc(t4) - Timer!Rdtsc(t2)
  <2>1. r \in Int
    BY <1>2
  <2> HIDE DEF r
  <2>2. r % WordRange \in Int
    BY <1>1, <2>1, Remainder
  <2>3. QED
    BY <2>2 DEF Timer!Since, Timer!Word, r
<1>4. n \in Int
  BY <1>1, <1>3
<1> HIDE DEF n, d
<1>5. n % WordRange \in Nat
  BY <1>1, <1>4
<1> DEFINE m == n % WordRange
<1> HIDE DEF m
<1>6. m \div d \in Nat
  BY <1>5, QuotientNat DEF d, m
<1>7. QED
  BY <1>6 DEF Timer!Frequency, Timer!Word, n, m, d

(* What the threads have read so far, in the order of the code.            *)
ReadsOK(t, now) ==
  /\ t \in Seq(Nat)
  /\ Len(t) <= 4
  /\ \A i \in 1..Len(t) : t[i] <= now
  /\ Len(t) >= 2 => t[1] <= t[2]
  /\ Len(t) >= 3 => t[2] + Calibration <= t[3]
  /\ Len(t) >= 4 => t[3] <= t[4]

(* The frequency is that of the clocks last read.                          *)
TimerOK ==
  /\ time \in Nat /\ origin \in Int /\ frequency \in Nat
  /\ DOMAIN reads = Callers
  /\ \A c \in Callers : ReadsOK(reads[c], time)
  /\ IF calibrated = <<>> THEN frequency = 0
     ELSE /\ ReadsOK(calibrated, time) /\ Len(calibrated) = 4
          /\ frequency = Timer!Frequency(calibrated)

(* One more clock is read, now.                                            *)
LEMMA OneMoreRead ==
  ASSUME NEW now \in Nat, NEW t, ReadsOK(t, now), Len(t) <= 3,
         Len(t) = 2 => now >= t[2] + Calibration
  PROVE  ReadsOK(Append(t, now), now) /\ Len(Append(t, now)) = Len(t) + 1
<1> DEFINE n == Len(t)
           u == Append(t, now)
<1>1. t \in Seq(Nat) /\ n \in Nat /\ n <= 3 /\ u \in Seq(Nat)
  <2>1. t \in Seq(Nat)
    BY DEF ReadsOK
  <2>2. QED
    BY <2>1
<1>2. /\ Len(u) = n + 1 /\ u[n + 1] = now
      /\ \A i \in 1..n : u[i] = t[i]
  BY <1>1
<1>3. \A i \in 1..n : t[i] \in Nat /\ t[i] <= now
  <2>1. \A i \in 1..n : t[i] \in Nat
    BY <1>1
  <2>2. \A i \in 1..n : t[i] <= now
    BY DEF ReadsOK
  <2>3. QED
    BY <2>1, <2>2
<1>4. /\ n >= 2 => t[1] <= t[2]
      /\ n >= 3 => t[2] + Calibration <= t[3]
      /\ n = 2 => now >= t[2] + Calibration
  BY DEF ReadsOK
<1> HIDE DEF n, u
<1>5. \A i \in 1..(n + 1) : u[i] <= now
  BY <1>1, <1>2, <1>3
<1>6. n + 1 >= 2 => u[1] <= u[2]
  <2>1. CASE n = 1
    BY <1>2, <1>3, <2>1
  <2>2. CASE n >= 2
    BY <1>1, <1>2, <1>4, <2>2
  <2>3. QED
    BY <1>1, <2>1, <2>2
<1>7. n + 1 >= 3 => u[2] + Calibration <= u[3]
  <2>1. CASE n = 2
    BY <1>2, <1>4, <2>1
  <2>2. CASE n = 3
    BY <1>2, <1>4, <2>2
  <2>3. QED
    BY <1>1, <2>1, <2>2
<1>8. n + 1 >= 4 => u[3] <= u[4]
  <2>1. CASE n = 3
    BY <1>2, <1>3, <2>1
  <2>2. QED
    BY <1>1, <2>1
<1>9. QED
  BY <1>1, <1>2, <1>5, <1>6, <1>7, <1>8 DEF ReadsOK, n, u

(* What was read stays read as time passes.                                *)
LEMMA ReadsStay ==
  ASSUME NEW now \in Nat, NEW t, ReadsOK(t, now)
  PROVE  ReadsOK(t, now + 1)
<1>1. t \in Seq(Nat) /\ \A i \in 1..Len(t) : t[i] <= now
  BY DEF ReadsOK
<1>2. \A i \in 1..Len(t) : t[i] <= now + 1
  BY <1>1
<1>3. QED
  BY <1>2 DEF ReadsOK

(* What a complete calibration has read are times.                        *)
LEMMA FourReads ==
  ASSUME NEW t \in Seq(Nat), Len(t) = 4
  PROVE  t[1] \in Nat /\ t[2] \in Nat /\ t[3] \in Nat /\ t[4] \in Nat
<1> DEFINE n == Len(t)
<1>1. n = 4
  OBVIOUS
<1>2. \A i \in 1..n : t[i] \in Nat
  BY ElementOfSeq
<1> HIDE DEF n
<1>3. 1 \in 1..n /\ 2 \in 1..n /\ 3 \in 1..n /\ 4 \in 1..n
  BY <1>1
<1>4. QED
  BY <1>2, <1>3

(* No step of a caller, nor the time that passes, breaks that.             *)
LEMMA NextTimerOK ==
  ASSUME TimerConstants, TimerOK, Timer!Next \/ UNCHANGED timer
  PROVE  TimerOK'
<1>0. ASSUME UNCHANGED <<origin, calibrated>>
      PROVE  Timer!Frequency(calibrated)' = Timer!Frequency(calibrated)
  BY <1>0 DEF Timer!Frequency, Timer!Since, Timer!Rdtsc, Timer!Word
<1>1. CASE Timer!Tick
  <2>1. time \in Nat /\ time' = time + 1 /\ UNCHANGED <<origin, frequency, reads, calibrated>>
    BY <1>1 DEF Timer!Tick, TimerOK
  <2>2. ASSUME NEW t, ReadsOK(t, time) PROVE ReadsOK(t, time')
    BY <2>1, <2>2, ReadsStay
  <2>3. Timer!Frequency(calibrated)' = Timer!Frequency(calibrated)
    BY <1>0, <2>1
  <2>4. QED
    BY <2>1, <2>2, <2>3 DEF TimerOK
<1>2. ASSUME NEW c \in Callers, Len(reads[c]) <= 3,
             Len(reads[c]) = 2 => time >= reads[c][2] + Calibration, Timer!Read(c)
      PROVE  TimerOK'
  <2>1. /\ reads' = [reads EXCEPT ![c] = Append(@, time)]
        /\ UNCHANGED <<time, origin, frequency, calibrated>>
    BY <1>2 DEF Timer!Read
  <2>2. ReadsOK(Append(reads[c], time), time)
    BY <1>2, OneMoreRead DEF TimerOK
  <2>3. \A d \in Callers : ReadsOK(reads'[d], time)
    BY <2>1, <2>2 DEF TimerOK
  <2>4. Timer!Frequency(calibrated)' = Timer!Frequency(calibrated)
    BY <1>0, <2>1
  <2>5. QED
    BY <2>1, <2>3, <2>4 DEF TimerOK
<1>3. ASSUME NEW c \in Callers, Timer!EndTicks(c) PROVE TimerOK'
  <2>1. /\ Len(reads[c]) = 3 /\ calibrated' = Append(reads[c], time)
        /\ frequency' = Timer!Frequency(calibrated')
        /\ reads' = [reads EXCEPT ![c] = <<>>]
        /\ UNCHANGED <<time, origin>>
    BY <1>3 DEF Timer!EndTicks
  <2>2. ReadsOK(calibrated', time) /\ Len(calibrated') = 4
    <3>1. time \in Nat /\ ReadsOK(reads[c], time)
      BY DEF TimerOK
    <3>2. Len(reads[c]) <= 3 /\ Len(reads[c]) # 2
      BY <2>1
    <3>3. ReadsOK(Append(reads[c], time), time) /\ Len(Append(reads[c], time)) = Len(reads[c]) + 1
      BY <3>1, <3>2, OneMoreRead
    <3>4. QED
      BY <2>1, <3>3
  <2>3. ReadsOK(<<>>, time)
    BY DEF ReadsOK
  <2>4. \A d \in Callers : ReadsOK(reads'[d], time)
    BY <2>1, <2>3 DEF TimerOK
  <2>5. PICK t : t = calibrated'
    OBVIOUS
  <2>6. Timer!Frequency(t) \in Nat
    <3>1. t[1] \in Nat /\ t[2] \in Nat /\ t[3] \in Nat /\ t[4] \in Nat
      <4>1. t \in Seq(Nat) /\ Len(t) = 4
        BY <2>2, <2>5 DEF ReadsOK
      <4>2. QED
        BY <4>1, FourReads
    <3>2. Calibration \in Int /\ Calibration > 0 /\ origin \in Int
      BY DEF TimerConstants, TimerOK
    <3>3. t[3] - t[1] \in Int /\ t[3] - t[1] > 0
      <4>1. t[1] <= t[2] /\ t[2] + Calibration <= t[3]
        BY <2>2, <2>5 DEF ReadsOK
      <4>2. QED
        BY <3>1, <3>2, <4>1
    <3>4. Timer!Frequency(<<t[1], t[2], t[3], t[4]>>) \in Nat
      BY <3>1, <3>2, <3>3, FrequencyType
    <3>5. QED
      BY <3>4 DEF Timer!Frequency
  <2>7. Timer!Frequency(calibrated)' = Timer!Frequency(t) /\ frequency' = Timer!Frequency(t)
    BY <2>1, <2>5 DEF Timer!Frequency, Timer!Since, Timer!Rdtsc, Timer!Word
  <2>8. calibrated' # <<>>
    BY <2>2
  <2>9. QED
    BY <2>1, <2>2, <2>4, <2>6, <2>7, <2>8 DEF TimerOK
<1>4. CASE UNCHANGED timer
  <2>1. UNCHANGED <<time, origin, frequency, reads, calibrated>>
    BY <1>4 DEF timer
  <2>2. Timer!Frequency(calibrated)' = Timer!Frequency(calibrated)
    BY <1>0, <2>1
  <2>3. QED
    BY <2>1, <2>2 DEF TimerOK
<1>5. ASSUME NEW c \in Callers, Timer!GetTscFrequency(c) PROVE TimerOK'
  <2>1. Timer!Read(c) /\ Len(reads[c]) = 0
    BY <1>5 DEF Timer!GetTscFrequency
  <2>2. QED
    BY <1>2, <2>1
<1>6. ASSUME NEW c \in Callers, Timer!StartTicks(c) PROVE TimerOK'
  <2>1. Timer!Read(c) /\ Len(reads[c]) = 1
    BY <1>6 DEF Timer!StartTicks
  <2>2. QED
    BY <1>2, <2>1
<1>7. ASSUME NEW c \in Callers, Timer!WakeUp(c) PROVE TimerOK'
  <2>1. Timer!Read(c) /\ Len(reads[c]) = 2 /\ time >= reads[c][2] + Calibration
    BY <1>7 DEF Timer!WakeUp
  <2>2. Len(reads[c]) <= 3
    BY <2>1
  <2>3. QED
    BY <1>2, <2>1, <2>2
<1>8. QED
  BY <1>1, <1>3, <1>4, <1>5, <1>6, <1>7 DEF Timer!Next

(* What the invariant says of the frequency and of intervals.              *)
LEMMA TimerMeasures ==
  ASSUME TimerConstants, TimerOK
  PROVE  Timer!TimerIsAccurate
<1>1. ASSUME calibrated # <<>>, Timer!ProductFits(calibrated[4] - calibrated[2])
      PROVE  Timer!Distance(frequency * RateNanos, RateTicks * Second)
               * (calibrated[3] - calibrated[1])
               < (Timer!Distance(calibrated[4] - calibrated[2], calibrated[3] - calibrated[1])
                    * RateTicks + RateNanos) * Second
                 + RateNanos * (calibrated[3] - calibrated[1])
  <2> DEFINE t1 == calibrated[1]
             t2 == calibrated[2]
             t3 == calibrated[3]
             t4 == calibrated[4]
  <2>1. /\ t1 \in Nat /\ t2 \in Nat /\ t3 \in Nat /\ t4 \in Nat
        /\ t1 <= t2 /\ t2 + Calibration <= t3 /\ t3 <= t4
    <3>1. ReadsOK(calibrated, time) /\ Len(calibrated) = 4
      BY <1>1 DEF TimerOK
    <3>2. calibrated \in Seq(Nat)
      BY <3>1 DEF ReadsOK
    <3>3. t1 <= t2 /\ t2 + Calibration <= t3 /\ t3 <= t4
      BY <3>1 DEF ReadsOK
    <3>4. t1 \in Nat /\ t2 \in Nat /\ t3 \in Nat /\ t4 \in Nat
      BY ONLY <3>1, <3>2, FourReads
    <3> HIDE DEF t1, t2, t3, t4
    <3>5. QED
      BY ONLY <3>3, <3>4
  <2>2. t1 < t3 /\ t2 <= t4
    <3>1. Calibration \in Nat \ {0}
      BY DEF TimerConstants
    <3> HIDE DEF t1, t2, t3, t4
    <3>2. QED
      BY <2>1, <3>1
  <2>3. frequency = Timer!Frequency(<<t1, t2, t3, t4>>)
    BY <1>1 DEF TimerOK, Timer!Frequency
  <2>4. origin \in Int
    BY DEF TimerOK
  <2>5. Timer!ProductFits(t4 - t2)
    BY <1>1
  <2> HIDE DEF t1, t2, t3, t4
  <2>6. Timer!Distance(frequency * RateNanos, RateTicks * Second) * (t3 - t1)
          < (Timer!Distance(t4 - t2, t3 - t1) * RateTicks + RateNanos) * Second
            + RateNanos * (t3 - t1)
    BY <2>1, <2>2, <2>3, <2>4, <2>5, FrequencyIsClose
  <2>7. QED
    BY <2>6 DEF t1, t2, t3, t4
<1>2. ASSUME NEW from \in 0..time, NEW to \in from..time,
             frequency # 0, Timer!ProductFits(to - from)
      PROVE  /\ Timer!ElapsedNs(from, to) * frequency * RateNanos
                   < (to - from) * RateTicks * Second + RateNanos * Second
             /\ (to - from) * RateTicks * Second
                   < Timer!ElapsedNs(from, to) * frequency * RateNanos
                     + (frequency + Second) * RateNanos
  <2>1. time \in Nat /\ origin \in Int
    BY DEF TimerOK
  <2>2. from \in Nat /\ to \in Nat /\ from <= to
    BY <2>1
  <2>3. frequency \in Nat \ {0}
    BY <1>2 DEF TimerOK
  <2>4. QED
    BY <1>2, <2>1, <2>2, <2>3, ElapsedIsClose
<1>3. QED
  BY <1>1, <1>2 DEF Timer!TimerIsAccurate

(* The timer stays accurate, for a word of any width, a counter of any     *)
(* origin and any rate that is a fraction, any number of callers and any   *)
(* delays between their steps: the frequency that HighResolutionTimer      *)
(* keeps is that of the clocks it was read from, whoever was last, and     *)
(* neither the reads one after the other nor the two divisions cost more   *)
(* than TimerIsAccurate allows.                                            *)
THEOREM TimerStaysAccurate ==
  ASSUME TimerConstants
  PROVE  StandaloneSpec => []TimerIsAccurate
<1> DEFINE Inv == focus = "timer" => TimerOK
<1>1. StandaloneInit => Inv
  <2> SUFFICES ASSUME StandaloneInit, focus = "timer" PROVE TimerOK
    OBVIOUS
  <2>1. /\ time = 0 /\ frequency = 0 /\ calibrated = <<>> /\ origin \in Origins
        /\ reads = [c \in Callers |-> <<>>]
    BY DEF StandaloneInit, Timer!Init
  <2>2. origin \in Int
    BY <2>1 DEF TimerConstants
  <2>3. ReadsOK(<<>>, time)
    BY DEF ReadsOK
  <2>4. QED
    BY <2>1, <2>2, <2>3 DEF TimerOK
<1>2. Inv /\ [StandaloneNext]_all => Inv'
  <2> SUFFICES ASSUME Inv, [StandaloneNext]_all, focus' = "timer" PROVE TimerOK'
    OBVIOUS
  <2>1. TimerOK /\ (Timer!Next \/ UNCHANGED timer)
    BY DEF StandaloneNext, all
  <2>2. QED
    BY <2>1, NextTimerOK
<1>3. Inv => TimerIsAccurate
  BY TimerMeasures DEF TimerIsAccurate
<1>4. QED
  BY <1>1, <1>2, <1>3, PTL DEF StandaloneSpec
-----------------------------------------------------------------------------
(* What each processor has counted of a type, and the processors whose     *)
(* counter the aggregation has still to read.                              *)
CountsOf(type) == [cpu \in DOMAIN counters |-> counters[cpu][type]]
Unread(type) == {cpu \in DOMAIN counters : <<cpu, type>> \in unread}
Unadded(type) == SumFunctionOnSet(CountsOf(type), Unread(type))

(* The types of the counters; only an aggregation has something to read.   *)
CountersOK ==
  /\ counters \in [DOMAIN counters -> [Counting!Types -> Nat]]
  /\ IsFiniteSet(DOMAIN counters)
  /\ \A thread \in DOMAIN bound : bound[thread] \in DOMAIN counters
  /\ counted \in [Counting!Types -> Nat]
  /\ stats \in [Counting!Types -> Nat]
  /\ before \in [Counting!Types -> Nat]
  /\ unread \subseteq (DOMAIN counters) \X Counting!Types
  /\ ~locked => unread = {}

(* What has been read and what has still to be read are between what was   *)
(* counted before and what has been counted by now.                        *)
SumsOK ==
  \A type \in Counting!Types :
    /\ SumFunctionOnSet(CountsOf(type), DOMAIN counters) = counted[type]
    /\ stats[type] + Unadded(type) <= counted[type]
    /\ locked => before[type] <= stats[type] + Unadded(type)

(* The sum the model names is the one the theorems are about.              *)
LEMMA SameSum ==
  ASSUME NEW f
  PROVE  Counting!SumFunction(f) = SumFunctionOnSet(f, DOMAIN f)
BY DEF Counting!SumFunction, Counting!SumFunctionOnSet, Counting!FoldFunctionOnSet,
       Counting!MapThenFoldSet, SumFunctionOnSet, FoldFunctionOnSet, MapThenFoldSet

(* The sums are of numbers over finite sets.                               *)
LEMMA PendingType ==
  ASSUME CountersOK, NEW type \in Counting!Types
  PROVE  /\ \A cpu \in DOMAIN counters : CountsOf(type)[cpu] \in Nat
         /\ DOMAIN CountsOf(type) = DOMAIN counters
         /\ Unread(type) \subseteq DOMAIN counters /\ IsFiniteSet(Unread(type))
         /\ Unadded(type) \in Int
<1>1. \A cpu \in DOMAIN counters : CountsOf(type)[cpu] \in Nat
  BY DEF CountersOK, CountsOf
<1>2. Unread(type) \subseteq DOMAIN counters /\ IsFiniteSet(Unread(type))
  BY FS_Subset DEF CountersOK, Unread
<1>3. \A cpu \in Unread(type) : CountsOf(type)[cpu] \in Int
  BY <1>1, <1>2
<1>4. Unadded(type) \in Int
  BY <1>2, <1>3, SumSplits DEF Unadded
<1>5. QED
  BY <1>1, <1>2, <1>4 DEF CountsOf

(* A thread is bound to counters that are there, or to new ones at zero.   *)
LEMMA BindKeeps ==
  ASSUME CountersOK, SumsOK, NEW thread, NEW cpu, Counting!Bind(thread, cpu)
  PROVE  CountersOK' /\ SumsOK'
<1> DEFINE D == DOMAIN counters
<1>1. /\ ~locked /\ unread = {} /\ UNCHANGED <<stats, unread, locked, counted, before>>
      /\ bound' = [t \in DOMAIN bound \cup {thread} |-> IF t = thread THEN cpu ELSE bound[t]]
      /\ counters' = [c \in D \cup {cpu} |-> IF c \in D THEN counters[c] ELSE Counting!Zero]
  BY DEF Counting!Bind, CountersOK
<1>2. /\ DOMAIN counters' = D \cup {cpu} /\ IsFiniteSet(D) /\ IsFiniteSet(D \cup {cpu})
      /\ \A c \in D : counters'[c] = counters[c]
      /\ cpu \notin D => counters'[cpu] = Counting!Zero
  BY <1>1, FS_AddElement DEF CountersOK
<1>3. CountersOK'
  <2>1. Counting!Zero \in [Counting!Types -> Nat]
    BY DEF Counting!Zero
  <2>2. counters' \in [D \cup {cpu} -> [Counting!Types -> Nat]]
    BY <1>1, <2>1 DEF CountersOK
  <2>3. \A t \in DOMAIN bound' : bound'[t] \in D \cup {cpu}
    BY <1>1 DEF CountersOK
  <2>4. QED
    BY <1>1, <1>2, <2>2, <2>3 DEF CountersOK
<1>4. ASSUME NEW type \in Counting!Types
      PROVE  /\ SumFunctionOnSet(CountsOf(type)', DOMAIN counters') = counted[type]
             /\ stats[type] + Unadded(type)' <= counted[type]
  <2> DEFINE f == CountsOf(type)
             g == CountsOf(type)'
  <2>1. \A c \in D : f[c] \in Int /\ g[c] = f[c]
    BY <1>2, PendingType DEF CountsOf
  <2>2. cpu \notin D => g[cpu] = 0
    BY <1>2 DEF CountsOf, Counting!Zero
  <2> HIDE DEF f, g
  <2>3. SumFunctionOnSet(g, D) = SumFunctionOnSet(f, D)
    BY <1>2, <2>1, SumAgrees
  <2>4. SumFunctionOnSet(f, D) = counted[type] /\ counted[type] \in Nat
    BY DEF SumsOK, CountersOK, f
  <2>5. SumFunctionOnSet(g, D \cup {cpu}) = SumFunctionOnSet(g, D)
    <3>1. CASE cpu \in D
      <4>1. D \cup {cpu} = D
        BY <3>1
      <4>2. QED
        BY <4>1
    <3>2. CASE cpu \notin D
      <4>1. \A c \in D \cup {cpu} : g[c] \in Int
        BY <2>1, <2>2, <3>2
      <4>2. SumFunctionOnSet(g, D \cup {cpu}) = g[cpu] + SumFunctionOnSet(g, D)
        BY <1>2, <3>2, <4>1, SumInsert
      <4>3. QED
        BY <2>2, <2>3, <2>4, <3>2, <4>2
    <3>3. QED
      BY <3>1, <3>2
  <2>6. Unread(type) = {} /\ Unread(type)' = {}
    BY <1>1 DEF Unread
  <2>7. Unadded(type) = 0 /\ Unadded(type)' = 0
    BY <2>6, SumEmpty DEF Unadded
  <2>8. QED
    BY <1>2, <2>3, <2>4, <2>5, <2>7 DEF SumsOK, g
<1>5. QED
  BY <1>1, <1>3, <1>4 DEF SumsOK

(* One addition is in the sum of all counters, and in what is still to be  *)
(* read if its counter is.                                                 *)
LEMMA IncrementKeeps ==
  ASSUME CountersOK, SumsOK, NEW thread, NEW type \in Counting!Types,
         Counting!Increment(thread, type)
  PROVE  CountersOK' /\ SumsOK'
<1> DEFINE cpu == bound[thread]
           D == DOMAIN counters
<1>1. /\ cpu \in D /\ UNCHANGED <<bound, stats, unread, locked, before>>
      /\ counters' = [counters EXCEPT ![cpu][type] = @ + 1]
      /\ counted' = [counted EXCEPT ![type] = @ + 1]
      /\ IsFiniteSet(D)
      /\ counters \in [D -> [Counting!Types -> Nat]] /\ counted \in [Counting!Types -> Nat]
      /\ stats \in [Counting!Types -> Nat] /\ before \in [Counting!Types -> Nat]
  BY DEF Counting!Increment, CountersOK
<1> HIDE DEF cpu
<1>2. /\ counters' \in [D -> [Counting!Types -> Nat]] /\ DOMAIN counters' = D
      /\ counted' \in [Counting!Types -> Nat]
      /\ \A c \in D, t \in Counting!Types :
           counters'[c][t] = IF c = cpu /\ t = type THEN counters[c][t] + 1 ELSE counters[c][t]
      /\ \A t \in Counting!Types :
           counted'[t] = IF t = type THEN counted[t] + 1 ELSE counted[t]
  BY <1>1
<1>3. CountersOK'
  BY <1>1, <1>2 DEF CountersOK
<1>4. ASSUME NEW t \in Counting!Types
      PROVE  /\ SumFunctionOnSet(CountsOf(t)', DOMAIN counters') = counted'[t]
             /\ stats'[t] + Unadded(t)' <= counted'[t]
             /\ locked' => before'[t] <= stats'[t] + Unadded(t)'
  <2> DEFINE f == CountsOf(t)
             g == CountsOf(t)'
             S == Unread(t)
  <2>1. \A c \in D : /\ f[c] \in Nat /\ g[c] \in Nat
                     /\ g[c] = IF c = cpu /\ t = type THEN f[c] + 1 ELSE f[c]
    BY <1>1, <1>2 DEF CountsOf
  <2>2. S \subseteq D /\ IsFiniteSet(S) /\ Unread(t)' = S
    BY <1>1, <1>2, PendingType DEF Unread
  <2>3. /\ SumFunctionOnSet(f, D) = counted[t]
        /\ stats[t] + Unadded(t) <= counted[t]
        /\ locked => before[t] <= stats[t] + Unadded(t)
        /\ Unadded(t) = SumFunctionOnSet(f, S) /\ Unadded(t)' = SumFunctionOnSet(g, Unread(t)')
        /\ counted[t] \in Nat /\ stats[t] \in Nat /\ before[t] \in Nat
    BY <1>1 DEF SumsOK, Unadded
  <2> HIDE DEF f, g, S
  <2>4. CASE t # type
    <3>1. \A c \in D : f[c] \in Int /\ g[c] = f[c]
      BY <2>1, <2>4
    <3>2. SumFunctionOnSet(g, D) = SumFunctionOnSet(f, D)
      BY <1>1, <3>1, SumAgrees
    <3>3. SumFunctionOnSet(g, S) = SumFunctionOnSet(f, S)
      BY <2>2, <3>1, SumAgrees
    <3>4. QED
      BY <1>1, <1>2, <2>2, <2>3, <2>4, <3>2, <3>3 DEF g
  <2>5. CASE t = type
    <3>0. /\ \A c \in D : f[c] \in Int /\ g[c] \in Int
          /\ g[cpu] = f[cpu] + 1 /\ \A c \in D \ {cpu} : g[c] = f[c]
      BY <1>1, <2>1, <2>5
    <3>1. SumFunctionOnSet(g, D) = SumFunctionOnSet(f, D) - f[cpu] + g[cpu]
      BY <1>1, <3>0, SumChange
    <3>2. SumFunctionOnSet(g, D) = counted'[t]
      BY <1>1, <1>2, <2>3, <2>5, <3>0, <3>1
    <3>3. SumFunctionOnSet(f, S) \in Int
      BY <2>2, <3>0, SumSplits
    <3>4. \/ SumFunctionOnSet(g, S) = SumFunctionOnSet(f, S)
          \/ SumFunctionOnSet(g, S) = SumFunctionOnSet(f, S) + 1
      <4>1. CASE cpu \in S
        <5>1. SumFunctionOnSet(g, S) = SumFunctionOnSet(f, S) - f[cpu] + g[cpu]
          <6>1. /\ \A c \in S : f[c] \in Int /\ g[cpu] \in Int
                /\ \A c \in S \ {cpu} : g[c] = f[c]
            BY <1>1, <2>2, <3>0
          <6>2. QED
            BY <2>2, <4>1, <6>1, SumChange
        <5>2. QED
          BY <1>1, <3>0, <3>3, <5>1
      <4>2. CASE cpu \notin S
        <5>1. \A c \in S : f[c] \in Int /\ g[c] = f[c]
          BY <2>2, <3>0, <4>2
        <5>2. QED
          BY <2>2, <5>1, SumAgrees
      <4>3. QED
        BY <4>1, <4>2
    <3>5. counted'[t] = counted[t] + 1
      BY <1>2, <2>5
    <3>6. QED
      BY <1>1, <1>2, <2>2, <2>3, <3>2, <3>3, <3>4, <3>5 DEF g
  <2>6. QED
    BY <2>4, <2>5
<1>5. QED
  BY <1>3, <1>4 DEF SumsOK

(* An aggregation begins with everything to read.                          *)
LEMMA BeginAggregateKeeps ==
  ASSUME CountersOK, SumsOK, Counting!BeginAggregate
  PROVE  CountersOK' /\ SumsOK'
<1>1. /\ locked' /\ stats' = Counting!Zero /\ before' = counted
      /\ unread' = (DOMAIN counters) \X Counting!Types
      /\ UNCHANGED <<bound, counters, counted>>
  BY DEF Counting!BeginAggregate
<1>2. Counting!Zero \in [Counting!Types -> Nat]
  BY DEF Counting!Zero
<1>3. CountersOK'
  BY <1>1, <1>2 DEF CountersOK
<1>4. ASSUME NEW type \in Counting!Types
      PROVE  /\ SumFunctionOnSet(CountsOf(type)', DOMAIN counters') = counted'[type]
             /\ stats'[type] + Unadded(type)' = counted'[type]
             /\ before'[type] = counted'[type] /\ counted'[type] \in Nat
  <2>1. Unread(type)' = DOMAIN counters /\ CountsOf(type)' = CountsOf(type)
    BY <1>1 DEF Unread, CountsOf
  <2>2. SumFunctionOnSet(CountsOf(type), DOMAIN counters) = counted[type]
    BY DEF SumsOK
  <2>3. Unadded(type)' = counted[type] /\ counted[type] \in Nat
    BY <2>1, <2>2 DEF Unadded, CountersOK
  <2>4. stats'[type] = 0
    BY <1>1 DEF Counting!Zero
  <2>5. QED
    BY <1>1, <2>1, <2>2, <2>3, <2>4
<1>5. QED
  BY <1>3, <1>4 DEF SumsOK

(* What is read goes from one side of the sum to the other.                *)
LEMMA ReadCounterKeeps ==
  ASSUME CountersOK, SumsOK, Counting!ReadCounter
  PROVE  CountersOK' /\ SumsOK'
<1>1. /\ locked /\ UNCHANGED <<bound, counters, locked, counted, before>>
      /\ IsFiniteSet(DOMAIN counters)
  BY DEF Counting!ReadCounter, CountersOK
<1>2. PICK cpu \in Cpus, type \in Counting!Types :
        /\ <<cpu, type>> \in unread
        /\ stats' = [stats EXCEPT ![type] = @ + counters[cpu][type]]
        /\ unread' = unread \ {<<cpu, type>>}
  BY DEF Counting!ReadCounter
<1>3. cpu \in DOMAIN counters /\ stats \in [Counting!Types -> Nat]
      /\ counters[cpu][type] \in Nat
  BY <1>2 DEF CountersOK
<1>4. /\ stats' \in [Counting!Types -> Nat]
      /\ \A t \in Counting!Types :
           stats'[t] = IF t = type THEN stats[t] + counters[cpu][t] ELSE stats[t]
  BY <1>2, <1>3
<1>5. CountersOK'
  BY <1>1, <1>2, <1>4 DEF CountersOK
<1>6. ASSUME NEW t \in Counting!Types PROVE stats'[t] + Unadded(t)' = stats[t] + Unadded(t)
  <2>1. CountsOf(t)' = CountsOf(t)
    BY <1>1 DEF CountsOf
  <2>2. CASE t # type
    <3>1. Unread(t)' = Unread(t)
      BY <1>1, <1>2, <2>2 DEF Unread
    <3>2. QED
      BY <1>4, <2>1, <2>2, <3>1 DEF Unadded
  <2>3. CASE t = type
    <3>1. Unread(t)' = Unread(t) \ {cpu} /\ cpu \in Unread(t)
      BY <1>1, <1>2, <1>3, <2>3 DEF Unread
    <3> DEFINE f == CountsOf(t)
    <3>2. f[cpu] = counters[cpu][t] /\ f[cpu] \in Nat
      BY <1>3, <2>3 DEF CountsOf
    <3>3. IsFiniteSet(Unread(t)) /\ \A c \in Unread(t) : f[c] \in Int
      BY PendingType
    <3> HIDE DEF f
    <3>4. SumFunctionOnSet(f, Unread(t)) = f[cpu] + SumFunctionOnSet(f, Unread(t) \ {cpu})
      BY <3>1, <3>3, SumSplits
    <3>5. IsFiniteSet(Unread(t) \ {cpu}) /\ \A c \in Unread(t) \ {cpu} : f[c] \in Int
      BY <3>3, FS_Subset
    <3>6. SumFunctionOnSet(f, Unread(t) \ {cpu}) \in Int
      BY <3>5, SumSplits
    <3>7. Unadded(t) = SumFunctionOnSet(f, Unread(t))
          /\ Unadded(t)' = SumFunctionOnSet(f, Unread(t) \ {cpu})
      BY <2>1, <3>1 DEF Unadded, f
    <3>8. stats[t] \in Nat /\ stats'[t] = stats[t] + f[cpu]
      BY <1>3, <1>4, <2>3, <3>2
    <3>9. QED
      BY <3>2, <3>4, <3>6, <3>7, <3>8
  <2>4. QED
    BY <2>2, <2>3
<1>7. \A t \in Counting!Types : CountsOf(t)' = CountsOf(t)
  BY <1>1 DEF CountsOf
<1>8. QED
  BY <1>1, <1>5, <1>6, <1>7 DEF SumsOK

(* When an aggregation ends, nothing is left to read.                      *)
LEMMA CountsFollow ==
  ASSUME CountersOK, SumsOK
  PROVE  CountsAddUp
<1>1. ASSUME NEW type \in Counting!Types
      PROVE  /\ Counting!Total(type) = counted[type]
             /\ stats[type] <= counted[type]
             /\ locked /\ unread = {} => before[type] <= stats[type]
  <2> DEFINE f == CountsOf(type)
             S == Unread(type)
  <2>1. Counting!Total(type) = SumFunctionOnSet(f, DOMAIN counters)
    <3>1. Counting!Total(type) = Counting!SumFunction(CountsOf(type))
      BY DEF Counting!Total, CountsOf
    <3>2. QED
      BY <3>1, SameSum, PendingType
  <2>2. /\ \A cpu \in DOMAIN counters : f[cpu] \in Nat
        /\ S \subseteq DOMAIN counters /\ IsFiniteSet(S)
    BY PendingType
  <2>3. Unadded(type) = SumFunctionOnSet(f, S)
    BY DEF Unadded
  <2>4. unread = {} => Unadded(type) = 0
    BY SumEmpty DEF Unadded, Unread
  <2>5. Unadded(type) \in Int /\ 0 <= Unadded(type)
    <3> DEFINE zero == [cpu \in S |-> 0]
    <3> HIDE DEF f, S
    <3>1. \A cpu \in S : zero[cpu] \in Int /\ f[cpu] \in Int /\ zero[cpu] <= f[cpu]
      BY <2>2
    <3>2. SumFunctionOnSet(zero, S) = 0
      <4>1. \A cpu \in S : zero[cpu] = 0
        OBVIOUS
      <4> HIDE DEF zero
      <4>2. QED
        BY <2>2, <4>1, SumOfZeros
    <3> HIDE DEF zero
    <3>3. SumFunctionOnSet(zero, S) <= SumFunctionOnSet(f, S)
      BY <2>2, <3>1, SumMonotone
    <3>4. QED
      BY <2>3, <3>2, <3>3, PendingType
  <2>6. /\ stats[type] \in Nat /\ counted[type] \in Nat /\ before[type] \in Nat
        /\ stats[type] + Unadded(type) <= counted[type]
        /\ locked => before[type] <= stats[type] + Unadded(type)
        /\ SumFunctionOnSet(f, DOMAIN counters) = counted[type]
    BY DEF SumsOK, CountersOK
  <2>7. QED
    BY <2>1, <2>4, <2>5, <2>6
<1>2. QED
  BY <1>1 DEF CountsAddUp, Counting!CountsAddUp

(* Nothing counted is lost, and an aggregation that reads while the        *)
(* threads go on counting finds at least what was counted when it began    *)
(* and at most what has been by now, for any threads, processors and       *)
(* types: MetricsCollector::getThreadLocalMetrics and aggregate.           *)
THEOREM CountsAreKept == StandaloneSpec => []CountsAddUp
<1>1. StandaloneInit => CountersOK /\ SumsOK
  <2> SUFFICES ASSUME StandaloneInit PROVE CountersOK /\ SumsOK
    OBVIOUS
  <2>1. /\ bound = <<>> /\ counters = <<>> /\ stats = Counting!Zero /\ unread = {}
        /\ locked = FALSE /\ counted = Counting!Zero /\ before = Counting!Zero
    BY DEF StandaloneInit, Counting!Init
  <2>2. DOMAIN counters = {} /\ DOMAIN bound = {} /\ IsFiniteSet({})
    BY <2>1, FS_EmptySet
  <2>3. Counting!Zero \in [Counting!Types -> Nat]
    BY DEF Counting!Zero
  <2>4. CountersOK
    <3>1. counters \in [DOMAIN counters -> [Counting!Types -> Nat]]
      BY <2>1, <2>2
    <3>2. QED
      BY <2>1, <2>2, <2>3, <3>1 DEF CountersOK
  <2>5. \A type \in Counting!Types : Unread(type) = {} /\ Counting!Zero[type] = 0
    BY <2>2 DEF Unread, Counting!Zero
  <2>6. SumsOK
    BY <2>1, <2>2, <2>5, SumEmpty DEF SumsOK, Unadded
  <2>7. QED
    BY <2>4, <2>6
<1>2. CountersOK /\ SumsOK /\ [StandaloneNext]_all => CountersOK' /\ SumsOK'
  <2> SUFFICES ASSUME CountersOK, SumsOK, [StandaloneNext]_all
               PROVE  CountersOK' /\ SumsOK'
    OBVIOUS
  <2>0. Counting!Next \/ UNCHANGED counts
    BY DEF StandaloneNext, all
  <2>1. CASE \E thread \in Threads, cpu \in Cpus : Counting!Bind(thread, cpu)
    BY <2>1, BindKeeps
  <2>2. CASE \E thread \in Threads, type \in Counting!Types : Counting!Increment(thread, type)
    BY <2>2, IncrementKeeps
  <2>3. CASE Counting!BeginAggregate
    BY <2>3, BeginAggregateKeeps
  <2>4. CASE Counting!ReadCounter
    BY <2>4, ReadCounterKeeps
  <2>5. CASE Counting!EndAggregate \/ UNCHANGED counts
    <3>1. /\ UNCHANGED <<bound, counters, stats, unread, counted, before>>
          /\ unread = {} \/ UNCHANGED locked
      BY <2>5 DEF Counting!EndAggregate, counts
    <3>2. locked' => locked
      BY <2>5 DEF Counting!EndAggregate, counts
    <3>3. CountersOK'
      BY <3>1, <3>2 DEF CountersOK
    <3>4. SumsOK'
      BY <3>1, <3>2 DEF SumsOK, Unadded, CountsOf, Unread
    <3>5. QED
      BY <3>3, <3>4
  <2>6. QED
    BY <2>0, <2>1, <2>2, <2>3, <2>4, <2>5 DEF Counting!Next
<1>3. CountersOK /\ SumsOK => CountsAddUp
  BY CountsFollow
<1>4. QED
  BY <1>1, <1>2, <1>3, PTL DEF StandaloneSpec
-----------------------------------------------------------------------------
Frames ==
  [kind : Scopes!Guards \cup {"try", "destructor"}, active : BOOLEAN,
   exceptionCount : Nat, ran : Seq({"exit", "commit", "rollback"})]

(* The types of what the guards judge by.                                  *)
Typed ==
  /\ open \in Seq(Frames)
  /\ unwinding \in BOOLEAN
  /\ uncaught \in Nat

(* No more exceptions in flight than exceptionCount can tell apart.        *)
NoWrap == MaxOpen \in Nat /\ CountRange \in Nat \ {0} /\ MaxOpen <= CountRange

IsDestructor(k) == open[k].kind = "destructor"

(* Each thing open has counted the exceptions the destructors around it    *)
(* interrupt, and the thread one more while it unwinds; there are fewer of *)
(* them than things open around.                                           *)
Counted ==
  /\ open = <<>> => uncaught = 0
  /\ open # <<>> =>
       /\ ~IsDestructor(1) /\ open[1].exceptionCount = 0
       /\ uncaught = open[Len(open)].exceptionCount + (IF unwinding THEN 1 ELSE 0)
  /\ \A k \in 2..Len(open) :
       open[k].exceptionCount
         = open[k - 1].exceptionCount + (IF IsDestructor(k) THEN 1 ELSE 0)

Fewer ==
  /\ Len(open) <= MaxOpen
  /\ \A k \in 1..Len(open) : open[k].exceptionCount < k

(* Among the n outermost things of the stack a try block waits for an      *)
(* exception, with no destructor in between.                               *)
CaughtBelow(stack, n) ==
  \E k \in 1..n :
    stack[k].kind = "try" /\ \A j \in (k + 1)..n : stack[j].kind # "destructor"

(* Every exception in flight has a try block that will catch it.           *)
Awaited ==
  /\ unwinding => CaughtBelow(open, Len(open))
  /\ \A n \in 1..Len(open) : IsDestructor(n) => CaughtBelow(open, n - 1)

(* A guard still active has run nothing.                                   *)
Unused == \A k \in 1..Len(open) : open[k].active => open[k].ran = <<>>

Judged == Typed /\ Counted /\ Fewer /\ Awaited /\ Unused /\ Scopes!GuardsJudgeTheirScope
-----------------------------------------------------------------------------
(* What is below the top of a stack.                                       *)
LEMMA BelowTop ==
  ASSUME Typed, open # <<>>
  PROVE  /\ Len(open) \in Nat \ {0}
         /\ Scopes!Top = open[Len(open)] /\ Scopes!Top \in Frames
         /\ Scopes!Below \in Seq(Frames) /\ Len(Scopes!Below) = Len(open) - 1
         /\ \A k \in 1..(Len(open) - 1) : Scopes!Below[k] = open[k]
<1> DEFINE n == Len(open)
<1>1. n \in Nat \ {0} /\ open \in Seq(Frames) /\ \A k \in 1..n : open[k] \in Frames
  BY DEF Typed
<1>2. Scopes!Top = open[n] /\ Scopes!Below = SubSeq(open, 1, n - 1)
  BY DEF Scopes!Top, Scopes!Below, Scopes!Last, Scopes!Front
<1>3. /\ Scopes!Below \in Seq(Frames) /\ Len(Scopes!Below) = n - 1
      /\ \A k \in 1..(n - 1) : Scopes!Below[k] = open[k]
  <2>1. n - 1 \in Int /\ 1 \in Int /\ \A k \in 1..(n - 1) : open[k] \in Frames
    BY <1>1
  <2>2. /\ SubSeq(open, 1, n - 1) \in Seq(Frames)
        /\ Len(SubSeq(open, 1, n - 1)) = IF 1 <= n - 1 THEN n - 1 - 1 + 1 ELSE 0
        /\ \A k \in 1..(n - 1 - 1 + 1) : SubSeq(open, 1, n - 1)[k] = open[1 + k - 1]
    BY <2>1, SubSeqProperties
  <2> HIDE DEF n
  <2>3. QED
    BY <1>1, <1>2, <2>2
<1>4. QED
  BY <1>1, <1>2, <1>3

(* Only the kinds matter to who catches.                                   *)
LEMMA SameKindsCatch ==
  ASSUME NEW s, NEW t, NEW n \in Nat, \A k \in 1..n : t[k].kind = s[k].kind
  PROVE  CaughtBelow(s, n) => CaughtBelow(t, n)
<1> SUFFICES ASSUME CaughtBelow(s, n) PROVE CaughtBelow(t, n)
  OBVIOUS
<1>1. PICK k \in 1..n :
        s[k].kind = "try" /\ \A j \in (k + 1)..n : s[j].kind # "destructor"
  BY DEF CaughtBelow
<1>2. \A j \in (k + 1)..n : j \in 1..n
  OBVIOUS
<1>3. QED
  BY <1>1, <1>2 DEF CaughtBelow

(* Nothing is open at the start.                                           *)
LEMMA InitJudged ==
  ASSUME NoWrap, Scopes!Init
  PROVE  Judged
<1>1. open = <<>> /\ Len(open) = 0 /\ unwinding = FALSE /\ uncaught = 0 /\ left.kind = "none"
  BY DEF Scopes!Init, Scopes!Nothing
<1>2. Typed
  <2>1. <<>> \in Seq(Frames)
    BY EmptySeq
  <2>2. QED
    BY <1>1, <2>1 DEF Typed
<1>3. Counted /\ Fewer /\ Awaited /\ Unused
  BY <1>1 DEF Counted, Fewer, Awaited, Unused, NoWrap
<1>4. Scopes!GuardsJudgeTheirScope
  BY <1>1 DEF Scopes!GuardsJudgeTheirScope
<1>5. QED
  BY <1>2, <1>3, <1>4 DEF Judged

(* What is opened sees the exceptions in flight, all of them.              *)
LEMMA OpenedFrame ==
  ASSUME NoWrap, Typed, Counted, Fewer, Len(open) < MaxOpen,
         NEW kind \in Scopes!Guards \cup {"try", "destructor"}
  PROVE  /\ Scopes!Opened(kind) \in Frames
         /\ Scopes!Opened(kind).kind = kind
         /\ Scopes!Opened(kind).exceptionCount = uncaught
         /\ Scopes!Opened(kind).ran = <<>>
         /\ uncaught <= Len(open)
<1>1. Len(open) \in Nat /\ uncaught \in Nat
  BY DEF Typed
<1>2. uncaught <= Len(open)
  <2>1. CASE open = <<>>
    BY <1>1, <2>1 DEF Counted
  <2>2. CASE open # <<>>
    <3>1. Len(open) \in 1..Len(open) /\ open[Len(open)] \in Frames
      BY <1>1, <2>2 DEF Typed
    <3>2. open[Len(open)].exceptionCount \in Nat
      BY <3>1 DEF Frames
    <3>3. open[Len(open)].exceptionCount < Len(open)
      BY <3>1 DEF Fewer
    <3>4. uncaught = open[Len(open)].exceptionCount + (IF unwinding THEN 1 ELSE 0)
      BY <2>2 DEF Counted
    <3>5. QED
      BY <1>1, <3>2, <3>3, <3>4
  <2>3. QED
    BY <2>1, <2>2
<1>3. uncaught % CountRange = uncaught
  <2>1. uncaught < CountRange /\ CountRange \in Nat \ {0}
    BY <1>1, <1>2 DEF NoWrap
  <2>2. QED
    BY <1>1, <2>1
<1>4. QED
  BY <1>1, <1>2, <1>3 DEF Scopes!Opened, Frames

(* Entering a scope, with a guard or for a try block.                      *)
LEMMA EnterJudged ==
  ASSUME NoWrap, Judged, NEW kind \in Scopes!Guards \cup {"try"}, Scopes!Enter(kind)
  PROVE  Judged'
<1> DEFINE new == Scopes!Opened(kind)
<1>0. /\ Typed /\ Counted /\ Fewer /\ Awaited /\ Unused /\ Scopes!GuardsJudgeTheirScope
      /\ Len(open) < MaxOpen /\ ~unwinding /\ UNCHANGED <<unwinding, uncaught, left>>
      /\ open' = Append(open, new)
  BY DEF Judged, Scopes!Enter
<1>1. /\ new \in Frames /\ new.kind # "destructor"
      /\ new.exceptionCount = uncaught /\ new.ran = <<>> /\ uncaught <= Len(open)
  BY <1>0, OpenedFrame DEF Scopes!Guards
<1> HIDE DEF new
<1>2. /\ Len(open) \in Nat /\ Len(open') = Len(open) + 1
      /\ \A k \in 1..Len(open) : open'[k] = open[k]
      /\ open'[Len(open) + 1] = new
  BY <1>0, <1>1 DEF Typed
<1>3. Typed'
  BY <1>0, <1>1 DEF Typed
<1>4. Counted'
  BY <1>0, <1>1, <1>2 DEF Counted, IsDestructor, Typed
<1>5. Awaited'
  <2>1. ASSUME NEW m \in 1..Len(open'), IsDestructor(m)' PROVE CaughtBelow(open', m - 1)
    <3>1. m \in 1..Len(open) /\ IsDestructor(m)
      BY <1>1, <1>2, <2>1 DEF IsDestructor
    <3>2. CaughtBelow(open, m - 1) /\ m - 1 \in Nat
      BY <1>0, <3>1 DEF Awaited
    <3>3. \A k \in 1..(m - 1) : open'[k].kind = open[k].kind
      BY <1>2, <3>1
    <3>4. QED
      BY <3>2, <3>3, SameKindsCatch
  <2>2. QED
    BY <1>0, <2>1 DEF Awaited
<1>6. Unused'
  BY <1>0, <1>1, <1>2 DEF Unused
<1>7. Fewer'
  BY <1>0, <1>1, <1>2 DEF Fewer, NoWrap, Typed
<1>8. QED
  BY <1>0, <1>3, <1>4, <1>5, <1>6, <1>7 DEF Judged, Scopes!GuardsJudgeTheirScope

(* release, commit and rollback touch the guard on top and nothing else.   *)
LEMMA DismissJudged ==
  ASSUME Judged, NEW call \in {"release", "commit", "rollback"}, Scopes!Dismiss(call)
  PROVE  Judged'
<1> DEFINE n == Len(open)
           new == [Scopes!Top EXCEPT !.active = FALSE,
                              !.ran = IF call = "release" THEN @ ELSE Append(@, call)]
<1>0. /\ Typed /\ Counted /\ Fewer /\ Awaited /\ Unused /\ Scopes!GuardsJudgeTheirScope
      /\ open # <<>> /\ ~unwinding /\ UNCHANGED <<unwinding, uncaught, left>>
      /\ open' = Append(Scopes!Below, new)
      /\ Scopes!Top.kind # "destructor" /\ Scopes!Top.kind # "try"
  BY DEF Judged, Scopes!Dismiss
<1>1. /\ n \in Nat \ {0} /\ Scopes!Top = open[n] /\ Scopes!Top \in Frames
      /\ Scopes!Below \in Seq(Frames) /\ Len(Scopes!Below) = n - 1
      /\ \A k \in 1..(n - 1) : Scopes!Below[k] = open[k]
  BY <1>0, BelowTop
<1>2. /\ new \in Frames /\ new.kind = Scopes!Top.kind /\ ~new.active
      /\ new.exceptionCount = Scopes!Top.exceptionCount
  <2>1. CASE call = "release"
    BY <1>1, <2>1 DEF Frames
  <2>2. CASE call \in {"commit", "rollback"}
    <3>1. Scopes!Top.ran \in Seq({"exit", "commit", "rollback"})
      BY <1>1 DEF Frames
    <3>2. Append(Scopes!Top.ran, call) \in Seq({"exit", "commit", "rollback"})
      BY <2>2, <3>1
    <3>3. new = [Scopes!Top EXCEPT !.active = FALSE, !.ran = Append(Scopes!Top.ran, call)]
      BY <1>1, <2>2 DEF Frames
    <3>4. QED
      BY <1>1, <3>2, <3>3 DEF Frames
  <2>3. QED
    BY <2>1, <2>2
<1> HIDE DEF new
<1>3. /\ open' \in Seq(Frames) /\ Len(open') = n /\ open'[n] = new
      /\ \A k \in 1..(n - 1) : open'[k] = open[k]
  BY <1>0, <1>1, <1>2
<1> HIDE DEF n
<1>4. /\ \A k \in 1..n : open'[k].kind = open[k].kind
      /\ \A k \in 1..n : open'[k].exceptionCount = open[k].exceptionCount
      /\ open' # <<>>
  BY <1>1, <1>2, <1>3, EmptySeq
<1>5. Typed'
  BY <1>0, <1>3 DEF Typed
<1>6. Counted'
  <2>1. open'[n].exceptionCount = open[n].exceptionCount /\ n \in 1..n /\ 1 \in 1..n
    BY <1>1, <1>4 DEF n
  <2>2. /\ open[1].kind # "destructor" /\ open[1].exceptionCount = 0
        /\ uncaught = open[n].exceptionCount + (IF unwinding THEN 1 ELSE 0)
    BY <1>0 DEF Counted, IsDestructor, n
  <2>3. ASSUME NEW k \in 2..n
        PROVE  open'[k].exceptionCount
                 = open'[k - 1].exceptionCount + (IF open'[k].kind = "destructor" THEN 1 ELSE 0)
    <3>1. k \in 1..n /\ k - 1 \in 1..n
      BY <1>1 DEF n
    <3>2. open[k].exceptionCount
            = open[k - 1].exceptionCount + (IF open[k].kind = "destructor" THEN 1 ELSE 0)
      BY <1>0 DEF Counted, IsDestructor, n
    <3>3. QED
      BY <1>4, <3>1, <3>2
  <2>4. QED
    BY <1>0, <1>3, <1>4, <2>1, <2>2, <2>3 DEF Counted, IsDestructor
<1>7. Awaited'
  <2>1. ASSUME NEW m \in 1..n, IsDestructor(m)' PROVE CaughtBelow(open', m - 1)
    <3>1. IsDestructor(m) /\ m - 1 \in Nat /\ 1..(m - 1) \subseteq 1..n
      BY <1>1, <1>4, <2>1 DEF IsDestructor, n
    <3>2. CaughtBelow(open, m - 1)
      BY <1>0, <3>1 DEF Awaited, n
    <3>3. QED
      BY <1>4, <3>1, <3>2, SameKindsCatch
  <2>2. QED
    BY <1>0, <1>3, <2>1 DEF Awaited
<1>8. Unused'
  BY <1>0, <1>1, <1>2, <1>3 DEF Unused, n
<1>9. Fewer'
  BY <1>0, <1>3, <1>4 DEF Fewer, n
<1>10. QED
  BY <1>0, <1>5, <1>6, <1>7, <1>8, <1>9 DEF Judged, Scopes!GuardsJudgeTheirScope

(* What is left of a stack without its top, when the count of exceptions   *)
(* in flight is the one that goes with it.                                 *)
LEMMA PoppedJudged ==
  ASSUME NoWrap, Typed, Counted, Fewer, Awaited, Unused, open # <<>>, open' = Scopes!Below,
         unwinding' \in BOOLEAN,
         uncaught' = uncaught + (IF unwinding' THEN 1 ELSE 0) - (IF unwinding THEN 1 ELSE 0)
                       - (IF IsDestructor(Len(open)) THEN 1 ELSE 0),
         unwinding' => CaughtBelow(open, Len(open) - 1)
  PROVE  Typed' /\ Counted' /\ Fewer' /\ Awaited' /\ Unused'
<1> DEFINE n == Len(open)
<1>1. /\ n \in Nat \ {0} /\ open' \in Seq(Frames) /\ Len(open') = n - 1
      /\ \A k \in 1..(n - 1) : open'[k] = open[k]
  BY BelowTop
<1>2. /\ open[n].exceptionCount \in Nat
      /\ uncaught = open[n].exceptionCount + (IF unwinding THEN 1 ELSE 0)
      /\ \A k \in 1..n : open[k].exceptionCount \in Nat
  <2>1. \A k \in 1..n : open[k] \in Frames
    BY <1>1 DEF Typed
  <2>2. \A k \in 1..n : open[k].exceptionCount \in Nat
    BY <2>1 DEF Frames
  <2>3. n \in 1..n /\ uncaught = open[n].exceptionCount + (IF unwinding THEN 1 ELSE 0)
    BY <1>1 DEF Counted
  <2>4. QED
    BY <2>2, <2>3
<1>3. ASSUME n = 1 PROVE Typed' /\ Counted' /\ Awaited' /\ Unused'
  <2>1. open' = <<>> /\ ~unwinding' /\ ~IsDestructor(1) /\ open[1].exceptionCount = 0
    BY <1>1, <1>3 DEF CaughtBelow, Counted
  <2>2. uncaught' = 0
    BY <1>2, <1>3, <2>1
  <2>3. Typed'
    BY <1>1, <2>1, <2>2 DEF Typed
  <2>4. QED
    BY <1>1, <1>3, <2>1, <2>2, <2>3 DEF Counted, Awaited, Unused
<1>4. ASSUME n > 1 PROVE Typed' /\ Counted' /\ Awaited' /\ Unused'
  <2>1. /\ open' # <<>> /\ open'[n - 1] = open[n - 1] /\ open'[1] = open[1]
        /\ open[n].exceptionCount
             = open[n - 1].exceptionCount + (IF IsDestructor(n) THEN 1 ELSE 0)
    BY <1>1, <1>4, EmptySeq DEF Counted
  <2>2. uncaught' = open[n - 1].exceptionCount + (IF unwinding' THEN 1 ELSE 0)
    BY <1>1, <1>2, <1>4, <2>1
  <2>3. Typed'
    BY <1>1, <1>2, <1>4, <2>2 DEF Typed
  <2>4. Counted'
    <3>1. open[1].kind # "destructor" /\ open[1].exceptionCount = 0
      BY DEF Counted, IsDestructor
    <3>2. ASSUME NEW k \in 2..(n - 1)
          PROVE  open'[k].exceptionCount
                   = open'[k - 1].exceptionCount + (IF open'[k].kind = "destructor" THEN 1 ELSE 0)
      <4>1. k \in 1..(n - 1) /\ k - 1 \in 1..(n - 1) /\ k \in 2..n
        BY <1>1
      <4>2. open[k].exceptionCount
              = open[k - 1].exceptionCount + (IF open[k].kind = "destructor" THEN 1 ELSE 0)
        BY <4>1 DEF Counted, IsDestructor
      <4>3. QED
        BY <1>1, <4>1, <4>2
    <3>3. QED
      BY <1>1, <2>1, <2>2, <3>1, <3>2 DEF Counted, IsDestructor
  <2>5. Awaited'
    <3>1. ASSUME NEW m \in 0..(n - 1), CaughtBelow(open, m) PROVE CaughtBelow(open', m)
      BY <1>1, <3>1, SameKindsCatch
    <3>2. unwinding' => CaughtBelow(open', n - 1)
      BY <1>1, <3>1
    <3>3. ASSUME NEW m \in 1..(n - 1), IsDestructor(m)' PROVE CaughtBelow(open', m - 1)
      <4>1. IsDestructor(m) /\ m \in 1..n /\ m - 1 \in 0..(n - 1)
        BY <1>1, <3>3 DEF IsDestructor
      <4>2. QED
        BY <3>1, <4>1 DEF Awaited
    <3>4. QED
      BY <1>1, <3>2, <3>3 DEF Awaited
  <2>6. Unused'
    BY <1>1, <1>4 DEF Unused
  <2>7. QED
    BY <2>3, <2>4, <2>5, <2>6
<1>5. Fewer'
  BY <1>1 DEF Fewer, NoWrap
<1>6. QED
  BY <1>1, <1>3, <1>4, <1>5

(* A guard's destructor: the exception that passes, if one does, is the    *)
(* only one it has not counted.                                            *)
LEMMA DestroyJudged ==
  ASSUME NoWrap, Judged, Scopes!Destroy
  PROVE  Judged'
<1> DEFINE n == Len(open)
<1>0. /\ Typed /\ Counted /\ Fewer /\ Awaited /\ Unused
      /\ open # <<>> /\ Scopes!Top.kind \in Scopes!Guards /\ Scopes!Leave(Scopes!Top)
      /\ open' = Scopes!Below /\ UNCHANGED <<unwinding, uncaught>>
  BY DEF Judged, Scopes!Destroy
<1>1. n \in Nat \ {0} /\ Scopes!Top = open[n] /\ Scopes!Top \in Frames
  BY <1>0, BelowTop
<1>2. /\ Scopes!Top.exceptionCount \in Nat /\ Scopes!Top.active \in BOOLEAN
      /\ Scopes!Top.ran \in Seq({"exit", "commit", "rollback"})
      /\ ~IsDestructor(n) /\ open[n].kind # "try" /\ unwinding \in BOOLEAN
  BY <1>0, <1>1 DEF Frames, IsDestructor, Scopes!Guards, Typed
<1>3. Scopes!Failing(Scopes!Top) <=> unwinding
  BY <1>0, <1>1, <1>2 DEF Counted, Scopes!Failing
<1>4. Scopes!GuardsJudgeTheirScope'
  <2>1. left' = [kind |-> Scopes!Top.kind, thrown |-> unwinding,
                 dismissed |-> ~Scopes!Top.active,
                 byHand |-> Scopes!Top.ran, ran |-> Scopes!Top.ran \o Scopes!AtExit(Scopes!Top)]
    BY <1>0 DEF Scopes!Leave
  <2>2. CASE ~Scopes!Top.active
    <3>1. Scopes!AtExit(Scopes!Top) = <<>>
      BY <2>2 DEF Scopes!AtExit
    <3>2. left'.ran = Scopes!Top.ran
      BY <1>2, <2>1, <3>1, ConcatEmptySeq
    <3>3. QED
      BY <2>1, <2>2, <3>2 DEF Scopes!GuardsJudgeTheirScope
  <2>3. CASE Scopes!Top.active
    <3>1. Scopes!Top.ran = <<>>
      BY <1>0, <1>1, <2>3 DEF Unused
    <3>2. Scopes!AtExit(Scopes!Top) =
            IF Scopes!Top.kind = "ScopeExit" THEN <<"exit">>
            ELSE IF Scopes!Top.kind = "ScopeFail" THEN (IF unwinding THEN <<"exit">> ELSE <<>>)
            ELSE (IF unwinding THEN <<"rollback">> ELSE <<"commit">>)
      BY <1>0, <1>3, <2>3 DEF Scopes!AtExit, Scopes!Guards
    <3>3. Scopes!AtExit(Scopes!Top) \in Seq({"exit", "commit", "rollback"})
      <4>1. /\ <<>> \in Seq({"exit", "commit", "rollback"})
            /\ <<"exit">> \in Seq({"exit", "commit", "rollback"})
            /\ <<"commit">> \in Seq({"exit", "commit", "rollback"})
            /\ <<"rollback">> \in Seq({"exit", "commit", "rollback"})
        OBVIOUS
      <4>2. Scopes!AtExit(Scopes!Top) \in {<<>>, <<"exit">>, <<"commit">>, <<"rollback">>}
        BY <3>2
      <4>3. QED
        BY <4>1, <4>2
    <3>4. left'.ran = Scopes!AtExit(Scopes!Top)
      BY <2>1, <3>1, <3>3, ConcatEmptySeq
    <3>5. left'.kind = Scopes!Top.kind /\ left'.thrown = unwinding /\ ~left'.dismissed
      BY <2>1, <2>3
    <3>6. QED
      BY <3>2, <3>4, <3>5 DEF Scopes!GuardsJudgeTheirScope
  <2>4. QED
    BY <1>2, <2>2, <2>3
<1>5. unwinding => CaughtBelow(open, n - 1)
  <2> SUFFICES ASSUME unwinding PROVE CaughtBelow(open, n - 1)
    OBVIOUS
  <2>1. PICK k \in 1..n :
          open[k].kind = "try" /\ \A j \in (k + 1)..n : open[j].kind # "destructor"
    BY <1>0 DEF Awaited, CaughtBelow
  <2>2. k \in 1..(n - 1) /\ \A j \in (k + 1)..(n - 1) : j \in (k + 1)..n
    BY <1>1, <1>2, <2>1
  <2>3. QED
    BY <2>1, <2>2 DEF CaughtBelow
<1>6. uncaught' = uncaught + (IF unwinding' THEN 1 ELSE 0) - (IF unwinding THEN 1 ELSE 0)
                    - (IF IsDestructor(n) THEN 1 ELSE 0)
  BY <1>0, <1>2 DEF Typed
<1>7. QED
  BY <1>0, <1>2, <1>4, <1>5, <1>6, PoppedJudged DEF Judged

(* An exception is thrown only where one is waited for.                    *)
LEMMA ThrowJudged ==
  ASSUME NoWrap, Judged, Scopes!Throw
  PROVE  Judged'
<1>0. /\ Typed /\ Counted /\ Fewer /\ Awaited /\ Unused /\ Scopes!GuardsJudgeTheirScope
      /\ ~unwinding /\ Scopes!Caught /\ unwinding' /\ unwinding' = TRUE
      /\ uncaught' = uncaught + 1 /\ UNCHANGED <<open, left>>
  BY DEF Judged, Scopes!Throw
<1>1. Len(open) \in Nat /\ DOMAIN open = 1..Len(open) /\ uncaught \in Nat
  BY <1>0 DEF Typed
<1>2. PICK k \in 1..Len(open) :
        open[k].kind = "try" /\ \A j \in 1..Len(open) : j > k => open[j].kind # "destructor"
  BY <1>0, <1>1 DEF Scopes!Caught
<1>3. \A j \in (k + 1)..Len(open) : j \in 1..Len(open) /\ j > k
  BY <1>1
<1>4. CaughtBelow(open, Len(open)) /\ open # <<>>
  BY <1>2, <1>3, EmptySeq DEF CaughtBelow
<1>5. Typed' /\ Fewer' /\ Unused'
  BY <1>0 DEF Typed, Fewer, Unused
<1>6. Counted'
  <2>1. Len(open) \in 1..Len(open)
    BY <1>1, <1>2
  <2>2. open[Len(open)] \in Frames
    BY <1>0, <2>1 DEF Typed
  <2>3. open[Len(open)].exceptionCount \in Nat
    BY <2>2 DEF Frames
  <2>4. QED
    BY <1>0, <1>1, <1>4, <2>3 DEF Counted, IsDestructor
<1>7. Awaited'
  BY <1>0, <1>4 DEF Awaited, CaughtBelow, IsDestructor
<1>8. QED
  BY <1>0, <1>5, <1>6, <1>7 DEF Judged, Scopes!GuardsJudgeTheirScope

(* A destructor that runs while an exception passes.                       *)
LEMMA RunDestructorJudged ==
  ASSUME NoWrap, Judged, Scopes!RunDestructor
  PROVE  Judged'
<1> DEFINE new == Scopes!Opened("destructor")
<1>0. /\ Typed /\ Counted /\ Fewer /\ Awaited /\ Unused /\ Scopes!GuardsJudgeTheirScope
      /\ Len(open) < MaxOpen /\ unwinding /\ ~unwinding' /\ unwinding' = FALSE
      /\ UNCHANGED <<uncaught, left>> /\ open' = Append(open, new)
  BY DEF Judged, Scopes!RunDestructor
<1>1. /\ new \in Frames /\ new.kind = "destructor"
      /\ new.exceptionCount = uncaught /\ new.ran = <<>> /\ uncaught <= Len(open)
  BY <1>0, OpenedFrame
<1> HIDE DEF new
<1>2. /\ Len(open) \in Nat /\ Len(open') = Len(open) + 1
      /\ \A k \in 1..Len(open) : open'[k] = open[k]
      /\ open'[Len(open) + 1] = new
  BY <1>0, <1>1 DEF Typed
<1>3. CaughtBelow(open, Len(open)) /\ Len(open) \in Nat \ {0} /\ open # <<>>
  <2>1. CaughtBelow(open, Len(open))
    BY <1>0 DEF Awaited
  <2>2. PICK k \in 1..Len(open) : open[k].kind = "try"
    BY <2>1 DEF CaughtBelow
  <2>3. Len(open) \in Nat \ {0}
    BY <1>2, <2>2
  <2>4. QED
    BY <2>1, <2>3, EmptySeq
<1>4. Typed'
  <2>1. open' \in Seq(Frames)
    BY <1>0, <1>1 DEF Typed
  <2>2. unwinding' \in BOOLEAN
    BY <1>0
  <2>3. uncaught' \in Nat
    BY <1>0 DEF Typed
  <2>4. QED
    BY <2>1, <2>2, <2>3 DEF Typed
<1>5. Counted'
  BY <1>0, <1>1, <1>2, <1>3 DEF Counted, IsDestructor, Typed
<1>6. Awaited'
  <2>1. ASSUME NEW m \in 1..Len(open'), IsDestructor(m)' PROVE CaughtBelow(open', m - 1)
    <3>1. m - 1 \in Nat /\ m - 1 <= Len(open) /\ CaughtBelow(open, m - 1)
      <4>1. CASE m = Len(open) + 1
        BY <1>2, <1>3, <4>1
      <4>2. CASE m # Len(open) + 1
        <5>1. m \in 1..Len(open) /\ IsDestructor(m)
          BY <1>2, <2>1, <4>2 DEF IsDestructor
        <5>2. QED
          BY <1>0, <5>1 DEF Awaited
      <4>3. QED
        BY <4>1, <4>2
    <3>2. \A k \in 1..(m - 1) : open'[k].kind = open[k].kind
      BY <1>2, <3>1
    <3>3. QED
      BY <3>1, <3>2, SameKindsCatch
  <2>2. QED
    BY <1>0, <2>1 DEF Awaited
<1>7. Unused'
  BY <1>0, <1>1, <1>2 DEF Unused
<1>8. Fewer'
  BY <1>0, <1>1, <1>2 DEF Fewer, NoWrap, Typed
<1>9. QED
  BY <1>0, <1>4, <1>5, <1>6, <1>7, <1>8 DEF Judged, Scopes!GuardsJudgeTheirScope

(* It ends, and the exception passes on.                                   *)
LEMMA EndDestructorJudged ==
  ASSUME NoWrap, Judged, Scopes!EndDestructor
  PROVE  Judged'
<1>0. /\ Typed /\ Counted /\ Fewer /\ Awaited /\ Unused /\ Scopes!GuardsJudgeTheirScope
      /\ ~unwinding /\ open # <<>> /\ Scopes!Top.kind = "destructor"
      /\ open' = Scopes!Below /\ unwinding' /\ unwinding' = TRUE /\ UNCHANGED <<uncaught, left>>
  BY DEF Judged, Scopes!EndDestructor
<1>1. Len(open) \in Nat \ {0} /\ IsDestructor(Len(open))
  BY <1>0, BelowTop DEF IsDestructor
<1>2. CaughtBelow(open, Len(open) - 1)
  BY <1>0, <1>1 DEF Awaited
<1>3. uncaught' = uncaught + (IF unwinding' THEN 1 ELSE 0) - (IF unwinding THEN 1 ELSE 0)
                    - (IF IsDestructor(Len(open)) THEN 1 ELSE 0)
  BY <1>0, <1>1 DEF Typed
<1>4. QED
  BY <1>0, <1>2, <1>3, PoppedJudged DEF Judged, Scopes!GuardsJudgeTheirScope

(* A try block is left, with or without an exception to catch.             *)
LEMMA LeaveTryJudged ==
  ASSUME NoWrap, Judged, Scopes!LeaveTry
  PROVE  Judged'
<1>0. /\ Typed /\ Counted /\ Fewer /\ Awaited /\ Unused /\ Scopes!GuardsJudgeTheirScope
      /\ open # <<>> /\ Scopes!Top.kind = "try" /\ open' = Scopes!Below
      /\ ~unwinding' /\ unwinding' = FALSE /\ UNCHANGED left
      /\ uncaught' = IF unwinding THEN uncaught - 1 ELSE uncaught
  BY DEF Judged, Scopes!LeaveTry
<1>1. ~IsDestructor(Len(open))
  BY <1>0, BelowTop DEF IsDestructor
<1>2. uncaught' = uncaught + (IF unwinding' THEN 1 ELSE 0) - (IF unwinding THEN 1 ELSE 0)
                    - (IF IsDestructor(Len(open)) THEN 1 ELSE 0)
  BY <1>0, <1>1 DEF Typed
<1>3. QED
  BY <1>0, <1>2, PoppedJudged DEF Judged, Scopes!GuardsJudgeTheirScope
-----------------------------------------------------------------------------
(* Every guard acts on the exceptions that leave its own scope, at any     *)
(* depth of scopes, destructors and exceptions in flight that the count of *)
(* eight bits can tell: the destructors of ScopeExit, ScopeFail and        *)
(* TransactionalScope.                                                     *)
THEOREM GuardsJudgeCorrectly ==
  ASSUME NoWrap
  PROVE  StandaloneSpec => []GuardsJudgeTheirScope
<1>1. StandaloneInit => Judged
  BY InitJudged DEF StandaloneInit
<1>2. Judged /\ [StandaloneNext]_all => Judged'
  <2> SUFFICES ASSUME Judged, [StandaloneNext]_all PROVE Judged'
    OBVIOUS
  <2>0. Scopes!Next \/ UNCHANGED guards
    BY DEF StandaloneNext, all
  <2>1. CASE \E kind \in Scopes!Guards \cup {"try"} : Scopes!Enter(kind)
    BY <2>1, EnterJudged
  <2>2. CASE \E call \in {"release", "commit", "rollback"} : Scopes!Dismiss(call)
    BY <2>2, DismissJudged
  <2>3. CASE Scopes!Destroy
    BY <2>3, DestroyJudged
  <2>4. CASE Scopes!Throw
    BY <2>4, ThrowJudged
  <2>5. CASE Scopes!RunDestructor
    BY <2>5, RunDestructorJudged
  <2>6. CASE Scopes!EndDestructor
    BY <2>6, EndDestructorJudged
  <2>7. CASE Scopes!LeaveTry
    BY <2>7, LeaveTryJudged
  <2>8. CASE UNCHANGED guards
    BY <2>8 DEF guards, Judged, Typed, Counted, Fewer, IsDestructor, Awaited, CaughtBelow,
                Unused, Scopes!GuardsJudgeTheirScope
  <2>9. QED
    BY <2>0, <2>1, <2>2, <2>3, <2>4, <2>5, <2>6, <2>7, <2>8 DEF Scopes!Next
<1>3. Judged => GuardsJudgeTheirScope
  BY DEF Judged, GuardsJudgeTheirScope
<1>4. QED
  BY <1>1, <1>2, <1>3, PTL DEF StandaloneSpec
-----------------------------------------------------------------------------
(* What has got past the queue, oldest first.                              *)
Past == written \o (IF writing = 0 THEN <<>> ELSE <<writing>>)

Ascending(s) == \A j, k \in 1..Len(s) : j < k => s[j] < s[k]

Lines == Nat \ {0}

(* The queue holds the latest lines, one after the other; what is past it  *)
(* is older and in order, and only what as many newer lines as the queue   *)
(* holds have pushed out is missing.                                       *)
LogOK ==
  /\ logged \in Nat /\ writing \in Nat
  /\ queue \in Seq(Lines) /\ written \in Seq(Lines)
  /\ Len(queue) <= AsyncQueueSize /\ Len(queue) <= logged
  /\ \A k \in 1..Len(queue) : queue[k] = logged - Len(queue) + k
  /\ Ascending(Past)
  /\ \A k \in 1..Len(Past) : Past[k] <= logged - Len(queue)
  /\ \A line \in 1..(logged - Len(queue)) :
       line > logged - AsyncQueueSize => \E k \in 1..Len(Past) : Past[k] = line

(* The factory has a logger by the time a module asks for one.             *)
HoldersOK ==
  /\ created \in Nat
  /\ running = "constructing" => registered # Logs!NoLogger
  /\ \A m \in DOMAIN held : held[m] # Logs!NoLogger

(* A sequence in order behind another of smaller elements.                 *)
LEMMA AscendingConcat ==
  ASSUME NEW s \in Seq(Nat), NEW t \in Seq(Nat), Ascending(s), Ascending(t),
         \A j \in 1..Len(s), k \in 1..Len(t) : s[j] < t[k]
  PROVE  Ascending(s \o t)
<1> SUFFICES ASSUME NEW j \in 1..Len(s \o t), NEW k \in 1..Len(s \o t), j < k
             PROVE  (s \o t)[j] < (s \o t)[k]
  BY DEF Ascending
<1>1. /\ Len(s) \in Nat /\ Len(t) \in Nat /\ Len(s \o t) = Len(s) + Len(t)
      /\ \A i \in 1..(Len(s) + Len(t)) :
           (s \o t)[i] = IF i <= Len(s) THEN s[i] ELSE t[i - Len(s)]
  BY ConcatProperties
<1>2. CASE k <= Len(s)
  BY <1>1, <1>2 DEF Ascending
<1>3. CASE j > Len(s)
  <2>1. /\ j - Len(s) \in 1..Len(t) /\ k - Len(s) \in 1..Len(t)
        /\ j - Len(s) < k - Len(s)
    BY <1>1, <1>3
  <2>2. t[j - Len(s)] < t[k - Len(s)]
    BY <2>1 DEF Ascending
  <2>3. QED
    BY <1>1, <1>3, <2>2
<1>4. CASE j <= Len(s) /\ k > Len(s)
  <2>1. j \in 1..Len(s) /\ k - Len(s) \in 1..Len(t)
    BY <1>1, <1>4
  <2>2. QED
    BY <1>1, <1>4, <2>1
<1>5. QED
  BY <1>1, <1>2, <1>3, <1>4

LEMMA PastType ==
  ASSUME LogOK
  PROVE  Past \in Seq(Lines) /\ Past \in Seq(Nat)
<1>1. (IF writing = 0 THEN <<>> ELSE <<writing>>) \in Seq(Lines)
  <2>1. CASE writing = 0
    BY <2>1, EmptySeq
  <2>2. CASE writing # 0
    <3>1. <<writing>> \in Seq(Lines)
      BY <2>2 DEF LogOK, Lines
    <3>2. QED
      BY <2>2, <3>1
  <2>3. QED
    BY <2>1, <2>2
<1>2. Past \in Seq(Lines)
  BY <1>1, ConcatProperties DEF Past, LogOK
<1>3. QED
  BY <1>2 DEF Lines

(* A line goes into the queue, if need be for the oldest in it.            *)
LEMMA LogKeeps ==
  ASSUME AsyncQueueSize \in Nat \ {0}, LogOK, NEW m, Logs!Log(m)
  PROVE  LogOK'
<1>1. /\ logged' = logged + 1 /\ UNCHANGED <<writing, written>>
      /\ queue' = IF Len(queue) < AsyncQueueSize THEN Append(queue, logged + 1)
                  ELSE Append(Tail(queue), logged + 1)
      /\ logged + 1 \in Lines /\ logged \in Nat /\ Len(queue) \in Nat
  BY DEF Logs!Log, Logs!Enqueued, LogOK, Lines
<1>2. Past' = Past
  BY <1>1 DEF Past
<1> DEFINE n == Len(queue)
<1>3. CASE n < AsyncQueueSize
  <2>1. /\ queue' \in Seq(Lines) /\ Len(queue') = n + 1
        /\ \A k \in 1..n : queue'[k] = queue[k]
        /\ queue'[n + 1] = logged + 1
    BY <1>1, <1>3 DEF LogOK
  <2> HIDE DEF n
  <2>2. ASSUME NEW k \in 1..(n + 1) PROVE queue'[k] = logged' - (n + 1) + k
    <3>1. CASE k = n + 1
      BY <1>1, <2>1, <3>1 DEF n
    <3>2. CASE k # n + 1
      <4>1. k \in 1..n
        BY <1>1, <3>2 DEF n
      <4>2. queue[k] = logged - n + k
        BY <4>1 DEF LogOK, n
      <4>3. QED
        BY <1>1, <2>1, <4>1, <4>2 DEF n
    <3>3. QED
      BY <3>1, <3>2
  <2>3. logged' - (n + 1) = logged - n /\ n + 1 <= AsyncQueueSize /\ n + 1 <= logged'
    BY <1>1, <1>3 DEF LogOK, n
  <2>4. \A line \in 1..(logged - n) :
          line > logged' - AsyncQueueSize => \E k \in 1..Len(Past) : Past[k] = line
    <3>1. \A line \in 1..(logged - n) :
            line > logged - AsyncQueueSize => \E k \in 1..Len(Past) : Past[k] = line
      BY ONLY LogOK DEF LogOK, n
    <3>2. PICK m0 \in Int : m0 = logged - n
      BY <1>1 DEF n
    <3>3. \A line \in 1..m0 : line > logged' - AsyncQueueSize => line > logged - AsyncQueueSize
      BY ONLY <1>1, AsyncQueueSize \in Nat \ {0}
    <3>4. QED
      BY ONLY <3>1, <3>2, <3>3
  <2>5. \A k \in 1..Len(Past) : Past[k] <= logged - n
    BY DEF LogOK, n
  <2>6. /\ logged' \in Nat /\ writing' \in Nat /\ written' \in Seq(Lines)
        /\ Ascending(Past')
    BY <1>1, <1>2 DEF LogOK, Lines
  <2>7. Len(queue') = n + 1 /\ logged' - Len(queue') = logged - n
    BY <2>1, <2>3
  <2>8. QED
    BY <1>2, <2>1, <2>2, <2>3, <2>4, <2>5, <2>6, <2>7 DEF LogOK
<1>4. CASE ~(n < AsyncQueueSize)
  <2>0. n = AsyncQueueSize /\ queue # <<>>
    BY <1>1, <1>4, EmptySeq DEF LogOK
  <2>1. /\ Tail(queue) \in Seq(Lines) /\ Len(Tail(queue)) = n - 1
        /\ \A k \in 1..(n - 1) : Tail(queue)[k] = queue[k + 1]
    BY <2>0, HeadTailProperties DEF LogOK
  <2>2. /\ queue' \in Seq(Lines) /\ Len(queue') = n
        /\ \A k \in 1..(n - 1) : queue'[k] = queue[k + 1]
        /\ queue'[n] = logged + 1
    BY <1>1, <1>4, <2>1
  <2> HIDE DEF n
  <2>3. ASSUME NEW k \in 1..n PROVE queue'[k] = logged' - n + k
    <3>1. CASE k = n
      BY <1>1, <2>2, <3>1 DEF n
    <3>2. CASE k # n
      <4>1. k \in 1..(n - 1) /\ k + 1 \in 1..n
        BY <1>1, <3>2 DEF n
      <4>2. queue[k + 1] = logged - n + (k + 1)
        BY <4>1 DEF LogOK, n
      <4>3. QED
        BY <1>1, <2>2, <4>1, <4>2 DEF n
    <3>3. QED
      BY <3>1, <3>2
  <2>4. logged' - n = logged + 1 - n /\ n <= AsyncQueueSize /\ n <= logged'
    BY <1>1, <2>0 DEF LogOK, n
  <2>5. \A line \in 1..(logged' - n) :
          line > logged' - AsyncQueueSize => \E k \in 1..Len(Past) : Past[k] = line
    BY <1>1, <2>0 DEF n
  <2>6. \A k \in 1..Len(Past) : Past[k] <= logged' - n
    <3>1. Len(Past) \in Nat /\ \A k \in 1..Len(Past) : Past[k] \in Nat
      BY PastType
    <3>2. QED
      BY <1>1, <2>4, <3>1 DEF LogOK, n
  <2>7. /\ logged' \in Nat /\ writing' \in Nat /\ written' \in Seq(Lines)
        /\ Ascending(Past')
    BY <1>1, <1>2 DEF LogOK, Lines
  <2>8. QED
    BY <1>2, <2>2, <2>3, <2>4, <2>5, <2>6, <2>7 DEF LogOK
<1>5. QED
  BY <1>3, <1>4

(* The thread of the pool takes the oldest line.                           *)
LEMMA TakeLineKeeps ==
  ASSUME AsyncQueueSize \in Nat \ {0}, LogOK, Logs!TakeLine
  PROVE  LogOK'
<1> DEFINE n == Len(queue)
<1>1. /\ writing = 0 /\ queue # <<>> /\ writing' = Head(queue) /\ queue' = Tail(queue)
      /\ UNCHANGED <<logged, written>> /\ n \in Nat /\ logged \in Nat
      /\ queue \in Seq(Lines) /\ written \in Seq(Lines)
      /\ n <= AsyncQueueSize /\ n <= logged
  BY DEF Logs!TakeLine, LogOK
<1>2. /\ n \in Nat \ {0} /\ Head(queue) = queue[1] /\ Head(queue) \in Lines
      /\ Tail(queue) \in Seq(Lines) /\ Len(Tail(queue)) = n - 1
      /\ \A k \in 1..(n - 1) : Tail(queue)[k] = queue[k + 1]
  BY <1>1, HeadTailProperties, EmptySeq
<1> HIDE DEF n
<1> DEFINE first == Head(queue)
<1>3. first = logged - n + 1 /\ first \in Lines /\ first # 0
  BY <1>1, <1>2 DEF LogOK, n, Lines
<1>4. Past = written /\ Past' = written \o <<first>>
  BY <1>1, <1>3, ConcatEmptySeq DEF Past
<1>5. Past \in Seq(Lines) /\ Past \in Seq(Nat) /\ Len(Past) \in Nat /\ <<first>> \in Seq(Nat)
  BY <1>3, PastType DEF Lines
<1> HIDE DEF first
<1>6. \A k \in 1..Len(Past) : Past[k] \in Nat /\ Past[k] <= logged - n
  BY <1>5 DEF LogOK, n
<1>7. Ascending(Past')
  <2>1. Ascending(<<first>>) /\ Len(<<first>>) = 1 /\ <<first>>[1] = first
    BY DEF Ascending
  <2>2. \A j \in 1..Len(Past), k \in 1..Len(<<first>>) : Past[j] < <<first>>[k]
    BY <1>1, <1>3, <1>6, <2>1
  <2>3. QED
    BY <1>4, <1>5, <2>1, <2>2, AscendingConcat DEF LogOK
<1>8. /\ Len(Past') = Len(Past) + 1 /\ Past'[Len(Past) + 1] = first
      /\ \A k \in 1..Len(Past) : Past'[k] = Past[k]
  BY <1>4, <1>5
<1>9. logged' - Len(queue') = logged - n + 1 /\ Len(queue') = n - 1
  BY <1>1, <1>2
<1>10. ASSUME NEW k \in 1..Len(Past') PROVE Past'[k] <= logged - n + 1
  <2>1. CASE k = Len(Past) + 1
    BY <1>1, <1>3, <1>8, <2>1
  <2>2. CASE k # Len(Past) + 1
    <3>1. k \in 1..Len(Past)
      BY <1>5, <1>8, <2>2
    <3>2. Past'[k] = Past[k] /\ Past[k] \in Nat /\ Past[k] <= logged - n
      BY <1>6, <1>8, <3>1
    <3>3. QED
      BY <1>1, <3>2
  <2>3. QED
    BY <2>1, <2>2
<1>11. ASSUME NEW line \in 1..(logged - n + 1), line > logged - AsyncQueueSize
       PROVE  \E k \in 1..Len(Past') : Past'[k] = line
  <2>1. CASE line = logged - n + 1
    BY <1>3, <1>5, <1>8, <2>1
  <2>2. CASE line # logged - n + 1
    <3>1. line \in 1..(logged - n)
      BY <1>1, <2>2
    <3>2. PICK k \in 1..Len(Past) : Past[k] = line
      BY <1>11, <3>1 DEF LogOK, n
    <3>3. QED
      BY <1>5, <1>8, <3>2
  <2>3. QED
    BY <2>1, <2>2
<1>12. ASSUME NEW k \in 1..(n - 1) PROVE queue'[k] = logged' - (n - 1) + k
  <2>1. k \in Int /\ k + 1 \in 1..n /\ queue'[k] = queue[k + 1]
    BY <1>1, <1>2
  <2>2. queue[k + 1] = logged - n + (k + 1)
    BY <2>1 DEF LogOK, n
  <2>3. logged' = logged /\ logged \in Nat /\ n \in Nat
    BY <1>1
  <2>4. QED
    BY <2>1, <2>2, <2>3
<1>13. /\ logged' \in Nat /\ writing' \in Nat
       /\ queue' \in Seq(Lines) /\ written' \in Seq(Lines)
       /\ Len(queue') <= AsyncQueueSize /\ Len(queue') <= logged'
  BY <1>1, <1>2, <1>9 DEF Lines
<1>14. QED
  BY <1>1, <1>7, <1>9, <1>10, <1>11, <1>12, <1>13 DEF LogOK

(* ... and writes it.                                                      *)
LEMMA WriteLineKeeps ==
  ASSUME LogOK, Logs!WriteLine
  PROVE  LogOK'
<1>1. /\ writing # 0 /\ written' = Append(written, writing) /\ writing' = 0
      /\ UNCHANGED <<logged, queue>> /\ writing \in Lines /\ written \in Seq(Lines)
  BY DEF Logs!WriteLine, LogOK, Lines
<1>2. written' \in Seq(Lines)
  BY <1>1
<1>3. Past = written \o <<writing>> /\ Past' = written'
  BY <1>1, <1>2, ConcatEmptySeq DEF Past
<1>4. Past' = Past
  BY <1>1, <1>3, AppendIsConcat
<1>5. QED
  BY <1>1, <1>2, <1>4 DEF LogOK

(* What has been kept is in order and complete.                            *)
LEMMA KeptFollows ==
  ASSUME AsyncQueueSize \in Nat \ {0}, LogOK, HoldersOK
  PROVE  LogIsKept
<1> DEFINE n == Len(queue)
<1>1. /\ logged \in Nat /\ n \in Nat /\ queue \in Seq(Lines) /\ queue \in Seq(Nat)
      /\ Past \in Seq(Lines) /\ Past \in Seq(Nat)
  <2>1. logged \in Nat /\ n \in Nat /\ queue \in Seq(Lines)
    BY DEF LogOK
  <2>2. queue \in Seq(Nat)
    BY <2>1 DEF Lines
  <2>3. QED
    BY <2>1, <2>2, PastType
<1>2. Logs!Kept = Past \o queue
  BY DEF Past, Logs!Kept
<1>3. /\ Len(Past \o queue) = Len(Past) + n
      /\ \A i \in 1..(Len(Past) + n) :
           (Past \o queue)[i] = IF i <= Len(Past) THEN Past[i] ELSE queue[i - Len(Past)]
      /\ Past \o queue \in Seq(Lines) /\ Len(Past) \in Nat
  BY <1>1, ConcatProperties
<1>4. \A k \in 1..n : queue[k] = logged - n + k
  BY DEF LogOK
<1>5. Ascending(Past \o queue)
  <2>1. Ascending(queue)
    BY <1>1, <1>4 DEF Ascending
  <2>2. ASSUME NEW j \in 1..Len(Past), NEW k \in 1..n PROVE Past[j] < queue[k]
    <3>1. Past[j] \in Nat /\ Past[j] <= logged - n
      BY <1>1 DEF LogOK
    <3>2. QED
      BY <1>1, <1>4, <3>1
  <2>3. QED
    BY <1>1, <2>1, <2>2, AscendingConcat DEF LogOK
<1>6. ASSUME NEW line \in 1..logged, line > logged - AsyncQueueSize
      PROVE  \E i \in 1..Len(Past \o queue) : (Past \o queue)[i] = line
  <2>1. CASE line <= logged - n
    <3>1. line \in 1..(logged - n)
      BY <1>1, <2>1
    <3>2. PICK k \in 1..Len(Past) : Past[k] = line
      <4>1. \A older \in 1..(logged - n) :
              older > logged - AsyncQueueSize => \E k \in 1..Len(Past) : Past[k] = older
        BY ONLY LogOK DEF LogOK
      <4>2. QED
        BY ONLY <1>6, <3>1, <4>1
    <3>3. QED
      BY <1>1, <1>3, <3>2
  <2>2. CASE line > logged - n
    <3>1. line - (logged - n) \in 1..n
      BY <1>1, <2>2
    <3>2. queue[line - (logged - n)] = line
      BY <1>1, <1>4, <3>1
    <3>3. Len(Past) + (line - (logged - n)) \in 1..(Len(Past) + n)
      BY <1>1, <1>3, <3>1
    <3>4. (Past \o queue)[Len(Past) + (line - (logged - n))] = queue[line - (logged - n)]
      BY <1>1, <1>3, <3>1, <3>3
    <3>5. QED
      BY <1>3, <3>2, <3>3, <3>4
  <2>3. QED
    BY <1>1, <2>1, <2>2
<1>7. DOMAIN Logs!Kept = 1..Len(Past \o queue)
  BY <1>2, <1>3
<1> HIDE DEF n
<1>8. QED
  BY <1>2, <1>5, <1>6, <1>7 DEF HoldersOK, LogIsKept, Logs!LogIsKept, Logs!Contains, Ascending

(* No module logs through a logger that is not there, lines come out in    *)
(* the order they were logged in, and a line is lost only to as many newer *)
(* ones as the queue of the thread pool holds: LoggerFactory, the          *)
(* constructors of the modules and spdlog's overrun_oldest, for a queue of *)
(* any size, any modules and any number of lines.                          *)
THEOREM LogKeepsTheLatest ==
  ASSUME AsyncQueueSize \in Nat \ {0}
  PROVE  StandaloneSpec => []LogIsKept
<1>1. StandaloneInit => LogOK /\ HoldersOK
  <2> SUFFICES ASSUME StandaloneInit PROVE LogOK /\ HoldersOK
    OBVIOUS
  <2>1. /\ logged = 0 /\ queue = <<>> /\ writing = 0 /\ written = <<>>
        /\ created = 0 /\ running = "starting" /\ held = <<>>
    BY DEF StandaloneInit, Logs!Init
  <2>2. Past = <<>> /\ <<>> \in Seq(Lines) /\ Len(<<>>) = 0
    BY <2>1, EmptySeq, ConcatEmptySeq DEF Past
  <2>3. LogOK
    BY <2>1, <2>2 DEF LogOK, Ascending
  <2>4. HoldersOK
    BY <2>1 DEF HoldersOK
  <2>5. QED
    BY <2>3, <2>4
<1>2. LogOK /\ HoldersOK /\ [StandaloneNext]_all => LogOK' /\ HoldersOK'
  <2> SUFFICES ASSUME LogOK, HoldersOK, [StandaloneNext]_all
               PROVE  LogOK' /\ HoldersOK'
    OBVIOUS
  <2>0. Logs!Next \/ UNCHANGED logs
    BY DEF StandaloneNext, all
  <2>1. ASSUME UNCHANGED Logs!lines PROVE LogOK'
    BY <2>1 DEF Logs!lines, LogOK, Past
  <2>2. ASSUME UNCHANGED <<registered, created, running, held>> PROVE HoldersOK'
    BY <2>2 DEF HoldersOK
  <2>3. CASE Logs!CreateLogger
    <3>1. HoldersOK'
      BY <2>3 DEF Logs!CreateLogger, HoldersOK, Logs!NoLogger
    <3>2. QED
      BY <2>1, <2>3, <3>1 DEF Logs!CreateLogger
  <2>4. CASE Logs!ReplaceLogger
    <3>1. HoldersOK'
      BY <2>4 DEF Logs!ReplaceLogger, HoldersOK, Logs!NoLogger
    <3>2. QED
      BY <2>1, <2>4, <3>1 DEF Logs!ReplaceLogger
  <2>5. CASE \E m \in Holders : Logs!ConstructModule(m)
    <3>1. HoldersOK'
      BY <2>5 DEF Logs!ConstructModule, HoldersOK
    <3>2. QED
      BY <2>1, <2>5, <3>1 DEF Logs!ConstructModule
  <2>6. CASE \E m \in Holders : Logs!Log(m)
    BY <2>2, <2>6, LogKeeps DEF Logs!Log
  <2>7. CASE Logs!TakeLine
    BY <2>2, <2>7, TakeLineKeeps DEF Logs!TakeLine
  <2>8. CASE Logs!WriteLine
    BY <2>2, <2>8, WriteLineKeeps DEF Logs!WriteLine
  <2>9. CASE UNCHANGED logs
    BY <2>1, <2>2, <2>9 DEF logs, Logs!lines
  <2>10. QED
    BY <2>0, <2>3, <2>4, <2>5, <2>6, <2>7, <2>8, <2>9 DEF Logs!Next
<1>3. LogOK /\ HoldersOK => LogIsKept
  BY KeptFollows
<1>4. QED
  BY <1>1, <1>2, <1>3, PTL DEF StandaloneSpec
-----------------------------------------------------------------------------
Messages == [result : Results, kind : Feeding!Kinds, size : 0..MaxSize]
Pairs == (Nat \ {0}) \X (Nat \ {0})

(* Trade p came in before trade q.                                         *)
Earlier(p, q) == p[1] < q[1] \/ (p[1] = q[1] /\ p[2] < q[2])

IsGood(messages, n, kind) ==
  messages[n].result = "Success" /\ messages[n].kind = kind

(* The numbers in the queues are those of messages received, in order.     *)
FeedOK ==
  /\ feed \in Seq(Messages)
  /\ updates \in Seq(Nat) /\ trades \in Seq(Pairs)
  /\ metrics \in [errors : Nat, updates : Nat]
  /\ metrics.errors + metrics.updates = Len(feed)
  /\ receiving => connected
  /\ \A j \in 1..Len(updates) :
       /\ updates[j] \in 1..Len(feed)
       /\ IsGood(feed, updates[j], "update") /\ feed[updates[j]].size > 0
  /\ \A n \in 1..Len(feed) : IsGood(feed, n, "update") /\ feed[n].size > 0 =>
       \E j \in 1..Len(updates) : updates[j] = n
  /\ \A j, k \in 1..Len(updates) : j < k => updates[j] < updates[k]
  /\ \A j \in 1..Len(trades) :
       /\ trades[j][1] \in 1..Len(feed)
       /\ IsGood(feed, trades[j][1], "trades") /\ trades[j][2] <= feed[trades[j][1]].size
  /\ \A n \in 1..Len(feed), k \in 1..MaxSize : IsGood(feed, n, "trades") /\ k <= feed[n].size =>
       \E j \in 1..Len(trades) : trades[j] = <<n, k>>
  /\ \A j, k \in 1..Len(trades) : j < k => Earlier(trades[j], trades[k])

(* What the parser leaves in the buffer is of this message.                *)
LEMMA ParsedMessage ==
  ASSUME NEW message \in Messages, FeedOK
  PROVE  LET parsed == Feeding!Parsed(message)
         IN  /\ parsed.kind = message.kind
             /\ parsed.kind # "nothing" =>
                  parsed.size = message.size /\ parsed.from = Len(feed) + 1
<1>1. Len(feed) \in Nat
  BY DEF FeedOK
<1>2. CASE message.kind = "nothing"
  BY <1>2 DEF Feeding!Parsed, Feeding!Cleared, Feeding!Nothing
<1>3. CASE message.kind # "nothing"
  BY <1>3 DEF Feeding!Parsed
<1>4. QED
  BY <1>2, <1>3

(* One more message, without what it holds.                                *)
LEMMA OneMore ==
  ASSUME FeedOK, NEW message \in Messages, feed' = Append(feed, message)
  PROVE  /\ feed' \in Seq(Messages) /\ Len(feed) \in Nat /\ Len(feed') = Len(feed) + 1
         /\ \A n \in 1..Len(feed) : feed'[n] = feed[n]
         /\ feed'[Len(feed) + 1] = message
         /\ \A n \in 1..Len(feed) : \A kind : IsGood(feed', n, kind) <=> IsGood(feed, n, kind)
         /\ \A kind : IsGood(feed', Len(feed) + 1, kind)
                       <=> message.result = "Success" /\ message.kind = kind
<1>1. /\ feed' \in Seq(Messages) /\ Len(feed) \in Nat /\ Len(feed') = Len(feed) + 1
      /\ \A n \in 1..Len(feed) : feed'[n] = feed[n]
      /\ feed'[Len(feed) + 1] = message
  BY AppendProperties DEF FeedOK
<1>2. QED
  BY <1>1 DEF IsGood

(* An update is moved out of the buffer.                                   *)
LEMMA UpdatesKept ==
  ASSUME FeedOK, NEW message \in Messages, feed' = Append(feed, message),
         updates' = IF message.result = "Success" /\ message.kind = "update" /\ message.size > 0
                    THEN Append(updates, Len(feed) + 1) ELSE updates
  PROVE  /\ updates' \in Seq(Nat)
         /\ \A j \in 1..Len(updates') :
              /\ updates'[j] \in 1..Len(feed')
              /\ IsGood(feed', updates'[j], "update") /\ feed'[updates'[j]].size > 0
         /\ \A n \in 1..Len(feed') : IsGood(feed', n, "update") /\ feed'[n].size > 0 =>
              \E j \in 1..Len(updates') : updates'[j] = n
         /\ \A j, k \in 1..Len(updates') : j < k => updates'[j] < updates'[k]
<1> DEFINE n == Len(feed)
           u == Len(updates)
           moved == message.result = "Success" /\ message.kind = "update" /\ message.size > 0
<1>1. /\ n \in Nat /\ Len(feed') = n + 1
      /\ \A m \in 1..n : 
           feed'[m] = feed[m] /\ (IsGood(feed', m, "update") <=> IsGood(feed, m, "update"))
      /\ feed'[n + 1] = message
      /\ IsGood(feed', n + 1, "update") <=> message.result = "Success" /\ message.kind = "update"
  BY OneMore
<1>2. /\ updates \in Seq(Nat) /\ u \in Nat
      /\ \A j \in 1..u : updates[j] \in 1..n /\ IsGood(feed, updates[j], "update")
                            /\ feed[updates[j]].size > 0
      /\ \A m \in 1..n : IsGood(feed, m, "update") /\ feed[m].size > 0 =>
           \E j \in 1..u : updates[j] = m
      /\ \A j, k \in 1..u : j < k => updates[j] < updates[k]
  BY DEF FeedOK
<1> HIDE DEF n, u
<1>0. n \in Nat /\ u \in Nat /\ \A m \in 1..n : m \in 1..(n + 1)
  BY <1>1, <1>2
<1>3. CASE moved
  <2>1. /\ updates' \in Seq(Nat) /\ Len(updates') = u + 1
        /\ \A j \in 1..u : updates'[j] = updates[j]
        /\ updates'[u + 1] = n + 1
    BY <1>1, <1>2, <1>3, AppendProperties DEF n, u
  <2>2. ASSUME NEW j \in 1..(u + 1)
        PROVE  /\ updates'[j] \in 1..(n + 1)
               /\ IsGood(feed', updates'[j], "update") /\ feed'[updates'[j]].size > 0
    <3>1. CASE j = u + 1
      BY <1>1, <1>3, <2>1, <3>1
    <3>2. CASE j # u + 1
      <4>1. j \in 1..u
        BY <1>2, <3>2
      <4>2. updates'[j] \in 1..n /\ updates'[j] = updates[j]
        BY <1>2, <2>1, <4>1
      <4>3. IsGood(feed', updates[j], "update") /\ feed'[updates[j]].size > 0
        BY <1>1, <1>2, <4>1, <4>2
      <4>4. updates'[j] \in 1..(n + 1)
        BY <1>0, <4>2
      <4>5. QED
        BY <4>2, <4>3, <4>4
    <3>3. QED
      BY <3>1, <3>2
  <2>3. ASSUME NEW m \in 1..(n + 1), IsGood(feed', m, "update"), feed'[m].size > 0
        PROVE  \E j \in 1..(u + 1) : updates'[j] = m
    <3>1. CASE m = n + 1
      BY <1>2, <2>1, <3>1
    <3>2. CASE m # n + 1
      <4>1. m \in 1..n
        BY <1>1, <3>2
      <4>2. PICK j \in 1..u : updates[j] = m
        BY <1>1, <1>2, <2>3, <4>1
      <4>3. QED
        BY <1>2, <2>1, <4>2
    <3>3. QED
      BY <3>1, <3>2
  <2>4. ASSUME NEW j \in 1..(u + 1), NEW k \in 1..(u + 1), j < k
        PROVE  updates'[j] < updates'[k]
    <3>1. j \in 1..u /\ updates'[j] = updates[j] /\ updates[j] \in 1..n
      BY <1>2, <2>1, <2>4
    <3>2. CASE k = u + 1
      BY <1>1, <2>1, <3>1, <3>2
    <3>3. CASE k # u + 1
      <4>1. k \in 1..u
        BY <1>2, <3>3
      <4>2. QED
        BY <1>2, <2>1, <2>4, <3>1, <4>1
    <3>4. QED
      BY <3>2, <3>3
  <2>5. QED
    BY <1>1, <2>1, <2>2, <2>3, <2>4
<1>4. CASE ~moved
  <2>1. updates' = updates
    BY <1>4
  <2>2. ASSUME NEW m \in 1..(n + 1), IsGood(feed', m, "update"), feed'[m].size > 0
        PROVE  m \in 1..n /\ IsGood(feed, m, "update") /\ feed[m].size > 0
    <3>1. m # n + 1
      BY <1>1, <1>4, <2>2
    <3>2. m \in 1..n
      BY <1>1, <3>1
    <3>3. QED
      BY <1>1, <2>2, <3>2
  <2>3. \A j \in 1..u : updates[j] \in 1..n /\ updates[j] \in 1..(n + 1)
    BY <1>1, <1>2
  <2>4. \A j \in 1..u : IsGood(feed', updates[j], "update") /\ feed'[updates[j]].size > 0
    BY <1>1, <1>2, <2>3
  <2>5. Len(updates') = u
    BY <2>1 DEF u
  <2>6. \A j \in 1..Len(updates') :
          /\ updates'[j] \in 1..Len(feed')
          /\ IsGood(feed', updates'[j], "update") /\ feed'[updates'[j]].size > 0
    BY <1>1, <2>1, <2>3, <2>4, <2>5
  <2>7. \A m \in 1..Len(feed') : IsGood(feed', m, "update") /\ feed'[m].size > 0 =>
          \E j \in 1..Len(updates') : updates'[j] = m
    BY <1>1, <1>2, <2>1, <2>2, <2>5
  <2>8. QED
    BY <1>2, <2>1, <2>5, <2>6, <2>7
<1>5. QED
  BY <1>3, <1>4

(* Trades are copied out of the buffer.                                    *)
LEMMA TradesKept ==
  ASSUME FeedOK, MaxSize \in Nat, NEW message \in Messages, feed' = Append(feed, message),
         trades' = IF message.result = "Success" /\ message.kind = "trades"
                   THEN trades \o [k \in 1..message.size |-> <<Len(feed) + 1, k>>]
                   ELSE trades
  PROVE  /\ trades' \in Seq(Pairs)
         /\ \A j \in 1..Len(trades') :
              /\ trades'[j][1] \in 1..Len(feed')
              /\ IsGood(feed', trades'[j][1], "trades")
              /\ trades'[j][2] <= feed'[trades'[j][1]].size
         /\ \A n \in 1..Len(feed'), k \in 1..MaxSize :
              IsGood(feed', n, "trades") /\ k <= feed'[n].size =>
                \E j \in 1..Len(trades') : trades'[j] = <<n, k>>
         /\ \A j, k \in 1..Len(trades') : j < k => Earlier(trades'[j], trades'[k])
<1> DEFINE n == Len(feed)
           u == Len(trades)
           s == message.size
           copied == message.result = "Success" /\ message.kind = "trades"
           new == [k \in 1..s |-> <<n + 1, k>>]
<1>1. /\ n \in Nat /\ Len(feed') = n + 1
      /\ \A m \in 1..n : 
           feed'[m] = feed[m] /\ (IsGood(feed', m, "trades") <=> IsGood(feed, m, "trades"))
      /\ feed'[n + 1] = message
      /\ IsGood(feed', n + 1, "trades") <=> message.result = "Success" /\ message.kind = "trades"
  BY OneMore
<1>2. /\ trades \in Seq(Pairs) /\ u \in Nat
      /\ \A j \in 1..u : /\ trades[j][1] \in 1..n /\ IsGood(feed, trades[j][1], "trades")
                         /\ trades[j][2] <= feed[trades[j][1]].size
      /\ \A m \in 1..n, k \in 1..MaxSize : IsGood(feed, m, "trades") /\ k <= feed[m].size =>
           \E j \in 1..u : trades[j] = <<m, k>>
      /\ \A j, k \in 1..u : j < k => Earlier(trades[j], trades[k])
      /\ s \in Nat /\ s <= MaxSize
  <2>1. s \in 0..MaxSize
    BY DEF Messages
  <2>2. s \in Nat /\ s <= MaxSize
    BY <2>1
  <2> HIDE DEF s
  <2>3. /\ trades \in Seq(Pairs) /\ u \in Nat
        /\ \A j \in 1..u : /\ trades[j][1] \in 1..n /\ IsGood(feed, trades[j][1], "trades")
                           /\ trades[j][2] <= feed[trades[j][1]].size
    BY DEF FeedOK
  <2>4. /\ \A m \in 1..n, k \in 1..MaxSize : IsGood(feed, m, "trades") /\ k <= feed[m].size =>
             \E j \in 1..u : trades[j] = <<m, k>>
        /\ \A j, k \in 1..u : j < k => Earlier(trades[j], trades[k])
    BY DEF FeedOK
  <2>5. QED
    BY <2>2, <2>3, <2>4
<1>3. \A j \in 1..u : trades[j] \in Pairs
  BY <1>2
<1>4. /\ new \in Seq(Pairs) /\ Len(new) = s
      /\ \A k \in 1..s : new[k] = <<n + 1, k>> /\ new[k][1] = n + 1 /\ new[k][2] = k
  <2> HIDE DEF s, n
  <2>1. new \in [1..s -> Pairs]
    BY <1>1 DEF Pairs
  <2>2. s \in Nat /\ \A k \in 1..s : new[k] = <<n + 1, k>>
    BY <1>2
  <2>3. \A k \in 1..s : new[k][1] = n + 1 /\ new[k][2] = k
    BY <1>2
  <2> HIDE DEF new
  <2>4. new \in Seq(Pairs) /\ Len(new) = s
    BY <2>1, <2>2
  <2>5. QED
    BY <2>2, <2>3, <2>4
<1>5. trades' = IF copied THEN trades \o new ELSE trades
  OBVIOUS
<1> HIDE DEF n, u, s, new, copied
<1>0. /\ n \in Nat /\ u \in Nat /\ s \in Nat /\ \A m \in 1..n : m \in 1..(n + 1)
      /\ \A j \in 1..(u + s) : IF j <= u THEN j \in 1..u ELSE j - u \in 1..s
  <2>1. n \in Nat /\ u \in Nat /\ s \in Nat
    BY <1>1, <1>2
  <2>2. QED
    BY <2>1
<1>6. CASE copied
  <2>1. /\ trades' \in Seq(Pairs) /\ Len(trades') = u + s
        /\ \A j \in 1..(u + s) : trades'[j] = IF j <= u THEN trades[j] ELSE new[j - u]
    <3>1. /\ trades \o new \in Seq(Pairs) /\ Len(trades \o new) = u + Len(new)
          /\ \A j \in 1..(u + Len(new)) :
               (trades \o new)[j] = IF j <= u THEN trades[j] ELSE new[j - u]
      BY <1>2, <1>4, ConcatProperties DEF u
    <3>2. trades' = trades \o new
      BY <1>5, <1>6
    <3>3. Len(new) = s
      BY <1>4
    <3>4. QED
      BY <3>1, <3>2, <3>3
  <2>2. ASSUME NEW j \in 1..(u + s), j <= u PROVE j \in 1..u /\ trades'[j] = trades[j]
    BY <1>0, <2>1, <2>2
  <2>3. ASSUME NEW j \in 1..(u + s), ~(j <= u)
        PROVE  /\ j - u \in 1..s /\ trades'[j] = <<n + 1, j - u>>
               /\ trades'[j][1] = n + 1 /\ trades'[j][2] = j - u
    <3> DEFINE i == j - u
    <3>1. i \in 1..s
      BY <1>0, <2>3
    <3>2. trades'[j] = new[i]
      BY <2>1, <2>3
    <3> HIDE DEF i
    <3>3. new[i] = <<n + 1, i>> /\ new[i][1] = n + 1 /\ new[i][2] = i
      BY <1>4, <3>1
    <3>4. QED
      BY <3>1, <3>2, <3>3 DEF i
  <2>4. ASSUME NEW j \in 1..(u + s)
        PROVE  /\ trades'[j][1] \in 1..(n + 1)
               /\ IsGood(feed', trades'[j][1], "trades")
               /\ trades'[j][2] <= feed'[trades'[j][1]].size
    <3>1. CASE j <= u
      <4>1. /\ trades'[j] = trades[j] /\ trades[j][1] \in 1..n
            /\ IsGood(feed, trades[j][1], "trades")
            /\ trades[j][2] <= feed[trades[j][1]].size
        BY <1>2, <2>2, <3>1
      <4>2. IsGood(feed', trades[j][1], "trades") /\ feed'[trades[j][1]] = feed[trades[j][1]]
        BY <1>1, <4>1
      <4>3. trades[j][1] \in 1..(n + 1)
        BY <1>0, <4>1
      <4>4. QED
        BY <4>1, <4>2, <4>3
    <3>2. CASE ~(j <= u)
      <4>1. trades'[j][1] = n + 1 /\ trades'[j][2] = j - u /\ j - u \in 1..s
        BY <2>3, <3>2
      <4>2. feed'[trades'[j][1]].size = s /\ IsGood(feed', trades'[j][1], "trades")
        BY <1>1, <1>6, <4>1 DEF s, copied
      <4>3. n + 1 \in 1..(n + 1) /\ j - u <= s
        BY <1>0, <4>1
      <4>4. QED
        BY <4>1, <4>2, <4>3
    <3>3. QED
      BY <3>1, <3>2
  <2>5. ASSUME NEW m \in 1..(n + 1), NEW k \in 1..MaxSize,
               IsGood(feed', m, "trades"), k <= feed'[m].size
        PROVE  \E j \in 1..(u + s) : trades'[j] = <<m, k>>
    <3>1. CASE m = n + 1
      <4>1. k \in 1..s
        BY <1>1, <1>2, <2>5, <3>1 DEF s
      <4> DEFINE j == u + k
      <4>3. j \in 1..(u + s) /\ ~(j <= u) /\ j - u = k
        BY <1>0, <4>1
      <4> HIDE DEF j
      <4>4. trades'[j] = <<m, k>>
        BY <2>3, <3>1, <4>3
      <4>5. QED
        BY <4>3, <4>4
    <3>2. CASE m # n + 1
      <4>1. m \in 1..n
        BY <1>1, <3>2
      <4>2. IsGood(feed, m, "trades") /\ k <= feed[m].size
        BY <1>1, <2>5, <4>1
      <4>3. PICK j \in 1..u : trades[j] = <<m, k>>
        BY <1>2, <4>1, <4>2
      <4>4. j \in 1..(u + s) /\ j <= u
        BY <1>2, <4>3
      <4>5. trades'[j] = <<m, k>>
        BY <2>2, <4>3, <4>4
      <4>6. QED
        BY <4>4, <4>5
    <3>3. QED
      BY <3>1, <3>2
  <2>6. ASSUME NEW j \in 1..(u + s), NEW k \in 1..(u + s), j < k
        PROVE  Earlier(trades'[j], trades'[k])
    <3>1. CASE k <= u
      <4>1. j <= u
        BY <1>2, <2>6, <3>1
      <4>2. QED
        BY <1>2, <2>2, <2>6, <3>1, <4>1
    <3>2. CASE j <= u /\ ~(k <= u)
      <4>1. trades'[j][1] \in 1..n /\ trades'[k][1] = n + 1
        BY <1>2, <2>2, <2>3, <3>2
      <4> DEFINE a == trades'[j][1]
                 b == trades'[k][1]
      <4> HIDE DEF a, b
      <4>2. a \in 1..n /\ b = n + 1
        BY <4>1 DEF a, b
      <4>3. a < b
        BY <1>0, <4>2
      <4>4. QED
        BY <4>3 DEF Earlier, a, b
    <3>3. CASE ~(j <= u)
      <4>1. ~(k <= u)
        BY <1>2, <2>6, <3>3
      <4>2. /\ trades'[j][1] = n + 1 /\ trades'[k][1] = n + 1
            /\ trades'[j][2] = j - u /\ trades'[k][2] = k - u
        BY <2>3, <3>3, <4>1
      <4>3. j - u < k - u
        BY <1>2, <2>6
      <4>4. QED
        BY <4>2, <4>3 DEF Earlier
    <3>4. QED
      BY <3>1, <3>2, <3>3
  <2>7. Len(feed') = n + 1 /\ Len(trades') = u + s /\ trades' \in Seq(Pairs)
    BY <1>1, <2>1
  <2>8. QED
    BY <2>4, <2>5, <2>6, <2>7
<1>7. CASE ~copied
  <2>1. trades' = trades /\ Len(trades') = u
    BY <1>5, <1>7 DEF u
  <2>2. ASSUME NEW m \in 1..(n + 1), NEW k, IsGood(feed', m, "trades"), k <= feed'[m].size
        PROVE  m \in 1..n /\ IsGood(feed, m, "trades") /\ k <= feed[m].size
    <3>1. m # n + 1
      BY <1>1, <1>7, <2>2 DEF copied
    <3>2. m \in 1..n
      BY <1>1, <3>1
    <3>3. QED
      BY <1>1, <2>2, <3>2
  <2>3. \A j \in 1..u : trades[j][1] \in 1..n /\ trades[j][1] \in 1..(n + 1)
    BY <1>1, <1>2
  <2>4. \A j \in 1..u :
          /\ IsGood(feed', trades[j][1], "trades")
          /\ trades[j][2] <= feed'[trades[j][1]].size
    BY <1>1, <1>2, <2>3
  <2>5. \A j \in 1..Len(trades') :
          /\ trades'[j][1] \in 1..Len(feed')
          /\ IsGood(feed', trades'[j][1], "trades")
          /\ trades'[j][2] <= feed'[trades'[j][1]].size
    BY <1>1, <2>1, <2>3, <2>4
  <2>6. \A m \in 1..Len(feed'), k \in 1..MaxSize :
          IsGood(feed', m, "trades") /\ k <= feed'[m].size =>
          \E j \in 1..Len(trades') : trades'[j] = <<m, k>>
    BY <1>1, <1>2, <2>1, <2>2
  <2>7. QED
    BY <1>2, <2>1, <2>5, <2>6
<1>8. QED
  BY <1>6, <1>7

(* A message goes where it belongs, or nowhere.                            *)
LEMMA OnMessageKeeps ==
  ASSUME FeedOK, MaxSize \in Nat, NEW message \in Messages, Feeding!OnMessage(message)
  PROVE  FeedOK'
<1>1. /\ feed' = Append(feed, message) /\ UNCHANGED <<connected, receiving>>
      /\ updates' = IF message.result = "Success" /\ message.kind = "update" /\ message.size > 0
                    THEN Append(updates, Len(feed) + 1) ELSE updates
      /\ trades' = IF message.result = "Success" /\ message.kind = "trades"
                   THEN trades \o [k \in 1..message.size |-> <<Len(feed) + 1, k>>]
                   ELSE trades
      /\ metrics' = IF message.result = "Success" THEN [metrics EXCEPT !.updates = @ + 1]
                    ELSE [metrics EXCEPT !.errors = @ + 1]
  BY ParsedMessage DEF Feeding!OnMessage, Feeding!Succeeds, Feeding!source
<1>2. feed' \in Seq(Messages) /\ Len(feed) \in Nat /\ Len(feed') = Len(feed) + 1
  BY <1>1, OneMore
<1>3. /\ metrics' \in [errors : Nat, updates : Nat]
      /\ metrics'.errors + metrics'.updates = Len(feed')
      /\ receiving' => connected'
  <2>1. /\ metrics \in [errors : Nat, updates : Nat]
        /\ metrics.errors + metrics.updates = Len(feed)
        /\ receiving => connected
    BY DEF FeedOK
  <2>2. CASE message.result = "Success"
    <3>1. metrics' = [metrics EXCEPT !.updates = @ + 1]
      BY <1>1, <2>2
    <3>2. /\ metrics' \in [errors : Nat, updates : Nat]
          /\ metrics'.errors + metrics'.updates = metrics.errors + metrics.updates + 1
      BY <2>1, <3>1
    <3>3. QED
      BY <1>1, <1>2, <2>1, <3>2
  <2>3. CASE message.result # "Success"
    <3>1. metrics' = [metrics EXCEPT !.errors = @ + 1]
      BY <1>1, <2>3
    <3>2. /\ metrics' \in [errors : Nat, updates : Nat]
          /\ metrics'.errors + metrics'.updates = metrics.errors + metrics.updates + 1
      BY <2>1, <3>1
    <3>3. QED
      BY <1>1, <1>2, <2>1, <3>2
  <2>4. QED
    BY <2>2, <2>3
<1> HIDE DEF FeedOK
<1>4. /\ updates' \in Seq(Nat)
      /\ \A j \in 1..Len(updates') :
           /\ updates'[j] \in 1..Len(feed')
           /\ IsGood(feed', updates'[j], "update") /\ feed'[updates'[j]].size > 0
      /\ \A n \in 1..Len(feed') : IsGood(feed', n, "update") /\ feed'[n].size > 0 =>
           \E j \in 1..Len(updates') : updates'[j] = n
      /\ \A j, k \in 1..Len(updates') : j < k => updates'[j] < updates'[k]
  BY <1>1, UpdatesKept
<1>5. /\ trades' \in Seq(Pairs)
      /\ \A j \in 1..Len(trades') :
           /\ trades'[j][1] \in 1..Len(feed')
           /\ IsGood(feed', trades'[j][1], "trades")
           /\ trades'[j][2] <= feed'[trades'[j][1]].size
      /\ \A n \in 1..Len(feed'), k \in 1..MaxSize :
           IsGood(feed', n, "trades") /\ k <= feed'[n].size =>
             \E j \in 1..Len(trades') : trades'[j] = <<n, k>>
      /\ \A j, k \in 1..Len(trades') : j < k => Earlier(trades'[j], trades'[k])
  BY <1>1, TradesKept
<1>6. QED
  BY <1>2, <1>3, <1>4, <1>5 DEF FeedOK

(* The property, by the numbers in the queues.                             *)
LEMMA FeedFollows ==
  ASSUME FeedOK, MaxSize \in Nat
  PROVE  MessagesArriveOnce
<1>1. /\ DOMAIN feed = 1..Len(feed) /\ DOMAIN updates = 1..Len(updates)
      /\ DOMAIN trades = 1..Len(trades)
  BY DEF FeedOK
<1>2. Feeding!Range(updates)
        = {n \in DOMAIN feed : feed[n].result = "Success" /\ feed[n].kind = "update"
                                 /\ feed[n].size > 0}
  <2> DEFINE Those == {n \in DOMAIN feed : feed[n].result = "Success"
                         /\ feed[n].kind = "update" /\ feed[n].size > 0}
  <2>1. \A j \in 1..Len(updates) : updates[j] \in Those
    BY <1>1 DEF FeedOK, IsGood
  <2>2. \A n \in Those : \E j \in 1..Len(updates) : updates[j] = n
    BY <1>1 DEF FeedOK, IsGood
  <2> HIDE DEF Those
  <2>3. Feeding!Range(updates) = Those
    BY <1>1, <2>1, <2>2 DEF Feeding!Range
  <2>4. QED
    BY <2>3 DEF Those
<1>3. Feeding!Range(trades)
        = {trade \in (DOMAIN feed) \X (1..MaxSize) :
             feed[trade[1]].result = "Success" /\ feed[trade[1]].kind = "trades"
               /\ trade[2] <= feed[trade[1]].size}
  <2> DEFINE Those == {trade \in (DOMAIN feed) \X (1..MaxSize) :
                         feed[trade[1]].result = "Success" /\ feed[trade[1]].kind = "trades"
                           /\ trade[2] <= feed[trade[1]].size}
  <2>1. ASSUME NEW j \in 1..Len(trades) PROVE trades[j] \in Those
    <3>1. /\ trades[j] \in Pairs /\ trades[j][1] \in 1..Len(feed)
          /\ IsGood(feed, trades[j][1], "trades") /\ trades[j][2] <= feed[trades[j][1]].size
      BY DEF FeedOK
    <3>2. feed[trades[j][1]] \in Messages
      BY <3>1 DEF FeedOK
    <3>3. trades[j][2] \in 1..MaxSize
      BY <3>1, <3>2 DEF Pairs, Messages
    <3>4. trades[j] = <<trades[j][1], trades[j][2]>>
      BY <3>1 DEF Pairs
    <3>5. trades[j] \in (DOMAIN feed) \X (1..MaxSize)
      BY <1>1, <3>1, <3>3, <3>4
    <3>6. QED
      BY <3>1, <3>5 DEF IsGood
  <2>2. ASSUME NEW trade \in Those PROVE \E j \in 1..Len(trades) : trades[j] = trade
    <3>1. PICK n \in 1..Len(feed), k \in 1..MaxSize : trade = <<n, k>>
      BY <1>1
    <3>2. IsGood(feed, n, "trades") /\ k <= feed[n].size
      BY <3>1 DEF IsGood
    <3>3. QED
      BY <3>1, <3>2 DEF FeedOK
  <2> HIDE DEF Those
  <2>3. Feeding!Range(trades) = Those
    BY <1>1, <2>1, <2>2 DEF Feeding!Range
  <2>4. QED
    BY <2>3 DEF Those
<1>4. /\ \A j, k \in DOMAIN updates : j < k => updates[j] < updates[k]
      /\ \A j, k \in DOMAIN trades : j < k =>
           \/ trades[j][1] < trades[k][1]
           \/ trades[j][1] = trades[k][1] /\ trades[j][2] < trades[k][2]
      /\ metrics.errors + metrics.updates = Len(feed)
      /\ receiving => connected
  BY <1>1 DEF FeedOK, Earlier
<1>5. QED
  BY <1>2, <1>3, <1>4 DEF MessagesArriveOnce, Feeding!MessagesArriveOnce

(* Whatever the messages are and however many, what goes into the queues   *)
(* is what those without an error hold, in their order and each once:      *)
(* MarketDataMessageHandler::onMessage and its one buffer.                 *)
THEOREM FeedIsKept ==
  ASSUME MaxSize \in Nat
  PROVE  StandaloneSpec => []MessagesArriveOnce
<1>1. StandaloneInit => FeedOK
  <2> SUFFICES ASSUME StandaloneInit PROVE FeedOK
    OBVIOUS
  <2>1. /\ receiving = FALSE /\ updates = <<>> /\ trades = <<>>
        /\ metrics = [errors |-> 0, updates |-> 0] /\ feed = <<>>
    BY DEF StandaloneInit, Feeding!Init
  <2>2. <<>> \in Seq(Messages) /\ <<>> \in Seq(Nat) /\ <<>> \in Seq(Pairs) /\ Len(<<>>) = 0
    BY EmptySeq
  <2>3. metrics \in [errors : Nat, updates : Nat] /\ metrics.errors + metrics.updates = 0
    BY <2>1
  <2>4. QED
    BY <2>1, <2>2, <2>3 DEF FeedOK
<1>2. FeedOK /\ [StandaloneNext]_all => FeedOK'
  <2> SUFFICES ASSUME FeedOK, [StandaloneNext]_all PROVE FeedOK'
    OBVIOUS
  <2>0. Feeding!Next \/ UNCHANGED feeds
    BY DEF StandaloneNext, all
  <2>1. CASE UNCHANGED feeds
    BY <2>1 DEF feeds, FeedOK
  <2>2. CASE Feeding!Connect \/ Feeding!StartSource \/ Feeding!StopSource
    <3>1. UNCHANGED <<updates, trades, metrics, feed>> /\ (receiving' => connected')
      BY <2>2 DEF Feeding!Connect, Feeding!StartSource, Feeding!StopSource, FeedOK
    <3>2. QED
      BY <3>1 DEF FeedOK
  <2>3. CASE \E result \in Results, kind \in Feeding!Kinds, size \in 0..MaxSize :
               Feeding!OnMessage([result |-> result, kind |-> kind, size |-> size])
    <3>1. PICK result \in Results, kind \in Feeding!Kinds, size \in 0..MaxSize :
            Feeding!OnMessage([result |-> result, kind |-> kind, size |-> size])
      BY <2>3
    <3>2. [result |-> result, kind |-> kind, size |-> size] \in Messages
      BY DEF Messages
    <3>3. QED
      BY <3>1, <3>2, OnMessageKeeps
  <2>4. QED
    BY <2>0, <2>1, <2>2, <2>3 DEF Feeding!Next
<1>3. FeedOK => MessagesArriveOnce
  BY FeedFollows
<1>4. QED
  BY <1>1, <1>2, <1>3, PTL DEF StandaloneSpec
-----------------------------------------------------------------------------
(* The orders there are were sent by a running session, whose              *)
(* configuration does not change any more, and a book that came from       *)
(* nobody is of no instrument.                                             *)
Sound ==
  /\ phase # "running" => sent = {} /\ book = "none"
  /\ book = "nobody" => config.instrument = Session!NoInstrument
  /\ book # "exchange" => sent = {}
  /\ Session!OnlySoundOrdersLeave

(* What the strategy asks for: the other side's best price, in the         *)
(* direction of the heavier side.                                          *)
LEMMA RequestsFollowTheImbalance ==
  ASSUME NEW quote \in Session!Quotes, NEW numerator, NEW denominator,
         NEW instrument, NEW quantity,
         NEW request \in Session!Execute(Session!Evaluate(numerator, denominator, quote),
                                 instrument, quantity, quote)
  PROVE  /\ request.instrument = instrument /\ request.quantity = quantity
         /\ IF request.side = "Buy"
            THEN request.price = quote.bestAsk
                   /\ quote.bestAskQuantity < quote.bestBidQuantity
            ELSE request.price = quote.bestBid
                   /\ quote.bestBidQuantity < quote.bestAskQuantity
<1> DEFINE signal == Session!Evaluate(numerator, denominator, quote)
<1>1. /\ signal # "None"
      /\ request = [instrument |-> instrument, side |-> signal, quantity |-> quantity,
                    price |-> IF signal = "Buy" THEN quote.bestAsk ELSE quote.bestBid]
  BY DEF Session!Execute
<1>2. quote.bestBidQuantity \in Nat /\ quote.bestAskQuantity \in Nat
  BY DEF Session!Quotes
<1>3. IF signal = "Buy"
      THEN quote.bestAskQuantity < quote.bestBidQuantity
      ELSE quote.bestBidQuantity < quote.bestAskQuantity
  BY <1>1, <1>2 DEF Session!Evaluate, Session!Difference
<1> HIDE DEF signal
<1>4. QED
  BY <1>1, <1>3

(* An event that reaches the strategy and what createOrder lets through.   *)
LEMMA OnMarketEventSound ==
  ASSUME Sound, Market \subseteq Session!Quotes, NEW quote \in Market,
         Session!OnMarketEvent(quote)
  PROVE  Sound'
<1> DEFINE signal == Session!Evaluate(config.numerator, config.denominator, quote)
           requests == Session!Execute(signal, config.instrument, config.orderQuantity, quote)
<1>1. /\ phase = "running" /\ UNCHANGED <<file, phase, config, handlers, book>>
      /\ sent' = sent \/ sent' = sent \cup {r \in requests : Session!Accepts(r)}
      /\ book = "exchange" \/ book = "nobody"
  BY DEF Session!OnMarketEvent, Session!Send
<1>2. ASSUME NEW order \in requests, Session!Accepts(order)
      PROVE  /\ order.quantity > 0 /\ order.price > 0
             /\ order.instrument = config.instrument /\ order.instrument # Session!NoInstrument
             /\ IF order.side = "Buy"
                THEN order.price = quote.bestAsk
                       /\ quote.bestAskQuantity < quote.bestBidQuantity
                ELSE order.price = quote.bestBid
                       /\ quote.bestBidQuantity < quote.bestAskQuantity
  <2>1. quote \in Session!Quotes
    OBVIOUS
  <2>2. QED
    BY <1>2, <2>1, RequestsFollowTheImbalance DEF Session!Accepts
<1> HIDE DEF requests
<1>3. \A order \in sent' : order \in sent \/ (order \in requests /\ Session!Accepts(order))
  BY <1>1
<1>4. CASE book = "exchange"
  <2>1. Session!OnlySoundOrdersLeave'
    BY <1>1, <1>2, <1>3, <1>4 DEF Sound, Session!OnlySoundOrdersLeave
  <2>2. QED
    BY <1>1, <1>4, <2>1 DEF Sound
<1>5. CASE book = "nobody"
  <2>1. sent' = {}
    BY <1>2, <1>3, <1>5 DEF Sound
  <2>2. QED
    BY <1>1, <1>5, <2>1 DEF Sound, Session!OnlySoundOrdersLeave
<1>6. QED
  BY <1>1, <1>4, <1>5

(* Whatever the file configures and the market quotes, an order leaves     *)
(* only for something, of the configured instrument, at a quoted price, on *)
(* the side the imbalance speaks for, and on a book of the exchange's:     *)
(* ImbalanceStrategy::evaluate, StrategyExecutor::execute, the checks of   *)
(* OrderManager::createOrder and BookBuilder::applySnapshot.               *)
THEOREM SessionIsSound ==
  ASSUME Market \subseteq Session!Quotes
  PROVE  StandaloneSpec => []OnlySoundOrdersLeave
<1> DEFINE Inv == focus = "session" => Sound
<1>1. StandaloneInit => Inv
  BY DEF StandaloneInit, Session!Init, Sound, Session!OnlySoundOrdersLeave
<1>2. Inv /\ [StandaloneNext]_all => Inv'
  <2> SUFFICES ASSUME Inv, [StandaloneNext]_all, focus' = "session" PROVE Sound'
    OBVIOUS
  <2>0. focus = "session" /\ Sound /\ (Session!Next \/ UNCHANGED session)
    BY DEF StandaloneNext, all
  <2>1. CASE Session!LoadConfig
    BY <2>0, <2>1 DEF Session!LoadConfig, Sound, Session!OnlySoundOrdersLeave
  <2>2. CASE Session!ConstructModules
    BY <2>0, <2>2 DEF Session!ConstructModules, Sound, Session!OnlySoundOrdersLeave
  <2>3. CASE Session!FetchSnapshot
    <3>1. /\ phase = "running" /\ book = "none" /\ sent = {}
          /\ UNCHANGED <<file, phase, config, handlers, sent>>
      BY <2>0, <2>3 DEF Session!FetchSnapshot, Sound
    <3>2. PICK snapshot \in Session!Snapshots :
            book' = IF snapshot.instrument = config.instrument
                    THEN snapshot.from ELSE "given up"
      BY <2>3 DEF Session!FetchSnapshot
    <3>3. \/ snapshot.from = "exchange"
          \/ snapshot.from = "nobody" /\ snapshot.instrument = Session!NoInstrument
      BY DEF Session!Snapshots
    <3>4. book' = "nobody" => config.instrument = Session!NoInstrument
      BY <3>2, <3>3
    <3>5. QED
      BY <3>1, <3>4 DEF Sound, Session!OnlySoundOrdersLeave
  <2>4. CASE \E quote \in Market : Session!OnMarketEvent(quote)
    BY <2>0, <2>4, OnMarketEventSound
  <2>5. CASE UNCHANGED session
    BY <2>0, <2>5 DEF session, Sound, Session!OnlySoundOrdersLeave
  <2>6. QED
    BY <2>0, <2>1, <2>2, <2>3, <2>4, <2>5 DEF Session!Next
<1>3. Inv => OnlySoundOrdersLeave
  BY DEF Sound, OnlySoundOrdersLeave
<1>4. QED
  BY <1>1, <1>2, <1>3, PTL DEF StandaloneSpec
-----------------------------------------------------------------------------
(* What SeqsUpTo has is sequences.                                         *)
LEMMA SeqsUpToAre ==
  ASSUME NEW V, NEW n \in Nat, NEW s \in SeqsUpTo(V, n)
  PROVE  s \in Seq(V)
BY IsSequence DEF SeqsUpTo

(* Every text of the instance is text, and its bytes are bytes.            *)
LEMMA GivenKept == StandaloneInit => TextIsKept /\ BytesAreKept
<1> SUFFICES ASSUME StandaloneInit PROVE TextIsKept /\ BytesAreKept
  OBVIOUS
<1>1. \E C : text \in Seq(C)
  <2>1. CASE text = <<>>
    BY <2>1, EmptySeq
  <2>2. CASE text \in MCTexts
    <3>1. PICK V : text \in SeqsUpTo(V, 4)
      BY <2>2 DEF MCTexts
    <3>2. 4 \in Nat
      OBVIOUS
    <3>3. QED
      BY <3>1, <3>2, SeqsUpToAre
  <2>3. QED
    BY <2>1, <2>2 DEF StandaloneInit
<1>2. bytes \in Seq(0..255)
  <2>1. CASE bytes = <<>>
    BY <2>1, EmptySeq
  <2>2. CASE bytes \in MCBytes
    <3>1. PICK V : V \subseteq 0..255 /\ bytes \in SeqsUpTo(V, 4)
      BY <2>2 DEF MCBytes
    <3>2. 4 \in Nat
      OBVIOUS
    <3>3. bytes \in Seq(V)
      BY <3>1, <3>2, SeqsUpToAre
    <3>4. QED
      BY <3>1, <3>3, OfMore
  <2>3. QED
    BY <2>1, <2>2 DEF StandaloneInit
<1>3. KeepsText(text)
  BY <1>1, AllTextIsKept
<1>4. KeepsBytes(bytes)
  BY <1>2, AllBytesAreKept
<1>5. QED
  BY <1>3, <1>4 DEF TextIsKept, BytesAreKept

(* The functions of StringUtilities.cpp and CSVReader.cpp lose nothing of  *)
(* a text, and those that do the same by different loops agree: of every   *)
(* text of the instance, since of every text there is (AllTextIsKept).     *)
THEOREM TextFunctionsKeep == StandaloneSpec => []TextIsKept
<1>1. TextIsKept /\ [StandaloneNext]_all => TextIsKept'
  BY DEF StandaloneNext, all, given, TextIsKept
<1>2. QED
  BY <1>1, GivenKept, PTL DEF StandaloneSpec

(* What HexConverter.cpp and Base64.cpp write as digits or codes can be    *)
(* read back (AllBytesAreKept: of any number of bytes).                    *)
THEOREM BytesCanBeReadBack == StandaloneSpec => []BytesAreKept
<1>1. BytesAreKept /\ [StandaloneNext]_all => BytesAreKept'
  BY DEF StandaloneNext, all, given, BytesAreKept
<1>2. QED
  BY <1>1, GivenKept, PTL DEF StandaloneSpec
-----------------------------------------------------------------------------
USE CapacityAssumption, MaxValuesAssumption

(* A product of integers that is not zero is not smaller than a factor.    *)
LEMMA NoSmallMultiple ==
  ASSUME NEW q \in Int, Capacity * q > 0
  PROVE  Capacity * q >= Capacity
<1>1. CASE q <= 0
  <2>1. Capacity * q <= 0
    BY <1>1, Z3
  <2>2. QED
    BY <2>1
<1>2. CASE q >= 1
  <2>1. q - 1 \in Nat /\ Capacity \in Nat
    BY <1>2
  <2>2. Capacity * (q - 1) \in Nat
    BY <2>1
  <2>3. Capacity * q = Capacity * (q - 1) + Capacity
    BY Z3
  <2>4. QED
    BY <2>2, <2>3
<1>3. QED
  BY <1>1, <1>2

(* A slot is one of the buffer's.                                          *)
LEMMA SlotType ==
  ASSUME NEW i \in Nat
  PROVE  Slot(i) \in Slots
BY DEF Slot, Slots

(* Two numbers less than the capacity apart fall into different slots.     *)
LEMMA SlotsDiffer ==
  ASSUME NEW i \in Nat, NEW j \in Nat, i < j, j < i + Capacity
  PROVE  Slot(i) # Slot(j)
<1> SUFFICES ASSUME Slot(i) = Slot(j)
             PROVE  FALSE
  OBVIOUS
<1>1. /\ i = Capacity * (i \div Capacity) + (i % Capacity)
      /\ j = Capacity * (j \div Capacity) + (j % Capacity)
      /\ i \div Capacity \in Int /\ j \div Capacity \in Int
      /\ i % Capacity \in Int /\ j % Capacity \in Int
  BY Remainder
<1> DEFINE q == (j \div Capacity) - (i \div Capacity)
<1>2. q \in Int /\ j - i = Capacity * q
  <2>1. Capacity * q = Capacity * (j \div Capacity) - Capacity * (i \div Capacity)
    BY <1>1, Z3
  <2>2. i % Capacity = j % Capacity
    BY DEF Slot
  <2>3. QED
    BY <1>1, <2>1, <2>2
<1>3. Capacity * q > 0
  BY <1>2
<1>4. QED
  BY <1>2, <1>3, NoSmallMultiple
-----------------------------------------------------------------------------
(* Where the threads may be, told by the cursors alone.                    *)
CursorsApart ==
  /\ cachedReadCursor <= readCursor /\ readCursor <= cachedWriteCursor
  /\ cachedWriteCursor <= writeCursor /\ writeCursor <= cachedReadCursor + Capacity
  /\ Writing => Room(cachedReadCursor)
  /\ Reading => readCursor < cachedWriteCursor

(* What was published and not given back is in its slot, unless the        *)
(* consumer has it in hand.                                                *)
SlotsFilled ==
  /\ \A k \in Nat :
       /\ readCursor <= k /\ k < writeCursor
       /\ k # readCursor \/ consumer # "releasing"
       => buffer[Slot(k)] = k + 1
  /\ consumer \in {"clearing", "releasing"} => taken = readCursor + 1
  /\ producer = "publishing" => buffer[Slot(writeCursor)] = writeCursor + 1

Inv == TypeOK /\ CursorsApart /\ SlotsFilled

(* The cursors, as numbers.                                                *)
LEMMA CursorTypes ==
  TypeOK => /\ writeCursor \in Nat /\ cachedReadCursor \in Nat
            /\ readCursor \in Nat /\ cachedWriteCursor \in Nat
BY DEF TypeOK

(* The two threads are never in the same slot.                             *)
LEMMA ApartMeansOwned ==
  ASSUME TypeOK, CursorsApart
  PROVE  SlotsAreOwned
<1>1. ASSUME Writing, Reading
      PROVE  Slot(writeCursor) # Slot(readCursor)
  <2>1. /\ readCursor \in Nat /\ writeCursor \in Nat
        /\ readCursor < writeCursor /\ writeCursor < readCursor + Capacity
    BY <1>1, CursorTypes DEF CursorsApart, Room
  <2>2. QED
    BY <2>1, SlotsDiffer
<1>2. QED
  BY <1>1 DEF CursorsApart, SlotsAreOwned

(* The initial state.                                                      *)
LEMMA InitInv == Init => Inv
<1> SUFFICES ASSUME Init PROVE Inv
  OBVIOUS
<1>1. TypeOK
  BY DEF Init, TypeOK, Garbage
<1>2. CursorsApart
  BY DEF Init, CursorsApart, Writing, Reading, Room
<1>3. SlotsFilled
  BY DEF Init, SlotsFilled
<1>4. QED
  BY <1>1, <1>2, <1>3 DEF Inv

(* Types.                                                                  *)
LEMMA NextTypeOK ==
  ASSUME TypeOK, [Next]_vars
  PROVE  TypeOK'
<1>1. CASE StartPush
  BY <1>1 DEF TypeOK, StartPush, consumerState
<1>2. CASE RefreshRead
  BY <1>2 DEF TypeOK, RefreshRead, consumerState
<1>3. CASE BeginWrite
  BY <1>3 DEF TypeOK, BeginWrite, consumerState, Garbage
<1>4. CASE EndWrite
  <2>1. writeCursor + 1 \in Nat /\ buffer \in [Slots -> Nat]
    BY CursorTypes DEF TypeOK
  <2>2. buffer' \in [Slots -> Nat]
    BY <1>4, <2>1 DEF EndWrite
  <2>3. QED
    BY <1>4, <2>2 DEF TypeOK, EndWrite, consumerState
<1>5. CASE Publish
  BY <1>5 DEF TypeOK, Publish, consumerState
<1>6. CASE StartPop
  BY <1>6 DEF TypeOK, StartPop, producerState
<1>7. CASE RefreshWrite
  BY <1>7 DEF TypeOK, RefreshWrite, producerState
<1>8. CASE Move
  <2>1. buffer[Slot(readCursor)] \in Nat
    BY CursorTypes, SlotType DEF TypeOK
  <2>2. QED
    BY <1>8, <2>1 DEF TypeOK, Move, producerState
<1>9. CASE Clear
  BY <1>9 DEF TypeOK, Clear, producerState, Garbage
<1>10. CASE Release
  BY <1>10 DEF TypeOK, Release, producerState
<1>11. CASE UNCHANGED vars
  BY <1>11 DEF TypeOK, vars, producerState, consumerState
<1>12. QED
  BY <1>1, <1>2, <1>3, <1>4, <1>5, <1>6, <1>7, <1>8, <1>9, <1>10, <1>11
     DEF Next, Produce, Consume

(* No thread goes further than the other allows.                           *)
LEMMA NextApart ==
  ASSUME TypeOK, CursorsApart, [Next]_vars
  PROVE  CursorsApart'
<1> USE CursorTypes DEF CursorsApart, Writing, Reading, Room
<1>1. CASE StartPush
  BY <1>1 DEF StartPush, consumerState
<1>2. CASE RefreshRead
  BY <1>2 DEF RefreshRead, consumerState
<1>3. CASE BeginWrite
  BY <1>3 DEF BeginWrite, consumerState
<1>4. CASE EndWrite
  BY <1>4 DEF EndWrite, consumerState
<1>5. CASE Publish
  BY <1>5 DEF Publish, consumerState
<1>6. CASE StartPop
  BY <1>6 DEF StartPop, producerState
<1>7. CASE RefreshWrite
  BY <1>7 DEF RefreshWrite, producerState
<1>8. CASE Move
  BY <1>8 DEF Move, producerState
<1>9. CASE Clear
  BY <1>9 DEF Clear, producerState
<1>10. CASE Release
  BY <1>10 DEF Release, producerState
<1>11. CASE UNCHANGED vars
  BY <1>11 DEF vars, producerState, consumerState
<1>12. QED
  BY <1>1, <1>2, <1>3, <1>4, <1>5, <1>6, <1>7, <1>8, <1>9, <1>10, <1>11
     DEF Next, Produce, Consume

(* A slot written leaves every other number's slot as it was, among the    *)
(* numbers in use.                                                         *)
LEMMA OtherSlots ==
  ASSUME TypeOK, NEW i \in Nat, NEW k \in Nat, NEW value \in Nat,
         i # k, i < k + Capacity, k < i + Capacity,
         buffer' = [buffer EXCEPT ![Slot(i)] = value]
  PROVE  buffer'[Slot(k)] = buffer[Slot(k)] /\ buffer'[Slot(i)] = value
<1>1. Slot(i) # Slot(k)
  BY SlotsDiffer
<1>2. Slot(i) \in Slots /\ Slot(k) \in Slots /\ buffer \in [Slots -> Nat]
  BY SlotType DEF TypeOK
<1>3. QED
  BY <1>1, <1>2

(* The slots hold what was published.                                      *)
LEMMA NextFilled ==
  ASSUME Inv, [Next]_vars
  PROVE  SlotsFilled'
<1>1. /\ TypeOK /\ CursorsApart /\ SlotsFilled
      /\ writeCursor \in Nat /\ readCursor \in Nat /\ readCursor <= writeCursor
      /\ Capacity \in Nat
  BY CursorTypes DEF Inv, CursorsApart
<1>2. /\ Writing => writeCursor < readCursor + Capacity
      /\ Reading => readCursor < writeCursor
      /\ writeCursor <= readCursor + Capacity
  BY <1>1, CursorTypes DEF CursorsApart, Room
<1>3. CASE StartPush \/ RefreshRead \/ StartPop \/ RefreshWrite \/ UNCHANGED vars
  BY <1>1, <1>3 DEF SlotsFilled, StartPush, RefreshRead, StartPop, RefreshWrite, vars,
                    producerState, consumerState
<1>4. ASSUME NEW value \in Nat,
             buffer' = [buffer EXCEPT ![Slot(writeCursor)] = value], Writing,
             UNCHANGED <<writeCursor, consumerState>>
      PROVE  /\ \A k \in Nat :
                  /\ readCursor <= k /\ k < writeCursor
                  /\ k # readCursor \/ consumer # "releasing"
                  => buffer'[Slot(k)] = k + 1
             /\ buffer'[Slot(writeCursor)] = value
  <2>1. ASSUME NEW k \in Nat, readCursor <= k, k < writeCursor,
               k # readCursor \/ consumer # "releasing"
        PROVE  buffer'[Slot(k)] = k + 1
    <3>1. /\ writeCursor # k /\ writeCursor < k + Capacity
          /\ k < writeCursor + Capacity
      <4>1. writeCursor < readCursor + Capacity
        BY <1>2, <1>4
      <4>2. QED
        BY <1>1, <2>1, <4>1
    <3>2. buffer'[Slot(k)] = buffer[Slot(k)]
      BY <1>1, <1>4, <3>1, OtherSlots
    <3>3. QED
      BY <1>1, <2>1, <3>2 DEF SlotsFilled
  <2>2. Slot(writeCursor) \in Slots /\ buffer \in [Slots -> Nat]
    BY <1>1, SlotType DEF TypeOK
  <2>3. QED
    BY <1>4, <2>1, <2>2
<1>5. CASE BeginWrite
  <2>1. \A k \in Nat :
          /\ readCursor <= k /\ k < writeCursor
          /\ k # readCursor \/ consumer # "releasing"
          => buffer'[Slot(k)] = k + 1
    BY <1>4, <1>5 DEF BeginWrite, Writing, Garbage
  <2>2. QED
    BY <1>1, <1>5, <2>1 DEF SlotsFilled, BeginWrite, consumerState
<1>6. CASE EndWrite
  <2>1. writeCursor + 1 \in Nat
    BY <1>1
  <2>2. /\ \A k \in Nat :
             /\ readCursor <= k /\ k < writeCursor
             /\ k # readCursor \/ consumer # "releasing"
             => buffer'[Slot(k)] = k + 1
        /\ buffer'[Slot(writeCursor)] = writeCursor + 1
    BY <1>4, <1>6, <2>1 DEF EndWrite, Writing
  <2>3. QED
    BY <1>1, <1>6, <2>2 DEF SlotsFilled, EndWrite, consumerState
<1>7. CASE Publish
  <2>1. ASSUME NEW k \in Nat, readCursor <= k, k < writeCursor + 1,
               k # readCursor \/ consumer # "releasing"
        PROVE  buffer[Slot(k)] = k + 1
    <3>1. CASE k = writeCursor
      BY <1>7, <1>1, <3>1 DEF Publish, SlotsFilled
    <3>2. CASE k < writeCursor
      BY <1>1, <2>1, <3>2 DEF SlotsFilled
    <3>3. QED
      BY <1>1, <2>1, <3>1, <3>2
  <2>2. QED
    BY <1>1, <1>7, <2>1 DEF SlotsFilled, Publish, consumerState
<1>8. CASE Move
  <2>1. buffer[Slot(readCursor)] = readCursor + 1
    BY <1>1, <1>2, <1>8 DEF SlotsFilled, Move, Reading
  <2>2. QED
    BY <1>1, <1>8, <2>1 DEF SlotsFilled, Move, producerState
<1>9. CASE Clear
  <2>1. ASSUME NEW k \in Nat, readCursor <= k, k < writeCursor + 1, k # readCursor,
               k = writeCursor => Writing
        PROVE  buffer'[Slot(k)] = buffer[Slot(k)]
    <3>1. k < readCursor + Capacity
      BY <1>1, <1>2, <2>1
    <3>2. readCursor # k /\ readCursor < k + Capacity
      BY <1>1, <2>1
    <3>3. buffer' = [buffer EXCEPT ![Slot(readCursor)] = 0]
      BY <1>9 DEF Clear, Garbage
    <3>4. QED
      BY <1>1, <3>1, <3>2, <3>3, OtherSlots
  <2>2. ASSUME NEW k \in Nat, readCursor <= k, k < writeCursor, k # readCursor
        PROVE  buffer'[Slot(k)] = k + 1
    BY <1>1, <2>1, <2>2 DEF SlotsFilled
  <2>3. producer = "publishing" => buffer'[Slot(writeCursor)] = writeCursor + 1
    BY <1>1, <1>2, <1>9, <2>1 DEF SlotsFilled, Writing, Reading, Clear
  <2>4. QED
    BY <1>1, <1>9, <2>2, <2>3 DEF SlotsFilled, Clear, producerState
<1>10. CASE Release
  <2>1. ASSUME NEW k \in Nat, readCursor + 1 <= k, k < writeCursor
        PROVE  buffer[Slot(k)] = k + 1
    BY <1>1, <2>1 DEF SlotsFilled
  <2>2. QED
    BY <1>1, <1>10, <2>1 DEF SlotsFilled, Release, producerState
<1>11. QED
  BY <1>3, <1>5, <1>6, <1>7, <1>8, <1>9, <1>10 DEF Next, Produce, Consume

(* What emplace, push and pop keep of the ring at each of their steps, for *)
(* every capacity: the types, the order and distance of the cursors, and a *)
(* value in every slot between them.                                       *)
THEOREM RingInvariant == Spec => []Inv
<1>1. Inv /\ [Next]_vars => Inv'
  BY NextTypeOK, NextApart, NextFilled DEF Inv
<1>2. QED
  BY InitInv, <1>1, PTL DEF Spec

(* Every variable always has its type.                                     *)
THEOREM TypeCorrect == Spec => []TypeOK
<1>1. Inv => TypeOK
  BY DEF Inv
<1>2. QED
  BY <1>1, RingInvariant, PTL

(* For every capacity, the producer and the consumer are never in the same *)
(* slot, however old the copies of the cursors are they go by.             *)
THEOREM SlotsNeverShared == Spec => []SlotsAreOwned
<1>1. Inv => SlotsAreOwned
  BY ApartMeansOwned DEF Inv
<1>2. QED
  BY <1>1, RingInvariant, PTL
-----------------------------------------------------------------------------
(* The numbers published and not given back.                               *)
Numbers(r, w) == [k \in 1..(w - r) |-> r + k]

(* They are what the ring holds.                                           *)
LEMMA PendingIsNumbers ==
  ASSUME Inv
  PROVE  Pending = Numbers(readCursor, writeCursor)
<1>1. readCursor \in Nat /\ writeCursor \in Nat
  BY CursorTypes DEF Inv
<1>2. ASSUME NEW k \in 1..(writeCursor - readCursor)
      PROVE  (IF k = 1 /\ consumer \in {"clearing", "releasing"} THEN taken
              ELSE buffer[Slot(readCursor + k - 1)]) = readCursor + k
  <2>1. CASE k = 1 /\ consumer \in {"clearing", "releasing"}
    BY <2>1 DEF Inv, SlotsFilled
  <2>2. CASE ~(k = 1 /\ consumer \in {"clearing", "releasing"})
    <3> DEFINE i == readCursor + k - 1
    <3>1. /\ i \in Nat /\ readCursor <= i /\ i < writeCursor /\ i + 1 = readCursor + k
          /\ i # readCursor \/ consumer # "releasing"
      BY <1>1, <2>2
    <3>2. buffer[Slot(i)] = i + 1
      BY <3>1 DEF Inv, SlotsFilled
    <3>3. QED
      BY <2>2, <3>1, <3>2
  <2>3. QED
    BY <2>1, <2>2
<1>3. QED
  BY <1>2 DEF Pending, Numbers

LEMMA PendingIsNumbersAfter == Inv' => Pending' = Numbers(readCursor', writeCursor')
<1>1. Inv => Pending = Numbers(readCursor, writeCursor)
  BY PendingIsNumbers
<1>2. Inv' => (Pending = Numbers(readCursor, writeCursor))'
  BY <1>1, PTL
<1>3. QED
  BY <1>2 DEF Numbers

(* A sequence is the function of its elements.                             *)
LEMMA ElementsOf ==
  ASSUME NEW s \in Seq(Nat), NEW n \in Nat, Len(s) = n
  PROVE  s = [k \in 1..n |-> s[k]]
OBVIOUS

(* Numbers is a sequence, and how it grows and shrinks.                    *)
LEMMA NumbersGrow ==
  ASSUME NEW r \in Nat, NEW w \in Nat, r <= w
  PROVE  /\ Numbers(r, w) \in Seq(Nat) /\ Len(Numbers(r, w)) = w - r
         /\ Numbers(r, w + 1) = Append(Numbers(r, w), w + 1)
<1>1. Numbers(r, w) \in Seq(Nat) /\ Len(Numbers(r, w)) = w - r
  BY DEF Numbers
<1>2. Append(Numbers(r, w), w + 1) = Numbers(r, w + 1)
  <2> DEFINE a == Append(Numbers(r, w), w + 1)
  <2>1. /\ a \in Seq(Nat) /\ Len(a) = w + 1 - r
        /\ \A k \in 1..(w - r) : a[k] = Numbers(r, w)[k]
        /\ a[w + 1 - r] = w + 1
    BY <1>1
  <2>2. \A k \in 1..(w + 1 - r) : a[k] = r + k
    BY <2>1 DEF Numbers
  <2>3. a = [k \in 1..(w + 1 - r) |-> a[k]]
    <3> HIDE DEF a
    <3>1. w + 1 - r \in Nat
      OBVIOUS
    <3>2. QED
      BY <2>1, <3>1, ElementsOf
  <2>4. QED
    BY <2>2, <2>3 DEF Numbers
<1>3. QED
  BY <1>1, <1>2

LEMMA NumbersShrink ==
  ASSUME NEW r \in Nat, NEW w \in Nat, r < w
  PROVE  /\ Numbers(r, w) # <<>>
         /\ Head(Numbers(r, w)) = r + 1
         /\ Tail(Numbers(r, w)) = Numbers(r + 1, w)
<1>1. Numbers(r, w) \in Seq(Nat) /\ Len(Numbers(r, w)) = w - r
  <2>1. r <= w
    OBVIOUS
  <2>2. QED
    BY <2>1, NumbersGrow
<1>2. Head(Numbers(r, w)) = r + 1
  BY <1>1 DEF Numbers
<1>3. Tail(Numbers(r, w)) = Numbers(r + 1, w)
  <2> DEFINE t == Tail(Numbers(r, w))
  <2>1. /\ t \in Seq(Nat) /\ Len(t) = w - (r + 1)
        /\ \A k \in 1..(w - (r + 1)) : t[k] = Numbers(r, w)[k + 1]
    BY <1>1
  <2>2. \A k \in 1..(w - (r + 1)) : t[k] = (r + 1) + k
    BY <2>1 DEF Numbers
  <2>3. t = [k \in 1..(w - (r + 1)) |-> t[k]]
    <3> HIDE DEF t
    <3>1. w - (r + 1) \in Nat
      OBVIOUS
    <3>2. QED
      BY <2>1, <3>1, ElementsOf
  <2>4. QED
    BY <2>2, <2>3 DEF Numbers
<1>4. QED
  BY <1>1, <1>2, <1>3

(* A step that moves no cursor and returns nothing does nothing to the     *)
(* contract's queue.                                                       *)
LEMMA SilentStep ==
  ASSUME Inv, Inv', UNCHANGED <<writeCursor, readCursor, pushed, popped>>
  PROVE  UNCHANGED Contract!vars
<1>1. Pending' = Numbers(readCursor', writeCursor')
  BY PendingIsNumbersAfter
<1>2. QED
  BY <1>1, PendingIsNumbers DEF Contract!vars

(* Every step of the ring is a step of the queue, or none.                 *)
LEMMA StepImplements ==
  ASSUME Inv, Inv', [Next]_vars
  PROVE  [Contract!Next]_(Contract!vars)
<1> DEFINE r == readCursor
<1> DEFINE w == writeCursor
<1>1. /\ r \in Nat /\ w \in Nat /\ r <= w /\ w <= r + Capacity /\ Capacity \in Nat
      /\ cachedReadCursor \in Nat /\ cachedWriteCursor \in Nat
  BY CursorTypes DEF Inv, CursorsApart
<1>2. Pending = Numbers(r, w) /\ Len(Pending) = w - r /\ Pending \in Seq(Nat)
  BY <1>1, PendingIsNumbers, NumbersGrow
<1>3. Pending' = Numbers(r', w')
  BY PendingIsNumbersAfter
<1>4. CASE \/ StartPush \/ BeginWrite \/ EndWrite \/ StartPop \/ Move \/ Clear
           \/ UNCHANGED vars
  BY <1>4, SilentStep
     DEF StartPush, BeginWrite, EndWrite, StartPop, Move, Clear, vars, producerState,
         consumerState
<1>5. CASE RefreshRead
  <2>1. CASE Room(r)
    BY <1>5, <2>1, SilentStep DEF RefreshRead, consumerState
  <2>2. CASE ~Room(r)
    <3>1. w - r = Capacity
      BY <1>1, <2>2 DEF Room
    <3>2. /\ pushed' = "full" /\ r' = r /\ w' = w /\ popped' = popped
      BY <1>5, <2>2 DEF RefreshRead, consumerState
    <3>3. QED
      BY <1>2, <1>3, <3>1, <3>2 DEF Contract!Next, Contract!Refuse
  <2>3. QED
    BY <2>1, <2>2
<1>6. CASE RefreshWrite
  <2>1. CASE r < w
    BY <1>6, <2>1, SilentStep DEF RefreshWrite, producerState
  <2>2. CASE ~(r < w)
    <3>1. Len(Pending) = 0
      BY <1>1, <1>2, <2>2
    <3>2. Pending = <<>>
      BY <1>2, <3>1
    <3>3. /\ popped' = 0 /\ r' = r /\ w' = w /\ pushed' = pushed
      BY <1>6, <2>2 DEF RefreshWrite, producerState
    <3>4. QED
      BY <1>2, <1>3, <3>2, <3>3 DEF Contract!Next, Contract!FindEmpty
  <2>3. QED
    BY <2>1, <2>2
<1>7. CASE Publish
  <2>1. w - r < Capacity
    BY <1>1, <1>7 DEF Publish, Inv, CursorsApart, Writing, Room
  <2>2. /\ w' = w + 1 /\ r' = r /\ pushed' = "done" /\ popped' = popped
    BY <1>7 DEF Publish, consumerState
  <2>3. Pending' = Append(Pending, w + 1)
    BY <1>1, <1>2, <1>3, <2>2, NumbersGrow
  <2>4. QED
    BY <1>2, <2>1, <2>2, <2>3 DEF Contract!Next, Contract!Push
<1>8. CASE Release
  <2>1. r < w /\ taken = r + 1
    BY <1>1, <1>8 DEF Release, Inv, CursorsApart, SlotsFilled, Reading
  <2>2. /\ r' = r + 1 /\ w' = w /\ pushed' = pushed /\ popped' = taken
    BY <1>8 DEF Release, producerState
  <2>3. Pending # <<>> /\ Head(Pending) = r + 1 /\ Tail(Pending) = Pending'
    BY <1>1, <1>2, <1>3, <2>1, <2>2, NumbersShrink
  <2>4. QED
    BY <2>1, <2>2, <2>3 DEF Contract!Next, Contract!Pop
<1>9. QED
  BY <1>4, <1>5, <1>6, <1>7, <1>8 DEF Next, Produce, Consume

(* The ring starts as the empty queue.                                     *)
LEMMA InitImplements == Init => Contract!Init
<1> SUFFICES ASSUME Init PROVE Contract!Init
  OBVIOUS
<1>1. Inv /\ writeCursor = 0 /\ readCursor = 0 /\ pushed = "none" /\ popped = 0
  BY InitInv DEF Init
<1>2. Pending = Numbers(0, 0)
  BY <1>1, PendingIsNumbers
<1>3. Numbers(0, 0) \in Seq(Nat) /\ Len(Numbers(0, 0)) = 0
  BY NumbersGrow
<1>4. Pending = <<>>
  BY <1>2, <1>3
<1>5. QED
  BY <1>1, <1>4 DEF Contract!Init

(* For every capacity the ring is a bounded queue: what the run checks as  *)
(* ImplementsQueue, without the fairness.                                  *)
THEOREM RingIsAQueue == Spec => Contract!Spec
<1>1. Inv /\ Inv' /\ [Next]_vars => [Contract!Next]_(Contract!vars)
  BY StepImplements
<1>2. QED
  BY InitImplements, <1>1, RingInvariant, PTL DEF Spec, Contract!Spec
=============================================================================
