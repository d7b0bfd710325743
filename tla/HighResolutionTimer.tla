------------------------- MODULE HighResolutionTimer -------------------------
(***************************************************************************)
(* HighResolutionTimer (src/trading_core/src/metrics/hugh_resolution_      *)
(* timer.hpp): intervals measured with the processor's counter of ticks,   *)
(* whose rate the first call finds out by counting while it sleeps.  The   *)
(* two clocks are read one after the other, and a thread may be held up    *)
(* between any two reads; the rate is kept in a variable without a lock,   *)
(* so threads that find it 0 all measure it, and the last one's stays.     *)
(*                                                                         *)
(* The time is the number of nanoseconds that the steady clock shows.      *)
(***************************************************************************)
EXTENDS Integers, Sequences

CONSTANTS
  WordRange,             \* 2^64, the values of uint64_t
  Second,                \* nanoseconds in a second, 10^9
  Calibration,           \* the 100 ms that get_tsc_frequency sleeps, in nanoseconds
  RateTicks, RateNanos,  \* the counter makes so many ticks in so many nanoseconds
  Origins,               \* what the counter may have shown at time 0, in RateNanos-th ticks
  Callers,               \* the threads that call get_tsc_frequency
  MaxTime                \* bound on the time

VARIABLES
  time,        \* the time that has passed
  origin,      \* what the counter showed at time 0
  frequency,   \* tsc_frequency_, 0 as long as nothing was measured
  reads,       \* per caller, when it has read its clocks so far
  calibrated   \* history: when the clocks were read that frequency is of

vars == <<time, origin, frequency, reads, calibrated>>

Word(n) == n % WordRange

(* __rdtsc at t: whole ticks only, and the word wraps around.              *)
Rdtsc(t) == Word((origin + t * RateTicks) \div RateNanos)

Since(from, to) == Word(Rdtsc(to) - Rdtsc(from))

(* Mutant of Frequency: the sleep is taken to last as long as it should.   *)
MutantNominal(t) == Word(Since(t[2], t[4]) * Second) \div Calibration

(* The ticks a second, from clocks read at t[1], ..., t[4]: steady clock   *)
(* and counter before the sleep, and again behind it.                      *)
Frequency(t) == Word(Since(t[2], t[4]) * Second) \div (t[3] - t[1])

(* elapsed_ns of the counter read at two times.                            *)
ElapsedNs(from, to) == Word(Since(from, to) * Second) \div frequency

Init ==
  /\ time = 0 /\ frequency = 0 /\ calibrated = <<>>
  /\ origin \in Origins
  /\ reads = [c \in Callers |-> <<>>]

(* Time passes, whatever the callers are at.                               *)
Tick ==
  /\ time < MaxTime
  /\ time' = time + 1
  /\ UNCHANGED <<origin, frequency, reads, calibrated>>

Read(c) ==
  /\ reads' = [reads EXCEPT ![c] = Append(@, time)]
  /\ UNCHANGED <<time, origin, frequency, calibrated>>

(* A call that finds no frequency reads the steady clock ...               *)
GetTscFrequency(c) == reads[c] = <<>> /\ frequency = 0 /\ Read(c)

(* ... then the counter, and goes to sleep, ...                            *)
StartTicks(c) == Len(reads[c]) = 1 /\ Read(c)

(* ... reads the steady clock again, no earlier than it should wake, ...   *)
WakeUp(c) == Len(reads[c]) = 2 /\ time >= reads[c][2] + Calibration /\ Read(c)

(* ... and the counter, and keeps what it makes of the four.               *)
EndTicks(c) ==
  /\ Len(reads[c]) = 3
  /\ calibrated' = Append(reads[c], time)
  /\ frequency' = Frequency(calibrated')
  /\ reads' = [reads EXCEPT ![c] = <<>>]
  /\ UNCHANGED <<time, origin>>

Next ==
  \/ Tick
  \/ \E c \in Callers : GetTscFrequency(c) \/ StartTicks(c) \/ WakeUp(c) \/ EndTicks(c)

Spec == Init /\ [][Next]_vars
-----------------------------------------------------------------------------
Distance(x, y) == IF x < y THEN y - x ELSE x - y

(* The ticks of an interval and one more, counted per second, fit a word;  *)
(* with 10^9 nanoseconds to a second and 3 ticks each, up to 6 seconds do. *)
ProductFits(interval) ==
  (interval * RateTicks + RateNanos) * Second <= WordRange * RateNanos

(* However long a caller was held up between its reads, and whichever of   *)
(* several callers stored its result last: the frequency differs from the  *)
(* true one by less than the ticks of the time by which the counter was    *)
(* read over a longer or shorter interval than the clock, and one more, in *)
(* each interval of the clock's length, and by what the division drops.    *)
(* What elapsed_ns says of any interval is, at that frequency, what the    *)
(* counter really made in it, up to one tick and the nanosecond the        *)
(* division drops; for a rate that is no whole number of ticks as well.    *)
(* Both hold although the counter may wrap around between the reads, as    *)
(* long as the product computed on the way fits its word.                  *)
TimerIsAccurate ==
  /\ calibrated # <<>> =>
       LET clock   == calibrated[3] - calibrated[1]
           counter == calibrated[4] - calibrated[2]
       IN  ProductFits(counter) =>
             Distance(frequency * RateNanos, RateTicks * Second) * clock
               < (Distance(counter, clock) * RateTicks + RateNanos) * Second
                 + RateNanos * clock
  /\ \A from \in 0..time : \A to \in from..time :
       frequency # 0 /\ ProductFits(to - from) =>
         LET said  == ElapsedNs(from, to) * frequency * RateNanos
             ticks == (to - from) * RateTicks * Second
         IN  /\ said < ticks + RateNanos * Second
             /\ ticks < said + (frequency + Second) * RateNanos
=============================================================================
