------------------------------- MODULE Metrics -------------------------------
(***************************************************************************)
(* The counters of src/trading_core/src/metrics/.  A thread is bound once, *)
(* when it first counts something, to the counters of the processor it     *)
(* runs on then (the thread_local references of the modules); threads of   *)
(* one processor share them, and a thread that moves on keeps its own.     *)
(* Counting takes no lock.  Aggregation reads one counter after the other, *)
(* under the lock that only binding takes too.                             *)
(***************************************************************************)
EXTENDS Integers, Functions

CONSTANTS
  Threads,
  Cpus,           \* a set of numbers, the keys of the map
  LastType,       \* the largest MetricType
  MaxCount        \* bound on what is counted

Types == 0..LastType

VARIABLES
  bound,      \* the processor whose counters each bound thread uses
  counters,   \* MetricsCollector::allMetrics
  stats,      \* what the aggregation under way, or the last one, has added up
  unread,     \* the counters it has still to read
  locked,     \* MetricsCollector::mutex is held by the aggregation
  counted,    \* how often each type has been counted by now ...
  before      \* ... and when the aggregation began

vars == <<bound, counters, stats, unread, locked, counted, before>>

Zero == [type \in Types |-> 0]

Init ==
  /\ bound = <<>>
  /\ counters = <<>>
  /\ stats = Zero /\ unread = {} /\ locked = FALSE
  /\ counted = Zero /\ before = Zero
-----------------------------------------------------------------------------
(* Mutant of Bind: the counters of the processor start again.              *)
MutantStartAgain(thread, cpu) ==
  /\ ~locked
  /\ thread \notin DOMAIN bound
  /\ bound' = [t \in DOMAIN bound \cup {thread} |-> IF t = thread THEN cpu ELSE bound[t]]
  /\ counters' = [c \in DOMAIN counters \cup {cpu} |-> IF c = cpu THEN Zero ELSE counters[c]]
  /\ UNCHANGED <<stats, unread, locked, counted, before>>

(* MetricsCollector::getThreadLocalMetrics, for a thread's first count.    *)
Bind(thread, cpu) ==
  /\ ~locked
  /\ thread \notin DOMAIN bound
  /\ bound' = [t \in DOMAIN bound \cup {thread} |-> IF t = thread THEN cpu ELSE bound[t]]
  /\ counters' = [c \in DOMAIN counters \cup {cpu} |->
                    IF c \in DOMAIN counters THEN counters[c] ELSE Zero]
  /\ UNCHANGED <<stats, unread, locked, counted, before>>

(* Metrics::increment, one atomic addition.                                *)
Increment(thread, type) ==
  /\ thread \in DOMAIN bound
  /\ counted[type] < MaxCount
  /\ counters' = [counters EXCEPT ![bound[thread]][type] = @ + 1]
  /\ counted' = [counted EXCEPT ![type] = @ + 1]
  /\ UNCHANGED <<bound, stats, unread, locked, before>>

(* MetricsCollector::aggregate takes the lock, ...                         *)
BeginAggregate ==
  /\ ~locked
  /\ locked' = TRUE
  /\ stats' = Zero
  /\ unread' = (DOMAIN counters) \X Types
  /\ before' = counted
  /\ UNCHANGED <<bound, counters, counted>>

(* ... reads the counters of one processor after the other, Metrics::      *)
(* operator+= one type after the other, ...                                *)
ReadCounter ==
  /\ locked
  /\ \E cpu \in Cpus, type \in Types :
       /\ <<cpu, type>> \in unread
       /\ \A next \in unread : cpu < next[1] \/ (cpu = next[1] /\ type <= next[2])
       /\ stats' = [stats EXCEPT ![type] = @ + counters[cpu][type]]
       /\ unread' = unread \ {<<cpu, type>>}
  /\ UNCHANGED <<bound, counters, locked, counted, before>>

(* ... and releases it.                                                    *)
EndAggregate ==
  /\ locked
  /\ unread = {}
  /\ locked' = FALSE
  /\ UNCHANGED <<bound, counters, stats, unread, counted, before>>

Next ==
  \/ \E thread \in Threads, cpu \in Cpus : Bind(thread, cpu)
  \/ \E thread \in Threads, type \in Types : Increment(thread, type)
  \/ BeginAggregate
  \/ ReadCounter
  \/ EndAggregate

Spec == Init /\ [][Next]_vars
-----------------------------------------------------------------------------
(* What all processors together have counted of a type.                    *)
Total(type) == SumFunction([cpu \in DOMAIN counters |-> counters[cpu][type]])

(* Nothing counted is lost, however many threads share a processor's       *)
(* counters, and an aggregation, although the threads go on counting while *)
(* it reads, finds of every type at least what was counted when it began   *)
(* and at most what was when it ended.                                     *)
CountsAddUp ==
  \A type \in Types :
    /\ Total(type) = counted[type]
    /\ stats[type] <= counted[type]
    /\ locked /\ unread = {} => before[type] <= stats[type]
=============================================================================
