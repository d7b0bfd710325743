----------------------- MODULE ConditionVariableQueue -----------------------
(***************************************************************************)
(* ConditionVariableQueue (src/trading_core/src/common/                    *)
(* condition_variable_queue.hpp), used by threads that push, threads that  *)
(* loop on waitPop as every module of the pipeline does, and threads that  *)
(* close.  What a call does while it holds the mutex is one step; the      *)
(* notification comes after the mutex is released and is a step of its     *)
(* own, and any other thread may act in between.                           *)
(***************************************************************************)
EXTENDS Integers, Sequences, FiniteSets

CONSTANTS
  Producers,   \* threads that push
  Consumers,   \* threads that loop on waitPop
  Closers,     \* threads that call close
  MaxPushes    \* bound on the calls of push of one producer

ASSUME ThreadsAssumption ==
  /\ Producers \cap Consumers = {}
  /\ Producers \cap Closers = {}
  /\ Consumers \cap Closers = {}
ASSUME MaxPushesAssumption == MaxPushes \in Nat

VARIABLES
  values,   \* the deque
  closed,
  thread,   \* where each thread is
  pushes,   \* calls of push so far, per producer
  taken     \* history: what waitPop handed out, in order

vars == <<values, closed, thread, pushes, taken>>

Threads == Producers \cup Consumers \cup Closers
Values == Producers \X (1..MaxPushes)

(* "ready" is about to call, or to look at the predicate again; "blocked"  *)
(* waits on the condition variable; "done" has left its waitPop loop.      *)
ThreadStates == {"ready", "notify", "notifyAll", "blocked", "done"}

Blocked == {c \in Consumers : thread[c] = "blocked"}

Init ==
  /\ values = <<>>
  /\ closed = FALSE
  /\ thread = [t \in Threads |-> "ready"]
  /\ pushes = [p \in Producers |-> 0]
  /\ taken = <<>>
-----------------------------------------------------------------------------
(* Mutant of PushOpen: a push to an empty queue does not notify.           *)
MutantNoNotify(p) ==
  /\ thread[p] = "ready"
  /\ pushes[p] < MaxPushes
  /\ pushes' = [pushes EXCEPT ![p] = @ + 1]
  /\ ~closed
  /\ values' = Append(values, <<p, pushes'[p]>>)
  /\ thread' = [thread EXCEPT ![p] = IF values = <<>> THEN "ready" ELSE "notify"]
  /\ UNCHANGED <<closed, taken>>

(* push: a closed queue drops the value; ...                               *)
PushClosed(p) ==
  /\ thread[p] = "ready"
  /\ pushes[p] < MaxPushes
  /\ pushes' = [pushes EXCEPT ![p] = @ + 1]
  /\ closed
  /\ UNCHANGED <<values, closed, thread, taken>>

(* ... an open one stores it, and one waiting thread is notified later.    *)
PushOpen(p) ==
  /\ thread[p] = "ready"
  /\ pushes[p] < MaxPushes
  /\ pushes' = [pushes EXCEPT ![p] = @ + 1]
  /\ ~closed
  /\ values' = Append(values, <<p, pushes'[p]>>)
  /\ thread' = [thread EXCEPT ![p] = "notify"]
  /\ UNCHANGED <<closed, taken>>

(* notify_one wakes any one of the threads that wait, or is lost.          *)
NotifyOne(p) ==
  /\ thread[p] = "notify"
  /\ IF Blocked = {}
     THEN thread' = [thread EXCEPT ![p] = "ready"]
     ELSE \E c \in Blocked : thread' = [thread EXCEPT ![p] = "ready", ![c] = "ready"]
  /\ UNCHANGED <<values, closed, pushes, taken>>

(* Mutant of Finish: a closed queue ends the loop, whatever it holds.      *)
MutantFinishEarly(c) ==
  /\ thread[c] = "ready"
  /\ closed
  /\ thread' = [thread EXCEPT ![c] = "done"]
  /\ UNCHANGED <<values, closed, pushes, taken>>

(* waitPop of a queue that holds a value, closed or not; tryPop does the   *)
(* same.                                                                   *)
Take(c) ==
  /\ thread[c] = "ready"
  /\ values # <<>>
  /\ values' = Tail(values)
  /\ taken' = Append(taken, Head(values))
  /\ UNCHANGED <<closed, thread, pushes>>

(* waitPop of an empty queue blocks ...                                    *)
Block(c) ==
  /\ thread[c] = "ready"
  /\ values = <<>>
  /\ ~closed
  /\ thread' = [thread EXCEPT ![c] = "blocked"]
  /\ UNCHANGED <<values, closed, pushes, taken>>

(* ... or, if it is closed, returns false and ends the caller's loop.      *)
Finish(c) ==
  /\ thread[c] = "ready"
  /\ values = <<>>
  /\ closed
  /\ thread' = [thread EXCEPT ![c] = "done"]
  /\ UNCHANGED <<values, closed, pushes, taken>>

(* A condition variable may wake a thread for no reason.                   *)
SpuriousWakeup(c) ==
  /\ thread[c] = "blocked"
  /\ thread' = [thread EXCEPT ![c] = "ready"]
  /\ UNCHANGED <<values, closed, pushes, taken>>

(* close, and then notify_all.                                             *)
Close(t) ==
  /\ thread[t] = "ready"
  /\ closed' = TRUE
  /\ thread' = [thread EXCEPT ![t] = "notifyAll"]
  /\ UNCHANGED <<values, pushes, taken>>

(* Mutant of NotifyAll: one thread is woken.                               *)
MutantNotifyOneOnly(t) ==
  /\ thread[t] = "notifyAll"
  /\ IF Blocked = {}
     THEN thread' = [thread EXCEPT ![t] = "done"]
     ELSE \E c \in Blocked : thread' = [thread EXCEPT ![t] = "done", ![c] = "ready"]
  /\ UNCHANGED <<values, closed, pushes, taken>>

NotifyAll(t) ==
  /\ thread[t] = "notifyAll"
  /\ thread' = [u \in Threads |-> IF u = t THEN "done"
                                  ELSE IF u \in Blocked THEN "ready" ELSE thread[u]]
  /\ UNCHANGED <<values, closed, pushes, taken>>

Next ==
  \/ \E p \in Producers : PushClosed(p) \/ PushOpen(p) \/ NotifyOne(p)
  \/ \E c \in Consumers : Take(c) \/ Block(c) \/ Finish(c) \/ SpuriousWakeup(c)
  \/ \E t \in Closers : Close(t) \/ NotifyAll(t)

Spec == Init /\ [][Next]_vars

(* Every thread runs; nobody has to push, to close or to wake up for no    *)
(* reason.                                                                 *)
Fairness ==
  /\ \A p \in Producers : WF_vars(NotifyOne(p))
  /\ \A c \in Consumers : WF_vars(Take(c) \/ Block(c) \/ Finish(c))
  /\ \A t \in Closers : WF_vars(NotifyAll(t))

FairSpec == Spec /\ Fairness
-----------------------------------------------------------------------------
(* The type invariant.                                                     *)
TypeOK ==
  /\ values \in Seq(Values)
  /\ closed \in BOOLEAN
  /\ thread \in [Threads -> ThreadStates]
  /\ pushes \in [Producers -> 0..MaxPushes]
  /\ taken \in Seq(Values)

(* No wakeup is lost: a value that lies in the queue while threads wait    *)
(* for one has a thread awake to take it, or a notification under way --   *)
(* although notify_one is called without the mutex, any number of steps    *)
(* after the push, and is lost when nobody waits at that moment.           *)
NoLostWakeup ==
  (values # <<>> /\ Blocked # {}) =>
    \/ \E c \in Consumers : thread[c] = "ready"
    \/ \E p \in Producers : thread[p] = "notify"

(* No thread waits on a closed queue unless its wakeup is under way.       *)
NobodySleepsOnClosed ==
  (closed /\ Blocked # {}) => \E t \in Closers : thread[t] = "notifyAll"

(* A thread that has left its loop left nothing behind, and nothing comes  *)
(* after it: what was accepted before close is handled before the module   *)
(* ends.                                                                   *)
DoneMeansDrained ==
  (\E c \in Consumers : thread[c] = "done") => closed /\ values = <<>>

(* At no moment is a thread left waiting for what has come already, nor    *)
(* has one stopped waiting for what is still there.                        *)
NobodyWaitsInVain == NoLostWakeup /\ NobodySleepsOnClosed /\ DoneMeansDrained

(* The contract of the queue.                                              *)
Contract == INSTANCE ClosableQueue WITH contents <- values

ImplementsContract == Contract!Spec

(* The contract with its promise that what was accepted is taken.          *)
ImplementsFairContract == Contract!FairSpec

(* After close every thread that loops on waitPop ends.                    *)
ConsumersEnd == closed ~> \A c \in Consumers : thread[c] = "done"
=============================================================================
