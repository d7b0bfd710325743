-------------------- MODULE ConditionVariableQueueProofs --------------------
(***************************************************************************)
(* Proofs about ConditionVariableQueue for any number of threads: its      *)
(* types, that no wakeup is lost, and that it implements ClosableQueue.    *)
(***************************************************************************)
EXTENDS ConditionVariableQueue, TLAPS, SequenceTheorems

(* What is appended to a sequence of values, and what is left of one after *)
(* its head, is a sequence of values.                                      *)
LEMMA QueueValues ==
  ASSUME NEW S, NEW q \in Seq(S)
  PROVE  /\ \A v \in S : Append(q, v) \in Seq(S) /\ Append(q, v) # <<>>
         /\ q # <<>> => Head(q) \in S /\ Tail(q) \in Seq(S)
<1>1. \A v \in S : Append(q, v) \in Seq(S) /\ Append(q, v) # <<>>
  BY AppendProperties
<1>2. q # <<>> => Head(q) \in S /\ Tail(q) \in Seq(S)
  BY HeadTailProperties
<1>3. QED
  BY <1>1, <1>2

(* No value, no call and every thread ready: the state the queue starts in.*)
LEMMA InitTypeOK == Init => TypeOK
<1> SUFFICES ASSUME Init PROVE TypeOK
  OBVIOUS
<1>1. <<>> \in Seq(Values)
  OBVIOUS
<1>2. 0 \in 0..MaxPushes
  BY MaxPushesAssumption
<1>3. QED
  BY <1>1, <1>2 DEF Init, TypeOK, ThreadStates

(* Every step keeps the types.                                             *)
LEMMA NextTypeOK == TypeOK /\ [Next]_vars => TypeOK'
<1> SUFFICES ASSUME TypeOK, [Next]_vars PROVE TypeOK'
  OBVIOUS
<1> USE DEF TypeOK
<1>1. ASSUME NEW p \in Producers, PushClosed(p) PROVE TypeOK'
  BY <1>1, MaxPushesAssumption DEF PushClosed
<1>2. ASSUME NEW p \in Producers, PushOpen(p) PROVE TypeOK'
  <2>1. pushes'[p] \in 1..MaxPushes /\ pushes' \in [Producers -> 0..MaxPushes]
    BY <1>2, MaxPushesAssumption DEF PushOpen
  <2>2. <<p, pushes'[p]>> \in Values
    BY <2>1 DEF Values
  <2>3. values' \in Seq(Values)
    BY <1>2, <2>2, QueueValues DEF PushOpen
  <2>4. thread' \in [Threads -> ThreadStates]
    BY <1>2 DEF PushOpen, Threads, ThreadStates
  <2>5. QED
    BY <1>2, <2>1, <2>3, <2>4 DEF PushOpen
<1>3. ASSUME NEW p \in Producers, NotifyOne(p) PROVE TypeOK'
  BY <1>3 DEF NotifyOne, Threads, ThreadStates, Blocked
<1>4. ASSUME NEW c \in Consumers, Take(c) PROVE TypeOK'
  <2>1. Head(values) \in Values /\ values' \in Seq(Values)
    BY <1>4, QueueValues DEF Take
  <2>2. taken' \in Seq(Values)
    BY <1>4, <2>1, QueueValues DEF Take
  <2>3. QED
    BY <1>4, <2>1, <2>2 DEF Take
<1>5. ASSUME NEW c \in Consumers, Block(c) \/ Finish(c) \/ SpuriousWakeup(c) PROVE TypeOK'
  BY <1>5 DEF Block, Finish, SpuriousWakeup, Threads, ThreadStates
<1>6. ASSUME NEW t \in Closers, Close(t) \/ NotifyAll(t) PROVE TypeOK'
  BY <1>6 DEF Close, NotifyAll, Threads, ThreadStates
<1>7. CASE UNCHANGED vars
  BY <1>7 DEF vars
<1>8. QED
  BY <1>1, <1>2, <1>3, <1>4, <1>5, <1>6, <1>7 DEF Next

(* The queue and its threads always have their types.                      *)
THEOREM TypeCorrect == Spec => []TypeOK
<1>1. QED
  BY InitTypeOK, NextTypeOK, PTL DEF Spec
-----------------------------------------------------------------------------
(* What makes the three properties of waiting threads inductive together:  *)
(* a thread that is done proves the queue closed and empty, so a thread    *)
(* that is neither blocked nor done is ready to take what comes.           *)
WaitersSafe ==
  /\ NoLostWakeup
  /\ NobodySleepsOnClosed
  /\ DoneMeansDrained
  /\ \A c \in Consumers : thread[c] \in {"ready", "blocked", "done"}
  /\ \A p \in Producers : thread[p] \in {"ready", "notify"}

Awake == TypeOK /\ WaitersSafe

(* Nobody waits at the start.                                              *)
LEMMA InitAwake == Init => Awake
BY InitTypeOK DEF Init, Awake, WaitersSafe, NoLostWakeup, NobodySleepsOnClosed, DoneMeansDrained,
                  Blocked, Threads

(* Every step keeps the waiting threads safe.                              *)
LEMMA NextAwake == Awake /\ [Next]_vars => Awake'
<1> SUFFICES ASSUME Awake, [Next]_vars PROVE Awake'
  OBVIOUS
<1>0. TypeOK /\ TypeOK' /\ WaitersSafe
  BY NextTypeOK DEF Awake
<1> USE <1>0, ThreadsAssumption
    DEF TypeOK, WaitersSafe, NoLostWakeup, NobodySleepsOnClosed, DoneMeansDrained,
        Blocked, Threads
<1>1. ASSUME NEW p \in Producers, PushClosed(p) PROVE WaitersSafe'
  BY <1>1 DEF PushClosed
<1>2. ASSUME NEW p \in Producers, PushOpen(p) PROVE WaitersSafe'
  BY <1>2 DEF PushOpen
<1>3. ASSUME NEW p \in Producers, NotifyOne(p) PROVE WaitersSafe'
  BY <1>3 DEF NotifyOne
<1>4. ASSUME NEW c \in Consumers, Take(c) PROVE WaitersSafe'
  BY <1>4 DEF Take
<1>5. ASSUME NEW c \in Consumers, Block(c) PROVE WaitersSafe'
  BY <1>5 DEF Block
<1>6. ASSUME NEW c \in Consumers, Finish(c) PROVE WaitersSafe'
  BY <1>6 DEF Finish
<1>7. ASSUME NEW c \in Consumers, SpuriousWakeup(c) PROVE WaitersSafe'
  BY <1>7 DEF SpuriousWakeup
<1>8. ASSUME NEW t \in Closers, Close(t) PROVE WaitersSafe'
  BY <1>8 DEF Close
<1>9. ASSUME NEW t \in Closers, NotifyAll(t) PROVE WaitersSafe'
  BY <1>9 DEF NotifyAll
<1>10. ASSUME UNCHANGED vars PROVE WaitersSafe'
  BY <1>10 DEF vars
<1> HIDE DEF TypeOK, WaitersSafe, NoLostWakeup, NobodySleepsOnClosed,
             DoneMeansDrained, Blocked, Threads
<1>11. WaitersSafe'
  BY <1>1, <1>2, <1>3, <1>4, <1>5, <1>6, <1>7, <1>8, <1>9, <1>10 DEF Next
<1>12. QED
  BY <1>11 DEF Awake

(* With any number of threads, at no moment does a value lie in the queue  *)
(* while every thread sleeps, does a thread sleep on a closed queue that   *)
(* nobody will notify, or has a thread left its loop with values behind.   *)
THEOREM NobodySleepsForever == Spec => []NobodyWaitsInVain
<1>1. Awake => NobodyWaitsInVain
  BY DEF Awake, WaitersSafe, NobodyWaitsInVain
<1>2. QED
  BY <1>1, InitAwake, NextAwake, PTL DEF Spec
-----------------------------------------------------------------------------
(* Every step of the queue is a step of the contract or changes nothing    *)
(* the contract speaks of; notifications are such steps.                   *)
LEMMA StepsImplement == TypeOK /\ [Next]_vars => [Contract!Next]_Contract!vars
<1> SUFFICES ASSUME TypeOK, [Next]_vars PROVE [Contract!Next]_Contract!vars
  OBVIOUS
<1>1. ASSUME NEW p \in Producers, PushOpen(p) PROVE Contract!Next
  <2>1. <<p, pushes'[p]>> \in Values
    BY <1>1, MaxPushesAssumption DEF PushOpen, TypeOK, Values
  <2>2. Contract!Push(<<p, pushes'[p]>>)
    BY <1>1 DEF PushOpen, Contract!Push
  <2>3. QED
    BY <2>1, <2>2 DEF Contract!Next
<1>2. ASSUME NEW c \in Consumers, Take(c) PROVE Contract!Next
  BY <1>2 DEF Take, Contract!Pop, Contract!Next
<1>3. ASSUME NEW t \in Closers, Close(t) PROVE Contract!Next
  BY <1>3 DEF Close, Contract!Close, Contract!Next
<1>4. ASSUME \/ \E p \in Producers : PushClosed(p) \/ NotifyOne(p)
             \/ \E c \in Consumers : Block(c) \/ Finish(c) \/ SpuriousWakeup(c)
             \/ \E t \in Closers : NotifyAll(t)
             \/ UNCHANGED vars
      PROVE  UNCHANGED Contract!vars
  BY <1>4 DEF PushClosed, NotifyOne, Block, Finish, SpuriousWakeup, NotifyAll, vars,
              Contract!vars
<1>5. QED
  BY <1>1, <1>2, <1>3, <1>4 DEF Next

(* The queue keeps the contract of ClosableQueue: first in, first out,     *)
(* nothing accepted after close, nothing taken twice.                      *)
THEOREM QueueImplementsContract == Spec => ImplementsContract
<1>1. Init => Contract!Init
  BY DEF Init, Contract!Init
<1>2. QED
  BY <1>1, StepsImplement, TypeCorrect, PTL DEF Spec, ImplementsContract, Contract!Spec
=============================================================================
