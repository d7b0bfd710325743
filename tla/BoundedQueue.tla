---------------------------- MODULE BoundedQueue ----------------------------
(***************************************************************************)
(* What a bounded queue for one producer and one consumer promises: values *)
(* come out in the order they went in, a push is refused exactly when the  *)
(* queue is full and a pop exactly when it is empty.  The n-th value that  *)
(* goes in is n.                                                           *)
(***************************************************************************)
EXTENDS Integers, Sequences

CONSTANT Capacity

VARIABLES
  accepted, \* how many values went in
  queue,    \* the values pushed and not popped yet
  pushed,   \* how the last push ended: "none", "done" or "full"
  popped    \* what the last pop returned: 0 before the first, or if empty

vars == <<accepted, queue, pushed, popped>>

Init == accepted = 0 /\ queue = <<>> /\ pushed = "none" /\ popped = 0

Push ==
  /\ Len(queue) < Capacity
  /\ accepted' = accepted + 1
  /\ queue' = Append(queue, accepted')
  /\ pushed' = "done"
  /\ UNCHANGED popped

Refuse ==
  /\ Len(queue) = Capacity
  /\ pushed' = "full"
  /\ UNCHANGED <<accepted, queue, popped>>

Pop ==
  /\ queue # <<>>
  /\ popped' = Head(queue)
  /\ queue' = Tail(queue)
  /\ UNCHANGED <<accepted, pushed>>

FindEmpty ==
  /\ queue = <<>>
  /\ popped' = 0
  /\ UNCHANGED <<accepted, queue, pushed>>

Next == Push \/ Refuse \/ Pop \/ FindEmpty

Spec == Init /\ [][Next]_vars

(* A consumer that keeps asking gets everything.                           *)
FairSpec == Spec /\ WF_vars(Pop)
=============================================================================
