--------------------------- MODULE ClosableQueue ---------------------------
(***************************************************************************)
(* What a queue between two threads of the pipeline promises (the Queue    *)
(* interface of src/trading_core/src/common/queue.hpp, as its only         *)
(* implementation and all its users read it): values leave in the order    *)
(* they were accepted, each once; a closed queue accepts nothing more and  *)
(* stays closed, but still hands out what it holds; and what was accepted  *)
(* is taken, as long as there are threads that take.                       *)
(***************************************************************************)
EXTENDS Sequences

CONSTANT Values

VARIABLES contents, closed, taken   \* taken: what was handed out, in order

vars == <<contents, closed, taken>>

Init ==
  /\ contents = <<>>
  /\ closed = FALSE
  /\ taken = <<>>

Push(value) ==
  /\ ~closed
  /\ contents' = Append(contents, value)
  /\ UNCHANGED <<closed, taken>>

Pop ==
  /\ contents # <<>>
  /\ contents' = Tail(contents)
  /\ taken' = Append(taken, Head(contents))
  /\ UNCHANGED closed

Close ==
  /\ closed' = TRUE
  /\ UNCHANGED <<contents, taken>>

Next == (\E v \in Values : Push(v)) \/ Pop \/ Close

Spec == Init /\ [][Next]_vars

FairSpec == Spec /\ WF_vars(Pop)
=============================================================================
