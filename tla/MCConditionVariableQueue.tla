---------------------- MODULE MCConditionVariableQueue ----------------------
(* A small instance of ConditionVariableQueue.                             *)
EXTENDS ConditionVariableQueue

CONSTANTS p1, p2, c1, c2, x1, x2
=============================================================================
