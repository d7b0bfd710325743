--------------------------- MODULE MCBookBuilder ---------------------------
(* A small instance of BookBuilder: one side of the exchange starts with   *)
(* two levels, which is the depth of the run, the other side with one.     *)
EXTENDS BookBuilder

OneMarket ==
  {[s \in BookSides |-> IF s = "Buy" THEN [p \in {1, 2} |-> 1] ELSE [p \in {3} |-> 1]]}
=============================================================================
