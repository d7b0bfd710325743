----------------------------- MODULE OrderFlow -----------------------------
(***************************************************************************)
(* What the trading core as a whole promises: market data comes in, and    *)
(* now and then an order goes out because of it.  Updates are numbered as  *)
(* they are received; `sent' holds, for every order sent, the number of    *)
(* the update it follows from.                                             *)
(***************************************************************************)
EXTENDS Naturals, Sequences

VARIABLES received, sent

vars == <<received, sent>>

Init == received = 0 /\ sent = <<>>

Receive == received' = received + 1 /\ UNCHANGED sent

(* At most one order follows from an update, and never one from an older   *)
(* update than the order before.                                           *)
Send ==
  \E n \in 1..received :
    /\ \A k \in DOMAIN sent : sent[k] < n
    /\ sent' = Append(sent, n)
    /\ UNCHANGED received

Next == Receive \/ Send

Spec == Init /\ [][Next]_vars
=============================================================================
