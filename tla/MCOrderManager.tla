--------------------------- MODULE MCOrderManager ---------------------------
(* Small instances of OrderManager.                                        *)
EXTENDS OrderManager

CONSTANTS btc, eth, none

Request(i, s, p, q) == [instrument |-> i, side |-> s, price |-> p, quantity |-> q]

(* One request of each invalid kind, ...                                   *)
InvalidRequests == {Request(none, "Buy", 1, 1), Request(btc, "Buy", 0, 1),
                    Request(btc, "Sell", 1, 0), Request(btc, "Sell", 1, -1)}

(* ... one whose notional is over the limit, and three the limits admit.   *)
MCRequests ==
  {Request(btc, "Buy", 4, 2), Request(btc, "Buy", 1, 2), Request(btc, "Sell", 2, 1),
   Request(eth, "Sell", 1, 1)} \cup InvalidRequests

(* For the other runs: two requests the limits admit.                      *)
TwoRequests == {Request(btc, "Buy", 1, 2), Request(btc, "Sell", 1, 1)}

(* A notional of 4 raw units refuses a quantity of 2 at a price of 4.      *)
MCLimits == [maxOrderQuantity |-> 2, maxPositionQuantity |-> 2, maxNotional |-> 3]
=============================================================================
