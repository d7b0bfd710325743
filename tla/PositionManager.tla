-------------------------- MODULE PositionManager --------------------------
(***************************************************************************)
(* PositionManager (src/trading_core/src/position/position_manager.cpp):   *)
(* one position per instrument, moved by executions.  An instrument the    *)
(* map does not hold yet reads as Flat, which is what getOrDefault returns *)
(* for it and what try_emplace creates.                                    *)
(*                                                                         *)
(* `trades' is a history variable: every execution the manager accepted,   *)
(* in order, against which the position kept in O(1) state is judged.      *)
(***************************************************************************)
EXTENDS Position, Sequences, Functions

CONSTANTS
  Instruments,   \* the instruments traded
  Prices,        \* execution prices
  Quantities,    \* quantities a caller passes, refused ones included
  MaxTrades      \* bound on the accepted executions of one behaviour

ASSUME PricesAssumption == Prices \subseteq Nat \ {0}
ASSUME QuantitiesAssumption == Quantities \subseteq Int
ASSUME MaxTradesAssumption == MaxTrades \in Nat

VARIABLES positions, trades

vars == <<positions, trades>>

ExecTypes == {"New", "Trade", "Cancel", "Reject"}

Init ==
  /\ positions = [i \in Instruments |-> Flat]
  /\ trades = <<>>

(* The position of the instrument is found, or created flat, and moved.    *)
Execute(instrument, side, price, quantity) ==
  /\ positions' = [positions EXCEPT
                     ![instrument] = ApplyTrade(@, side, price, quantity)]
  /\ trades' = Append(trades, [instrument |-> instrument, side |-> side,
                               price |-> price, quantity |-> quantity])

(* PositionManager::applyTrade; a quantity that is not positive is refused *)
(* and leaves everything as it was.                                        *)
OnTrade(instrument, side, price, quantity) ==
  /\ quantity > 0
  /\ Execute(instrument, side, price, quantity)

(* PositionManager::applyExecution: the same for a report, if it reports a *)
(* trade; the quantity is that of this execution alone.                    *)
OnExecution(execType, instrument, side, price, quantity) ==
  /\ execType = "Trade"
  /\ quantity > 0
  /\ Execute(instrument, side, price, quantity)

Next ==
  /\ Len(trades) < MaxTrades
  /\ \E i \in Instruments, s \in Sides, p \in Prices, q \in Quantities :
       \/ OnTrade(i, s, p, q)
       \/ \E t \in ExecTypes : OnExecution(t, i, s, p, q)

Spec == Init /\ [][Next]_vars
-----------------------------------------------------------------------------
(* The reference the properties compare with: the net quantity after the   *)
(* first n executions, and the executions that built the open position --  *)
(* those since the net quantity was last zero or changed sign, on the      *)
(* side the position is on.                                                *)
NetQuantity(i, n) ==
  SumFunction([k \in 1..n |-> IF trades[k].instrument = i
                              THEN Signed(trades[k].side, trades[k].quantity)
                              ELSE 0])

OnOneSide(i, from, to) ==
  \A k \in from..to :
    /\ NetQuantity(i, k) # 0
    /\ SameDirection(NetQuantity(i, k), NetQuantity(i, to))

EntryTrades(i) ==
  {k \in 1..Len(trades) :
     /\ trades[k].instrument = i
     /\ OnOneSide(i, k, Len(trades))
     /\ (trades[k].side = "Buy") = (NetQuantity(i, Len(trades)) > 0)}

(* The position is the signed sum of all the executions accepted, whatever *)
(* sequence of opening, adding, reducing, closing and reversing trades     *)
(* produced it: "currentQuantity reflects the executed trade".             *)
PositionIsNetQuantity ==
  \A i \in Instruments : positions[i].quantity = NetQuantity(i, Len(trades))

(* The average entry price of an open position lies between the cheapest   *)
(* and the dearest trade that entered it: neither a price paid before the  *)
(* position was last closed or reversed, nor a price of a reducing trade,  *)
(* leaks into it, and truncation never takes it out of that range.         *)
AverageWithinEntryPrices ==
  \A i \in Instruments :
    positions[i].quantity # 0 =>
      /\ \E k \in EntryTrades(i) : trades[k].price <= positions[i].averagePrice
      /\ \E k \in EntryTrades(i) : trades[k].price >= positions[i].averagePrice
=============================================================================
