--------------------------- MODULE PnLCalculator ---------------------------
(***************************************************************************)
(* Profit and loss of one position (src/trading_core/src/pnl/              *)
(* pnl_calculator.cpp): what a trade realizes, and what the position would *)
(* bring at the prices of the market.  The calculator keeps no state; sums *)
(* are its caller's affair.                                                *)
(***************************************************************************)
EXTENDS Position, FixedPoint, FiniteSetsExt

(* The product of a price difference and a quantity, as a price.           *)
FromProduct(difference, quantity) ==
  Narrow(TruncatedDivide(difference * quantity, Scale))

(* How much of the position a trade on that side closes.                   *)
Closes(position, side, quantity) ==
  IF (position.quantity > 0 /\ side = "Sell") \/ (position.quantity < 0 /\ side = "Buy")
  THEN Min({Magnitude(position.quantity), quantity})
  ELSE 0

(* What each unit of the position gains at that price.                     *)
Gain(position, price) ==
  IF position.quantity > 0 THEN price - position.averagePrice
                           ELSE position.averagePrice - price

(* Mutant of CalculateRealized: a reversing trade realizes all of itself.  *)
MutantWholeTrade(position, execType, side, price, quantity) ==
  IF execType # "Trade" \/ Closes(position, side, quantity) = 0 THEN 0
  ELSE FromProduct(Gain(position, price), quantity)

(* PnLCalculator::calculateRealized, of the position before the trade.     *)
CalculateRealized(position, execType, side, price, quantity) ==
  IF execType # "Trade" THEN 0
  ELSE FromProduct(Gain(position, price), Closes(position, side, quantity))

(* PnLCalculator::calculateUnrealized: a long position is worth the best   *)
(* bid, a short one costs the best ask; a side without an order is no mark *)
(* and counts as no gain.                                                  *)
CalculateUnrealized(position, market) ==
  LET mark == IF position.quantity > 0 THEN market.bid ELSE market.ask
  IN  IF position.quantity = 0 \/ mark.quantity = 0 THEN 0
      ELSE FromProduct(Gain(position, mark.price), Magnitude(position.quantity))

(* PnLCalculator::calculate, and PnL::total of what it returns.            *)
Calculate(position, execType, side, price, quantity, market) ==
  [realized   |-> CalculateRealized(position, execType, side, price, quantity),
   unrealized |-> CalculateUnrealized(position, market)]

Total(pnl) == Narrow(pnl.realized + pnl.unrealized)
=============================================================================
