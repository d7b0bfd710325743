------------------------- MODULE ImbalanceStrategy -------------------------
(***************************************************************************)
(* The strategy (src/trading_core/src/strategy/): the signal a market      *)
(* event gives and the request made of it.  Neither keeps anything from    *)
(* one event to the next.  A quote is what an event says of the best level *)
(* of each side; an empty side has price 0 and quantity 0 (BookBuilder::   *)
(* publishMarketEvent).                                                    *)
(***************************************************************************)
EXTENDS RiskManager

Quotes == [bestBid : Nat, bestBidQuantity : Nat, bestAsk : Nat, bestAskQuantity : Nat]

Difference(quote) == quote.bestBidQuantity - quote.bestAskQuantity

(* The imbalance |B - A| / (B + A) reaches the threshold, by cross         *)
(* multiplication in 128 bits.                                             *)
Reached(numerator, denominator, quote) ==
  LET total == quote.bestBidQuantity + quote.bestAskQuantity
  IN  total > 0 /\ Magnitude(Difference(quote)) * denominator >= total * numerator

(* ImbalanceStrategy::evaluate.                                            *)
Evaluate(numerator, denominator, quote) ==
  IF Difference(quote) = 0 \/ ~Reached(numerator, denominator, quote) THEN "None"
  ELSE IF Difference(quote) > 0 THEN "Buy" ELSE "Sell"

(* StrategyExecutor::execute: the requests it pushes.                      *)
Execute(signal, instrument, quantity, quote) ==
  IF signal = "None" THEN {}
  ELSE {[instrument |-> instrument, side |-> signal, quantity |-> quantity,
         price |-> IF signal = "Buy" THEN quote.bestAsk ELSE quote.bestBid]}
=============================================================================
