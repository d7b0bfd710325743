------------------------------ MODULE Accounts ------------------------------
(***************************************************************************)
(* The accounts the trading core keeps of a stream of trades.  Positions   *)
(* and profit: PositionManager moves a position by each execution, and a   *)
(* user of PnLCalculator asks, before it moves, what the execution will    *)
(* realize and adds that up.  Volumes: TradeProcessor (src/trading_core/   *)
(* src/trade/trade_processor.cpp) adds up the public trades of the one     *)
(* instrument it watches.                                                  *)
(*                                                                         *)
(* The two share nothing, so a behaviour moves one of them and no          *)
(* interleaving is lost.  `realized' is what the caller adds up, `lost'    *)
(* and `public' are history variables like `trades'.                       *)
(***************************************************************************)
EXTENDS PositionManager, PnLCalculator

CONSTANTS
  Watched,       \* the instrument TradeProcessor was built for
  MarketPrices,  \* the prices a position is valued at
  MaxPublic      \* bound on the public trades

ASSUME WatchedAssumption == Watched \in Instruments
ASSUME MarketAssumption == MarketPrices \subseteq Nat \ {0} /\ MaxPublic \in Nat

VARIABLES
  realized,   \* per instrument, the realized profit added up
  lost,       \* history: per instrument, what truncation may have cost
  tape,       \* TradeProcessor: volumes per side, count and last trade
  public      \* history: the public trades seen

accountVars == <<positions, trades, realized, lost, tape, public>>

NoTrade == [instrument |-> Watched, side |-> "Buy", price |-> 0, quantity |-> 0]

AccountInit ==
  /\ Init
  /\ realized = [i \in Instruments |-> 0]
  /\ lost = [i \in Instruments |-> 0]
  /\ tape = [Buy |-> 0, Sell |-> 0, count |-> 0, last |-> NoTrade]
  /\ public = <<>>

(* At most what is lost when the trade is booked: a unit of the scale when *)
(* a profit is rounded, and less than one raw price per unit open when the *)
(* entry price is averaged.                                                *)
Rounding(position, side, quantity) ==
  IF position.quantity # 0 /\ SameDirection(position.quantity, Signed(side, quantity))
  THEN Magnitude(position.quantity) + quantity - 1
  ELSE Scale - 1

(* The profit the execution realizes, asked of the position before it.     *)
Book(instrument, side, price, quantity) ==
  LET before == positions[instrument]
  IN  /\ realized' = [realized EXCEPT ![instrument] =
                        @ + CalculateRealized(before, "Trade", side, price, quantity)]
      /\ lost' = [lost EXCEPT ![instrument] = @ + Rounding(before, side, quantity)]
      /\ UNCHANGED <<tape, public>>

(* Mutant of OnPublicTrade: every instrument is counted.                   *)
MutantEveryInstrument(trade) ==
  /\ tape' = [tape EXCEPT ![trade.side] = @ + trade.quantity, !.count = @ + 1,
                          !.last = trade]
  /\ public' = Append(public, trade)
  /\ UNCHANGED <<positions, trades, realized, lost>>

(* TradeProcessor::onTrade.                                                *)
OnPublicTrade(trade) ==
  /\ tape' = IF trade.instrument # Watched THEN tape
             ELSE [tape EXCEPT ![trade.side] = Narrow(@ + trade.quantity),
                               !.count = @ + 1, !.last = trade]
  /\ public' = Append(public, trade)
  /\ UNCHANGED <<positions, trades, realized, lost>>

(* PositionManager and the calculator, by whichever call the trade comes.  *)
Execution ==
  \E i \in Instruments, s \in Sides, p \in Prices, q \in Quantities :
    /\ Len(trades) < MaxTrades
    /\ public = <<>>
    /\ \/ OnTrade(i, s, p, q)
       \/ \E t \in ExecTypes : OnExecution(t, i, s, p, q)
    /\ Book(i, s, p, q)

PublicTrade ==
  /\ trades = <<>>
  /\ Len(public) < MaxPublic
  /\ \E i \in Instruments, s \in Sides, q \in Quantities :
       /\ q > 0
       /\ OnPublicTrade([instrument |-> i, side |-> s, price |-> 1, quantity |-> q])

AccountNext == Execution \/ PublicTrade

AccountSpec == AccountInit /\ [][AccountNext]_accountVars
-----------------------------------------------------------------------------
(* What the trades of the instrument brought in, less what they cost.      *)
Cash(i) ==
  -SumFunction([k \in DOMAIN trades |->
                  IF trades[k].instrument = i
                  THEN Signed(trades[k].side, trades[k].quantity) * trades[k].price
                  ELSE 0])

(* Realized and unrealized profit account for the cash: what all trades of *)
(* an instrument brought in, and what the open position would bring now,   *)
(* is the total the calculator gives, up to the truncations on the way.    *)
(* Nothing is counted twice or forgotten, however the position was opened, *)
(* added to, reduced, closed or reversed ("the part that closes the old    *)
(* position is realized and the remaining quantity opens a new position",  *)
(* pnl_calculator.hpp).                                                    *)
CashIsAccountedFor ==
  \A i \in Instruments, p \in MarketPrices :
    LET order  == [price |-> p, quantity |-> 1]
        market == [bid |-> order, ask |-> order]
        pnl    == [realized   |-> realized[i],
                   unrealized |-> CalculateUnrealized(positions[i], market)]
    IN  Magnitude(Scale * Total(pnl) - (Cash(i) + positions[i].quantity * p))
          <= lost[i] + Scale - 1

(* No value computed on the way overflows, as long as the position itself  *)
(* fits before and after the trade: sums of quantities in raw values, the  *)
(* products of the average in wide ones, for any price and up to the very  *)
(* last quantity the position has room for.                                *)
NothingOverflowsButThePosition ==
  \A i \in Instruments, s \in Sides :
    LET largest    == 2^(Width - 1) - 1
        open       == Magnitude(positions[i].quantity)
        quantities == {1, open, largest - open, largest} \ {0}
    IN  \A q \in quantities, p \in {1, largest} :
          open <= largest /\ Magnitude(positions[i].quantity + Signed(s, q)) <= largest =>
            /\ \A n \in Intermediates(positions[i], s, p, q).raw : Fits(n)
            /\ \A n \in Intermediates(positions[i], s, p, q).wide : FitsWide(n)

(* The public trades of the watched instrument on a side.                  *)
WatchedTrades(side) ==
  {k \in DOMAIN public : public[k].instrument = Watched /\ public[k].side = side}

Volume(side) ==
  SumFunctionOnSet([k \in DOMAIN public |-> public[k].quantity], WatchedTrades(side))

(* The volumes are those of the trades of the watched instrument, each on  *)
(* its side and once, as long as their sums fit, and the last trade is the *)
(* latest of them, whatever trades of other instruments came after it.     *)
VolumesAreTheInstruments ==
  /\ \A side \in Sides : Fits(Volume(side)) => tape[side] = Volume(side)
  /\ tape.count = Cardinality(WatchedTrades("Buy")) + Cardinality(WatchedTrades("Sell"))
  /\ LET watched == WatchedTrades("Buy") \cup WatchedTrades("Sell")
     IN  IF watched = {} THEN tape.last = NoTrade
         ELSE \E k \in watched : tape.last = public[k] /\ \A j \in watched : j <= k
=============================================================================
