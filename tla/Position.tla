------------------------------ MODULE Position ------------------------------
(***************************************************************************)
(* The arithmetic of one position (src/trading_core/src/position/          *)
(* position.cpp): a signed quantity and the average entry price of the     *)
(* quantity still open.  Prices and quantities are the raw fixed-point     *)
(* integers of core/scaled_value.hpp; a position never traded and a        *)
(* position traded back to zero are both Flat.                             *)
(***************************************************************************)
EXTENDS Integers

Sides == {"Buy", "Sell"}

PositionType == [quantity : Int, averagePrice : Int]

Flat == [quantity |-> 0, averagePrice |-> 0]

Magnitude(n) == IF n < 0 THEN -n ELSE n

(* C++ integer division truncates towards zero; the divisor is positive.   *)
TruncatedDivide(n, d) == IF n >= 0 THEN n \div d ELSE -((-n) \div d)

Signed(side, quantity) == IF side = "Buy" THEN quantity ELSE -quantity

SameDirection(a, b) == (a > 0) = (b > 0)

(* Average of the open quantity and the execution, weighted by quantity.   *)
WeightedPrice(position, price, quantity) ==
  LET open == Magnitude(position.quantity)
  IN  TruncatedDivide(position.averagePrice * open + price * quantity,
                      open + quantity)

(* Mutant of EntryPriceAfter: a reversing trade keeps the entry price.     *)
MutantReversing(position, price, signed) ==
  CASE position.quantity + signed = 0 -> 0
    [] position.quantity = 0 -> price
    [] OTHER -> IF SameDirection(position.quantity, signed)
                THEN WeightedPrice(position, price, Magnitude(signed))
                ELSE position.averagePrice

(* The entry price left by a trade of the signed quantity: an opening and  *)
(* a reversing trade set it, an adding one averages it, a reducing one     *)
(* keeps it and a closing one clears it.                                   *)
EntryPriceAfter(position, price, signed) ==
  LET before == position.quantity
      after  == before + signed
  IN  CASE before = 0 -> price
        [] before # 0 /\ SameDirection(before, signed)
             -> WeightedPrice(position, price, Magnitude(signed))
        [] before # 0 /\ ~SameDirection(before, signed)
             -> IF after = 0 THEN 0
                ELSE IF SameDirection(before, after) THEN position.averagePrice
                ELSE price

(* Mutant of ApplyTrade: a reversing trade only closes the position.       *)
MutantNoReversal(position, side, price, quantity) ==
  LET signed == Signed(side, quantity)
      after  == position.quantity + signed
  IN  IF position.quantity # 0 /\ ~SameDirection(position.quantity, after)
      THEN Flat
      ELSE [quantity |-> after, averagePrice |-> EntryPriceAfter(position, price, signed)]

(* Position::applyTrade.                                                   *)
ApplyTrade(position, side, price, quantity) ==
  LET signed == Signed(side, quantity)
  IN  IF quantity = 0
      THEN position
      ELSE [quantity     |-> position.quantity + signed,
            averagePrice |-> EntryPriceAfter(position, price, signed)]

(* Mutant of Intermediates: the products are not widened.                  *)
MutantNotWidened(position, side, price, quantity) ==
  LET open == Magnitude(position.quantity)
  IN  [raw  |-> {open, position.averagePrice * open, price * quantity},
       wide |-> {}]

(* The values applyTrade computes on the way, raw ones and those it widens *)
(* before it multiplies (__int128).                                        *)
Intermediates(position, side, price, quantity) ==
  LET open == Magnitude(position.quantity)
      adds == position.quantity # 0
              /\ SameDirection(position.quantity, Signed(side, quantity))
  IN  [raw  |-> {open, Signed(side, quantity), position.quantity + Signed(side, quantity),
                 ApplyTrade(position, side, price, quantity).averagePrice}
                \cup (IF adds THEN {open + quantity} ELSE {}),
       wide |-> IF adds THEN {position.averagePrice * open, price * quantity,
                              position.averagePrice * open + price * quantity}
                ELSE {}]
=============================================================================
