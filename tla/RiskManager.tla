---------------------------- MODULE RiskManager ----------------------------
(***************************************************************************)
(* The pre-trade check of src/trading_core/src/risk/risk_manager.cpp: what *)
(* RiskManager::checkOrder decides of a request, given the limits and the  *)
(* position the instrument has now.  A limit of zero is disabled.  The     *)
(* 128-bit intermediate values of the code are integers here.              *)
(***************************************************************************)
EXTENDS Position

CONSTANT Scale   \* raw units in one, 10^8 in core/scaled_value.hpp

ASSUME ScaleAssumption == Scale \in Nat \ {0}

RiskLimits == [maxOrderQuantity : Nat, maxPositionQuantity : Nat, maxNotional : Nat]

RiskReasons == {"None", "MaxOrderQuantity", "MaxPositionQuantity", "MaxNotional"}

Exceeds(value, limit) == limit # 0 /\ value > limit

(* Mutant of ResultingPosition: the request itself is not counted.         *)
MutantPositionNow(request, quantity) == quantity

(* The position there would be if the whole request were executed now.     *)
ResultingPosition(request, quantity) ==
  quantity + Signed(request.side, request.quantity)

Notional(request) == TruncatedDivide(request.price * request.quantity, Scale)

(* The reason checkOrder leaves behind: that of the first limit exceeded,  *)
(* "None" for a request it accepts.                                        *)
RiskReason(limits, request, quantity) ==
  CASE \/ request.quantity <= 0
       \/ Exceeds(request.quantity, limits.maxOrderQuantity) -> "MaxOrderQuantity"
    [] OTHER ->
       IF Exceeds(Magnitude(ResultingPosition(request, quantity)),
                  limits.maxPositionQuantity)
       THEN "MaxPositionQuantity"
       ELSE IF Exceeds(Magnitude(Notional(request)), limits.maxNotional)
            THEN "MaxNotional"
            ELSE "None"
=============================================================================
