----------------------------- MODULE FixedPoint -----------------------------
(***************************************************************************)
(* The fixed-point integers behind Price and Quantity (src/trading_core/   *)
(* src/core/scaled_value.hpp): a raw value of Width bits that stands for   *)
(* raw / Scale.  None of its operations looks for an overflow.             *)
(***************************************************************************)
EXTENDS Integers

CONSTANTS
  Width,   \* bits of a raw value, 64 in the code
  Scale    \* raw units in one, 10^8 in the code

ASSUME WidthAssumption == Width \in Nat \ {0}
ASSUME ScaleAssumption == Scale \in Nat \ {0}

FitsIn(bits, n) == -(2^(bits - 1)) <= n /\ n < 2^(bits - 1)

(* A value the representation holds; one of the type calculations between  *)
(* raw values are widened to.                                              *)
Fits(n) == FitsIn(Width, n)
FitsWide(n) == FitsIn(2 * Width, n)

(* The conversion of a wide value to a raw one keeps its low bits.         *)
Narrow(n) == ((n + 2^(Width - 1)) % 2^Width) - 2^(Width - 1)

(* ScaledValue::fromInteger.                                               *)
FromInteger(n) == Narrow(n * Scale)
=============================================================================
