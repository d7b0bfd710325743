----------------------------- MODULE MCAccounts -----------------------------
(* A small instance of Accounts: two instruments, prices that average to   *)
(* fractions and whose products pass the raw width, and quantities with a  *)
(* zero and a negative one, which the manager must refuse.                 *)
EXTENDS Accounts, TLC

MCPrices == {1, 2, 20}
MCQuantities == {-1, 0, 1, 3}
=============================================================================
