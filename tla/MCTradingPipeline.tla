------------------------- MODULE MCTradingPipeline -------------------------
(* Small instances of TradingPipeline.                                     *)
EXTENDS TradingPipeline
=============================================================================
