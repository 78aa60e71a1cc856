---------------------------- MODULE MCMarketCache ---------------------------
(* A small instance of MarketCache for TLC.                                *)
EXTENDS MarketCache

=============================================================================
