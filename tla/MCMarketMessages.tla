-------------------------- MODULE MCMarketMessages --------------------------
(* Instance of MarketMessages for TLC. *)
EXTENDS MarketMessages
=============================================================================
