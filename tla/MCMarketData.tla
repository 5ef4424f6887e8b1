---------------------------- MODULE MCMarketData ----------------------------
(* Small instances of the market data path. *)
EXTENDS MarketDataProps, TLC

CONSTANTS btc, eth

Symmetry == Permutations(Symbols)
=============================================================================
