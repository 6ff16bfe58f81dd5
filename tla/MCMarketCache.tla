----------------------------- MODULE MCMarketCache ------------------------------
(* One market with two outcome tokens, and another one. *)
EXTENDS MarketCache

CONSTANTS yes, no, other, s1, s2

MCSlugOf == [t \in {yes, no, other} |-> IF t = other THEN s2 ELSE s1]
=============================================================================
