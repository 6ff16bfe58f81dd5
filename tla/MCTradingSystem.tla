---------------------------- MODULE MCTradingSystem ----------------------------
(* Small instances of the bot and the recovery commands together.           *)
EXTENDS TradingSystem, TLC

Identifiers == Permutations(Intents) \cup Permutations(Orders) \cup Permutations(Tokens)
=============================================================================
