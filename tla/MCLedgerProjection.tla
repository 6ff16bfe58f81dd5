-------------------------- MODULE MCLedgerProjection --------------------------
(* Small instances of the ledger reducer.                                  *)
EXTENDS LedgerSafety, TLC

\* Identifiers have no order and no structure.
Identifiers == Permutations(Intents) \cup Permutations(Orders) \cup Permutations(Tokens)
=============================================================================
