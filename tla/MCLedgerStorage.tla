---------------------------- MODULE MCLedgerStorage ----------------------------
(* Small instances of the ledger files.                                    *)
EXTENDS LedgerDurability
=============================================================================
