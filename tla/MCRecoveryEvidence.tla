-------------------------- MODULE MCRecoveryEvidence ---------------------------
(* Small instances of the recovery lookup.                                  *)
EXTENDS RecoveryEvidence
=============================================================================
