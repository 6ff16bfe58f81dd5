--------------------------- MODULE LedgerDurability ---------------------------
(***************************************************************************)
(* What the ledger files guarantee to the process that owns them and to     *)
(* the ones that come after a crash.                                        *)
(***************************************************************************)
EXTENDS LedgerStorage

\* The state has its type.
TypeOK ==
  /\ phase \in [Processes -> Phases]
  /\ memory \in [Processes -> Logs] /\ staged \in [Processes -> Logs]
  /\ ledger \in Logs /\ torn \in BOOLEAN /\ synced \in 0 .. Len(ledger)
  /\ entry \in {"absent", "cached", "synced"}
  /\ snapshot \in Logs \cup {None} /\ snapshotSynced \in Logs \cup {None}
  /\ attempts \in 0 .. MaxAttempts
  /\ committed \in Logs /\ doubt \in Logs

\* What somebody has relied upon (an append that returned Ok, a projection a restart has
\* rebuilt) survives the loss of everything that is not synced.
CommittedIsDurable ==
  /\ IsPrefix(committed, SubSeq(ledger, 1, synced))
  /\ committed # <<>> => entry = "synced"

\* The file never holds more than one event whose fate is open, whatever failed and however
\* often processes stopped and restarted: nothing is appended behind an event in doubt.
OneInDoubt == ledger = committed \/ ledger = committed \o doubt

\* While the owner is between two appends the files agree with its projection and with each
\* other, also if power is lost right then: the next open is not refused.
QuietLedgerReopens ==
  \A p \in Processes : phase[p] = "Idle" =>
    /\ memory[p] = ledger /\ ~ torn
    /\ synced = Len(ledger) /\ entry = "synced"
    /\ snapshotSynced = snapshot /\ Verified(snapshot, ledger)

Reopens(p) == phase[p] = "Probed" /\ phase'[p] = "Idle"

\* A restart comes back with the events that were relied upon and at most the one in doubt,
\* and if it takes that one over, it had been synced.
RestartIsExact ==
  [][\A p \in Processes : Reopens(p) =>
       /\ memory'[p] \in {committed, committed \o doubt}
       /\ Len(memory'[p]) <= synced]_vars

Log == INSTANCE DurableLog WITH log <- committed

\* The files behave as an append-only log with at most one event in doubt.
ImplementsDurableLog == Log!Spec
=============================================================================
