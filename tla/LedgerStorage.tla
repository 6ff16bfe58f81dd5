----------------------------- MODULE LedgerStorage -----------------------------
(***************************************************************************)
(* The files of the execution ledger (execution_ledger/storage.rs and       *)
(* snapshot.rs): the steps of ExecutionLedger::append and of open_with_ops, *)
(* with a failure possible at each of them, a process that stops between    *)
(* any two, a power loss that keeps any part of what was not synced, and    *)
(* several processes (the bot, the recovery CLI) that open the same ledger. *)
(*                                                                          *)
(* Abstractions.  An event is an identity and what its payload does to the  *)
(* active intent and to the cleanup owner, which is all the snapshot and    *)
(* its verification look at; LedgerProjection has the payloads.  A snapshot *)
(* (sequence, head hash, active intent) is the log it describes: the hash   *)
(* chain makes the two equivalent.  torn stands for any tail that does not  *)
(* decode as a whole event line.                                            *)
(*                                                                          *)
(* A definition named Faulty... is a mistake the next definition could have *)
(* made; nothing uses it.                                                   *)
(***************************************************************************)
EXTENDS Optional, Integers, Sequences, SequencesExt

CONSTANTS Processes,    \* programs that open the ledger
          MaxAttempts   \* bound: appends that reach the file

ASSUME AttemptsAssumption == MaxAttempts \in Nat

Kinds == {"Prepare", "Advance", "Commit", "Acknowledge", "Cleanup"}

\* The EventId is drawn afresh for each append.
Events == [id : 1 .. MaxAttempts, kind : Kinds]

Logs == Seq(Events)

ASSUME NoSnapshotAssumption == None \notin Logs

Phases == {"Stopped", "Locked", "Probed", "Idle",             \* open_with_ops
           "Written", "Synced", "Renamed", "DirectorySynced", \* append
           "Fatal"}

VARIABLES phase,          \* phase[p]: how far process p is; not Stopped: p holds both locks
          memory,         \* memory[p]: the log its projection is the result of
          staged,         \* staged[p]: the event being appended, as a sequence
          ledger,         \* the event lines in the ledger file
          torn,           \* an incomplete line follows them
          synced,         \* how many of the lines are known to be on the platter
          entry,          \* the ledger's directory entry: absent, cached, synced
          snapshot,       \* the log the snapshot file describes
          snapshotSynced, \* the one its directory entry is known to name after a power loss
          attempts,       \* appends that reached the file
          committed,      \* history: the events a caller or a restart has relied upon
          doubt           \* history: the append that has neither returned Ok nor been judged
                          \* by a restart

memVars == <<phase, memory, staged>>
ledgerVars == <<ledger, torn, synced, entry>>
snapshotVars == <<snapshot, snapshotSynced>>
historyVars == <<committed, doubt>>
vars == <<memVars, ledgerVars, snapshotVars, attempts, historyVars>>

-----------------------------------------------------------------------------
(* The projection, as far as the files depend on it                         *)

Active(log) == log # <<>> /\ Last(log).kind \in {"Prepare", "Advance"}

CleanupPending(log) == log # <<>> /\ Last(log).kind = "Acknowledge"

\* stage_next: the events the reducer accepts after log.
Accepts(log, kind) ==
  \/ kind = "Prepare" /\ ~ Active(log) /\ ~ CleanupPending(log)
  \/ kind \in {"Advance", "Commit", "Acknowledge"} /\ Active(log)
  \/ kind = "Cleanup" /\ CleanupPending(log)

ActiveChanged(kind) == kind \in {"Prepare", "Advance", "Commit", "Acknowledge"}

SnapshotChanged(kind) == ActiveChanged(kind) \/ kind \in {"Acknowledge", "Cleanup"}

\* verify_snapshot: the snapshot is the one the replayed log calls for; it may be missing
\* only when no intent is active.
FaultyVerified(snap, log) == IF snap = None THEN ~ Active(log) ELSE Active(snap) = Active(log)

Verified(snap, log) == snap = log \/ (snap = None /\ ~ Active(log))

-----------------------------------------------------------------------------
(* Opening                                                                  *)

Go(p, to) == phase' = [phase EXCEPT ![p] = to]

Init ==
  /\ phase = [p \in Processes |-> "Stopped"]
  /\ memory = [p \in Processes |-> <<>>]
  /\ staged = [p \in Processes |-> <<>>]
  /\ ledger = <<>> /\ torn = FALSE /\ synced = 0 /\ entry = "absent"
  /\ snapshot = None /\ snapshotSynced = None
  /\ attempts = 0
  /\ committed = <<>> /\ doubt = <<>>

\* The lock is given back once the ledger has been read.
FaultyLock(p) ==
  /\ phase[p] = "Stopped" /\ \A q \in Processes : phase[q] \notin {"Locked", "Probed"}
  /\ Go(p, "Locked")
  /\ UNCHANGED <<memory, staged, ledgerVars, snapshotVars, attempts, historyVars>>

\* open_parent_lock, acquire_lifetime_lock: a second process is refused.
Lock(p) ==
  /\ \A q \in Processes : phase[q] = "Stopped"
  /\ Go(p, "Locked")
  /\ UNCHANGED <<memory, staged, ledgerVars, snapshotVars, attempts, historyVars>>

SyncDirectory ==
  /\ entry' = IF entry = "cached" THEN "synced" ELSE entry
  /\ snapshotSynced' = snapshot

\* run_durability_probe: renames a probe file and syncs the directory, which makes every
\* entry of it durable, also those an earlier process did not live to sync.
Probe(p) ==
  /\ phase[p] = "Locked"
  /\ Go(p, "Probed")
  /\ SyncDirectory
  /\ UNCHANGED <<memory, staged, ledger, torn, synced, snapshot, attempts, historyVars>>

\* The ledger file is created when it does not exist; a new one is synced with its directory.
\* An error between the two leaves the file behind and ends the open.
CreateFails(p) ==
  /\ phase[p] = "Probed" /\ entry = "absent"
  /\ entry' = "cached"
  /\ Go(p, "Stopped")
  /\ UNCHANGED <<memory, staged, ledger, torn, synced, snapshotVars, attempts, historyVars>>

\* open_restrictive, replay, verify_snapshot: the projection is exactly what the file holds.
\* A torn line or a snapshot that does not match refuses the open.  The open decides the
\* append that was left in doubt.
Open(p) ==
  /\ phase[p] = "Probed"
  /\ ~ torn /\ Verified(snapshot, ledger)
  /\ IF entry = "absent" THEN entry' = "synced" /\ snapshotSynced' = snapshot
                         ELSE UNCHANGED <<entry, snapshotSynced>>
  /\ Go(p, "Idle")
  /\ memory' = [memory EXCEPT ![p] = ledger]
  /\ committed' = ledger /\ doubt' = <<>>
  /\ UNCHANGED <<staged, ledger, torn, synced, snapshot, attempts>>

\* Any error of open_with_ops, the end of the program, a crash: the locks are released and
\* what was in memory is gone; the files keep what was written to them.
Stop(p) ==
  /\ phase[p] # "Stopped"
  /\ Go(p, "Stopped")
  /\ memory' = [memory EXCEPT ![p] = <<>>]
  /\ staged' = [staged EXCEPT ![p] = <<>>]
  /\ UNCHANGED <<ledgerVars, snapshotVars, attempts, historyVars>>

-----------------------------------------------------------------------------
(* append                                                                   *)

NewEvent(kind) == [id |-> attempts + 1, kind |-> kind]

Stage(p, kind) ==
  /\ phase[p] = "Idle"
  /\ attempts < MaxAttempts
  /\ Accepts(memory[p], kind)
  /\ attempts' = attempts + 1
  /\ staged' = [staged EXCEPT ![p] = <<NewEvent(kind)>>]
  /\ doubt' = <<NewEvent(kind)>>
  /\ UNCHANGED <<memory, synced, entry, snapshotVars, committed>>

\* stage_next, append: an event the reducer refuses changes nothing; a write that fails may
\* have written a part of the line.
Write(p, kind) ==
  /\ Stage(p, kind)
  /\ \/ ledger' = Append(ledger, NewEvent(kind)) /\ torn' = torn
        /\ Go(p, "Written")
     \/ torn' \in {torn, TRUE} /\ ledger' = ledger /\ Go(p, "Fatal")

\* The line is left to the page cache.
FaultySyncLedger(p) ==
  /\ phase[p] = "Written"
  /\ Go(p, "Synced")
  /\ UNCHANGED <<memory, staged, ledgerVars, snapshotVars, attempts, historyVars>>

\* flush, sync_file
SyncLedger(p) ==
  /\ phase[p] = "Written"
  /\ synced' = Len(ledger)
  /\ Go(p, "Synced")
  /\ UNCHANGED <<memory, staged, ledger, torn, entry, snapshotVars, attempts, historyVars>>

\* persist_snapshot up to the rename: the temporary file is synced before it gets its name.
RenameSnapshot(p) ==
  /\ phase[p] = "Synced" /\ SnapshotChanged(staged[p][1].kind)
  /\ snapshot' = memory[p] \o staged[p]
  /\ Go(p, "Renamed")
  /\ UNCHANGED <<memory, staged, ledgerVars, snapshotSynced, attempts, historyVars>>

\* persist_snapshot after the rename: the file is read back, the directory is synced.
SyncSnapshot(p) ==
  /\ phase[p] = "Renamed"
  /\ SyncDirectory
  /\ Go(p, "DirectorySynced")
  /\ UNCHANGED <<memory, staged, ledger, torn, synced, snapshot, attempts, historyVars>>

\* revalidate, publish_staged: append returns Ok.
Publish(p) ==
  /\ staged[p] # <<>>
  /\ phase[p] = IF SnapshotChanged(staged[p][1].kind) THEN "DirectorySynced" ELSE "Synced"
  /\ memory' = [memory EXCEPT ![p] = @ \o staged[p]]
  /\ staged' = [staged EXCEPT ![p] = <<>>]
  /\ committed' = committed \o doubt /\ doubt' = <<>>
  /\ Go(p, "Idle")
  /\ UNCHANGED <<ledgerVars, snapshotVars, attempts>>

\* The error is returned and the ledger stays usable.
FaultyAppendFails(p) ==
  /\ phase[p] \in {"Written", "Synced", "Renamed", "DirectorySynced"}
  /\ Go(p, "Idle") /\ staged' = [staged EXCEPT ![p] = <<>>]
  /\ UNCHANGED <<memory, ledgerVars, snapshotVars, attempts, historyVars>>

\* Each call after the write may fail, with the files as they are at that point; the ledger
\* then refuses every append until the process ends.
AppendFails(p) ==
  /\ phase[p] \in {"Written", "Synced", "Renamed", "DirectorySynced"}
  /\ Go(p, "Fatal")
  /\ UNCHANGED <<memory, staged, ledgerVars, snapshotVars, attempts, historyVars>>

-----------------------------------------------------------------------------
(* The machine                                                              *)

\* Every process stops.  Of the lines that were not synced any prefix survives, possibly
\* with a part of the next line, and a directory entry that was not synced may be the old one.
PowerLoss ==
  /\ phase' = [p \in Processes |-> "Stopped"]
  /\ memory' = [p \in Processes |-> <<>>] /\ staged' = [p \in Processes |-> <<>>]
  /\ snapshot' \in {snapshot, snapshotSynced} /\ snapshotSynced' = snapshot'
  /\ \/ /\ entry = "cached" /\ entry' = "absent"
        /\ ledger' = <<>> /\ torn' = FALSE /\ synced' = 0
     \/ /\ entry' = IF entry = "absent" THEN "absent" ELSE "synced"
        /\ \E n \in synced .. Len(ledger) :
             /\ ledger' = SubSeq(ledger, 1, n) /\ synced' = n
             /\ torn' \in IF n < Len(ledger) \/ torn THEN BOOLEAN ELSE {FALSE}
  /\ UNCHANGED <<attempts, historyVars>>

Opening(p) == Lock(p) \/ Probe(p) \/ CreateFails(p) \/ Open(p)

Appending(p) ==
  \/ \E kind \in Kinds : Write(p, kind)
  \/ SyncLedger(p) \/ RenameSnapshot(p) \/ SyncSnapshot(p) \/ Publish(p) \/ AppendFails(p)

Next == (\E p \in Processes : Opening(p) \/ Appending(p) \/ Stop(p)) \/ PowerLoss

Spec == Init /\ [][Next]_vars
=============================================================================
