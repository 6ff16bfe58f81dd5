--------------------------- MODULE LedgerStorageProofs ---------------------------
(***************************************************************************)
(* Proofs about LedgerStorage, for any number of programs and of appends:   *)
(* what was relied upon survives every stop, failed call and power loss,    *)
(* nothing is appended behind an event in doubt, and the files implement    *)
(* DurableLog; and about LedgerReplay, for any number of events and of      *)
(* changes to the files: what was written opens, and what opens was written.*)
(***************************************************************************)
EXTENDS LedgerDurability, LedgerReplay, SetSums

-----------------------------------------------------------------------------
(* Sequences                                                                *)

LEMMA AppendIsConcatenation ==
  ASSUME NEW S, NEW s \in Seq(S), NEW e \in S
  PROVE  /\ Append(s, e) = s \o <<e>>
         /\ s \o <<e>> \in Seq(S) /\ Len(s \o <<e>>) = Len(s) + 1
         /\ s \o <<>> = s
         /\ SubSeq(s, 1, Len(s)) = s
         /\ SubSeq(s \o <<e>>, 1, Len(s)) = s
         /\ SubSeq(s \o <<e>>, 1, Len(s) + 1) = s \o <<e>>
         /\ s \o <<e>> # s
<1>1. /\ s \o <<e>> \in Seq(S) /\ Len(s \o <<e>>) = Len(s) + 1 /\ Len(s) \in Nat
      /\ \A i \in 1 .. Len(s) : (s \o <<e>>)[i] = s[i]
      /\ (s \o <<e>>)[Len(s) + 1] = e
  OBVIOUS
<1>2. Append(s, e) = s \o <<e>>
  OBVIOUS
<1>3. s \o <<>> = s
  OBVIOUS
<1>4. SubSeq(s, 1, Len(s)) = s
  OBVIOUS
<1>5. SubSeq(s \o <<e>>, 1, Len(s)) = s
  BY <1>1
<1>6. SubSeq(s \o <<e>>, 1, Len(s) + 1) = s \o <<e>>
  BY <1>1
<1>7. s \o <<e>> # s
  BY <1>1
<1> QED BY <1>1, <1>2, <1>3, <1>4, <1>5, <1>6, <1>7

-----------------------------------------------------------------------------
(* The invariant                                                            *)

\* The event in doubt; the one of an empty log can only be a Prepare.
DoubtOf(d) == d = <<>> \/ \E e \in Events : d = <<e>> /\ (committed = <<>> => e.kind = "Prepare")

\* A snapshot describes what was relied upon, or a ledger that is synced.
Sound(snap) ==
  IF snap = None THEN committed = <<>>
  ELSE snap = committed \/ (snap = ledger /\ synced = Len(ledger))

Files ==
  /\ committed \in Logs /\ DoubtOf(doubt)
  /\ ledger = committed \/ ledger = committed \o doubt
  /\ synced \in Len(committed) .. Len(ledger) /\ torn \in BOOLEAN
  /\ entry \in {"absent", "cached", "synced"}
  /\ entry # "synced" => /\ ledger = <<>> /\ committed = <<>> /\ ~ torn
                         /\ snapshot = None /\ snapshotSynced = None
  /\ Sound(snapshot) /\ Sound(snapshotSynced)

\* What a program relies on between the steps of an open and of an append.
Probing(p) == phase[p] = "Probed" => entry # "cached" /\ snapshotSynced = snapshot

Quiet(p) ==
  phase[p] = "Idle" =>
    /\ memory[p] = ledger /\ ledger = committed /\ doubt = <<>> /\ ~ torn
    /\ synced = Len(ledger) /\ entry = "synced"
    /\ snapshotSynced = snapshot /\ Verified(snapshot, ledger)

Appended(p) ==
  phase[p] \in {"Written", "Synced", "Renamed", "DirectorySynced"} =>
    /\ memory[p] = committed /\ staged[p] = doubt /\ doubt # <<>> /\ ledger = committed \o doubt
    /\ ~ torn /\ entry = "synced"
    /\ phase[p] # "Written" => synced = Len(ledger)
    /\ phase[p] \in {"Renamed", "DirectorySynced"} => snapshot = ledger
    /\ phase[p] = "DirectorySynced" => snapshotSynced = snapshot

OneOwner == \A p, q \in Processes : phase[p] # "Stopped" /\ phase[q] # "Stopped" => p = q

IInv ==
  /\ phase \in [Processes -> Phases] /\ memory \in [Processes -> Logs]
  /\ staged \in [Processes -> Logs] /\ attempts \in Nat
  /\ OneOwner /\ Files
  /\ \A p \in Processes : Probing(p) /\ Quiet(p) /\ Appended(p)

LEMMA InitIInv == Init => IInv
<1> SUFFICES ASSUME Init
             PROVE  IInv
  OBVIOUS
<1>1. <<>> \in Logs /\ Len(<<>>) = 0 /\ <<>> \o <<>> = <<>>
  BY DEF Logs
<1>2. Files
  <2>1. /\ committed = <<>> /\ ledger = <<>> /\ doubt = <<>> /\ synced = 0 /\ ~ torn /\ torn = FALSE
        /\ entry = "absent" /\ snapshot = None /\ snapshotSynced = None
    BY DEF Init
  <2>2. synced \in Len(committed) .. Len(ledger)
    BY <2>1
  <2>3. DoubtOf(doubt)
    BY <2>1 DEF DoubtOf
  <2>4. Sound(snapshot) /\ Sound(snapshotSynced)
    BY <2>1 DEF Sound
  <2> QED BY <1>1, <2>1, <2>2, <2>3, <2>4 DEF Files
<1>3. /\ phase \in [Processes -> Phases] /\ memory \in [Processes -> Logs]
      /\ staged \in [Processes -> Logs] /\ attempts \in Nat
  BY <1>1 DEF Init, Phases
<1> QED BY <1>2, <1>3 DEF Init, IInv, OneOwner, Probing, Quiet, Appended

\* The other programs have stopped.
LEMMA OthersAreStopped ==
  ASSUME IInv, NEW p \in Processes, phase[p] # "Stopped",
         NEW to \in Phases, Go(p, to)
  PROVE  /\ phase' \in [Processes -> Phases] /\ phase'[p] = to
         /\ \A q \in Processes \ {p} : phase'[q] = "Stopped"
         /\ OneOwner'
<1>1. phase' = [phase EXCEPT ![p] = to] /\ \A q \in Processes \ {p} : phase[q] = "Stopped"
  BY DEF Go, IInv, OneOwner
<1> QED BY <1>1 DEF IInv, OneOwner

\* A step of the program that has the locks preserves the invariant if it preserves what is
\* said of the files and of the program itself.
LEMMA OwnerSteps ==
  ASSUME IInv, NEW p \in Processes, phase[p] # "Stopped", NEW to \in Phases, Go(p, to),
         memory' \in [Processes -> Logs], staged' \in [Processes -> Logs], attempts' \in Nat,
         Files', Probing(p)', Quiet(p)', Appended(p)'
  PROVE  IInv'
<1>1. /\ phase' \in [Processes -> Phases] /\ OneOwner'
      /\ \A q \in Processes \ {p} : phase'[q] = "Stopped"
  BY OthersAreStopped
<1>2. \A q \in Processes : (Probing(q) /\ Quiet(q) /\ Appended(q))'
  BY <1>1 DEF Probing, Quiet, Appended
<1> QED BY <1>1, <1>2 DEF IInv

LEMMA SameFiles ==
  ASSUME Files, UNCHANGED <<ledger, torn, synced, entry, snapshot, snapshotSynced, committed, doubt>>
  PROVE  Files'
BY DEF Files, DoubtOf, Sound

\* The ledger is what was relied upon, or one event longer, and synced at least up to there.
LEMMA LedgerIsKnown ==
  ASSUME IInv
  PROVE  /\ committed \in Logs /\ ledger \in Logs
         /\ Len(committed) \in Nat /\ Len(ledger) \in Nat /\ Len(committed) <= Len(ledger)
         /\ Len(ledger) \in {Len(committed), Len(committed) + 1}
         /\ SubSeq(ledger, 1, Len(committed)) = committed /\ SubSeq(ledger, 1, Len(ledger)) = ledger
         /\ synced \in Nat /\ Len(committed) <= synced /\ synced <= Len(ledger)
<1>1. /\ committed \in Logs /\ DoubtOf(doubt) /\ synced \in Len(committed) .. Len(ledger)
      /\ ledger = committed \/ ledger = committed \o doubt
  BY DEF IInv, Files
<1>2. /\ Len(committed) \in Nat /\ committed \o <<>> = committed
      /\ SubSeq(committed, 1, Len(committed)) = committed /\ committed \in Seq(Events)
  BY <1>1 DEF Logs
<1>3. /\ ledger \in Seq(Events) /\ Len(ledger) \in {Len(committed), Len(committed) + 1}
      /\ SubSeq(ledger, 1, Len(committed)) = committed
  <2>1. CASE ledger = committed
    BY <1>2, <2>1
  <2>2. ASSUME NEW e \in Events, doubt = <<e>>, ledger = committed \o doubt
        PROVE  /\ ledger \in Seq(Events) /\ Len(ledger) \in {Len(committed), Len(committed) + 1}
               /\ SubSeq(ledger, 1, Len(committed)) = committed
    <3>1. ledger = committed \o <<e>>
      BY <2>2
    <3> QED BY <1>2, <3>1, AppendIsConcatenation
  <2> QED BY <1>1, <1>2, <2>1, <2>2 DEF DoubtOf
<1>4. Len(ledger) \in Nat /\ SubSeq(ledger, 1, Len(ledger)) = ledger
  BY <1>3
<1>5. Len(committed) <= Len(ledger)
  BY <1>2, <1>3
<1>6. synced \in Nat /\ Len(committed) <= synced /\ synced <= Len(ledger)
  <2>1. \A x, y \in Nat : \A z \in x .. y : z \in Nat /\ x <= z /\ z <= y
    OBVIOUS
  <2> QED BY <1>1, <1>2, <1>4, <2>1
<1> QED BY <1>1, <1>2, <1>3, <1>4, <1>5, <1>6 DEF Logs

-----------------------------------------------------------------------------
(* Opening                                                                  *)

LEMMA LockIInv ==
  ASSUME IInv, NEW p \in Processes, Lock(p)
  PROVE  IInv'
<1>1. /\ phase' = [phase EXCEPT ![p] = "Locked"] /\ \A q \in Processes : phase[q] = "Stopped"
      /\ UNCHANGED <<memory, staged, attempts, ledger, torn, synced, entry, snapshot,
                     snapshotSynced, committed, doubt>>
  BY DEF Lock, Go, ledgerVars, snapshotVars, historyVars
<1>2. Files'
  BY <1>1, SameFiles DEF IInv
<1>3. \A q \in Processes : phase'[q] = IF q = p THEN "Locked" ELSE "Stopped"
  BY <1>1 DEF IInv
<1>4. phase' \in [Processes -> Phases]
  BY <1>1 DEF IInv, Phases
<1> QED BY <1>1, <1>2, <1>3, <1>4 DEF IInv, OneOwner, Probing, Quiet, Appended

LEMMA ProbeIInv ==
  ASSUME IInv, NEW p \in Processes, Probe(p)
  PROVE  IInv'
<1>1. /\ phase[p] = "Locked" /\ Go(p, "Probed") /\ snapshotSynced' = snapshot
      /\ entry' = IF entry = "cached" THEN "synced" ELSE entry
      /\ UNCHANGED <<memory, staged, attempts, ledger, torn, synced, snapshot, committed, doubt>>
  BY DEF Probe, SyncDirectory, historyVars
<1>2. Files'
  BY <1>1 DEF IInv, Files, DoubtOf, Sound
<1>3. phase'[p] = "Probed" /\ "Probed" \in Phases
  BY <1>1 DEF Go, IInv, Phases
<1>4. Probing(p)' /\ Quiet(p)' /\ Appended(p)'
  BY <1>1, <1>3 DEF IInv, Files, Probing, Quiet, Appended
<1> QED BY <1>1, <1>2, <1>3, <1>4, OwnerSteps DEF IInv

LEMMA CreateFailsIInv ==
  ASSUME IInv, NEW p \in Processes, CreateFails(p)
  PROVE  IInv'
<1>1. /\ phase[p] = "Probed" /\ entry = "absent" /\ entry' = "cached" /\ Go(p, "Stopped")
      /\ UNCHANGED <<memory, staged, attempts, ledger, torn, synced, snapshot, snapshotSynced,
                     committed, doubt>>
  BY DEF CreateFails, historyVars, snapshotVars
<1>2. Files'
  BY <1>1 DEF IInv, Files, DoubtOf, Sound
<1>3. phase'[p] = "Stopped" /\ "Stopped" \in Phases
  BY <1>1 DEF Go, IInv, Phases
<1> QED BY <1>1, <1>2, <1>3, OwnerSteps DEF IInv, Probing, Quiet, Appended

\* The snapshot of a ledger that is opened proves it synced: the file that a torn or an
\* unsynced append has left behind does not match any snapshot.
LEMMA OpenedIsSynced ==
  ASSUME IInv, NEW p \in Processes, Open(p)
  PROVE  /\ ledger \in Logs /\ synced = Len(ledger)
         /\ snapshot = ledger \/ (snapshot = None /\ ledger = <<>>)
<1>1. Verified(snapshot, ledger) /\ Files
  BY DEF Open, IInv
<1>2. committed \in Logs /\ Len(committed) \in Nat /\ committed \o <<>> = committed
  BY <1>1 DEF Files, Logs
<1>3. ledger \in Logs /\ Len(ledger) \in Nat
  BY LedgerIsKnown
<1>4. CASE snapshot = ledger
  <2>1. snapshot # None
    BY <1>3, <1>4, NoSnapshotAssumption
  <2>2. synced \in Len(committed) .. Len(ledger)
    BY <1>1 DEF Files
  <2> QED BY <1>1, <1>2, <1>3, <1>4, <2>1, <2>2 DEF Files, Sound
<1>5. CASE snapshot = None /\ ~ Active(ledger)
  <2>1. committed = <<>>
    BY <1>1, <1>5 DEF Files, Sound
  <2>2. ASSUME NEW e \in Events, doubt = <<e>>, e.kind = "Prepare", ledger = committed \o doubt
        PROVE  FALSE
    <3>1. ledger = <<e>>
      BY <2>1, <2>2
    <3> QED BY <1>5, <2>2, <3>1 DEF Active, Last
  <2>3. ledger = <<>>
    BY <1>1, <1>2, <2>1, <2>2 DEF Files, DoubtOf
  <2> QED BY <1>1, <1>5, <2>1, <2>3, <1>3 DEF Files
<1> QED BY <1>1, <1>3, <1>4, <1>5 DEF Verified

LEMMA OpenIInv ==
  ASSUME IInv, NEW p \in Processes, Open(p)
  PROVE  IInv'
<1>1. /\ phase[p] = "Probed" /\ Go(p, "Idle") /\ ~ torn /\ Verified(snapshot, ledger)
      /\ memory' = [memory EXCEPT ![p] = ledger] /\ committed' = ledger /\ doubt' = <<>>
      /\ UNCHANGED <<staged, attempts, ledger, torn, synced, snapshot>>
      /\ IF entry = "absent" THEN entry' = "synced" /\ snapshotSynced' = snapshot
                             ELSE UNCHANGED <<entry, snapshotSynced>>
  BY DEF Open
<1>2. /\ ledger \in Logs /\ synced = Len(ledger) /\ Len(ledger) \in Nat
      /\ snapshot = ledger \/ (snapshot = None /\ ledger = <<>>)
  BY OpenedIsSynced DEF Logs
<1>3. entry' = "synced" /\ snapshotSynced' = snapshot
  BY <1>1 DEF IInv, Probing, Files
<1>4. Files'
  <2>1. DoubtOf(doubt)'
    BY <1>1 DEF DoubtOf
  <2>2. Sound(snapshot)' /\ Sound(snapshotSynced)'
    BY <1>1, <1>2, <1>3, NoSnapshotAssumption DEF Sound
  <2>3. synced' \in Len(committed') .. Len(ledger')
    BY <1>1, <1>2
  <2>4. torn' = FALSE /\ ledger' = committed' /\ committed' \in Logs
    BY <1>1, <1>2 DEF IInv, Files
  <2> QED BY <1>3, <2>1, <2>2, <2>3, <2>4 DEF Files
<1>5. phase'[p] = "Idle" /\ "Idle" \in Phases /\ memory' \in [Processes -> Logs] /\ memory'[p] = ledger
  BY <1>1, <1>2 DEF Go, IInv, Phases
<1>6. Probing(p)' /\ Quiet(p)' /\ Appended(p)'
  BY <1>1, <1>2, <1>3, <1>5 DEF Probing, Quiet, Appended
<1> QED BY <1>1, <1>4, <1>5, <1>6, OwnerSteps DEF IInv

LEMMA StopIInv ==
  ASSUME IInv, NEW p \in Processes, Stop(p)
  PROVE  IInv'
<1>1. /\ phase[p] # "Stopped" /\ Go(p, "Stopped")
      /\ memory' = [memory EXCEPT ![p] = <<>>] /\ staged' = [staged EXCEPT ![p] = <<>>]
      /\ UNCHANGED <<attempts, ledger, torn, synced, entry, snapshot, snapshotSynced, committed, doubt>>
  BY DEF Stop, ledgerVars, snapshotVars, historyVars
<1>2. Files'
  BY <1>1, SameFiles DEF IInv
<1>3. /\ phase'[p] = "Stopped" /\ "Stopped" \in Phases
      /\ memory' \in [Processes -> Logs] /\ staged' \in [Processes -> Logs]
  BY <1>1 DEF Go, IInv, Phases, Logs
<1> QED BY <1>1, <1>2, <1>3, OwnerSteps DEF IInv, Probing, Quiet, Appended

-----------------------------------------------------------------------------
(* append                                                                   *)

\* The first event of a ledger is a Prepare; the projection's other events need an active
\* intent or a cleanup owner.
LEMMA FirstIsPrepare ==
  ASSUME NEW kind, Accepts(<<>>, kind)
  PROVE  kind = "Prepare"
BY DEF Accepts, Active, CleanupPending

LEMMA WriteIInv ==
  ASSUME IInv, NEW p \in Processes, NEW kind \in Kinds, Write(p, kind)
  PROVE  IInv'
<1> DEFINE e == NewEvent(kind)
<1>1. /\ phase[p] = "Idle" /\ attempts < MaxAttempts /\ Accepts(memory[p], kind)
      /\ attempts' = attempts + 1 /\ staged' = [staged EXCEPT ![p] = <<e>>] /\ doubt' = <<e>>
      /\ UNCHANGED <<memory, synced, entry, snapshot, snapshotSynced, committed>>
  BY DEF Write, Stage, snapshotVars
<1>2. /\ memory[p] = committed /\ ledger = committed /\ synced = Len(committed) /\ ~ torn
      /\ entry = "synced" /\ committed \in Logs /\ attempts \in Nat
      /\ Len(committed) \in Nat /\ torn = FALSE
  BY <1>1 DEF IInv, Quiet, Files, Logs
<1>3. e \in Events
  BY <1>1, <1>2, AttemptsAssumption DEF NewEvent, Events
<1>4. committed = <<>> => e.kind = "Prepare"
  BY <1>1, <1>2, FirstIsPrepare DEF NewEvent
<1> HIDE DEF e
<1>5. DoubtOf(doubt)'
  BY <1>1, <1>3, <1>4 DEF DoubtOf
<1>6. staged' \in [Processes -> Logs] /\ staged'[p] = <<e>> /\ <<e>> # <<>>
  BY <1>1, <1>3 DEF IInv, Logs
<1>7. CASE ledger' = Append(ledger, NewEvent(kind)) /\ torn' = torn /\ Go(p, "Written")
  <2>1. /\ ledger' = committed \o <<e>> /\ Len(ledger') = Len(committed) + 1
        /\ ledger' = committed' \o doubt'
    <3>1. ledger' = Append(committed, e)
      BY <1>2, <1>7 DEF e
    <3>2. committed \in Seq(Events)
      BY <1>2 DEF Logs
    <3>3. Append(committed, e) = committed \o <<e>> /\ Len(committed \o <<e>>) = Len(committed) + 1
      BY <1>3, <3>2, AppendIsConcatenation
    <3> QED BY <1>1, <3>1, <3>3
  <2>2. Sound(snapshot)' /\ Sound(snapshotSynced)'
    BY <1>1, <1>2 DEF IInv, Files, Sound
  <2>3. synced' \in Len(committed') .. Len(ledger')
    BY <1>1, <1>2, <2>1
  <2>4. Files'
    BY <1>1, <1>2, <1>5, <1>7, <2>1, <2>2, <2>3 DEF Files
  <2>5. phase'[p] = "Written" /\ "Written" \in Phases
    BY <1>7 DEF Go, IInv, Phases
  <2>6. Probing(p)' /\ Quiet(p)' /\ Appended(p)'
    BY <1>1, <1>2, <1>6, <1>7, <2>1, <2>5 DEF Probing, Quiet, Appended
  <2> QED BY <1>1, <1>2, <1>6, <1>7, <2>4, <2>5, <2>6, OwnerSteps DEF IInv
<1>8. CASE torn' \in {torn, TRUE} /\ ledger' = ledger /\ Go(p, "Fatal")
  <2>1. Files'
    BY <1>1, <1>2, <1>5, <1>8 DEF IInv, Files, Sound
  <2>2. phase'[p] = "Fatal" /\ "Fatal" \in Phases
    BY <1>8 DEF Go, IInv, Phases
  <2>3. Probing(p)' /\ Quiet(p)' /\ Appended(p)'
    BY <2>2 DEF Probing, Quiet, Appended
  <2> QED BY <1>1, <1>2, <1>6, <1>8, <2>1, <2>2, <2>3, OwnerSteps DEF IInv
<1> QED BY <1>7, <1>8 DEF Write

\* The files while an event is being appended.
LEMMA WhileAppending ==
  ASSUME IInv, NEW p \in Processes, phase[p] \in {"Written", "Synced", "Renamed", "DirectorySynced"}
  PROVE  /\ committed \in Logs /\ ledger \in Logs
         /\ Len(committed) \in Nat /\ Len(ledger) = Len(committed) + 1
         /\ \E e \in Events : doubt = <<e>>
<1>1. /\ committed \in Logs /\ doubt # <<>> /\ ledger = committed \o doubt
  BY DEF IInv, Files, Appended
<1>2. PICK e \in Events : doubt = <<e>>
  BY <1>1 DEF IInv, Files, DoubtOf
<1> QED BY <1>1, <1>2, AppendIsConcatenation DEF Logs

LEMMA SyncLedgerIInv ==
  ASSUME IInv, NEW p \in Processes, SyncLedger(p)
  PROVE  IInv'
<1>1. /\ phase[p] = "Written" /\ synced' = Len(ledger) /\ Go(p, "Synced")
      /\ UNCHANGED <<memory, staged, attempts, ledger, torn, entry, snapshot, snapshotSynced,
                     committed, doubt>>
  BY DEF SyncLedger, snapshotVars, historyVars
<1>2. Len(committed) \in Nat /\ Len(ledger) = Len(committed) + 1
  BY <1>1, WhileAppending
<1>3. Files'
  BY <1>1, <1>2 DEF IInv, Files, DoubtOf, Sound
<1>4. phase'[p] = "Synced" /\ "Synced" \in Phases
  BY <1>1 DEF Go, IInv, Phases
<1>5. Probing(p)' /\ Quiet(p)' /\ Appended(p)'
  BY <1>1, <1>4 DEF IInv, Probing, Quiet, Appended
<1> QED BY <1>1, <1>3, <1>4, <1>5, OwnerSteps DEF IInv

LEMMA RenameSnapshotIInv ==
  ASSUME IInv, NEW p \in Processes, RenameSnapshot(p)
  PROVE  IInv'
<1>1. /\ phase[p] = "Synced" /\ Go(p, "Renamed") /\ snapshot' = memory[p] \o staged[p]
      /\ UNCHANGED <<memory, staged, attempts, ledger, torn, synced, entry, snapshotSynced,
                     committed, doubt>>
  BY DEF RenameSnapshot, ledgerVars, historyVars
<1>2. snapshot' = ledger /\ synced = Len(ledger) /\ entry = "synced"
  BY <1>1 DEF IInv, Appended
<1>3. snapshot' # None
  BY <1>1, <1>2, WhileAppending, NoSnapshotAssumption
<1>4. Files'
  BY <1>1, <1>2, <1>3 DEF IInv, Files, DoubtOf, Sound
<1>5. phase'[p] = "Renamed" /\ "Renamed" \in Phases
  BY <1>1 DEF Go, IInv, Phases
<1>6. Probing(p)' /\ Quiet(p)' /\ Appended(p)'
  BY <1>1, <1>2, <1>5 DEF IInv, Probing, Quiet, Appended
<1> QED BY <1>1, <1>4, <1>5, <1>6, OwnerSteps DEF IInv

LEMMA SyncSnapshotIInv ==
  ASSUME IInv, NEW p \in Processes, SyncSnapshot(p)
  PROVE  IInv'
<1>1. /\ phase[p] = "Renamed" /\ Go(p, "DirectorySynced") /\ snapshotSynced' = snapshot
      /\ entry' = IF entry = "cached" THEN "synced" ELSE entry
      /\ UNCHANGED <<memory, staged, attempts, ledger, torn, synced, snapshot, committed, doubt>>
  BY DEF SyncSnapshot, SyncDirectory, historyVars
<1>2. Files'
  BY <1>1 DEF IInv, Files, DoubtOf, Sound
<1>3. phase'[p] = "DirectorySynced" /\ "DirectorySynced" \in Phases
  BY <1>1 DEF Go, IInv, Phases
<1>4. Probing(p)' /\ Quiet(p)' /\ Appended(p)'
  BY <1>1, <1>3 DEF IInv, Probing, Quiet, Appended
<1> QED BY <1>1, <1>2, <1>3, <1>4, OwnerSteps DEF IInv

\* There is no event that leaves the snapshot as it is.
LEMMA EveryEventChangesTheSnapshot ==
  ASSUME NEW kind \in Kinds
  PROVE  SnapshotChanged(kind)
BY DEF Kinds, SnapshotChanged, ActiveChanged

LEMMA PublishIInv ==
  ASSUME IInv, NEW p \in Processes, Publish(p)
  PROVE  IInv'
<1>1. /\ staged[p] # <<>> /\ Go(p, "Idle")
      /\ phase[p] = IF SnapshotChanged(staged[p][1].kind) THEN "DirectorySynced" ELSE "Synced"
      /\ memory' = [memory EXCEPT ![p] = memory[p] \o staged[p]]
      /\ staged' = [staged EXCEPT ![p] = <<>>]
      /\ committed' = committed \o doubt /\ doubt' = <<>>
      /\ UNCHANGED <<attempts, ledger, torn, synced, entry, snapshot, snapshotSynced>>
  BY DEF Publish, ledgerVars, snapshotVars
<1>2. /\ phase[p] \in {"Synced", "DirectorySynced"}
      /\ memory[p] = committed /\ staged[p] = doubt /\ ledger = committed \o doubt
      /\ ~ torn /\ entry = "synced" /\ synced = Len(ledger)
  BY <1>1 DEF IInv, Appended
<1>3. /\ ledger \in Logs /\ Len(ledger) \in Nat
  BY <1>2, WhileAppending DEF Logs
<1>4. phase[p] = "DirectorySynced"
  <2>1. PICK e \in Events : doubt = <<e>>
    BY <1>2, WhileAppending
  <2>2. e.kind \in Kinds /\ staged[p][1] = e
    BY <1>2, <2>1 DEF Events
  <2> QED BY <1>1, <2>2, EveryEventChangesTheSnapshot
<1>5. snapshot = ledger /\ snapshotSynced = snapshot
  BY <1>4 DEF IInv, Appended
<1>6. committed' = ledger /\ memory' = [memory EXCEPT ![p] = ledger]
  BY <1>1, <1>2
<1>7. Files'
  <2>1. DoubtOf(doubt)' /\ synced' \in Len(committed') .. Len(ledger')
    BY <1>1, <1>2, <1>3, <1>6 DEF DoubtOf
  <2>2. Sound(snapshot)' /\ Sound(snapshotSynced)'
    BY <1>1, <1>3, <1>5, <1>6, NoSnapshotAssumption DEF Sound
  <2> QED BY <1>1, <1>2, <1>3, <1>6, <2>1, <2>2 DEF IInv, Files
<1>8. /\ phase'[p] = "Idle" /\ "Idle" \in Phases /\ memory' \in [Processes -> Logs]
      /\ staged' \in [Processes -> Logs] /\ memory'[p] = ledger
  BY <1>1, <1>3, <1>6 DEF Go, IInv, Phases, Logs
<1>9. Probing(p)' /\ Quiet(p)' /\ Appended(p)'
  BY <1>1, <1>2, <1>5, <1>6, <1>8 DEF Probing, Quiet, Appended, Verified
<1>10. phase[p] # "Stopped"
  BY <1>2
<1> QED BY <1>1, <1>7, <1>8, <1>9, <1>10, OwnerSteps DEF IInv

LEMMA AppendFailsIInv ==
  ASSUME IInv, NEW p \in Processes, AppendFails(p)
  PROVE  IInv'
<1>1. /\ phase[p] # "Stopped" /\ Go(p, "Fatal")
      /\ UNCHANGED <<memory, staged, attempts, ledger, torn, synced, entry, snapshot,
                     snapshotSynced, committed, doubt>>
  BY DEF AppendFails, ledgerVars, snapshotVars, historyVars
<1>2. Files'
  BY <1>1, SameFiles DEF IInv
<1>3. phase'[p] = "Fatal" /\ "Fatal" \in Phases
  BY <1>1 DEF Go, IInv, Phases
<1> QED BY <1>1, <1>2, <1>3, OwnerSteps DEF IInv, Probing, Quiet, Appended

-----------------------------------------------------------------------------
(* Power loss                                                               *)

LEMMA PowerLossIInv ==
  ASSUME IInv, PowerLoss
  PROVE  IInv'
<1>1. /\ phase' = [p \in Processes |-> "Stopped"]
      /\ memory' = [p \in Processes |-> <<>>] /\ staged' = [p \in Processes |-> <<>>]
      /\ snapshot' \in {snapshot, snapshotSynced} /\ snapshotSynced' = snapshot'
      /\ UNCHANGED <<attempts, committed, doubt>>
  BY DEF PowerLoss, historyVars
<1>2. Files'
  <2>1. CASE /\ entry = "cached" /\ entry' = "absent"
             /\ ledger' = <<>> /\ torn' = FALSE /\ synced' = 0
    <3>1. ledger = <<>> /\ committed = <<>> /\ snapshot' = None
      BY <1>1, <2>1 DEF IInv, Files
    <3>2. synced' \in Len(committed') .. Len(ledger')
      BY <1>1, <2>1, <3>1
    <3> QED BY <1>1, <2>1, <3>1, <3>2 DEF IInv, Files, DoubtOf, Sound
  <2>2. ASSUME entry' = IF entry = "absent" THEN "absent" ELSE "synced",
               NEW n \in synced .. Len(ledger),
               ledger' = SubSeq(ledger, 1, n), synced' = n,
               torn' \in IF n < Len(ledger) \/ torn THEN BOOLEAN ELSE {FALSE}
        PROVE  Files'
    <3>1. /\ committed \in Logs /\ DoubtOf(doubt) /\ synced \in Len(committed) .. Len(ledger)
          /\ ledger = committed \/ ledger = committed \o doubt
      BY DEF IInv, Files
    <3>2. /\ Len(committed) \in Nat /\ committed \o <<>> = committed
          /\ SubSeq(committed, 1, Len(committed)) = committed
      BY <3>1 DEF Logs
    <3>3. /\ Len(ledger) \in Nat /\ SubSeq(ledger, 1, Len(ledger)) = ledger
          /\ SubSeq(ledger, 1, Len(committed)) = committed
          /\ Len(ledger) \in {Len(committed), Len(committed) + 1}
      BY LedgerIsKnown
    <3>a. Len(ledger) \in Nat /\ Len(committed) \in Nat /\ Len(committed) <= Len(ledger)
      BY LedgerIsKnown
    <3>4. n = Len(ledger) \/ n = Len(committed)
      <4>1. \A x, y \in Nat : y \in {x, x + 1} => \A z \in x .. y : \A m \in z .. y : m = y \/ m = x
        OBVIOUS
      <4> QED BY <2>2, <3>1, <3>2, <3>3, <4>1
    <3>5. \/ ledger' = ledger /\ n = Len(ledger)
          \/ ledger' = committed /\ n = Len(committed)
      BY <2>2, <3>3, <3>4
    <3>6. synced' \in Len(committed') .. Len(ledger') /\ synced' = Len(ledger')
      <4>1. synced' = Len(ledger') /\ Len(ledger') \in Nat /\ Len(committed') <= Len(ledger')
        <5>1. CASE ledger' = ledger /\ n = Len(ledger)
          BY <1>1, <2>2, <3>a, <5>1
        <5>2. CASE ledger' = committed /\ n = Len(committed)
          BY <1>1, <2>2, <3>a, <5>2
        <5> QED BY <3>5, <5>1, <5>2
      <4>2. Len(committed') \in Nat
        BY <1>1, <3>2
      <4> QED BY <4>1, <4>2
    <3>7. ASSUME NEW snap, Sound(snap)
          PROVE  IF snap = None THEN committed = <<>>
                 ELSE snap = committed \/ (snap = ledger' /\ synced' = Len(ledger'))
      <4>1. CASE snap = None \/ snap = committed
        BY <3>7, <4>1 DEF Sound
      <4>2. CASE snap # None /\ snap # committed
        <5>1. snap = ledger /\ synced = Len(ledger)
          BY <3>7, <4>2 DEF Sound
        <5>2. n = Len(ledger)
          <6>1. n \in Len(ledger) .. Len(ledger)
            BY <2>2, <5>1
          <6> QED BY <3>a, <6>1
        <5> QED BY <2>2, <3>3, <4>2, <5>1, <5>2
      <4> QED BY <4>1, <4>2
    <3>8. Sound(snapshot)' /\ Sound(snapshotSynced)'
      <4>1. Sound(snapshot) /\ Sound(snapshotSynced) /\ committed' = committed
        BY <1>1 DEF IInv, Files
      <4>2. IF snapshot' = None THEN committed = <<>>
            ELSE snapshot' = committed \/ (snapshot' = ledger' /\ synced' = Len(ledger'))
        BY <1>1, <3>7, <4>1
      <4> QED BY <1>1, <4>1, <4>2 DEF Sound
    <3>9. entry' # "synced" => /\ ledger' = <<>> /\ committed' = <<>> /\ torn' = FALSE
                               /\ snapshot' = None /\ snapshotSynced' = None
      <4>1. CASE entry = "absent"
        <5>1. /\ ledger = <<>> /\ committed = <<>> /\ torn = FALSE
              /\ snapshot = None /\ snapshotSynced = None
          BY <4>1 DEF IInv, Files
        <5>2. n = Len(ledger) /\ ledger' = <<>>
          BY <3>5, <5>1
        <5> QED BY <1>1, <2>2, <3>3, <5>1, <5>2
      <4>2. CASE entry # "absent"
        BY <2>2, <4>2
      <4> QED BY <4>1, <4>2
    <3>10. torn' \in BOOLEAN /\ entry' \in {"absent", "cached", "synced"}
      BY <2>2
    <3>11. ledger' = committed' \/ ledger' = committed' \o doubt'
      BY <1>1, <3>1, <3>5
    <3> QED BY <1>1, <3>1, <3>6, <3>8, <3>9, <3>10, <3>11 DEF Files, DoubtOf
  <2> QED BY <2>1, <2>2 DEF PowerLoss
<1>3. /\ phase' \in [Processes -> Phases] /\ memory' \in [Processes -> Logs]
      /\ staged' \in [Processes -> Logs] /\ \A p \in Processes : phase'[p] = "Stopped"
  BY <1>1 DEF Phases, Logs
<1> QED BY <1>1, <1>2, <1>3 DEF IInv, OneOwner, Probing, Quiet, Appended

LEMMA NextIInv == IInv /\ [Next]_vars => IInv'
<1> SUFFICES ASSUME IInv, [Next]_vars
             PROVE  IInv'
  OBVIOUS
<1>1. CASE UNCHANGED vars
  <2>1. UNCHANGED <<phase, memory, staged, attempts, ledger, torn, synced, entry, snapshot,
                    snapshotSynced, committed, doubt>>
    BY <1>1 DEF vars, memVars, ledgerVars, snapshotVars, historyVars
  <2>2. Files'
    BY <2>1, SameFiles DEF IInv
  <2> QED BY <2>1, <2>2 DEF IInv, OneOwner, Probing, Quiet, Appended
<1> QED
  BY <1>1, LockIInv, ProbeIInv, CreateFailsIInv, OpenIInv, StopIInv, WriteIInv, SyncLedgerIInv,
     RenameSnapshotIInv, SyncSnapshotIInv, PublishIInv, AppendFailsIInv, PowerLossIInv
  DEF Next, Opening, Appending

\* The invariant holds in every reachable state.
THEOREM Invariance == Spec => []IInv
  BY InitIInv, NextIInv, PTL DEF Spec

-----------------------------------------------------------------------------
(* Theorems                                                                 *)

\* What an append has returned Ok for, or a restart has rebuilt, is synced, and so is the
\* directory entry that leads to it: no failed call, stop or power loss takes it back.
THEOREM CommittedSurvives == Spec => []CommittedIsDurable
<1>1. ASSUME IInv
      PROVE  CommittedIsDurable
  <2> DEFINE s == SubSeq(ledger, 1, synced)
  <2>1. ledger \in Seq(Events) /\ Len(ledger) \in Nat /\ Len(committed) \in Nat /\ synced \in Nat
        /\ Len(committed) <= synced /\ synced <= Len(ledger)
        /\ SubSeq(ledger, 1, Len(committed)) = committed
    BY <1>1, LedgerIsKnown DEF Logs
  <2>2. Len(s) = synced /\ s \in Seq(Events) /\ \A i \in 1 .. synced : s[i] = ledger[i]
    BY <2>1
  <2>3. SubSeq(s, 1, Len(committed)) = SubSeq(ledger, 1, Len(committed))
    BY <2>1, <2>2
  <2>4. SubSeq(committed, 1, Len(committed)) = committed
    <3>1. committed \in Seq(Events)
      BY <1>1, LedgerIsKnown DEF Logs
    <3> QED BY <3>1
  <2>5. IsPrefix(committed, s)
    BY <2>1, <2>2, <2>3, <2>4 DEF IsPrefix
  <2>6. committed # <<>> => entry = "synced"
    BY <1>1 DEF IInv, Files
  <2> QED BY <2>5, <2>6 DEF CommittedIsDurable
<1>2. IInv => CommittedIsDurable
  BY <1>1
<1> QED BY <1>2, Invariance, PTL

\* The file holds what was relied upon and at most one event more.
THEOREM AtMostOneInDoubt == Spec => []OneInDoubt
<1>1. IInv => OneInDoubt
  BY DEF IInv, Files, OneInDoubt
<1> QED BY <1>1, Invariance, PTL

\* Between two appends memory, ledger and snapshot agree and are durable.
THEOREM QuietLedgersReopen == Spec => []QuietLedgerReopens
<1>1. IInv => QuietLedgerReopens
  BY DEF IInv, Quiet, QuietLedgerReopens
<1> QED BY <1>1, Invariance, PTL

\* The step of a program that opens the ledger.
LEMMA OpensFromProbed ==
  ASSUME IInv, [Next]_vars, NEW p \in Processes, Reopens(p)
  PROVE  Open(p)
<1>1. phase[p] = "Probed" /\ phase'[p] = "Idle"
  BY DEF Reopens
<1>2. CASE UNCHANGED vars
  BY <1>1, <1>2 DEF vars, memVars
<1>3. CASE PowerLoss
  BY <1>1, <1>3 DEF PowerLoss
<1>4. ASSUME NEW q \in Processes, q # p, Opening(q) \/ Appending(q) \/ Stop(q)
      PROVE  FALSE
  <2>1. phase[q] = "Stopped"
    BY <1>1, <1>4 DEF IInv, OneOwner
  <2>2. ~ Lock(q)
    BY <1>1 DEF Lock
  <2> QED BY <1>4, <2>1, <2>2
      DEF Opening, Appending, Stop, Probe, CreateFails, Open, Write, Stage, SyncLedger,
          RenameSnapshot, SyncSnapshot, Publish, AppendFails
<1>5. CASE Opening(p)
  BY <1>1, <1>5 DEF Opening, Lock, Probe, CreateFails, Go, IInv
<1>6. CASE Appending(p) \/ Stop(p)
  BY <1>1, <1>6 DEF Appending, Write, Stage, SyncLedger, RenameSnapshot, SyncSnapshot, Publish,
                    AppendFails, Stop, Go, IInv
<1> QED BY <1>2, <1>3, <1>4, <1>5, <1>6 DEF Next

\* A restart takes the event in doubt over or drops it, and takes over only what is synced.
THEOREM RestartsAreExact == Spec => RestartIsExact
<1>1. ASSUME IInv, [Next]_vars, NEW p \in Processes, Reopens(p)
      PROVE  memory'[p] \in {committed, committed \o doubt} /\ Len(memory'[p]) <= synced
  <2>1. Open(p)
    BY <1>1, OpensFromProbed
  <2>2. memory'[p] = ledger
    BY <1>1, <2>1 DEF Open, IInv
  <2>3. synced = Len(ledger) /\ Len(ledger) \in Nat
    BY <1>1, <2>1, OpenedIsSynced, LedgerIsKnown
  <2> QED BY <1>1, <2>2, <2>3 DEF IInv, Files
<1>2. IInv /\ [Next]_vars => [\A p \in Processes : Reopens(p) =>
                                /\ memory'[p] \in {committed, committed \o doubt}
                                /\ Len(memory'[p]) <= synced]_vars
  BY <1>1
<1> QED BY <1>2, Invariance, PTL DEF Spec, RestartIsExact

\* The files, their caches and their snapshot are an append-only log with one event in doubt.
THEOREM FilesAreADurableLog == Spec => ImplementsDurableLog
<1>1. Init => Log!Init
  BY DEF Init, Log!Init
<1>2. ASSUME IInv, [Next]_vars
      PROVE  [Log!Next]_(Log!logVars)
  <2> SUFFICES ASSUME ~ UNCHANGED <<committed, doubt>>
               PROVE  Log!Next
    BY DEF Log!logVars
  <2>1. ASSUME NEW p \in Processes, Open(p)
        PROVE  Log!Next
    <3>1. committed' = ledger /\ doubt' = <<>>
      BY <2>1 DEF Open
    <3>2. CASE ledger = committed
      BY <3>1, <3>2 DEF Log!Next, Log!Withdraw
    <3>3. CASE ledger # committed
      <4>1. ledger = committed \o doubt
        BY <1>2, <3>3 DEF IInv, Files
      <4>2. doubt # <<>>
        <5>1. committed \o <<>> = committed
          BY <1>2 DEF IInv, Files, Logs
        <5> QED BY <3>3, <4>1, <5>1
      <4> QED BY <3>1, <4>1, <4>2 DEF Log!Next, Log!Confirm
    <3> QED BY <3>2, <3>3
  <2>2. ASSUME NEW p \in Processes, NEW kind \in Kinds, Write(p, kind)
        PROVE  Log!Next
    <3>1. doubt = <<>> /\ doubt' = <<NewEvent(kind)>> /\ UNCHANGED committed /\ attempts < MaxAttempts
      BY <1>2, <2>2 DEF Write, Stage, IInv, Quiet
    <3>2. NewEvent(kind) \in Events
      BY <1>2, <3>1, AttemptsAssumption DEF IInv, NewEvent, Events
    <3> QED BY <3>1, <3>2 DEF Log!Next, Log!Begin
  <2>3. ASSUME NEW p \in Processes, Publish(p)
        PROVE  Log!Next
    <3>1. committed' = committed \o doubt /\ doubt' = <<>> /\ staged[p] # <<>>
      BY <2>3 DEF Publish
    <3>2. doubt # <<>>
      BY <1>2, <2>3 DEF Publish, IInv, Appended
    <3> QED BY <3>1, <3>2 DEF Log!Next, Log!Confirm
  <2>4. ASSUME NEW p \in Processes,
               Lock(p) \/ Probe(p) \/ CreateFails(p) \/ Stop(p) \/ SyncLedger(p)
                 \/ RenameSnapshot(p) \/ SyncSnapshot(p) \/ AppendFails(p)
        PROVE  FALSE
    BY <2>4 DEF Lock, Probe, CreateFails, Stop, SyncLedger, RenameSnapshot, SyncSnapshot,
                AppendFails, historyVars
  <2>5. CASE PowerLoss \/ UNCHANGED vars
    BY <2>5 DEF PowerLoss, vars, historyVars
  <2> QED BY <1>2, <2>1, <2>2, <2>3, <2>4, <2>5 DEF Next, Opening, Appending
<1>3. IInv /\ [Next]_vars => [Log!Next]_(Log!logVars)
  BY <1>2
<1> QED BY <1>1, <1>3, Invariance, PTL DEF Spec, ImplementsDurableLog, Log!Spec

-----------------------------------------------------------------------------
(* LedgerReplay: sequences of lines and of contents                         *)

LEMMA PrefixIs ==
  ASSUME NEW S, NEW s \in Seq(S), NEW t \in Seq(S)
  PROVE  IsPrefix(s, t) <=> Len(s) <= Len(t) /\ \A i \in 1 .. Len(s) : s[i] = t[i]
<1>1. CASE Len(s) <= Len(t)
  <2>1. /\ SubSeq(s, 1, Len(s)) = s
        /\ SubSeq(t, 1, Len(s)) \in Seq(S) /\ Len(SubSeq(t, 1, Len(s))) = Len(s)
        /\ \A i \in 1 .. Len(s) : SubSeq(t, 1, Len(s))[i] = t[i]
    BY <1>1
  <2>2. (\A i \in 1 .. Len(s) : s[i] = t[i]) => s = SubSeq(t, 1, Len(s))
    BY <2>1
  <2> QED BY <1>1, <2>1, <2>2 DEF IsPrefix
<1> QED BY <1>1 DEF IsPrefix

\* What the hash of a line commits to is a prefix of what that of a later one does.
LEMMA PrefixFacts ==
  ASSUME NEW S, NEW s \in Seq(S), NEW t \in Seq(S), NEW u \in Seq(S), NEW e \in S
  PROVE  /\ IsPrefix(<<>>, t) /\ IsPrefix(t, t)
         /\ IsPrefix(s, t) /\ IsPrefix(t, u) => IsPrefix(s, u)
         /\ Append(t, e) \in Seq(S) /\ Append(t, e) # <<>> /\ Len(Append(t, e)) = Len(t) + 1
         /\ IsPrefix(t, Append(t, e))
<1>1. /\ Append(t, e) \in Seq(S) /\ Len(Append(t, e)) = Len(t) + 1 /\ <<>> \in Seq(S)
      /\ \A i \in 1 .. Len(t) : Append(t, e)[i] = t[i]
      /\ Len(s) \in Nat /\ Len(t) \in Nat /\ Len(u) \in Nat /\ Len(<<>>) = 0
  OBVIOUS
<1>2. IsPrefix(<<>>, t) /\ IsPrefix(t, t) /\ IsPrefix(t, Append(t, e))
  <2>1. IsPrefix(<<>>, t) /\ IsPrefix(t, t)
    <3>1. IsPrefix(<<>>, t)
      <4> DEFINE none == <<>>
      <4>1. none \in Seq(S) /\ Len(none) = 0
        BY <1>1
      <4> HIDE DEF none
      <4>2. Len(none) <= Len(t) /\ \A i \in 1 .. Len(none) : none[i] = t[i]
        BY <1>1, <4>1
      <4>3. IsPrefix(none, t)
        BY <4>1, <4>2, PrefixIs
      <4> QED BY <4>3 DEF none
    <3>2. IsPrefix(t, t)
      BY PrefixIs
    <3> QED BY <3>1, <3>2
  <2>2. Len(t) <= Len(Append(t, e)) /\ \A i \in 1 .. Len(t) : t[i] = Append(t, e)[i]
    BY <1>1
  <2>3. Append(t, e) \in Seq(S)
    OBVIOUS
  <2> QED BY <2>1, <2>2, <2>3, PrefixIs
<1>3. IsPrefix(s, t) /\ IsPrefix(t, u) => IsPrefix(s, u)
  <2>1. /\ IsPrefix(s, t) => Len(s) <= Len(t) /\ \A i \in 1 .. Len(s) : s[i] = t[i]
        /\ IsPrefix(t, u) => Len(t) <= Len(u) /\ \A i \in 1 .. Len(t) : t[i] = u[i]
    BY PrefixIs
  <2>2. Len(s) <= Len(u) /\ (\A i \in 1 .. Len(s) : s[i] = u[i]) => IsPrefix(s, u)
    BY PrefixIs
  <2> QED BY <1>1, <2>1, <2>2
<1>4. Append(t, e) # <<>>
  BY <1>1
<1> QED BY <1>1, <1>2, <1>3, <1>4

\* Lines that are lost, repeated or exchanged are lines of the file.
LEMMA MovedLines ==
  ASSUME NEW S, NEW s \in Seq(S), NEW i \in DOMAIN s, NEW j \in DOMAIN s, NEW e \in S
  PROVE  /\ [s EXCEPT ![i] = e] \in Seq(S) /\ RemoveAt(s, i) \in Seq(S)
         /\ InsertAt(s, i, s[j]) \in Seq(S) /\ [s EXCEPT ![i] = s[j], ![j] = s[i]] \in Seq(S)
<1>1. i \in 1 .. Len(s) /\ j \in 1 .. Len(s) /\ Len(s) \in Nat /\ s[i] \in S /\ s[j] \in S
  OBVIOUS
<1>2. /\ SubSeq(s, 1, i - 1) \in Seq(S) /\ SubSeq(s, i + 1, Len(s)) \in Seq(S)
      /\ SubSeq(s, i, Len(s)) \in Seq(S)
  BY <1>1
<1>3. RemoveAt(s, i) \in Seq(S)
  BY <1>2 DEF RemoveAt
<1>4. InsertAt(s, i, s[j]) \in Seq(S)
  <2>1. <<s[j]>> \in Seq(S)
    BY <1>1
  <2>2. SubSeq(s, 1, i - 1) \o <<s[j]>> \in Seq(S)
    BY <1>2, <2>1
  <2> QED BY <1>2, <2>2 DEF InsertAt
<1>5. [s EXCEPT ![i] = e] \in Seq(S)
  OBVIOUS
<1>6. [s EXCEPT ![i] = s[j], ![j] = s[i]] \in Seq(S)
  BY <1>1
<1> QED BY <1>3, <1>4, <1>5, <1>6

-----------------------------------------------------------------------------
(* LedgerReplay: what a valid chain says                                    *)

\* Every line is found valid, or else the first that is not decides.
LEMMA ValidIsEachValid ==
  ASSUME NEW L, lines \in Seq(L), Replay = "Valid"
  PROVE  \A i \in DOMAIN lines : Verdict(i) = "Valid"
<1> DEFINE wrong == { i \in DOMAIN lines : Verdict(i) # "Valid" }
<1> SUFFICES wrong = {}
  OBVIOUS
<1> SUFFICES ASSUME wrong # {}
             PROVE  FALSE
  OBVIOUS
<1>1. wrong \in SUBSET Nat
  OBVIOUS
<1>2. \E i \in wrong : \A j \in wrong : i <= j
  BY <1>1, LeastElement
<1> DEFINE first == CHOOSE i \in wrong : \A j \in wrong : i <= j
<1>3. first \in wrong
  BY <1>2
<1>4. Replay = IF lines # <<>> /\ ~ newline THEN "TruncatedTail" ELSE Verdict(first)
  BY Zenon DEF Replay
<1>5. Verdict(first) # "Valid"
  BY <1>3
<1> HIDE DEF first
<1> QED BY <1>4, <1>5

\* What is known of a line that is found valid.
LEMMA ValidLine ==
  ASSUME NEW i, Verdict(i) = "Valid"
  PROVE  /\ Append(lines[i].previous, Content(lines[i])) = lines[i].hash
         /\ lines[i].previous = IF i = 1 THEN <<>> ELSE lines[i - 1].hash
  <1>1. Digest(lines[i]) = lines[i].hash /\ lines[i].previous = (IF i = 1 THEN <<>> ELSE lines[i - 1].hash)
    <2>1. Decoded(lines[i]) \in {"InvalidJson", "UnsupportedEventKind", "Decoded"}
      BY Zenon DEF Decoded
    <2> QED BY <2>1 DEF Verdict
  <1> QED BY <1>1 DEF Digest

\* The hash of a line of a valid ledger is the contents of all lines up to it: no event of
\* which nobody knows, none left out and none in another place.
LEMMA HashIsContents ==
  ASSUME NEW L, lines \in Seq(L), Replay = "Valid", NEW n \in DOMAIN lines
  PROVE  lines[n].hash = [j \in 1 .. n |-> Content(lines[j])]
<1> DEFINE bad == { i \in DOMAIN lines : lines[i].hash # [j \in 1 .. i |-> Content(lines[j])] }
<1> SUFFICES ASSUME bad # {}
             PROVE  FALSE
  OBVIOUS
<1>1. bad \in SUBSET Nat
  OBVIOUS
<1>2. PICK i \in bad : \A j \in bad : i <= j
  BY <1>1, LeastElement
<1>3. i \in 1 .. Len(lines) /\ lines[i].hash # [j \in 1 .. i |-> Content(lines[j])]
  OBVIOUS
<1>4. /\ Append(lines[i].previous, Content(lines[i])) = lines[i].hash
      /\ lines[i].previous = IF i = 1 THEN <<>> ELSE lines[i - 1].hash
  BY <1>3, ValidIsEachValid, ValidLine
<1> DEFINE C == [j \in 1 .. i - 1 |-> Content(lines[j])]
<1>5. lines[i].previous = C
  <2>1. CASE i = 1
    <3>1. C = <<>>
      BY <2>1
    <3> QED BY <1>4, <2>1, <3>1
  <2>2. CASE i # 1
    <3>1. i - 1 \in DOMAIN lines /\ i - 1 \notin bad
      BY <1>2, <1>3, <2>2
    <3>2. lines[i - 1].hash = [j \in 1 .. i - 1 |-> Content(lines[j])]
      BY <3>1
    <3> QED BY <1>4, <2>2, <3>2
  <2> QED BY <2>1, <2>2
<1>6. Append(C, Content(lines[i])) = [j \in 1 .. i |-> Content(lines[j])]
  <2> DEFINE S == { Content(lines[j]) : j \in 1 .. i }
             F == [j \in 1 .. i |-> Content(lines[j])]
  <2>1. i \in Nat /\ i - 1 \in Nat
    BY <1>3
  <2>2. C \in Seq(S) /\ Len(C) = i - 1 /\ Content(lines[i]) \in S /\ \A j \in 1 .. i - 1 : C[j] = F[j]
    <3>1. \A j \in 1 .. i : Content(lines[j]) \in S
      OBVIOUS
    <3>2. i \in 1 .. i /\ \A j \in 1 .. i - 1 : j \in 1 .. i
      BY <1>3, <2>1
    <3>3. C \in [1 .. i - 1 -> S] /\ Content(lines[i]) \in S
      BY <3>1, <3>2
    <3>4. \A j \in 1 .. i - 1 : C[j] = F[j]
      BY <3>2
    <3> HIDE DEF C, F, S
    <3>5. C \in Seq(S) /\ Len(C) = i - 1
      BY <2>1, <3>3
    <3> QED BY <3>3, <3>4, <3>5
  <2>3. F \in Seq(S) /\ Len(F) = i /\ F[i] = Content(lines[i])
    BY <1>3, <2>1
  <2> HIDE DEF C, F, S
  <2>4. /\ Append(C, Content(lines[i])) \in Seq(S) /\ Len(Append(C, Content(lines[i]))) = i
        /\ \A j \in 1 .. i - 1 : Append(C, Content(lines[i]))[j] = C[j]
        /\ Append(C, Content(lines[i]))[i] = Content(lines[i])
    BY <2>1, <2>2
  <2>5. Append(C, Content(lines[i])) = F
    BY <2>1, <2>2, <2>3, <2>4
  <2> QED BY <2>5 DEF F
<1> QED BY <1>3, <1>4, <1>5, <1>6
-----------------------------------------------------------------------------
(* The invariant                                                            *)

\* What the program that has the ledger open appends to, or the next one should find.
Base == IF headHash = None THEN written ELSE headHash

\* The hashes of a ledger with these contents, and lines that carry no others.
WrittenPrefixes(contents) == { h \in Hashes : IsPrefix(h, contents) }

LinesOf(hashes) == { line \in LedgerLines : line.hash \in hashes }

\* The line was written as event i of the ledger.
LineAsWritten(line, i, contents) ==
  /\ line.shape = "whole" /\ line.schema = Schema /\ line.sequence = i /\ line.id = i
  /\ line.kind \in EventKinds /\ line.payload = Payload(line.kind)
  /\ line.previous = [j \in 1 .. i - 1 |-> contents[j]] /\ line.hash = [j \in 1 .. i |-> contents[j]]
  /\ Content(line) = contents[i] /\ InOrder(line.kind, line.previous)

Untouched ==
  /\ newline = TRUE /\ Len(lines) = Len(written)
  /\ \A i \in 1 .. Len(lines) : LineAsWritten(lines[i], i, written)
  /\ headHash # None => headHash = written

\* Unless one is computed again, every hash in the files was written by the program, whatever
\* else is done to them; a file that was left alone is what the last append made of it.
ReplayInv ==
  /\ written \in Hashes /\ headHash \in Hashes \cup {None} /\ newline \in BOOLEAN
  /\ lines \in Seq(LinesOf(Hashes))
  /\ written = <<>> => lines = <<>>
  /\ ledgerDamage \in Nat /\ snapshotDamage \in Nat
  /\ ~ forged => /\ lines \in Seq(LinesOf(WrittenPrefixes(Base)))
                 /\ headHash # None => IsPrefix(headHash, written)
  /\ snapshotDamage = 0 => /\ snapshotFile = IF written = <<>> THEN None ELSE SnapshotOf(written)
                           /\ headHash # None => headHash = written
  /\ ledgerDamage = 0 => Untouched
  /\ ReadsWhatItWrote

LEMMA BaseIsHash == ReplayInv => Base \in Hashes
  BY DEF ReplayInv, Base

\* A longer ledger has the lines of a shorter one.
LEMMA LinesOfMore ==
  ASSUME NEW s \in Hashes, NEW t \in Hashes, IsPrefix(s, t), NEW file \in Seq(LinesOf(WrittenPrefixes(s)))
  PROVE  file \in Seq(LinesOf(WrittenPrefixes(t)))
<1>1. ASSUME NEW h \in Hashes, IsPrefix(h, s)
      PROVE  IsPrefix(h, t)
  <2>1. CASE EventContents = {}
    <3>1. \A hash \in Hashes : hash = <<>>
      BY <2>1 DEF Hashes
    <3> QED BY <1>1, <3>1
  <2>2. CASE EventContents # {}
    BY <1>1, <2>2, PrefixFacts DEF Hashes
  <2> QED BY <2>1, <2>2
<1>2. LinesOf(WrittenPrefixes(s)) \subseteq LinesOf(WrittenPrefixes(t))
  BY <1>1 DEF LinesOf, WrittenPrefixes
<1> HIDE DEF LinesOf, WrittenPrefixes
<1> QED BY <1>2

LEMMA InitReplay == ReplayInit => ReplayInv
<1> SUFFICES ASSUME ReplayInit
             PROVE  ReplayInv
  OBVIOUS
<1>1. written \in Hashes /\ lines \in Seq(LinesOf(Hashes)) /\ lines \in Seq(LinesOf(WrittenPrefixes(Base)))
  BY DEF ReplayInit, Hashes
<1>2. Untouched
  BY DEF ReplayInit, Untouched
<1> QED BY <1>1, <1>2 DEF ReplayInit, ReplayInv, ReadsWhatItWrote

-----------------------------------------------------------------------------
(* Opening                                                                  *)

\* An open that finds everything valid takes over what the lines of the file say: all that was
\* written if the snapshot was left alone, and a prefix of it if no hash was computed again.
LEMMA OpensToWritten ==
  ASSUME ReplayInv, headHash = None, Replay = "Valid"
  PROVE  /\ ReplayedHead = [i \in DOMAIN lines |-> Content(lines[i])]
         /\ ReplayedHead \in Hashes
         /\ ~ forged => IsPrefix(ReplayedHead, written) /\ lines \in Seq(LinesOf(WrittenPrefixes(ReplayedHead)))
         /\ VerifySnapshot = "Valid" /\ snapshotDamage = 0 => ReplayedHead = written
<1>1. /\ lines \in Seq(LinesOf(Hashes)) /\ written \in Hashes /\ Len(lines) \in Nat
      /\ DOMAIN lines = 1 .. Len(lines)
  BY DEF ReplayInv
<1>2. \A i \in DOMAIN lines : /\ lines[i] \in LedgerLines /\ lines[i].hash \in Hashes
                              /\ lines[i].hash = [j \in 1 .. i |-> Content(lines[j])]
  <2>1. \A i \in DOMAIN lines : lines[i] \in LinesOf(Hashes)
    BY <1>1
  <2>2. \A i \in DOMAIN lines : lines[i].hash = [j \in 1 .. i |-> Content(lines[j])]
    BY <1>1, HashIsContents
  <2> QED BY <2>1, <2>2 DEF LinesOf
<1>3. /\ ReplayedHead = [i \in DOMAIN lines |-> Content(lines[i])]
      /\ ReplayedHead \in Hashes
      /\ lines # <<>> => Len(lines) \in DOMAIN lines /\ ReplayedHead = lines[Len(lines)].hash
  <2>1. CASE lines = <<>>
    <3>1. ReplayedHead = <<>>
      BY <2>1 DEF ReplayedHead
    <3>2. <<>> = [i \in DOMAIN lines |-> Content(lines[i])]
      BY <2>1
    <3>3. <<>> \in Hashes
      BY DEF Hashes
    <3> QED BY <2>1, <3>1, <3>2, <3>3
  <2>2. CASE lines # <<>>
    <3>1. Len(lines) \in DOMAIN lines /\ ReplayedHead = lines[Len(lines)].hash
      BY <1>1, <2>2 DEF ReplayedHead, Last
    <3> QED BY <1>1, <1>2, <3>1
  <2> QED BY <2>1, <2>2
<1>4. Len(ReplayedHead) = Len(lines)
  BY <1>1, <1>3 DEF Hashes
<1>5. \A i \in DOMAIN lines : IsPrefix(lines[i].hash, ReplayedHead)
  <2> SUFFICES ASSUME NEW i \in DOMAIN lines
               PROVE  IsPrefix(lines[i].hash, ReplayedHead)
    OBVIOUS
  <2>1. lines[i].hash \in Seq(EventContents) /\ ReplayedHead \in Seq(EventContents)
    BY <1>2, <1>3 DEF Hashes
  <2>2. i \in 1 .. Len(lines) /\ lines[i].hash = [j \in 1 .. i |-> Content(lines[j])]
    BY <1>1, <1>2
  <2>3. Len(lines[i].hash) = i
    BY <2>1, <2>2
  <2>4. \A j \in 1 .. i : lines[i].hash[j] = ReplayedHead[j]
    BY <1>1, <1>3, <2>2
  <2> QED BY <1>4, <2>1, <2>2, <2>3, <2>4, PrefixIs
<1>6. lines \in Seq(LinesOf(WrittenPrefixes(ReplayedHead)))
  <2>1. \A i \in 1 .. Len(lines) : lines[i] \in LinesOf(WrittenPrefixes(ReplayedHead))
    BY <1>1, <1>2, <1>5 DEF LinesOf, WrittenPrefixes
  <2> HIDE DEF LinesOf
  <2> QED BY <1>1, <2>1
<1>7. ASSUME ~ forged
      PROVE  IsPrefix(ReplayedHead, written)
  <2>1. lines \in Seq(LinesOf(WrittenPrefixes(written)))
    BY <1>7 DEF ReplayInv, Base
  <2>2. CASE lines = <<>>
    <3>1. ReplayedHead = <<>>
      BY <2>2 DEF ReplayedHead
    <3> QED BY <1>1, <3>1 DEF Hashes, IsPrefix
  <2>3. CASE lines # <<>>
    <3>1. lines[Len(lines)] \in LinesOf(WrittenPrefixes(written))
      <4> HIDE DEF LinesOf
      <4> QED BY <1>3, <2>1, <2>3
    <3> QED BY <1>3, <2>3, <3>1 DEF LinesOf, WrittenPrefixes
  <2> QED BY <2>2, <2>3
<1>8. ASSUME VerifySnapshot = "Valid", snapshotDamage = 0
      PROVE  ReplayedHead = written
  <2>1. snapshotFile = IF written = <<>> THEN None ELSE SnapshotOf(written)
    BY <1>8 DEF ReplayInv
  <2>2. CASE written = <<>>
    BY <2>2 DEF ReplayInv, ReplayedHead
  <2>3. CASE written # <<>>
    <3>1. snapshotFile = SnapshotOf(written) /\ snapshotFile # None
      <4>1. SnapshotOf(written) \in SnapshotFiles
        BY <1>1 DEF SnapshotOf, SnapshotFiles, Schema, Hashes, ActiveAfter
      <4> QED BY <2>1, <2>3, <4>1, NoFileAssumption
    <3>2. snapshotFile = SnapshotOf(ReplayedHead)
      BY <1>8, <3>1 DEF VerifySnapshot
    <3> QED BY <3>1, <3>2 DEF SnapshotOf
  <2> QED BY <2>2, <2>3
<1> QED BY <1>3, <1>6, <1>7, <1>8

\* Files that were left alone are found valid.
LEMMA UntouchedIsValid ==
  ASSUME ReplayInv, headHash = None, ledgerDamage = 0
  PROVE  /\ Replay = "Valid" /\ ReplayedHead = written
         /\ snapshotDamage = 0 => VerifySnapshot = "Valid"
<1>1. /\ newline = TRUE /\ Len(lines) = Len(written) /\ written \in Hashes
      /\ \A i \in 1 .. Len(lines) : LineAsWritten(lines[i], i, written)
      /\ DOMAIN lines = 1 .. Len(lines) /\ Len(lines) \in Nat
  <2>1. lines \in Seq(LinesOf(Hashes))
    BY DEF ReplayInv
  <2> QED BY <2>1 DEF ReplayInv, Untouched
<1>2. ASSUME NEW i \in DOMAIN lines
      PROVE  Verdict(i) = "Valid"
  <2>1. LineAsWritten(lines[i], i, written) /\ i \in 1 .. Len(lines)
    BY <1>1
  <2>2. Decoded(lines[i]) = "Decoded"
    <3>1. FieldsOnce(lines[i]) /\ FieldsKnown(lines[i]) /\ Spelled(lines[i])
      BY <2>1 DEF LineAsWritten, FieldsOnce, FieldsKnown, Spelled
    <3>2. lines[i].kind \in EventKinds /\ lines[i].payload[1] = PayloadTypes[lines[i].kind]
      BY <2>1 DEF LineAsWritten, Payload, PayloadTypes, EventKinds
    <3> QED BY <3>1, <3>2 DEF Decoded
  <2>3. Digest(lines[i]) = lines[i].hash
    <3>1. /\ lines[i].previous = [j \in 1 .. i - 1 |-> written[j]] /\ Content(lines[i]) = written[i]
          /\ lines[i].hash = [j \in 1 .. i |-> written[j]]
      BY <2>1 DEF LineAsWritten
    <3>2. written \in Seq(EventContents) /\ i \in 1 .. Len(written)
      BY <1>1, <2>1 DEF Hashes
    <3>3. Append([j \in 1 .. i - 1 |-> written[j]], written[i]) = [j \in 1 .. i |-> written[j]]
      BY <3>2
    <3> QED BY <3>1, <3>3 DEF Digest
  <2>4. ~ \E j \in 1 .. i - 1 : lines[j].id = lines[i].id
    <3>1. \A j \in 1 .. Len(lines) : lines[j].id = j
      BY <1>1 DEF LineAsWritten
    <3>2. \A j \in 1 .. i - 1 : j \in 1 .. Len(lines) /\ j # i
      BY <1>1, <2>1
    <3> QED BY <2>1, <3>1, <3>2
  <2>5. lines[i].previous = IF i = 1 THEN <<>> ELSE lines[i - 1].hash
    <3>1. CASE i = 1
      BY <2>1, <3>1 DEF LineAsWritten
    <3>2. CASE i # 1
      <4>1. i - 1 \in 1 .. Len(lines)
        BY <2>1, <3>2
      <4> QED BY <1>1, <2>1, <3>2, <4>1 DEF LineAsWritten
    <3> QED BY <3>1, <3>2
  <2>6. lines[i].sequence = i /\ lines[i].schema = Schema
    BY <2>1 DEF LineAsWritten
  <2>7. InOrder(lines[i].kind, IF i = 1 THEN <<>> ELSE lines[i - 1].hash)
    BY <2>1, <2>5 DEF LineAsWritten
  <2> QED BY <2>2, <2>3, <2>4, <2>5, <2>6, <2>7 DEF Verdict
<1>3. Replay = "Valid"
  <2>1. { i \in DOMAIN lines : Verdict(i) # "Valid" } = {}
    BY <1>2
  <2> QED BY <1>1, <2>1, Zenon DEF Replay
<1>4. ReplayedHead = written
  <2>1. written \in Seq(EventContents)
    BY <1>1 DEF Hashes
  <2>2. CASE lines = <<>>
    BY <1>1, <2>1, <2>2 DEF ReplayedHead
  <2>3. CASE lines # <<>>
    <3>1. Len(lines) \in 1 .. Len(lines)
      <4>1. lines \in Seq(LinesOf(Hashes))
        BY DEF ReplayInv
      <4> QED BY <1>1, <2>3, <4>1
    <3>2. ReplayedHead = lines[Len(lines)].hash
      BY <2>3 DEF ReplayedHead, Last
    <3>3. lines[Len(lines)].hash = [j \in 1 .. Len(written) |-> written[j]]
      BY <1>1, <3>1 DEF LineAsWritten
    <3> QED BY <2>1, <3>2, <3>3
  <2> QED BY <2>2, <2>3
<1>5. ASSUME snapshotDamage = 0
      PROVE  VerifySnapshot = "Valid"
  <2>1. snapshotFile = IF written = <<>> THEN None ELSE SnapshotOf(written)
    BY <1>5 DEF ReplayInv
  <2>2. CASE written = <<>>
    BY <1>4, <2>1, <2>2 DEF VerifySnapshot, ActiveAfter
  <2>3. CASE written # <<>>
    <3>1. SnapshotOf(written) \in SnapshotFiles
      BY <1>1 DEF SnapshotOf, SnapshotFiles, Schema, Hashes, ActiveAfter
    <3>2. snapshotFile # None /\ snapshotFile.schema = Schema /\ Schema # None
      BY <2>1, <2>3, <3>1, NoFileAssumption DEF SnapshotOf, Schema
    <3> QED BY <1>4, <2>1, <2>3, <3>2 DEF VerifySnapshot
  <2> QED BY <2>2, <2>3
<1> QED BY <1>3, <1>4, <1>5
-----------------------------------------------------------------------------
(* Appending                                                                *)

\* What append writes: the line of the event, and the hash that follows from it.
LEMMA LineIsWritten ==
  ASSUME NEW kind \in EventKinds, headHash \in Hashes, InOrder(kind, headHash)
  PROVE  LET line == Line(kind)
             new == Append(headHash, Content(line))
         IN /\ line \in LedgerLines /\ Content(line) \in EventContents
            /\ line.hash = new /\ new \in Hashes /\ IsPrefix(headHash, new) /\ new # <<>>
            /\ LineAsWritten(line, Len(headHash) + 1, new)
<1> DEFINE n == Len(headHash) + 1
           fields == [shape |-> "whole", schema |-> Schema, sequence |-> n, id |-> n, kind |-> kind,
                      payload |-> Payload(kind), previous |-> headHash, hash |-> <<>>]
           line == [fields EXCEPT !.hash = Digest(fields)]
           content == Content(line)
           new == Append(headHash, content)
<1>1. Line(kind) = line
  BY DEF Line
<1>2. content = [schema |-> Schema, sequence |-> n, id |-> n, kind |-> kind, payload |-> Payload(kind)]
  BY DEF Content
<1>3. Content(fields) = content
  BY <1>2 DEF Content
<1>4. /\ line.shape = "whole" /\ line.schema = Schema /\ line.sequence = n /\ line.id = n
      /\ line.kind = kind /\ line.payload = Payload(kind) /\ line.previous = headHash
      /\ line.hash = new
  BY <1>3 DEF Digest
<1>5. n \in Nat /\ n - 1 = Len(headHash) /\ headHash \in Seq(EventContents)
  BY DEF Hashes
<1>6. Payload(kind) \in Payloads
  BY DEF Payload, Payloads
<1>7. content \in EventContents
  <2>1. Schema \in Nat /\ kind \in LineKinds
    BY DEF Schema, LineKinds
  <2> HIDE DEF n
  <2> QED BY <1>2, <1>5, <1>6, <2>1 DEF EventContents
<1>8. /\ new \in Hashes /\ IsPrefix(headHash, new) /\ new # <<>> /\ Len(new) = n
  BY <1>5, <1>7, PrefixFacts DEF Hashes
<1>9. line \in LedgerLines
  <2>1. line = [shape |-> "whole", schema |-> Schema, sequence |-> n, id |-> n, kind |-> kind,
                payload |-> Payload(kind), previous |-> headHash, hash |-> new]
    <3> DEFINE digest == Digest(fields)
    <3>1. digest = new
      BY <1>3 DEF Digest
    <3> HIDE DEF digest, new, n
    <3>2. line = [fields EXCEPT !.hash = digest]
      BY DEF digest
    <3> QED BY <3>1, <3>2
  <2>2. Schema \in Nat /\ "whole" \in Shapes
    BY DEF Schema, Shapes
  <2> HIDE DEF line, fields, new, n
  <2> QED BY <1>5, <1>6, <1>8, <2>1, <2>2 DEF LedgerLines, LineKinds
<1> HIDE DEF line, fields, content
<1>10. headHash = [j \in 1 .. n - 1 |-> new[j]] /\ new = [j \in 1 .. n |-> new[j]] /\ new[n] = content
  <2>1. new \in Seq(EventContents) /\ Len(new) = n /\ new[n] = content
    BY <1>5, <1>7, <1>8 DEF Hashes
  <2>2. \A j \in 1 .. n - 1 : new[j] = headHash[j]
    BY <1>5, <1>7
  <2> HIDE DEF new, n
  <2>3. new = [j \in 1 .. n |-> new[j]]
    BY <2>1
  <2>4. headHash = [j \in 1 .. n - 1 |-> headHash[j]]
    BY <1>5
  <2>5. [j \in 1 .. n - 1 |-> headHash[j]] = [j \in 1 .. n - 1 |-> new[j]]
    BY <2>2
  <2> QED BY <2>1, <2>3, <2>4, <2>5
<1>11. LineAsWritten(line, n, new)
  BY <1>4, <1>10 DEF LineAsWritten, content
<1> QED BY <1>1, <1>4, <1>7, <1>8, <1>9, <1>11 DEF content

LEMMA AppendKeeps ==
  ASSUME ReplayInv, NEW kind \in EventKinds, AppendEvent(kind)
  PROVE  ReplayInv'
<1> DEFINE line == Line(kind)
           new == Append(headHash, Content(line))
<1>1. headHash \in Hashes /\ headHash # None /\ lines \in Seq(LinesOf(Hashes)) /\ InOrder(kind, headHash)
  BY DEF AppendEvent, ReplayInv
<1>2. /\ line \in LedgerLines /\ line.hash = new /\ new \in Hashes
      /\ IsPrefix(headHash, new) /\ new # <<>> /\ LineAsWritten(line, Len(headHash) + 1, new)
  BY <1>1, LineIsWritten
<1>3. /\ lines' = IF lines # <<>> /\ ~ newline
                  THEN [lines EXCEPT ![Len(lines)].shape = "cut"] ELSE Append(lines, line)
      /\ newline' = TRUE /\ written' = new /\ headHash' = new /\ snapshotFile' = SnapshotOf(new)
      /\ UNCHANGED <<code, ledgerDamage, snapshotDamage, forged>>
  BY <1>2 DEF AppendEvent, damageVars
<1> HIDE DEF line, new
<1>4. headHash' # None /\ Base' = new
  BY <1>2, <1>3, NoFileAssumption DEF Base
<1>5. ASSUME NEW hashes \in SUBSET Hashes, lines \in Seq(LinesOf(hashes)), new \in hashes
      PROVE  lines' \in Seq(LinesOf(hashes))
  <2>1. CASE lines # <<>> /\ ~ newline
    <3>1. Len(lines) \in DOMAIN lines /\ lines[Len(lines)] \in LinesOf(hashes)
      BY <1>5, <2>1
    <3>2. [lines[Len(lines)] EXCEPT !.shape = "cut"] \in LinesOf(hashes)
      <4> DEFINE old == lines[Len(lines)]
      <4>1. old \in LedgerLines /\ old.hash \in hashes
        BY <3>1 DEF LinesOf
      <4> HIDE DEF old
      <4>2. [old EXCEPT !.shape = "cut"] \in LedgerLines /\ [old EXCEPT !.shape = "cut"].hash = old.hash
        BY <4>1 DEF LedgerLines, Shapes
      <4>3. [old EXCEPT !.shape = "cut"] \in LinesOf(hashes)
        BY <4>1, <4>2 DEF LinesOf
      <4> QED BY <4>3 DEF old
    <3> HIDE DEF LinesOf
    <3>3. [lines EXCEPT ![Len(lines)] = [lines[Len(lines)] EXCEPT !.shape = "cut"]] \in Seq(LinesOf(hashes))
      BY <1>5, <3>1, <3>2
    <3> QED BY <1>3, <2>1, <3>3
  <2>2. CASE ~ (lines # <<>> /\ ~ newline)
    <3>1. line \in LinesOf(hashes)
      BY <1>2, <1>5 DEF LinesOf
    <3> HIDE DEF LinesOf
    <3> QED BY <1>3, <1>5, <2>2, <3>1
  <2> QED BY <2>1, <2>2
<1>6. /\ lines' \in Seq(LinesOf(Hashes))
      /\ ~ forged => lines' \in Seq(LinesOf(WrittenPrefixes(new)))
  <2>1. lines' \in Seq(LinesOf(Hashes))
    BY <1>1, <1>2, <1>5
  <2>2. ASSUME ~ forged
        PROVE  lines' \in Seq(LinesOf(WrittenPrefixes(new)))
    <3>1. lines \in Seq(LinesOf(WrittenPrefixes(headHash)))
      BY <1>1, <2>2 DEF ReplayInv, Base
    <3>2. lines \in Seq(LinesOf(WrittenPrefixes(new)))
      BY <1>1, <1>2, <3>1, LinesOfMore
    <3>3. new \in WrittenPrefixes(new) /\ WrittenPrefixes(new) \in SUBSET Hashes
      BY <1>2 DEF WrittenPrefixes, IsPrefix, Hashes
    <3> QED BY <1>5, <3>2, <3>3
  <2> QED BY <2>1, <2>2
<1>7. IsPrefix(headHash', written') /\ written' # <<>>
  BY <1>2, <1>3 DEF IsPrefix, Hashes
<1>8. ASSUME ledgerDamage' = 0
      PROVE  Untouched'
  <2>1. /\ newline = TRUE /\ Len(lines) = Len(written) /\ headHash = written
        /\ \A i \in 1 .. Len(lines) : LineAsWritten(lines[i], i, written)
    BY <1>1, <1>3, <1>8 DEF ReplayInv, Untouched
  <2>2. lines' = Append(lines, line)
    BY <1>3, <2>1
  <2>3. /\ Len(lines') = Len(lines) + 1 /\ lines'[Len(lines) + 1] = line
        /\ \A i \in 1 .. Len(lines) : lines'[i] = lines[i]
        /\ Len(lines) \in Nat
    <3>1. line \in LinesOf(Hashes)
      BY <1>2 DEF LinesOf
    <3> HIDE DEF LinesOf
    <3> QED BY <1>1, <2>2, <3>1
  <2>4. /\ Len(new) = Len(written) + 1
        /\ \A i \in 1 .. Len(written) : new[i] = written[i]
    BY <1>1, <2>1 DEF new, Hashes
  <2>5. ASSUME NEW i \in 1 .. Len(lines')
        PROVE  LineAsWritten(lines'[i], i, new)
    <3>1. CASE i = Len(lines) + 1
      BY <1>2, <2>1, <2>3, <3>1
    <3>2. CASE i # Len(lines) + 1
      <4>1. i \in 1 .. Len(lines) /\ i \in 1 .. Len(written) /\ lines'[i] = lines[i]
        BY <2>1, <2>3, <3>2
      <4>2. \A j \in 1 .. i : new[j] = written[j]
        BY <2>1, <2>3, <2>4, <4>1
      <4>3. [j \in 1 .. i |-> new[j]] = [j \in 1 .. i |-> written[j]] /\ new[i] = written[i]
        BY <4>1, <4>2
      <4>4. [j \in 1 .. i - 1 |-> new[j]] = [j \in 1 .. i - 1 |-> written[j]]
        BY <4>1, <4>2
      <4>5. LineAsWritten(lines[i], i, written)
        BY <2>1, <4>1
      <4> QED BY <4>1, <4>3, <4>4, <4>5 DEF LineAsWritten
    <3> QED BY <3>1, <3>2
  <2> QED BY <1>3, <2>1, <2>3, <2>4, <2>5 DEF Untouched
<1>9. ReadsWhatItWrote'
  BY <1>3 DEF ReplayInv, ReadsWhatItWrote
<1>10. ledgerDamage' \in Nat /\ snapshotDamage' \in Nat
  BY <1>3 DEF ReplayInv
<1>11. /\ (lines \in Seq(LinesOf(Hashes)))'
       /\ (~ forged => lines \in Seq(LinesOf(WrittenPrefixes(Base))))'
  BY <1>3, <1>4, <1>6 DEF LinesOf, WrittenPrefixes, LedgerLines
<1> QED BY <1>2, <1>3, <1>7, <1>8, <1>9, <1>10, <1>11 DEF ReplayInv

-----------------------------------------------------------------------------
(* Damage                                                                   *)

\* One field of a line is changed.
LEMMA ChangedField ==
  ASSUME NEW hashes \in SUBSET Hashes, NEW line \in LinesOf(hashes)
  PROVE  /\ \A s \in Shapes : [line EXCEPT !.shape = s] \in LinesOf(hashes)
         /\ \A k \in LineKinds : [line EXCEPT !.kind = k] \in LinesOf(hashes)
         /\ \A n \in Nat : /\ [line EXCEPT !.schema = n] \in LinesOf(hashes)
                           /\ [line EXCEPT !.sequence = n] \in LinesOf(hashes)
                           /\ [line EXCEPT !.id = n] \in LinesOf(hashes)
         /\ [line EXCEPT !.payload[2] = 2] \in LinesOf(hashes)
         /\ \A h \in Hashes : [line EXCEPT !.previous = h] \in LinesOf(hashes)
         /\ \A h \in hashes : [line EXCEPT !.hash = h] \in LinesOf(hashes)
<1>1. line \in LedgerLines /\ line.hash \in hashes
  BY DEF LinesOf
<1>2. ASSUME NEW new \in LedgerLines, new.hash \in hashes
      PROVE  new \in LinesOf(hashes)
  BY <1>2 DEF LinesOf
<1>3. ASSUME NEW s \in Shapes, NEW k \in LineKinds
      PROVE  /\ [line EXCEPT !.shape = s] \in LedgerLines /\ [line EXCEPT !.shape = s].hash = line.hash
             /\ [line EXCEPT !.kind = k] \in LedgerLines /\ [line EXCEPT !.kind = k].hash = line.hash
  BY <1>1 DEF LedgerLines
<1>4. ASSUME NEW n \in Nat
      PROVE  /\ [line EXCEPT !.schema = n] \in LedgerLines /\ [line EXCEPT !.schema = n].hash = line.hash
             /\ [line EXCEPT !.sequence = n] \in LedgerLines
             /\ [line EXCEPT !.sequence = n].hash = line.hash
             /\ [line EXCEPT !.id = n] \in LedgerLines /\ [line EXCEPT !.id = n].hash = line.hash
  BY <1>1 DEF LedgerLines
<1>5. [line EXCEPT !.payload[2] = 2] \in LedgerLines /\ [line EXCEPT !.payload[2] = 2].hash = line.hash
  <2>1. line.payload \in Payloads
    BY <1>1 DEF LedgerLines
  <2>2. [line.payload EXCEPT ![2] = 2] \in Payloads
    BY <2>1 DEF Payloads
  <2> DEFINE p == [line.payload EXCEPT ![2] = 2]
  <2> HIDE DEF p
  <2>3. [line EXCEPT !.payload = p] \in LedgerLines /\ [line EXCEPT !.payload = p].hash = line.hash
    BY <1>1, <2>2 DEF LedgerLines, p
  <2> QED BY <2>3 DEF p
<1>6. ASSUME NEW h \in Hashes
      PROVE  /\ [line EXCEPT !.previous = h] \in LedgerLines
             /\ [line EXCEPT !.previous = h].hash = line.hash
             /\ [line EXCEPT !.hash = h] \in LedgerLines /\ [line EXCEPT !.hash = h].hash = h
  BY <1>1 DEF LedgerLines
<1> HIDE DEF LinesOf, LedgerLines, Hashes
<1>7. /\ \A s \in Shapes : [line EXCEPT !.shape = s] \in LinesOf(hashes)
      /\ \A k \in LineKinds : [line EXCEPT !.kind = k] \in LinesOf(hashes)
  <2>1. "whole" \in Shapes /\ "submit_started" \in LineKinds
    BY DEF Shapes, LineKinds, EventKinds
  <2> HIDE DEF Shapes, LineKinds
  <2> QED BY <1>1, <1>2, <1>3, <2>1
<1>8. \A n \in Nat : /\ [line EXCEPT !.schema = n] \in LinesOf(hashes)
                     /\ [line EXCEPT !.sequence = n] \in LinesOf(hashes)
                     /\ [line EXCEPT !.id = n] \in LinesOf(hashes)
  BY <1>1, <1>2, <1>4
<1>9. /\ \A h \in Hashes : [line EXCEPT !.previous = h] \in LinesOf(hashes)
      /\ \A h \in hashes : [line EXCEPT !.hash = h] \in LinesOf(hashes)
  BY <1>1, <1>2, <1>6
<1>10. [line EXCEPT !.payload[2] = 2] \in LinesOf(hashes)
  BY <1>1, <1>2, <1>5
<1> QED BY <1>7, <1>8, <1>9, <1>10

\* A hash that is put in a line is one of another line, or none.
LEMMA EditedLines ==
  ASSUME NEW hashes \in SUBSET Hashes, <<>> \in hashes, lines \in Seq(LinesOf(hashes)),
         NEW i \in DOMAIN lines, NEW e \in Edits(lines[i])
  PROVE  e \in LinesOf(hashes)
<1> DEFINE line == lines[i]
           put == {<<>>} \cup { lines[k].hash : k \in DOMAIN lines }
<1>1. \A k \in DOMAIN lines : lines[k] \in LinesOf(hashes)
  <2> HIDE DEF LinesOf
  <2> QED OBVIOUS
<1>2. \A h \in put : h \in Hashes /\ h \in hashes
  BY <1>1 DEF LinesOf
<1>3. \/ \E s \in Shapes \ {"whole"} : e = [line EXCEPT !.shape = s]
      \/ e = [line EXCEPT !.schema = Schema + 1]
      \/ \E n \in 1 .. MaxEvents : e = [line EXCEPT !.sequence = n]
      \/ \E n \in 1 .. MaxEvents : e = [line EXCEPT !.id = n]
      \/ \E k \in LineKinds : e = [line EXCEPT !.kind = k]
      \/ e = [line EXCEPT !.payload[2] = 2]
      \/ \E h \in put : e = [line EXCEPT !.previous = h]
      \/ \E h \in put : e = [line EXCEPT !.hash = h]
  BY Zenon DEF Edits
<1>4. line \in LinesOf(hashes)
  BY <1>1
<1>5. /\ Schema + 1 \in Nat /\ \A n \in 1 .. MaxEvents : n \in Nat
  BY BoundsAssumption DEF Schema
<1> HIDE DEF line, put
<1> HIDE DEF LinesOf
<1>6. /\ \A s \in Shapes : [line EXCEPT !.shape = s] \in LinesOf(hashes)
      /\ \A k \in LineKinds : [line EXCEPT !.kind = k] \in LinesOf(hashes)
      /\ \A n \in Nat : /\ [line EXCEPT !.schema = n] \in LinesOf(hashes)
                        /\ [line EXCEPT !.sequence = n] \in LinesOf(hashes)
                        /\ [line EXCEPT !.id = n] \in LinesOf(hashes)
      /\ [line EXCEPT !.payload[2] = 2] \in LinesOf(hashes)
      /\ \A h \in put : /\ [line EXCEPT !.previous = h] \in LinesOf(hashes)
                           /\ [line EXCEPT !.hash = h] \in LinesOf(hashes)
  BY <1>2, <1>4, ChangedField, Zenon
<1>7. ASSUME NEW s \in Shapes \ {"whole"}, e = [line EXCEPT !.shape = s]
      PROVE  e \in LinesOf(hashes)
  BY <1>6, <1>7, Zenon
<1>8. ASSUME NEW n \in Nat, \/ e = [line EXCEPT !.schema = n] \/ e = [line EXCEPT !.sequence = n]
                             \/ e = [line EXCEPT !.id = n]
      PROVE  e \in LinesOf(hashes)
  BY <1>6, <1>8, Zenon
<1>9. ASSUME NEW h \in put, e = [line EXCEPT !.previous = h] \/ e = [line EXCEPT !.hash = h]
      PROVE  e \in LinesOf(hashes)
  BY <1>6, <1>9, Zenon
<1>10. ASSUME NEW k \in LineKinds, e = [line EXCEPT !.kind = k]
       PROVE  e \in LinesOf(hashes)
  BY <1>6, <1>10, Zenon
<1> QED BY <1>3, <1>5, <1>6, <1>7, <1>8, <1>9, <1>10, Zenon

LEMMA DamagedLines ==
  ASSUME NEW hashes \in SUBSET Hashes, <<>> \in hashes, lines \in Seq(LinesOf(hashes)), NEW file \in Damaged
  PROVE  file \in Seq(LinesOf(hashes))
<1> DEFINE L == LinesOf(hashes)
<1>1. \A i \in DOMAIN lines : \A e \in Edits(lines[i]) : e \in L
  BY EditedLines
<1>2. lines \in Seq(L)
  OBVIOUS
<1> HIDE DEF L
<1>3. \A i \in DOMAIN lines : lines[i] \in L
  BY <1>2
<1>4. ASSUME file \in Edited
      PROVE  file \in Seq(L)
  <2>1. \E i \in DOMAIN lines : file \in { [lines EXCEPT ![i] = e] : e \in Edits(lines[i]) }
    BY <1>4, Zenon DEF Edited
  <2>2. PICK i \in DOMAIN lines : file \in { [lines EXCEPT ![i] = e] : e \in Edits(lines[i]) }
    BY <2>1
  <2>3. PICK e \in Edits(lines[i]) : file = [lines EXCEPT ![i] = e]
    BY <2>2
  <2> QED BY <1>1, <1>2, <2>3, MovedLines
<1>5. ASSUME file \in Lost
      PROVE  file \in Seq(L)
  <2>1. PICK i \in DOMAIN lines : file = RemoveAt(lines, i)
    BY <1>5 DEF Lost
  <2> QED BY <1>2, <1>3, <2>1, MovedLines
<1>6. ASSUME file \in Repeated
      PROVE  file \in Seq(L)
  <2>1. PICK i \in DOMAIN lines, j \in DOMAIN lines : file = InsertAt(lines, i, lines[j])
    BY <1>6 DEF Repeated
  <2> QED BY <1>2, <1>3, <2>1, MovedLines
<1>7. ASSUME file \in Exchanged
      PROVE  file \in Seq(L)
  <2>1. PICK i \in DOMAIN lines, j \in DOMAIN lines :
          file = [lines EXCEPT ![i] = lines[j], ![j] = lines[i]]
    BY <1>7 DEF Exchanged
  <2> QED BY <1>2, <1>3, <2>1, MovedLines
<1> QED BY <1>4, <1>5, <1>6, <1>7 DEF Damaged, L

\* A hash that is computed again is that of some content.
LEMMA RehashedLines ==
  ASSUME lines \in Seq(LinesOf(Hashes)), NEW file \in Rehashed
  PROVE  file \in Seq(LinesOf(Hashes))
<1>1. PICK i \in DOMAIN lines :
        file \in { [lines EXCEPT ![i] = [e EXCEPT !.hash = Digest(e)]] : e \in Edits(lines[i]) }
  BY Zenon DEF Rehashed
<1>2. PICK e \in Edits(lines[i]) : file = [lines EXCEPT ![i] = [e EXCEPT !.hash = Digest(e)]]
  BY <1>1
<1>3. e \in LinesOf(Hashes)
  <2>1. <<>> \in Hashes
    BY DEF Hashes
  <2> QED BY <2>1, EditedLines
<1>4. Digest(e) \in Hashes
  <2>1. e \in LedgerLines
    BY <1>3 DEF LinesOf
  <2>2. Content(e) \in EventContents /\ e.previous \in Seq(EventContents)
    BY <2>1 DEF Content, EventContents, LedgerLines, Hashes
  <2> QED BY <2>2 DEF Digest, Hashes
<1> DEFINE new == [e EXCEPT !.hash = Digest(e)]
<1>5. new \in LinesOf(Hashes)
  BY <1>3, <1>4, ChangedField
<1> HIDE DEF new, LinesOf
<1>6. file = [lines EXCEPT ![i] = new]
  BY <1>2 DEF new
<1> QED BY <1>5, <1>6, MovedLines

LEMMA DamageKeeps ==
  ASSUME ReplayInv, DamageLedger
  PROVE  ReplayInv'
<1>1. /\ UNCHANGED <<written, snapshotFile, earlier, headHash, code, snapshotDamage>>
      /\ ledgerDamage' = ledgerDamage + 1 /\ newline' \in BOOLEAN /\ lines # <<>>
      /\ \/ lines' \in Damaged /\ forged' = forged
         \/ lines' \in Rehashed /\ forged' = TRUE
         \/ (\E n \in 0 .. Len(lines) : lines' = SubSeq(lines, 1, n)) /\ forged' = forged
         \/ lines' = lines /\ forged' = forged
  BY DEF DamageLedger, ReplayInv
<1>2. /\ Base \in Hashes /\ lines \in Seq(LinesOf(Hashes)) /\ ledgerDamage \in Nat
      /\ ~ forged => lines \in Seq(LinesOf(WrittenPrefixes(Base)))
  BY BaseIsHash DEF ReplayInv
<1>3. ASSUME NEW hashes \in SUBSET Hashes, <<>> \in hashes, lines \in Seq(LinesOf(hashes)),
             lines' \notin Rehashed \/ ~ forged'
      PROVE  lines' \in Seq(LinesOf(hashes))
  <2>1. \A n \in 0 .. Len(lines) : SubSeq(lines, 1, n) \in Seq(LinesOf(hashes))
    <3> HIDE DEF LinesOf
    <3> QED BY <1>3
  <2> QED BY <1>1, <1>3, <2>1, DamagedLines
<1>4. <<>> \in Hashes /\ <<>> \in WrittenPrefixes(Base) /\ WrittenPrefixes(Base) \in SUBSET Hashes
  BY <1>2 DEF Hashes, IsPrefix, WrittenPrefixes
<1>5. lines' \in Seq(LinesOf(Hashes))
  BY <1>1, <1>2, <1>3, <1>4, RehashedLines
<1>6. ~ forged' => ~ forged /\ lines' \in Seq(LinesOf(WrittenPrefixes(Base)))
  BY <1>1, <1>2, <1>3, <1>4
<1>7. Base' = Base
  BY <1>1 DEF Base
<1>8. /\ (lines \in Seq(LinesOf(Hashes)))'
      /\ (~ forged => lines \in Seq(LinesOf(WrittenPrefixes(Base))))'
  BY <1>5, <1>6, <1>7 DEF LinesOf, WrittenPrefixes, LedgerLines
<1>9. ledgerDamage' # 0 /\ ledgerDamage' \in Nat
  BY <1>1, <1>2
<1>10. ReadsWhatItWrote'
  BY <1>9 DEF ReadsWhatItWrote
<1>11. written # <<>>
  BY <1>1 DEF ReplayInv
<1> QED BY <1>1, <1>6, <1>8, <1>9, <1>10, <1>11 DEF ReplayInv

-----------------------------------------------------------------------------

LEMMA NextReplay == ReplayInv /\ [ReplayNext]_replayVars => ReplayInv'
<1> SUFFICES ASSUME ReplayInv, [ReplayNext]_replayVars
             PROVE  ReplayInv'
  OBVIOUS
<1>1. CASE OpenLedger
  <2>1. /\ headHash = None
        /\ UNCHANGED <<written, lines, newline, snapshotFile, ledgerDamage, snapshotDamage, forged>>
    BY <1>1 DEF OpenLedger, fileVars, damageVars
  <2> DEFINE error == IF Replay # "Valid" THEN Replay ELSE VerifySnapshot
  <2>2. IF error = "Valid" THEN headHash' = ReplayedHead /\ code' = "Opened"
                           ELSE headHash' = None /\ code' = StartupCode(error)
    BY <1>1, Zenon DEF OpenLedger
  <2>3. ~ forged => lines \in Seq(LinesOf(WrittenPrefixes(written)))
    BY <2>1 DEF ReplayInv, Base
  <2>4. CASE error = "Valid"
    <3>1. Replay = "Valid" /\ VerifySnapshot = "Valid" /\ headHash' = ReplayedHead /\ code' = "Opened"
      BY <2>2, <2>4
    <3>2. /\ ReplayedHead \in Hashes
          /\ ~ forged => IsPrefix(ReplayedHead, written) /\ lines \in Seq(LinesOf(WrittenPrefixes(ReplayedHead)))
          /\ snapshotDamage = 0 => ReplayedHead = written
      BY <2>1, <3>1, OpensToWritten
    <3>3. headHash' # None /\ Base' = ReplayedHead
      BY <3>1, <3>2, NoFileAssumption DEF Base
    <3>4. ledgerDamage = 0 => ReplayedHead = written
      BY <2>1, UntouchedIsValid
    <3>5. (ledgerDamage = 0 => Untouched)'
      BY <2>1, <3>1, <3>4 DEF ReplayInv, Untouched
    <3>6. (~ forged => lines \in Seq(LinesOf(WrittenPrefixes(Base))))'
      BY <2>1, <3>2, <3>3 DEF LinesOf, WrittenPrefixes, LedgerLines
    <3> QED BY <2>1, <3>1, <3>2, <3>5, <3>6 DEF ReplayInv, ReadsWhatItWrote
  <2>5. CASE error # "Valid"
    <3>1. headHash' = None
      BY <2>2, <2>5
    <3>2. ~ (ledgerDamage = 0 /\ snapshotDamage = 0)
      BY <2>1, <2>5, UntouchedIsValid
    <3>3. Base' = written
      BY <2>1, <3>1 DEF Base
    <3>4. (ledgerDamage = 0 => Untouched)'
      BY <2>1, <3>1 DEF ReplayInv, Untouched
    <3>5. ReadsWhatItWrote'
      BY <2>1, <3>2 DEF ReadsWhatItWrote
    <3>6. (~ forged => lines \in Seq(LinesOf(WrittenPrefixes(Base))))'
      BY <2>1, <2>3, <3>3 DEF LinesOf, WrittenPrefixes, LedgerLines
    <3> QED BY <2>1, <3>1, <3>4, <3>5, <3>6 DEF ReplayInv
  <2> QED BY <2>4, <2>5
<1>2. CASE \E kind \in EventKinds : AppendEvent(kind)
  BY <1>2, AppendKeeps
<1>3. CASE Close
  <2>1. /\ headHash # None /\ headHash' = None /\ code' = "Closed"
        /\ UNCHANGED <<written, lines, newline, snapshotFile, ledgerDamage, snapshotDamage, forged>>
    BY <1>3 DEF Close, fileVars, damageVars
  <2>2. Base = headHash /\ Base' = written /\ headHash \in Hashes /\ written \in Hashes
    BY <2>1 DEF Base, ReplayInv
  <2>3. ~ forged => lines \in Seq(LinesOf(WrittenPrefixes(written)))
    BY <2>1, <2>2, LinesOfMore DEF ReplayInv
  <2>4. (ledgerDamage = 0 => Untouched)'
    BY <2>1 DEF ReplayInv, Untouched
  <2>5. (~ forged => lines \in Seq(LinesOf(WrittenPrefixes(Base))))'
    BY <2>1, <2>2, <2>3 DEF LinesOf, WrittenPrefixes, LedgerLines
  <2> QED BY <2>1, <2>4, <2>5 DEF ReplayInv, ReadsWhatItWrote
<1>4. CASE DamageLedger
  BY <1>4, DamageKeeps
<1>5. CASE DamageSnapshot
  <2>1. /\ UNCHANGED <<written, lines, newline, headHash, code, ledgerDamage, forged>>
        /\ snapshotDamage' = snapshotDamage + 1
    BY <1>5 DEF DamageSnapshot
  <2>2. snapshotDamage' # 0 /\ snapshotDamage' \in Nat
    BY <2>1 DEF ReplayInv
  <2>3. Base' = Base /\ (ledgerDamage = 0 => Untouched)'
    BY <2>1 DEF Base, ReplayInv, Untouched
  <2> QED BY <2>1, <2>2, <2>3 DEF ReplayInv, ReadsWhatItWrote
<1>6. CASE UNCHANGED replayVars
  <2>1. UNCHANGED <<written, lines, newline, snapshotFile, headHash, code, ledgerDamage, snapshotDamage,
                    forged>>
    BY <1>6 DEF replayVars, fileVars, damageVars
  <2>2. Base' = Base /\ (ledgerDamage = 0 => Untouched)'
    BY <2>1 DEF Base, ReplayInv, Untouched
  <2> QED BY <2>1, <2>2 DEF ReplayInv, ReadsWhatItWrote
<1> QED BY <1>1, <1>2, <1>3, <1>4, <1>5, <1>6 DEF ReplayNext

\* The invariant holds in every reachable state.
THEOREM ReplayInvariance == ReplaySpec => []ReplayInv
  BY InitReplay, NextReplay, PTL DEF ReplaySpec

\* Files that nobody touched open again, after any number of events and openings: no event is
\* written that its reader refuses, and the snapshot agrees with the ledger.
THEOREM WrittenLedgersOpen == ReplaySpec => []ReadsWhatItWrote
<1>1. ReplayInv => ReadsWhatItWrote
  BY DEF ReplayInv
<1> QED BY <1>1, ReplayInvariance, PTL

\* A ledger that opens beside a snapshot that nobody touched is exactly what was written, whatever
\* was done to its lines and however often, hashes that were computed again included; beside any
\* other snapshot it is a beginning of what was written, unless hashes were computed again.
THEOREM OpenedLedgersAreWritten == ReplaySpec => OpensAsWritten
<1> DEFINE contents == [i \in DOMAIN lines |-> Content(lines[i])]
<1>1. ASSUME ReplayInv, ReplayNext, headHash = None, headHash' # None
      PROVE  /\ snapshotDamage = 0 => contents = written
             /\ ~ forged => IsPrefix(contents, written)
  <2>1. OpenLedger
    BY <1>1 DEF ReplayNext, AppendEvent, Close, DamageLedger, DamageSnapshot
  <2>2. Replay = "Valid" /\ VerifySnapshot = "Valid"
    <3> DEFINE error == IF Replay # "Valid" THEN Replay ELSE VerifySnapshot
    <3>1. IF error = "Valid" THEN headHash' = ReplayedHead /\ code' = "Opened"
                             ELSE headHash' = None /\ code' = StartupCode(error)
      BY <2>1, Zenon DEF OpenLedger
    <3> QED BY <1>1, <3>1
  <2> HIDE DEF contents
  <2>3. ReplayedHead = contents
    BY <1>1, <2>2, OpensToWritten DEF contents
  <2> QED BY <1>1, <2>2, <2>3, OpensToWritten
<1>2. ReplayInv /\ [ReplayNext]_replayVars =>
        [headHash = None /\ headHash' # None =>
           /\ snapshotDamage = 0 => contents = written
           /\ ~ forged => IsPrefix(contents, written)]_replayVars
  BY <1>1
<1> QED BY <1>2, ReplayInvariance, PTL DEF ReplaySpec, OpensAsWritten
=============================================================================
