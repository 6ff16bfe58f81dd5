------------------------------- MODULE LedgerFiles -------------------------------
(***************************************************************************)
(* Which file an open of the execution ledger gets hold of: the checks of   *)
(* the names, the two locks and the checks of what was opened               *)
(* (execution_ledger/storage.rs, as built for unix), while names are        *)
(* removed, linked and moved around it.                                     *)
(*                                                                          *)
(* Each program is configured with a directory, in which the ledger and its *)
(* lock file have a name.  A name is free, leads to a file, or is a         *)
(* symbolic link.  The operator may do anything between any two steps but   *)
(* take the ledger's own name away from a program that has it open, which   *)
(* the README forbids.  LedgerStorage has what is written to the files,     *)
(* LedgerReplay what is read from them.                                     *)
(***************************************************************************)
CONSTANTS Processes, Dirs, Files, None, Symlink

\* What the names lead to is told apart.
NamesDiffer == None \notin Files /\ Symlink \notin Files /\ None # Symlink /\ None \notin Processes

VARIABLES dir,      \* the directory each program is configured with
          ledger,   \* what the name of the ledger leads to in each directory
          lock,     \* and that of the lock file
          parentLock, \* the directories that are locked
          phase,    \* how far each program's open is
          lockFile, \* the lock file it has opened
          file,     \* the ledger it has opened
          home      \* history: the directory a ledger belongs to

nameVars == <<ledger, lock, home>>
openVars == <<parentLock, phase, lockFile, file>>
vars == <<dir, nameVars, openVars>>

Init ==
  /\ dir \in [Processes -> Dirs]
  /\ ledger = [d \in Dirs |-> None] /\ lock = [d \in Dirs |-> None]
  /\ parentLock = [d \in Dirs |-> None]
  /\ phase = [p \in Processes |-> "Stopped"]
  /\ lockFile = [p \in Processes |-> None] /\ file = [p \in Processes |-> None]
  /\ home = [f \in Files |-> None]

\* The names and the programs that keep a file in existence.
Linked(f) == { d \in Dirs : ledger[d] = f \/ lock[d] = f }

Unused(f) == Linked(f) = {} /\ \A p \in Processes : file[p] # f /\ lockFile[p] # f

\* reject_metadata: neither a symbolic link nor a file with a second name.
Plain(entry) == entry # Symlink /\ (entry \in Files => \A d, e \in Linked(entry) : d = e)

-----------------------------------------------------------------------------
(* open_with_ops                                                            *)

Go(p, to) == phase' = [phase EXCEPT ![p] = to]

\* Drop, an error or a crash: the operating system takes the locks back.
Leave(p) ==
  /\ Go(p, "Stopped")
  /\ parentLock' = [d \in Dirs |-> IF parentLock[d] = p THEN None ELSE parentLock[d]]
  /\ lockFile' = [lockFile EXCEPT ![p] = None] /\ file' = [file EXCEPT ![p] = None]

Close(p) ==
  /\ phase[p] # "Stopped"
  /\ Leave(p) /\ UNCHANGED <<dir, nameVars>>

\* LedgerPaths::derive, reject_existing_target.
Derive(p) ==
  /\ phase[p] = "Stopped"
  /\ Plain(ledger[dir[p]]) /\ Plain(lock[dir[p]])
  /\ Go(p, "Derived")
  /\ UNCHANGED <<dir, nameVars, parentLock, lockFile, file>>

\* open_parent_lock: another program's lock ends the open.
LockParent(p) ==
  /\ phase[p] = "Derived"
  /\ IF parentLock[dir[p]] = None
     THEN /\ parentLock' = [parentLock EXCEPT ![dir[p]] = p] /\ Go(p, "Parent")
          /\ UNCHANGED <<lockFile, file>>
     ELSE Leave(p)
  /\ UNCHANGED <<dir, nameVars>>

\* open_restrictive: create_new, and if the name is taken the file it leads to; a symbolic link
\* is not followed.
Opened(entry, f) == IF entry = None THEN Unused(f) ELSE f = entry /\ entry # Symlink

OpenLock(p) ==
  /\ phase[p] = "Parent"
  /\ \/ \E f \in Files :
          /\ Opened(lock[dir[p]], f)
          /\ lockFile' = [lockFile EXCEPT ![p] = f] /\ lock' = [lock EXCEPT ![dir[p]] = f]
          /\ Go(p, "LockOpened") /\ UNCHANGED <<parentLock, file>>
     \/ lock[dir[p]] = Symlink /\ Leave(p) /\ UNCHANGED lock
  /\ UNCHANGED <<dir, ledger, home>>

\* validate_opened_target: the name still leads to the file, and no other does.
Sound(entry, f) == entry = f /\ Plain(f)

\* acquire_lifetime_lock
HoldsLock(p) == phase[p] \in {"Locked", "LedgerOpened", "Idle"}

TakeLock(p) ==
  /\ phase[p] = "LockOpened"
  /\ IF /\ Sound(lock[dir[p]], lockFile[p])
        /\ \A q \in Processes \ {p} : HoldsLock(q) => lockFile[q] # lockFile[p]
     THEN Go(p, "Locked") /\ UNCHANGED <<parentLock, lockFile, file>>
     ELSE Leave(p)
  /\ UNCHANGED <<dir, nameVars>>

OpenLedger(p) ==
  /\ phase[p] = "Locked"
  /\ \/ \E f \in Files :
          /\ Opened(ledger[dir[p]], f)
          /\ file' = [file EXCEPT ![p] = f] /\ ledger' = [ledger EXCEPT ![dir[p]] = f]
          /\ home' = IF ledger[dir[p]] = None THEN [home EXCEPT ![f] = dir[p]] ELSE home
          /\ Go(p, "LedgerOpened") /\ UNCHANGED <<parentLock, lockFile>>
     \/ ledger[dir[p]] = Symlink /\ Leave(p) /\ UNCHANGED <<ledger, home>>
  /\ UNCHANGED <<dir, lock>>

\* validate_opened_target; what the file and the snapshot hold is found in order.
ValidateLedger(p) ==
  /\ phase[p] = "LedgerOpened"
  /\ IF Sound(ledger[dir[p]], file[p])
     THEN Go(p, "Idle") /\ UNCHANGED <<parentLock, lockFile, file>>
     ELSE Leave(p)
  /\ UNCHANGED <<dir, nameVars>>

-----------------------------------------------------------------------------
(* The operator                                                             *)

InUse(f) == \E p \in Processes : phase[p] = "Idle" /\ file[p] = f

\* rm <ledger>.lock, whoever holds it.
RemoveLock(d) ==
  /\ lock[d] # None /\ lock' = [lock EXCEPT ![d] = None]
  /\ UNCHANGED <<dir, ledger, home, openVars>>

Elsewhere(d) == { e \in Dirs \ {d} : ledger[e] = ledger[d] }

\* rm <ledger>: a name beside the ledger's own, or the own name of one that nobody uses, which
\* then belongs to the directory where it still has a name.
RemoveLedger(d) ==
  /\ ledger[d] # None
  /\ ledger[d] \in Files => ~ InUse(ledger[d]) \/ home[ledger[d]] # d
  /\ ledger' = [ledger EXCEPT ![d] = None]
  /\ IF ledger[d] \in Files /\ home[ledger[d]] = d
     THEN \E e \in IF Elsewhere(d) = {} THEN {None} ELSE Elsewhere(d) :
            home' = [home EXCEPT ![ledger[d]] = e]
     ELSE UNCHANGED home
  /\ UNCHANGED <<dir, lock, openVars>>

\* ln, ln -s
LinkLedger(d) ==
  /\ ledger[d] = None
  /\ \E entry \in {Symlink} \cup { ledger[e] : e \in Dirs } : ledger' = [ledger EXCEPT ![d] = entry]
  /\ UNCHANGED <<dir, lock, home, openVars>>

LinkLock(d) ==
  /\ lock[d] = None
  /\ \E entry \in {Symlink} \cup { lock[e] : e \in Dirs } : lock' = [lock EXCEPT ![d] = entry]
  /\ UNCHANGED <<dir, ledger, home, openVars>>

-----------------------------------------------------------------------------

Opening(p) ==
  Derive(p) \/ LockParent(p) \/ OpenLock(p) \/ TakeLock(p) \/ OpenLedger(p) \/ ValidateLedger(p) \/ Close(p)

Operator(d) == RemoveLock(d) \/ RemoveLedger(d) \/ LinkLedger(d) \/ LinkLock(d)

Next == (\E p \in Processes : Opening(p)) \/ (\E d \in Dirs : Operator(d))

Spec == Init /\ [][Next]_vars

-----------------------------------------------------------------------------
(* Properties                                                               *)

\* The variables have their types; who is stopped holds no lock and no file.
TypeOK ==
  /\ dir \in [Processes -> Dirs]
  /\ {ledger, lock} \subseteq [Dirs -> Files \cup {None, Symlink}]
  /\ parentLock \in [Dirs -> Processes \cup {None}]
  /\ phase \in [Processes -> {"Stopped", "Derived", "Parent", "LockOpened", "Locked", "LedgerOpened", "Idle"}]
  /\ {lockFile, file} \subseteq [Processes -> Files \cup {None}]
  /\ home \in [Files -> Dirs \cup {None}]
  /\ \A p \in Processes : phase[p] \in {"Stopped", "Derived"} =>
        lockFile[p] = None /\ file[p] = None /\ \A d \in Dirs : parentLock[d] # p

\* No two programs append to the same ledger, by whatever names they came to it and whoever
\* removed or replaced the lock file in between.
OneWriter ==
  \A p, q \in Processes : phase[p] = "Idle" /\ phase[q] = "Idle" /\ file[p] = file[q] => p = q

\* A program appends to the ledger of its own directory only, not to another's that was linked
\* there while it opened it.
OwnLedgerOnly == \A p \in Processes : phase[p] = "Idle" => home[file[p]] = dir[p]
=============================================================================
