---------------------------- MODULE RecoveryService ----------------------------
(***************************************************************************)
(* The recovery commands (recovery_service.rs, recovery_cli.rs): an operator *)
(* settles the intent a halted bot has left behind.  Each command is a      *)
(* process of its own that opens the ledger, so that it excludes the bot    *)
(* and every other command; it can end between any two of its steps.        *)
(*                                                                          *)
(* Abstractions.  A command that is refused changes nothing and is left     *)
(* out, and so is the wording of what is printed.  A challenge is a digest  *)
(* of the action, the intent, the sequence number and the head hash; the    *)
(* ledger only grows, so the sequence number stands for the hash.  The      *)
(* operator holds at most one challenge, of any age; the order status a     *)
(* gateway reports is Reports, which RecoveryEvidence derives.              *)
(*                                                                          *)
(* A definition named Faulty... is a mistake the next definition could have *)
(* made; nothing uses it.                                                   *)
(***************************************************************************)
EXTENDS LedgerAccess

RecoveryActions == {"Apply", "Acknowledge", "Cancel"}

Challenges == [action : RecoveryActions, intent : Intents, sequence : 0 .. MaxSequence,
               shown : ActiveIntents \cup {None}]  \* history: what he has seen; nothing compares it

RecoveryCommands == {"reconcile", "prepare_cancel", "cancel", "apply", "acknowledge"}

\* None is no challenge and no command.
ASSUME RecoveryAssumption ==
  None \notin Challenges /\ None \notin [name : RecoveryCommands, intent : Intents]

RecoverySteps == {"Idle", "Reconcile", "Asking", "Answered", "Cancel", "Canceling", "Canceled",
                  "Apply", "Applied", "Acknowledge", "Cleaning", "Cleaned", "Done"}

RemoteEvidence == {"Matched", "NoFill", "Live", "Pending", "Uncertain"}

VARIABLES command,  \* the command that runs: its name and the intent it was given
          step,     \* where it is
          found,    \* what the gateway has answered
          note      \* the challenge the operator holds

commandVars == <<command, step, found>>
recoveryVars == <<commandVars, note>>

RecoveryInit == command = None /\ step = "Idle" /\ found = None /\ note = None

-----------------------------------------------------------------------------
(* Challenges                                                               *)

\* acknowledge_reason: the states that may be acknowledged are those their reason names.
Acknowledgeable(active) == active.state \in AcknowledgeReasons

Applicable(active) == active.state \in {"ReconciledMatched", "RecoveryPositionRecorded"}

\* available_action, and the cancellation that prepare_cancel alone offers
Offered(p, i) ==
  IF ActiveFor(p, i)
  THEN (IF Applicable(p.active) THEN {"Apply"} ELSE {})
       \cup (IF Acknowledgeable(p.active) THEN {"Acknowledge"} ELSE {})
       \cup (IF p.active.state = "ReconciledLive" THEN {"Cancel"} ELSE {})
  ELSE IF p.active = None /\ p.cleanupPending # None /\ p.cleanupPending.intent = i
       THEN {"Acknowledge"} ELSE {}

\* challenge, challenge_for
ChallengeFor(action, i, p) ==
  [action |-> action, intent |-> i, sequence |-> p.sequence, shown |-> p.active]

\* The digest leaves out the ledger head.
FaultyConfirms(action, i, p) ==
  note # None /\ action \in Offered(p, i) /\ note.action = action /\ note.intent = i

\* validate_challenge: the digest of the state the ledger is in now
Confirms(action, i, p) ==
  /\ note # None /\ action \in Offered(p, i)
  /\ note.action = action /\ note.intent = i /\ note.sequence = p.sequence

\* A challenge is printed; the operator copies it or goes on with an older one.
Shows(actions, i, p) ==
  note' \in {note} \cup {ChallengeFor(a, i, p) : a \in Offered(p, i) \cap actions}

-----------------------------------------------------------------------------
(* Commands                                                                 *)

\* inspect: local, and nothing changes.
Inspect(i) ==
  /\ owner = None /\ opens
  /\ Shows({"Apply", "Acknowledge"}, i, disk)
  /\ UNCHANGED <<ledgerVars, owner, marker, exchange, commandVars>>

\* Each command opens the ledger and checks what it was given before it writes.
Begin(name, i, first) ==
  /\ OpenLedger("recovery")
  /\ command' = [name |-> name, intent |-> i]
  /\ step' = first
  /\ UNCHANGED <<marker, exchange, found, note>>

BeginReconcile(i) ==
  \E name \in {"reconcile", "prepare_cancel"} : ActiveFor(disk, i) /\ Begin(name, i, "Reconcile")

BeginCancel(i) == Confirms("Cancel", i, disk) /\ Begin("cancel", i, "Cancel")

BeginApply(i) == Confirms("Apply", i, disk) /\ Begin("apply", i, "Apply")

\* An intent that was acknowledged before only has its marker cleaned up.
BeginAcknowledge(i) ==
  /\ Confirms("Acknowledge", i, disk)
  /\ Begin("acknowledge", i, IF disk.active = None THEN "Cleaning" ELSE "Acknowledge")

Goes(to) == step' = to

\* An append after which the command goes on, or ends with LedgerError.
Write(staged, to) ==
  /\ \/ AppendOk(staged) /\ Goes(to)
     \/ AppendErr(staged) /\ Goes("Done")
  /\ UNCHANGED <<owner, marker, exchange, command, found>>

\* A command whose last append succeeded prints what can be done next.
Prints(actions) ==
  IF proj' # proj THEN Shows(actions, command.intent, proj') ELSE UNCHANGED note

-----------------------------------------------------------------------------
(* reconcile_locked, prepare_cancel, cancel                                 *)

\* A ReconciliationStarted that an interrupted command left behind is not an origin.
FaultyStartReconciliation ==
  /\ step = "Reconcile"
  /\ Write(StageStartReconciliation(proj, command.intent), "Asking")
  /\ UNCHANGED note

StartReconciliation ==
  /\ step = "Reconcile"
  /\ IF proj.active.state = "ReconciliationStarted"
     THEN /\ Goes("Asking")
          /\ UNCHANGED <<ledgerVars, owner, marker, exchange, command, found>>
     ELSE Write(StageStartReconciliation(proj, command.intent), "Asking")
  /\ UNCHANGED note

Fate(o) == IF exchange[o] = None THEN "Unsent" ELSE exchange[o].fate

\* An order the exchange does not know was never filled.
FaultyReports(fate) ==
  (IF fate \in {"Unsent", "InFlight"} THEN {"NoFill"} ELSE {})
  \cup CASE fate = "Filled" -> {"Uncertain", "Matched"}
         [] fate = "Killed" -> {"Uncertain", "NoFill"}
         [] OTHER -> {"Uncertain", "Live", "Pending"}

\* reconcile_exact: a match or a no-fill is reported only of a decided order; a lookup that
\* fails, finds nothing or finds something else is Uncertain.
Reports(fate) ==
  CASE fate = "Unsent" -> {"Uncertain"}
    [] fate = "InFlight" -> {"Uncertain", "Live", "Pending"}
    [] fate = "Filled" -> {"Uncertain", "Matched"}
    [] fate = "Killed" -> {"Uncertain", "NoFill"}

Ask ==
  /\ step = "Asking"
  /\ found' \in Reports(Fate(proj.active.prepared.order))
  /\ Goes("Answered")
  /\ UNCHANGED <<ledgerVars, owner, marker, exchange, command, note>>

\* reconcile_payload; a match carries the amounts of the order, by its side.
Reconciled(active) ==
  IF found = "Matched"
  THEN StageReconciledMatched(proj, active.intent,
         [shares |-> SharesOf(active.prepared), usd |-> UsdOf(active.prepared)])
  ELSE LET class == CASE found = "NoFill" -> "ReconciledNoFill"
                      [] found = "Live" -> "ReconciledLive"
                      [] found = "Pending" -> "ReconciledPending"
                      [] found = "Uncertain" -> "ReconciledUncertain"
       IN  StageReconciledOther(proj, active.intent, class)

\* Only prepare_cancel prints a challenge for a cancellation.
RecordEvidence ==
  /\ step = "Answered"
  /\ Write(Reconciled(proj.active), "Done")
  /\ Prints(IF command.name = "prepare_cancel" THEN {"Cancel"} ELSE {"Apply", "Acknowledge"})

StartCancel ==
  /\ step = "Cancel"
  /\ Write(StageCancelStarted(proj, command.intent), "Canceling")
  /\ UNCHANGED note

\* cancel_exact: whatever it answers, the order may be gone or not.
Cancel ==
  LET o == proj.active.prepared.order
  IN  /\ step = "Canceling"
      /\ \/ Fate(o) = "InFlight" /\ exchange' = [exchange EXCEPT ![o].fate = "Killed"]
         \/ UNCHANGED exchange
      /\ Goes("Canceled")
      /\ UNCHANGED <<ledgerVars, owner, marker, command, found, note>>

ObserveCancel ==
  /\ step = "Canceled"
  /\ Write(StageCancelResponseObserved(proj, command.intent), "Reconcile")
  /\ UNCHANGED note

-----------------------------------------------------------------------------
(* apply                                                                    *)

\* position_for_recovery, apply_open
RecoveredOpening(active) ==
  LET position == [order |-> active.prepared.order, token |-> active.prepared.token,
                   side |-> active.prepared.side, seed |-> active.prepared.purpose.seed,
                   shares |-> active.evidence.amounts.shares,
                   usd |-> active.evidence.amounts.usd, closing |-> None]
  IN  IF PrecheckOpen(active.intent, position)
      THEN StageOpenPosition(proj, active.intent, position) ELSE {}

\* apply_position, apply_close
RecoveredClosing(active) ==
  LET target == active.prepared.purpose.position
      closing == [intent |-> active.intent, order |-> active.prepared.order,
                  shares |-> active.evidence.amounts.shares,
                  usd |-> active.evidence.amounts.usd]
  IN  IF PrecheckClose(target, closing)
      THEN StageClosePosition(proj, active.intent, target, closing) ELSE {}

\* validate_recorded_position: the recorded event is still what the book shows.
RecordedExactly(active) ==
  LET prepared == active.prepared
      amounts == active.evidence.amounts
  IN  IF prepared.purpose.kind = "Entry"
      THEN proj.positions[active.intent] =
             [order |-> prepared.order, token |-> prepared.token, side |-> prepared.side,
              seed |-> prepared.purpose.seed, shares |-> amounts.shares, usd |-> amounts.usd,
              closing |-> None]
      ELSE proj.positions[prepared.purpose.position].closing =
             [intent |-> active.intent, order |-> prepared.order,
              shares |-> amounts.shares, usd |-> amounts.usd]

BookRecovered ==
  LET active == proj.active
  IN  /\ step = "Apply"
      /\ IF active.positionEvent # None
         THEN /\ Goes(IF RecordedExactly(active) THEN "Applied" ELSE "Done")
              /\ UNCHANGED <<ledgerVars, owner, marker, exchange, command, found>>
         ELSE Write(IF active.prepared.purpose.kind = "Entry" THEN RecoveredOpening(active)
                                                             ELSE RecoveredClosing(active),
                    "Applied")
      /\ UNCHANGED note

FinishApply ==
  /\ step = "Applied"
  /\ Write(StageRecoveryApplied(proj, command.intent, proj.active.positionEvent), "Done")
  /\ Prints({"Acknowledge"})

-----------------------------------------------------------------------------
(* acknowledge                                                              *)

Settle ==
  /\ step = "Acknowledge"
  /\ Write(StageAcknowledge(proj, command.intent, proj.active.state), "Cleaning")
  /\ UNCHANGED note

\* A marker that could not be removed does not stop the command.
FaultyCleanMarker ==
  /\ step = "Cleaning"
  /\ marker' \in {marker, FALSE} /\ Goes("Cleaned")
  /\ UNCHANGED <<ledgerVars, owner, exchange, command, found, note>>

\* remove_and_sync; a failure may come before or after the removal.
CleanMarker ==
  /\ step = "Cleaning"
  /\ \/ marker' = FALSE /\ Goes("Cleaned")
     \/ marker' \in {marker, FALSE} /\ Goes("Done")
  /\ UNCHANGED <<ledgerVars, owner, exchange, command, found, note>>

CompleteCleanup ==
  /\ step = "Cleaned"
  /\ Write(StageCleanupCompleted(proj, command.intent), "Done")
  /\ UNCHANGED note

-----------------------------------------------------------------------------

\* The command has returned, or the process was killed where it stood.
EndCommand ==
  /\ owner = "recovery"
  /\ CloseLedger
  /\ command' = None /\ step' = "Idle" /\ found' = None
  /\ UNCHANGED <<marker, exchange, note>>

Proceeds ==
  \/ StartReconciliation \/ Ask \/ RecordEvidence \/ StartCancel \/ Cancel \/ ObserveCancel
  \/ BookRecovered \/ FinishApply \/ Settle \/ CleanMarker \/ CompleteCleanup

BeginSome(i) == BeginReconcile(i) \/ BeginCancel(i) \/ BeginApply(i) \/ BeginAcknowledge(i)

RunsCommand == owner = "recovery" /\ Proceeds

RecoveryNext ==
  \/ RunsCommand
  \/ EndCommand
  \/ \E i \in Intents : Inspect(i) \/ BeginSome(i)
=============================================================================
