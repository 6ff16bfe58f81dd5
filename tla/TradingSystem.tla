----------------------------- MODULE TradingSystem -----------------------------
(***************************************************************************)
(* The bot and the operator's recovery commands on one ledger, one halt     *)
(* marker and one exchange: a bot that has halted is settled by hand and    *)
(* starts again.                                                            *)
(***************************************************************************)
EXTENDS LiveSafety, RecoveryService

systemVars == <<liveVars, recoveryVars>>

botVars == <<breakerVars, callerVars>>
botIdle == <<halted, lock, callerVars>>

SystemInit == LiveInit /\ RecoveryInit

SystemNext ==
  \/ BotNext /\ UNCHANGED recoveryVars
  \/ RecoveryNext /\ UNCHANGED botIdle
  \/ \E o \in Orders : Decide(o) /\ UNCHANGED <<botVars, recoveryVars>>

SystemSpec == SystemInit /\ [][SystemNext]_systemVars

\* A step of a command that goes well: it is not killed, no file call fails, and a lookup
\* reports what the exchange has decided.
Succeeds ==
  \/ step = "Done" /\ step' = "Idle"
  \/ /\ step # "Done" /\ step' # "Idle" /\ ~ fatal'
     /\ step = "Asking" => found' \in {"Matched", "NoFill"}
     /\ step = "Cleaning" => step' = "Cleaned"

\* The operator keeps following what the commands print, the exchange decides every order, and
\* at some point commands go well.  The bot's steps are as fair as in FairLiveSpec, and a fatal
\* error ends it.
FairSystemSpec ==
  /\ SystemSpec
  /\ \A c \in Callers : WF_systemVars((Settling(c) \/ Exit(c)) /\ UNCHANGED recoveryVars)
  /\ \A o \in Orders : WF_systemVars(Decide(o) /\ UNCHANGED <<botVars, recoveryVars>>)
  /\ WF_systemVars((EndCommand \/ RunsCommand) /\ UNCHANGED botIdle)
  /\ <>[][owner = "recovery" /\ step' # step => Succeeds]_systemVars
  /\ \A i \in Intents :
       /\ SF_systemVars(BeginReconcile(i) /\ UNCHANGED botIdle)
       /\ SF_systemVars((BeginApply(i) \/ BeginAcknowledge(i)) /\ UNCHANGED botIdle)
       /\ SF_systemVars(Inspect(i) /\ note' # note /\ UNCHANGED botIdle)

-----------------------------------------------------------------------------
(* Properties                                                               *)

\* The variables have their types, and a recovery step is taken only by a command that has
\* the ledger open, on the intent it was given.
SystemTypeOK ==
  /\ LiveTypeOK
  /\ command \in [name : RecoveryCommands, intent : Intents] \cup {None}
  /\ step \in RecoverySteps /\ found \in RemoteEvidence \cup {None}
  /\ note \in Challenges \cup {None}
  /\ command # None <=> owner = "recovery"
  /\ step \notin {"Idle", "Cleaning", "Cleaned", "Done"} => ActiveFor(proj, command.intent)

\* What recovery settles agrees with what the exchange did, also when a cancellation races the
\* fill, when a command is interrupted or when an answer is older than the fill.
SettledOrdersAgree == BookMatchesExchange /\ JournaledBeforePost

\* The marker and the pending cleanup relieve each other without a gap: no command removes the
\* marker before the ledger file says that its intent is acknowledged, and none completes the
\* cleanup before the marker is gone.
MarkerOutlivesIntent ==
  [][/\ owner = "recovery" /\ marker /\ ~ marker'
         => disk.active = None /\ disk.cleanupPending # None
     /\ disk.cleanupPending # None /\ disk'.cleanupPending = None => ~ marker]_systemVars

\* What an operator confirms happens to the intent he was shown: a cancellation request, a
\* recovered position and a settlement follow on nothing but the state the challenge was
\* printed for.
ConfirmedAsShown ==
  [][owner = "recovery" =>
      /\ disk'.active # disk.active /\ step \in {"Cancel", "Apply", "Acknowledge"}
           => note # None /\ note.shown = disk.active
      /\ disk'.positions # disk.positions => note # None /\ note.shown = disk.active
      /\ disk.active # None /\ disk'.active = None => note # None /\ note.shown = disk.active]_systemVars

Resolvable ==
  \/ /\ disk.active # None
     /\ (~ BotRuns /\ disk.active.state = "NotSent") \/ Posted(disk.active.prepared.order)
  \/ disk.cleanupPending # None

Stuck == ~ opens \/ disk.sequence = MaxSequence

\* Every state an intent can be left in has a way out: an order that reached the exchange, or
\* that never left, is settled in the end, and the marker with it.  (The ledger itself may be
\* beyond repair, or full.)
EveryIntentSettles == Resolvable ~> (disk.active = None /\ disk.cleanupPending = None) \/ Stuck

\* Orders are sent one at a time and once each, and settled with their fate in the book, also
\* across halts that were settled by hand.
SystemImplementsOrderAccount == Account!Spec
=============================================================================
