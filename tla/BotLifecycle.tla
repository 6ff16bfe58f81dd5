------------------------------ MODULE BotLifecycle ------------------------------
(***************************************************************************)
(* How a bot is started, watched and stopped: a process that runs one bot   *)
(* (main.rs) or the menu that launches one after the other (ui/mod.rs), the *)
(* start of the copy bot (copy_trading.rs, order_executor.rs), its loop and *)
(* the monitor of its positions (position_monitor.rs), a task that only a   *)
(* failure of its own or the end of the process ends.                       *)
(*                                                                          *)
(* Of the ledger only its lock and whether an intent is unresolved are      *)
(* kept, of a submission its preparation, which waits for requests without  *)
(* a timeout, and what follows the journal, which is bounded: LiveExecution *)
(* and LedgerStorage have the steps.  Runs are the runs of bots within a    *)
(* process; a run that has left nothing behind is used again.               *)
(*                                                                          *)
(* A definition named Faulty... is a mistake the next definition could have *)
(* made; nothing uses it.                                                   *)
(***************************************************************************)
EXTENDS Naturals, FiniteSets

CONSTANTS Runs, None

ASSUME NoneAssumption == None \notin Runs \cup {"ActiveUnresolved", "CleanupPending", "OrphanMarker"}

VARIABLES live,         \* live_trading_allowed(), for good
          process,      \* "Down", "Headless" (run <bot>) or "Menu" (the terminal menu)
          bot,          \* the run of the copy bot, or None
          loop,         \* where its start or its loop is
          signal,       \* ctrl-c was pressed since the loop began
          monitor,      \* the monitor of each run
          halted,       \* the runs whose breaker is halted
          ledger,       \* "Clean", "Active" or "Cleanup" (pending)
          marker,       \* the halt marker file exists
          recovering,   \* a recovery command has the ledger open
          code          \* why the last start was refused

botVars == <<bot, loop, signal>>
fileVars == <<ledger, marker, recovering>>
vars == <<live, process, botVars, monitor, halted, fileVars, code>>

Init ==
  /\ live \in BOOLEAN /\ process = "Down"
  /\ bot = None /\ loop = "Off" /\ signal = FALSE
  /\ monitor = [r \in Runs |-> "None"] /\ halted = {}
  /\ ledger = "Clean" /\ marker = FALSE /\ recovering = FALSE /\ code = None

Goes(place) == loop' = place /\ UNCHANGED <<live, process, bot>>

\* The ledger stays locked as long as anyone holds the Arc: the executor or the monitor's task.
Holders ==
  { r \in Runs : \/ live /\ bot = r /\ loop \notin {"Off", "Opening"}
                 \/ monitor[r] \in {"Waiting", "Preparing", "Submitting"} }

\* Between its turn at the submission lock and the end of submit_fok.
InSubmission(place) == place \in {"Preparing", "Submitting"}

\* The runs that have an order in the journal and no answer yet.
Submitting == { r \in Runs : bot = r /\ loop = "Submitting" } \cup { r \in Runs : monitor[r] = "Submitting" }

-----------------------------------------------------------------------------
(* The process                                                              *)

\* The end of a process ends its tasks, wherever they are.
EndProcess ==
  /\ process' = "Down" /\ bot' = None /\ loop' = "Off" /\ signal' = FALSE
  /\ monitor' = [r \in Runs |-> "None"] /\ halted' = {}
  /\ UNCHANGED live

\* bot::run returns, with the breaker of the runs in `stopped` halted.  Headless, that is the
\* end of the process; the menu comes back, and the monitor goes on: a JoinHandle that is
\* dropped does not abort its task.
ReturnHalted(stopped) ==
  IF process = "Headless" THEN EndProcess
  ELSE /\ bot' = None /\ loop' = "Off" /\ signal' = FALSE
       /\ monitor' = [monitor EXCEPT ![bot] = IF @ = "Failed" THEN "None" ELSE @]
       /\ halted' = halted \cup stopped
       /\ UNCHANGED <<live, process>>

Return == ReturnHalted({})

Idle(r) == bot = None /\ monitor[r] = "None"

Begin(r, kind) ==
  /\ process' = kind /\ bot' = r /\ loop' = "Opening" /\ signal' = FALSE
  /\ halted' = halted \ {r} /\ code' = None
  /\ UNCHANGED <<live, monitor, fileVars>>

RunHeadless(r) == process = "Down" /\ Begin(r, "Headless")

OpenMenu ==
  /\ process = "Down" /\ process' = "Menu"
  /\ UNCHANGED <<live, botVars, monitor, halted, fileVars, code>>

LaunchFromMenu(r) == process = "Menu" /\ Idle(r) /\ Begin(r, "Menu")

Quit ==
  /\ process = "Menu" /\ bot = None
  /\ EndProcess /\ UNCHANGED <<fileVars, code>>

Crash ==
  /\ process # "Down"
  /\ EndProcess /\ UNCHANGED <<fileVars, code>>

-----------------------------------------------------------------------------
(* The start of the copy bot                                                *)

Refuse(why) == Return /\ code' = why /\ UNCHANGED fileVars

\* ExecutionLedger::open_live.
Open ==
  /\ loop = "Opening" /\ live
  /\ IF Holders = {} /\ ~ recovering
     THEN Goes("Checking") /\ UNCHANGED <<signal, monitor, halted, fileVars, code>>
     ELSE Refuse("LedgerLocked")

\* No tracked wallet, or a live configuration that is not valid.
Invalid == loop = "Opening" /\ Refuse("Configuration")

\* Strict dry run: neither ledger nor gateway nor monitor.
OpenPaper ==
  /\ loop = "Opening" /\ ~ live
  /\ Goes("Filter") /\ UNCHANGED <<signal, monitor, halted, fileVars, code>>

StartupCode ==
  CASE ledger = "Active" -> "ActiveUnresolved"
    [] ledger = "Cleanup" -> "CleanupPending"
    [] ledger = "Clean" /\ marker -> "OrphanMarker"
    [] OTHER -> None

\* Only the marker is looked for.
FaultyCheck ==
  /\ loop = "Checking"
  /\ IF ~ marker
     THEN Goes("Gateway") /\ UNCHANGED <<signal, monitor, halted, fileVars, code>>
     ELSE Refuse("OrphanMarker")

\* ExecutionCircuitBreaker::new_live, whose directory has to be there and to take a file.
Check ==
  /\ loop = "Checking"
  /\ \/ StartupCode # None /\ Refuse(StartupCode)
     \/ StartupCode = None /\ Refuse("HaltMarkerUnavailable")
     \/ StartupCode = None /\ Goes("Gateway") /\ UNCHANGED <<signal, monitor, halted, fileVars, code>>

BuildGateway ==
  /\ loop = "Gateway"
  /\ \/ Goes("Spawn") /\ UNCHANGED <<signal, monitor, halted, fileVars, code>>
     \/ Refuse("Gateway")

\* The exits are enabled or not.
SpawnMonitor ==
  /\ loop = "Spawn"
  /\ Goes("Filter")
  /\ \E place \in {"None", "Waiting"} : monitor' = [monitor EXCEPT ![bot] = place]
  /\ UNCHANGED <<signal, halted, fileVars, code>>

\* build_filter, which refuses a wallet that is no address only after the monitor was spawned.
BuildFilter ==
  /\ loop = "Filter"
  /\ \/ Goes("Waiting") /\ UNCHANGED <<signal, monitor, halted, fileVars, code>>
     \/ Refuse("Wallet")

-----------------------------------------------------------------------------
(* The loop: biased, so that the monitor's end comes before ctrl-c, and that before a log *)

MonitorEnded == loop = "Waiting" /\ monitor[bot] = "Failed"

Stop ==
  /\ loop = "Waiting" /\ (MonitorEnded \/ signal)
  /\ Return /\ UNCHANGED <<fileVars, code>>

\* The branches of the select are taken in any order.
FaultyTakeLog ==
  /\ loop = "Waiting"
  /\ Goes("Handling") /\ UNCHANGED <<signal, monitor, halted, fileVars, code>>

TakeLog ==
  /\ loop = "Waiting" /\ ~ MonitorEnded /\ ~ signal
  /\ Goes("Handling") /\ UNCHANGED <<signal, monitor, halted, fileVars, code>>

\* handle_log: not submitted, for whatever reason, or waiting for the submission lock.
Handle ==
  /\ loop = "Handling"
  /\ \/ Goes("Waiting")
     \/ live /\ Goes("Queued")
  /\ UNCHANGED <<signal, monitor, halted, fileVars, code>>

\* submit_fok: a breaker that is halted stops every submission of its run.
MayBegin(r) == r \notin halted

EnterSubmission ==
  /\ loop = "Queued" /\ ~ InSubmission(monitor[bot])
  /\ IF MayBegin(bot)
     THEN Goes("Preparing") /\ UNCHANGED <<signal, monitor, halted, fileVars, code>>
     ELSE Return /\ UNCHANGED <<fileVars, code>>

\* prepare_fok, under the lock: the market's data is asked for, the order built and signed.
PrepareFails ==
  /\ loop = "Preparing"
  /\ Goes("Waiting") /\ UNCHANGED <<signal, monitor, halted, fileVars, code>>

\* The marker may not get written.
Marks == marker' \in {marker, TRUE} /\ UNCHANGED recovering

\* before_post.
Journal ==
  /\ loop = "Preparing"
  /\ Goes("Submitting") /\ ledger' = "Active"
  /\ UNCHANGED <<signal, monitor, halted, marker, recovering, code>>

\* An append of before_post fails, and what it appended may be there.
JournalFails ==
  /\ loop = "Preparing"
  /\ ReturnHalted({bot})
  /\ ledger' \in {ledger, "Active"} /\ Marks /\ UNCHANGED code

Settle ==
  /\ loop = "Submitting"
  /\ Goes("Waiting") /\ ledger' = "Clean"
  /\ UNCHANGED <<signal, monitor, halted, marker, recovering, code>>

\* Uncertain, and whatever else leaves the intent unresolved: the error is fatal for the run.
EntryUncertain ==
  /\ loop = "Submitting"
  /\ ReturnHalted({bot})
  /\ Marks /\ UNCHANGED <<ledger, code>>

PressCtrlC ==
  /\ loop \in {"Waiting", "Handling", "Queued", "Preparing", "Submitting"}
  /\ ~ signal /\ signal' = TRUE
  /\ UNCHANGED <<live, process, bot, loop, monitor, halted, fileVars, code>>

-----------------------------------------------------------------------------
(* The monitor of a run, which may have no loop any more                    *)

MonitorGoes(r, place) == monitor' = [monitor EXCEPT ![r] = place]

\* A result that nobody waits for is forgotten.
FailedPlace(r) == IF bot = r THEN "Failed" ELSE "None"

\* Exits do not take the submission lock.
FaultyEnterExit(r) ==
  /\ monitor[r] = "Waiting" /\ MayBegin(r)
  /\ MonitorGoes(r, "Preparing")
  /\ UNCHANGED <<live, process, botVars, halted, fileVars, code>>

EnterExit(r) ==
  /\ monitor[r] = "Waiting" /\ ~ (bot = r /\ InSubmission(loop))
  /\ MonitorGoes(r, IF MayBegin(r) THEN "Preparing" ELSE FailedPlace(r))
  /\ UNCHANGED <<live, process, botVars, halted, fileVars, code>>

PrepareExitFails(r) ==
  /\ monitor[r] = "Preparing"
  /\ MonitorGoes(r, "Waiting")
  /\ UNCHANGED <<live, process, botVars, halted, fileVars, code>>

JournalExit(r) ==
  /\ monitor[r] = "Preparing"
  /\ MonitorGoes(r, "Submitting") /\ ledger' = "Active"
  /\ UNCHANGED <<live, process, botVars, halted, marker, recovering, code>>

JournalExitFails(r) ==
  /\ monitor[r] = "Preparing"
  /\ MonitorGoes(r, FailedPlace(r)) /\ halted' = halted \cup {r}
  /\ ledger' \in {ledger, "Active"} /\ Marks /\ UNCHANGED <<live, process, botVars, code>>

SettleExit(r) ==
  /\ monitor[r] = "Submitting"
  /\ MonitorGoes(r, "Waiting") /\ ledger' = "Clean"
  /\ UNCHANGED <<live, process, botVars, halted, marker, recovering, code>>

ExitUncertain(r) ==
  /\ monitor[r] = "Submitting"
  /\ MonitorGoes(r, FailedPlace(r)) /\ halted' = halted \cup {r}
  /\ Marks /\ UNCHANGED <<ledger, live, process, botVars, code>>

-----------------------------------------------------------------------------
(* Recovery commands, processes of their own                                *)

BeginRecovery ==
  /\ Holders = {} /\ ~ recovering /\ recovering' = TRUE
  /\ UNCHANGED <<live, process, botVars, monitor, halted, ledger, marker, code>>

\* acknowledge, after whatever has to come before it: Acknowledged, then the cleanup.
Acknowledge ==
  /\ recovering
  /\ \/ ledger = "Active" /\ ledger' = "Cleanup" /\ UNCHANGED marker
     \/ ledger = "Cleanup" /\ ledger' = "Clean" /\ marker' = FALSE
  /\ UNCHANGED <<live, process, botVars, monitor, halted, recovering, code>>

EndRecovery ==
  /\ recovering /\ recovering' = FALSE
  /\ UNCHANGED <<live, process, botVars, monitor, halted, ledger, marker, code>>

-----------------------------------------------------------------------------

Start == Open \/ OpenPaper \/ Invalid \/ Check \/ BuildGateway \/ SpawnMonitor \/ BuildFilter

EndSubmission == Settle \/ EntryUncertain

EndExit(r) == SettleExit(r) \/ ExitUncertain(r)

MonitorProceeds(r) ==
  EnterExit(r) \/ PrepareExitFails(r) \/ JournalExit(r) \/ JournalExitFails(r) \/ EndExit(r)

Next ==
  \/ \E r \in Runs : RunHeadless(r) \/ LaunchFromMenu(r) \/ MonitorProceeds(r)
  \/ OpenMenu \/ Quit \/ Crash
  \/ Start \/ Stop \/ TakeLog \/ Handle
  \/ EnterSubmission \/ PrepareFails \/ Journal \/ JournalFails \/ EndSubmission \/ PressCtrlC
  \/ BeginRecovery \/ Acknowledge \/ EndRecovery

Spec == Init /\ [][Next]_vars

\* The last step of a start is local, a journaled submission ends (the POST has a timeout, the
\* rest are file calls), and the submission lock is a queue.  Nothing is assumed of the
\* requests of Handle and of the preparation of an order, which have no timeout, and nobody has
\* to press a key.
Fairness ==
  /\ WF_vars(BuildFilter) /\ WF_vars(Stop) /\ WF_vars(EndSubmission)
  /\ SF_vars(EnterSubmission)
  /\ \A r \in Runs : WF_vars(EndExit(r))

FairSpec == Spec /\ Fairness

-----------------------------------------------------------------------------
(* Properties                                                               *)

\* The variables have their types; a run of the copy bot belongs to a process.
TypeOK ==
  /\ process \in {"Down", "Headless", "Menu"} /\ bot \in Runs \cup {None}
  /\ loop \in {"Off", "Opening", "Checking", "Gateway", "Spawn", "Filter",
               "Waiting", "Handling", "Queued", "Preparing", "Submitting"}
  /\ (bot = None) = (loop = "Off") /\ (process = "Down" => bot = None /\ halted = {})
  /\ monitor \in [Runs -> {"None", "Waiting", "Preparing", "Submitting", "Failed"}]
  /\ \A r \in Runs : monitor[r] = "Failed" => bot = r
  /\ halted \subseteq Runs /\ ledger \in {"Clean", "Active", "Cleanup"}
  /\ {signal, marker, recovering} \subseteq BOOLEAN

\* However often the menu starts a bot while the monitor of an earlier run is still at work,
\* one run at most has the ledger, and no recovery command at the same time.
OneHolder == Cardinality(Holders) + (IF recovering THEN 1 ELSE 0) <= 1

\* An order is under way at most once, and while one is nothing resolves its intent.
OneOrder ==
  /\ Cardinality(Submitting) <= 1
  /\ Submitting # {} => ledger = "Active" /\ ~ recovering

\* No submission begins while an earlier intent, of whichever run, is unresolved or its cleanup
\* is pending: neither by the run whose breaker is halted nor by a start that looked earlier.
NothingBeginsInDoubt ==
  [][Cardinality(Submitting') > Cardinality(Submitting) => ledger = "Clean" /\ ~ marker]_vars

\* The loop waits for a request without a timeout: the lookup of a market, its own preparation
\* of an order, or that of the monitor, which has the submission lock.
AwaitsPeer ==
  \/ loop \in {"Handling", "Preparing"}
  \/ loop = "Queued" /\ monitor[bot] = "Preparing"

\* The failure of a monitor and ctrl-c stop the bot, however many logs keep coming, and not
\* before the order in its hands has got its answer.  Nothing but a request that is never
\* answered, nor refused, can keep it from that.
StopsWhenAsked ==
  \A r \in Runs : []((bot = r /\ loop # "Off" /\ (signal \/ monitor[r] = "Failed"))
                       => <>(bot # r \/ loop = "Opening" \/ []AwaitsPeer))

=============================================================================
