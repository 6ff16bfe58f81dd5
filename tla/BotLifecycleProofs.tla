--------------------------- MODULE BotLifecycleProofs ---------------------------
(***************************************************************************)
(* Proofs about BotLifecycle and CopyBot, for any set of runs: the order    *)
(* under way is the only one, and none begins while an earlier one is       *)
(* unresolved.                                                              *)
(*                                                                          *)
(* The argument: only the run that has the ledger submits (SubmittingHolds),*)
(* one run at most has it (Exclusive), and from the check of its start      *)
(* until its breaker halts the ledger is as its own submissions have left   *)
(* it (Doubtless), for a recovery command cannot have it meanwhile.         *)
(*                                                                          *)
(* And about the logs that reach the bot: whatever is further on, from the  *)
(* wire over the task's hand and the channel to the bot, was emitted        *)
(* earlier (InOrder), and every log is somewhere (Accounted).               *)
(***************************************************************************)
EXTENDS CopyBot, FiniteSetTheorems, TLAPS

\* A run that has the ledger has passed the check of its start, and is not halted.
Cleared(r) == r \in Holders \ halted /\ ~ (bot = r /\ loop = "Checking")

\* The ledger is for live runs.
LiveOnly ==
  /\ loop \in {"Checking", "Gateway", "Spawn", "Queued", "Preparing", "Submitting"} => live
  /\ \A r \in Runs : monitor[r] # "None" => live

\* The monitor of a run begins after its start, and ends with the process.
MonitorFollows ==
  \A r \in Runs :
    process = "Down" \/ (bot = r /\ loop \in {"Opening", "Checking", "Gateway", "Spawn"}) => monitor[r] = "None"

\* The lock of the ledger, and the submission lock within the run that has it.
Exclusive ==
  /\ \A r, s \in Holders : r = s
  /\ recovering => Holders = {}
  /\ \A r \in Runs : ~ (bot = r /\ InSubmission(loop) /\ InSubmission(monitor[r]))

\* The runs that are in submit_fok and have the submission lock.
Busy ==
  { r \in Runs : bot = r /\ InSubmission(loop) } \cup { r \in Runs : InSubmission(monitor[r]) }

\* A run that may submit finds the ledger as its own submissions have left it.
Doubtless ==
  /\ Submitting # {} => ledger = "Active"
  /\ Busy \cap halted = {}
  /\ \A r \in Runs : Cleared(r) => ~ marker /\ (Submitting = {} => ledger = "Clean")

\* The strengthening of OneOrder and NothingBeginsInDoubt that every step preserves.
IInv == TypeOK /\ LiveOnly /\ MonitorFollows /\ Exclusive /\ Doubtless

-----------------------------------------------------------------------------

LEMMA NoneIsNoRun == None \notin Runs
BY NoneAssumption

\* Who submits has the ledger.
LEMMA SubmittingHolds ==
  ASSUME TypeOK, LiveOnly
  PROVE  Submitting \subseteq Holders
BY DEF TypeOK, LiveOnly, Submitting, Holders

LEMMA InitHolds == Init => IInv
BY NoneIsNoRun
   DEF Init, IInv, TypeOK, LiveOnly, MonitorFollows, Exclusive, Doubtless, Cleared, Holders, Submitting,
       Busy, InSubmission

LEMMA TypeStep ==
  ASSUME TypeOK, MonitorFollows, [Next]_vars
  PROVE  TypeOK'
<1> USE NoneIsNoRun DEF TypeOK
<1>1. CASE UNCHANGED vars
  BY <1>1 DEF vars, botVars, fileVars
<1>2. ASSUME NEW r \in Runs, RunHeadless(r) \/ LaunchFromMenu(r) PROVE TypeOK'
  <2>1. CASE RunHeadless(r)
    BY <2>1 DEF RunHeadless, Begin, fileVars
  <2>2. CASE LaunchFromMenu(r)
    BY <2>2 DEF LaunchFromMenu, Idle, Begin, fileVars
  <2> QED BY <1>2, <2>1, <2>2
<1>3. ASSUME NEW r \in Runs, MonitorProceeds(r) PROVE TypeOK'
  <2>1. CASE EnterExit(r)
    BY <2>1 DEF EnterExit, MonitorGoes, FailedPlace, botVars, fileVars
  <2>2. CASE PrepareExitFails(r) \/ JournalExit(r)
    BY <2>2 DEF PrepareExitFails, JournalExit, MonitorGoes, botVars, fileVars
  <2>3. CASE JournalExitFails(r)
    BY <2>3 DEF JournalExitFails, MonitorGoes, FailedPlace, Marks, botVars, MonitorFollows
  <2>4. CASE SettleExit(r)
    BY <2>4 DEF SettleExit, MonitorGoes, botVars
  <2>5. CASE ExitUncertain(r)
    BY <2>5 DEF ExitUncertain, MonitorGoes, FailedPlace, Marks, botVars, MonitorFollows
  <2> QED BY <1>3, <2>1, <2>2, <2>3, <2>4, <2>5 DEF MonitorProceeds, EndExit
<1>4. CASE OpenMenu \/ Quit \/ Crash
  <2>1. CASE OpenMenu
    BY <2>1 DEF OpenMenu, botVars, fileVars
  <2>2. CASE Quit \/ Crash
    BY <2>2 DEF Quit, Crash, EndProcess, fileVars
  <2> QED BY <1>4, <2>1, <2>2
<1>5. CASE Start
  BY <1>5 DEF Start, Open, OpenPaper, Invalid, Check, StartupCode, BuildGateway, SpawnMonitor, BuildFilter,
              Refuse, Return, ReturnHalted, EndProcess, Goes, fileVars
<1>6. CASE Stop \/ TakeLog \/ Handle \/ PressCtrlC
  BY <1>6 DEF Stop, TakeLog, Handle, PressCtrlC, MonitorEnded, Return, ReturnHalted, EndProcess, Goes, fileVars
<1>7. CASE EnterSubmission \/ PrepareFails \/ Journal \/ JournalFails \/ EndSubmission
  <2>1. CASE EnterSubmission \/ PrepareFails \/ Journal
    BY <2>1 DEF EnterSubmission, PrepareFails, Journal, Return, ReturnHalted, EndProcess, Goes, fileVars
  <2>2. CASE JournalFails \/ EndSubmission
    BY <2>2 DEF JournalFails, EndSubmission, Settle, EntryUncertain, Marks, ReturnHalted, EndProcess, Goes
  <2> QED BY <1>7, <2>1, <2>2
<1>8. CASE BeginRecovery \/ Acknowledge \/ EndRecovery
  BY <1>8 DEF BeginRecovery, Acknowledge, EndRecovery, botVars
<1>9. QED
  BY <1>1, <1>2, <1>3, <1>4, <1>5, <1>6, <1>7, <1>8 DEF Next

LEMMA PlainStep ==
  ASSUME TypeOK, LiveOnly, MonitorFollows, [Next]_vars
  PROVE  LiveOnly' /\ MonitorFollows'
<1> USE NoneIsNoRun DEF TypeOK, LiveOnly, MonitorFollows
<1>1. CASE UNCHANGED vars
  BY <1>1 DEF vars, botVars, fileVars
<1>2. ASSUME NEW r \in Runs, RunHeadless(r) \/ LaunchFromMenu(r) PROVE LiveOnly' /\ MonitorFollows'
  <2>1. CASE RunHeadless(r)
    BY <2>1 DEF RunHeadless, Begin, fileVars
  <2>2. CASE LaunchFromMenu(r)
    BY <2>2 DEF LaunchFromMenu, Idle, Begin, fileVars
  <2> QED BY <1>2, <2>1, <2>2
<1>3. ASSUME NEW r \in Runs, MonitorProceeds(r) PROVE LiveOnly' /\ MonitorFollows'
  BY <1>3 DEF MonitorProceeds, EnterExit, PrepareExitFails, JournalExit, JournalExitFails, EndExit, SettleExit, ExitUncertain,
              MonitorGoes, FailedPlace, botVars
<1>4. CASE OpenMenu \/ Quit \/ Crash
  BY <1>4 DEF OpenMenu, Quit, Crash, EndProcess, botVars
<1>5. CASE Start
  BY <1>5 DEF Start, Open, OpenPaper, Invalid, Check, BuildGateway, SpawnMonitor, BuildFilter,
              Refuse, Return, ReturnHalted, EndProcess, Goes
<1>6. CASE Stop \/ TakeLog \/ Handle \/ PressCtrlC
  BY <1>6 DEF Stop, TakeLog, Handle, PressCtrlC, Return, ReturnHalted, EndProcess, Goes
<1>7. CASE EnterSubmission \/ PrepareFails \/ Journal \/ JournalFails \/ EndSubmission
  BY <1>7 DEF EnterSubmission, PrepareFails, Journal, JournalFails, EndSubmission, Settle, EntryUncertain,
              Return, ReturnHalted, EndProcess, Goes
<1>8. CASE BeginRecovery \/ Acknowledge \/ EndRecovery
  BY <1>8 DEF BeginRecovery, Acknowledge, EndRecovery, botVars
<1>9. QED
  BY <1>1, <1>2, <1>3, <1>4, <1>5, <1>6, <1>7, <1>8 DEF Next

\* No step but Open gives the ledger to a run.
LEMMA HoldersStep ==
  ASSUME TypeOK, LiveOnly, MonitorFollows, [Next]_vars, ~ Open
  PROVE  Holders' \subseteq Holders
<1> USE NoneIsNoRun DEF TypeOK, LiveOnly, MonitorFollows, Holders
<1>1. CASE UNCHANGED vars
  BY <1>1 DEF vars, botVars, fileVars
<1>2. ASSUME NEW r \in Runs, RunHeadless(r) \/ LaunchFromMenu(r) PROVE Holders' \subseteq Holders
  BY <1>2 DEF RunHeadless, LaunchFromMenu, Idle, Begin
<1>3. ASSUME NEW r \in Runs, MonitorProceeds(r) PROVE Holders' \subseteq Holders
  BY <1>3 DEF MonitorProceeds, EnterExit, PrepareExitFails, JournalExit, JournalExitFails, EndExit, SettleExit, ExitUncertain,
              MonitorGoes, FailedPlace, botVars
<1>4. CASE OpenMenu \/ Quit \/ Crash
  BY <1>4 DEF OpenMenu, Quit, Crash, EndProcess, botVars
<1>5. CASE Start
  BY <1>5 DEF Start, OpenPaper, Invalid, Check, BuildGateway, SpawnMonitor, BuildFilter,
              Refuse, Return, ReturnHalted, EndProcess, Goes
<1>6. CASE Stop \/ TakeLog \/ Handle \/ PressCtrlC
  BY <1>6 DEF Stop, TakeLog, Handle, PressCtrlC, Return, ReturnHalted, EndProcess, Goes
<1>7. CASE EnterSubmission \/ PrepareFails \/ Journal \/ JournalFails \/ EndSubmission
  BY <1>7 DEF EnterSubmission, PrepareFails, Journal, JournalFails, EndSubmission, Settle, EntryUncertain,
              Return, ReturnHalted, EndProcess, Goes
<1>8. CASE BeginRecovery \/ Acknowledge \/ EndRecovery
  BY <1>8 DEF BeginRecovery, Acknowledge, EndRecovery, botVars
<1>9. QED
  BY <1>1, <1>2, <1>3, <1>4, <1>5, <1>6, <1>7, <1>8 DEF Next

LEMMA ExclusiveStep ==
  ASSUME IInv, [Next]_vars
  PROVE  Exclusive'
<1> USE NoneIsNoRun DEF IInv, Exclusive
<1>1. (\A r, s \in Holders : r = s)'
  <2>1. CASE Open
    <3>1. CASE Holders = {} /\ ~ recovering
      BY <2>1, <3>1 DEF Open, Goes, TypeOK, Holders
    <3>2. CASE ~ (Holders = {} /\ ~ recovering)
      <4>1. ReturnHalted({}) /\ loop = "Opening"
        BY <2>1, <3>2 DEF Open, Refuse, Return
      <4>2. CASE process = "Headless"
        BY <4>1, <4>2 DEF ReturnHalted, EndProcess, TypeOK, Holders
      <4>3. CASE process # "Headless"
        BY <4>1, <4>3 DEF ReturnHalted, TypeOK, Holders
      <4> QED BY <4>2, <4>3
    <3> QED BY <3>1, <3>2
  <2>2. CASE ~ Open
    BY <2>2, HoldersStep
  <2> QED BY <2>1, <2>2
<1>2. (recovering => Holders = {})'
  <2>1. CASE Open
    BY <2>1 DEF Open, Goes, Refuse, Return, ReturnHalted, EndProcess, fileVars, TypeOK, Holders
  <2>2. CASE BeginRecovery
    BY <2>2 DEF BeginRecovery, Holders, botVars
  <2>3. CASE ~ Open /\ ~ BeginRecovery
    <3>1. recovering' => recovering
      BY <2>3 DEF Next, vars, fileVars, RunHeadless, LaunchFromMenu, Begin, MonitorProceeds,
                  EnterExit, PrepareExitFails, JournalExit, JournalExitFails, EndExit, SettleExit, ExitUncertain,
                  Marks, OpenMenu, Quit, Crash, Start, OpenPaper, Invalid, Refuse, Check, BuildGateway,
                  SpawnMonitor, BuildFilter, Stop, TakeLog, Handle, PressCtrlC, EnterSubmission, PrepareFails,
                  Journal, JournalFails, EndSubmission, Settle, EntryUncertain, Acknowledge, EndRecovery
    <3> QED BY <2>3, <3>1, HoldersStep
  <2> QED BY <2>1, <2>2, <2>3
<1>3. ASSUME NEW r \in Runs, (bot = r /\ InSubmission(loop) /\ InSubmission(monitor[r]))' PROVE FALSE
  <2> USE <1>3 DEF TypeOK, InSubmission
  <2>1. CASE EnterSubmission
    BY <2>1 DEF EnterSubmission, Goes, Return, ReturnHalted, EndProcess
  <2>2. ASSUME NEW s \in Runs, MonitorProceeds(s) PROVE FALSE
    BY <2>2 DEF MonitorProceeds, EnterExit, PrepareExitFails, JournalExit, JournalExitFails, EndExit, SettleExit, ExitUncertain,
                MonitorGoes, FailedPlace, botVars
  <2>3. ASSUME NEW s \in Runs, RunHeadless(s) \/ LaunchFromMenu(s) PROVE FALSE
    BY <2>3 DEF RunHeadless, LaunchFromMenu, Begin
  <2>4. CASE Start
    BY <2>4 DEF Start, Open, OpenPaper, Invalid, Check, BuildGateway, SpawnMonitor, BuildFilter,
                Refuse, Return, ReturnHalted, EndProcess, Goes
  <2>5. CASE Stop \/ TakeLog \/ Handle \/ PressCtrlC
    BY <2>5 DEF Stop, TakeLog, Handle, PressCtrlC, Return, ReturnHalted, EndProcess, Goes
  <2>7. CASE PrepareFails \/ Journal \/ JournalFails \/ EndSubmission
    BY <2>7 DEF PrepareFails, Journal, JournalFails, EndSubmission, Settle, EntryUncertain,
                ReturnHalted, EndProcess, Goes
  <2>6. CASE OpenMenu \/ Quit \/ Crash \/ BeginRecovery \/ Acknowledge \/ EndRecovery \/ UNCHANGED vars
    BY <2>6 DEF OpenMenu, Quit, Crash, EndProcess, BeginRecovery, Acknowledge, EndRecovery, vars, botVars
  <2> QED BY <2>1, <2>2, <2>3, <2>4, <2>5, <2>6, <2>7 DEF Next
<1> QED BY <1>1, <1>2, <1>3

\* A run that returns between two submissions.
LEMMA ReturnKeeps ==
  ASSUME IInv, Return, UNCHANGED fileVars, bot # None, ~ InSubmission(loop)
  PROVE  Doubtless'
<1> USE NoneIsNoRun DEF IInv, TypeOK, Return, fileVars
<1>1. CASE process = "Headless"
  BY <1>1 DEF ReturnHalted, EndProcess, Doubtless, Cleared, Holders, Submitting, Busy, InSubmission
<1>2. CASE process # "Headless"
  <2>1. bot' = None /\ loop' = "Off" /\ halted' = halted /\ UNCHANGED live
    BY <1>2 DEF ReturnHalted
  <2>2. \A r \in Runs : monitor'[r] = IF r = bot /\ monitor[r] = "Failed" THEN "None" ELSE monitor[r]
    BY <1>2 DEF ReturnHalted
  <2>3. \A r \in Runs : \A place \in {"Waiting", "Preparing", "Submitting"} :
          (monitor'[r] = place) <=> (monitor[r] = place)
    BY <2>2
  <2>4. Submitting' = Submitting
    BY <2>1, <2>3 DEF Submitting, InSubmission
  <2>6. Busy' = Busy
    BY <2>1, <2>3 DEF Busy, InSubmission
  <2>5. ASSUME NEW r \in Runs, Cleared(r)' PROVE Cleared(r)
    BY <2>1, <2>3, <2>5 DEF Cleared, Holders, MonitorFollows
  <2> QED BY <2>1, <2>4, <2>5, <2>6 DEF Doubtless
<1> QED BY <1>1, <1>2

LEMMA DoubtlessStep ==
  ASSUME IInv, [Next]_vars
  PROVE  Doubtless'
<1> USE NoneIsNoRun DEF IInv, TypeOK, LiveOnly, MonitorFollows, Exclusive, Doubtless, Cleared,
                        Holders, Submitting, Busy, InSubmission
<1>1. CASE UNCHANGED vars
  BY <1>1 DEF vars, botVars, fileVars
<1>2. ASSUME NEW r \in Runs, RunHeadless(r) \/ LaunchFromMenu(r) PROVE Doubtless'
  BY <1>2 DEF RunHeadless, LaunchFromMenu, Idle, Begin, fileVars
<1>3. ASSUME NEW r \in Runs, MonitorProceeds(r) PROVE Doubtless'
  <2>1. CASE EnterExit(r)
    BY <2>1 DEF EnterExit, MayBegin, MonitorGoes, FailedPlace, botVars, fileVars
  <2>2. CASE PrepareExitFails(r)
    BY <2>2 DEF PrepareExitFails, MonitorGoes, botVars, fileVars
  <2>3. CASE JournalExit(r)
    BY <2>3 DEF JournalExit, MonitorGoes, botVars
  <2>4. CASE JournalExitFails(r)
    BY <2>4 DEF JournalExitFails, MonitorGoes, FailedPlace, Marks, botVars
  <2>5. CASE SettleExit(r)
    BY <2>5 DEF SettleExit, MonitorGoes, botVars
  <2>6. CASE ExitUncertain(r)
    BY <2>6 DEF ExitUncertain, MonitorGoes, FailedPlace, Marks, botVars
  <2> QED BY <1>3, <2>1, <2>2, <2>3, <2>4, <2>5, <2>6 DEF MonitorProceeds, EndExit
<1>4. CASE OpenMenu \/ Quit \/ Crash
  BY <1>4 DEF OpenMenu, Quit, Crash, EndProcess, botVars, fileVars
<1>5. CASE Start
  <2>1. CASE Open
    <3>1. CASE loop' = "Checking"
      BY <2>1, <3>1 DEF Open, Goes, Refuse, Return, ReturnHalted, EndProcess, fileVars
    <3>2. CASE loop' # "Checking"
      BY <2>1, <3>2, ReturnKeeps DEF Open, Goes, Refuse, Return
    <3> QED BY <3>1, <3>2
  <2>2. CASE Check
    <3>1. CASE StartupCode = None /\ Goes("Gateway") /\ UNCHANGED <<signal, monitor, halted, fileVars, code>>
      <4>1. ledger = "Clean" /\ ~ marker
        BY <3>1, NoneAssumption DEF StartupCode
      <4> QED BY <2>2, <3>1, <4>1 DEF Check, Goes, fileVars
    <3>2. CASE \E why : Refuse(why)
      BY <2>2, <3>2, ReturnKeeps DEF Check, Refuse, Return
    <3> QED BY <2>2, <3>1, <3>2 DEF Check
  <2>3. CASE OpenPaper \/ Invalid \/ BuildGateway \/ SpawnMonitor \/ BuildFilter
    BY <2>3 DEF OpenPaper, Invalid, BuildGateway, SpawnMonitor, BuildFilter,
                Refuse, Return, ReturnHalted, EndProcess, Goes, fileVars
  <2> QED BY <1>5, <2>1, <2>2, <2>3 DEF Start
<1>6. CASE Stop \/ TakeLog \/ Handle \/ PressCtrlC
  BY <1>6 DEF Stop, TakeLog, Handle, PressCtrlC, Return, ReturnHalted, EndProcess, Goes, fileVars
<1>7. CASE EnterSubmission
  <2>1. CASE MayBegin(bot)
    <3>1. /\ loop = "Queued" /\ loop' = "Preparing" /\ bot \notin halted /\ bot # None
          /\ UNCHANGED <<live, bot, monitor, halted, ledger, marker>>
      BY <1>7, <2>1 DEF EnterSubmission, MayBegin, Goes, fileVars
    <3>2. Submitting' = Submitting /\ Busy' = Busy \cup {bot}
      BY <3>1
    <3>3. \A r \in Runs : Cleared(r)' <=> Cleared(r)
      BY <3>1
    <3> QED BY <3>1, <3>2, <3>3
  <2>2. CASE ~ MayBegin(bot)
    BY <1>7, <2>2, ReturnKeeps DEF EnterSubmission, Return
  <2> QED BY <2>1, <2>2
<1>8. CASE PrepareFails \/ Journal
  BY <1>8 DEF PrepareFails, Journal, Goes, fileVars
<1>9. CASE JournalFails \/ EndSubmission
  <2>1. CASE Settle
    BY <2>1 DEF Settle, Goes
  <2>2. CASE JournalFails \/ EntryUncertain
    <3>1. /\ InSubmission(loop) /\ live /\ bot \in Runs /\ ~ InSubmission(monitor[bot])
          /\ \A r \in Runs \ {bot} : monitor[r] \notin {"Waiting", "Preparing", "Submitting"}
      BY <2>2 DEF JournalFails, EntryUncertain
    <3>4. ReturnHalted({bot})
      BY <2>2 DEF JournalFails, EntryUncertain
    <3>2. CASE process = "Headless"
      BY <3>4, <3>2 DEF ReturnHalted, EndProcess
    <3>3. CASE process # "Headless"
      BY <3>4, <3>1, <3>3 DEF ReturnHalted
    <3> QED BY <3>2, <3>3
  <2> QED BY <1>9, <2>1, <2>2 DEF EndSubmission
<1>10. CASE BeginRecovery \/ Acknowledge \/ EndRecovery
  BY <1>10 DEF BeginRecovery, Acknowledge, EndRecovery, botVars
<1> QED
  BY <1>1, <1>2, <1>3, <1>4, <1>5, <1>6, <1>7, <1>8, <1>9, <1>10 DEF Next

LEMMA Inductive ==
  ASSUME IInv, [Next]_vars
  PROVE  IInv'
BY TypeStep, PlainStep, ExclusiveStep, DoubtlessStep DEF IInv

\* The invariant holds in every state.
THEOREM Invariance == Spec => []IInv
<1>1. IInv /\ [Next]_vars => IInv'
  BY Inductive
<1> QED BY InitHolds, <1>1, PTL DEF Spec

-----------------------------------------------------------------------------

\* A set whose members are all the same has one at most.
LEMMA AtMostOne ==
  ASSUME NEW S, \A x, y \in S : x = y
  PROVE  IsFiniteSet(S) /\ Cardinality(S) \in Nat /\ Cardinality(S) <= 1
<1>1. CASE S = {}
  BY <1>1, FS_EmptySet
<1>2. CASE S # {}
  <2>1. PICK x \in S : TRUE
    BY <1>2
  <2>2. S = {x}
    BY <2>1
  <2> QED BY <2>2, FS_Singleton
<1> QED BY <1>1, <1>2

\* One run at most has the ledger, and no recovery command at the same time.
THEOREM LedgerHasOneHolder == Spec => []OneHolder
<1>1. IInv => OneHolder
  <2> SUFFICES ASSUME IInv PROVE OneHolder
    OBVIOUS
  <2>1. IsFiniteSet(Holders) /\ Cardinality(Holders) \in Nat /\ Cardinality(Holders) <= 1
    BY AtMostOne DEF IInv, Exclusive
  <2>2. recovering => Cardinality(Holders) = 0
    BY FS_EmptySet DEF IInv, Exclusive
  <2> QED BY <2>1, <2>2 DEF OneHolder
<1> QED BY <1>1, Invariance, PTL

\* An order is under way at most once, and while one is nothing resolves its intent.
THEOREM OrdersAreSingle == Spec => []OneOrder
<1>1. IInv => OneOrder
  <2> SUFFICES ASSUME IInv PROVE OneOrder
    OBVIOUS
  <2>1. Submitting \subseteq Holders
    BY SubmittingHolds DEF IInv
  <2>2. Cardinality(Submitting) <= 1
    BY <2>1, AtMostOne DEF IInv, Exclusive
  <2>3. Submitting # {} => ledger = "Active" /\ ~ recovering
    BY <2>1 DEF IInv, Exclusive, Doubtless
  <2> QED BY <2>2, <2>3 DEF OneOrder
<1> QED BY <1>1, Invariance, PTL

\* Who begins a submission is the one run that has the ledger, and is cleared.
LEMMA BeginsCleanly ==
  ASSUME IInv, [Next]_vars, ~ (Submitting' \subseteq Submitting)
  PROVE  ledger = "Clean" /\ ~ marker
<1> USE NoneIsNoRun DEF IInv, TypeOK, LiveOnly, MonitorFollows, Exclusive, Doubtless, Cleared, Holders,
                        Submitting, Busy, InSubmission
<1>1. CASE UNCHANGED vars
  BY <1>1 DEF vars, botVars, fileVars
<1>2. ASSUME NEW r \in Runs, RunHeadless(r) \/ LaunchFromMenu(r) PROVE FALSE
  BY <1>2 DEF RunHeadless, LaunchFromMenu, Begin
<1>3. ASSUME NEW r \in Runs, MonitorProceeds(r) PROVE ledger = "Clean" /\ ~ marker
  BY <1>3 DEF MonitorProceeds, EnterExit, PrepareExitFails, JournalExit, JournalExitFails, EndExit, SettleExit, ExitUncertain,
              MonitorGoes, FailedPlace, botVars
<1>4. CASE OpenMenu \/ Quit \/ Crash
  BY <1>4 DEF OpenMenu, Quit, Crash, EndProcess, botVars
<1>5. CASE Start
  BY <1>5 DEF Start, Open, OpenPaper, Invalid, Check, BuildGateway, SpawnMonitor, BuildFilter,
              Refuse, Return, ReturnHalted, EndProcess, Goes
<1>6. CASE Stop \/ TakeLog \/ Handle \/ PressCtrlC \/ EndSubmission
  BY <1>6 DEF Stop, TakeLog, Handle, PressCtrlC, EndSubmission, Settle, EntryUncertain,
              Return, ReturnHalted, EndProcess, Goes
<1>7. CASE EnterSubmission \/ PrepareFails \/ Journal \/ JournalFails
  BY <1>7 DEF EnterSubmission, PrepareFails, Journal, JournalFails, Return, ReturnHalted, EndProcess, Goes
<1>8. CASE BeginRecovery \/ Acknowledge \/ EndRecovery
  BY <1>8 DEF BeginRecovery, Acknowledge, EndRecovery, botVars
<1>9. QED
  BY <1>1, <1>2, <1>3, <1>4, <1>5, <1>6, <1>7, <1>8 DEF Next

\* No submission begins while an earlier intent is unresolved or its cleanup is pending.
THEOREM BeginsWithoutDoubt == Spec => NothingBeginsInDoubt
<1>1. IInv /\ [Next]_vars =>
        [Cardinality(Submitting') > Cardinality(Submitting) => ledger = "Clean" /\ ~ marker]_vars
  <2> SUFFICES ASSUME IInv, [Next]_vars, Cardinality(Submitting') > Cardinality(Submitting)
               PROVE  ledger = "Clean" /\ ~ marker
    OBVIOUS
  <2>1. Submitting \subseteq Holders
    BY SubmittingHolds DEF IInv
  <2>2. IsFiniteSet(Submitting) /\ Cardinality(Submitting) \in Nat
    BY <2>1, AtMostOne DEF IInv, Exclusive
  <2>3. ~ (Submitting' \subseteq Submitting)
    <3> SUFFICES ASSUME Submitting' \subseteq Submitting PROVE FALSE
      OBVIOUS
    <3>1. Cardinality(Submitting') <= Cardinality(Submitting) /\ IsFiniteSet(Submitting')
      BY <2>2, FS_Subset
    <3>2. Cardinality(Submitting') \in Nat
      BY <3>1, FS_CardinalityType
    <3> QED BY <2>2, <3>1, <3>2
  <2> QED BY <2>3, BeginsCleanly
<1> QED BY <1>1, Invariance, PTL DEF Spec, NothingBeginsInDoubt

-----------------------------------------------------------------------------

\* With its subscription the bot takes no step that it could not take alone: all of the above
\* holds for CopySpec too.
THEOREM CopyBotIsABot == CopySpec => Spec
<1>1. CopyInit => Init
  BY DEF CopyInit
<1>2. [CopyNext]_copyVars => [Next]_vars
  BY DEF CopyNext, Bot, copyVars
<1> QED BY <1>1, <1>2, PTL DEF CopySpec, Spec

-----------------------------------------------------------------------------
(* The subscription                                                         *)

Ascending(s) == \A i, j \in 1 .. Len(s) : i < j => s[i] < s[j]

Numbered(frame) == frame.kind \in {"Log", "Malformed"}

\* Every log in the one set was emitted before every log in the other.
Precede(early, late) == \A a \in early, b \in late : a < b

InHand == {held} \ {0}

\* What the variables of the stream hold.  A frame carries a log or it carries none.
StreamTypeOK ==
  /\ emitted \in 0 .. MaxLogs /\ held \in 0 .. MaxLogs
  /\ received \in Seq(1 .. MaxLogs) /\ channel \in Seq(1 .. MaxLogs)
  /\ wire \in Seq(Frames)
  /\ \A i \in 1 .. Len(wire) : Numbered(wire[i]) => wire[i].log # 0
  /\ (task = "Sending") <=> (held # 0)

\* The logs go through four places, and whatever is further on was emitted earlier: received,
\* channel, the task's hand, wire.
InOrder ==
  /\ Ascending(received) /\ Ascending(channel)
  /\ \A i, j \in 1 .. Len(wire) :
       i < j /\ Numbered(wire[i]) /\ Numbered(wire[j]) => wire[i].log < wire[j].log
  /\ Precede(ToSet(received), ToSet(channel) \cup InHand \cup LogFrames(wire))
  /\ Precede(ToSet(channel), InHand \cup LogFrames(wire))
  /\ Precede(InHand, LogFrames(wire))

Accounted ==
  1 .. emitted = dropped \cup ToSet(received) \cup ToSet(channel) \cup InHand \cup LogFrames(wire)

StreamInv == StreamTypeOK /\ InOrder /\ Accounted

-----------------------------------------------------------------------------

LEMMA LimitIsPositive == MaxLogs \in Nat /\ MaxLogs >= 1
BY SubscriptionAssumption

LEMMA ToSetOf ==
  ASSUME NEW S, NEW s \in Seq(S)
  PROVE  ToSet(s) = { s[i] : i \in 1 .. Len(s) }
BY DEF ToSet

LEMMA ToSetEmpty == ToSet(<<>>) = {}
BY DEF ToSet

LEMMA ToSetAppend ==
  ASSUME NEW S, NEW s \in Seq(S), NEW x \in S
  PROVE  ToSet(Append(s, x)) = ToSet(s) \cup {x}
<1>1. /\ Append(s, x) \in Seq(S) /\ Len(Append(s, x)) = Len(s) + 1 /\ Len(s) \in Nat
      /\ \A i \in 1 .. Len(s) : Append(s, x)[i] = s[i]
      /\ Append(s, x)[Len(s) + 1] = x
  OBVIOUS
<1>2. \A i \in 1 .. Len(s) + 1 : i \in 1 .. Len(s) \/ i = Len(s) + 1
  BY <1>1
<1>3. \A i \in 1 .. Len(s) : i \in 1 .. Len(s) + 1
  BY <1>1
<1>4. Len(s) + 1 \in 1 .. Len(s) + 1
  BY <1>1
<1>5. ToSet(Append(s, x)) = { Append(s, x)[i] : i \in 1 .. Len(s) + 1 }
  BY <1>1, ToSetOf
<1>6. ToSet(s) = { s[i] : i \in 1 .. Len(s) }
  BY ToSetOf
<1> QED BY <1>1, <1>2, <1>3, <1>4, <1>5, <1>6, Zenon

LEMMA ToSetHead ==
  ASSUME NEW S, NEW s \in Seq(S), s # <<>>
  PROVE  /\ ToSet(s) = {Head(s)} \cup ToSet(Tail(s))
         /\ Tail(s) \in Seq(S) /\ Head(s) \in S
<1>1. /\ Tail(s) \in Seq(S) /\ Len(Tail(s)) = Len(s) - 1 /\ Len(s) \in Nat \ {0}
      /\ Head(s) = s[1] /\ Head(s) \in S
      /\ \A i \in 1 .. Len(s) - 1 : Tail(s)[i] = s[i + 1]
  OBVIOUS
<1>2. \A i \in 1 .. Len(s) : i = 1 \/ (i - 1 \in 1 .. Len(s) - 1 /\ s[i] = Tail(s)[i - 1])
  BY <1>1
<1>3. \A i \in 1 .. Len(s) - 1 : i + 1 \in 1 .. Len(s)
  BY <1>1
<1>4. 1 \in 1 .. Len(s)
  BY <1>1
<1>5. ToSet(Tail(s)) = { Tail(s)[i] : i \in 1 .. Len(s) - 1 }
  BY <1>1, ToSetOf
<1>6. ToSet(s) = { s[i] : i \in 1 .. Len(s) }
  BY ToSetOf
<1>7. \A x : x \in ToSet(s) <=> x \in {Head(s)} \cup ToSet(Tail(s))
  <2>1. ASSUME NEW x \in ToSet(s) PROVE x \in {Head(s)} \cup ToSet(Tail(s))
    <3>1. PICK i \in 1 .. Len(s) : x = s[i]
      BY <1>6, <2>1
    <3> QED BY <1>1, <1>2, <1>5, <3>1
  <2>2. ASSUME NEW x \in {Head(s)} \cup ToSet(Tail(s)) PROVE x \in ToSet(s)
    BY <1>1, <1>3, <1>4, <1>5, <1>6, <2>2
  <2> QED BY <2>1, <2>2
<1> QED BY <1>1, <1>7

LEMMA LogFramesAre ==
  ASSUME NEW w
  PROVE  \A n : n \in LogFrames(w) <=> \E f \in ToSet(w) : Numbered(f) /\ n = f.log
BY DEF LogFrames, Numbered

LEMMA LogFramesAppend ==
  ASSUME NEW w \in Seq(Frames), NEW f \in Frames
  PROVE  LogFrames(Append(w, f)) = LogFrames(w) \cup (IF Numbered(f) THEN {f.log} ELSE {})
<1>1. ToSet(Append(w, f)) = ToSet(w) \cup {f}
  BY ToSetAppend
<1>2. \A g : g \in ToSet(Append(w, f)) <=> g \in ToSet(w) \/ g = f
  BY <1>1
<1>3. \A n : n \in LogFrames(Append(w, f)) <=> n \in LogFrames(w) \/ (Numbered(f) /\ n = f.log)
  BY <1>2, LogFramesAre
<1> QED BY <1>3

LEMMA LogFramesHead ==
  ASSUME NEW w \in Seq(Frames), w # <<>>
  PROVE  LogFrames(w) = LogFrames(Tail(w)) \cup (IF Numbered(Head(w)) THEN {Head(w).log} ELSE {})
<1>1. ToSet(w) = {Head(w)} \cup ToSet(Tail(w))
  BY ToSetHead
<1>2. \A g : g \in ToSet(w) <=> g \in ToSet(Tail(w)) \/ g = Head(w)
  BY <1>1
<1>3. \A n : n \in LogFrames(w) <=> n \in LogFrames(Tail(w)) \/ (Numbered(Head(w)) /\ n = Head(w).log)
  BY <1>2, LogFramesAre
<1> QED BY <1>3

LEMMA LogFramesEmpty == LogFrames(<<>>) = {}
BY ToSetEmpty, LogFramesAre

\* A log that comes after all others keeps a sequence ascending.
LEMMA AscendingAppend ==
  ASSUME NEW s \in Seq(1 .. MaxLogs), NEW n \in 1 .. MaxLogs, Ascending(s), Precede(ToSet(s), {n})
  PROVE  Ascending(Append(s, n)) /\ Append(s, n) \in Seq(1 .. MaxLogs)
<1>1. /\ Len(Append(s, n)) = Len(s) + 1 /\ Len(s) \in Nat
      /\ \A i \in 1 .. Len(s) : Append(s, n)[i] = s[i] /\ s[i] \in ToSet(s)
      /\ Append(s, n)[Len(s) + 1] = n
  BY ToSetOf
<1> QED BY <1>1 DEF Ascending, Precede

LEMMA AscendingTail ==
  ASSUME NEW s \in Seq(1 .. MaxLogs), s # <<>>, Ascending(s)
  PROVE  Ascending(Tail(s)) /\ Precede({Head(s)}, ToSet(Tail(s)))
<1>1. /\ Tail(s) \in Seq(1 .. MaxLogs) /\ Len(Tail(s)) = Len(s) - 1 /\ Len(s) \in Nat \ {0}
      /\ Head(s) = s[1]
      /\ \A i \in 1 .. Len(s) - 1 : Tail(s)[i] = s[i + 1]
  OBVIOUS
<1>2. ToSet(Tail(s)) = { Tail(s)[i] : i \in 1 .. Len(s) - 1 }
  BY <1>1, ToSetOf
<1> QED BY <1>1, <1>2 DEF Ascending, Precede

-----------------------------------------------------------------------------

\* Before the first run there is nothing.
LEMMA StreamBegins ==
  ASSUME Fresh("None")
  PROVE  StreamInv
BY LimitIsPositive, ToSetEmpty, LogFramesEmpty
   DEF Fresh, StreamInv, StreamTypeOK, InOrder, Accounted, InHand, Ascending, Precede

\* Nor is there for a new run.
LEMMA SubscribeKeeps ==
  ASSUME Subscribe
  PROVE  StreamInv'
BY LimitIsPositive, ToSetEmpty, LogFramesEmpty
   DEF Subscribe, StreamInv, StreamTypeOK, InOrder, Accounted, InHand, Ascending, Precede

\* What was on a connection that ends is dropped.
LEMMA DisconnectKeeps ==
  ASSUME StreamInv, Disconnect, UNCHANGED <<channel, emitted, received>>
  PROVE  StreamInv'
<1>1. /\ wire' = <<>> /\ held' = 0 /\ task' = "Pausing"
      /\ dropped' = dropped \cup LogFrames(wire) \cup InHand
  BY DEF Disconnect, InHand
<1>2. LogFrames(wire') = {} /\ InHand' = {}
  BY <1>1, LogFramesEmpty DEF InHand
<1>3. StreamTypeOK'
  BY <1>1, LimitIsPositive DEF StreamInv, StreamTypeOK
<1>4. InOrder'
  BY <1>1, <1>2 DEF StreamInv, InOrder, Precede, Ascending
<1>5. Accounted'
  BY <1>1, <1>2 DEF StreamInv, Accounted
<1> QED BY <1>3, <1>4, <1>5 DEF StreamInv

\* A frame without a log leaves the wire.
LEMMA SkipKeeps ==
  ASSUME StreamInv, ReadOther
  PROVE  StreamInv'
<1>1. /\ wire \in Seq(Frames) /\ wire # <<>> /\ wire' = Tail(wire) /\ ~ Numbered(Head(wire))
      /\ UNCHANGED <<task, held, channel, emitted, received, dropped>>
  BY DEF ReadOther, StreamInv, StreamTypeOK, Numbered, taskVars
<1>2. /\ wire' \in Seq(Frames) /\ Len(wire') = Len(wire) - 1 /\ Len(wire) \in Nat \ {0}
      /\ \A i \in 1 .. Len(wire) - 1 : i + 1 \in 1 .. Len(wire) /\ wire'[i] = wire[i + 1]
  BY <1>1
<1>3. LogFrames(wire') = LogFrames(wire)
  BY <1>1, LogFramesHead
<1>4. StreamTypeOK'
  <2>1. \A i \in 1 .. Len(wire') : Numbered(wire'[i]) => wire'[i].log # 0
    BY <1>2 DEF StreamInv, StreamTypeOK
  <2> QED BY <1>1, <1>2, <2>1 DEF StreamInv, StreamTypeOK
<1>5. ASSUME NEW i \in 1 .. Len(wire'), NEW j \in 1 .. Len(wire'),
             i < j, Numbered(wire'[i]), Numbered(wire'[j])
      PROVE  wire'[i].log < wire'[j].log
  <2>1. /\ i + 1 \in 1 .. Len(wire) /\ wire'[i] = wire[i + 1]
        /\ j + 1 \in 1 .. Len(wire) /\ wire'[j] = wire[j + 1] /\ i + 1 < j + 1
    BY <1>2, <1>5
  <2> QED BY <1>5, <2>1 DEF StreamInv, InOrder
<1>6. InOrder' /\ Accounted'
  BY <1>1, <1>3, <1>5 DEF StreamInv, InOrder, Accounted, InHand
<1> QED BY <1>4, <1>6 DEF StreamInv

\* The first log on the wire gets into the task's hand.
LEMMA ReadLogKeeps ==
  ASSUME StreamInv, ReadLog
  PROVE  StreamInv'
<1> DEFINE n == Head(wire).log
<1>1. /\ wire \in Seq(Frames) /\ wire # <<>> /\ wire' = Tail(wire) /\ Numbered(Head(wire))
      /\ held' = n /\ task' = "Sending" /\ UNCHANGED <<channel, emitted, received, dropped>>
      /\ held = 0
  BY DEF ReadLog, StreamInv, StreamTypeOK, Numbered
<1>2. /\ wire' \in Seq(Frames) /\ Len(wire') = Len(wire) - 1 /\ Len(wire) \in Nat \ {0}
      /\ \A i \in 1 .. Len(wire) - 1 : i + 1 \in 1 .. Len(wire) /\ wire'[i] = wire[i + 1]
      /\ Head(wire) = wire[1] /\ Head(wire) \in Frames
  BY <1>1
<1>3. n \in 1 .. MaxLogs
  <2>1. n \in 0 .. MaxLogs
    BY <1>2 DEF Frames
  <2>2. n # 0
    BY <1>1, <1>2 DEF StreamInv, StreamTypeOK
  <2> QED BY <2>1, <2>2, LimitIsPositive
<1>4. LogFrames(wire) = LogFrames(wire') \cup {n} /\ InHand = {} /\ InHand' = {n}
  BY <1>1, <1>3, LogFramesHead DEF InHand
<1>5. StreamTypeOK'
  BY <1>1, <1>2, <1>3 DEF StreamInv, StreamTypeOK
<1>6. ASSUME NEW i \in 1 .. Len(wire'), NEW j \in 1 .. Len(wire'),
             i < j, Numbered(wire'[i]), Numbered(wire'[j])
      PROVE  wire'[i].log < wire'[j].log
  <2>1. /\ i + 1 \in 1 .. Len(wire) /\ wire'[i] = wire[i + 1]
        /\ j + 1 \in 1 .. Len(wire) /\ wire'[j] = wire[j + 1] /\ i + 1 < j + 1
    BY <1>2, <1>6
  <2> QED BY <1>6, <2>1 DEF StreamInv, InOrder
<1>7. Precede({n}, LogFrames(wire'))
  <2> SUFFICES ASSUME NEW b \in LogFrames(wire') PROVE n < b
    BY DEF Precede
  <2>1. PICK f \in ToSet(wire') : Numbered(f) /\ b = f.log
    BY LogFramesAre
  <2>2. PICK i \in 1 .. Len(wire') : f = wire'[i]
    BY <1>2, ToSetOf
  <2>3. i + 1 \in 1 .. Len(wire) /\ f = wire[i + 1] /\ 1 \in 1 .. Len(wire) /\ 1 < i + 1
    BY <1>2, <2>2
  <2> QED BY <1>1, <1>2, <2>1, <2>3 DEF StreamInv, InOrder
<1> HIDE DEF n
<1>8. InOrder'
  BY <1>1, <1>4, <1>6, <1>7 DEF StreamInv, InOrder, Precede
<1>9. Accounted'
  BY <1>1, <1>4 DEF StreamInv, Accounted
<1> QED BY <1>5, <1>8, <1>9 DEF StreamInv

\* It is handed over to the channel.
LEMMA DeliverKeeps ==
  ASSUME StreamInv, Deliver
  PROVE  StreamInv'
<1>1. /\ channel' = Append(channel, held) /\ held' = 0 /\ held \in 1 .. MaxLogs /\ task' = "Reading"
      /\ UNCHANGED <<wire, emitted, received, dropped>>
      /\ channel \in Seq(1 .. MaxLogs)
  BY LimitIsPositive DEF Deliver, Queued, StreamInv, StreamTypeOK
<1>2. InHand = {held} /\ InHand' = {} /\ ToSet(channel') = ToSet(channel) \cup {held}
  <2>1. ToSet(channel') = ToSet(channel) \cup {held}
    <3> DEFINE S == 1 .. MaxLogs
    <3>1. channel \in Seq(S) /\ held \in S
      BY <1>1
    <3> HIDE DEF S
    <3> QED BY <1>1, <3>1, ToSetAppend
  <2> QED BY <1>1, <2>1 DEF InHand
<1>3. Ascending(channel') /\ channel' \in Seq(1 .. MaxLogs)
  BY <1>1, <1>2, AscendingAppend DEF StreamInv, InOrder, Precede
<1>4. StreamTypeOK'
  BY <1>1, <1>3, LimitIsPositive DEF StreamInv, StreamTypeOK
<1>5. InOrder'
  BY <1>1, <1>2, <1>3 DEF StreamInv, InOrder, Precede
<1>6. Accounted'
  BY <1>1, <1>2 DEF StreamInv, Accounted
<1> QED BY <1>4, <1>5, <1>6 DEF StreamInv

\* The bot takes the first log in the channel.
LEMMA TakeKeeps ==
  ASSUME StreamInv, Take
  PROVE  StreamInv'
<1> DEFINE n == Head(channel)
<1>1. /\ channel \in Seq(1 .. MaxLogs) /\ channel # <<>> /\ received \in Seq(1 .. MaxLogs)
      /\ channel' = Tail(channel) /\ received' = Append(received, n)
      /\ UNCHANGED <<task, held, wire, emitted, dropped>>
  BY DEF Take, StreamInv, StreamTypeOK, taskVars
<1>2. /\ ToSet(channel) = {n} \cup ToSet(channel') /\ channel' \in Seq(1 .. MaxLogs) /\ n \in 1 .. MaxLogs
      /\ Ascending(channel') /\ Precede({n}, ToSet(channel'))
  BY <1>1, ToSetHead, AscendingTail DEF StreamInv, InOrder
<1>3. ToSet(received') = ToSet(received) \cup {n}
  BY <1>1, <1>2, ToSetAppend
<1> HIDE DEF n
<1>4. Ascending(received') /\ received' \in Seq(1 .. MaxLogs)
  <2>1. Precede(ToSet(received), {n})
    BY <1>2 DEF StreamInv, InOrder, Precede
  <2> QED BY <1>1, <1>2, <2>1, AscendingAppend DEF StreamInv, InOrder
<1>5. StreamTypeOK'
  BY <1>1, <1>2, <1>4 DEF StreamInv, StreamTypeOK
<1>6. InHand' = InHand
  BY <1>1 DEF InHand
<1>7. InOrder'
  BY <1>1, <1>2, <1>3, <1>4, <1>6 DEF StreamInv, InOrder, Precede
<1>8. Accounted'
  BY <1>1, <1>2, <1>3, <1>6 DEF StreamInv, Accounted
<1> QED BY <1>5, <1>7, <1>8 DEF StreamInv

\* What is in the channel goes with it.
LEMMA DropKeeps ==
  ASSUME StreamInv, Drop
  PROVE  StreamInv'
<1>1. /\ channel' = <<>> /\ dropped' = dropped \cup ToSet(channel)
      /\ UNCHANGED <<task, held, wire, emitted, received>>
  BY DEF Drop, taskVars
<1>2. ToSet(channel') = {} /\ InHand' = InHand
  BY <1>1, ToSetEmpty DEF InHand
<1>3. StreamTypeOK'
  BY <1>1 DEF StreamInv, StreamTypeOK
<1>4. InOrder'
  BY <1>1, <1>2 DEF StreamInv, InOrder, Precede, Ascending
<1>5. Accounted'
  BY <1>1, <1>2 DEF StreamInv, Accounted
<1> QED BY <1>3, <1>4, <1>5 DEF StreamInv

-----------------------------------------------------------------------------
(* The node                                                                 *)

\* A frame is put on the wire behind the others; if it carries a log, that is the latest.
LEMMA SendKeepsOrder ==
  ASSUME StreamTypeOK, NEW frame \in Frames, Send(frame),
         \A i, j \in 1 .. Len(wire) :
           i < j /\ Numbered(wire[i]) /\ Numbered(wire[j]) => wire[i].log < wire[j].log,
         Numbered(frame) => frame.log # 0 /\ Precede(LogFrames(wire), {frame.log})
  PROVE  /\ wire' \in Seq(Frames)
         /\ \A i \in 1 .. Len(wire') : Numbered(wire'[i]) => wire'[i].log # 0
         /\ \A i, j \in 1 .. Len(wire') :
              i < j /\ Numbered(wire'[i]) /\ Numbered(wire'[j]) => wire'[i].log < wire'[j].log
         /\ LogFrames(wire') = LogFrames(wire) \cup (IF Numbered(frame) THEN {frame.log} ELSE {})
<1>1. /\ wire \in Seq(Frames) /\ wire' = Append(wire, frame)
      /\ wire' \in Seq(Frames) /\ Len(wire') = Len(wire) + 1 /\ Len(wire) \in Nat
      /\ \A i \in 1 .. Len(wire) : wire'[i] = wire[i]
      /\ wire'[Len(wire) + 1] = frame
  BY DEF StreamTypeOK, Send
<1>2. \A i \in 1 .. Len(wire) : Numbered(wire[i]) => wire[i].log \in LogFrames(wire)
  BY <1>1, ToSetOf, LogFramesAre
<1>3. \A i \in 1 .. Len(wire) + 1 : i \in 1 .. Len(wire) \/ i = Len(wire) + 1
  BY <1>1
<1>4. \A i \in 1 .. Len(wire') : Numbered(wire'[i]) => wire'[i].log # 0
  BY <1>1, <1>3 DEF StreamTypeOK
<1>5. ASSUME NEW i \in 1 .. Len(wire'), NEW j \in 1 .. Len(wire'),
             i < j, Numbered(wire'[i]), Numbered(wire'[j])
      PROVE  wire'[i].log < wire'[j].log
  <2>1. i \in 1 .. Len(wire) /\ wire'[i] = wire[i]
    BY <1>1, <1>5
  <2>2. CASE j \in 1 .. Len(wire)
    BY <1>1, <1>5, <2>1, <2>2
  <2>3. CASE j = Len(wire) + 1
    <3>1. wire'[j] = frame /\ Numbered(frame) /\ wire[i].log \in LogFrames(wire)
      BY <1>1, <1>2, <1>5, <2>1, <2>3
    <3> QED BY <2>1, <3>1 DEF Precede
  <2> QED BY <1>1, <1>3, <2>2, <2>3
<1> QED BY <1>1, <1>4, <1>5, LogFramesAppend

\* A frame without a log.
LEMMA SendOtherKeeps ==
  ASSUME StreamInv, NEW kind \in {"Ping", "Other", "Close"}, SendOther(kind)
  PROVE  StreamInv'
<1> DEFINE frame == [kind |-> kind, log |-> 0]
<1>1. /\ frame \in Frames /\ ~ Numbered(frame) /\ Send(frame)
      /\ UNCHANGED <<task, held, channel, emitted, received, dropped>>
  BY LimitIsPositive DEF SendOther, Frames, Numbered, taskVars
<1> HIDE DEF frame
<1>2. /\ wire' \in Seq(Frames)
      /\ \A i \in 1 .. Len(wire') : Numbered(wire'[i]) => wire'[i].log # 0
      /\ \A i, j \in 1 .. Len(wire') :
           i < j /\ Numbered(wire'[i]) /\ Numbered(wire'[j]) => wire'[i].log < wire'[j].log
      /\ LogFrames(wire') = LogFrames(wire)
  BY <1>1, SendKeepsOrder DEF StreamInv, InOrder
<1>3. StreamTypeOK'
  BY <1>1, <1>2 DEF StreamInv, StreamTypeOK
<1>4. InOrder' /\ Accounted'
  BY <1>1, <1>2 DEF StreamInv, InOrder, Accounted, InHand
<1> QED BY <1>3, <1>4 DEF StreamInv

\* When the numbers start again, none of the earlier logs is left.
LEMMA StartAgain ==
  ASSUME StreamInv, WorkedOff
  PROVE  /\ ToSet(channel) = {} /\ InHand = {} /\ LogFrames(wire) = {}
         /\ \A i \in 1 .. Len(wire) : ~ Numbered(wire[i])
<1>1. \A i \in 1 .. Len(wire) : ~ Numbered(wire[i])
  <2>1. wire \in Seq(Frames)
    BY DEF StreamInv, StreamTypeOK
  <2>2. \A i \in 1 .. Len(wire) : wire[i] \in ToSet(wire)
    BY <2>1, ToSetOf
  <2> QED BY <2>2, LogFramesAre DEF WorkedOff
<1> QED BY <1>1, ToSetEmpty DEF WorkedOff, InHand

\* A new log is later than all others, on the wire or lost.
LEMMA EmitKeeps ==
  ASSUME StreamInv, NEW kind \in {"Log", "Malformed"}, Emit(kind)
  PROVE  StreamInv'
<1> DEFINE n == Number
           frame == [kind |-> kind, log |-> n]
           earlier == Since(received, <<>>)
           lost == Since(dropped, {})
<1>1. /\ emitted' = n /\ received' = earlier /\ emitted \in 0 .. MaxLogs
      /\ UNCHANGED <<task, held, channel>>
      /\ n \in 1 .. MaxLogs
  BY LimitIsPositive DEF Emit, taskVars, StreamInv, StreamTypeOK, Number
<1>2. /\ \/ Send(frame) /\ dropped' = lost
         \/ UNCHANGED wire /\ dropped' = lost \cup {n}
  BY DEF Emit
<1>3. frame \in Frames /\ Numbered(frame) /\ frame.log = n
  BY <1>1 DEF Frames, Numbered
<1>4. received' \in Seq(1 .. MaxLogs) /\ Ascending(received')
  <2>1. earlier = received \/ earlier = <<>>
    BY DEF Since
  <2>2. <<>> \in Seq(1 .. MaxLogs) /\ Ascending(<<>>)
    BY DEF Ascending
  <2> QED BY <1>1, <2>1, <2>2 DEF StreamInv, StreamTypeOK, InOrder
<1>5. /\ 1 .. n - 1 = lost \cup ToSet(earlier) \cup ToSet(channel) \cup InHand \cup LogFrames(wire)
      /\ Precede(ToSet(earlier), ToSet(channel) \cup InHand \cup LogFrames(wire))
  <2>1. CASE emitted < MaxLogs
    BY <1>1, <2>1 DEF Number, Since, StreamInv, Accounted, InOrder
  <2>2. CASE ~ (emitted < MaxLogs)
    <3>1. n = 1 /\ lost = {} /\ earlier = <<>> /\ WorkedOff
      BY <2>2 DEF Emit, Number, Since
    <3>2. 1 .. n - 1 = {}
      BY <3>1
    <3> QED BY <3>1, <3>2, StartAgain, ToSetEmpty DEF Precede
  <2> QED BY <2>1, <2>2
<1>6. Precede(ToSet(earlier) \cup ToSet(channel) \cup InHand \cup LogFrames(wire), {n})
  <2>1. \A k \in 1 .. n - 1 : k < n
    BY <1>1
  <2> QED BY <1>5, <2>1 DEF Precede
<1>7. InHand' = InHand /\ 1 .. emitted' = (1 .. n - 1) \cup {n}
  BY <1>1 DEF InHand
<1> HIDE DEF n, frame, earlier, lost
<1>8. CASE Send(frame) /\ dropped' = lost
  <2>1. /\ wire' \in Seq(Frames)
        /\ \A i \in 1 .. Len(wire') : Numbered(wire'[i]) => wire'[i].log # 0
        /\ \A i, j \in 1 .. Len(wire') :
             i < j /\ Numbered(wire'[i]) /\ Numbered(wire'[j]) => wire'[i].log < wire'[j].log
        /\ LogFrames(wire') = LogFrames(wire) \cup {n}
    <3>1. Precede(LogFrames(wire), {n}) /\ n # 0
      BY <1>1, <1>6 DEF Precede
    <3> QED BY <1>3, <1>8, <3>1, SendKeepsOrder DEF StreamInv, InOrder
  <2>2. StreamTypeOK'
    BY <1>1, <1>4, <2>1 DEF StreamInv, StreamTypeOK
  <2>3. InOrder'
    BY <1>1, <1>4, <1>5, <1>6, <1>7, <2>1 DEF StreamInv, InOrder, Precede
  <2>4. Accounted'
    BY <1>1, <1>5, <1>7, <1>8, <2>1 DEF Accounted
  <2> QED BY <2>2, <2>3, <2>4 DEF StreamInv
<1>9. CASE UNCHANGED wire /\ dropped' = lost \cup {n}
  <2>1. StreamTypeOK'
    BY <1>1, <1>4, <1>9 DEF StreamInv, StreamTypeOK
  <2>2. InOrder'
    BY <1>1, <1>4, <1>5, <1>7, <1>9 DEF StreamInv, InOrder
  <2>3. Accounted'
    BY <1>1, <1>5, <1>7, <1>9 DEF Accounted
  <2> QED BY <2>1, <2>2, <2>3 DEF StreamInv
<1> QED BY <1>2, <1>8, <1>9

-----------------------------------------------------------------------------

\* All steps of the bot and its subscription.
LEMMA StreamStep ==
  ASSUME StreamInv, [CopyNext]_copyVars
  PROVE  StreamInv'
<1>1. CASE UNCHANGED subscriptionVars
  BY <1>1 DEF subscriptionVars, taskVars, StreamInv, StreamTypeOK, InOrder, Accounted, InHand
<1>2. CASE Channel
  <2>1. Subscribe \/ Take \/ Drop \/ UNCHANGED subscriptionVars
    BY <1>2, Zenon DEF Channel
  <2> QED BY <1>1, <2>1, SubscribeKeeps, TakeKeeps, DropKeeps
<1>3. ASSUME NEW kind \in {"Log", "Malformed"}, Emit(kind) PROVE StreamInv'
  BY <1>3, EmitKeeps
<1>4. ASSUME NEW kind \in {"Ping", "Other", "Close"}, SendOther(kind) PROVE StreamInv'
  BY <1>4, SendOtherKeeps
<1>5. CASE Wake \/ Connect
  BY <1>5 DEF Wake, Connect, StreamInv, StreamTypeOK, InOrder, Accounted, InHand
<1>6. CASE ConnectFails \/ ReadClose \/ ReadMalformed \/ Break \/ Undeliverable
  BY <1>6, DisconnectKeeps
     DEF ConnectFails, ReadClose, ReadMalformed, Break, Undeliverable, Fail, EndCleanly
<1>7. CASE ReadOther \/ ReadLog \/ Deliver
  BY <1>7, SkipKeeps, ReadLogKeeps, DeliverKeeps
<1> QED
  BY <1>1, <1>2, <1>3, <1>4, <1>5, <1>6, <1>7
  DEF CopyNext, Bot, Stream, Proceed, ReadFrame, copyVars

\* Over all connections, runs and full channels, the bot takes the logs in the order of the
\* chain, each of them once; and no log of a living connection is lost.
THEOREM LogsAreNeverLost == CopySpec => []LogsAreKept
<1>1. CopyInit => StreamInv
  BY StreamBegins DEF CopyInit
<1>2. StreamInv /\ [CopyNext]_copyVars => StreamInv'
  BY StreamStep
<1>3. StreamInv => LogsAreKept
  BY DEF StreamInv, InOrder, Accounted, Ascending, InHand, LogsAreKept
<1> QED BY <1>1, <1>2, <1>3, PTL DEF CopySpec
=============================================================================
