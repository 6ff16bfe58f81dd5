----------------------------- MODULE LiveExecution -----------------------------
(***************************************************************************)
(* Live trading: the entry path (order_executor.rs, driven by the bot's     *)
(* main loop) and the exit path (position_monitor.rs, a task of its own)    *)
(* submit fill-or-kill orders through one circuit breaker                   *)
(* (execution_circuit_breaker.rs), which journals every submission in the   *)
(* ledger before the POST and settles it there afterwards.  The process can *)
(* crash between any two steps, and starts again only when the ledger and   *)
(* the halt marker allow it.                                                *)
(*                                                                          *)
(* Abstractions.  Which trades are copied and when an exit triggers is left *)
(* open: any token without an open position may be entered, any open        *)
(* position exited.                                                         *)
(*                                                                          *)
(* A definition named Faulty... is a mistake the next definition could have *)
(* made; nothing uses it.                                                   *)
(***************************************************************************)
EXTENDS LedgerAccess

Callers == {"executor", "monitor"}

Exits == {"Idle", "Failed"}

Steps == {"Planned",     \* the book has been read; market data is being fetched
          "Queued",      \* waiting for the submission lock
          "Checked",     \* the breaker is not halted; the gateway prepares and signs
          "Prepared",    \* IntentPrepared is in the ledger
          "Started",     \* SubmitStarted is in the ledger; the POST may leave
          "Posted",      \* waiting for the response
          "Matched",     \* the response is an exact match
          "Booking",     \* RemoteMatched is in the ledger
          "Booked",      \* the position event is in the ledger
          "Rejected",    \* the response is a rejection
          "Dropping",    \* RemoteRejected is in the ledger
          "Uncertain",   \* a timeout, or a response that proves nothing
          "Halting"}     \* the submission cannot be completed

Plans == [token : Tokens, side : Sides, purpose : Purposes, shares : Micros \cup {None}]

Submissions == [intent : Intents, prepared : PreparedIntents]

\* None is no caller: the lock it holds is free.
ASSUME CallersAssumption == None \notin Callers

VARIABLES halted,    \* ExecutionCircuitBreaker.halted
          lock,      \* holder of submit_lock
          at,        \* at[c]: where caller c is
          plan,      \* plan[c]: the PlannedOrder and its purpose
          job        \* job[c]: the signed order and its intent

breakerVars == <<halted, marker, lock>>
callerVars == <<at, plan, job>>
liveVars == <<ledgerVars, breakerVars, owner, callerVars, exchange>>

LiveInit ==
  /\ AccessInit
  /\ halted = FALSE /\ lock = None
  /\ at = [c \in Callers |-> "Idle"]
  /\ plan = [c \in Callers |-> None] /\ job = [c \in Callers |-> None]

-----------------------------------------------------------------------------
(* Callers                                                                  *)

Move(c, to) == at' = [at EXCEPT ![c] = to]

\* execute: an entry into a token that has no open position.
PlanEntry ==
  /\ BotRuns /\ at["executor"] = "Idle"
  /\ \E token \in Tokens, seed \in Seeds :
       /\ ~ OpenWithToken(proj, token)
       /\ plan' = [plan EXCEPT !["executor"] =
                     [token |-> token, side |-> "Buy", shares |-> None,
                      purpose |-> [kind |-> "Entry", seed |-> seed]]]
  /\ Move("executor", "Planned")
  /\ UNCHANGED <<ledgerVars, breakerVars, owner, job, exchange>>

\* monitor_once, exit_plan: an exit of the whole of a position in the tick's snapshot.
PlanExit ==
  /\ BotRuns /\ at["monitor"] = "Idle"
  /\ \E i \in Intents :
       /\ IsOpen(proj.positions[i])
       /\ plan' = [plan EXCEPT !["monitor"] =
                     [token |-> proj.positions[i].token,
                      side |-> Opposite(proj.positions[i].side),
                      shares |-> proj.positions[i].shares,
                      purpose |-> [kind |-> "Exit", position |-> i]]]
  /\ Move("monitor", "Planned")
  /\ UNCHANGED <<ledgerVars, breakerVars, owner, job, exchange>>

\* The market or midpoint lookup, eligibility, exposure, risk and exit rules: the trade is
\* given up or submitted.  Neither lookup has a timeout.
Proceed(c) ==
  /\ at[c] = "Planned"
  /\ \/ Move(c, "Queued") /\ UNCHANGED plan
     \/ Move(c, "Idle") /\ plan' = [plan EXCEPT ![c] = None]
  /\ UNCHANGED <<ledgerVars, breakerVars, owner, job, exchange>>

\* submit_fok: the submission lock, then check(), which looks at the halt flag and at a
\* pending cleanup.
EntersHalted == halted \/ proj.cleanupPending # None

\* The breaker is checked without taking the submission lock.
FaultyEnter(c) ==
  /\ at[c] = "Queued"
  /\ IF EntersHalted THEN Move(c, "Failed") ELSE Move(c, "Checked")
  /\ UNCHANGED <<ledgerVars, breakerVars, owner, plan, job, exchange>>

Enter(c) ==
  /\ at[c] = "Queued" /\ lock = None
  /\ IF EntersHalted THEN Move(c, "Failed") /\ UNCHANGED lock
                     ELSE Move(c, "Checked") /\ lock' = c
  /\ UNCHANGED <<ledgerVars, halted, marker, owner, plan, job, exchange>>

\* A submission is over without a halt: the caller goes back to its loop.
Finish(c) ==
  /\ Move(c, "Idle")
  /\ plan' = [plan EXCEPT ![c] = None] /\ job' = [job EXCEPT ![c] = None]
  /\ lock' = None

\* prepare_fok fails before the journal is called.
Preflight(c) ==
  /\ at[c] = "Checked"
  /\ Finish(c)
  /\ UNCHANGED <<ledgerVars, halted, marker, owner, exchange>>

\* The intent identity is random and the order hash covers a random salt: both are new.
Signed(c) ==
  { s \in Submissions :
      /\ proj.intentOrders[s.intent] = None /\ disk.intentOrders[s.intent] = None
      /\ proj.orderIntents[s.prepared.order] = None /\ disk.orderIntents[s.prepared.order] = None
      /\ s.prepared.token = plan[c].token /\ s.prepared.side = plan[c].side
      /\ s.prepared.purpose = plan[c].purpose
      /\ s.prepared.maker > 0 /\ s.prepared.taker > 0
      /\ plan[c].shares # None => SharesOf(s.prepared) = plan[c].shares }

\* before_post, first half: IntentPrepared
Prepare(c) ==
  /\ at[c] = "Checked"
  /\ \E s \in Signed(c) :
       /\ job' = [job EXCEPT ![c] = s]
       /\ \/ AppendOk(StagePrepare(proj, s.intent, s.prepared)) /\ Move(c, "Prepared")
          \/ AppendErr(StagePrepare(proj, s.intent, s.prepared)) /\ Move(c, "Halting")
  /\ UNCHANGED <<breakerVars, owner, plan, exchange>>

\* An append after which the caller goes on, or halts when it fails.
Journal(c, from, staged, to) ==
  /\ at[c] = from
  /\ \/ AppendOk(staged) /\ Move(c, to)
     \/ AppendErr(staged) /\ Move(c, "Halting")
  /\ UNCHANGED <<breakerVars, owner, plan, job, exchange>>

\* before_post, second half: SubmitStarted
Start(c) == Journal(c, "Prepared", StageSubmitStarted(proj, job[c].intent), "Started")

\* The order leaves once IntentPrepared is in the ledger.
FaultyPostEarly(c) ==
  /\ at[c] \in {"Prepared", "Started"}
  /\ exchange' = [exchange EXCEPT ![job[c].prepared.order] =
                     [fate |-> "InFlight", token |-> plan[c].token, side |-> plan[c].side]]
  /\ Move(c, "Posted")
  /\ UNCHANGED <<ledgerVars, breakerVars, owner, plan, job>>

\* An answer that proves nothing is followed by a retry.
FaultyPostRetried(c) ==
  /\ at[c] \in {"Started", "Uncertain"}
  /\ exchange' = [exchange EXCEPT ![job[c].prepared.order] =
                     [fate |-> "InFlight", token |-> plan[c].token, side |-> plan[c].side]]
  /\ Move(c, "Posted")
  /\ UNCHANGED <<ledgerVars, breakerVars, owner, plan, job>>

Post(c) ==
  /\ at[c] = "Started"
  /\ exchange' = [exchange EXCEPT ![job[c].prepared.order] =
                     [fate |-> "InFlight", token |-> plan[c].token, side |-> plan[c].side]]
  /\ Move(c, "Posted")
  /\ UNCHANGED <<ledgerVars, breakerVars, owner, plan, job>>

\* Any success counts as a fill, also one that is still pending.
FaultyAnswersPending(fate) == IF fate = "Killed" THEN {"Rejected"} ELSE {"Matched", "Uncertain"}

\* The POST has no timeout.
FaultyAnswersOnly(fate) == (IF fate = "Filled" THEN {"Matched"} ELSE {})
                           \cup (IF fate = "Killed" THEN {"Rejected"} ELSE {})

\* classify_response, classify_post_error: an exact match proves the fill, a rejection that
\* there is none; a timeout, a transport error or any other answer proves nothing.
Answers(fate) == {"Uncertain"} \cup (IF fate = "Filled" THEN {"Matched"} ELSE {})
                               \cup (IF fate = "Killed" THEN {"Rejected"} ELSE {})

Answer(c) ==
  /\ at[c] = "Posted"
  /\ \E result \in Answers(exchange[job[c].prepared.order].fate) : Move(c, result)
  /\ UNCHANGED <<ledgerVars, breakerVars, owner, plan, job, exchange>>

\* classify_response has compared the amounts with those of the signed order.
Receipt(c) == [shares |-> SharesOf(job[c].prepared), usd |-> UsdOf(job[c].prepared)]

RecordMatch(c) ==
  Journal(c, "Matched", StageRemoteMatched(proj, job[c].intent, Receipt(c)), "Booking")

\* pending_entry_identity, pending_exit_intent: the order is the one in flight.
Pending(c) == proj.active # None /\ proj.active.prepared.order = job[c].prepared.order
                                /\ proj.active.prepared.purpose = plan[c].purpose

\* record_open_from_receipt and apply_open
Opening(c) ==
  LET position == [order |-> job[c].prepared.order, token |-> plan[c].token,
                   side |-> plan[c].side, seed |-> plan[c].purpose.seed,
                   shares |-> Receipt(c).shares, usd |-> Receipt(c).usd, closing |-> None]
  IN  IF Pending(c) /\ PrecheckOpen(proj.active.intent, position)
      THEN StageOpenPosition(proj, proj.active.intent, position)
      ELSE {}

\* apply_filled_close and apply_close
Closing(c) ==
  LET target == plan[c].purpose.position
      closing == [intent |-> job[c].intent, order |-> job[c].prepared.order,
                  shares |-> Receipt(c).shares, usd |-> Receipt(c).usd]
  IN  IF /\ Receipt(c).shares = plan[c].shares
         /\ Pending(c) /\ PrecheckClose(target, closing)
      THEN StageClosePosition(proj, proj.active.intent, target, closing)
      ELSE {}

Book(c) ==
  Journal(c, "Booking", IF plan[c].purpose.kind = "Entry" THEN Opening(c) ELSE Closing(c),
          "Booked")

\* SubmissionCommitted, SubmissionCommittedNoFill
Commit(c, from, expected) ==
  LET staged == StageClear(proj, job[c].intent, expected)
  IN  /\ at[c] = from
      /\ \/ AppendOk(staged) /\ Finish(c)
         \/ AppendErr(staged) /\ Move(c, "Halting") /\ UNCHANGED <<plan, job, lock>>
      /\ UNCHANGED <<halted, marker, owner, exchange>>

CommitFill(c) == Commit(c, "Booked", "PositionRecorded")

RecordReject(c) ==
  Journal(c, "Rejected", StageRemoteRejected(proj, job[c].intent), "Dropping")

CommitNoFill(c) == Commit(c, "Dropping", "RemoteRejected")

\* Whether or not RemoteUncertain can be recorded, the breaker halts.
RecordUncertain(c) ==
  Journal(c, "Uncertain", StageRemoteUncertain(proj, job[c].intent), "Halting")

\* halt_uncertain: the flag is set first, the marker file may fail to appear.
Halt(c) ==
  /\ at[c] = "Halting"
  /\ halted' = TRUE
  /\ marker' \in {marker, TRUE}
  /\ lock' = None
  /\ Move(c, "Failed")
  /\ UNCHANGED <<ledgerVars, owner, plan, job, exchange>>

-----------------------------------------------------------------------------
(* The process                                                              *)

Down ==
  /\ CloseLedger
  /\ halted' = FALSE /\ lock' = None
  /\ at' = [c \in Callers |-> "Idle"]
  /\ plan' = [c \in Callers |-> None] /\ job' = [c \in Callers |-> None]
  /\ UNCHANGED exchange

\* run_with_factory: a fatal error of either path ends the bot.  The main loop looks at the
\* monitor's only between two of its own submissions.
Exit(c) ==
  /\ BotRuns /\ at[c] = "Failed"
  /\ c = "monitor" => at["executor"] \in Exits
  /\ Down /\ UNCHANGED marker

\* A crash, a shutdown signal, a power loss; the marker's directory is never synced.
Crash == BotRuns /\ Down /\ marker' \in {marker, FALSE}

\* An unresolved intent does not stop the bot from starting.
FaultyMayStart == disk.cleanupPending = None /\ ~ marker

\* new_with_gateway_factory, new_live: refused unless the ledger opens, nothing is unresolved
\* and no marker is present.
MayStart == disk.active = None /\ disk.cleanupPending = None /\ ~ marker

Restart ==
  /\ MayStart
  /\ OpenLedger("bot")
  /\ UNCHANGED <<breakerVars, callerVars, exchange>>

Submit(c) ==
  \/ Proceed(c) \/ Enter(c) \/ Preflight(c) \/ Prepare(c) \/ Start(c) \/ Post(c) \/ Answer(c)
  \/ RecordMatch(c) \/ Book(c) \/ CommitFill(c)
  \/ RecordReject(c) \/ CommitNoFill(c)
  \/ RecordUncertain(c) \/ Halt(c)

Trading == PlanEntry \/ PlanExit \/ \E c \in Callers : Submit(c) \/ Exit(c)

BotNext == Trading \/ Crash \/ Restart

LiveNext == BotNext \/ \E o \in Orders : Decide(o) /\ UNCHANGED <<breakerVars, callerVars>>

LiveSpec == LiveInit /\ [][LiveNext]_liveVars

\* Appends and the marker are plain calls and the POST has a timeout.  Nothing bounds the
\* lookups of Proceed and of prepare_fok, and nothing makes the exchange decide.
Settling(c) == \/ Start(c) \/ Post(c) \/ Answer(c) \/ RecordMatch(c) \/ Book(c) \/ CommitFill(c)
               \/ RecordReject(c) \/ CommitNoFill(c) \/ RecordUncertain(c) \/ Halt(c)

FairLiveSpec == LiveSpec /\ \A c \in Callers : WF_liveVars(Settling(c))
=============================================================================
