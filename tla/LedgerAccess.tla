------------------------------ MODULE LedgerAccess ------------------------------
(***************************************************************************)
(* What the bot and the recovery commands share: the ledger they open, one  *)
(* process at a time, the position store on top of it, the halt marker file *)
(* and the exchange.                                                        *)
(*                                                                          *)
(* Abstractions.  proj is the projection in the memory of the process that  *)
(* has the ledger open, disk the one a replay of the ledger file would      *)
(* give; how the two come apart is what LedgerStorage shows: only by an     *)
(* append that failed, after which the ledger refuses every further one.    *)
(* The exchange is external: an order that is posted is filled whole or not *)
(* at all, at any later time.                                               *)
(***************************************************************************)
EXTENDS LedgerProjection

\* What the exchange knows of an order it was sent.
Sent == [fate : {"InFlight", "Filled", "Killed"}, token : Tokens, side : Sides]

VARIABLES disk,      \* the projection a replay of the ledger file would give
          opens,     \* the ledger file and its snapshot would pass open_with_ops
          fatal,     \* LedgerState.fatal
          owner,     \* the process that holds the ledger's lock files
          marker,    \* the halt marker file exists
          exchange   \* exchange[o]: the order with hash o at the exchange, None if never sent

ledgerVars == <<proj, disk, opens, fatal>>

Processes == {"bot", "recovery"}

\* None is no process and no order.
ASSUME AccessAssumption == None \notin Processes /\ None \notin Sent

BotRuns == owner = "bot"

AccessInit ==
  /\ proj = EmptyProjection /\ disk = EmptyProjection
  /\ opens = TRUE /\ fatal = FALSE
  /\ owner = None /\ marker = FALSE
  /\ exchange = [o \in Orders |-> None]

-----------------------------------------------------------------------------
(* ExecutionLedger::open_live, drop and append, as LedgerStorage describes them *)

\* open_with_ops: the lock files, then the replay.
OpenLedger(process) ==
  /\ owner = None /\ opens
  /\ owner' = process
  /\ proj' = disk
  /\ UNCHANGED <<disk, opens, fatal>>

\* The process has ended, in whatever way.
CloseLedger ==
  /\ owner' = None
  /\ proj' = EmptyProjection /\ fatal' = FALSE
  /\ UNCHANGED <<disk, opens>>

AppendOk(staged) ==
  /\ ~ fatal
  /\ proj' \in Applied(proj, staged)
  /\ disk' = proj'
  /\ UNCHANGED <<opens, fatal>>

\* Refused: the ledger is fatal, the sequence is exhausted or the reducer says no.
AppendRefused(staged) ==
  /\ fatal \/ Applied(proj, staged) = {}
  /\ UNCHANGED ledgerVars

\* A file error: the line is missing or whole, and the files match or do not.
AppendBroken(staged) ==
  /\ ~ fatal /\ Applied(proj, staged) # {}
  /\ fatal' = TRUE
  /\ disk' \in {disk} \cup Applied(proj, staged)
  /\ opens' \in BOOLEAN
  /\ UNCHANGED proj

AppendErr(staged) == AppendRefused(staged) \/ AppendBroken(staged)

-----------------------------------------------------------------------------
(* The position store                                                       *)

\* precheck_open and precheck_close.  Their AlreadyApplied answers need an equal timestamp
\* (opened_at, closed_at), which a new event never has: a known identity is a conflict.
PrecheckOpen(i, position) ==
  /\ position.shares > 0 /\ position.usd > 0
  /\ \A j \in Intents : proj.positions[j] # None =>
       LET existing == proj.positions[j]
       IN  /\ existing.closing # None
                => existing.closing.intent # i /\ existing.closing.order # position.order
           /\ j # i /\ existing.order # position.order
           /\ ~ (IsOpen(existing) /\ existing.token = position.token)

PrecheckClose(target, closing) ==
  /\ closing.shares > 0 /\ closing.usd > 0
  /\ \A j \in Intents : proj.positions[j] # None =>
       LET existing == proj.positions[j]
       IN  /\ j # closing.intent /\ existing.order # closing.order
           /\ j # target /\ existing.closing # None
                => existing.closing.intent # closing.intent
                   /\ existing.closing.order # closing.order
  /\ IsOpen(proj.positions[target])
  /\ proj.positions[target].shares = closing.shares

-----------------------------------------------------------------------------
(* The exchange                                                             *)

\* The exchange decides an order when it pleases, also after the caller has given up.
Decide(o) ==
  /\ exchange[o] # None /\ exchange[o].fate = "InFlight"
  /\ \E fate \in {"Filled", "Killed"} : exchange' = [exchange EXCEPT ![o].fate = fate]
  /\ UNCHANGED <<ledgerVars, owner, marker>>
=============================================================================
