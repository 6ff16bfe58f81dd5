--------------------------- MODULE LedgerProjection ---------------------------
(***************************************************************************)
(* The reducer of the execution ledger (execution_ledger/projection.rs):    *)
(* the in-memory view of the append-only event log that every live          *)
(* submission and every recovery command goes through.                      *)
(*                                                                          *)
(* A projection is a record; for each kind of event one operator Stage...   *)
(* returns the set of projections the event can produce: a singleton when   *)
(* the code accepts the event, the empty set when it returns a LedgerError  *)
(* (nothing changes then).  The operators take the projection as an         *)
(* argument so that the modules that add files, crashes and processes use   *)
(* the same reducer on what is in memory and on what is on disk.            *)
(*                                                                          *)
(* Abstractions.  Identifiers are members of small sets.  Venue, protocol   *)
(* version and order type have one legal value and are left out; neg_risk   *)
(* is an attribute of the token.  The strategy seed (slug, tags, TP/SL) is  *)
(* one value compared as a whole.  Reason codes are dropped: no transition  *)
(* depends on them.  The identifier of an event is its sequence number:     *)
(* append() draws a fresh UUID for each event, and re-delivery of a stored  *)
(* line is the business of replay.                                          *)
(*                                                                          *)
(* A definition named Faulty... is a mistake the next definition could have *)
(* made: it is used by nothing, and a property of LedgerSafety fails when   *)
(* it takes the place of the correct one.                                   *)
(***************************************************************************)
EXTENDS Integers

CONSTANTS Intents,      \* IntentId, also PositionId of the position it opens
          Orders,       \* exact order hashes
          Tokens,       \* outcome tokens
          Seeds,        \* EntryPositionSeed: what an opened position must carry
          Micros,       \* amounts in micro-units
          MaxSequence,  \* largest sequence number (u64::MAX in the code)
          None          \* Option::None

ASSUME SequenceAssumption == MaxSequence \in Nat
ASSUME MicrosAssumption == Micros \subseteq Nat

EventIds == 1 .. MaxSequence
Sides == {"Buy", "Sell"}

Purposes == [kind : {"Entry"}, seed : Seeds] \cup [kind : {"Exit"}, position : Intents]

PreparedIntents == [order : Orders, token : Tokens, side : Sides,
                    maker : Micros, taker : Micros, purpose : Purposes]

MatchedAmounts == [shares : Micros, usd : Micros]

ActiveIntentStates ==
  {"NotSent", "SubmitStarted", "RemoteMatched", "RemoteRejected", "RemoteUncertain",
   "PositionRecorded", "ReconciliationStarted", "ReconciledMatched", "ReconciledNoFill",
   "ReconciledLive", "ReconciledPending", "ReconciledUncertain", "CancelStarted",
   "CancelResponseObserved", "RecoveryPositionRecorded", "RecoveryApplied"}

\* stage_start_reconciliation: the states a reconciliation may start from.
ReconciliationOrigins ==
  {"SubmitStarted", "RemoteMatched", "RemoteRejected", "RemoteUncertain", "PositionRecorded",
   "ReconciledLive", "ReconciledPending", "ReconciledUncertain", "CancelStarted",
   "CancelResponseObserved"}

\* Evidence is the last observation; the amounts of a match are kept with it.
Evidence == [kind : {"None", "RemoteRejected", "RemoteUncertain", "ReconciledNoFill",
                     "ReconciledLive", "ReconciledPending", "ReconciledUncertain",
                     "CancelResponseObserved", "RecoveryApplied"}]
            \cup [kind : {"RemoteMatched", "ReconciledMatched"}, amounts : MatchedAmounts]

\* DurableRemoteOutcome: what the submission itself was told, kept for good.
Outcomes == {"Unknown", "Matched", "Rejected"}

ActiveIntents == [intent : Intents, prepared : PreparedIntents, state : ActiveIntentStates,
                  positionEvent : EventIds \cup {None}, evidence : Evidence,
                  origin : ReconciliationOrigins \cup {None}, outcome : Outcomes]

Closings == [intent : Intents, order : Orders, shares : Micros, usd : Micros]

Positions == [order : Orders, token : Tokens, side : Sides, seed : Seeds,
              shares : Micros, usd : Micros, closing : Closings \cup {None}]

CleanupOwners == [intent : Intents, order : Orders]

\* None is the value of an absent option and of nothing else.
ASSUME NoneAssumption ==
  /\ None \notin Intents /\ None \notin Orders
  /\ None \notin ReconciliationOrigins /\ None \notin EventIds
  /\ None \notin ActiveIntents /\ None \notin Positions
  /\ None \notin Closings /\ None \notin CleanupOwners

Projections ==
  [sequence : 0 .. MaxSequence,
   active : ActiveIntents \cup {None},
   cleanupPending : CleanupOwners \cup {None},
   positions : [Intents -> Positions \cup {None}],
   intentOrders : [Intents -> Orders \cup {None}],
   orderIntents : [Orders -> Intents \cup {None}]]

EmptyProjection ==
  [sequence |-> 0, active |-> None, cleanupPending |-> None,
   positions |-> [i \in Intents |-> None],
   intentOrders |-> [i \in Intents |-> None],
   orderIntents |-> [o \in Orders |-> None]]

-----------------------------------------------------------------------------
(* Readers *)

IsOpen(position) == position # None /\ position.closing = None

OpenWithToken(p, token) == \E i \in Intents : IsOpen(p.positions[i])
                                              /\ p.positions[i].token = token

\* active_for: the event names the intent in flight.
ActiveFor(p, i) == p.active # None /\ p.active.intent = i

Opposite(side) == IF side = "Buy" THEN "Sell" ELSE "Buy"

\* A buyer makes USD and takes shares, a seller the other way round.
SharesOf(prepared) == IF prepared.side = "Buy" THEN prepared.taker ELSE prepared.maker
UsdOf(prepared) == IF prepared.side = "Buy" THEN prepared.maker ELSE prepared.taker

\* validate_match: the exact order amounts, both positive.
ExactMatch(p, i, amounts) ==
  /\ ActiveFor(p, i)
  /\ amounts.shares > 0 /\ amounts.usd > 0
  /\ amounts = [shares |-> SharesOf(p.active.prepared), usd |-> UsdOf(p.active.prepared)]

-----------------------------------------------------------------------------
(* The reducer: one operator per payload.                                  *)

\* Err leaves the projection alone, Ok replaces it.
When(accepted, result) == IF accepted THEN {result} ELSE {}

\* A pending marker cleanup is forgotten.
FaultyPrepareAllowed(p, prepared) ==
  p.active = None /\ prepared.maker # 0 /\ prepared.taker # 0

PrepareAllowed(p, prepared) ==
  /\ p.active = None
  /\ p.cleanupPending = None
  /\ prepared.maker # 0 /\ prepared.taker # 0

\* The token is checked only when the fill is booked.
FaultyEntryAllowed(p, prepared) == TRUE

EntryAllowed(p, prepared) == ~ OpenWithToken(p, prepared.token)

ExitAllowed(p, prepared) ==
  LET position == p.positions[prepared.purpose.position]
  IN  /\ IsOpen(position)
      /\ position.token = prepared.token
      /\ position.side = Opposite(prepared.side)
      /\ position.shares = SharesOf(prepared)

FaultyUnusedOrder(p, i, order) == p.orderIntents[order] = None

Unused(p, i, order) == p.intentOrders[i] = None /\ p.orderIntents[order] = None

StagePrepare(p, i, prepared) ==
  When(/\ Unused(p, i, prepared.order)
       /\ PrepareAllowed(p, prepared)
       /\ IF prepared.purpose.kind = "Entry" THEN EntryAllowed(p, prepared)
                                             ELSE ExitAllowed(p, prepared),
       [p EXCEPT !.active = [intent |-> i, prepared |-> prepared, state |-> "NotSent",
                             positionEvent |-> None, evidence |-> [kind |-> "None"],
                             origin |-> None, outcome |-> "Unknown"],
                 !.intentOrders[i] = prepared.order,
                 !.orderIntents[prepared.order] = i])

StageTransition(p, i, from, to) ==
  When(ActiveFor(p, i) /\ p.active.state = from, [p EXCEPT !.active.state = to])

StageObservation(p, i, from, to, evidence) ==
  { [q EXCEPT !.active.evidence = evidence] : q \in StageTransition(p, i, from, to) }

StageSubmitStarted(p, i) == StageTransition(p, i, "NotSent", "SubmitStarted")

StageRemoteMatched(p, i, amounts) ==
  When(ExactMatch(p, i, amounts) /\ p.active.state = "SubmitStarted",
       [p EXCEPT !.active.state = "RemoteMatched",
                 !.active.evidence = [kind |-> "RemoteMatched", amounts |-> amounts],
                 !.active.outcome = "Matched"])

StageRemoteRejected(p, i) ==
  { [q EXCEPT !.active.outcome = "Rejected"] :
      q \in StageObservation(p, i, "SubmitStarted", "RemoteRejected",
                             [kind |-> "RemoteRejected"]) }

StageRemoteUncertain(p, i) ==
  StageObservation(p, i, "SubmitStarted", "RemoteUncertain", [kind |-> "RemoteUncertain"])

\* stage_clear_normal, for SubmissionCommitted and SubmissionCommittedNoFill.
\* A match can be committed before its position is recorded.
FaultyStageClear(p, i, expected) ==
  When(ActiveFor(p, i) /\ p.active.state \in {expected, "RemoteMatched"},
       [p EXCEPT !.active = None])

StageClear(p, i, expected) ==
  When(ActiveFor(p, i) /\ p.active.state = expected, [p EXCEPT !.active = None])

\* PositionRecorded on the submission path, RecoveryPositionRecorded on the recovery path.
RecordedState(state) ==
  IF state = "RemoteMatched" THEN "PositionRecorded" ELSE "RecoveryPositionRecorded"

AwaitsPosition(p, i, kind) ==
  /\ ActiveFor(p, i)
  /\ p.active.state \in {"RemoteMatched", "ReconciledMatched"}
  /\ p.active.prepared.purpose.kind = kind

\* The position an entry must open is fixed by the prepared intent.
ExactOpening(active, position) ==
  /\ position.order = active.prepared.order
  /\ position.token = active.prepared.token
  /\ position.side = active.prepared.side
  /\ position.seed = active.prepared.purpose.seed
  /\ position.closing = None

StageOpenPosition(p, i, position) ==
  When(/\ AwaitsPosition(p, i, "Entry")
       /\ ExactMatch(p, i, [shares |-> position.shares, usd |-> position.usd])
       /\ ExactOpening(p.active, position)
       /\ p.positions[i] = None
       /\ ~ OpenWithToken(p, position.token),
       [p EXCEPT !.positions[i] = position,
                 !.active.state = RecordedState(p.active.state),
                 !.active.positionEvent = p.sequence + 1])

\* The close trusts the position the event names.
FaultyClosesNamed(p, i, target, closing) ==
  When(/\ AwaitsPosition(p, i, "Exit")
       /\ ExactMatch(p, i, [shares |-> closing.shares, usd |-> closing.usd])
       /\ closing.intent = i /\ closing.order = p.active.prepared.order
       /\ IsOpen(p.positions[target]),
       [p EXCEPT !.positions[target].closing = closing,
                 !.active.state = RecordedState(p.active.state),
                 !.active.positionEvent = p.sequence + 1])

StageClosePosition(p, i, target, closing) ==
  When(/\ AwaitsPosition(p, i, "Exit")
       /\ ExactMatch(p, i, [shares |-> closing.shares, usd |-> closing.usd])
       /\ target = p.active.prepared.purpose.position
       /\ closing.intent = i
       /\ closing.order = p.active.prepared.order
       /\ IsOpen(p.positions[target])
       /\ p.positions[target].token = p.active.prepared.token
       /\ p.positions[target].shares = closing.shares,
       [p EXCEPT !.positions[target].closing = closing,
                 !.active.state = RecordedState(p.active.state),
                 !.active.positionEvent = p.sequence + 1])

\* A reconciliation starts from nothing, the recorded position event forgotten.
FaultyStageStartReconciliation(p, i) ==
  When(ActiveFor(p, i) /\ p.active.state \in ReconciliationOrigins,
       [p EXCEPT !.active.origin = p.active.state, !.active.state = "ReconciliationStarted",
                 !.active.positionEvent = None])

StageStartReconciliation(p, i) ==
  When(ActiveFor(p, i) /\ p.active.state \in ReconciliationOrigins,
       [p EXCEPT !.active.origin = p.active.state, !.active.state = "ReconciliationStarted"])

\* The durable outcome is not compared with the reconciled one.
FaultyStageReconciledMatched(p, i, amounts) ==
  When(ExactMatch(p, i, amounts) /\ p.active.state = "ReconciliationStarted",
       [p EXCEPT !.active.state = "ReconciledMatched",
                 !.active.evidence = [kind |-> "ReconciledMatched", amounts |-> amounts]])

\* A durable rejection is never turned into a fill.
StageReconciledMatched(p, i, amounts) ==
  When(/\ ExactMatch(p, i, amounts)
       /\ p.active.state = "ReconciliationStarted"
       /\ p.active.outcome # "Rejected",
       [p EXCEPT !.active.state = "ReconciledMatched",
                 !.active.evidence = [kind |-> "ReconciledMatched", amounts |-> amounts]])

\* stage_classify_without_position: uncertainty is always recorded; anything else must
\* agree with a recorded position event and with the durable remote outcome.
ClassificationAgrees(active, class) ==
  \/ class = "ReconciledUncertain"
  \/ /\ active.positionEvent = None
     /\ active.outcome \in (IF class = "ReconciledNoFill" THEN {"Unknown", "Rejected"}
                                                          ELSE {"Unknown"})

StageReconciledOther(p, i, class) ==
  When(/\ ActiveFor(p, i)
       /\ p.active.state = "ReconciliationStarted"
       /\ ClassificationAgrees(p.active, class),
       [p EXCEPT !.active.state = class, !.active.evidence = [kind |-> class]])

StageCancelStarted(p, i) == StageTransition(p, i, "ReconciledLive", "CancelStarted")

StageCancelResponseObserved(p, i) ==
  StageObservation(p, i, "CancelStarted", "CancelResponseObserved",
                   [kind |-> "CancelResponseObserved"])

StageRecoveryApplied(p, i, eventId) ==
  When(/\ ActiveFor(p, i)
       /\ p.active.state \in {"RecoveryPositionRecorded", "ReconciledMatched"}
       /\ p.active.positionEvent = eventId,
       [p EXCEPT !.active.state = "RecoveryApplied",
                 !.active.evidence = [kind |-> "RecoveryApplied"]])

\* The reason of an acknowledgement names the state it settles.
AcknowledgeReasons == {"NotSent", "ReconciledNoFill", "RecoveryApplied"}

StageAcknowledge(p, i, reason) ==
  When(ActiveFor(p, i) /\ reason \in AcknowledgeReasons /\ p.active.state = reason,
       [p EXCEPT !.active = None,
                 !.cleanupPending = [intent |-> i, order |-> p.active.prepared.order]])

StageCleanupCompleted(p, i) ==
  When(/\ p.cleanupPending # None /\ p.cleanupPending.intent = i
       /\ p.active = None,
       [p EXCEPT !.cleanupPending = None])

\* validate_envelope and publish_staged: the event takes the next sequence number, and the
\* projection that was staged becomes the current one.
Applied(p, staged) ==
  IF p.sequence < MaxSequence THEN { [q EXCEPT !.sequence = p.sequence + 1] : q \in staged }
                              ELSE {}

-----------------------------------------------------------------------------
(* The ledger as a state machine: any event the reducer accepts.           *)

VARIABLE proj

vars == <<proj>>

Publish(staged) == proj' \in Applied(proj, staged)

Init == proj = EmptyProjection

IntentPrepared(i) ==
  \E prepared \in PreparedIntents : Publish(StagePrepare(proj, i, prepared))
SubmitStarted(i) == Publish(StageSubmitStarted(proj, i))
RemoteMatched(i) == \E amounts \in MatchedAmounts : Publish(StageRemoteMatched(proj, i, amounts))
RemoteRejected(i) == Publish(StageRemoteRejected(proj, i))
RemoteUncertain(i) == Publish(StageRemoteUncertain(proj, i))
SubmissionCommitted(i) == Publish(StageClear(proj, i, "PositionRecorded"))
SubmissionCommittedNoFill(i) == Publish(StageClear(proj, i, "RemoteRejected"))

PositionOpened(i) ==
  \E order \in Orders, token \in Tokens, side \in Sides, seed \in Seeds, amounts \in MatchedAmounts :
    Publish(StageOpenPosition(proj, i,
              [order |-> order, token |-> token, side |-> side, seed |-> seed,
               shares |-> amounts.shares, usd |-> amounts.usd, closing |-> None]))

PositionClosed(i) ==
  \E target \in Intents, closing \in Closings :
    Publish(StageClosePosition(proj, i, target, closing))

ReconciliationStarted(i) == Publish(StageStartReconciliation(proj, i))
ReconciledMatched(i) ==
  \E amounts \in MatchedAmounts : Publish(StageReconciledMatched(proj, i, amounts))
ReconciledNoFill(i) == Publish(StageReconciledOther(proj, i, "ReconciledNoFill"))
ReconciledLive(i) == Publish(StageReconciledOther(proj, i, "ReconciledLive"))
ReconciledPending(i) == Publish(StageReconciledOther(proj, i, "ReconciledPending"))
ReconciledUncertain(i) == Publish(StageReconciledOther(proj, i, "ReconciledUncertain"))
CancelStarted(i) == Publish(StageCancelStarted(proj, i))
CancelResponseObserved(i) == Publish(StageCancelResponseObserved(proj, i))

RecoveryApplied(i) ==
  \E eventId \in EventIds : Publish(StageRecoveryApplied(proj, i, eventId))
Acknowledged(i) ==
  \E reason \in AcknowledgeReasons : Publish(StageAcknowledge(proj, i, reason))
HaltMarkerCleanupCompleted(i) == Publish(StageCleanupCompleted(proj, i))

Submission(i) ==
  \/ IntentPrepared(i) \/ SubmitStarted(i)
  \/ RemoteMatched(i) \/ RemoteRejected(i) \/ RemoteUncertain(i)
  \/ SubmissionCommitted(i) \/ SubmissionCommittedNoFill(i)

Reconciliation(i) ==
  \/ ReconciliationStarted(i) \/ ReconciledMatched(i) \/ ReconciledNoFill(i)
  \/ ReconciledLive(i) \/ ReconciledPending(i) \/ ReconciledUncertain(i)
  \/ CancelStarted(i) \/ CancelResponseObserved(i)

Recovery(i) == RecoveryApplied(i) \/ Acknowledged(i) \/ HaltMarkerCleanupCompleted(i)

Next == \E i \in Intents : \/ Submission(i) \/ PositionOpened(i) \/ PositionClosed(i)
                           \/ Reconciliation(i) \/ Recovery(i)

Spec == Init /\ [][Next]_vars
=============================================================================
