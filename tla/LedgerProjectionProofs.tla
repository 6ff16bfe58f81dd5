------------------------ MODULE LedgerProjectionProofs ------------------------
(***************************************************************************)
(* Every projection the reducer can produce is Safe, for any sets of        *)
(* intents, orders, tokens and amounts and any length of the log.           *)
(*                                                                          *)
(* The argument: an event changes a projection in one of six shapes         *)
(* (Begun, Advanced, OpenBooked, CloseBooked, Cleared, CleanedUp).  The     *)
(* first part shows that each payload has its shape, the second that each   *)
(* shape keeps the conjuncts of Safe, the third draws the theorems.         *)
(***************************************************************************)
EXTENDS LedgerSafety, TLAPS

-----------------------------------------------------------------------------
(* The shapes of a step *)

\* The part of EffectRemembered and OutcomeRespected that is about the active record alone.
StateAgrees(a) ==
  /\ a.state \in {"PositionRecorded", "RecoveryPositionRecorded", "RecoveryApplied"}
       => a.positionEvent # None
  /\ a.state \in {"NotSent", "SubmitStarted", "RemoteMatched", "RemoteRejected",
                  "RemoteUncertain", "ReconciledNoFill", "ReconciledLive",
                  "ReconciledPending", "CancelStarted", "CancelResponseObserved"}
       => a.positionEvent = None
  /\ a.state \in {"NotSent", "SubmitStarted", "RemoteUncertain", "ReconciledLive",
                  "ReconciledPending", "CancelStarted", "CancelResponseObserved"}
       => a.outcome = "Unknown"
  /\ a.state \in {"RemoteMatched", "PositionRecorded"} => a.outcome = "Matched"
  /\ a.state = "RemoteRejected" => a.outcome = "Rejected"
  /\ a.state = "ReconciledNoFill" => a.outcome # "Matched"
  /\ a.state \in {"ReconciledMatched", "RecoveryPositionRecorded", "RecoveryApplied"}
       => a.outcome # "Rejected"
  /\ a.outcome = "Rejected" => a.positionEvent = None

\* The fields of q, one by one: s, a, c, b, io and oi are what its fields must be.
Is(q, s, a, c, b, io, oi) ==
  /\ q.sequence = s /\ q.active = a /\ q.cleanupPending = c
  /\ q.positions = b /\ q.intentOrders = io /\ q.orderIntents = oi
  /\ q \in Projections

Fresh(i, prepared) ==
  [intent |-> i, prepared |-> prepared, state |-> "NotSent", positionEvent |-> None,
   evidence |-> [kind |-> "None"], origin |-> None, outcome |-> "Unknown"]

Begun(p, q, i, prepared) ==
  /\ PrepareAllowed(p, prepared)
  /\ p.intentOrders[i] = None /\ p.orderIntents[prepared.order] = None
  /\ prepared.purpose.kind = "Entry" => EntryAllowed(p, prepared)
  /\ prepared.purpose.kind # "Entry" => ExitAllowed(p, prepared)
  /\ Is(q, p.sequence + 1, Fresh(i, prepared), p.cleanupPending, p.positions,
        [p.intentOrders EXCEPT ![i] = prepared.order],
        [p.orderIntents EXCEPT ![prepared.order] = i])

Advanced(p, q, a) ==
  /\ p.active # None
  /\ a \in ActiveIntents
  /\ a.intent = p.active.intent /\ a.prepared = p.active.prepared
  /\ a.positionEvent = p.active.positionEvent
  /\ StateAgrees(p.active) => StateAgrees(a)
  /\ Is(q, p.sequence + 1, a, p.cleanupPending, p.positions, p.intentOrders, p.orderIntents)

Recorded(p) ==
  [p.active EXCEPT !.state = RecordedState(p.active.state), !.positionEvent = p.sequence + 1]

OpenBooked(p, q, position) ==
  /\ p.active # None
  /\ p.active.state \in {"RemoteMatched", "ReconciledMatched"}
  /\ p.active.prepared.purpose.kind = "Entry"
  /\ ExactOpening(p.active, position) /\ position \in Positions
  /\ p.positions[p.active.intent] = None
  /\ ~ OpenWithToken(p, position.token)
  /\ Is(q, p.sequence + 1, Recorded(p), p.cleanupPending,
        [p.positions EXCEPT ![p.active.intent] = position], p.intentOrders, p.orderIntents)

CloseBooked(p, q, target, closing) ==
  /\ p.active # None
  /\ p.active.state \in {"RemoteMatched", "ReconciledMatched"}
  /\ p.active.prepared.purpose.kind = "Exit"
  /\ closing \in Closings /\ target \in Intents
  /\ target = p.active.prepared.purpose.position
  /\ closing.intent = p.active.intent /\ closing.order = p.active.prepared.order
  /\ IsOpen(p.positions[target])
  /\ p.positions[target].shares = closing.shares
  /\ Is(q, p.sequence + 1, Recorded(p), p.cleanupPending,
        [p.positions EXCEPT ![target] = [p.positions[target] EXCEPT !.closing = closing]],
        p.intentOrders, p.orderIntents)

Cleared(p, q, c) ==
  /\ p.active # None
  /\ \/ p.active.state \in {"PositionRecorded", "RemoteRejected"} /\ c = p.cleanupPending
     \/ /\ p.active.state \in AcknowledgeReasons
        /\ c = [intent |-> p.active.intent, order |-> p.active.prepared.order]
  /\ Is(q, p.sequence + 1, None, c, p.positions, p.intentOrders, p.orderIntents)

CleanedUp(p, q) ==
  /\ p.cleanupPending # None /\ p.active = None
  /\ Is(q, p.sequence + 1, None, None, p.positions, p.intentOrders, p.orderIntents)

Step(p, q) ==
  \/ \E i \in Intents, prepared \in PreparedIntents : Begun(p, q, i, prepared)
  \/ \E a : Advanced(p, q, a)
  \/ \E position : OpenBooked(p, q, position)
  \/ \E target, closing : CloseBooked(p, q, target, closing)
  \/ \E c : Cleared(p, q, c)
  \/ CleanedUp(p, q)

-----------------------------------------------------------------------------
(* Part 1: each payload has its shape *)

\* A projection with typed fields is a projection, and publishing replaces fields and
\* takes the next sequence number.
LEMMA Republished ==
  ASSUME NEW p \in Projections, p.sequence < MaxSequence,
         NEW a \in ActiveIntents \cup {None}, NEW c \in CleanupOwners \cup {None},
         NEW b \in [Intents -> Positions \cup {None}],
         NEW io \in [Intents -> Orders \cup {None}], NEW oi \in [Orders -> Intents \cup {None}],
         NEW q, q = [sequence |-> p.sequence + 1, active |-> a, cleanupPending |-> c,
                     positions |-> b, intentOrders |-> io, orderIntents |-> oi]
  PROVE  Is(q, p.sequence + 1, a, c, b, io, oi)
<1>1. p.sequence + 1 \in 0 .. MaxSequence
  BY SequenceAssumption DEF Projections
<1> QED BY <1>1 DEF Is, Projections

\* IntentPrepared puts a fresh record in flight and registers its two identities.
LEMMA PrepareStep ==
  ASSUME NEW p \in Projections, NEW i \in Intents, NEW prepared \in PreparedIntents,
         NEW q \in Applied(p, StagePrepare(p, i, prepared))
  PROVE  Begun(p, q, i, prepared)
<1> DEFINE a == Fresh(i, prepared)
           io == [p.intentOrders EXCEPT ![i] = prepared.order]
           oi == [p.orderIntents EXCEPT ![prepared.order] = i]
<1>1. /\ p.sequence < MaxSequence
      /\ PrepareAllowed(p, prepared)
      /\ p.intentOrders[i] = None /\ p.orderIntents[prepared.order] = None
      /\ IF prepared.purpose.kind = "Entry" THEN EntryAllowed(p, prepared)
                                            ELSE ExitAllowed(p, prepared)
      /\ q = [[p EXCEPT !.active = a, !.intentOrders[i] = prepared.order,
                        !.orderIntents[prepared.order] = i]
                EXCEPT !.sequence = p.sequence + 1]
  BY DEF Applied, StagePrepare, Unused, When, Fresh
<1>2. a \in ActiveIntents
  BY DEF ActiveIntents, ActiveIntentStates, Evidence, Outcomes, Fresh
<1>3. prepared.order \in Orders
  BY DEF PreparedIntents
<1>4. /\ io \in [Intents -> Orders \cup {None}]
      /\ oi \in [Orders -> Intents \cup {None}]
  BY <1>3 DEF Projections
<1>5. q = [sequence |-> p.sequence + 1, active |-> a, cleanupPending |-> p.cleanupPending,
           positions |-> p.positions, intentOrders |-> io, orderIntents |-> oi]
  BY <1>1 DEF Projections
<1> HIDE DEF a, io, oi
<1>6. p.cleanupPending \in CleanupOwners \cup {None}
      /\ p.positions \in [Intents -> Positions \cup {None}]
  BY DEF Projections
<1>7. Is(q, p.sequence + 1, a, p.cleanupPending, p.positions, io, oi)
  BY <1>1, <1>2, <1>4, <1>5, <1>6, Republished
<1> QED BY <1>1, <1>7 DEF Begun, a, io, oi

\* Replacing the active record (or clearing it, or the cleanup owner) and nothing else.
LEMMA ActiveReplaced ==
  ASSUME NEW p \in Projections, p.sequence < MaxSequence,
         NEW a \in ActiveIntents \cup {None}, NEW c \in CleanupOwners \cup {None}, NEW q,
         q = [p EXCEPT !.sequence = p.sequence + 1, !.active = a, !.cleanupPending = c]
  PROVE  Is(q, p.sequence + 1, a, c, p.positions, p.intentOrders, p.orderIntents)
<1>1. q = [sequence |-> p.sequence + 1, active |-> a, cleanupPending |-> c,
           positions |-> p.positions, intentOrders |-> p.intentOrders,
           orderIntents |-> p.orderIntents]
  BY DEF Projections
<1>2. /\ p.positions \in [Intents -> Positions \cup {None}]
      /\ p.intentOrders \in [Intents -> Orders \cup {None}]
      /\ p.orderIntents \in [Orders -> Intents \cup {None}]
  BY DEF Projections
<1> QED BY <1>1, <1>2, Republished

\* An event that moves the active record on, keeping its identity and its position event.
LEMMA ActiveAdvanced ==
  ASSUME NEW p \in Projections, p.sequence < MaxSequence, p.active # None,
         NEW a \in ActiveIntents,
         a.intent = p.active.intent, a.prepared = p.active.prepared,
         a.positionEvent = p.active.positionEvent,
         StateAgrees(p.active) => StateAgrees(a),
         NEW q, q = [[p EXCEPT !.active = a] EXCEPT !.sequence = p.sequence + 1]
  PROVE  Advanced(p, q, a)
<1>1. q = [p EXCEPT !.sequence = p.sequence + 1, !.active = a, !.cleanupPending = p.cleanupPending]
  BY DEF Projections
<1>2. p.cleanupPending \in CleanupOwners \cup {None}
  BY DEF Projections
<1> QED BY <1>1, <1>2, ActiveReplaced DEF Advanced

\* The intent in flight, when there is one, is an ActiveIntent.
LEMMA ActiveType ==
  ASSUME NEW p \in Projections, p.active # None
  PROVE  p.active \in ActiveIntents
BY DEF Projections

\* stage_transition, with or without an observation, between two states that agree.
LEMMA TransitionStep ==
  ASSUME NEW p \in Projections, NEW i \in Intents,
         NEW from, NEW to \in ActiveIntentStates, NEW evidence \in Evidence,
         \A a \in ActiveIntents : StateAgrees(a) /\ a.state = from
           => StateAgrees([a EXCEPT !.state = to]),
         NEW q, \/ q \in Applied(p, StageTransition(p, i, from, to))
                \/ q \in Applied(p, StageObservation(p, i, from, to, evidence))
  PROVE  \E a : Advanced(p, q, a)
<1>1. /\ p.sequence < MaxSequence
      /\ p.active # None /\ p.active.state = from
      /\ \/ q = [[p EXCEPT !.active.state = to] EXCEPT !.sequence = p.sequence + 1]
         \/ q = [[[p EXCEPT !.active.state = to] EXCEPT !.active.evidence = evidence]
                  EXCEPT !.sequence = p.sequence + 1]
  BY DEF Applied, StageObservation, StageTransition, When, ActiveFor
<1>2. p.active \in ActiveIntents
  BY <1>1, ActiveType
<1>3. CASE q = [[p EXCEPT !.active.state = to] EXCEPT !.sequence = p.sequence + 1]
  <2> DEFINE a == [p.active EXCEPT !.state = to]
  <2>1. /\ a \in ActiveIntents /\ a.intent = p.active.intent
        /\ a.prepared = p.active.prepared /\ a.positionEvent = p.active.positionEvent
    BY <1>2 DEF ActiveIntents
  <2>2. StateAgrees(p.active) => StateAgrees(a)
    BY <1>1, <1>2
  <2>3. q = [[p EXCEPT !.active = a] EXCEPT !.sequence = p.sequence + 1]
    BY <1>3
  <2> HIDE DEF a
  <2> QED BY <1>1, <2>1, <2>2, <2>3, ActiveAdvanced
<1>4. CASE q = [[[p EXCEPT !.active.state = to] EXCEPT !.active.evidence = evidence]
                 EXCEPT !.sequence = p.sequence + 1]
  <2> DEFINE b == [p.active EXCEPT !.state = to]
             a == [b EXCEPT !.evidence = evidence]
  <2>1. b \in ActiveIntents
    BY <1>2 DEF ActiveIntents
  <2>2. /\ a \in ActiveIntents /\ a.intent = p.active.intent
        /\ a.prepared = p.active.prepared /\ a.positionEvent = p.active.positionEvent
        /\ a.state = b.state /\ a.outcome = b.outcome /\ a.positionEvent = b.positionEvent
    BY <1>2, <2>1 DEF ActiveIntents
  <2>3. StateAgrees(p.active) => StateAgrees(b)
    BY <1>1, <1>2
  <2> HIDE DEF b
  <2>4. StateAgrees(b) => StateAgrees(a)
    BY <2>2 DEF StateAgrees
  <2>5. q = [[p EXCEPT !.active = a] EXCEPT !.sequence = p.sequence + 1]
    BY <1>4 DEF Projections, b
  <2> HIDE DEF a
  <2> QED BY <1>1, <2>2, <2>3, <2>4, <2>5, ActiveAdvanced
<1> QED BY <1>1, <1>3, <1>4

\* The transitions that carry no amounts and keep the outcome.
LEMMA PlainSteps ==
  ASSUME NEW p \in Projections, NEW i \in Intents,
         NEW q, \/ q \in Applied(p, StageSubmitStarted(p, i))
                \/ q \in Applied(p, StageRemoteUncertain(p, i))
                \/ q \in Applied(p, StageCancelStarted(p, i))
                \/ q \in Applied(p, StageCancelResponseObserved(p, i))
  PROVE  \E a : Advanced(p, q, a)
<1> DEFINE Agree(from, to) == \A a \in ActiveIntents : StateAgrees(a) /\ a.state = from
                                => StateAgrees([a EXCEPT !.state = to])
<1>1. /\ Agree("NotSent", "SubmitStarted") /\ Agree("SubmitStarted", "RemoteUncertain")
      /\ Agree("ReconciledLive", "CancelStarted")
      /\ Agree("CancelStarted", "CancelResponseObserved")
  BY DEF StateAgrees, ActiveIntents
<1>2. /\ [kind |-> "RemoteUncertain"] \in Evidence
      /\ [kind |-> "CancelResponseObserved"] \in Evidence
  BY DEF Evidence
<1>3. CASE q \in Applied(p, StageSubmitStarted(p, i))
  BY <1>1, <1>2, <1>3, TransitionStep DEF StageSubmitStarted, ActiveIntentStates
<1>4. CASE q \in Applied(p, StageRemoteUncertain(p, i))
  BY <1>1, <1>2, <1>4, TransitionStep DEF StageRemoteUncertain, ActiveIntentStates
<1>5. CASE q \in Applied(p, StageCancelStarted(p, i))
  BY <1>1, <1>2, <1>5, TransitionStep DEF StageCancelStarted, ActiveIntentStates
<1>6. CASE q \in Applied(p, StageCancelResponseObserved(p, i))
  BY <1>1, <1>2, <1>6, TransitionStep DEF StageCancelResponseObserved, ActiveIntentStates
<1> QED BY <1>3, <1>4, <1>5, <1>6

\* RemoteMatched advances the record: its state, evidence and outcome agree.
LEMMA RemoteMatchedStep ==
  ASSUME NEW p \in Projections, NEW i \in Intents, NEW amounts \in MatchedAmounts,
         NEW q \in Applied(p, StageRemoteMatched(p, i, amounts))
  PROVE  \E a : Advanced(p, q, a)
<1> DEFINE e == [kind |-> "RemoteMatched", amounts |-> amounts]
           a == [p.active EXCEPT !.state = "RemoteMatched", !.evidence = e, !.outcome = "Matched"]
<1>1. /\ p.sequence < MaxSequence
      /\ p.active # None /\ p.active.state = "SubmitStarted"
      /\ q = [[p EXCEPT !.active.state = "RemoteMatched", !.active.evidence = e,
                        !.active.outcome = "Matched"] EXCEPT !.sequence = p.sequence + 1]
  BY DEF Applied, StageRemoteMatched, When, ExactMatch, ActiveFor
<1>2. p.active \in ActiveIntents
  BY <1>1, ActiveType
<1>3. e \in Evidence
  BY DEF Evidence
<1> HIDE DEF e
<1>4. /\ a \in ActiveIntents /\ a.intent = p.active.intent /\ a.prepared = p.active.prepared
      /\ a.positionEvent = p.active.positionEvent
  BY <1>2, <1>3 DEF ActiveIntents, ActiveIntentStates, Outcomes
<1>5. StateAgrees(p.active) => StateAgrees(a)
  BY <1>1, <1>2 DEF StateAgrees, ActiveIntents
<1>6. q = [[p EXCEPT !.active = a] EXCEPT !.sequence = p.sequence + 1]
  BY <1>1, <1>2 DEF Projections, ActiveIntents
<1> HIDE DEF a
<1> QED BY <1>1, <1>4, <1>5, <1>6, ActiveAdvanced

\* RemoteRejected advances the record: its state, evidence and outcome agree.
LEMMA RemoteRejectedStep ==
  ASSUME NEW p \in Projections, NEW i \in Intents,
         NEW q \in Applied(p, StageRemoteRejected(p, i))
  PROVE  \E a : Advanced(p, q, a)
<1> DEFINE e == [kind |-> "RemoteRejected"]
           a == [p.active EXCEPT !.state = "RemoteRejected", !.evidence = e, !.outcome = "Rejected"]
<1>1. /\ p.sequence < MaxSequence
      /\ p.active # None /\ p.active.state = "SubmitStarted"
      /\ q = [[[[p EXCEPT !.active.state = "RemoteRejected"] EXCEPT !.active.evidence = e]
                 EXCEPT !.active.outcome = "Rejected"] EXCEPT !.sequence = p.sequence + 1]
  <2>1. PICK r \in StageRemoteRejected(p, i) :
          p.sequence < MaxSequence /\ q = [r EXCEPT !.sequence = p.sequence + 1]
    BY DEF Applied
  <2>2. PICK o \in StageObservation(p, i, "SubmitStarted", "RemoteRejected", e) :
          r = [o EXCEPT !.active.outcome = "Rejected"]
    BY DEF StageRemoteRejected
  <2>3. /\ p.active # None /\ p.active.state = "SubmitStarted"
        /\ o = [[p EXCEPT !.active.state = "RemoteRejected"] EXCEPT !.active.evidence = e]
    BY DEF StageObservation, StageTransition, When, ActiveFor
  <2> QED BY <2>1, <2>2, <2>3
<1>2. p.active \in ActiveIntents
  BY <1>1, ActiveType
<1>3. e \in Evidence
  BY DEF Evidence
<1> HIDE DEF e
<1>4. /\ a \in ActiveIntents /\ a.intent = p.active.intent /\ a.prepared = p.active.prepared
      /\ a.positionEvent = p.active.positionEvent
  BY <1>2, <1>3 DEF ActiveIntents, ActiveIntentStates, Outcomes
<1>5. StateAgrees(p.active) => StateAgrees(a)
  BY <1>1, <1>2 DEF StateAgrees, ActiveIntents
<1>6. q = [[p EXCEPT !.active = a] EXCEPT !.sequence = p.sequence + 1]
  BY <1>1, <1>2 DEF Projections, ActiveIntents
<1> HIDE DEF a
<1> QED BY <1>1, <1>4, <1>5, <1>6, ActiveAdvanced

\* ReconciliationStarted advances the record from any origin.
LEMMA ReconciliationStartedStep ==
  ASSUME NEW p \in Projections, NEW i \in Intents,
         NEW q \in Applied(p, StageStartReconciliation(p, i))
  PROVE  \E a : Advanced(p, q, a)
<1> DEFINE a == [p.active EXCEPT !.origin = p.active.state, !.state = "ReconciliationStarted"]
<1>1. /\ p.sequence < MaxSequence
      /\ p.active # None /\ p.active.state \in ReconciliationOrigins
      /\ q = [[p EXCEPT !.active.origin = p.active.state, !.active.state = "ReconciliationStarted"]
               EXCEPT !.sequence = p.sequence + 1]
  BY DEF Applied, StageStartReconciliation, When, ActiveFor
<1>2. p.active \in ActiveIntents
  BY <1>1, ActiveType
<1>3. /\ a \in ActiveIntents /\ a.intent = p.active.intent /\ a.prepared = p.active.prepared
      /\ a.positionEvent = p.active.positionEvent
  BY <1>1, <1>2 DEF ActiveIntents, ActiveIntentStates
<1>4. StateAgrees(p.active) => StateAgrees(a)
  BY <1>1, <1>2 DEF StateAgrees, ActiveIntents
<1>5. q = [[p EXCEPT !.active = a] EXCEPT !.sequence = p.sequence + 1]
  BY <1>1, <1>2 DEF Projections, ActiveIntents
<1> HIDE DEF a
<1> QED BY <1>1, <1>3, <1>4, <1>5, ActiveAdvanced

\* ReconciledMatched advances a record whose outcome is not a rejection.
LEMMA ReconciledMatchedStep ==
  ASSUME NEW p \in Projections, NEW i \in Intents, NEW amounts \in MatchedAmounts,
         NEW q \in Applied(p, StageReconciledMatched(p, i, amounts))
  PROVE  \E a : Advanced(p, q, a)
<1> DEFINE e == [kind |-> "ReconciledMatched", amounts |-> amounts]
           a == [p.active EXCEPT !.state = "ReconciledMatched", !.evidence = e]
<1>1. /\ p.sequence < MaxSequence
      /\ p.active # None /\ p.active.outcome # "Rejected"
      /\ q = [[p EXCEPT !.active.state = "ReconciledMatched", !.active.evidence = e]
               EXCEPT !.sequence = p.sequence + 1]
  BY DEF Applied, StageReconciledMatched, When, ExactMatch, ActiveFor
<1>2. p.active \in ActiveIntents
  BY <1>1, ActiveType
<1>3. e \in Evidence
  BY DEF Evidence
<1> HIDE DEF e
<1>4. /\ a \in ActiveIntents /\ a.intent = p.active.intent /\ a.prepared = p.active.prepared
      /\ a.positionEvent = p.active.positionEvent
  BY <1>2, <1>3 DEF ActiveIntents, ActiveIntentStates
<1>5. StateAgrees(p.active) => StateAgrees(a)
  BY <1>1, <1>2 DEF StateAgrees, ActiveIntents
<1>6. q = [[p EXCEPT !.active = a] EXCEPT !.sequence = p.sequence + 1]
  BY <1>1, <1>2 DEF Projections, ActiveIntents
<1> HIDE DEF a
<1> QED BY <1>1, <1>4, <1>5, <1>6, ActiveAdvanced

Classes == {"ReconciledNoFill", "ReconciledLive", "ReconciledPending", "ReconciledUncertain"}

\* The other classifications advance the record and agree with what it remembers.
LEMMA ReconciledOtherStep ==
  ASSUME NEW p \in Projections, NEW i \in Intents, NEW class \in Classes,
         NEW q \in Applied(p, StageReconciledOther(p, i, class))
  PROVE  \E a : Advanced(p, q, a)
<1> DEFINE e == [kind |-> class]
           a == [p.active EXCEPT !.state = class, !.evidence = e]
<1>1. /\ p.sequence < MaxSequence
      /\ p.active # None /\ p.active.state = "ReconciliationStarted"
      /\ ClassificationAgrees(p.active, class)
      /\ q = [[p EXCEPT !.active.state = class, !.active.evidence = e]
               EXCEPT !.sequence = p.sequence + 1]
  BY DEF Applied, StageReconciledOther, When, ActiveFor
<1>2. p.active \in ActiveIntents
  BY <1>1, ActiveType
<1>3. e \in Evidence /\ class \in ActiveIntentStates
  BY DEF Evidence, Classes, ActiveIntentStates
<1> HIDE DEF e
<1>4. /\ a \in ActiveIntents /\ a.intent = p.active.intent /\ a.prepared = p.active.prepared
      /\ a.positionEvent = p.active.positionEvent
      /\ a.state = class /\ a.outcome = p.active.outcome
  BY <1>2, <1>3 DEF ActiveIntents
<1>5. StateAgrees(p.active) => StateAgrees(a)
  <2> HIDE DEF a
  <2> QED BY <1>1, <1>2, <1>4 DEF StateAgrees, ActiveIntents, ClassificationAgrees, Classes, Outcomes
<1>6. q = [[p EXCEPT !.active = a] EXCEPT !.sequence = p.sequence + 1]
  BY <1>1, <1>2 DEF Projections, ActiveIntents
<1> HIDE DEF a
<1> QED BY <1>1, <1>4, <1>5, <1>6, ActiveAdvanced

\* RecoveryApplied advances a record that has its position event.
LEMMA RecoveryAppliedStep ==
  ASSUME NEW p \in Projections, NEW i \in Intents, NEW eventId \in EventIds,
         NEW q \in Applied(p, StageRecoveryApplied(p, i, eventId))
  PROVE  \E a : Advanced(p, q, a)
<1> DEFINE e == [kind |-> "RecoveryApplied"]
           a == [p.active EXCEPT !.state = "RecoveryApplied", !.evidence = e]
<1>1. /\ p.sequence < MaxSequence
      /\ p.active # None /\ p.active.positionEvent = eventId
      /\ p.active.state \in {"RecoveryPositionRecorded", "ReconciledMatched"}
      /\ q = [[p EXCEPT !.active.state = "RecoveryApplied", !.active.evidence = e]
               EXCEPT !.sequence = p.sequence + 1]
  BY DEF Applied, StageRecoveryApplied, When, ActiveFor
<1>2. p.active \in ActiveIntents
  BY <1>1, ActiveType
<1>3. e \in Evidence
  BY DEF Evidence
<1> HIDE DEF e
<1>4. /\ a \in ActiveIntents /\ a.intent = p.active.intent /\ a.prepared = p.active.prepared
      /\ a.positionEvent = p.active.positionEvent
  BY <1>2, <1>3 DEF ActiveIntents, ActiveIntentStates
<1>5. StateAgrees(p.active) => StateAgrees(a)
  BY <1>1, <1>2, NoneAssumption DEF StateAgrees, ActiveIntents
<1>6. q = [[p EXCEPT !.active = a] EXCEPT !.sequence = p.sequence + 1]
  BY <1>1, <1>2 DEF Projections, ActiveIntents
<1> HIDE DEF a
<1> QED BY <1>1, <1>4, <1>5, <1>6, ActiveAdvanced

\* The record after its position event is an ActiveIntent.
LEMMA RecordedType ==
  ASSUME NEW p \in Projections, p.sequence < MaxSequence, p.active # None
  PROVE  Recorded(p) \in ActiveIntents
<1>1. p.active \in ActiveIntents
  BY ActiveType
<1>2. p.sequence + 1 \in EventIds
  BY SequenceAssumption DEF Projections, EventIds
<1>3. RecordedState(p.active.state) \in ActiveIntentStates
  BY DEF RecordedState, ActiveIntentStates
<1> QED BY <1>1, <1>2, <1>3 DEF Recorded, ActiveIntents

\* PositionOpened adds the position the prepared entry called for.
LEMMA OpenStep ==
  ASSUME NEW p \in Projections, NEW i \in Intents, NEW position \in Positions,
         NEW q \in Applied(p, StageOpenPosition(p, i, position))
  PROVE  OpenBooked(p, q, position)
<1> DEFINE a == Recorded(p)
           b == [p.positions EXCEPT ![i] = position]
<1>1. /\ p.sequence < MaxSequence
      /\ p.active # None /\ p.active.intent = i
      /\ p.active.state \in {"RemoteMatched", "ReconciledMatched"}
      /\ p.active.prepared.purpose.kind = "Entry"
      /\ ExactOpening(p.active, position)
      /\ p.positions[i] = None /\ ~ OpenWithToken(p, position.token)
      /\ q = [[p EXCEPT !.positions[i] = position,
                        !.active.state = RecordedState(p.active.state),
                        !.active.positionEvent = p.sequence + 1]
                EXCEPT !.sequence = p.sequence + 1]
  BY DEF Applied, StageOpenPosition, When, AwaitsPosition, ActiveFor
<1>2. a \in ActiveIntents
  BY <1>1, RecordedType
<1>3. b \in [Intents -> Positions \cup {None}]
  BY DEF Projections
<1>4. q = [sequence |-> p.sequence + 1, active |-> a, cleanupPending |-> p.cleanupPending,
           positions |-> b, intentOrders |-> p.intentOrders, orderIntents |-> p.orderIntents]
  BY <1>1, ActiveType DEF Projections, ActiveIntents, Recorded
<1> HIDE DEF a, b
<1>5. /\ p.cleanupPending \in CleanupOwners \cup {None}
      /\ p.intentOrders \in [Intents -> Orders \cup {None}]
      /\ p.orderIntents \in [Orders -> Intents \cup {None}]
  BY DEF Projections
<1>6. Is(q, p.sequence + 1, a, p.cleanupPending, b, p.intentOrders, p.orderIntents)
  BY <1>1, <1>2, <1>3, <1>4, <1>5, Republished
<1> QED BY <1>1, <1>6 DEF OpenBooked, a, b

\* PositionClosed closes the position the prepared exit named.
LEMMA CloseStep ==
  ASSUME NEW p \in Projections, NEW i \in Intents, NEW target \in Intents,
         NEW closing \in Closings,
         NEW q \in Applied(p, StageClosePosition(p, i, target, closing))
  PROVE  CloseBooked(p, q, target, closing)
<1> DEFINE a == Recorded(p)
           position == [p.positions[target] EXCEPT !.closing = closing]
           b == [p.positions EXCEPT ![target] = position]
<1>1. /\ p.sequence < MaxSequence
      /\ p.active # None /\ p.active.intent = i
      /\ p.active.state \in {"RemoteMatched", "ReconciledMatched"}
      /\ p.active.prepared.purpose.kind = "Exit"
      /\ target = p.active.prepared.purpose.position
      /\ closing.intent = i /\ closing.order = p.active.prepared.order
      /\ IsOpen(p.positions[target]) /\ p.positions[target].shares = closing.shares
      /\ q = [[p EXCEPT !.positions[target].closing = closing,
                        !.active.state = RecordedState(p.active.state),
                        !.active.positionEvent = p.sequence + 1]
                EXCEPT !.sequence = p.sequence + 1]
  BY DEF Applied, StageClosePosition, When, AwaitsPosition, ActiveFor
<1>2. a \in ActiveIntents
  BY <1>1, RecordedType
<1>3. b \in [Intents -> Positions \cup {None}]
  <2>1. p.positions[target] \in Positions
    BY <1>1 DEF Projections, IsOpen
  <2>2. position \in Positions
    BY <2>1 DEF Positions
  <2> QED BY <2>2 DEF Projections
<1>4. q = [sequence |-> p.sequence + 1, active |-> a, cleanupPending |-> p.cleanupPending,
           positions |-> b, intentOrders |-> p.intentOrders, orderIntents |-> p.orderIntents]
  BY <1>1, ActiveType DEF Projections, ActiveIntents, Recorded
<1> HIDE DEF a, b
<1>5. /\ p.cleanupPending \in CleanupOwners \cup {None}
      /\ p.intentOrders \in [Intents -> Orders \cup {None}]
      /\ p.orderIntents \in [Orders -> Intents \cup {None}]
  BY DEF Projections
<1>6. Is(q, p.sequence + 1, a, p.cleanupPending, b, p.intentOrders, p.orderIntents)
  BY <1>1, <1>2, <1>3, <1>4, <1>5, Republished
<1> QED BY <1>1, <1>6 DEF CloseBooked, a, b

\* A commit takes the intent out of flight and leaves the cleanup owner alone.
LEMMA ClearStep ==
  ASSUME NEW p \in Projections, NEW i \in Intents,
         NEW expected \in {"PositionRecorded", "RemoteRejected"},
         NEW q \in Applied(p, StageClear(p, i, expected))
  PROVE  \E c : Cleared(p, q, c)
<1>1. /\ p.sequence < MaxSequence
      /\ p.active # None /\ p.active.state = expected
      /\ q = [[p EXCEPT !.active = None] EXCEPT !.sequence = p.sequence + 1]
  BY DEF Applied, StageClear, When, ActiveFor
<1>2. q = [p EXCEPT !.sequence = p.sequence + 1, !.active = None,
                    !.cleanupPending = p.cleanupPending]
  BY <1>1 DEF Projections
<1>3. p.cleanupPending \in CleanupOwners \cup {None}
  BY DEF Projections
<1>4. Is(q, p.sequence + 1, None, p.cleanupPending, p.positions, p.intentOrders, p.orderIntents)
  BY <1>1, <1>2, <1>3, ActiveReplaced
<1> QED BY <1>1, <1>4 DEF Cleared

\* Acknowledged takes the intent out of flight and makes it the cleanup owner.
LEMMA AcknowledgeStep ==
  ASSUME NEW p \in Projections, NEW i \in Intents, NEW reason \in AcknowledgeReasons,
         NEW q \in Applied(p, StageAcknowledge(p, i, reason))
  PROVE  \E c : Cleared(p, q, c)
<1> DEFINE c == [intent |-> p.active.intent, order |-> p.active.prepared.order]
<1>1. /\ p.sequence < MaxSequence
      /\ p.active # None /\ p.active.state = reason
      /\ q = [[p EXCEPT !.active = None, !.cleanupPending = c] EXCEPT !.sequence = p.sequence + 1]
  BY DEF Applied, StageAcknowledge, When, ActiveFor
<1>2. q = [p EXCEPT !.sequence = p.sequence + 1, !.active = None, !.cleanupPending = c]
  BY <1>1 DEF Projections
<1>3. c \in CleanupOwners
  BY <1>1, ActiveType DEF CleanupOwners, ActiveIntents, PreparedIntents
<1>4. Is(q, p.sequence + 1, None, c, p.positions, p.intentOrders, p.orderIntents)
  BY <1>1, <1>2, <1>3, ActiveReplaced
<1> QED BY <1>1, <1>4 DEF Cleared

\* HaltMarkerCleanupCompleted forgets the cleanup owner.
LEMMA CleanupStep ==
  ASSUME NEW p \in Projections, NEW i \in Intents,
         NEW q \in Applied(p, StageCleanupCompleted(p, i))
  PROVE  CleanedUp(p, q)
<1>1. /\ p.sequence < MaxSequence
      /\ p.cleanupPending # None /\ p.active = None
      /\ q = [[p EXCEPT !.cleanupPending = None] EXCEPT !.sequence = p.sequence + 1]
  BY DEF Applied, StageCleanupCompleted, When
<1>2. q = [p EXCEPT !.sequence = p.sequence + 1, !.active = None, !.cleanupPending = None]
  BY <1>1 DEF Projections
<1>3. Is(q, p.sequence + 1, None, None, p.positions, p.intentOrders, p.orderIntents)
  BY <1>1, <1>2, ActiveReplaced
<1> QED BY <1>1, <1>3 DEF CleanedUp

\* Every step of the machine has one of the six shapes.
LEMMA NextIsStep ==
  ASSUME proj \in Projections, Next
  PROVE  Step(proj, proj')
<1>1. PICK i \in Intents : \/ Submission(i) \/ PositionOpened(i) \/ PositionClosed(i)
                           \/ Reconciliation(i) \/ Recovery(i)
  BY DEF Next
<1>2. CASE Submission(i)
  <2>1. CASE IntentPrepared(i)
    BY <2>1, PrepareStep DEF IntentPrepared, Publish, Step
  <2>2. CASE SubmitStarted(i) \/ RemoteUncertain(i)
    BY <2>2, PlainSteps DEF SubmitStarted, RemoteUncertain, Publish, Step
  <2>3. CASE RemoteMatched(i)
    BY <2>3, RemoteMatchedStep DEF RemoteMatched, Publish, Step
  <2>4. CASE RemoteRejected(i)
    BY <2>4, RemoteRejectedStep DEF RemoteRejected, Publish, Step
  <2>5. CASE SubmissionCommitted(i) \/ SubmissionCommittedNoFill(i)
    BY <2>5, ClearStep DEF SubmissionCommitted, SubmissionCommittedNoFill, Publish, Step
  <2> QED BY <1>2, <2>1, <2>2, <2>3, <2>4, <2>5 DEF Submission
<1>3. CASE PositionOpened(i)
  <2>1. PICK order \in Orders, token \in Tokens, side \in Sides, seed \in Seeds,
             amounts \in MatchedAmounts :
          proj' \in Applied(proj, StageOpenPosition(proj, i,
                      [order |-> order, token |-> token, side |-> side, seed |-> seed,
                       shares |-> amounts.shares, usd |-> amounts.usd, closing |-> None]))
    BY <1>3 DEF PositionOpened, Publish
  <2>2. [order |-> order, token |-> token, side |-> side, seed |-> seed,
         shares |-> amounts.shares, usd |-> amounts.usd, closing |-> None] \in Positions
    BY DEF Positions, MatchedAmounts
  <2> QED BY <2>1, <2>2, OpenStep DEF Step
<1>4. CASE PositionClosed(i)
  BY <1>4, CloseStep DEF PositionClosed, Publish, Step
<1>5. CASE Reconciliation(i)
  <2>1. CASE ReconciliationStarted(i)
    BY <2>1, ReconciliationStartedStep DEF ReconciliationStarted, Publish, Step
  <2>2. CASE ReconciledMatched(i)
    BY <2>2, ReconciledMatchedStep DEF ReconciledMatched, Publish, Step
  <2>3. CASE ReconciledNoFill(i) \/ ReconciledLive(i) \/ ReconciledPending(i)
             \/ ReconciledUncertain(i)
    BY <2>3, ReconciledOtherStep
       DEF ReconciledNoFill, ReconciledLive, ReconciledPending, ReconciledUncertain, Publish,
           Step, Classes
  <2>4. CASE CancelStarted(i) \/ CancelResponseObserved(i)
    BY <2>4, PlainSteps DEF CancelStarted, CancelResponseObserved, Publish, Step
  <2> QED BY <1>5, <2>1, <2>2, <2>3, <2>4 DEF Reconciliation
<1>6. CASE Recovery(i)
  <2>1. CASE RecoveryApplied(i)
    BY <2>1, RecoveryAppliedStep DEF RecoveryApplied, Publish, Step
  <2>2. CASE Acknowledged(i)
    BY <2>2, AcknowledgeStep DEF Acknowledged, Publish, Step
  <2>3. CASE HaltMarkerCleanupCompleted(i)
    BY <2>3, CleanupStep DEF HaltMarkerCleanupCompleted, Publish, Step
  <2> QED BY <1>6, <2>1, <2>2, <2>3 DEF Recovery
<1> QED BY <1>1, <1>2, <1>3, <1>4, <1>5, <1>6

-----------------------------------------------------------------------------
(* Part 2: each shape keeps the conjuncts of Safe *)

\* The conjuncts of Safe, with what is about the active record alone set apart.
Coherent(p) ==
  /\ IdentityConsistent(p)
  /\ OneOpenPerToken(p)
  /\ OneEffectPerIntent(p)
  /\ p.active # None =>
       /\ p.active.positionEvent = None => ~ HasEffect(p, p.active.intent)
       /\ p.active.positionEvent # None
            => PreparedEffect(p, p.active.intent, p.active.prepared.purpose)
       /\ StateAgrees(p.active)
  /\ FillStaysBookable(p)
  /\ CleanupExclusive(p)

\* Safe, with the part about the active record alone split off.
LEMMA SafeIsCoherent ==
  ASSUME NEW p
  PROVE  Safe(p) <=> Coherent(p)
BY DEF Safe, Coherent, EffectRemembered, OutcomeRespected, StateAgrees

\* What is read off the positions does not change when they do not.
LEMMA SameBook ==
  ASSUME NEW p, NEW q, q.positions = p.positions
  PROVE  /\ OneOpenPerToken(p) <=> OneOpenPerToken(q)
         /\ OneEffectPerIntent(p) <=> OneEffectPerIntent(q)
         /\ \A i \in Intents : HasEffect(p, i) <=> HasEffect(q, i)
         /\ \A i, purpose : PreparedEffect(p, i, purpose) <=> PreparedEffect(q, i, purpose)
         /\ \A i : Opened(p, i) <=> Opened(q, i)
         /\ \A token : OpenWithToken(p, token) <=> OpenWithToken(q, token)
         /\ \A prepared : ExitAllowed(p, prepared) <=> ExitAllowed(q, prepared)
BY DEF OneOpenPerToken, OneEffectPerIntent, HasEffect, PreparedEffect, Opened, ClosedBy,
       OpenWithToken, ExitAllowed

\* An intent whose identity was never used has no effect on the book.
LEMMA UnusedHasNoEffect ==
  ASSUME NEW p \in Projections, IdentityConsistent(p), NEW i \in Intents, p.intentOrders[i] = None
  PROVE  ~ HasEffect(p, i)
<1>1. ~ Opened(p, i)
  BY NoneAssumption DEF IdentityConsistent, Opened, Projections, Positions
<1>2. ASSUME NEW j \in Intents PROVE ~ ClosedBy(p, j, i)
  BY NoneAssumption DEF IdentityConsistent, ClosedBy, Closed, Projections, Positions, Closings
<1> QED BY <1>1, <1>2 DEF HasEffect

\* A fresh intent keeps every conjunct: its identities are new and its token is free.
LEMMA BegunCoherent ==
  ASSUME NEW p \in Projections, Coherent(p), NEW q, NEW i \in Intents,
         NEW prepared \in PreparedIntents, Begun(p, q, i, prepared)
  PROVE  Coherent(q)
<1>1. /\ q.active = Fresh(i, prepared)
      /\ q.cleanupPending = None /\ p.cleanupPending = None /\ p.active = None
      /\ q.positions = p.positions
      /\ q.intentOrders = [p.intentOrders EXCEPT ![i] = prepared.order]
      /\ q.orderIntents = [p.orderIntents EXCEPT ![prepared.order] = i]
      /\ p.intentOrders[i] = None /\ p.orderIntents[prepared.order] = None
  BY DEF Begun, Is, PrepareAllowed
<1>2. /\ prepared.order \in Orders /\ Fresh(i, prepared) \in ActiveIntents
      /\ q.active # None
  <2>1. prepared.order \in Orders /\ Fresh(i, prepared) \in ActiveIntents
    BY DEF PreparedIntents, Fresh, ActiveIntents, ActiveIntentStates, Evidence, Outcomes
  <2> QED BY <1>1, <2>1, NoneAssumption
<1>3. ~ HasEffect(p, i)
  BY <1>1, UnusedHasNoEffect DEF Coherent
<1>4. IdentityConsistent(q)
  <2>1. \A j \in Intents, o \in Orders : q.intentOrders[j] = o <=> q.orderIntents[o] = j
    BY <1>1, <1>2, NoneAssumption DEF Coherent, IdentityConsistent, Projections
  <2>2. q.intentOrders[q.active.intent] = q.active.prepared.order
    BY <1>1, <1>2 DEF Fresh, Projections
  <2>3. \A j \in Intents : Opened(q, j) => q.intentOrders[j] = q.positions[j].order
    BY <1>1, <1>3 DEF Coherent, IdentityConsistent, Opened, HasEffect, Projections
  <2>4. \A j \in Intents : Closed(q.positions[j]) =>
          q.intentOrders[q.positions[j].closing.intent] = q.positions[j].closing.order
    <3> SUFFICES ASSUME NEW j \in Intents, Closed(q.positions[j])
                 PROVE  q.intentOrders[q.positions[j].closing.intent] = q.positions[j].closing.order
      OBVIOUS
    <3>1. p.positions[j].closing.intent \in Intents
      BY <1>1 DEF Closed, Projections, Positions, Closings
    <3>2. p.positions[j].closing.intent # i
      BY <1>1, <1>3 DEF HasEffect, ClosedBy
    <3> QED BY <1>1, <3>1, <3>2 DEF Coherent, IdentityConsistent, Projections
  <2> QED BY <1>1, <2>1, <2>2, <2>3, <2>4 DEF IdentityConsistent
<1>5. StateAgrees(q.active) /\ q.active.positionEvent = None
  BY <1>1 DEF Fresh, StateAgrees
<1>6. FillStaysBookable(q)
  <2>1. prepared.purpose.kind = "Entry" => ~ Opened(q, i) /\ ~ OpenWithToken(q, prepared.token)
    BY <1>1, <1>3, SameBook DEF Begun, EntryAllowed, HasEffect
  <2>2. prepared.purpose.kind # "Entry" => ExitAllowed(q, prepared)
    BY <1>1, SameBook DEF Begun
  <2> QED BY <1>1, <2>1, <2>2 DEF FillStaysBookable, Fresh
<1> QED BY <1>1, <1>3, <1>4, <1>5, <1>6, SameBook DEF Coherent, CleanupExclusive, Fresh

\* Advancing the record keeps every conjunct: book and identities do not change.
LEMMA AdvancedCoherent ==
  ASSUME NEW p \in Projections, Coherent(p), NEW q, NEW a, Advanced(p, q, a)
  PROVE  Coherent(q)
<1>1. /\ p.active # None /\ a \in ActiveIntents
      /\ q.active = a /\ a.intent = p.active.intent /\ a.prepared = p.active.prepared
      /\ a.positionEvent = p.active.positionEvent
      /\ StateAgrees(a)
      /\ q.cleanupPending = p.cleanupPending /\ q.positions = p.positions
      /\ q.intentOrders = p.intentOrders /\ q.orderIntents = p.orderIntents
      /\ q.active # None
  BY NoneAssumption DEF Advanced, Is, Coherent
<1>2. p.active \in ActiveIntents /\ p.active.intent \in Intents
  BY <1>1, ActiveType DEF ActiveIntents
<1>3. IdentityConsistent(q)
  BY <1>1 DEF Coherent, IdentityConsistent, Opened
<1>4. FillStaysBookable(q)
  BY <1>1, SameBook DEF Coherent, FillStaysBookable
<1>5. CleanupExclusive(q)
  BY <1>1 DEF Coherent, CleanupExclusive
<1> QED BY <1>1, <1>2, <1>3, <1>4, <1>5, SameBook DEF Coherent

\* The active record after its position event: it agrees with the state it came from.
LEMMA RecordedAgrees ==
  ASSUME NEW p \in Projections, p.sequence + 1 \in EventIds, p.active # None,
         StateAgrees(p.active), p.active.state \in {"RemoteMatched", "ReconciledMatched"}
  PROVE  /\ StateAgrees(Recorded(p))
         /\ Recorded(p).positionEvent # None
         /\ Recorded(p).intent = p.active.intent
         /\ Recorded(p).prepared = p.active.prepared
<1>1. p.active \in ActiveIntents
  BY ActiveType
<1>2. /\ Recorded(p).state = RecordedState(p.active.state)
      /\ Recorded(p).positionEvent = p.sequence + 1 /\ Recorded(p).positionEvent # None
      /\ Recorded(p).outcome = p.active.outcome
      /\ Recorded(p).intent = p.active.intent
      /\ Recorded(p).prepared = p.active.prepared
  BY <1>1, NoneAssumption DEF Recorded, ActiveIntents
<1>3. StateAgrees(Recorded(p))
  BY <1>2 DEF StateAgrees, RecordedState
<1> QED BY <1>2, <1>3

\* Opening a position keeps every conjunct.
LEMMA OpenBookedCoherent ==
  ASSUME NEW p \in Projections, Coherent(p), NEW q, NEW position, OpenBooked(p, q, position)
  PROVE  Coherent(q)
<1> DEFINE i == p.active.intent
<1>1. /\ p.active # None /\ q.active = Recorded(p)
      /\ p.active.state \in {"RemoteMatched", "ReconciledMatched"}
      /\ p.active.prepared.purpose.kind = "Entry"
      /\ position \in Positions /\ position.closing = None
      /\ position.order = p.active.prepared.order
      /\ p.positions[i] = None /\ ~ OpenWithToken(p, position.token)
      /\ q.positions = [p.positions EXCEPT ![i] = position]
      /\ q.cleanupPending = p.cleanupPending
      /\ q.intentOrders = p.intentOrders /\ q.orderIntents = p.orderIntents
      /\ q \in Projections /\ q.sequence = p.sequence + 1
  BY DEF OpenBooked, Is, ExactOpening
<1>2. p.active \in ActiveIntents /\ i \in Intents /\ position # None
  BY <1>1, ActiveType, NoneAssumption DEF ActiveIntents
<1>3. p.sequence + 1 \in EventIds
  BY <1>1 DEF Projections, EventIds
<1>4. /\ q.active # None /\ StateAgrees(q.active) /\ q.active.positionEvent # None
      /\ q.active.intent = i /\ q.active.prepared = p.active.prepared
  <2>0. p.sequence < MaxSequence
    BY <1>3, SequenceAssumption DEF Projections, EventIds
  <2>1. Recorded(p) # None
    BY <1>1, <2>0, RecordedType, NoneAssumption
  <2>2. StateAgrees(p.active)
    BY <1>1 DEF Coherent
  <2>3. p.active # None /\ p.active.state \in {"RemoteMatched", "ReconciledMatched"}
    BY <1>1
  <2>4. /\ StateAgrees(Recorded(p)) /\ Recorded(p).positionEvent # None
        /\ Recorded(p).intent = p.active.intent /\ Recorded(p).prepared = p.active.prepared
    BY <1>3, <2>2, <2>3, RecordedAgrees
  <2> QED BY <1>1, <2>1, <2>4
<1>5. ~ HasEffect(p, i)
  BY <1>1 DEF Coherent, PreparedEffect, Opened
<1> HIDE DEF i
<1>6. /\ Opened(q, i) /\ q.positions[i] = position
      /\ \A j \in Intents : j # i => q.positions[j] = p.positions[j]
  BY <1>1, <1>2 DEF Opened, Projections
<1>7. \A j \in Intents : Closed(q.positions[j]) <=> Closed(p.positions[j])
  BY <1>1, <1>6 DEF Closed
<1>8. IdentityConsistent(q)
  BY <1>1, <1>4, <1>6, <1>7 DEF Coherent, IdentityConsistent, Opened, Closed, i
<1>9. OneOpenPerToken(q)
  <2>1. \A j \in Intents : j # i /\ IsOpen(q.positions[j]) => q.positions[j].token # position.token
    BY <1>1, <1>6 DEF OpenWithToken
  <2> QED BY <1>6, <2>1 DEF Coherent, OneOpenPerToken
<1>10. OneEffectPerIntent(q)
  <2>1. \A j, k \in Intents : ClosedBy(q, j, k) <=> ClosedBy(p, j, k)
    BY <1>1, <1>6, <1>7 DEF ClosedBy, Closed
  <2>2. \A j \in Intents : ~ ClosedBy(p, j, i)
    BY <1>5 DEF HasEffect
  <2>3. \A j \in Intents : j # i => (Opened(q, j) <=> Opened(p, j))
    BY <1>6 DEF Opened
  <2>4. \A j \in Intents : Closed(q.positions[j])
          => q.positions[j].closing.shares = q.positions[j].shares
    BY <1>1, <1>6, <1>7 DEF Coherent, OneEffectPerIntent, Closed
  <2> QED BY <2>1, <2>2, <2>3, <2>4 DEF Coherent, OneEffectPerIntent
<1>11. /\ PreparedEffect(q, i, q.active.prepared.purpose)
       /\ FillStaysBookable(q) /\ CleanupExclusive(q)
  BY <1>1, <1>4, <1>6 DEF PreparedEffect, FillStaysBookable, CleanupExclusive, Coherent
<1> QED BY <1>4, <1>8, <1>9, <1>10, <1>11 DEF Coherent

\* Closing a position keeps every conjunct.
LEMMA CloseBookedCoherent ==
  ASSUME NEW p \in Projections, Coherent(p), NEW q, NEW target, NEW closing,
         CloseBooked(p, q, target, closing)
  PROVE  Coherent(q)
<1> DEFINE i == p.active.intent
           position == [p.positions[target] EXCEPT !.closing = closing]
<1>1. /\ p.active # None /\ q.active = Recorded(p)
      /\ p.active.state \in {"RemoteMatched", "ReconciledMatched"}
      /\ p.active.prepared.purpose.kind = "Exit"
      /\ target = p.active.prepared.purpose.position
      /\ target \in Intents /\ closing \in Closings
      /\ closing.intent = i /\ closing.order = p.active.prepared.order
      /\ IsOpen(p.positions[target]) /\ p.positions[target].shares = closing.shares
      /\ q.positions = [p.positions EXCEPT ![target] = position]
      /\ q.cleanupPending = p.cleanupPending
      /\ q.intentOrders = p.intentOrders /\ q.orderIntents = p.orderIntents
      /\ q \in Projections /\ q.sequence = p.sequence + 1
  BY DEF CloseBooked, Is
<1>2. /\ p.active \in ActiveIntents /\ i \in Intents /\ closing # None
      /\ p.positions[target] \in Positions
  BY <1>1, ActiveType, NoneAssumption DEF ActiveIntents, IsOpen, Projections
<1>3. p.sequence + 1 \in EventIds
  BY <1>1 DEF Projections, EventIds
<1>4. /\ q.active # None /\ StateAgrees(q.active) /\ q.active.positionEvent # None
      /\ q.active.intent = i /\ q.active.prepared = p.active.prepared
  <2>0. p.sequence < MaxSequence
    BY <1>3, SequenceAssumption DEF Projections, EventIds
  <2>1. Recorded(p) # None
    BY <1>1, <2>0, RecordedType, NoneAssumption
  <2>2. StateAgrees(p.active)
    BY <1>1 DEF Coherent
  <2>3. p.active # None /\ p.active.state \in {"RemoteMatched", "ReconciledMatched"}
    BY <1>1
  <2>4. /\ StateAgrees(Recorded(p)) /\ Recorded(p).positionEvent # None
        /\ Recorded(p).intent = p.active.intent /\ Recorded(p).prepared = p.active.prepared
    BY <1>3, <2>2, <2>3, RecordedAgrees
  <2> QED BY <1>1, <2>1, <2>4
<1>5. ~ HasEffect(p, i)
  BY <1>1 DEF Coherent, PreparedEffect, ClosedBy, Closed, IsOpen
<1>6. /\ position \in Positions /\ position # None /\ position.closing = closing
      /\ position.order = p.positions[target].order /\ position.shares = p.positions[target].shares
      /\ position.token = p.positions[target].token
  BY <1>1, <1>2, NoneAssumption DEF Positions
<1>7. /\ q.positions[target] = position
      /\ \A j \in Intents : j # target => q.positions[j] = p.positions[j]
  BY <1>1, <1>2 DEF Projections
<1> HIDE DEF i, position
<1>8. /\ \A j \in Intents : Opened(q, j) <=> Opened(p, j)
      /\ ClosedBy(q, target, i)
      /\ \A j, k \in Intents : ClosedBy(q, j, k) <=> ClosedBy(p, j, k) \/ (j = target /\ k = i)
  <2>1. Opened(q, target) /\ Opened(p, target) /\ ClosedBy(q, target, i)
    BY <1>1, <1>2, <1>6, <1>7 DEF Opened, IsOpen, ClosedBy, Closed
  <2>2. \A k : ~ ClosedBy(p, target, k)
    BY <1>1 DEF IsOpen, ClosedBy, Closed
  <2>3. \A k : ClosedBy(q, target, k) => k = i
    BY <1>1, <1>6, <1>7 DEF ClosedBy
  <2> QED BY <1>7, <2>1, <2>2, <2>3 DEF Opened, ClosedBy, Closed
<1>9. IdentityConsistent(q)
  <2>0. \A j \in Intents : Opened(p, j) => p.intentOrders[j] = p.positions[j].order
    BY DEF Coherent, IdentityConsistent
  <2>1. ASSUME NEW j \in Intents, Opened(q, j)
        PROVE  q.intentOrders[j] = q.positions[j].order
    <3>1. Opened(p, j)
      BY <1>8, <2>1
    <3>2. q.positions[j].order = p.positions[j].order
      BY <1>6, <1>7
    <3> QED BY <1>1, <2>0, <3>1, <3>2
  <2>3. q.intentOrders[i] = p.active.prepared.order
    BY <1>1 DEF Coherent, IdentityConsistent, i
  <2>2. \A j \in Intents : Closed(q.positions[j]) =>
          q.intentOrders[q.positions[j].closing.intent] = q.positions[j].closing.order
    <3> SUFFICES ASSUME NEW j \in Intents, Closed(q.positions[j])
                 PROVE  q.intentOrders[q.positions[j].closing.intent] = q.positions[j].closing.order
      OBVIOUS
    <3>1. CASE j = target
      BY <1>1, <1>6, <1>7, <2>3, <3>1 DEF i
    <3>2. CASE j # target
      BY <1>1, <1>7, <3>2 DEF Coherent, IdentityConsistent
    <3> QED BY <3>1, <3>2
  <2>5. q.cleanupPending = None
    BY <1>1 DEF Coherent, CleanupExclusive
  <2>6. \A j \in Intents, o \in Orders : q.intentOrders[j] = o <=> q.orderIntents[o] = j
    BY <1>1 DEF Coherent, IdentityConsistent
  <2> QED BY <1>1, <1>4, <2>1, <2>2, <2>3, <2>5, <2>6 DEF IdentityConsistent
<1>10. OneOpenPerToken(q)
  <2>1. ~ IsOpen(q.positions[target])
    BY <1>2, <1>6, <1>7 DEF IsOpen
  <2> QED BY <1>7, <2>1 DEF Coherent, OneOpenPerToken
<1>11. OneEffectPerIntent(q)
  <2>1. \A j \in Intents : ~ ClosedBy(p, j, i)
    BY <1>5 DEF HasEffect
  <2>2. ~ Opened(p, i)
    BY <1>5 DEF HasEffect
  <2>3. ASSUME NEW j \in Intents, Closed(q.positions[j])
        PROVE  q.positions[j].closing.shares = q.positions[j].shares
    <3>1. CASE j = target
      BY <1>1, <1>6, <1>7, <3>1
    <3>2. CASE j # target
      BY <1>7, <2>3, <3>2 DEF Coherent, OneEffectPerIntent
    <3> QED BY <3>1, <3>2
  <2>4. ASSUME NEW j \in Intents, NEW k \in Intents, NEW l \in Intents, ClosedBy(q, k, j)
        PROVE  ~ Opened(q, j) /\ (ClosedBy(q, l, j) => k = l)
    BY <1>8, <2>1, <2>2, <2>4 DEF Coherent, OneEffectPerIntent
  <2> QED BY <2>3, <2>4 DEF OneEffectPerIntent
<1>12. /\ PreparedEffect(q, i, q.active.prepared.purpose)
       /\ FillStaysBookable(q) /\ CleanupExclusive(q)
  BY <1>1, <1>4, <1>8 DEF PreparedEffect, FillStaysBookable, CleanupExclusive, Coherent
<1> QED BY <1>4, <1>9, <1>10, <1>11, <1>12 DEF Coherent

\* Taking the intent out of flight keeps every conjunct.
LEMMA ClearedCoherent ==
  ASSUME NEW p \in Projections, Coherent(p), NEW q, NEW c, Cleared(p, q, c)
  PROVE  Coherent(q)
<1>1. /\ p.active # None /\ q.active = None /\ q.cleanupPending = c
      /\ \/ c = p.cleanupPending
         \/ c = [intent |-> p.active.intent, order |-> p.active.prepared.order]
      /\ q.positions = p.positions
      /\ q.intentOrders = p.intentOrders /\ q.orderIntents = p.orderIntents
  BY DEF Cleared, Is
<1>2. IdentityConsistent(q)
  BY <1>1 DEF Coherent, IdentityConsistent, Opened
<1> QED BY <1>1, <1>2, SameBook DEF Coherent, FillStaysBookable, CleanupExclusive

\* Forgetting the cleanup owner keeps every conjunct.
LEMMA CleanedUpCoherent ==
  ASSUME NEW p \in Projections, Coherent(p), NEW q, CleanedUp(p, q)
  PROVE  Coherent(q)
<1>1. /\ q.active = None /\ q.cleanupPending = None
      /\ q.positions = p.positions
      /\ q.intentOrders = p.intentOrders /\ q.orderIntents = p.orderIntents
  BY DEF CleanedUp, Is
<1>2. IdentityConsistent(q)
  BY <1>1 DEF Coherent, IdentityConsistent, Opened
<1> QED BY <1>1, <1>2, SameBook DEF Coherent, FillStaysBookable, CleanupExclusive

\* Every shape of step keeps the type and Safe.
LEMMA StepKeepsSafe ==
  ASSUME NEW p \in Projections, Safe(p), NEW q, Step(p, q)
  PROVE  q \in Projections /\ Safe(q)
<1>1. Coherent(p)
  BY SafeIsCoherent
<1>2. q \in Projections
  BY DEF Step, Begun, Advanced, OpenBooked, CloseBooked, Cleared, CleanedUp, Is
<1>3. Coherent(q)
  BY <1>1, BegunCoherent, AdvancedCoherent, OpenBookedCoherent, CloseBookedCoherent,
     ClearedCoherent, CleanedUpCoherent DEF Step
<1> QED BY <1>2, <1>3, SafeIsCoherent

-----------------------------------------------------------------------------
(* Part 3: the theorems *)

\* The empty projection has its type and is Safe.
LEMMA InitSafe ==
  ASSUME Init
  PROVE  TypeOK /\ Safe(proj)
<1>1. TypeOK
  BY SequenceAssumption DEF Init, EmptyProjection, TypeOK, Projections
<1>2. proj.active = None /\ proj.cleanupPending = None
      /\ \A i \in Intents : proj.positions[i] = None /\ proj.intentOrders[i] = None
      /\ \A o \in Orders : proj.orderIntents[o] = None
  BY DEF Init, EmptyProjection
<1>3. IdentityConsistent(proj)
  BY <1>2, NoneAssumption DEF IdentityConsistent, Opened, Closed
<1>4. OneOpenPerToken(proj) /\ OneEffectPerIntent(proj)
  BY <1>2 DEF OneOpenPerToken, OneEffectPerIntent, IsOpen, ClosedBy, Closed
<1> QED BY <1>1, <1>2, <1>3, <1>4
        DEF Safe, EffectRemembered, OutcomeRespected, FillStaysBookable, CleanupExclusive

\* Whatever events the reducer accepts, in whatever order, the projection has its type and
\* is Safe: identities are unique, one position per token is open, an intent books its fill
\* at most once and remembers it, and the durable outcome is respected.
THEOREM ProjectionSafety == Spec => [](TypeOK /\ Safe(proj))
<1>1. Init => TypeOK /\ Safe(proj)
  BY InitSafe
<1>2. TypeOK /\ Safe(proj) /\ [Next]_vars => (TypeOK /\ Safe(proj))'
  <2> SUFFICES ASSUME TypeOK, Safe(proj), [Next]_vars PROVE TypeOK' /\ Safe(proj')
    OBVIOUS
  <2>1. CASE Next
    BY <2>1, NextIsStep, StepKeepsSafe DEF TypeOK
  <2>2. CASE UNCHANGED vars
    BY <2>2 DEF vars, TypeOK
  <2> QED BY <2>1, <2>2
<1> QED BY <1>1, <1>2, PTL DEF Spec

\* The projection has its type.
THEOREM TypeCorrect == Spec => []TypeOK
BY ProjectionSafety, PTL

\* At most one open position per token.
THEOREM OnePositionPerToken == Spec => []OneOpenPerTokenInv
<1>1. Safe(proj) => OneOpenPerTokenInv
  BY DEF Safe, OneOpenPerTokenInv
<1> QED BY <1>1, ProjectionSafety, PTL

\* The identity indexes are inverse, and every recorded event carries a registered pair.
THEOREM IdentitiesAreUnique == Spec => []IdentityInv
<1>1. Safe(proj) => IdentityInv
  BY DEF Safe, IdentityInv
<1> QED BY <1>1, ProjectionSafety, PTL

\* An intent changes the book at most once, and closes a position whole.
THEOREM EffectHappensOnce == Spec => []OneEffectPerIntentInv
<1>1. Safe(proj) => OneEffectPerIntentInv
  BY DEF Safe, OneEffectPerIntentInv
<1> QED BY <1>1, ProjectionSafety, PTL

\* The state of an unresolved intent never contradicts what its submission was told.
THEOREM OutcomeIsRespected == Spec => []OutcomeRespectedInv
<1>1. Safe(proj) => OutcomeRespectedInv
  BY DEF Safe, OutcomeRespectedInv
<1> QED BY <1>1, ProjectionSafety, PTL

\* The intent in flight remembers its position event exactly when the book shows it.
THEOREM EffectIsRemembered == Spec => []EffectRememberedInv
<1>1. Safe(proj) => EffectRememberedInv
  BY DEF Safe, EffectRememberedInv
<1> QED BY <1>1, ProjectionSafety, PTL

\* A fill that is not booked yet can be booked: no recovery runs into a position conflict.
THEOREM FillsStayBookable == Spec => []FillStaysBookableInv
<1>1. Safe(proj) => FillStaysBookableInv
  BY DEF Safe, FillStaysBookableInv
<1> QED BY <1>1, ProjectionSafety, PTL

-----------------------------------------------------------------------------
(* Part 4: what a step may do, and the abstract promise *)

\* Each shape changes HasEffect in one way only.
LEMMA EffectChange ==
  ASSUME NEW p \in Projections, Coherent(p), NEW q, Step(p, q), NEW i \in Intents
  PROVE  \/ HasEffect(q, i) <=> HasEffect(p, i)
         \/ /\ p.active # None /\ i = p.active.intent
            /\ q.active # None /\ q.active.intent = i
            /\ ~ HasEffect(p, i) /\ HasEffect(q, i)
            /\ q.cleanupPending = p.cleanupPending /\ q.intentOrders = p.intentOrders
<1>1. CASE q.positions = p.positions
  BY <1>1, SameBook
<1>2. ASSUME NEW position, OpenBooked(p, q, position)
      PROVE  \/ HasEffect(q, i) <=> HasEffect(p, i)
             \/ /\ p.active # None /\ i = p.active.intent
                /\ q.active # None /\ q.active.intent = i
                /\ ~ HasEffect(p, i) /\ HasEffect(q, i)
                /\ q.cleanupPending = p.cleanupPending /\ q.intentOrders = p.intentOrders
  <2> DEFINE a == p.active.intent
  <2>1. /\ p.active # None /\ p.positions[a] = None /\ position \in Positions
        /\ p.active.prepared.purpose.kind = "Entry"
        /\ q.positions = [p.positions EXCEPT ![a] = position]
        /\ position.closing = None
        /\ q.active = Recorded(p)
        /\ q.cleanupPending = p.cleanupPending /\ q.intentOrders = p.intentOrders
    BY <1>2 DEF OpenBooked, Is, ExactOpening
  <2>2. /\ q.active # None /\ q.active.intent = a
        /\ a \in Intents /\ position # None
    <3>1. p.sequence < MaxSequence
      BY <1>2, SequenceAssumption DEF OpenBooked, Is, Projections
    <3>2. Recorded(p) # None /\ a \in Intents
      BY <2>1, <3>1, RecordedType, ActiveType, NoneAssumption DEF ActiveIntents
    <3>3. Recorded(p).intent = a
      BY <2>1, ActiveType DEF Recorded, ActiveIntents
    <3> QED BY <2>1, <3>2, <3>3, NoneAssumption
  <2>3. ~ HasEffect(p, a)
    BY <2>1 DEF Coherent, PreparedEffect, Opened
  <2> HIDE DEF a
  <2>4. /\ \A j \in Intents : j # a => q.positions[j] = p.positions[j]
        /\ q.positions[a] = position /\ Opened(q, a)
    BY <2>1, <2>2 DEF Opened, Projections
  <2>5. \A j, k \in Intents : ClosedBy(q, j, k) <=> ClosedBy(p, j, k)
    BY <2>1, <2>4 DEF ClosedBy, Closed
  <2>6. CASE i = a
    BY <2>1, <2>2, <2>3, <2>4, <2>6 DEF HasEffect, a
  <2>7. CASE i # a
    BY <2>4, <2>5, <2>7 DEF HasEffect, Opened
  <2> QED BY <2>6, <2>7
<1>3. ASSUME NEW target, NEW closing, CloseBooked(p, q, target, closing)
      PROVE  \/ HasEffect(q, i) <=> HasEffect(p, i)
             \/ /\ p.active # None /\ i = p.active.intent
                /\ q.active # None /\ q.active.intent = i
                /\ ~ HasEffect(p, i) /\ HasEffect(q, i)
                /\ q.cleanupPending = p.cleanupPending /\ q.intentOrders = p.intentOrders
  <2> DEFINE a == p.active.intent
             position == [p.positions[target] EXCEPT !.closing = closing]
  <2>1. /\ p.active # None /\ target \in Intents /\ closing \in Closings
        /\ target = p.active.prepared.purpose.position
        /\ p.active.prepared.purpose.kind = "Exit"
        /\ IsOpen(p.positions[target]) /\ closing.intent = a
        /\ q.positions = [p.positions EXCEPT ![target] = position]
        /\ q.active = Recorded(p)
        /\ q.cleanupPending = p.cleanupPending /\ q.intentOrders = p.intentOrders
    BY <1>3 DEF CloseBooked, Is
  <2>2. /\ q.active # None /\ q.active.intent = a
        /\ a \in Intents /\ closing # None
    <3>1. p.sequence < MaxSequence
      BY <1>3, SequenceAssumption DEF CloseBooked, Is, Projections
    <3>2. Recorded(p) # None /\ a \in Intents
      BY <2>1, <3>1, RecordedType, ActiveType, NoneAssumption DEF ActiveIntents
    <3>3. Recorded(p).intent = a
      BY <2>1, ActiveType DEF Recorded, ActiveIntents
    <3> QED BY <2>1, <3>2, <3>3, NoneAssumption
  <2>3. ~ HasEffect(p, a)
    BY <2>1 DEF Coherent, PreparedEffect, ClosedBy, Closed, IsOpen
  <2>4. /\ \A j \in Intents : j # target => q.positions[j] = p.positions[j]
        /\ q.positions[target] = position /\ position.closing = closing /\ position # None
    <3>1. p.positions[target] \in Positions
      BY <2>1 DEF IsOpen, Projections
    <3>2. position \in Positions /\ position.closing = closing
      BY <2>1, <3>1 DEF Positions
    <3> QED BY <2>1, <3>2, NoneAssumption DEF Projections
  <2> HIDE DEF a, position
  <2>5. ClosedBy(q, target, a) /\ HasEffect(q, a)
    BY <2>1, <2>2, <2>4 DEF ClosedBy, Closed, HasEffect
  <2>6. CASE i = a
    BY <2>1, <2>2, <2>3, <2>5, <2>6 DEF a
  <2>7. CASE i # a
    <3>1. \A j \in Intents : Opened(q, j) <=> Opened(p, j)
      BY <2>1, <2>4 DEF Opened, IsOpen
    <3>2. \A j \in Intents : ClosedBy(q, j, i) <=> ClosedBy(p, j, i)
      BY <2>1, <2>4, <2>7 DEF ClosedBy, Closed, IsOpen
    <3> QED BY <3>1, <3>2 DEF HasEffect
  <2> QED BY <2>6, <2>7
<1>4. \/ q.positions = p.positions
      \/ \E position : OpenBooked(p, q, position)
      \/ \E target, closing : CloseBooked(p, q, target, closing)
  BY DEF Step, Begun, Advanced, Cleared, CleanedUp, Is
<1> QED BY <1>1, <1>2, <1>3, <1>4

\* Every shape of step rewrites no recorded position.
LEMMA StepBook ==
  ASSUME NEW p \in Projections, Coherent(p), NEW q, Step(p, q)
  PROVE  BookStep(p, q)
<1>1. CASE q.positions = p.positions
  BY <1>1 DEF BookStep
<1>2. ASSUME NEW position, OpenBooked(p, q, position)
      PROVE  BookStep(p, q)
  BY <1>2 DEF OpenBooked, Is, BookStep, Opened, Projections
<1>3. ASSUME NEW target, NEW closing, CloseBooked(p, q, target, closing)
      PROVE  BookStep(p, q)
  <2>1. /\ p.active # None /\ closing.intent = p.active.intent
        /\ IsOpen(p.positions[target]) /\ target \in Intents /\ closing \in Closings
        /\ q.positions = [p.positions EXCEPT ![target] = [p.positions[target] EXCEPT !.closing = closing]]
    BY <1>3 DEF CloseBooked, Is
  <2>2. p.positions[target] \in Positions
    BY <2>1 DEF IsOpen, Projections
  <2>3. /\ q.positions[target] = [p.positions[target] EXCEPT !.closing = closing]
        /\ q.positions[target].closing = closing /\ q.positions[target] \in Positions
        /\ \A j \in Intents : j # target => q.positions[j] = p.positions[j]
    BY <2>1, <2>2 DEF Projections, Positions
  <2>4. Closed(q.positions[target])
    BY <2>1, <2>3, NoneAssumption DEF Closed
  <2> QED BY <2>1, <2>3, <2>4 DEF BookStep, ActiveFor
<1>4. \/ q.positions = p.positions
      \/ \E position : OpenBooked(p, q, position)
      \/ \E target, closing : CloseBooked(p, q, target, closing)
  BY DEF Step, Begun, Advanced, Cleared, CleanedUp, Is
<1> QED BY <1>1, <1>2, <1>3, <1>4

\* How the intent in flight and the identities change.
LEMMA FlightChange ==
  ASSUME NEW p \in Projections, Coherent(p), NEW q, Step(p, q)
  PROVE  \/ \E i \in Intents :
              /\ p.active = None /\ p.cleanupPending = None /\ p.intentOrders[i] = None
              /\ q.active # None /\ q.active.intent = i /\ q.cleanupPending = None
              /\ q.positions = p.positions
              /\ q.intentOrders[i] # None
              /\ \A j \in Intents : j # i => q.intentOrders[j] = p.intentOrders[j]
         \/ /\ p.active # None /\ q.active # None /\ q.active.intent = p.active.intent
            /\ q.cleanupPending = p.cleanupPending /\ q.intentOrders = p.intentOrders
         \/ /\ p.active # None /\ q.active = None
            /\ q.positions = p.positions /\ q.intentOrders = p.intentOrders
            /\ FateStep(p, q)
         \/ /\ p.active = None /\ q.active = None
            /\ p.cleanupPending # None /\ q.cleanupPending = None
            /\ q.positions = p.positions /\ q.intentOrders = p.intentOrders
<1>1. ASSUME NEW i \in Intents, NEW prepared \in PreparedIntents, Begun(p, q, i, prepared)
      PROVE  /\ p.active = None /\ p.cleanupPending = None /\ p.intentOrders[i] = None
             /\ q.active # None /\ q.active.intent = i /\ q.cleanupPending = None
             /\ q.positions = p.positions
             /\ q.intentOrders[i] # None
             /\ \A j \in Intents : j # i => q.intentOrders[j] = p.intentOrders[j]
  <2>1. prepared.order \in Orders /\ Fresh(i, prepared) \in ActiveIntents
    BY DEF PreparedIntents, Fresh, ActiveIntents, ActiveIntentStates, Evidence, Outcomes
  <2>2. Fresh(i, prepared) # None /\ Fresh(i, prepared).intent = i
    BY <2>1, NoneAssumption DEF Fresh
  <2> QED BY <1>1, <2>1, <2>2, NoneAssumption DEF Begun, Is, PrepareAllowed, Projections
<1>2. ASSUME NEW a, Advanced(p, q, a)
      PROVE  /\ p.active # None /\ q.active # None /\ q.active.intent = p.active.intent
             /\ q.cleanupPending = p.cleanupPending /\ q.intentOrders = p.intentOrders
  BY <1>2, NoneAssumption DEF Advanced, Is
<1>3. ASSUME \/ \E position : OpenBooked(p, q, position)
             \/ \E target, closing : CloseBooked(p, q, target, closing)
      PROVE  /\ p.active # None /\ q.active # None /\ q.active.intent = p.active.intent
             /\ q.cleanupPending = p.cleanupPending /\ q.intentOrders = p.intentOrders
  <2>1. /\ p.active # None /\ q.active = Recorded(p)
        /\ q.cleanupPending = p.cleanupPending /\ q.intentOrders = p.intentOrders
        /\ p.sequence + 1 \in 0 .. MaxSequence
    BY <1>3 DEF OpenBooked, CloseBooked, Is, Projections
  <2>2. p.sequence < MaxSequence
    BY <2>1, SequenceAssumption DEF Projections
  <2>3. Recorded(p) # None /\ Recorded(p).intent = p.active.intent
    BY <2>1, <2>2, RecordedType, ActiveType, NoneAssumption DEF Recorded, ActiveIntents
  <2> QED BY <2>1, <2>3
<1>4. ASSUME NEW c, Cleared(p, q, c)
      PROVE  /\ p.active # None /\ q.active = None
             /\ q.positions = p.positions /\ q.intentOrders = p.intentOrders
             /\ FateStep(p, q)
  <2>1. /\ p.active # None /\ q.active = None /\ q.cleanupPending = c
        /\ q.positions = p.positions /\ q.intentOrders = p.intentOrders
        /\ c \in CleanupOwners \cup {None}
    BY <1>4 DEF Cleared, Is, Projections
  <2>2. p.active \in ActiveIntents /\ p.active.intent \in Intents
    BY <2>1, ActiveType DEF ActiveIntents
  <2>3. /\ HasEffect(q, p.active.intent) <=> HasEffect(p, p.active.intent)
        /\ p.active.positionEvent # None => HasEffect(p, p.active.intent)
        /\ p.active.positionEvent = None => ~ HasEffect(p, p.active.intent)
    <3>1. p.active.positionEvent # None
            => PreparedEffect(p, p.active.intent, p.active.prepared.purpose)
      BY <2>1 DEF Coherent
    <3>2. p.active.prepared.purpose.kind # "Entry" => p.active.prepared.purpose.position \in Intents
      BY <2>2 DEF ActiveIntents, PreparedIntents, Purposes
    <3>3. PreparedEffect(p, p.active.intent, p.active.prepared.purpose)
            => HasEffect(p, p.active.intent)
      BY <3>2 DEF PreparedEffect, HasEffect
    <3>4. p.active.positionEvent = None => ~ HasEffect(p, p.active.intent)
      BY <2>1 DEF Coherent
    <3> QED BY <2>1, <2>2, <3>1, <3>3, <3>4, SameBook
  <2>4. StateAgrees(p.active)
    BY <2>1 DEF Coherent
  <2>5. p.active.outcome = "Unknown" => q.cleanupPending # None
    <3>1. p.active.outcome = "Unknown" => p.active.state \notin {"PositionRecorded", "RemoteRejected"}
      BY <2>4 DEF StateAgrees
    <3>2. p.active.state \notin {"PositionRecorded", "RemoteRejected"}
            => c = [intent |-> p.active.intent, order |-> p.active.prepared.order]
      BY <1>4 DEF Cleared
    <3>3. [intent |-> p.active.intent, order |-> p.active.prepared.order] \in CleanupOwners
      BY <2>2 DEF CleanupOwners, ActiveIntents, PreparedIntents
    <3> QED BY <2>1, <3>1, <3>2, <3>3, NoneAssumption
  <2>6. p.active.outcome = "Matched" => p.active.positionEvent # None
    BY <1>4, <2>4 DEF Cleared, StateAgrees, AcknowledgeReasons
  <2>7. p.active.outcome = "Rejected" => p.active.positionEvent = None
    BY <2>4 DEF StateAgrees
  <2> QED BY <2>1, <2>3, <2>5, <2>6, <2>7 DEF FateStep
<1>5. ASSUME CleanedUp(p, q)
      PROVE  /\ p.active = None /\ q.active = None
             /\ p.cleanupPending # None /\ q.cleanupPending = None
             /\ q.positions = p.positions /\ q.intentOrders = p.intentOrders
  BY <1>5 DEF CleanedUp, Is
<1>6. CASE \E i \in Intents, prepared \in PreparedIntents : Begun(p, q, i, prepared)
  BY <1>1, <1>6
<1>7. CASE (\E a : Advanced(p, q, a)) \/ (\E position : OpenBooked(p, q, position))
           \/ (\E target, closing : CloseBooked(p, q, target, closing))
  BY <1>2, <1>3, <1>7
<1>8. CASE \E c : Cleared(p, q, c)
  BY <1>4, <1>8
<1>9. CASE CleanedUp(p, q)
  BY <1>5, <1>9
<1> QED BY <1>6, <1>7, <1>8, <1>9 DEF Step

\* An intent leaves flight only in the two ways FlightChange lists.
LEMMA StepFate ==
  ASSUME NEW p \in Projections, Coherent(p), NEW q, Step(p, q)
  PROVE  FateStep(p, q)
BY FlightChange DEF FateStep

\* A settled intent does not return to flight and its effect does not change.
LEMMA StepSettled ==
  ASSUME NEW p \in Projections, Coherent(p), NEW q, Step(p, q)
  PROVE  SettledStep(p, q)
<1> SUFFICES ASSUME NEW i \in Intents, Settled(p, i)
             PROVE  /\ Settled(q, i) /\ q.intentOrders[i] = p.intentOrders[i]
                    /\ HasEffect(q, i) <=> HasEffect(p, i)
  BY DEF SettledStep
<1>1. p.intentOrders[i] # None /\ (p.active # None => p.active.intent # i)
  BY DEF Settled, ActiveFor
<1>2. HasEffect(q, i) <=> HasEffect(p, i)
  BY <1>1, EffectChange
<1>3. /\ q.intentOrders[i] = p.intentOrders[i]
      /\ q.active # None => q.active.intent # i
  BY <1>1, FlightChange
<1> QED BY <1>1, <1>2, <1>3 DEF Settled, ActiveFor

\* One step of the ledger keeps the book, the settled intents and the fate of the one that
\* leaves flight.
LEMMA LedgerStep ==
  ASSUME TypeOK, Safe(proj), [Next]_vars
  PROVE  /\ [BookStep(proj, proj')]_vars
         /\ [SettledStep(proj, proj')]_vars
         /\ [FateStep(proj, proj')]_vars
<1>1. CASE Next
  <2>1. proj \in Projections /\ Coherent(proj) /\ Step(proj, proj')
    BY <1>1, NextIsStep, SafeIsCoherent DEF TypeOK
  <2> QED BY <2>1, StepBook, StepSettled, StepFate
<1>2. CASE UNCHANGED vars
  BY <1>2
<1> QED BY <1>1, <1>2

\* A recorded position is never rewritten, only closed, and only by the intent in flight.
THEOREM BookIsAppendOnly == Spec => BookAppendOnly
<1>1. TypeOK /\ Safe(proj) /\ [Next]_vars => [BookStep(proj, proj')]_vars
  BY LedgerStep
<1> QED BY <1>1, ProjectionSafety, PTL DEF Spec, BookAppendOnly

\* An intent that left flight stays settled and has no further effect on the book.
THEOREM SettlingIsFinal == Spec => SettledIsFinal
<1>1. TypeOK /\ Safe(proj) /\ [Next]_vars => [SettledStep(proj, proj')]_vars
  BY LedgerStep
<1> QED BY <1>1, ProjectionSafety, PTL DEF Spec, SettledIsFinal

\* An intent leaves flight with its fate in the book.
THEOREM FateIsSettled == Spec => SettlesWithItsFate
<1>1. TypeOK /\ Safe(proj) /\ [Next]_vars => [FateStep(proj, proj')]_vars
  BY LedgerStep
<1> QED BY <1>1, ProjectionSafety, PTL DEF Spec, SettlesWithItsFate

\* The ledger implements SingleFlight: intents are settled one at a time, each with at most
\* one effect on the book, and nothing begins while a cleanup is pending.
THEOREM LedgerIsSingleFlight == Spec => ImplementsSingleFlight
<1>1. Init => Flight!Init
  <2> SUFFICES ASSUME Init PROVE Flight!Init
    OBVIOUS
  <2>1. /\ proj.active = None /\ proj.cleanupPending = None
        /\ \A i \in Intents : proj.positions[i] = None /\ proj.intentOrders[i] = None
    BY DEF Init, EmptyProjection
  <2> QED BY <2>1 DEF Flight!Init, begun, unresolved, booked, gate, ActiveFor, HasEffect,
                      Opened, ClosedBy, Closed
<1>2. TypeOK /\ Safe(proj) /\ [Next]_vars => [Flight!Next]_(Flight!flightVars)
  <2> SUFFICES ASSUME TypeOK, Safe(proj), [Next]_vars
               PROVE  [Flight!Next]_(Flight!flightVars)
    OBVIOUS
  <2>1. CASE UNCHANGED vars
    BY <2>1 DEF vars, Flight!flightVars, begun, unresolved, booked, gate
  <2>2. CASE Next
    <3>1. proj \in Projections /\ Coherent(proj) /\ Step(proj, proj')
      BY <2>2, NextIsStep, SafeIsCoherent DEF TypeOK
    <3>2. \A i \in Intents : \/ HasEffect(proj', i) <=> HasEffect(proj, i)
                             \/ /\ proj.active # None /\ i = proj.active.intent
                                /\ proj'.active # None /\ proj'.active.intent = i
                                /\ ~ HasEffect(proj, i) /\ HasEffect(proj', i)
                                /\ proj'.cleanupPending = proj.cleanupPending
                                /\ proj'.intentOrders = proj.intentOrders
      BY <3>1, EffectChange
    <3>3. CASE \E i \in Intents :
                 /\ proj.active = None /\ proj.cleanupPending = None /\ proj.intentOrders[i] = None
                 /\ proj'.active # None /\ proj'.active.intent = i /\ proj'.cleanupPending = None
                 /\ proj'.positions = proj.positions
                 /\ proj'.intentOrders[i] # None
                 /\ \A j \in Intents : j # i => proj'.intentOrders[j] = proj.intentOrders[j]
      <4>1. PICK i \in Intents :
                 /\ proj.active = None /\ proj.cleanupPending = None /\ proj.intentOrders[i] = None
                 /\ proj'.active # None /\ proj'.active.intent = i /\ proj'.cleanupPending = None
                 /\ proj'.positions = proj.positions
                 /\ proj'.intentOrders[i] # None
                 /\ \A j \in Intents : j # i => proj'.intentOrders[j] = proj.intentOrders[j]
        BY <3>3
      <4>2. begun' = begun \cup {i} /\ i \notin begun
        BY <4>1 DEF begun
      <4>3. unresolved = {} /\ unresolved' = {i}
        BY <4>1 DEF unresolved, ActiveFor
      <4>4. booked' = booked /\ gate' = gate /\ ~ gate
        BY <4>1, <3>2 DEF booked, gate
      <4> QED BY <4>2, <4>3, <4>4 DEF Flight!Next, Flight!Begin
    <3>4. CASE /\ proj.active # None /\ proj'.active # None
               /\ proj'.active.intent = proj.active.intent
               /\ proj'.cleanupPending = proj.cleanupPending
               /\ proj'.intentOrders = proj.intentOrders
      <4> DEFINE i == proj.active.intent
      <4>1. i \in Intents
        BY <3>1, <3>4, ActiveType DEF ActiveIntents
      <4>2. begun' = begun /\ unresolved' = unresolved /\ gate' = gate /\ i \in unresolved
        BY <3>4, <4>1 DEF begun, unresolved, gate, ActiveFor
      <4>3. \/ booked' = booked
            \/ i \notin booked /\ booked' = booked \cup {i}
        BY <3>2, <3>4, <4>1 DEF booked
      <4> HIDE DEF i
      <4> QED BY <4>1, <4>2, <4>3 DEF Flight!Next, Flight!Book, Flight!flightVars
    <3>5. CASE /\ proj.active # None /\ proj'.active = None
               /\ proj'.positions = proj.positions /\ proj'.intentOrders = proj.intentOrders
      <4> DEFINE i == proj.active.intent
      <4>1. i \in Intents
        BY <3>1, <3>5, ActiveType DEF ActiveIntents
      <4>2. begun' = begun /\ unresolved' = {} /\ i \in unresolved
        BY <3>5, <4>1 DEF begun, unresolved, ActiveFor
      <4>3. booked' = booked
        BY <3>2, <3>5 DEF booked
      <4>4. ~ gate /\ (gate' = TRUE \/ gate' = FALSE)
        BY <3>1, <3>5 DEF gate, Coherent, CleanupExclusive
      <4> HIDE DEF i
      <4>5. CASE gate' = TRUE
        BY <4>1, <4>2, <4>3, <4>5 DEF Flight!Next, Flight!SettleByHand
      <4>6. CASE gate' = FALSE
        BY <4>1, <4>2, <4>3, <4>4, <4>6 DEF Flight!Next, Flight!Settle, gate
      <4> QED BY <4>4, <4>5, <4>6
    <3>6. CASE /\ proj.active = None /\ proj'.active = None
               /\ proj.cleanupPending # None /\ proj'.cleanupPending = None
               /\ proj'.positions = proj.positions /\ proj'.intentOrders = proj.intentOrders
      <4>1. begun' = begun /\ unresolved' = {} /\ unresolved = {}
        BY <3>6 DEF begun, unresolved, ActiveFor
      <4>2. booked' = booked /\ gate /\ gate' = FALSE
        BY <3>2, <3>6 DEF booked, gate
      <4> QED BY <4>1, <4>2 DEF Flight!Next, Flight!Reopen
    <3> QED BY <3>1, <3>3, <3>4, <3>5, <3>6, FlightChange
  <2> QED BY <2>1, <2>2
<1> QED BY <1>1, <1>2, ProjectionSafety, PTL DEF Spec, ImplementsSingleFlight, Flight!Spec
=============================================================================
