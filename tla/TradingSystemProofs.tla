----------------------------- MODULE TradingSystemProofs -----------------------------
(***************************************************************************)
(* Proofs about live trading, alone and next to the recovery commands, for  *)
(* any sets of intents, orders, tokens and amounts, any length of the log   *)
(* and any number of crashes and restarts.                                  *)
(*                                                                          *)
(* The argument has three parts.  Ledger and exchange: what an event, an    *)
(* order that is sent and a decision of the exchange each do to the         *)
(* agreement of the ledger with the exchange (LedgerInv).  Bot: where a     *)
(* caller stands tells what the ledger and the exchange say of its order    *)
(* (CallerInv), so that every event it writes is true.  Commands: the same  *)
(* of the recovery command that runs (CommandInv, NoteInv).                 *)
(***************************************************************************)
EXTENDS TradingSystem, LedgerProjectionProofs, FiniteSetTheorems

-----------------------------------------------------------------------------
(* The inductive invariant: the ledger and the exchange *)

\* The ledger d shows the effect of order o; it has settled o.
InBook(d, o) == d.orderIntents[o] # None /\ HasEffect(d, d.orderIntents[o])
SettledIn(d, o) == d.orderIntents[o] # None /\ Settled(d, d.orderIntents[o])

FilledStates == {"RemoteMatched", "PositionRecorded", "ReconciledMatched",
                 "RecoveryPositionRecorded", "RecoveryApplied"}
UnfilledStates == {"RemoteRejected", "ReconciledNoFill"}

\* What a record of an intent in flight claims is what the exchange has done.
Truthful(a) ==
  LET order == exchange[a.prepared.order]
  IN  /\ a.state = "NotSent" => order = None
      /\ a.state \in FilledStates \/ a.outcome = "Matched"
           => order # None /\ order.fate = "Filled"
      /\ a.state \in UnfilledStates \/ a.outcome = "Rejected"
           => order # None /\ order.fate = "Killed"
      /\ order # None => order.token = a.prepared.token /\ order.side = a.prepared.side

\* The ledger d names every order that was sent, books the fills only, and settles an order with
\* its fate in the book.
Accords(d) ==
  /\ \A o \in Orders : Posted(o) => d.orderIntents[o] # None
  /\ \A o \in Orders : InBook(d, o) => HasFate(o, "Filled")
  /\ \A o \in Orders : SettledIn(d, o) =>
       ~ HasFate(o, "InFlight") /\ (HasFate(o, "Filled") => InBook(d, o))
  /\ d.active # None => Truthful(d.active)

\* An entry buys and an exit sells.
EntryBuys(prepared) == prepared.side = IF prepared.purpose.kind = "Entry" THEN "Buy" ELSE "Sell"

OneSided(d) ==
  /\ \A i \in Intents : Opened(d, i) => d.positions[i].side = "Buy"
  /\ d.active # None => EntryBuys(d.active.prepared)

\* The fill of the intent in flight is not booked yet.
Unbooked(d, token) ==
  /\ d.active # None /\ d.active.prepared.token = token
  /\ d.active.positionEvent = None /\ HasFate(d.active.prepared.order, "Filled")

\* The wallet holds the token: the book says so, or the fill it does not show yet does.
Held(d, token) ==
  IF Unbooked(d, token) THEN d.active.prepared.purpose.kind = "Entry" ELSE OpenWithToken(d, token)

Holds(d) ==
  /\ OneSided(d)
  /\ IsFiniteSet({ o \in Orders : Posted(o) })
  /\ \A token \in Tokens :
       Cardinality(Fills(token, "Buy"))
         = Cardinality(Fills(token, "Sell")) + (IF Held(d, token) THEN 1 ELSE 0)

LedgerInv == disk \in Projections /\ Safe(disk) /\ Accords(disk) /\ Holds(disk)

-----------------------------------------------------------------------------
(* The process and its callers *)

ExchangeTypeOK == exchange \in [Orders -> Sent \cup {None}]

\* The process that has the ledger open has in memory what is in the file, until an append fails.
MemoryInv ==
  /\ proj \in Projections /\ {opens, fatal, halted, marker} \subseteq BOOLEAN
  /\ owner \in Processes \cup {None}
  /\ owner = None => ~ fatal
  /\ owner # None /\ ~ fatal => proj = disk

\* A failed append halts the breaker, a halted breaker lets nobody in, and whoever leaves it
\* without a halt leaves nothing unresolved behind.
BreakerInv ==
  /\ ~ BotRuns => ~ halted /\ lock = None /\ \A c \in Callers : at[c] = "Idle"
  /\ BotRuns => disk.cleanupPending = None /\ (halted \/ lock # None \/ disk.active = None)
  /\ halted => lock = None
  /\ fatal /\ BotRuns => halted \/ \E c \in Callers : at[c] = "Halting"

InFlightSteps == {"Prepared", "Started", "Posted", "Matched", "Booking", "Booked", "Rejected",
                  "Dropping", "Uncertain"}

\* What the ledger says of the intent of a caller at a step, and what the exchange may have done.
StateAt(s) ==
  CASE s = "Prepared" -> "NotSent"
    [] s = "Booking" -> "RemoteMatched"
    [] s = "Booked" -> "PositionRecorded"
    [] s = "Dropping" -> "RemoteRejected"
    [] OTHER -> "SubmitStarted"

FatesAt(s) ==
  CASE s \in {"Prepared", "Started"} -> {"Unsent"}
    [] s \in {"Matched", "Booking", "Booked"} -> {"Filled"}
    [] s \in {"Rejected", "Dropping"} -> {"Killed"}
    [] OTHER -> {"InFlight", "Filled", "Killed"}

CallerInv(c) ==
  /\ at[c] # "Idle" => plan[c] \in Plans /\ (plan[c].purpose.kind = "Entry" => plan[c].side = "Buy")
  /\ at[c] = "Checked" => disk.active = None
  /\ at[c] \in InFlightSteps =>
       LET prepared == job[c].prepared
       IN  /\ job[c] \in Submissions
           /\ prepared.token = plan[c].token /\ prepared.side = plan[c].side
           /\ prepared.purpose = plan[c].purpose
           /\ disk.active # None
           /\ disk.active.intent = job[c].intent /\ disk.active.prepared = prepared
           /\ disk.active.state = StateAt(at[c])
           /\ Fate(prepared.order) \in FatesAt(at[c])

CallersTypeOK ==
  /\ lock \in Callers \cup {None}
  /\ at \in [Callers -> Steps \cup Exits]
  /\ plan \in [Callers -> Plans \cup {None}] /\ job \in [Callers -> Submissions \cup {None}]
  /\ \A c \in Callers : at[c] \in Critical <=> lock = c

\* The inductive invariant of the bot, on its own or next to recovery commands.
BotInv ==
  /\ ExchangeTypeOK /\ LedgerInv /\ MemoryInv /\ CallersTypeOK /\ BreakerInv
  /\ \A c \in Callers : CallerInv(c)

-----------------------------------------------------------------------------
(* The recovery commands *)

\* A challenge is of the present state of the ledger or of an earlier one.
NoteInv ==
  note # None =>
    /\ note \in Challenges /\ note.sequence <= disk.sequence
    /\ note.sequence = disk.sequence => note.shown = disk.active

CommandInv ==
  /\ command \in [name : RecoveryCommands, intent : Intents] \cup {None}
  /\ step \in RecoverySteps /\ found \in RemoteEvidence \cup {None}
  /\ command # None <=> owner = "recovery"
  /\ owner # "recovery" => step = "Idle"
  /\ fatal /\ owner = "recovery" => step = "Done"
  /\ step \notin {"Idle", "Cleaning", "Cleaned", "Done"} => ActiveFor(disk, command.intent)
  /\ step \in {"Cancel", "Apply", "Acknowledge"} => note # None /\ note.sequence = disk.sequence
  /\ step = "Answered" =>
       /\ found = "Matched" => HasFate(disk.active.prepared.order, "Filled")
       /\ found = "NoFill" => HasFate(disk.active.prepared.order, "Killed")
       /\ found \in RemoteEvidence
  /\ step = "Applied" => disk.active.positionEvent # None
  /\ step \in {"Cleaning", "Cleaned"} => disk.active = None /\ disk.cleanupPending # None
  /\ step = "Cleaned" => ~ marker

SystemInv == BotInv /\ NoteInv /\ CommandInv

-----------------------------------------------------------------------------
(* What an event does to the record of the intent in flight *)

\* The record of intent i goes from one state to another and its outcome stays.
Became(p, q, i, from, to) ==
  /\ ActiveFor(p, i) /\ p.active.state = from
  /\ q.active.state = to /\ q.active.outcome = p.active.outcome

\* stage_transition, with or without an observation.
LEMMA TransitionRecord ==
  ASSUME NEW p \in Projections, NEW i \in Intents, NEW from, NEW to, NEW evidence, NEW q,
         \/ q \in Applied(p, StageTransition(p, i, from, to))
         \/ q \in Applied(p, StageObservation(p, i, from, to, evidence))
  PROVE  Became(p, q, i, from, to)
<1>1. /\ ActiveFor(p, i) /\ p.active.state = from
      /\ \/ q = [[p EXCEPT !.active.state = to] EXCEPT !.sequence = p.sequence + 1]
         \/ q = [[[p EXCEPT !.active.state = to] EXCEPT !.active.evidence = evidence]
                  EXCEPT !.sequence = p.sequence + 1]
  BY DEF Applied, StageObservation, StageTransition, When
<1>2. p.active \in ActiveIntents
  BY <1>1, ActiveType DEF ActiveFor
<1>3. CASE q = [[p EXCEPT !.active.state = to] EXCEPT !.sequence = p.sequence + 1]
  BY <1>1, <1>2, <1>3 DEF Became, Projections, ActiveIntents
<1>4. CASE q = [[[p EXCEPT !.active.state = to] EXCEPT !.active.evidence = evidence]
                  EXCEPT !.sequence = p.sequence + 1]
  <2> DEFINE a == [p.active EXCEPT !.state = to]
             b == [a EXCEPT !.evidence = evidence]
  <2>1. b.state = to /\ b.outcome = p.active.outcome
    BY <1>2 DEF ActiveIntents
  <2>2. q.active = b
    BY <1>4 DEF Projections
  <2> HIDE DEF a, b
  <2> QED BY <1>1, <2>1, <2>2 DEF Became
<1> QED BY <1>1, <1>3, <1>4

\* The transitions the submission and the cancellation make.
LEMMA PlainRecords ==
  ASSUME NEW p \in Projections, NEW i \in Intents, NEW q
  PROVE  /\ q \in Applied(p, StageSubmitStarted(p, i))
              => Became(p, q, i, "NotSent", "SubmitStarted")
         /\ q \in Applied(p, StageRemoteUncertain(p, i))
              => Became(p, q, i, "SubmitStarted", "RemoteUncertain")
         /\ q \in Applied(p, StageCancelStarted(p, i))
              => Became(p, q, i, "ReconciledLive", "CancelStarted")
         /\ q \in Applied(p, StageCancelResponseObserved(p, i))
              => Became(p, q, i, "CancelStarted", "CancelResponseObserved")
<1>1. q \in Applied(p, StageSubmitStarted(p, i)) => Became(p, q, i, "NotSent", "SubmitStarted")
  BY TransitionRecord DEF StageSubmitStarted
<1>2. q \in Applied(p, StageRemoteUncertain(p, i))
        => Became(p, q, i, "SubmitStarted", "RemoteUncertain")
  BY TransitionRecord DEF StageRemoteUncertain
<1>3. q \in Applied(p, StageCancelStarted(p, i))
        => Became(p, q, i, "ReconciledLive", "CancelStarted")
  BY TransitionRecord DEF StageCancelStarted
<1>4. q \in Applied(p, StageCancelResponseObserved(p, i))
        => Became(p, q, i, "CancelStarted", "CancelResponseObserved")
  BY TransitionRecord DEF StageCancelResponseObserved
<1> QED BY <1>1, <1>2, <1>3, <1>4

\* RemoteMatched: the outcome is the fill.
LEMMA RemoteMatchedRecord ==
  ASSUME NEW p \in Projections, NEW i \in Intents, NEW amounts,
         NEW q \in Applied(p, StageRemoteMatched(p, i, amounts))
  PROVE  /\ ActiveFor(p, i) /\ p.active.state = "SubmitStarted"
         /\ q.active.state = "RemoteMatched" /\ q.active.outcome = "Matched"
         /\ amounts = [shares |-> SharesOf(p.active.prepared), usd |-> UsdOf(p.active.prepared)]
<1> DEFINE e == [kind |-> "RemoteMatched", amounts |-> amounts]
<1>1. /\ ActiveFor(p, i) /\ p.active.state = "SubmitStarted"
      /\ amounts = [shares |-> SharesOf(p.active.prepared), usd |-> UsdOf(p.active.prepared)]
      /\ q = [[p EXCEPT !.active.state = "RemoteMatched", !.active.evidence = e,
                        !.active.outcome = "Matched"] EXCEPT !.sequence = p.sequence + 1]
  BY DEF Applied, StageRemoteMatched, When, ExactMatch
<1>2. p.active \in ActiveIntents
  BY <1>1, ActiveType DEF ActiveFor
<1> HIDE DEF e
<1> QED BY <1>1, <1>2 DEF Projections, ActiveIntents

\* RemoteRejected: the outcome is the rejection.
LEMMA RemoteRejectedRecord ==
  ASSUME NEW p \in Projections, NEW i \in Intents,
         NEW q \in Applied(p, StageRemoteRejected(p, i))
  PROVE  /\ ActiveFor(p, i) /\ p.active.state = "SubmitStarted"
         /\ q.active.state = "RemoteRejected" /\ q.active.outcome = "Rejected"
<1> DEFINE e == [kind |-> "RemoteRejected"]
<1>1. PICK r \in StageRemoteRejected(p, i) : q = [r EXCEPT !.sequence = p.sequence + 1]
  BY DEF Applied
<1>2. PICK o \in StageObservation(p, i, "SubmitStarted", "RemoteRejected", e) :
        r = [o EXCEPT !.active.outcome = "Rejected"]
  BY DEF StageRemoteRejected
<1>3. /\ ActiveFor(p, i) /\ p.active.state = "SubmitStarted"
      /\ o = [[p EXCEPT !.active.state = "RemoteRejected"] EXCEPT !.active.evidence = e]
  BY DEF StageObservation, StageTransition, When
<1>4. p.active \in ActiveIntents
  BY <1>3, ActiveType DEF ActiveFor
<1> HIDE DEF e
<1> QED BY <1>1, <1>2, <1>3, <1>4 DEF Projections, ActiveIntents

\* The records of a reconciliation: its start, its classifications and what they lead to.
LEMMA ReconciliationRecords ==
  ASSUME NEW p \in Projections, NEW i \in Intents, NEW amounts, NEW class, NEW eventId, NEW q
  PROVE  /\ q \in Applied(p, StageStartReconciliation(p, i))
              => Became(p, q, i, p.active.state, "ReconciliationStarted")
         /\ q \in Applied(p, StageReconciledMatched(p, i, amounts))
              => /\ Became(p, q, i, "ReconciliationStarted", "ReconciledMatched")
                 /\ amounts = [shares |-> SharesOf(p.active.prepared),
                               usd |-> UsdOf(p.active.prepared)]
         /\ q \in Applied(p, StageReconciledOther(p, i, class))
              => Became(p, q, i, "ReconciliationStarted", class)
         /\ q \in Applied(p, StageRecoveryApplied(p, i, eventId))
              => /\ Became(p, q, i, p.active.state, "RecoveryApplied")
                 /\ p.active.state \in {"RecoveryPositionRecorded", "ReconciledMatched"}
                 /\ p.active.positionEvent = eventId
<1>0. ActiveFor(p, i) => p.active \in ActiveIntents
  BY ActiveType DEF ActiveFor
<1>1. ASSUME q \in Applied(p, StageStartReconciliation(p, i))
      PROVE  Became(p, q, i, p.active.state, "ReconciliationStarted")
  <2>1. /\ ActiveFor(p, i)
        /\ q = [[p EXCEPT !.active.origin = p.active.state,
                          !.active.state = "ReconciliationStarted"]
                 EXCEPT !.sequence = p.sequence + 1]
    BY <1>1 DEF Applied, StageStartReconciliation, When
  <2> QED BY <1>0, <2>1 DEF Became, Projections, ActiveIntents
<1>2. ASSUME q \in Applied(p, StageReconciledMatched(p, i, amounts))
      PROVE  /\ Became(p, q, i, "ReconciliationStarted", "ReconciledMatched")
             /\ amounts = [shares |-> SharesOf(p.active.prepared), usd |-> UsdOf(p.active.prepared)]
  <2> DEFINE e == [kind |-> "ReconciledMatched", amounts |-> amounts]
  <2>1. /\ ActiveFor(p, i) /\ p.active.state = "ReconciliationStarted"
        /\ amounts = [shares |-> SharesOf(p.active.prepared), usd |-> UsdOf(p.active.prepared)]
        /\ q = [[p EXCEPT !.active.state = "ReconciledMatched", !.active.evidence = e]
                 EXCEPT !.sequence = p.sequence + 1]
    BY <1>2 DEF Applied, StageReconciledMatched, When, ExactMatch
  <2> HIDE DEF e
  <2> QED BY <1>0, <2>1 DEF Became, Projections, ActiveIntents
<1>3. ASSUME q \in Applied(p, StageReconciledOther(p, i, class))
      PROVE  Became(p, q, i, "ReconciliationStarted", class)
  <2> DEFINE e == [kind |-> class]
  <2>1. /\ ActiveFor(p, i) /\ p.active.state = "ReconciliationStarted"
        /\ q = [[p EXCEPT !.active.state = class, !.active.evidence = e]
                 EXCEPT !.sequence = p.sequence + 1]
    BY <1>3 DEF Applied, StageReconciledOther, When
  <2> HIDE DEF e
  <2> QED BY <1>0, <2>1 DEF Became, Projections, ActiveIntents
<1>4. ASSUME q \in Applied(p, StageRecoveryApplied(p, i, eventId))
      PROVE  /\ Became(p, q, i, p.active.state, "RecoveryApplied")
             /\ p.active.state \in {"RecoveryPositionRecorded", "ReconciledMatched"}
             /\ p.active.positionEvent = eventId
  <2> DEFINE e == [kind |-> "RecoveryApplied"]
  <2>1. /\ ActiveFor(p, i)
        /\ p.active.state \in {"RecoveryPositionRecorded", "ReconciledMatched"}
        /\ p.active.positionEvent = eventId
        /\ q = [[p EXCEPT !.active.state = "RecoveryApplied", !.active.evidence = e]
                 EXCEPT !.sequence = p.sequence + 1]
    BY <1>4 DEF Applied, StageRecoveryApplied, When
  <2> HIDE DEF e
  <2> QED BY <1>0, <2>1 DEF Became, Projections, ActiveIntents
<1> QED BY <1>1, <1>2, <1>3, <1>4

-----------------------------------------------------------------------------
(* What an event does to the agreement of the ledger with the exchange *)

\* Identities are only added: the new pair of a Begun step, or nothing.
LEMMA IdentitiesGrow ==
  ASSUME NEW p \in Projections, NEW q, Step(p, q)
  PROVE  /\ \A o \in Orders : p.orderIntents[o] # None => q.orderIntents[o] = p.orderIntents[o]
         /\ p.active # None \/ q.active = None
              => q.orderIntents = p.orderIntents /\ q.intentOrders = p.intentOrders
<1>1. ASSUME NEW i \in Intents, NEW prepared \in PreparedIntents, Begun(p, q, i, prepared)
      PROVE  /\ \A o \in Orders : p.orderIntents[o] # None => q.orderIntents[o] = p.orderIntents[o]
             /\ p.active = None /\ q.active # None
  <2>1. prepared.order \in Orders /\ Fresh(i, prepared) \in ActiveIntents
    BY DEF PreparedIntents, Fresh, ActiveIntents, ActiveIntentStates, Evidence, Outcomes
  <2> QED BY <1>1, <2>1, NoneAssumption DEF Begun, Is, PrepareAllowed, Projections
<1>2. ASSUME ~ \E i \in Intents, prepared \in PreparedIntents : Begun(p, q, i, prepared)
      PROVE  q.orderIntents = p.orderIntents /\ q.intentOrders = p.intentOrders
  BY <1>2 DEF Step, Advanced, OpenBooked, CloseBooked, Cleared, CleanedUp, Is
<1> QED BY <1>1, <1>2

\* The order and the intent of the record in flight name each other.
LEMMA ActiveOrder ==
  ASSUME NEW p \in Projections, IdentityConsistent(p), p.active # None
  PROVE  /\ p.active.intent \in Intents /\ p.active.prepared.order \in Orders
         /\ p.active.prepared \in PreparedIntents
         /\ \A o \in Orders : p.orderIntents[o] = p.active.intent <=> o = p.active.prepared.order
<1>1. /\ p.active.intent \in Intents /\ p.active.prepared.order \in Orders
      /\ p.active.prepared \in PreparedIntents
  BY ActiveType DEF ActiveIntents, PreparedIntents
<1>2. p.intentOrders[p.active.intent] = p.active.prepared.order
  BY DEF IdentityConsistent
<1> QED BY <1>1, <1>2 DEF IdentityConsistent

\* A step that changes the book records the position of a fill.
LEMMA BookedFromMatch ==
  ASSUME NEW p \in Projections, Coherent(p), NEW q, Step(p, q), q.positions # p.positions
  PROVE  p.active # None /\ p.active.state \in {"RemoteMatched", "ReconciledMatched"}
BY DEF Step, Begun, Advanced, OpenBooked, CloseBooked, Cleared, CleanedUp, Is

\* A record whose position event is in the book has its effect, and one without has none.
LEMMA EffectOfActive ==
  ASSUME NEW p \in Projections, Coherent(p), p.active # None
  PROVE  HasEffect(p, p.active.intent) <=> p.active.positionEvent # None
<1>1. p.active.intent \in Intents /\ p.active.prepared \in PreparedIntents
  BY ActiveType DEF ActiveIntents
<1>2. p.active.prepared.purpose.kind # "Entry" => p.active.prepared.purpose.position \in Intents
  BY <1>1 DEF PreparedIntents, Purposes
<1>3. PreparedEffect(p, p.active.intent, p.active.prepared.purpose)
        => HasEffect(p, p.active.intent)
  BY <1>2 DEF PreparedEffect, HasEffect
<1> QED BY <1>3 DEF Coherent

\* The record after its position event.
LEMMA RecordedRecord ==
  ASSUME NEW p \in Projections, NEW q,
         \/ \E position : OpenBooked(p, q, position)
         \/ \E target, closing : CloseBooked(p, q, target, closing)
  PROVE  /\ p.active # None /\ q.active # None
         /\ p.active.state \in {"RemoteMatched", "ReconciledMatched"}
         /\ q.active.state \in {"PositionRecorded", "RecoveryPositionRecorded"}
         /\ q.active.state = RecordedState(p.active.state)
         /\ q.active.intent = p.active.intent /\ q.active.prepared = p.active.prepared
         /\ q.active.outcome = p.active.outcome /\ q.active.positionEvent # None
<1>1. /\ p.active # None /\ q.active = Recorded(p)
      /\ p.active.state \in {"RemoteMatched", "ReconciledMatched"}
      /\ p.sequence + 1 \in 0 .. MaxSequence
  BY DEF OpenBooked, CloseBooked, Is, Projections
<1>2. p.sequence < MaxSequence /\ p.sequence + 1 \in EventIds
  BY <1>1, SequenceAssumption DEF Projections, EventIds
<1>3. p.active \in ActiveIntents
  BY <1>1, ActiveType
<1>4. Recorded(p) # None
  BY <1>1, <1>2, RecordedType, NoneAssumption
<1>5. p.sequence + 1 # None
  BY <1>2, NoneAssumption
<1> QED BY <1>1, <1>3, <1>4, <1>5 DEF Recorded, RecordedState, ActiveIntents

\* A step of the ledger that says nothing false: an entry that is prepared buys, and what the
\* record of the intent in flight says is what the exchange has done.  (Of a fresh intent and of
\* a recorded position this follows from what was there.)
TrueStep(p, q) ==
  \/ \E i \in Intents, prepared \in PreparedIntents :
       Begun(p, q, i, prepared) /\ EntryBuys(prepared)
  \/ \E a : Advanced(p, q, a) /\ Truthful(a)
  \/ \E position : OpenBooked(p, q, position)
  \/ \E target, closing : CloseBooked(p, q, target, closing)
  \/ \E c : Cleared(p, q, c)
  \/ CleanedUp(p, q)

\* A true step is a step.
LEMMA TrueStepIsStep ==
  ASSUME NEW p, NEW q, TrueStep(p, q)
  PROVE  Step(p, q)
BY DEF TrueStep, Step

\* An event that leaves the intent in flight.
Onward(p, q) ==
  \/ \E a : Advanced(p, q, a)
  \/ \E position : OpenBooked(p, q, position)
  \/ \E target, closing : CloseBooked(p, q, target, closing)

\* It is still the same intent, and the cleanup owner is the same.
LEMMA OnwardKeeps ==
  ASSUME NEW p \in Projections, NEW q, Onward(p, q)
  PROVE  /\ p.active # None /\ q.active # None
         /\ q.active.intent = p.active.intent /\ q.active.prepared = p.active.prepared
         /\ q.cleanupPending = p.cleanupPending
<1>1. CASE \E a : Advanced(p, q, a)
  BY <1>1, NoneAssumption DEF Advanced, Is
<1>2. CASE (\E position : OpenBooked(p, q, position))
           \/ (\E target, closing : CloseBooked(p, q, target, closing))
  BY <1>2, RecordedRecord DEF OpenBooked, CloseBooked, Is
<1> QED BY <1>1, <1>2 DEF Onward

\* A true event keeps the agreement with the exchange.
LEMMA EventAccords ==
  ASSUME NEW p \in Projections, Safe(p), Accords(p), NEW q, TrueStep(p, q)
  PROVE  Accords(q)
<1>0. Coherent(p) /\ IdentityConsistent(p) /\ q \in Projections /\ Step(p, q)
  BY TrueStepIsStep, SafeIsCoherent, StepKeepsSafe DEF Safe
<1>1. \A o \in Orders : Posted(o) => q.orderIntents[o] # None
  BY <1>0, IdentitiesGrow DEF Accords
<1>2. ASSUME NEW i \in Intents, NEW prepared \in PreparedIntents, Begun(p, q, i, prepared)
      PROVE  Accords(q)
  <2>1. /\ q.active = Fresh(i, prepared) /\ p.active = None
        /\ q.positions = p.positions
        /\ q.intentOrders = [p.intentOrders EXCEPT ![i] = prepared.order]
        /\ q.orderIntents = [p.orderIntents EXCEPT ![prepared.order] = i]
        /\ p.intentOrders[i] = None /\ p.orderIntents[prepared.order] = None
    BY <1>2 DEF Begun, Is, PrepareAllowed
  <2>2. prepared.order \in Orders /\ exchange[prepared.order] = None
    BY <2>1 DEF PreparedIntents, Accords, Posted
  <2>3. Fresh(i, prepared) # None
    <3>1. Fresh(i, prepared) \in ActiveIntents
      BY DEF Fresh, ActiveIntents, ActiveIntentStates, Evidence, Outcomes
    <3> QED BY <3>1, NoneAssumption
  <2>4. Truthful(q.active)
    BY <2>1, <2>2 DEF Truthful, Fresh, FilledStates, UnfilledStates
  <2>5. /\ ~ HasEffect(p, i)
        /\ \A j \in Intents : HasEffect(q, j) <=> HasEffect(p, j)
    BY <1>0, <2>1, UnusedHasNoEffect, SameBook
  <2>6. ASSUME NEW o \in Orders, o # prepared.order
        PROVE  /\ InBook(q, o) <=> InBook(p, o)
               /\ SettledIn(q, o) => SettledIn(p, o)
    <3>1. q.orderIntents[o] = p.orderIntents[o] /\ p.orderIntents[o] \in Intents \cup {None}
      BY <2>1, <2>2, <2>6 DEF Projections
    <3>2. InBook(q, o) <=> InBook(p, o)
      BY <2>5, <3>1 DEF InBook
    <3>3. ASSUME SettledIn(q, o)
          PROVE  SettledIn(p, o)
      <4>1. p.orderIntents[o] \in Intents /\ p.intentOrders[p.orderIntents[o]] = o
        BY <1>0, <3>1, <3>3 DEF SettledIn, IdentityConsistent
      <4>2. p.orderIntents[o] # None /\ o # None
        BY <4>1, NoneAssumption
      <4> QED BY <2>1, <4>1, <4>2 DEF SettledIn, Settled, ActiveFor
    <3> QED BY <3>2, <3>3
  <2>7. ~ InBook(q, prepared.order) /\ ~ SettledIn(q, prepared.order)
    <3>1. q.orderIntents[prepared.order] = i
      BY <2>1, <2>2 DEF Projections
    <3>2. ActiveFor(q, i)
      BY <2>1, <2>3 DEF ActiveFor, Fresh
    <3> QED BY <2>5, <3>1, <3>2 DEF InBook, SettledIn, Settled
  <2>8. ASSUME NEW o \in Orders
        PROVE  /\ InBook(q, o) => HasFate(o, "Filled")
               /\ SettledIn(q, o) => ~ HasFate(o, "InFlight") /\ (HasFate(o, "Filled") => InBook(q, o))
    BY <2>6, <2>7 DEF Accords
  <2> QED BY <1>1, <2>4, <2>8 DEF Accords
<1>3. ASSUME \/ \E a : Advanced(p, q, a) /\ Truthful(a)
             \/ \E position : OpenBooked(p, q, position)
             \/ \E target, closing : CloseBooked(p, q, target, closing)
      PROVE  Accords(q)
  <2>1. /\ p.active # None /\ q.active # None /\ q.active.intent = p.active.intent
        /\ q.orderIntents = p.orderIntents /\ q.intentOrders = p.intentOrders
    <3>1. CASE \E a : Advanced(p, q, a) /\ Truthful(a)
      BY <3>1, NoneAssumption DEF Advanced, Is
    <3>2. CASE (\E position : OpenBooked(p, q, position))
               \/ (\E target, closing : CloseBooked(p, q, target, closing))
      BY <3>2, RecordedRecord DEF OpenBooked, CloseBooked, Is
    <3> QED BY <1>3, <3>1, <3>2
  <2>2. ASSUME NEW o \in Orders
        PROVE  /\ SettledIn(q, o) <=> SettledIn(p, o)
               /\ InBook(p, o) => InBook(q, o)
               /\ InBook(q, o) => HasFate(o, "Filled")
    <3>1. SettledIn(q, o) <=> SettledIn(p, o)
      BY <2>1 DEF SettledIn, Settled, ActiveFor
    <3>2. q.orderIntents[o] = p.orderIntents[o] /\ p.orderIntents[o] \in Intents \cup {None}
      BY <2>1 DEF Projections
    <3>3. CASE HasEffect(q, p.orderIntents[o]) <=> HasEffect(p, p.orderIntents[o])
      BY <3>1, <3>2, <3>3 DEF InBook, Accords
    <3>4. CASE /\ p.orderIntents[o] # None /\ p.orderIntents[o] = p.active.intent
               /\ ~ HasEffect(p, p.orderIntents[o]) /\ HasEffect(q, p.orderIntents[o])
      <4>1. q.positions # p.positions
        BY <3>2, <3>4, SameBook
      <4>2. o = p.active.prepared.order
        BY <1>0, <2>1, <3>4, ActiveOrder
      <4>3. HasFate(o, "Filled")
        BY <1>0, <2>1, <4>1, <4>2, BookedFromMatch
           DEF Accords, Truthful, FilledStates, HasFate, Posted
      <4> QED BY <3>1, <3>2, <3>4, <4>3 DEF InBook
    <3> QED BY <1>0, <3>1, <3>2, <3>3, <3>4, EffectChange DEF InBook
  <2>3. Truthful(q.active)
    <3>1. CASE \E a : Advanced(p, q, a) /\ Truthful(a)
      BY <3>1 DEF Advanced, Is
    <3>2. CASE (\E position : OpenBooked(p, q, position))
               \/ (\E target, closing : CloseBooked(p, q, target, closing))
      BY <3>2, RecordedRecord DEF Accords, Truthful, FilledStates, UnfilledStates
    <3> QED BY <1>3, <3>1, <3>2
  <2> QED BY <1>1, <2>2, <2>3 DEF Accords
<1>4. ASSUME NEW c, Cleared(p, q, c)
      PROVE  Accords(q)
  <2>1. /\ p.active # None /\ q.active = None
        /\ p.active.state \in {"PositionRecorded", "RemoteRejected"} \cup AcknowledgeReasons
        /\ q.positions = p.positions
        /\ q.orderIntents = p.orderIntents /\ q.intentOrders = p.intentOrders
    BY <1>4 DEF Cleared, Is
  <2>2. ASSUME NEW o \in Orders
        PROVE  InBook(q, o) <=> InBook(p, o)
    <3>1. p.orderIntents[o] \in Intents \cup {None}
      BY DEF Projections
    <3> QED BY <2>1, <3>1, SameBook DEF InBook
  <2>3. ASSUME NEW o \in Orders, SettledIn(q, o)
        PROVE  ~ HasFate(o, "InFlight") /\ (HasFate(o, "Filled") => InBook(q, o))
    <3>1. CASE SettledIn(p, o)
      BY <2>2, <3>1 DEF Accords
    <3>2. CASE ~ SettledIn(p, o)
      <4>1. p.orderIntents[o] = p.active.intent
        BY <2>1, <2>3, <3>2 DEF SettledIn, Settled, ActiveFor
      <4>2. o = p.active.prepared.order /\ p.active.intent \in Intents
        BY <1>0, <2>1, <4>1, ActiveOrder
      <4>3. Truthful(p.active) /\ StateAgrees(p.active)
        BY <1>0, <2>1 DEF Accords, Coherent
      <4>4. CASE p.active.state \in {"PositionRecorded", "RecoveryApplied"}
        <5>1. InBook(p, o)
          BY <1>0, <2>1, <4>1, <4>2, <4>3, <4>4, EffectOfActive, NoneAssumption
             DEF InBook, StateAgrees
        <5> QED BY <2>2, <5>1 DEF Accords, HasFate
      <4>5. CASE p.active.state \in {"RemoteRejected", "ReconciledNoFill"}
        BY <4>2, <4>3, <4>5 DEF Truthful, UnfilledStates, HasFate
      <4>6. CASE p.active.state = "NotSent"
        BY <4>2, <4>3, <4>6 DEF Truthful, HasFate, Posted
      <4> QED BY <2>1, <4>4, <4>5, <4>6 DEF AcknowledgeReasons
    <3> QED BY <3>1, <3>2
  <2> QED BY <1>1, <2>1, <2>2, <2>3 DEF Accords
<1>5. ASSUME CleanedUp(p, q)
      PROVE  Accords(q)
  <2>1. /\ p.active = None /\ q.active = None /\ q.positions = p.positions
        /\ q.orderIntents = p.orderIntents /\ q.intentOrders = p.intentOrders
    BY <1>5 DEF CleanedUp, Is
  <2>2. ASSUME NEW o \in Orders
        PROVE  /\ InBook(q, o) <=> InBook(p, o)
               /\ SettledIn(q, o) <=> SettledIn(p, o)
    <3>1. p.orderIntents[o] \in Intents \cup {None}
      BY DEF Projections
    <3> QED BY <2>1, <3>1, SameBook DEF InBook, SettledIn, Settled, ActiveFor
  <2> QED BY <1>1, <2>1, <2>2 DEF Accords
<1> QED BY <1>2, <1>3, <1>4, <1>5 DEF TrueStep

\* The book and the fill that is not booked yet: what the wallet holds of a token is the same
\* before and after an event.
LEMMA EventHolds ==
  ASSUME NEW p \in Projections, Safe(p), Accords(p), Holds(p), NEW q, TrueStep(p, q)
  PROVE  Holds(q)
<1>0. Coherent(p) /\ IdentityConsistent(p) /\ q \in Projections /\ OneSided(p)
  BY TrueStepIsStep, SafeIsCoherent, StepKeepsSafe DEF Safe, Holds
<1> SUFFICES OneSided(q) /\ \A token \in Tokens : Held(q, token) <=> Held(p, token)
  BY DEF Holds
<1>1. ASSUME NEW i \in Intents, NEW prepared \in PreparedIntents, Begun(p, q, i, prepared),
             EntryBuys(prepared)
      PROVE  OneSided(q) /\ \A token \in Tokens : Held(q, token) <=> Held(p, token)
  <2>1. /\ q.active = Fresh(i, prepared) /\ p.active = None /\ q.positions = p.positions
        /\ p.orderIntents[prepared.order] = None /\ prepared.order \in Orders
    BY <1>1 DEF Begun, Is, PrepareAllowed, PreparedIntents
  <2>2. ~ Posted(prepared.order)
    BY <2>1 DEF Accords
  <2>3. EntryBuys(prepared)
    BY <1>1
  <2>4. OneSided(q)
    BY <1>0, <2>1, <2>3 DEF OneSided, Opened, Fresh
  <2>5. ASSUME NEW token \in Tokens
        PROVE  Held(q, token) <=> Held(p, token)
    <3>1. ~ Unbooked(q, token) /\ ~ Unbooked(p, token)
      BY <2>1, <2>2 DEF Unbooked, HasFate, Fresh
    <3> QED BY <2>1, <3>1, SameBook DEF Held
  <2> QED BY <2>4, <2>5
<1>2. ASSUME NEW a, Advanced(p, q, a)
      PROVE  OneSided(q) /\ \A token \in Tokens : Held(q, token) <=> Held(p, token)
  <2>1. /\ p.active # None /\ q.active # None /\ q.active.prepared = p.active.prepared
        /\ q.active.positionEvent = p.active.positionEvent /\ q.positions = p.positions
    BY <1>2, NoneAssumption DEF Advanced, Is
  <2>2. OneSided(q)
    BY <1>0, <2>1 DEF OneSided, Opened
  <2>3. ASSUME NEW token \in Tokens
        PROVE  Held(q, token) <=> Held(p, token)
    <3>1. Unbooked(q, token) <=> Unbooked(p, token)
      BY <2>1 DEF Unbooked
    <3> QED BY <2>1, <3>1, SameBook DEF Held
  <2> QED BY <2>2, <2>3
<1>3. ASSUME NEW position, OpenBooked(p, q, position)
      PROVE  OneSided(q) /\ \A token \in Tokens : Held(q, token) <=> Held(p, token)
  <2> DEFINE i == p.active.intent
             prepared == p.active.prepared
  <2>1. /\ p.active # None /\ p.positions[i] = None /\ position \in Positions
        /\ prepared.purpose.kind = "Entry" /\ ExactOpening(p.active, position)
        /\ ~ OpenWithToken(p, position.token)
        /\ q.positions = [p.positions EXCEPT ![i] = position]
    BY <1>3 DEF OpenBooked, Is
  <2>2. /\ q.active # None /\ q.active.prepared = prepared /\ q.active.positionEvent # None
        /\ p.active.state \in FilledStates
    BY <1>3, RecordedRecord DEF FilledStates
  <2>3. i \in Intents
    BY <1>0, <2>1, ActiveOrder
  <2>4. /\ q.positions[i] = position /\ IsOpen(position)
        /\ \A j \in Intents : j # i => q.positions[j] = p.positions[j]
    BY <2>1, <2>3, NoneAssumption DEF Projections, IsOpen, ExactOpening
  <2>5. /\ position.token = prepared.token /\ position.side = prepared.side
        /\ EntryBuys(prepared)
    BY <1>0, <2>1 DEF ExactOpening, OneSided
  <2>6. OneSided(q)
    BY <1>0, <2>1, <2>2, <2>4, <2>5 DEF OneSided, Opened, EntryBuys
  <2>7. p.active.positionEvent = None
    BY <1>0, <2>1 DEF Coherent, PreparedEffect, Opened
  <2>8. HasFate(prepared.order, "Filled")
    BY <2>1, <2>2 DEF Accords, Truthful, HasFate, Posted
  <2>9. \A token \in Tokens : ~ Unbooked(q, token)
    BY <2>2 DEF Unbooked
  <2>10. \A token \in Tokens : Unbooked(p, token) <=> token = prepared.token
    BY <2>1, <2>7, <2>8 DEF Unbooked
  <2>11. \A token \in Tokens : OpenWithToken(q, token)
                                 <=> OpenWithToken(p, token) \/ token = position.token
    BY <2>1, <2>3, <2>4 DEF OpenWithToken, IsOpen
  <2> HIDE DEF i, prepared
  <2> QED BY <2>1, <2>5, <2>6, <2>9, <2>10, <2>11 DEF Held, prepared
<1>4. ASSUME NEW target, NEW closing, CloseBooked(p, q, target, closing)
      PROVE  OneSided(q) /\ \A token \in Tokens : Held(q, token) <=> Held(p, token)
  <2> DEFINE prepared == p.active.prepared
             position == [p.positions[target] EXCEPT !.closing = closing]
  <2>1. /\ p.active # None /\ prepared.purpose.kind = "Exit"
        /\ target \in Intents /\ closing \in Closings
        /\ target = prepared.purpose.position /\ IsOpen(p.positions[target])
        /\ q.positions = [p.positions EXCEPT ![target] = position]
    BY <1>4 DEF CloseBooked, Is
  <2>2. /\ q.active # None /\ q.active.prepared = prepared /\ q.active.positionEvent # None
        /\ p.active.state \in FilledStates
    BY <1>4, RecordedRecord DEF FilledStates
  <2>3. p.positions[target] \in Positions /\ closing # None
    BY <2>1, NoneAssumption DEF IsOpen, Projections
  <2>4. /\ q.positions[target].closing # None /\ q.positions[target].side = p.positions[target].side
        /\ \A j \in Intents : j # target => q.positions[j] = p.positions[j]
    BY <2>1, <2>3 DEF Projections, Positions
  <2>5. OneSided(q)
    <3>1. \A j \in Intents : Opened(q, j) => q.positions[j].side = "Buy"
      BY <1>0, <2>1, <2>4 DEF OneSided, Opened, IsOpen
    <3> QED BY <1>0, <2>1, <2>2, <3>1 DEF OneSided
  <2>6. p.active.positionEvent = None
    BY <1>0, <2>1 DEF Coherent, PreparedEffect, ClosedBy, Closed, IsOpen
  <2>7. HasFate(prepared.order, "Filled")
    BY <2>1, <2>2 DEF Accords, Truthful, HasFate, Posted
  <2>8. p.positions[target].token = prepared.token
    BY <1>0, <2>1, <2>6 DEF Coherent, FillStaysBookable, ExitAllowed
  <2>9. \A token \in Tokens : ~ Unbooked(q, token)
    BY <2>2 DEF Unbooked
  <2>10. \A token \in Tokens : Unbooked(p, token) <=> token = prepared.token
    BY <2>1, <2>6, <2>7 DEF Unbooked
  <2>11. \A token \in Tokens : OpenWithToken(q, token)
                                 <=> OpenWithToken(p, token) /\ token # prepared.token
    <3>1. \A j \in Intents : IsOpen(p.positions[j]) /\ p.positions[j].token = prepared.token
                               => j = target
      BY <1>0, <2>1, <2>8 DEF Coherent, OneOpenPerToken
    <3>2. ~ IsOpen(q.positions[target])
      BY <2>4 DEF IsOpen
    <3> QED BY <2>1, <2>4, <2>8, <3>1, <3>2 DEF OpenWithToken
  <2> HIDE DEF prepared, position
  <2> QED BY <2>1, <2>5, <2>9, <2>10, <2>11 DEF Held, prepared
<1>5. ASSUME NEW c, Cleared(p, q, c)
      PROVE  OneSided(q) /\ \A token \in Tokens : Held(q, token) <=> Held(p, token)
  <2>1. /\ p.active # None /\ q.active = None /\ q.positions = p.positions
        /\ p.active.state \in {"PositionRecorded", "RemoteRejected"} \cup AcknowledgeReasons
    BY <1>5 DEF Cleared, Is
  <2>2. OneSided(q)
    BY <1>0, <2>1 DEF OneSided, Opened
  <2>3. p.active.positionEvent # None \/ ~ HasFate(p.active.prepared.order, "Filled")
    <3>1. StateAgrees(p.active) /\ Truthful(p.active)
      BY <1>0, <2>1 DEF Coherent, Accords
    <3>2. CASE p.active.state \in {"PositionRecorded", "RecoveryApplied"}
      BY <3>1, <3>2 DEF StateAgrees
    <3>3. CASE p.active.state \in {"RemoteRejected", "ReconciledNoFill", "NotSent"}
      BY <3>1, <3>3 DEF Truthful, UnfilledStates, HasFate, Posted
    <3> QED BY <2>1, <3>2, <3>3 DEF AcknowledgeReasons
  <2>4. ASSUME NEW token \in Tokens
        PROVE  Held(q, token) <=> Held(p, token)
    <3>1. ~ Unbooked(q, token) /\ ~ Unbooked(p, token)
      BY <2>1, <2>3 DEF Unbooked
    <3> QED BY <2>1, <3>1, SameBook DEF Held
  <2> QED BY <2>2, <2>4
<1>6. ASSUME CleanedUp(p, q)
      PROVE  OneSided(q) /\ \A token \in Tokens : Held(q, token) <=> Held(p, token)
  <2>1. p.active = None /\ q.active = None /\ q.positions = p.positions
    BY <1>6 DEF CleanedUp, Is
  <2>2. OneSided(q)
    BY <1>0, <2>1 DEF OneSided, Opened
  <2>3. ASSUME NEW token \in Tokens
        PROVE  Held(q, token) <=> Held(p, token)
    <3>1. ~ Unbooked(q, token) /\ ~ Unbooked(p, token)
      BY <2>1 DEF Unbooked
    <3> QED BY <2>1, <3>1, SameBook DEF Held
  <2> QED BY <2>2, <2>3
<1> QED BY <1>1, <1>2, <1>3, <1>4, <1>5, <1>6 DEF TrueStep

-----------------------------------------------------------------------------
(* What the exchange does to the agreement with the ledger *)

\* The order of exchange[o] is decided.
LEMMA DecidedOrder ==
  ASSUME ExchangeTypeOK, NEW o \in Orders, Posted(o), NEW fate \in {"Filled", "Killed"},
         exchange' = [exchange EXCEPT ![o].fate = fate]
  PROVE  /\ ExchangeTypeOK' /\ exchange'[o] # None /\ exchange'[o].fate = fate
         /\ exchange'[o].token = exchange[o].token /\ exchange'[o].side = exchange[o].side
         /\ \A x \in Orders : x # o => exchange'[x] = exchange[x]
<1> DEFINE sent == [exchange[o] EXCEPT !.fate = fate]
<1>1. exchange[o] \in Sent
  BY DEF ExchangeTypeOK, Posted
<1>2. /\ sent \in Sent /\ sent.fate = fate
      /\ sent.token = exchange[o].token /\ sent.side = exchange[o].side
  BY <1>1 DEF Sent
<1>3. exchange' = [exchange EXCEPT ![o] = sent]
  OBVIOUS
<1> HIDE DEF sent
<1> QED BY <1>2, <1>3, AccessAssumption DEF ExchangeTypeOK

\* An order that is undecided is the one of the intent in flight.
LEMMA UndecidedIsActive ==
  ASSUME LedgerInv, NEW o \in Orders, HasFate(o, "InFlight")
  PROVE  /\ disk.active # None /\ o = disk.active.prepared.order
         /\ disk.active.positionEvent = None /\ ~ InBook(disk, o)
         /\ disk.active.state \notin FilledStates \cup UnfilledStates \cup {"NotSent"}
         /\ disk.active.outcome \notin {"Matched", "Rejected"}
         /\ exchange[o].token = disk.active.prepared.token
         /\ exchange[o].side = disk.active.prepared.side
<1>0. Coherent(disk) /\ IdentityConsistent(disk)
  BY SafeIsCoherent DEF LedgerInv, Safe
<1>1. /\ disk.orderIntents[o] # None /\ ~ SettledIn(disk, o) /\ ~ InBook(disk, o)
      /\ disk.orderIntents[o] \in Intents
  BY DEF LedgerInv, Accords, HasFate, Projections
<1>2. disk.intentOrders[disk.orderIntents[o]] = o
  BY <1>0, <1>1 DEF IdentityConsistent
<1>3. disk.active # None /\ disk.active.intent = disk.orderIntents[o]
  BY <1>1, <1>2, NoneAssumption DEF SettledIn, Settled, ActiveFor
<1>4. o = disk.active.prepared.order
  BY <1>0, <1>3, ActiveOrder DEF LedgerInv
<1>5. disk.active.positionEvent = None
  BY <1>0, <1>1, <1>3, EffectOfActive DEF LedgerInv, InBook
<1>6. Truthful(disk.active)
  BY <1>3 DEF LedgerInv, Accords
<1> QED BY <1>1, <1>3, <1>4, <1>5, <1>6 DEF Truthful, HasFate, Posted

\* The exchange decides an order: the ledger does not show it yet, and is right not to.
LEMMA DecisionKept ==
  ASSUME ExchangeTypeOK, LedgerInv, NEW o \in Orders, HasFate(o, "InFlight"),
         NEW fate \in {"Filled", "Killed"},
         exchange' = [exchange EXCEPT ![o].fate = fate], disk' = disk
  PROVE  ExchangeTypeOK' /\ LedgerInv'
<1> DEFINE prepared == disk.active.prepared
<1>0. Coherent(disk) /\ disk \in Projections /\ Accords(disk) /\ Holds(disk)
  BY SafeIsCoherent DEF LedgerInv
<1>1. /\ ExchangeTypeOK' /\ exchange'[o] # None /\ exchange'[o].fate = fate
      /\ exchange'[o].token = exchange[o].token /\ exchange'[o].side = exchange[o].side
      /\ \A x \in Orders : x # o => exchange'[x] = exchange[x]
      /\ exchange[o] # None /\ exchange[o].fate = "InFlight"
  BY DecidedOrder DEF HasFate, Posted
<1>2. /\ disk.active # None /\ o = prepared.order
      /\ disk.active.positionEvent = None /\ ~ InBook(disk, o)
      /\ disk.active.state \notin FilledStates \cup UnfilledStates \cup {"NotSent"}
      /\ disk.active.outcome \notin {"Matched", "Rejected"}
      /\ exchange[o].token = prepared.token /\ exchange[o].side = prepared.side
  BY UndecidedIsActive
<1>3. ~ SettledIn(disk, o)
  BY <1>0 DEF Accords
<1>4. Accords(disk)'
  <2>1. \A x \in Orders : Posted(x)' <=> Posted(x)
    BY <1>1 DEF Posted
  <2>2. \A x \in Orders : \A f : x # o => (HasFate(x, f)' <=> HasFate(x, f))
    BY <1>1 DEF HasFate, Posted
  <2>3. Truthful(disk.active)'
    BY <1>1, <1>2 DEF Truthful
  <2> QED BY <1>0, <1>2, <1>3, <2>1, <2>2, <2>3 DEF Accords, InBook, SettledIn
<1>5. Holds(disk)'
  <2>1. OneSided(disk)' /\ IsFiniteSet({ x \in Orders : Posted(x) })'
    <3>1. { x \in Orders : Posted(x) }' = { x \in Orders : Posted(x) }
      BY <1>1 DEF Posted
    <3> QED BY <1>0, <3>1 DEF Holds, OneSided
  <2>2. ASSUME NEW token \in Tokens
        PROVE  Cardinality(Fills(token, "Buy"))'
                 = (Cardinality(Fills(token, "Sell")) + (IF Held(disk, token) THEN 1 ELSE 0))'
    <3> DEFINE inBook == OpenWithToken(disk, token)
               Now(side) == Fills(token, side)'
    <3>0. /\ ~ Unbooked(disk, token)
          /\ Held(disk, token) <=> inBook
      BY <1>1, <1>2 DEF Unbooked, HasFate, Held
    <3>1. /\ IsFiniteSet(Fills(token, "Buy")) /\ IsFiniteSet(Fills(token, "Sell"))
          /\ Cardinality(Fills(token, "Buy")) \in Nat /\ Cardinality(Fills(token, "Sell")) \in Nat
          /\ Cardinality(Fills(token, "Buy"))
               = Cardinality(Fills(token, "Sell")) + (IF inBook THEN 1 ELSE 0)
          /\ o \notin Fills(token, "Buy") \cup Fills(token, "Sell")
      <4>1. /\ Fills(token, "Buy") \subseteq { x \in Orders : Posted(x) }
            /\ Fills(token, "Sell") \subseteq { x \in Orders : Posted(x) }
        BY DEF Fills, HasFate
      <4>2. IsFiniteSet(Fills(token, "Buy")) /\ IsFiniteSet(Fills(token, "Sell"))
        BY <1>0, <4>1, FS_Subset DEF Holds
      <4> QED BY <1>0, <1>1, <3>0, <4>2, FS_CardinalityType DEF Holds, Fills, HasFate
    <3>2. \A side \in Sides :
            Now(side) = IF fate = "Filled" /\ token = prepared.token /\ side = prepared.side
                        THEN Fills(token, side) \cup {o} ELSE Fills(token, side)
      <4>1. SUFFICES ASSUME NEW side \in Sides
                     PROVE  Now(side) = IF /\ fate = "Filled"
                                           /\ token = prepared.token /\ side = prepared.side
                                        THEN Fills(token, side) \cup {o} ELSE Fills(token, side)
        OBVIOUS
      <4>2. \A x \in Orders : x # o => (x \in Now(side) <=> x \in Fills(token, side))
        BY <1>1 DEF Fills, HasFate, Posted
      <4>3. /\ o \notin Fills(token, side)
            /\ o \in Now(side)
                 <=> fate = "Filled" /\ token = prepared.token /\ side = prepared.side
        BY <1>1, <1>2 DEF Fills, HasFate, Posted
      <4>4. Now(side) \subseteq Orders /\ Fills(token, side) \subseteq Orders
        BY DEF Fills
      <4> HIDE DEF Now, prepared
      <4> QED BY <4>2, <4>3, <4>4
    <3>3. Unbooked(disk, token)' <=> token = prepared.token /\ fate = "Filled"
      BY <1>1, <1>2 DEF Unbooked, HasFate, Posted
    <3>4. CASE ~ (token = prepared.token /\ fate = "Filled")
      <4>1. Now("Buy") = Fills(token, "Buy") /\ Now("Sell") = Fills(token, "Sell")
        BY <3>2, <3>4 DEF Sides
      <4>2. Held(disk, token)' <=> inBook
        BY <3>3, <3>4 DEF Held
      <4> HIDE DEF inBook
      <4> QED BY <3>1, <4>1, <4>2
    <3>5. CASE token = prepared.token /\ fate = "Filled"
      <4>1. Held(disk, token)' <=> prepared.purpose.kind = "Entry"
        BY <3>3, <3>5 DEF Held
      <4>2. prepared.side = IF prepared.purpose.kind = "Entry" THEN "Buy" ELSE "Sell"
        BY <1>0, <1>2 DEF Holds, OneSided, EntryBuys
      <4>3. inBook <=> prepared.purpose.kind # "Entry"
        <5>1. prepared.purpose.kind = "Entry" => ~ inBook
          BY <1>0, <1>2, <3>5 DEF Coherent, FillStaysBookable
        <5>2. prepared.purpose.kind # "Entry" => inBook
          <6>1. prepared.purpose.kind # "Entry" => prepared.purpose.position \in Intents
            BY <1>0, <1>2, ActiveType DEF ActiveIntents, PreparedIntents, Purposes
          <6> QED BY <1>0, <1>2, <3>5, <6>1
                  DEF Coherent, FillStaysBookable, ExitAllowed, OpenWithToken
        <5> QED BY <5>1, <5>2
      <4> HIDE DEF inBook
      <4>4. CASE prepared.purpose.kind = "Entry"
        <5>1. Now("Buy") = Fills(token, "Buy") \cup {o} /\ Now("Sell") = Fills(token, "Sell")
          BY <3>2, <3>5, <4>2, <4>4 DEF Sides
        <5>2. Cardinality(Now("Buy")) = Cardinality(Fills(token, "Buy")) + 1
          BY <3>1, <5>1, FS_AddElement
        <5> QED BY <3>1, <4>1, <4>3, <4>4, <5>1, <5>2
      <4>5. CASE prepared.purpose.kind # "Entry"
        <5>1. Now("Sell") = Fills(token, "Sell") \cup {o} /\ Now("Buy") = Fills(token, "Buy")
          BY <3>2, <3>5, <4>2, <4>5 DEF Sides
        <5>2. Cardinality(Now("Sell")) = Cardinality(Fills(token, "Sell")) + 1
          BY <3>1, <5>1, FS_AddElement
        <5> QED BY <3>1, <4>1, <4>3, <4>5, <5>1, <5>2
      <4> QED BY <4>4, <4>5
    <3> QED BY <3>4, <3>5
  <2> QED BY <2>1, <2>2 DEF Holds
<1> QED BY <1>1, <1>4, <1>5 DEF LedgerInv

\* An order leaves: it is the one of the intent in flight, whose submission has started.
LEMMA PostKept ==
  ASSUME ExchangeTypeOK, LedgerInv, disk.active # None, disk.active.state = "SubmitStarted",
         NEW o, o = disk.active.prepared.order, exchange[o] = None,
         exchange' = [exchange EXCEPT ![o] = [fate |-> "InFlight",
                                              token |-> disk.active.prepared.token,
                                              side |-> disk.active.prepared.side]],
         disk' = disk
  PROVE  ExchangeTypeOK' /\ LedgerInv'
<1> DEFINE prepared == disk.active.prepared
           sent == [fate |-> "InFlight", token |-> prepared.token, side |-> prepared.side]
<1>0. /\ Coherent(disk) /\ IdentityConsistent(disk)
      /\ disk \in Projections /\ Accords(disk) /\ Holds(disk)
  BY SafeIsCoherent DEF LedgerInv, Safe
<1>1. o \in Orders /\ prepared \in PreparedIntents /\ disk.orderIntents[o] = disk.active.intent
  BY <1>0, ActiveOrder
<1>2. sent \in Sent
  BY <1>1 DEF Sent, PreparedIntents
<1>3. /\ ExchangeTypeOK' /\ exchange'[o] = sent /\ sent # None
      /\ \A x \in Orders : x # o => exchange'[x] = exchange[x]
  BY <1>1, <1>2, AccessAssumption DEF ExchangeTypeOK
<1>4. /\ disk.active.outcome = "Unknown" /\ disk.active.state = "SubmitStarted"
      /\ disk.active.intent # None
  BY <1>0, <1>1, ActiveOrder, NoneAssumption DEF Coherent, StateAgrees
<1>5. /\ \A x \in Orders : Posted(x)' <=> Posted(x) \/ x = o
      /\ \A x \in Orders : HasFate(x, "Filled")' <=> HasFate(x, "Filled")
      /\ \A x \in Orders : x # o => (HasFate(x, "InFlight")' <=> HasFate(x, "InFlight"))
      /\ ~ Posted(o)
  BY <1>3 DEF Posted, HasFate
<1>6. Accords(disk)'
  <2>1. Truthful(disk.active)'
    BY <1>3, <1>4 DEF Truthful, FilledStates, UnfilledStates
  <2>2. ~ SettledIn(disk, o) /\ ~ InBook(disk, o)
    BY <1>0, <1>1, <1>5 DEF SettledIn, Settled, ActiveFor, Accords, HasFate
  <2> QED BY <1>0, <1>1, <1>4, <1>5, <2>1, <2>2 DEF Accords, InBook, SettledIn
<1>7. Holds(disk)'
  <2>1. OneSided(disk)'
    BY <1>0 DEF Holds, OneSided
  <2>2. IsFiniteSet({ x \in Orders : Posted(x) })'
    <3>1. { x \in Orders : Posted(x) }' = { x \in Orders : Posted(x) } \cup {o}
      BY <1>1, <1>5
    <3> QED BY <1>0, <3>1, FS_AddElement DEF Holds
  <2>3. ASSUME NEW token \in Tokens
        PROVE  /\ \A side : Fills(token, side)' = Fills(token, side)
               /\ Held(disk, token)' <=> Held(disk, token)
    <3>1. \A side : Fills(token, side)' = Fills(token, side)
      BY <1>3, <1>5 DEF Fills, HasFate
    <3>2. Unbooked(disk, token)' <=> Unbooked(disk, token)
      BY <1>1, <1>5 DEF Unbooked
    <3> QED BY <3>1, <3>2 DEF Held
  <2> QED BY <1>0, <2>1, <2>2, <2>3 DEF Holds
<1> QED BY <1>0, <1>3, <1>6, <1>7 DEF LedgerInv

\* What is said of a ledger depends on the exchange alone.
LEMMA SameExchange ==
  ASSUME exchange' = exchange
  PROVE  /\ ExchangeTypeOK' <=> ExchangeTypeOK
         /\ Accords(disk)' <=> Accords(disk')
         /\ Holds(disk)' <=> Holds(disk')
<1>1. \A o \in Orders : /\ Posted(o)' <=> Posted(o)
                        /\ \A fate : HasFate(o, fate)' <=> HasFate(o, fate)
  BY DEF Posted, HasFate
<1>2. Accords(disk)' <=> Accords(disk')
  BY <1>1 DEF Accords, InBook, SettledIn, Truthful
<1>3. \A token, side : Fills(token, side)' = Fills(token, side)
  BY <1>1 DEF Fills
<1>4. Holds(disk)' <=> Holds(disk')
  <2>1. \A token : Held(disk, token)' <=> Held(disk', token)
    BY DEF Held, Unbooked, HasFate, Posted
  <2>2. { o \in Orders : Posted(o) }' = { o \in Orders : Posted(o) }
    BY DEF Posted
  <2> QED BY <1>3, <2>1, <2>2 DEF Holds, OneSided
<1> QED BY <1>2, <1>4 DEF ExchangeTypeOK

-----------------------------------------------------------------------------
(* Which events are true *)

\* A record that claims no more than before stays true.
LEMMA StillTruthful ==
  ASSUME NEW p, NEW q, NEW a, Advanced(p, q, a), Truthful(p.active),
         a.outcome = p.active.outcome,
         \/ a.state \notin FilledStates \cup UnfilledStates \cup {"NotSent"}
         \/ a.state \in FilledStates /\ HasFate(p.active.prepared.order, "Filled")
         \/ a.state \in UnfilledStates /\ HasFate(p.active.prepared.order, "Killed")
  PROVE  TrueStep(p, q)
<1>1. a.prepared = p.active.prepared
  BY DEF Advanced
<1>2. "NotSent" \notin FilledStates \cup UnfilledStates /\ FilledStates \cap UnfilledStates = {}
  BY DEF FilledStates, UnfilledStates
<1>3. Truthful(a)
  BY <1>1, <1>2 DEF Truthful, HasFate, Posted
<1> QED BY <1>3 DEF TrueStep

\* The amounts of an exact match are those of the order, and they are amounts.
LEMMA MatchedOrderAmounts ==
  ASSUME NEW p \in Projections, NEW i, NEW amounts, ExactMatch(p, i, amounts)
  PROVE  amounts \in MatchedAmounts
<1>1. p.active.prepared \in PreparedIntents
  BY ActiveType DEF ExactMatch, ActiveFor, ActiveIntents
<1> QED BY <1>1 DEF ExactMatch, MatchedAmounts, SharesOf, UsdOf, PreparedIntents

\* IntentPrepared is true of an entry that buys or an exit that sells.
LEMMA PrepareTrue ==
  ASSUME NEW p \in Projections, NEW i \in Intents, NEW prepared \in PreparedIntents,
         EntryBuys(prepared), NEW q \in Applied(p, StagePrepare(p, i, prepared))
  PROVE  TrueStep(p, q)
BY PrepareStep DEF TrueStep

\* The transitions that claim nothing about the exchange.
LEMMA PlainTrue ==
  ASSUME NEW p \in Projections, Accords(p), NEW i \in Intents,
         NEW q, \/ q \in Applied(p, StageSubmitStarted(p, i))
                \/ q \in Applied(p, StageRemoteUncertain(p, i))
                \/ q \in Applied(p, StageCancelStarted(p, i))
                \/ q \in Applied(p, StageCancelResponseObserved(p, i))
  PROVE  TrueStep(p, q)
<1>1. PICK a : Advanced(p, q, a)
  BY PlainSteps
<1>2. q.active = a /\ Truthful(p.active)
  BY <1>1 DEF Advanced, Is, Accords
<1>3. /\ a.state \in {"SubmitStarted", "RemoteUncertain", "CancelStarted", "CancelResponseObserved"}
      /\ a.outcome = p.active.outcome
  BY <1>2, PlainRecords DEF Became
<1> QED BY <1>1, <1>2, <1>3, StillTruthful DEF FilledStates, UnfilledStates

\* RemoteMatched is true of an order the exchange has filled.
LEMMA RemoteMatchedTrue ==
  ASSUME NEW p \in Projections, Accords(p), NEW i \in Intents, NEW amounts,
         HasFate(p.active.prepared.order, "Filled"),
         NEW q \in Applied(p, StageRemoteMatched(p, i, amounts))
  PROVE  TrueStep(p, q)
<1>1. amounts \in MatchedAmounts
  BY MatchedOrderAmounts DEF Applied, StageRemoteMatched, When
<1>2. PICK a : Advanced(p, q, a)
  BY <1>1, RemoteMatchedStep
<1>3. q.active = a /\ Truthful(p.active) /\ a.prepared = p.active.prepared
  BY <1>2 DEF Advanced, Is, Accords
<1>4. a.state = "RemoteMatched" /\ a.outcome = "Matched"
  BY <1>3, RemoteMatchedRecord
<1>5. Truthful(a)
  BY <1>3, <1>4 DEF Truthful, FilledStates, UnfilledStates, HasFate, Posted
<1> QED BY <1>2, <1>5 DEF TrueStep

\* RemoteRejected is true of an order the exchange has killed.
LEMMA RemoteRejectedTrue ==
  ASSUME NEW p \in Projections, Accords(p), NEW i \in Intents,
         HasFate(p.active.prepared.order, "Killed"),
         NEW q \in Applied(p, StageRemoteRejected(p, i))
  PROVE  TrueStep(p, q)
<1>2. PICK a : Advanced(p, q, a)
  BY RemoteRejectedStep
<1>3. q.active = a /\ Truthful(p.active) /\ a.prepared = p.active.prepared
  BY <1>2 DEF Advanced, Is, Accords
<1>4. a.state = "RemoteRejected" /\ a.outcome = "Rejected"
  BY <1>3, RemoteRejectedRecord
<1>5. Truthful(a)
  BY <1>3, <1>4 DEF Truthful, FilledStates, UnfilledStates, HasFate, Posted
<1> QED BY <1>2, <1>5 DEF TrueStep

\* A reconciliation starts, whatever the exchange has done.
LEMMA StartReconciliationTrue ==
  ASSUME NEW p \in Projections, Accords(p), NEW i \in Intents,
         NEW q \in Applied(p, StageStartReconciliation(p, i))
  PROVE  TrueStep(p, q)
<1>1. PICK a : Advanced(p, q, a)
  BY ReconciliationStartedStep
<1>2. q.active = a /\ Truthful(p.active)
  BY <1>1 DEF Advanced, Is, Accords
<1>3. a.state = "ReconciliationStarted" /\ a.outcome = p.active.outcome
  BY <1>2, ReconciliationRecords DEF Became
<1> QED BY <1>1, <1>2, <1>3, StillTruthful DEF FilledStates, UnfilledStates

\* ReconciledMatched is true of an order the exchange has filled.
LEMMA ReconciledMatchedTrue ==
  ASSUME NEW p \in Projections, Accords(p), NEW i \in Intents, NEW amounts,
         HasFate(p.active.prepared.order, "Filled"),
         NEW q \in Applied(p, StageReconciledMatched(p, i, amounts))
  PROVE  TrueStep(p, q)
<1>1. amounts \in MatchedAmounts
  BY MatchedOrderAmounts DEF Applied, StageReconciledMatched, When
<1>2. PICK a : Advanced(p, q, a)
  BY <1>1, ReconciledMatchedStep
<1>3. q.active = a /\ Truthful(p.active)
  BY <1>2 DEF Advanced, Is, Accords
<1>4. a.state = "ReconciledMatched" /\ a.outcome = p.active.outcome
  BY <1>3, ReconciliationRecords DEF Became
<1> QED BY <1>2, <1>3, <1>4, StillTruthful DEF FilledStates

\* ReconciledNoFill is true of an order the exchange has killed, the other classes of any.
LEMMA ReconciledOtherTrue ==
  ASSUME NEW p \in Projections, Accords(p), NEW i \in Intents, NEW class \in Classes,
         class = "ReconciledNoFill" => HasFate(p.active.prepared.order, "Killed"),
         NEW q \in Applied(p, StageReconciledOther(p, i, class))
  PROVE  TrueStep(p, q)
<1>1. PICK a : Advanced(p, q, a)
  BY ReconciledOtherStep
<1>2. q.active = a /\ Truthful(p.active)
  BY <1>1 DEF Advanced, Is, Accords
<1>3. a.state = class /\ a.outcome = p.active.outcome
  BY <1>2, ReconciliationRecords DEF Became
<1> QED BY <1>1, <1>2, <1>3, StillTruthful DEF FilledStates, UnfilledStates, Classes

\* RecoveryApplied adds nothing to what a recorded fill says.
LEMMA RecoveryAppliedTrue ==
  ASSUME NEW p \in Projections, Accords(p), NEW i \in Intents,
         p.active.positionEvent # None,
         NEW q \in Applied(p, StageRecoveryApplied(p, i, p.active.positionEvent))
  PROVE  TrueStep(p, q)
<1>1. p.active # None /\ p.active.state \in {"RecoveryPositionRecorded", "ReconciledMatched"}
  BY ReconciliationRecords DEF Became, ActiveFor
<1>2. p.active.positionEvent \in EventIds
  BY <1>1, ActiveType DEF ActiveIntents
<1>3. PICK a : Advanced(p, q, a)
  BY <1>2, RecoveryAppliedStep
<1>4. q.active = a /\ Truthful(p.active)
  BY <1>1, <1>3 DEF Advanced, Is, Accords
<1>5. a.state = "RecoveryApplied" /\ a.outcome = p.active.outcome
  BY <1>4, ReconciliationRecords DEF Became
<1>6. HasFate(p.active.prepared.order, "Filled")
  BY <1>1, <1>4 DEF Truthful, FilledStates, HasFate, Posted
<1> QED BY <1>3, <1>4, <1>5, <1>6, StillTruthful DEF FilledStates

\* PositionOpened and PositionClosed, with amounts the reducer has compared with the order's.
LEMMA PositionSteps ==
  ASSUME NEW p \in Projections, NEW i \in Intents, NEW q
  PROVE  /\ \A order, token, side, seed, shares, usd :
              q \in Applied(p, StageOpenPosition(p, i,
                      [order |-> order, token |-> token, side |-> side, seed |-> seed,
                       shares |-> shares, usd |-> usd, closing |-> None]))
                => \E position : OpenBooked(p, q, position)
         /\ \A target, intent, order, shares, usd :
              q \in Applied(p, StageClosePosition(p, i, target,
                      [intent |-> intent, order |-> order, shares |-> shares, usd |-> usd]))
                => \E j, closing : CloseBooked(p, q, j, closing)
<1>1. ASSUME NEW order, NEW token, NEW side, NEW seed, NEW shares, NEW usd,
             q \in Applied(p, StageOpenPosition(p, i,
                     [order |-> order, token |-> token, side |-> side, seed |-> seed,
                      shares |-> shares, usd |-> usd, closing |-> None]))
      PROVE  \E position : OpenBooked(p, q, position)
  <2> DEFINE opening == [order |-> order, token |-> token, side |-> side, seed |-> seed,
                          shares |-> shares, usd |-> usd, closing |-> None]
  <2>1. /\ AwaitsPosition(p, i, "Entry") /\ ExactMatch(p, i, [shares |-> shares, usd |-> usd])
        /\ ExactOpening(p.active, opening)
    BY <1>1 DEF Applied, StageOpenPosition, When
  <2>2. [shares |-> shares, usd |-> usd] \in MatchedAmounts
    BY <2>1, MatchedOrderAmounts
  <2>3. p.active.prepared \in PreparedIntents /\ p.active.prepared.purpose.kind = "Entry"
    BY <2>1, ActiveType DEF AwaitsPosition, ActiveFor, ActiveIntents
  <2>4. /\ order = p.active.prepared.order /\ token = p.active.prepared.token
        /\ side = p.active.prepared.side /\ seed = p.active.prepared.purpose.seed
    BY <2>1 DEF ExactOpening
  <2>5. p.active.prepared.purpose.seed \in Seeds
    BY <2>3 DEF PreparedIntents, Purposes
  <2>6. opening \in Positions
    BY <2>2, <2>3, <2>4, <2>5 DEF Positions, MatchedAmounts, PreparedIntents
  <2> HIDE DEF opening
  <2> QED BY <1>1, <2>6, OpenStep DEF opening
<1>2. ASSUME NEW target, NEW intent, NEW order, NEW shares, NEW usd,
             q \in Applied(p, StageClosePosition(p, i, target,
                     [intent |-> intent, order |-> order, shares |-> shares, usd |-> usd]))
      PROVE  \E j, closing : CloseBooked(p, q, j, closing)
  <2> DEFINE record == [intent |-> intent, order |-> order, shares |-> shares, usd |-> usd]
  <2>1. /\ AwaitsPosition(p, i, "Exit") /\ ExactMatch(p, i, [shares |-> shares, usd |-> usd])
        /\ target = p.active.prepared.purpose.position
        /\ intent = i /\ order = p.active.prepared.order
    BY <1>2 DEF Applied, StageClosePosition, When
  <2>2. [shares |-> shares, usd |-> usd] \in MatchedAmounts
    BY <2>1, MatchedOrderAmounts
  <2>3. p.active.prepared \in PreparedIntents /\ p.active.prepared.purpose.kind = "Exit"
    BY <2>1, ActiveType DEF AwaitsPosition, ActiveFor, ActiveIntents
  <2>4. target \in Intents
    BY <2>1, <2>3 DEF PreparedIntents, Purposes
  <2>5. record \in Closings
    BY <2>1, <2>2, <2>3 DEF Closings, MatchedAmounts, PreparedIntents
  <2> HIDE DEF record
  <2> QED BY <1>2, <2>4, <2>5, CloseStep DEF record
<1> QED BY <1>1, <1>2

\* The events that take an intent out of flight and finish its cleanup.
LEMMA SettlingTrue ==
  ASSUME NEW p \in Projections, NEW i \in Intents, NEW reason, NEW q,
         \/ q \in Applied(p, StageClear(p, i, "PositionRecorded"))
         \/ q \in Applied(p, StageClear(p, i, "RemoteRejected"))
         \/ q \in Applied(p, StageAcknowledge(p, i, reason))
         \/ q \in Applied(p, StageCleanupCompleted(p, i))
  PROVE  TrueStep(p, q)
<1>1. CASE q \in Applied(p, StageClear(p, i, "PositionRecorded"))
  BY <1>1, ClearStep DEF TrueStep
<1>2. CASE q \in Applied(p, StageClear(p, i, "RemoteRejected"))
  BY <1>2, ClearStep DEF TrueStep
<1>3. CASE q \in Applied(p, StageAcknowledge(p, i, reason))
  <2>1. reason \in AcknowledgeReasons
    BY <1>3 DEF Applied, StageAcknowledge, When
  <2> QED BY <1>3, <2>1, AcknowledgeStep DEF TrueStep
<1>4. CASE q \in Applied(p, StageCleanupCompleted(p, i))
  BY <1>4, CleanupStep DEF TrueStep
<1> QED BY <1>1, <1>2, <1>3, <1>4

-----------------------------------------------------------------------------
(* What a step of any process does to the ledger file and the exchange *)

\* Nothing happens at the exchange, and the file takes a true event or none.
Records == exchange' = exchange /\ (disk' = disk \/ TrueStep(disk, disk'))

\* The order of the intent in flight leaves.
Sends ==
  /\ disk.active # None /\ disk.active.state = "SubmitStarted"
  /\ exchange[disk.active.prepared.order] = None
  /\ exchange' = [exchange EXCEPT ![disk.active.prepared.order] =
                    [fate |-> "InFlight", token |-> disk.active.prepared.token,
                     side |-> disk.active.prepared.side]]
  /\ disk' = disk

\* The exchange decides an order.
Decides ==
  /\ \E o \in Orders, fate \in {"Filled", "Killed"} :
       HasFate(o, "InFlight") /\ exchange' = [exchange EXCEPT ![o].fate = fate]
  /\ disk' = disk

Moves == Records \/ Sends \/ Decides

\* Each of the three keeps the agreement of the ledger with the exchange.
LEMMA MovesKept ==
  ASSUME ExchangeTypeOK, LedgerInv, Moves
  PROVE  ExchangeTypeOK' /\ LedgerInv'
<1>1. CASE Records
  <2>1. exchange' = exchange
    BY <1>1 DEF Records
  <2>2. disk' \in Projections /\ Safe(disk') /\ Accords(disk') /\ Holds(disk')
    <3>1. CASE disk' = disk
      BY <3>1 DEF LedgerInv
    <3>2. CASE TrueStep(disk, disk')
      BY <3>2, TrueStepIsStep, StepKeepsSafe, EventAccords, EventHolds DEF LedgerInv
    <3> QED BY <1>1, <3>1, <3>2 DEF Records
  <2> QED BY <2>1, <2>2, SameExchange DEF LedgerInv
<1>2. CASE Sends
  BY <1>2, PostKept DEF Sends
<1>3. CASE Decides
  BY <1>3, DecisionKept DEF Decides
<1> QED BY <1>1, <1>2, <1>3 DEF Moves

\* The file takes the next sequence number with each event.
LEMMA MovesForward ==
  ASSUME LedgerInv, Moves
  PROVE  /\ disk'.sequence = disk.sequence \/ disk'.sequence = disk.sequence + 1
         /\ disk'.sequence = disk.sequence => disk' = disk
         /\ disk.sequence \in Nat /\ disk'.sequence \in Nat
<1>1. CASE disk' = disk
  BY <1>1 DEF LedgerInv, Projections
<1>2. CASE TrueStep(disk, disk')
  <2>1. Step(disk, disk')
    BY <1>2, TrueStepIsStep
  <2>2. disk'.sequence = disk.sequence + 1
    BY <2>1 DEF Step, Begun, Advanced, OpenBooked, CloseBooked, Cleared, CleanedUp, Is
  <2>3. disk.sequence \in Nat
    BY DEF LedgerInv, Projections
  <2> QED BY <2>2, <2>3
<1> QED BY <1>1, <1>2 DEF Moves, Records, Sends, Decides

\* An append of events that are true: the file takes one of them or not, and what is in memory
\* is what is in the file unless the append fails, which makes the ledger fatal.
LEMMA AppendMoves ==
  ASSUME ExchangeTypeOK, LedgerInv, MemoryInv, owner # None, NEW staged,
         AppendOk(staged) \/ AppendErr(staged),
         UNCHANGED <<exchange, owner, marker, halted>>,
         proj = disk => \A q \in Applied(disk, staged) : TrueStep(disk, q)
  PROVE  /\ Moves /\ MemoryInv'
         /\ AppendOk(staged) => /\ disk' \in Applied(disk, staged) /\ TrueStep(disk, disk')
                                /\ proj = disk /\ proj' = disk' /\ ~ fatal'
         /\ AppendErr(staged) => /\ proj' = proj
                                 /\ disk' = disk \/ (disk' \in Applied(disk, staged) /\ fatal')
                                 /\ fatal' \/ UNCHANGED ledgerVars
<1>1. CASE AppendOk(staged)
  <2>1. ~ fatal /\ ~ fatal' /\ proj' = disk' /\ opens' = opens /\ proj = disk
    BY <1>1 DEF AppendOk, MemoryInv
  <2>2. disk' \in Applied(disk, staged) /\ TrueStep(disk, disk')
    BY <1>1, <2>1 DEF AppendOk
  <2>3. Moves
    BY <2>2 DEF Moves, Records
  <2>4. disk' \in Projections
    BY <2>3, MovesKept DEF LedgerInv
  <2>5. ~ AppendErr(staged)
    BY <2>1, <2>2, <1>1 DEF AppendErr, AppendRefused, AppendBroken, AppendOk
  <2>6. MemoryInv'
    <3>1. ({opens, fatal, halted, marker} \subseteq BOOLEAN)'
      BY <1>1 DEF MemoryInv, AppendOk
    <3> QED BY <2>1, <2>4, <3>1 DEF MemoryInv
  <2> QED BY <2>1, <2>2, <2>3, <2>5, <2>6
<1>2. CASE AppendRefused(staged)
  <2>1. UNCHANGED ledgerVars
    BY <1>2 DEF AppendRefused
  <2>2. ~ AppendOk(staged)
    BY <1>2 DEF AppendRefused, AppendOk
  <2> QED BY <2>1, <2>2 DEF ledgerVars, Moves, Records, MemoryInv
<1>3. CASE AppendBroken(staged)
  <2>1. /\ ~ fatal /\ fatal' = TRUE /\ proj = disk /\ proj' = proj /\ opens' \in BOOLEAN
        /\ disk' = disk \/ disk' \in Applied(disk, staged)
    BY <1>3 DEF AppendBroken, MemoryInv
  <2>2. disk' = disk \/ TrueStep(disk, disk')
    BY <2>1
  <2>3. ~ AppendOk(staged)
    BY <2>1 DEF AppendOk
  <2> QED BY <2>1, <2>2, <2>3 DEF Moves, Records, MemoryInv
<1> QED BY <1>1, <1>2, <1>3 DEF AppendErr

-----------------------------------------------------------------------------
(* The bot: what a caller inside submit_fok can rely on *)

\* Whoever is in submit_fok is alone there, and the ledger file is what the process thinks it is
\* unless the caller is about to halt.
LEMMA HolderAlone ==
  ASSUME BotInv, NEW c \in Callers, at[c] \in Critical
  PROVE  /\ BotRuns /\ owner # None /\ lock = c /\ lock # None /\ ~ halted
         /\ disk.cleanupPending = None
         /\ \A d \in Callers : d # c => at[d] \notin Critical
         /\ at[c] # "Halting" => ~ fatal /\ proj = disk
<1>1. /\ lock = c /\ c # None
      /\ \A d \in Callers : d # c => at[d] \notin Critical
  BY CallersAssumption DEF BotInv, CallersTypeOK
<1>2. BotRuns /\ ~ halted /\ disk.cleanupPending = None
  BY <1>1 DEF BotInv, BreakerInv, Critical, Steps
<1>3. owner # None
  BY <1>2, AccessAssumption DEF BotRuns, Processes
<1>4. at[c] # "Halting" => ~ fatal
  BY <1>1, <1>2 DEF BotInv, BreakerInv, Critical, Steps
<1> QED BY <1>1, <1>2, <1>3, <1>4 DEF BotInv, MemoryInv

\* Nothing is required of a caller outside submit_fok but its plan.
LEMMA BystanderKept ==
  ASSUME NEW d \in Callers, CallerInv(d), at[d] \notin Critical,
         at'[d] = at[d], plan'[d] = plan[d]
  PROVE  CallerInv(d)'
<1>1. InFlightSteps \cup {"Checked"} \subseteq Critical
  BY DEF InFlightSteps, Critical, Steps
<1> QED BY <1>1 DEF CallerInv

\* A step of the caller that holds the lock.
LEMMA HolderStep ==
  ASSUME BotInv, NEW c \in Callers, at[c] \in Critical, Moves, MemoryInv',
         BreakerInv', CallersTypeOK', CallerInv(c)',
         \A d \in Callers : d # c => at'[d] = at[d] /\ plan'[d] = plan[d]
  PROVE  BotInv'
<1>1. ExchangeTypeOK' /\ LedgerInv'
  BY MovesKept DEF BotInv
<1>2. ASSUME NEW d \in Callers, d # c PROVE CallerInv(d)'
  BY <1>2, HolderAlone, BystanderKept DEF BotInv
<1> QED BY <1>1, <1>2 DEF BotInv

\* A caller moves on inside submit_fok.
LEMMA MoveInside ==
  ASSUME CallersTypeOK, NEW c \in Callers, at[c] \in Critical, NEW to \in Critical,
         Move(c, to), UNCHANGED <<plan, job, lock>>
  PROVE  /\ CallersTypeOK' /\ at'[c] = to /\ plan'[c] = plan[c] /\ job'[c] = job[c]
         /\ \A d \in Callers : d # c => at'[d] = at[d] /\ plan'[d] = plan[d]
<1>1. at' = [at EXCEPT ![c] = to] /\ at \in [Callers -> Steps \cup Exits]
  BY DEF Move, CallersTypeOK
<1>2. at'[c] = to /\ \A d \in Callers : d # c => at'[d] = at[d]
  BY <1>1
<1>3. at' \in [Callers -> Steps \cup Exits]
  BY <1>1 DEF Critical
<1> QED BY <1>2, <1>3 DEF CallersTypeOK

\* A caller leaves submit_fok without a halt.
LEMMA MoveOut ==
  ASSUME CallersTypeOK, NEW c \in Callers, at[c] \in Critical, Finish(c)
  PROVE  /\ CallersTypeOK' /\ at'[c] = "Idle" /\ lock' = None
         /\ \A d \in Callers : d # c => at'[d] = at[d] /\ plan'[d] = plan[d]
<1>1. /\ at' = [at EXCEPT ![c] = "Idle"] /\ at \in [Callers -> Steps \cup Exits]
      /\ plan' = [plan EXCEPT ![c] = None] /\ plan \in [Callers -> Plans \cup {None}]
      /\ job' = [job EXCEPT ![c] = None] /\ job \in [Callers -> Submissions \cup {None}]
      /\ lock' = None
  BY DEF Finish, Move, CallersTypeOK
<1>2. /\ at'[c] = "Idle"
      /\ \A d \in Callers : d # c => at'[d] = at[d] /\ plan'[d] = plan[d]
  BY <1>1
<1>3. /\ at' \in [Callers -> Steps \cup Exits] /\ plan' \in [Callers -> Plans \cup {None}]
      /\ job' \in [Callers -> Submissions \cup {None}]
  BY <1>1 DEF Exits
<1>4. \A d \in Callers : at'[d] \notin Critical /\ lock' # d
  BY <1>1, <1>2, CallersAssumption DEF CallersTypeOK, Critical, Steps
<1> QED BY <1>1, <1>2, <1>3, <1>4 DEF CallersTypeOK

\* A caller that journals an event which is true, and leaves its intent in flight, may rely on
\* it at its next step.
LEMMA JournalKept ==
  ASSUME BotInv, NEW c \in Callers, NEW from \in InFlightSteps,
         NEW to \in InFlightSteps \cup {"Halting"}, NEW staged, Journal(c, from, staged, to),
         to # "Halting" => FatesAt(from) \subseteq FatesAt(to),
         proj = disk => \A q \in Applied(disk, staged) :
           /\ TrueStep(disk, q) /\ Onward(disk, q)
           /\ to # "Halting" => q.active.state = StateAt(to)
  PROVE  BotInv' /\ Records
<1>0. /\ at[c] = from /\ from \in Critical /\ from # "Halting" /\ to \in Critical
      /\ (AppendOk(staged) /\ Move(c, to)) \/ (AppendErr(staged) /\ Move(c, "Halting"))
      /\ UNCHANGED <<halted, marker, lock, owner, plan, job, exchange>>
  <2>1. InFlightSteps \cup {"Halting"} \subseteq Critical /\ "Halting" \notin InFlightSteps
    BY DEF InFlightSteps, Critical, Steps
  <2> QED BY <2>1 DEF Journal, breakerVars
<1>1. /\ BotRuns /\ owner # None /\ lock = c /\ lock # None /\ ~ halted
      /\ disk.cleanupPending = None /\ ~ fatal /\ proj = disk
  BY <1>0, HolderAlone
<1>2. ExchangeTypeOK /\ LedgerInv /\ MemoryInv /\ CallersTypeOK /\ CallerInv(c) /\ disk \in Projections
  BY DEF BotInv, LedgerInv
<1>3. /\ Moves /\ MemoryInv'
      /\ AppendOk(staged) => disk' \in Applied(disk, staged) /\ ~ fatal'
      /\ AppendErr(staged) => disk' = disk \/ disk' \in Applied(disk, staged)
  BY <1>0, <1>1, <1>2, AppendMoves
<1>4. disk' = disk \/ disk' \in Applied(disk, staged)
  BY <1>0, <1>3
<1>5. disk'.cleanupPending = None
  BY <1>1, <1>2, <1>4, OnwardKeeps
<1>6. Records
  BY <1>0, <1>1, <1>4 DEF Records
<1>7. CASE AppendOk(staged) /\ Move(c, to)
  <2>1. /\ CallersTypeOK' /\ at'[c] = to /\ plan'[c] = plan[c] /\ job'[c] = job[c]
        /\ \A d \in Callers : d # c => at'[d] = at[d] /\ plan'[d] = plan[d]
    BY <1>0, <1>2, <1>7, MoveInside
  <2>2. BreakerInv'
    BY <1>0, <1>1, <1>3, <1>5, <1>7 DEF BreakerInv, BotRuns
  <2>3. CallerInv(c)'
    <3>1. /\ disk'.active # None /\ disk'.active.intent = disk.active.intent
          /\ disk'.active.prepared = disk.active.prepared
          /\ to # "Halting" => disk'.active.state = StateAt(to)
      BY <1>1, <1>2, <1>3, <1>7, OnwardKeeps
    <3>2. \A o : Fate(o)' = Fate(o)
      BY <1>0 DEF Fate
    <3>3. to # "Checked" /\ to # "Idle" /\ from # "Idle" /\ "Halting" \notin InFlightSteps
      BY DEF InFlightSteps
    <3> QED BY <1>0, <1>2, <2>1, <3>1, <3>2, <3>3 DEF CallerInv
  <2> QED BY <1>0, <1>3, <1>6, <2>1, <2>2, <2>3, HolderStep
<1>8. CASE AppendErr(staged) /\ Move(c, "Halting")
  <2>1. /\ CallersTypeOK' /\ at'[c] = "Halting" /\ plan'[c] = plan[c] /\ job'[c] = job[c]
        /\ \A d \in Callers : d # c => at'[d] = at[d] /\ plan'[d] = plan[d]
    <3>1. "Halting" \in Critical
      BY DEF Critical, Steps
    <3> QED BY <1>0, <1>2, <1>8, <3>1, MoveInside
  <2>2. BreakerInv'
    BY <1>0, <1>1, <1>5, <2>1 DEF BreakerInv, BotRuns
  <2>3. CallerInv(c)'
    BY <1>0, <1>2, <2>1 DEF CallerInv, InFlightSteps
  <2> QED BY <1>0, <1>3, <1>6, <2>1, <2>2, <2>3, HolderStep
<1> QED BY <1>0, <1>7, <1>8

-----------------------------------------------------------------------------
(* The bot: one lemma per action *)

\* PlanEntry, PlanExit: a plan of its type, and an entry buys.
LEMMA PlanKept ==
  ASSUME BotInv, PlanEntry \/ PlanExit
  PROVE  BotInv' /\ Records
<1>0. /\ ExchangeTypeOK /\ LedgerInv /\ MemoryInv /\ CallersTypeOK /\ BreakerInv
      /\ \A c \in Callers : CallerInv(c)
      /\ BotRuns
  BY DEF BotInv, PlanEntry, PlanExit
<1>1. PICK c \in Callers, plan1 \in Plans :
        /\ at[c] = "Idle" /\ at' = [at EXCEPT ![c] = "Planned"]
        /\ plan' = [plan EXCEPT ![c] = plan1]
        /\ plan1.purpose.kind = "Entry" => plan1.side = "Buy"
  <2>1. CASE PlanEntry
    <3>1. PICK token \in Tokens, seed \in Seeds :
            plan' = [plan EXCEPT !["executor"] =
                       [token |-> token, side |-> "Buy", shares |-> None,
                        purpose |-> [kind |-> "Entry", seed |-> seed]]]
      BY <2>1 DEF PlanEntry
    <3>2. [token |-> token, side |-> "Buy", shares |-> None,
           purpose |-> [kind |-> "Entry", seed |-> seed]] \in Plans
      BY DEF Plans, Sides, Purposes
    <3> QED BY <2>1, <3>1, <3>2 DEF PlanEntry, Move, Callers
  <2>2. CASE PlanExit
    <3>1. PICK i \in Intents :
            /\ IsOpen(proj.positions[i])
            /\ plan' = [plan EXCEPT !["monitor"] =
                          [token |-> proj.positions[i].token,
                           side |-> Opposite(proj.positions[i].side),
                           shares |-> proj.positions[i].shares,
                           purpose |-> [kind |-> "Exit", position |-> i]]]
      BY <2>2 DEF PlanExit
    <3>2. proj.positions[i] \in Positions
      BY <1>0, <3>1 DEF IsOpen, MemoryInv, Projections
    <3>3. [token |-> proj.positions[i].token, side |-> Opposite(proj.positions[i].side),
           shares |-> proj.positions[i].shares,
           purpose |-> [kind |-> "Exit", position |-> i]] \in Plans
      BY <3>2 DEF Plans, Sides, Purposes, Positions, Opposite
    <3> QED BY <2>2, <3>1, <3>3 DEF PlanExit, Move, Callers
  <2> QED BY <2>1, <2>2
<1>2. UNCHANGED <<ledgerVars, breakerVars, owner, job, exchange>>
  BY DEF PlanEntry, PlanExit
<1>3. Records /\ ExchangeTypeOK' /\ LedgerInv'
  <2>1. Records
    BY <1>2 DEF Records, ledgerVars
  <2> QED BY <1>0, <2>1, MovesKept DEF Moves
<1>4. MemoryInv'
  BY <1>0, <1>2 DEF MemoryInv, ledgerVars, breakerVars
<1>5. /\ at'[c] = "Planned" /\ plan'[c] = plan1
      /\ \A d \in Callers : d # c => at'[d] = at[d] /\ plan'[d] = plan[d]
  BY <1>0, <1>1 DEF CallersTypeOK
<1>6. CallersTypeOK'
  <2>1. at' \in [Callers -> Steps \cup Exits] /\ plan' \in [Callers -> Plans \cup {None}]
    BY <1>0, <1>1 DEF CallersTypeOK, Steps
  <2>2. at[c] \notin Critical /\ at'[c] \notin Critical
    BY <1>1, <1>5 DEF Critical, Steps
  <2> QED BY <1>0, <1>2, <1>5, <2>1, <2>2 DEF CallersTypeOK, breakerVars
<1>7. BreakerInv'
  <2>1. \A d \in Callers : at[d] = "Halting" => at'[d] = "Halting"
    BY <1>1, <1>5
  <2> QED BY <1>0, <1>2, <2>1 DEF BreakerInv, BotRuns, ledgerVars, breakerVars
<1>8. ASSUME NEW d \in Callers PROVE CallerInv(d)'
  <2>1. CASE d = c
    BY <1>1, <1>5, <2>1 DEF CallerInv, InFlightSteps
  <2>2. CASE d # c
    <3>1. \A o : Fate(o)' = Fate(o)
      BY <1>2 DEF Fate
    <3> QED BY <1>0, <1>2, <1>5, <2>2, <3>1 DEF CallerInv, ledgerVars
  <2> QED BY <2>1, <2>2
<1> QED BY <1>3, <1>4, <1>6, <1>7, <1>8 DEF BotInv

\* A caller outside submit_fok that stays outside.
LEMMA OutsideKept ==
  ASSUME BotInv, NEW c \in Callers, at[c] \in {"Planned", "Queued"},
         NEW to \in {"Queued", "Idle", "Failed"}, Move(c, to),
         plan' = plan \/ (to = "Idle" /\ plan' = [plan EXCEPT ![c] = None]),
         UNCHANGED <<ledgerVars, breakerVars, owner, job, exchange>>
  PROVE  BotInv' /\ Records
<1>0. /\ ExchangeTypeOK /\ LedgerInv /\ MemoryInv /\ CallersTypeOK /\ BreakerInv
      /\ \A d \in Callers : CallerInv(d)
  BY DEF BotInv
<1>1. Records /\ ExchangeTypeOK' /\ LedgerInv'
  <2>1. Records
    BY DEF Records, ledgerVars
  <2> QED BY <1>0, <2>1, MovesKept DEF Moves
<1>2. MemoryInv'
  BY <1>0 DEF MemoryInv, ledgerVars, breakerVars
<1>3. /\ at'[c] = to /\ (to # "Idle" => plan'[c] = plan[c])
      /\ \A d \in Callers : d # c => at'[d] = at[d] /\ plan'[d] = plan[d]
  BY <1>0 DEF CallersTypeOK, Move
<1>4. CallersTypeOK'
  <2>1. at' \in [Callers -> Steps \cup Exits] /\ plan' \in [Callers -> Plans \cup {None}]
    BY <1>0 DEF CallersTypeOK, Steps, Exits, Move
  <2>2. at[c] \notin Critical /\ at'[c] \notin Critical
    BY <1>3 DEF Critical, Steps
  <2> QED BY <1>0, <1>3, <2>1, <2>2 DEF CallersTypeOK, breakerVars
<1>5. BreakerInv'
  <2>1. \A d \in Callers : at[d] = "Halting" => at'[d] = "Halting"
    BY <1>3
  <2>2. BotRuns
    BY <1>0 DEF BreakerInv
  <2> QED BY <1>0, <2>1, <2>2 DEF BreakerInv, BotRuns, ledgerVars, breakerVars
<1>6. ASSUME NEW d \in Callers PROVE CallerInv(d)'
  <2>1. CASE d = c
    BY <1>0, <1>3, <2>1 DEF CallerInv, InFlightSteps
  <2>2. CASE d # c
    <3>1. \A o : Fate(o)' = Fate(o)
      BY DEF Fate
    <3> QED BY <1>0, <1>3, <2>2, <3>1 DEF CallerInv, ledgerVars
  <2> QED BY <2>1, <2>2
<1> QED BY <1>1, <1>2, <1>4, <1>5, <1>6 DEF BotInv

\* Proceed: the trade is submitted or given up.
LEMMA ProceedKept ==
  ASSUME BotInv, NEW c \in Callers, Proceed(c)
  PROVE  BotInv' /\ Records
BY OutsideKept DEF Proceed

\* Enter: the lock, and a breaker that is not halted has nothing unresolved behind it.
LEMMA EnterKept ==
  ASSUME BotInv, NEW c \in Callers, Enter(c)
  PROVE  BotInv' /\ Records
<1>1. CASE EntersHalted
  BY <1>1, OutsideKept DEF Enter, breakerVars
<1>2. CASE ~ EntersHalted
  <2>0. /\ ExchangeTypeOK /\ LedgerInv /\ MemoryInv /\ CallersTypeOK /\ BreakerInv
        /\ \A d \in Callers : CallerInv(d)
    BY DEF BotInv
  <2>1. /\ at[c] = "Queued" /\ lock = None /\ at' = [at EXCEPT ![c] = "Checked"] /\ lock' = c
        /\ UNCHANGED <<ledgerVars, halted, marker, owner, plan, job, exchange>>
        /\ ~ halted
    BY <1>2 DEF Enter, EntersHalted, Move
  <2>2. BotRuns /\ disk.active = None
    BY <2>0, <2>1 DEF BreakerInv
  <2>3. /\ at'[c] = "Checked"
        /\ \A d \in Callers : d # c => at'[d] = at[d]
        /\ \A d \in Callers : at[d] \notin Critical
    BY <2>0, <2>1, CallersAssumption DEF CallersTypeOK
  <2>4. ~ fatal
    BY <2>0, <2>1, <2>2, <2>3 DEF BreakerInv, Critical, Steps
  <2>5. Records /\ ExchangeTypeOK' /\ LedgerInv'
    <3>1. Records
      BY <2>1 DEF Records, ledgerVars
    <3> QED BY <2>0, <3>1, MovesKept DEF Moves
  <2>6. MemoryInv'
    BY <2>0, <2>1 DEF MemoryInv, ledgerVars
  <2>7. CallersTypeOK'
    <3>1. "Checked" \in Critical /\ "Checked" \in Steps
      BY DEF Critical, Steps
    <3>2. at' \in [Callers -> Steps \cup Exits]
      BY <2>0, <2>1, <3>1 DEF CallersTypeOK
    <3> QED BY <2>0, <2>1, <2>3, <3>1, <3>2 DEF CallersTypeOK
  <2>8. BreakerInv'
    <3>1. lock' # None /\ fatal' = fatal /\ halted' = halted /\ disk' = disk /\ owner' = owner
      BY <2>1, CallersAssumption DEF ledgerVars
    <3> QED BY <2>0, <2>1, <2>2, <2>4, <3>1 DEF BreakerInv, BotRuns
  <2>9. ASSUME NEW d \in Callers PROVE CallerInv(d)'
    <3>1. CASE d = c
      BY <2>0, <2>1, <2>2, <2>3, <3>1 DEF CallerInv, InFlightSteps, ledgerVars
    <3>2. CASE d # c
      BY <2>0, <2>1, <2>3, <3>2, BystanderKept
    <3> QED BY <3>1, <3>2
  <2> QED BY <2>5, <2>6, <2>7, <2>8, <2>9 DEF BotInv
<1> QED BY <1>1, <1>2

\* A caller leaves submit_fok: nothing is unresolved behind it.
LEMMA FinishKept ==
  ASSUME BotInv, NEW c \in Callers, at[c] \in Critical, Finish(c), Records, MemoryInv',
         ~ fatal', disk'.active = None, disk'.cleanupPending = None,
         UNCHANGED <<halted, owner>>
  PROVE  BotInv'
<1>1. BotRuns /\ ~ halted /\ CallersTypeOK
  BY HolderAlone DEF BotInv
<1>2. /\ CallersTypeOK' /\ at'[c] = "Idle" /\ lock' = None
      /\ \A d \in Callers : d # c => at'[d] = at[d] /\ plan'[d] = plan[d]
  BY <1>1, MoveOut
<1>3. BreakerInv'
  BY <1>1, <1>2 DEF BreakerInv, BotRuns
<1>4. CallerInv(c)'
  BY <1>2 DEF CallerInv, InFlightSteps
<1> QED BY <1>2, <1>3, <1>4, HolderStep DEF Moves

\* Preflight: nothing was journaled.
LEMMA PreflightKept ==
  ASSUME BotInv, NEW c \in Callers, Preflight(c)
  PROVE  BotInv' /\ Records
<1>1. /\ at[c] = "Checked" /\ at[c] \in Critical /\ Finish(c)
      /\ UNCHANGED <<ledgerVars, halted, marker, owner, exchange>>
  BY DEF Preflight, Critical, Steps
<1>2. disk.active = None /\ disk.cleanupPending = None /\ ~ fatal
  BY <1>1, HolderAlone DEF BotInv, CallerInv
<1>3. Records
  BY <1>1 DEF Records, ledgerVars
<1>4. MemoryInv'
  BY <1>1 DEF BotInv, MemoryInv, ledgerVars
<1> QED BY <1>1, <1>2, <1>3, <1>4, FinishKept DEF ledgerVars

\* Prepare: the intent and the order are new, so the exchange does not know the order.
LEMMA PrepareKept ==
  ASSUME BotInv, NEW c \in Callers, Prepare(c)
  PROVE  BotInv' /\ Records
<1>1. PICK s \in Signed(c) :
        /\ job' = [job EXCEPT ![c] = s]
        /\ \/ AppendOk(StagePrepare(proj, s.intent, s.prepared)) /\ Move(c, "Prepared")
           \/ AppendErr(StagePrepare(proj, s.intent, s.prepared)) /\ Move(c, "Halting")
  BY DEF Prepare
<1> DEFINE i == s.intent
           prepared == s.prepared
           staged == StagePrepare(proj, i, prepared)
<1>2. /\ at[c] = "Checked" /\ at[c] \in Critical /\ at[c] # "Halting"
      /\ UNCHANGED <<halted, marker, lock, owner, plan, exchange>>
  BY DEF Prepare, breakerVars, Critical, Steps
<1>3. /\ BotRuns /\ owner # None /\ lock = c /\ lock # None /\ ~ halted
      /\ disk.cleanupPending = None /\ ~ fatal /\ proj = disk
  BY <1>2, HolderAlone
<1>4. /\ ExchangeTypeOK /\ LedgerInv /\ MemoryInv /\ CallersTypeOK /\ CallerInv(c)
      /\ disk \in Projections /\ Accords(disk) /\ OneSided(disk)
  BY DEF BotInv, LedgerInv, Holds
<1>5. /\ s \in Submissions /\ i \in Intents /\ prepared \in PreparedIntents
      /\ prepared.token = plan[c].token /\ prepared.side = plan[c].side
      /\ prepared.purpose = plan[c].purpose
      /\ disk.orderIntents[prepared.order] = None
  BY <1>3 DEF Signed, Submissions
<1>6. plan[c] \in Plans /\ (plan[c].purpose.kind = "Entry" => plan[c].side = "Buy")
  BY <1>2, <1>4 DEF CallerInv
<1>7. ~ Posted(prepared.order) /\ prepared.order \in Orders
  BY <1>4, <1>5 DEF Accords, PreparedIntents
<1> HIDE DEF i, prepared
<1>8. ASSUME NEW q \in Applied(disk, staged), proj = disk
      PROVE  Begun(disk, q, i, prepared) /\ EntryBuys(prepared) /\ TrueStep(disk, q)
  <2>1. Begun(disk, q, i, prepared)
    BY <1>4, <1>5, <1>8, PrepareStep
  <2>2. EntryBuys(prepared)
    <3>1. CASE prepared.purpose.kind = "Entry"
      BY <1>5, <1>6, <3>1 DEF EntryBuys
    <3>2. CASE prepared.purpose.kind # "Entry"
      <4>1. ExitAllowed(disk, prepared) /\ prepared.purpose.position \in Intents
        BY <1>5, <2>1, <3>2 DEF Begun, PreparedIntents, Purposes
      <4>2. Opposite(prepared.side) = "Buy"
        BY <1>4, <4>1 DEF ExitAllowed, IsOpen, OneSided, Opened
      <4>3. prepared.side \in {"Buy", "Sell"}
        BY <1>5 DEF PreparedIntents, Sides
      <4> QED BY <3>2, <4>2, <4>3 DEF EntryBuys, Opposite
    <3> QED BY <3>1, <3>2
  <2> QED BY <1>5, <2>1, <2>2 DEF TrueStep
<1> HIDE DEF staged
<1>9. /\ Moves /\ MemoryInv'
      /\ AppendOk(staged) => disk' \in Applied(disk, staged) /\ ~ fatal'
      /\ AppendErr(staged) => disk' = disk \/ disk' \in Applied(disk, staged)
  <2>1. AppendOk(staged) \/ AppendErr(staged)
    BY <1>1 DEF staged, i, prepared
  <2> QED BY <1>2, <1>3, <1>4, <1>8, <2>1, AppendMoves
<1>10. disk' = disk \/ Begun(disk, disk', i, prepared)
  BY <1>1, <1>3, <1>8, <1>9 DEF staged, i, prepared
<1>11. disk'.cleanupPending = None
  BY <1>3, <1>10 DEF Begun, Is
<1>12. Records
  BY <1>1, <1>2, <1>3, <1>8, <1>9 DEF Records, staged, i, prepared
<1>13. ASSUME NEW to \in {"Prepared", "Halting"}, Move(c, to)
       PROVE  /\ CallersTypeOK' /\ at'[c] = to /\ plan'[c] = plan[c] /\ job'[c] = s
              /\ \A d \in Callers : d # c => at'[d] = at[d] /\ plan'[d] = plan[d]
  <2>1. /\ at' = [at EXCEPT ![c] = to] /\ at \in [Callers -> Steps \cup Exits]
        /\ job' = [job EXCEPT ![c] = s] /\ job \in [Callers -> Submissions \cup {None}]
    BY <1>1, <1>4, <1>13 DEF Move, CallersTypeOK
  <2>2. to \in Critical /\ to \in Steps
    BY DEF Critical, Steps
  <2>3. at' \in [Callers -> Steps \cup Exits] /\ job' \in [Callers -> Submissions \cup {None}]
    BY <1>5, <2>1, <2>2
  <2>4. /\ at'[c] = to /\ job'[c] = s
        /\ \A d \in Callers : d # c => at'[d] = at[d]
    BY <2>1
  <2> QED BY <1>2, <1>4, <2>2, <2>3, <2>4 DEF CallersTypeOK
<1>14. CASE AppendOk(staged) /\ Move(c, "Prepared")
  <2>1. /\ CallersTypeOK' /\ at'[c] = "Prepared" /\ plan'[c] = plan[c] /\ job'[c] = s
        /\ \A d \in Callers : d # c => at'[d] = at[d] /\ plan'[d] = plan[d]
    BY <1>13, <1>14
  <2>2. BreakerInv'
    BY <1>2, <1>3, <1>9, <1>11, <1>14 DEF BreakerInv, BotRuns
  <2>3. CallerInv(c)'
    <3>1. disk'.active = Fresh(i, prepared)
      BY <1>3, <1>8, <1>9, <1>14 DEF Begun, Is
    <3>2. Fresh(i, prepared) \in ActiveIntents /\ Fresh(i, prepared) # None
      BY <1>5, NoneAssumption
         DEF Fresh, ActiveIntents, ActiveIntentStates, Evidence, Outcomes
    <3>3. /\ disk'.active # None /\ disk'.active.intent = i
          /\ disk'.active.prepared = prepared /\ disk'.active.state = StateAt("Prepared")
      BY <3>1, <3>2 DEF Fresh, StateAt
    <3>4. Fate(prepared.order)' \in FatesAt("Prepared")
      BY <1>2, <1>7 DEF Fate, FatesAt, Posted
    <3> QED BY <1>2, <1>5, <1>6, <2>1, <3>3, <3>4 DEF CallerInv, i, prepared
  <2> QED BY <1>2, <1>9, <1>12, <2>1, <2>2, <2>3, HolderStep
<1>15. CASE AppendErr(staged) /\ Move(c, "Halting")
  <2>1. /\ CallersTypeOK' /\ at'[c] = "Halting" /\ plan'[c] = plan[c]
        /\ \A d \in Callers : d # c => at'[d] = at[d] /\ plan'[d] = plan[d]
    BY <1>13, <1>15
  <2>2. BreakerInv'
    BY <1>2, <1>3, <1>11, <2>1 DEF BreakerInv, BotRuns
  <2>3. CallerInv(c)'
    BY <1>6, <2>1 DEF CallerInv, InFlightSteps
  <2> QED BY <1>2, <1>9, <1>12, <2>1, <2>2, <2>3, HolderStep
<1> QED BY <1>1, <1>14, <1>15 DEF staged, i, prepared

\* What a caller with an intent in flight knows of the ledger.
LEMMA InFlightFacts ==
  ASSUME BotInv, NEW c \in Callers, at[c] \in InFlightSteps
  PROVE  /\ at[c] \in Critical /\ disk.active # None /\ disk.active.intent = job[c].intent
         /\ disk.active.prepared = job[c].prepared /\ disk.active.state = StateAt(at[c])
         /\ Fate(job[c].prepared.order) \in FatesAt(at[c])
         /\ job[c].intent \in Intents /\ job[c].prepared \in PreparedIntents
         /\ job[c].prepared.order \in Orders
         /\ job[c].prepared.token = plan[c].token /\ job[c].prepared.side = plan[c].side
         /\ job[c].prepared.purpose = plan[c].purpose
         /\ disk \in Projections /\ Accords(disk)
<1>1. at[c] \in Critical
  BY DEF InFlightSteps, Critical, Steps
<1>2. CallerInv(c) /\ disk \in Projections /\ Accords(disk)
  BY DEF BotInv, LedgerInv
<1> QED BY <1>1, <1>2 DEF CallerInv, Submissions, PreparedIntents

\* Start: SubmitStarted.
LEMMA StartKept ==
  ASSUME BotInv, NEW c \in Callers, Start(c)
  PROVE  BotInv' /\ Records
<1> DEFINE staged == StageSubmitStarted(proj, job[c].intent)
<1>1. at[c] = "Prepared" /\ at[c] \in InFlightSteps /\ "Started" \in InFlightSteps
  BY DEF Start, Journal, InFlightSteps
<1>2. ASSUME NEW q \in Applied(disk, staged), proj = disk
      PROVE  TrueStep(disk, q) /\ Onward(disk, q) /\ q.active.state = StateAt("Started")
  <2>1. \E a : Advanced(disk, q, a)
    BY <1>1, <1>2, InFlightFacts, PlainSteps
  <2>2. TrueStep(disk, q)
    BY <1>1, <1>2, InFlightFacts, PlainTrue
  <2>3. q.active.state = "SubmitStarted"
    BY <1>1, <1>2, InFlightFacts, PlainRecords DEF Became
  <2> QED BY <2>1, <2>2, <2>3 DEF Onward, StateAt
<1>3. FatesAt("Prepared") \subseteq FatesAt("Started")
  BY DEF FatesAt
<1>4. Journal(c, "Prepared", staged, "Started")
  BY DEF Start
<1> HIDE DEF staged
<1> QED BY <1>1, <1>2, <1>3, <1>4, JournalKept

\* RecordMatch: the exchange has filled the order.
LEMMA RecordMatchKept ==
  ASSUME BotInv, NEW c \in Callers, RecordMatch(c)
  PROVE  BotInv' /\ Records
<1> DEFINE staged == StageRemoteMatched(proj, job[c].intent, Receipt(c))
<1>1. at[c] = "Matched" /\ at[c] \in InFlightSteps /\ "Booking" \in InFlightSteps
  BY DEF RecordMatch, Journal, InFlightSteps
<1>2. HasFate(disk.active.prepared.order, "Filled")
  BY <1>1, InFlightFacts DEF FatesAt, Fate, HasFate, Posted
<1>3. ASSUME NEW q \in Applied(disk, staged), proj = disk
      PROVE  TrueStep(disk, q) /\ Onward(disk, q) /\ q.active.state = StateAt("Booking")
  <2>1. Receipt(c) \in MatchedAmounts
    BY <1>3, <1>1, InFlightFacts, MatchedOrderAmounts DEF Applied, StageRemoteMatched, When
  <2>2. \E a : Advanced(disk, q, a)
    BY <1>1, <1>3, <2>1, InFlightFacts, RemoteMatchedStep
  <2>3. TrueStep(disk, q)
    BY <1>1, <1>2, <1>3, InFlightFacts, RemoteMatchedTrue
  <2>4. q.active.state = "RemoteMatched"
    BY <1>1, <1>3, InFlightFacts, RemoteMatchedRecord
  <2> QED BY <2>2, <2>3, <2>4 DEF Onward, StateAt
<1>4. FatesAt("Matched") \subseteq FatesAt("Booking")
  BY DEF FatesAt
<1>5. Journal(c, "Matched", staged, "Booking")
  BY DEF RecordMatch
<1> HIDE DEF staged
<1> QED BY <1>1, <1>3, <1>4, <1>5, JournalKept

\* Book: the position of the fill.
LEMMA BookKept ==
  ASSUME BotInv, NEW c \in Callers, Book(c)
  PROVE  BotInv' /\ Records
<1> DEFINE staged == IF plan[c].purpose.kind = "Entry" THEN Opening(c) ELSE Closing(c)
<1>1. at[c] = "Booking" /\ at[c] \in InFlightSteps /\ "Booked" \in InFlightSteps
  BY DEF Book, Journal, InFlightSteps
<1>2. /\ disk \in Projections /\ disk.active.state = "RemoteMatched"
      /\ disk.active.intent \in Intents
  BY <1>1, InFlightFacts DEF StateAt
<1>3. ASSUME NEW q \in Applied(disk, staged), proj = disk
      PROVE  TrueStep(disk, q) /\ Onward(disk, q) /\ q.active.state = StateAt("Booked")
  <2>1. \/ \E position : OpenBooked(disk, q, position)
        \/ \E target, closing : CloseBooked(disk, q, target, closing)
    <3>1. CASE plan[c].purpose.kind = "Entry"
      <4>1. q \in Applied(disk, Opening(c)) /\ q \notin Applied(disk, {})
        BY <1>3, <3>1 DEF Applied
      <4>2. q \in Applied(disk, StageOpenPosition(disk, disk.active.intent,
              [order |-> job[c].prepared.order, token |-> plan[c].token, side |-> plan[c].side,
               seed |-> plan[c].purpose.seed, shares |-> Receipt(c).shares,
               usd |-> Receipt(c).usd, closing |-> None]))
        BY <1>3, <4>1 DEF Opening
      <4> QED BY <1>2, <4>2, PositionSteps
    <3>2. CASE plan[c].purpose.kind # "Entry"
      <4>1. q \in Applied(disk, Closing(c)) /\ q \notin Applied(disk, {})
        BY <1>3, <3>2 DEF Applied
      <4>2. q \in Applied(disk, StageClosePosition(disk, disk.active.intent,
              plan[c].purpose.position,
              [intent |-> job[c].intent, order |-> job[c].prepared.order,
               shares |-> Receipt(c).shares, usd |-> Receipt(c).usd]))
        BY <1>3, <4>1 DEF Closing
      <4> QED BY <1>2, <4>2, PositionSteps
    <3> QED BY <3>1, <3>2
  <2>2. q.active.state = "PositionRecorded"
    BY <1>2, <2>1, RecordedRecord DEF RecordedState
  <2> QED BY <2>1, <2>2 DEF TrueStep, Onward, StateAt
<1>4. FatesAt("Booking") \subseteq FatesAt("Booked")
  BY DEF FatesAt
<1>5. Journal(c, "Booking", staged, "Booked")
  BY DEF Book
<1> HIDE DEF staged
<1> QED BY <1>1, <1>3, <1>4, <1>5, JournalKept

\* RecordReject: the exchange has killed the order.
LEMMA RecordRejectKept ==
  ASSUME BotInv, NEW c \in Callers, RecordReject(c)
  PROVE  BotInv' /\ Records
<1> DEFINE staged == StageRemoteRejected(proj, job[c].intent)
<1>1. at[c] = "Rejected" /\ at[c] \in InFlightSteps /\ "Dropping" \in InFlightSteps
  BY DEF RecordReject, Journal, InFlightSteps
<1>2. HasFate(disk.active.prepared.order, "Killed")
  BY <1>1, InFlightFacts DEF FatesAt, Fate, HasFate, Posted
<1>3. ASSUME NEW q \in Applied(disk, staged), proj = disk
      PROVE  TrueStep(disk, q) /\ Onward(disk, q) /\ q.active.state = StateAt("Dropping")
  <2>1. \E a : Advanced(disk, q, a)
    BY <1>1, <1>3, InFlightFacts, RemoteRejectedStep
  <2>2. TrueStep(disk, q)
    BY <1>1, <1>2, <1>3, InFlightFacts, RemoteRejectedTrue
  <2>3. q.active.state = "RemoteRejected"
    BY <1>1, <1>3, InFlightFacts, RemoteRejectedRecord
  <2> QED BY <2>1, <2>2, <2>3 DEF Onward, StateAt
<1>4. FatesAt("Rejected") \subseteq FatesAt("Dropping")
  BY DEF FatesAt
<1>5. Journal(c, "Rejected", staged, "Dropping")
  BY DEF RecordReject
<1> HIDE DEF staged
<1> QED BY <1>1, <1>3, <1>4, <1>5, JournalKept

\* RecordUncertain: nothing is claimed, and the breaker halts.
LEMMA RecordUncertainKept ==
  ASSUME BotInv, NEW c \in Callers, RecordUncertain(c)
  PROVE  BotInv' /\ Records
<1> DEFINE staged == StageRemoteUncertain(proj, job[c].intent)
<1>1. at[c] = "Uncertain" /\ at[c] \in InFlightSteps
  BY DEF RecordUncertain, Journal, InFlightSteps
<1>2. ASSUME NEW q \in Applied(disk, staged), proj = disk
      PROVE  TrueStep(disk, q) /\ Onward(disk, q)
  <2>1. \E a : Advanced(disk, q, a)
    BY <1>1, <1>2, InFlightFacts, PlainSteps
  <2>2. TrueStep(disk, q)
    BY <1>1, <1>2, InFlightFacts, PlainTrue
  <2> QED BY <2>1, <2>2 DEF Onward
<1>3. Journal(c, "Uncertain", staged, "Halting")
  BY DEF RecordUncertain
<1> HIDE DEF staged
<1> QED BY <1>1, <1>2, <1>3, JournalKept

\* CommitFill, CommitNoFill: the intent leaves flight with its fate in the book.
LEMMA CommitKept ==
  ASSUME BotInv, NEW c \in Callers, NEW from, NEW expected,
         \/ from = "Booked" /\ expected = "PositionRecorded"
         \/ from = "Dropping" /\ expected = "RemoteRejected",
         Commit(c, from, expected)
  PROVE  BotInv' /\ Records
<1> DEFINE staged == StageClear(proj, job[c].intent, expected)
<1>1. /\ at[c] = from /\ at[c] \in InFlightSteps /\ at[c] \in Critical /\ at[c] # "Halting"
      /\ (AppendOk(staged) /\ Finish(c))
         \/ (AppendErr(staged) /\ Move(c, "Halting") /\ UNCHANGED <<plan, job, lock>>)
      /\ UNCHANGED <<halted, marker, owner, exchange>>
  BY DEF Commit, InFlightSteps, Critical, Steps
<1>2. /\ BotRuns /\ owner # None /\ lock = c /\ lock # None /\ ~ halted
      /\ disk.cleanupPending = None /\ ~ fatal /\ proj = disk
  BY <1>1, HolderAlone
<1>3. /\ ExchangeTypeOK /\ LedgerInv /\ MemoryInv /\ CallersTypeOK /\ CallerInv(c)
      /\ disk \in Projections /\ job[c].intent \in Intents
  BY <1>1, InFlightFacts DEF BotInv
<1>4. ASSUME NEW q \in Applied(disk, staged), proj = disk
      PROVE  TrueStep(disk, q) /\ q.active = None /\ q.cleanupPending = disk.cleanupPending
  <2>1. TrueStep(disk, q)
    BY <1>3, <1>4, SettlingTrue
  <2>2. q = [[disk EXCEPT !.active = None] EXCEPT !.sequence = disk.sequence + 1]
    BY <1>4 DEF Applied, StageClear, When
  <2> QED BY <1>3, <2>1, <2>2 DEF Projections
<1> HIDE DEF staged
<1>5. /\ Moves /\ MemoryInv'
      /\ AppendOk(staged) => disk' \in Applied(disk, staged) /\ ~ fatal'
      /\ AppendErr(staged) => disk' = disk \/ disk' \in Applied(disk, staged)
  BY <1>1, <1>2, <1>3, <1>4, AppendMoves
<1>6. disk' = disk \/ disk' \in Applied(disk, staged)
  BY <1>1, <1>5
<1>7. Records
  BY <1>1, <1>2, <1>4, <1>6 DEF Records
<1>8. CASE AppendOk(staged) /\ Finish(c)
  <2>1. ~ fatal' /\ disk'.active = None /\ disk'.cleanupPending = None
    BY <1>2, <1>4, <1>5, <1>8
  <2> QED BY <1>1, <1>5, <1>7, <1>8, <2>1, FinishKept
<1>9. CASE AppendErr(staged) /\ Move(c, "Halting") /\ UNCHANGED <<plan, job, lock>>
  <2>1. /\ CallersTypeOK' /\ at'[c] = "Halting" /\ plan'[c] = plan[c]
        /\ \A d \in Callers : d # c => at'[d] = at[d] /\ plan'[d] = plan[d]
    <3>1. "Halting" \in Critical
      BY DEF Critical, Steps
    <3> QED BY <1>1, <1>3, <1>9, <3>1, MoveInside
  <2>2. disk'.cleanupPending = None
    BY <1>2, <1>4, <1>6
  <2>3. BreakerInv'
    BY <1>1, <1>2, <1>9, <2>1, <2>2 DEF BreakerInv, BotRuns
  <2>4. CallerInv(c)'
    BY <1>1, <1>3, <2>1 DEF CallerInv, InFlightSteps
  <2> QED BY <1>1, <1>5, <1>7, <2>1, <2>3, <2>4, HolderStep
<1> QED BY <1>1, <1>8, <1>9

\* A step inside submit_fok that leaves the ledger and the breaker alone.
LEMMA InsideKept ==
  ASSUME BotInv, NEW c \in Callers, at[c] \in InFlightSteps, NEW to \in InFlightSteps,
         Move(c, to), UNCHANGED <<ledgerVars, breakerVars, owner, plan, job>>,
         Moves, StateAt(to) = StateAt(at[c]), Fate(job[c].prepared.order)' \in FatesAt(to)
  PROVE  BotInv'
<1>1. /\ at[c] \in Critical /\ to \in Critical /\ CallersTypeOK
      /\ UNCHANGED <<disk, proj, opens, fatal, halted, marker, lock, owner, plan, job>>
      /\ to # "Checked" /\ to # "Idle" /\ at[c] # "Idle" /\ at[c] # "Halting"
  <2>1. /\ InFlightSteps \subseteq Critical
        /\ InFlightSteps \cap {"Checked", "Idle", "Halting"} = {}
    BY DEF InFlightSteps, Critical, Steps
  <2> QED BY <2>1 DEF ledgerVars, breakerVars, BotInv
<1>2. /\ CallersTypeOK' /\ at'[c] = to /\ plan'[c] = plan[c] /\ job'[c] = job[c]
      /\ \A d \in Callers : d # c => at'[d] = at[d] /\ plan'[d] = plan[d]
  BY <1>1, MoveInside
<1>3. MemoryInv'
  BY <1>1 DEF BotInv, MemoryInv
<1>4. BreakerInv'
  BY <1>1, HolderAlone DEF BotInv, BreakerInv, BotRuns
<1>5. CallerInv(c)'
  BY <1>1, <1>2 DEF BotInv, CallerInv
<1> QED BY <1>1, <1>2, <1>3, <1>4, <1>5, HolderStep

\* Post: the order of the intent in flight leaves, once.
LEMMA PostedKept ==
  ASSUME BotInv, NEW c \in Callers, Post(c)
  PROVE  BotInv' /\ Sends /\ ~ halted
<1>1. /\ at[c] = "Started" /\ at[c] \in InFlightSteps /\ Move(c, "Posted")
      /\ UNCHANGED <<ledgerVars, breakerVars, owner, plan, job>>
      /\ "Posted" \in InFlightSteps
      /\ exchange' = [exchange EXCEPT ![job[c].prepared.order] =
                        [fate |-> "InFlight", token |-> plan[c].token, side |-> plan[c].side]]
  BY DEF Post, InFlightSteps
<1>2. /\ disk.active # None /\ disk.active.state = "SubmitStarted"
      /\ disk.active.prepared = job[c].prepared
      /\ job[c].prepared.token = plan[c].token /\ job[c].prepared.side = plan[c].side
      /\ job[c].prepared.order \in Orders /\ job[c].prepared \in PreparedIntents
  BY <1>1, InFlightFacts DEF StateAt
<1>3. exchange[job[c].prepared.order] = None
  <2>1. Fate(job[c].prepared.order) = "Unsent"
    BY <1>1, InFlightFacts DEF FatesAt
  <2>2. exchange[job[c].prepared.order] \in Sent \cup {None}
    BY <1>2 DEF BotInv, ExchangeTypeOK
  <2> QED BY <2>1, <2>2 DEF Fate, Sent
<1>4. Sends
  BY <1>1, <1>2, <1>3 DEF Sends, ledgerVars
<1>5. Fate(job[c].prepared.order)' \in FatesAt("Posted")
  <2> DEFINE sent == [fate |-> "InFlight", token |-> plan[c].token, side |-> plan[c].side]
  <2>1. sent \in Sent
    BY <1>2 DEF Sent, PreparedIntents
  <2>2. exchange'[job[c].prepared.order] = sent /\ job' = job
    BY <1>1, <1>2 DEF BotInv, ExchangeTypeOK
  <2>3. Fate(job[c].prepared.order)' = "InFlight"
    BY <2>1, <2>2, AccessAssumption DEF Fate
  <2> QED BY <2>3 DEF FatesAt
<1>6. StateAt("Posted") = StateAt(at[c])
  BY <1>1 DEF StateAt
<1>7. BotInv'
  BY <1>1, <1>4, <1>5, <1>6, InsideKept DEF Moves
<1> QED BY <1>1, <1>4, <1>7, InFlightFacts, HolderAlone

\* Answer: what is made of the response agrees with the fate of the order.
LEMMA AnswerKept ==
  ASSUME BotInv, NEW c \in Callers, Answer(c)
  PROVE  BotInv' /\ Records
<1> DEFINE o == job[c].prepared.order
<1>1. /\ at[c] = "Posted" /\ at[c] \in InFlightSteps
      /\ UNCHANGED <<ledgerVars, breakerVars, owner, plan, job, exchange>>
  BY DEF Answer, InFlightSteps
<1>2. PICK result \in Answers(exchange[o].fate) : Move(c, result)
  BY DEF Answer
<1>3. exchange[o].fate = Fate(o) /\ Fate(o) \in {"InFlight", "Filled", "Killed"}
  BY <1>1, InFlightFacts DEF FatesAt, Fate
<1>4. /\ result \in {"Uncertain", "Matched", "Rejected"}
      /\ result = "Matched" => Fate(o) = "Filled"
      /\ result = "Rejected" => Fate(o) = "Killed"
  BY <1>2, <1>3 DEF Answers
<1>5. Fate(o)' = Fate(o)
  BY <1>1 DEF Fate
<1>6. /\ result \in InFlightSteps /\ StateAt(result) = StateAt(at[c])
      /\ Fate(o)' \in FatesAt(result)
  BY <1>1, <1>3, <1>4, <1>5 DEF InFlightSteps, StateAt, FatesAt
<1>7. Records
  BY <1>1 DEF Records, ledgerVars
<1> QED BY <1>1, <1>2, <1>6, <1>7, InsideKept DEF Moves

\* Halt: the flag, and the marker if its file can be written.
LEMMA HaltKept ==
  ASSUME BotInv, NEW c \in Callers, Halt(c)
  PROVE  BotInv' /\ Records
<1>0. /\ ExchangeTypeOK /\ LedgerInv /\ MemoryInv /\ CallersTypeOK /\ BreakerInv
      /\ \A d \in Callers : CallerInv(d)
  BY DEF BotInv
<1>1. /\ at[c] = "Halting" /\ at[c] \in Critical
      /\ halted' = TRUE /\ marker' \in {marker, TRUE} /\ lock' = None
      /\ at' = [at EXCEPT ![c] = "Failed"]
      /\ UNCHANGED <<ledgerVars, owner, plan, job, exchange>>
      /\ UNCHANGED <<proj, disk, opens, fatal>>
  BY DEF Halt, Move, ledgerVars, Critical, Steps
<1>2. BotRuns /\ disk.cleanupPending = None /\ \A d \in Callers : d # c => at[d] \notin Critical
  BY <1>1, HolderAlone
<1>3. Records
  BY <1>1 DEF Records
<1>4. /\ at'[c] = "Failed"
      /\ \A d \in Callers : d # c => at'[d] = at[d]
  BY <1>0, <1>1 DEF CallersTypeOK
<1>5. CallersTypeOK'
  <2>1. at' \in [Callers -> Steps \cup Exits]
    BY <1>0, <1>1 DEF CallersTypeOK, Exits
  <2>2. "Failed" \notin Critical
    BY DEF Critical, Steps
  <2> QED BY <1>0, <1>1, <1>2, <1>4, <2>1, <2>2, CallersAssumption DEF CallersTypeOK
<1>6. MemoryInv'
  <2>1. ({opens, fatal, halted, marker} \subseteq BOOLEAN)'
    BY <1>0, <1>1 DEF MemoryInv
  <2> QED BY <1>0, <1>1, <2>1 DEF MemoryInv
<1>7. BreakerInv'
  BY <1>1, <1>2 DEF BreakerInv, BotRuns
<1>8. CallerInv(c)'
  BY <1>0, <1>1, <1>4 DEF CallerInv, InFlightSteps
<1> QED BY <1>1, <1>3, <1>4, <1>5, <1>6, <1>7, <1>8, HolderStep DEF Moves

\* Exit and Crash: the process is gone, with its memory.
LEMMA DownKept ==
  ASSUME BotInv, Down, marker' \in {marker, FALSE}
  PROVE  BotInv' /\ Records
<1>1. /\ owner' = None /\ proj' = EmptyProjection /\ fatal' = FALSE /\ halted' = FALSE
      /\ lock' = None /\ at' = [c \in Callers |-> "Idle"]
      /\ plan' = [c \in Callers |-> None] /\ job' = [c \in Callers |-> None]
      /\ UNCHANGED <<disk, opens, exchange>>
  BY DEF Down, CloseLedger
<1>2. Records
  BY <1>1 DEF Records
<1>3. ExchangeTypeOK' /\ LedgerInv'
  BY <1>2, MovesKept DEF BotInv, Moves
<1>4. MemoryInv'
  <2>1. EmptyProjection \in Projections
    BY SequenceAssumption DEF EmptyProjection, Projections
  <2>2. ({opens, fatal, halted, marker} \subseteq BOOLEAN)'
    BY <1>1 DEF BotInv, MemoryInv
  <2> QED BY <1>1, <2>1, <2>2 DEF MemoryInv
<1>5. ~ BotRuns'
  BY <1>1, AccessAssumption DEF BotRuns, Processes
<1>6. CallersTypeOK' /\ BreakerInv'
  <2>1. "Idle" \in Steps \cup Exits /\ "Idle" \notin Critical
    BY DEF Exits, Steps, Critical
  <2> QED BY <1>1, <1>5, <2>1, CallersAssumption DEF CallersTypeOK, BreakerInv
<1>7. ASSUME NEW c \in Callers PROVE CallerInv(c)'
  BY <1>1 DEF CallerInv, InFlightSteps
<1> QED BY <1>2, <1>3, <1>4, <1>6, <1>7 DEF BotInv

\* Restart: nothing is unresolved.
LEMMA RestartKept ==
  ASSUME BotInv, Restart
  PROVE  BotInv' /\ Records
<1>0. /\ ExchangeTypeOK /\ LedgerInv /\ MemoryInv /\ CallersTypeOK /\ BreakerInv
      /\ \A c \in Callers : CallerInv(c)
  BY DEF BotInv
<1>1. /\ disk.active = None /\ disk.cleanupPending = None
      /\ owner = None /\ owner' = "bot" /\ proj' = disk
      /\ UNCHANGED <<disk, opens, fatal, halted, marker, lock, at, plan, job, exchange>>
  BY DEF Restart, MayStart, OpenLedger, breakerVars, callerVars
<1>2. ~ BotRuns /\ BotRuns' /\ ~ fatal /\ ~ halted /\ lock = None
      /\ \A c \in Callers : at[c] = "Idle"
  BY <1>0, <1>1, AccessAssumption DEF BotRuns, Processes, BreakerInv, MemoryInv
<1>3. Records
  BY <1>1 DEF Records
<1>4. ExchangeTypeOK' /\ LedgerInv'
  BY <1>0, <1>3, MovesKept DEF Moves
<1>5. MemoryInv'
  <2>1. ({opens, fatal, halted, marker} \subseteq BOOLEAN)'
    BY <1>0, <1>1 DEF MemoryInv
  <2>2. owner' \in Processes
    BY <1>1 DEF Processes
  <2> QED BY <1>0, <1>1, <2>1, <2>2, AccessAssumption DEF MemoryInv, LedgerInv
<1>6. CallersTypeOK' /\ BreakerInv'
  BY <1>0, <1>1, <1>2 DEF CallersTypeOK, BreakerInv
<1>7. ASSUME NEW c \in Callers PROVE CallerInv(c)'
  BY <1>1, <1>2 DEF CallerInv, InFlightSteps
<1> QED BY <1>3, <1>4, <1>5, <1>6, <1>7 DEF BotInv

\* The exchange decides an order, or kills one it was asked to cancel: only callers that wait
\* for it are concerned.
LEMMA ExchangeDecides ==
  ASSUME BotInv, Decides, UNCHANGED <<proj, opens, fatal, owner, botIdle>>,
         marker' = marker
  PROVE  BotInv'
<1>0. /\ ExchangeTypeOK /\ LedgerInv /\ MemoryInv /\ CallersTypeOK /\ BreakerInv
      /\ \A c \in Callers : CallerInv(c)
  BY DEF BotInv
<1>1. /\ UNCHANGED <<proj, disk, opens, fatal, owner, halted, lock, at, plan, job, marker>>
  BY DEF Decides, botIdle, callerVars
<1>2. ExchangeTypeOK' /\ LedgerInv'
  BY <1>0, MovesKept DEF Moves
<1>3. MemoryInv' /\ CallersTypeOK' /\ BreakerInv'
  BY <1>0, <1>1 DEF MemoryInv, CallersTypeOK, BreakerInv, BotRuns
<1>4. PICK o \in Orders, fate \in {"Filled", "Killed"} :
        HasFate(o, "InFlight") /\ exchange' = [exchange EXCEPT ![o].fate = fate]
  BY DEF Decides
<1>5. /\ Fate(o) = "InFlight" /\ Fate(o)' \in {"Filled", "Killed"}
      /\ \A x \in Orders : x # o => Fate(x)' = Fate(x)
  <2>1. /\ exchange[o] # None /\ exchange[o].fate = "InFlight" /\ Posted(o)
        /\ exchange' = [exchange EXCEPT ![o].fate = fate]
    BY <1>4 DEF HasFate, Posted
  <2>2. /\ exchange'[o] # None /\ exchange'[o].fate = fate
        /\ \A x \in Orders : x # o => exchange'[x] = exchange[x]
    BY <1>0, <2>1, DecidedOrder
  <2> QED BY <2>1, <2>2 DEF Fate
<1>6. ASSUME NEW c \in Callers PROVE CallerInv(c)'
  <2>1. ASSUME at[c] \in InFlightSteps
        PROVE  Fate(job[c].prepared.order)' \in FatesAt(at[c])
    <3>1. /\ Fate(job[c].prepared.order) \in FatesAt(at[c])
          /\ job[c].prepared.order \in Orders
      BY <2>1, InFlightFacts
    <3>2. CASE job[c].prepared.order = o
      BY <1>1, <1>5, <3>1, <3>2 DEF FatesAt
    <3>3. CASE job[c].prepared.order # o
      BY <1>1, <1>5, <3>1, <3>3
    <3> QED BY <3>2, <3>3
  <2> QED BY <1>0, <1>1, <2>1 DEF CallerInv
<1> QED BY <1>2, <1>3, <1>6 DEF BotInv

\* Decide is such a decision.
LEMMA DecideDecides ==
  ASSUME NEW o \in Orders, Decide(o)
  PROVE  Decides /\ UNCHANGED <<proj, opens, fatal, owner>> /\ marker' = marker
BY DEF Decide, Decides, HasFate, Posted, ledgerVars

-----------------------------------------------------------------------------
(* The bot as a whole *)

\* Submit: a step of a caller, from the lookups to the halt.
LEMMA SubmitKept ==
  ASSUME BotInv, NEW c \in Callers, Submit(c)
  PROVE  /\ BotInv' /\ (Records \/ (Sends /\ ~ halted))
         /\ BotRuns /\ owner' = owner
<1>1. CASE Proceed(c)
  <2>1. BotInv' /\ Records
    BY <1>1, ProceedKept
  <2>2. at[c] # "Idle" /\ owner' = owner
    BY <1>1 DEF Proceed
  <2> QED BY <2>1, <2>2 DEF BotInv, BreakerInv
<1>2. CASE Enter(c)
  <2>1. BotInv' /\ Records
    BY <1>2, EnterKept
  <2>2. at[c] # "Idle" /\ owner' = owner
    BY <1>2 DEF Enter
  <2> QED BY <2>1, <2>2 DEF BotInv, BreakerInv
<1>3. CASE Post(c)
  <2>1. BotInv' /\ Sends /\ ~ halted
    BY <1>3, PostedKept
  <2>2. at[c] # "Idle" /\ owner' = owner
    BY <1>3 DEF Post
  <2> QED BY <2>1, <2>2 DEF BotInv, BreakerInv
<1>4. CASE Preflight(c) \/ Prepare(c) \/ Answer(c) \/ Halt(c)
  <2>1. BotInv' /\ Records
    BY <1>4, PreflightKept, PrepareKept, AnswerKept, HaltKept
  <2>2. at[c] # "Idle" /\ owner' = owner
    BY <1>4 DEF Preflight, Prepare, Answer, Halt
  <2> QED BY <2>1, <2>2 DEF BotInv, BreakerInv
<1>5. CASE Start(c) \/ RecordMatch(c) \/ Book(c) \/ RecordReject(c) \/ RecordUncertain(c)
  <2>1. BotInv' /\ Records
    BY <1>5, StartKept, RecordMatchKept, BookKept, RecordRejectKept, RecordUncertainKept
  <2>2. at[c] # "Idle" /\ owner' = owner
    BY <1>5 DEF Start, RecordMatch, Book, RecordReject, RecordUncertain, Journal
  <2> QED BY <2>1, <2>2 DEF BotInv, BreakerInv
<1>6. CASE CommitFill(c) \/ CommitNoFill(c)
  <2>1. \/ Commit(c, "Booked", "PositionRecorded") \/ Commit(c, "Dropping", "RemoteRejected")
    BY <1>6 DEF CommitFill, CommitNoFill
  <2>2. BotInv' /\ Records
    BY <2>1, CommitKept
  <2>3. at[c] # "Idle" /\ owner' = owner
    BY <2>1 DEF Commit
  <2> QED BY <2>2, <2>3 DEF BotInv, BreakerInv
<1> QED BY <1>1, <1>2, <1>3, <1>4, <1>5, <1>6 DEF Submit

\* Exit and Crash are such an end of the process.
LEMMA EndsDown ==
  ASSUME (\E c \in Callers : Exit(c)) \/ Crash
  PROVE  BotRuns /\ Down /\ marker' \in {marker, FALSE} /\ owner' = None
BY DEF Exit, Crash, Down, CloseLedger

\* A step of the bot.  It starts with nothing unresolved, and only a start changes who runs.
LEMMA BotStep ==
  ASSUME BotInv, BotNext
  PROVE  /\ BotInv' /\ (Records \/ (Sends /\ ~ halted))
         /\ owner # "recovery" /\ owner' # "recovery"
         /\ BotRuns \/ (Restart /\ disk' = disk)
<1>1. CASE PlanEntry \/ PlanExit
  <2>1. BotRuns /\ owner' = owner
    BY <1>1 DEF PlanEntry, PlanExit
  <2> QED BY <1>1, <2>1, PlanKept DEF BotRuns
<1>2. ASSUME NEW c \in Callers, Submit(c)
      PROVE  /\ BotInv' /\ (Records \/ (Sends /\ ~ halted))
             /\ owner # "recovery" /\ owner' # "recovery" /\ BotRuns
  BY <1>2, SubmitKept DEF BotRuns
<1>3. CASE (\E c \in Callers : Exit(c)) \/ Crash
  BY <1>3, EndsDown, DownKept, AccessAssumption DEF BotRuns, Processes
<1>4. CASE Restart
  <2>1. owner = None /\ owner' = "bot" /\ disk' = disk
    BY <1>4 DEF Restart, OpenLedger
  <2> QED BY <1>4, <2>1, RestartKept, AccessAssumption DEF Processes
<1> QED BY <1>1, <1>2, <1>3, <1>4 DEF BotNext, Trading

\* Nothing changes.
LEMMA BotStutter ==
  ASSUME BotInv, UNCHANGED liveVars
  PROVE  BotInv' /\ Records
<1>1. UNCHANGED <<proj, disk, opens, fatal, halted, marker, lock, owner, at, plan, job, exchange>>
  BY DEF liveVars, ledgerVars, breakerVars, callerVars
<1>2. Records
  BY <1>1 DEF Records
<1>3. ExchangeTypeOK' /\ LedgerInv'
  BY <1>2, MovesKept DEF BotInv, Moves
<1>4. MemoryInv' /\ CallersTypeOK' /\ BreakerInv'
  BY <1>1 DEF BotInv, MemoryInv, CallersTypeOK, BreakerInv, BotRuns
<1>5. ASSUME NEW c \in Callers PROVE CallerInv(c)'
  BY <1>1 DEF BotInv, CallerInv, Fate
<1> QED BY <1>2, <1>3, <1>4, <1>5 DEF BotInv

\* The first state: an empty ledger, no process and nothing at the exchange.
LEMMA BotStart ==
  ASSUME LiveInit
  PROVE  BotInv
<1>1. /\ proj = EmptyProjection /\ disk = EmptyProjection /\ opens = TRUE /\ fatal = FALSE
      /\ owner = None /\ marker = FALSE /\ exchange = [o \in Orders |-> None]
      /\ halted = FALSE /\ lock = None /\ at = [c \in Callers |-> "Idle"]
      /\ plan = [c \in Callers |-> None] /\ job = [c \in Callers |-> None]
  BY DEF LiveInit, AccessInit
<1>2. ExchangeTypeOK
  BY <1>1 DEF ExchangeTypeOK
<1>3. disk \in Projections /\ Safe(disk)
  BY <1>1, InitSafe DEF Init, TypeOK
<1>4. /\ disk.active = None /\ \A i \in Intents : disk.positions[i] = None
      /\ \A o \in Orders : disk.orderIntents[o] = None /\ exchange[o] = None
  BY <1>1 DEF EmptyProjection
<1>5. Accords(disk)
  BY <1>4 DEF Accords, Posted, InBook, SettledIn
<1>6. Holds(disk)
  <2>1. OneSided(disk)
    BY <1>4 DEF OneSided, Opened
  <2>2. { o \in Orders : Posted(o) } = {}
    BY <1>4 DEF Posted
  <2>3. \A token \in Tokens : Fills(token, "Buy") = {} /\ Fills(token, "Sell") = {}
    BY <1>4 DEF Fills, HasFate, Posted
  <2>4. \A token \in Tokens : ~ Held(disk, token)
    BY <1>4 DEF Held, Unbooked, OpenWithToken, IsOpen
  <2> QED BY <2>1, <2>2, <2>3, <2>4, FS_EmptySet DEF Holds
<1>7. MemoryInv
  BY <1>1, <1>3 DEF MemoryInv
<1>8. ~ BotRuns
  BY <1>1, AccessAssumption DEF BotRuns, Processes
<1>9. CallersTypeOK /\ BreakerInv
  <2>1. "Idle" \in Steps \cup Exits /\ "Idle" \notin Critical
    BY DEF Exits, Steps, Critical
  <2> QED BY <1>1, <1>8, <2>1, CallersAssumption DEF CallersTypeOK, BreakerInv
<1>10. ASSUME NEW c \in Callers PROVE CallerInv(c)
  BY <1>1 DEF CallerInv, InFlightSteps
<1> QED BY <1>2, <1>3, <1>5, <1>6, <1>7, <1>9, <1>10 DEF BotInv, LedgerInv

\* A step of live trading.
LiveMove == Records \/ (Sends /\ ~ halted) \/ Decides

LEMMA LiveStep ==
  ASSUME BotInv, [LiveNext]_liveVars
  PROVE  /\ BotInv' /\ LiveMove
         /\ ~ BotRuns /\ BotRuns' => Restart
<1>1. CASE UNCHANGED liveVars
  BY <1>1, BotStutter DEF LiveMove, BotRuns, liveVars
<1>2. CASE BotNext
  BY <1>2, BotStep DEF LiveMove
<1>3. ASSUME NEW o \in Orders, Decide(o), UNCHANGED <<breakerVars, callerVars>>
      PROVE  BotInv' /\ LiveMove /\ (BotRuns' <=> BotRuns)
  BY <1>3, DecideDecides, ExchangeDecides DEF LiveMove, botIdle, breakerVars, BotRuns
<1> QED BY <1>1, <1>2, <1>3 DEF LiveNext

-----------------------------------------------------------------------------
(* The recovery commands: what every step of one keeps *)

\* What a command may do only where it is meant to.
Obedient ==
  /\ disk'.active # disk.active /\ step \in {"Cancel", "Apply", "Acknowledge"}
       => note # None /\ note.shown = disk.active
  /\ disk'.positions # disk.positions => note # None /\ note.shown = disk.active
  /\ disk.active # None /\ disk'.active = None => note # None /\ note.shown = disk.active
  /\ marker /\ ~ marker' => disk.active = None /\ disk.cleanupPending # None
  /\ disk.cleanupPending # None /\ disk'.cleanupPending = None => ~ marker

\* While the bot is away its part of the state is at rest.
LEMMA BotAway ==
  ASSUME BotInv, ~ BotRuns, ~ BotRuns', Moves, MemoryInv', UNCHANGED botIdle
  PROVE  BotInv'
<1>1. ExchangeTypeOK' /\ LedgerInv'
  BY MovesKept DEF BotInv
<1>2. /\ UNCHANGED <<halted, lock, at, plan, job>>
      /\ ~ halted /\ lock = None /\ \A c \in Callers : at[c] = "Idle"
  BY DEF BotInv, BreakerInv, botIdle, callerVars
<1>3. CallersTypeOK' /\ BreakerInv'
  BY <1>2 DEF BotInv, CallersTypeOK, BreakerInv
<1>4. ASSUME NEW c \in Callers PROVE CallerInv(c)'
  BY <1>2 DEF CallerInv, InFlightSteps
<1> QED BY <1>1, <1>3, <1>4 DEF BotInv

\* A challenge the operator keeps, or one that is printed of the ledger as it is now.
LEMMA NoteKept ==
  ASSUME ExchangeTypeOK, LedgerInv, NoteInv, Moves,
         \/ note' = note
         \/ \E action \in RecoveryActions, i \in Intents : note' = ChallengeFor(action, i, disk')
  PROVE  NoteInv'
<1>1. /\ disk'.sequence = disk.sequence \/ disk'.sequence = disk.sequence + 1
      /\ disk'.sequence = disk.sequence => disk' = disk
      /\ disk.sequence \in Nat /\ disk'.sequence \in Nat
  BY MovesForward
<1>2. CASE note' = note
  <2> SUFFICES ASSUME note # None PROVE NoteInv'
    BY <1>2 DEF NoteInv
  <2>1. /\ note \in Challenges /\ note.sequence <= disk.sequence
        /\ note.sequence = disk.sequence => note.shown = disk.active
    BY DEF NoteInv
  <2>2. note.sequence \in Nat
    BY <2>1, SequenceAssumption DEF Challenges
  <2> QED BY <1>1, <1>2, <2>1, <2>2 DEF NoteInv
<1>3. CASE \E action \in RecoveryActions, i \in Intents : note' = ChallengeFor(action, i, disk')
  <2>1. disk' \in Projections
    BY MovesKept DEF LedgerInv
  <2>2. PICK action \in RecoveryActions, i \in Intents : note' = ChallengeFor(action, i, disk')
    BY <1>3
  <2>3. note' \in Challenges /\ note'.sequence = disk'.sequence /\ note'.shown = disk'.active
    BY <2>1, <2>2 DEF ChallengeFor, Challenges, Projections
  <2> QED BY <1>1, <2>3 DEF NoteInv
<1> QED BY <1>2, <1>3

\* What is printed is a challenge of the projection it was computed from.
LEMMA ShownChallenge ==
  ASSUME NEW actions, NEW i \in Intents, NEW p, Shows(actions, i, p)
  PROVE  \/ note' = note
         \/ \E action \in RecoveryActions, j \in Intents : note' = ChallengeFor(action, j, p)
<1>1. Offered(p, i) \subseteq RecoveryActions
  BY DEF Offered, RecoveryActions
<1> QED BY <1>1 DEF Shows

\* A command that is not over knows its intent, and the ledger in memory is the one in the file.
LEMMA CommandFacts ==
  ASSUME SystemInv, owner = "recovery", step # "Done"
  PROVE  /\ ~ BotRuns /\ owner # None /\ ~ fatal /\ proj = disk
         /\ command # None /\ command.intent \in Intents
         /\ ExchangeTypeOK /\ LedgerInv /\ MemoryInv /\ BotInv /\ NoteInv
         /\ disk \in Projections /\ Safe(disk) /\ Accords(disk)
         /\ step \notin {"Idle", "Cleaning", "Cleaned"} => ActiveFor(disk, command.intent)
         /\ step \in {"Cancel", "Apply", "Acknowledge"} => note # None /\ note.shown = disk.active
<1>1. owner # None /\ ~ BotRuns
  BY AccessAssumption DEF BotRuns, Processes
<1>2. BotInv /\ NoteInv /\ CommandInv /\ ExchangeTypeOK /\ LedgerInv /\ MemoryInv
  BY DEF SystemInv, BotInv
<1>3. ~ fatal /\ proj = disk
  BY <1>1, <1>2 DEF CommandInv, MemoryInv
<1>4. command # None /\ command.intent \in Intents
  BY <1>2 DEF CommandInv
<1>5. step \notin {"Idle", "Cleaning", "Cleaned"} => ActiveFor(disk, command.intent)
  BY <1>2 DEF CommandInv
<1>6. step \in {"Cancel", "Apply", "Acknowledge"} => note # None /\ note.shown = disk.active
  BY <1>2 DEF CommandInv, NoteInv
<1> QED BY <1>1, <1>2, <1>3, <1>4, <1>5, <1>6 DEF LedgerInv

\* The steps an append can lead to, and what the ledger must say for each.
Reached(q, to) ==
  /\ to \in {"Reconcile", "Asking", "Canceling", "Applied", "Cleaning", "Done"}
  /\ to \notin {"Cleaning", "Done"} => ActiveFor(q, command.intent)
  /\ to = "Applied" => q.active.positionEvent # None
  /\ to = "Cleaning" => q.active = None /\ q.cleanupPending # None

\* A command that appends events which are true and allow its next step.
LEMMA WriteKept ==
  ASSUME SystemInv, owner = "recovery", step # "Done", UNCHANGED botIdle,
         NEW staged, NEW to, Write(staged, to),
         \A q \in Applied(disk, staged) : TrueStep(disk, q) /\ Reached(q, to),
         to \in {"Reconcile", "Asking", "Canceling", "Applied", "Cleaning", "Done"},
         \/ note' = note
         \/ /\ proj' # proj
            /\ \E action \in RecoveryActions, i \in Intents :
                 note' = ChallengeFor(action, i, proj')
  PROVE  /\ SystemInv' /\ Moves /\ ~ BotRuns'
         /\ disk' = disk \/ disk' \in Applied(disk, staged)
         /\ marker' = marker
<1>1. /\ ~ BotRuns /\ owner # None /\ ~ fatal /\ proj = disk
      /\ ExchangeTypeOK /\ LedgerInv /\ MemoryInv /\ BotInv /\ NoteInv
  BY CommandFacts
<1>2. /\ UNCHANGED <<owner, marker, exchange, command, found>> /\ UNCHANGED halted
      /\ \/ AppendOk(staged) /\ step' = to
         \/ AppendErr(staged) /\ step' = "Done"
  BY DEF Write, Goes, botIdle
<1>3. /\ Moves /\ MemoryInv'
      /\ AppendOk(staged) => /\ disk' \in Applied(disk, staged) /\ proj' = disk' /\ ~ fatal'
      /\ AppendErr(staged) => /\ proj' = proj
                              /\ disk' = disk \/ disk' \in Applied(disk, staged)
  BY <1>1, <1>2, AppendMoves
<1>4. ~ BotRuns' /\ BotInv'
  BY <1>1, <1>2, <1>3, BotAway DEF BotRuns
<1>5. NoteInv'
  <2>1. \/ note' = note
        \/ \E action \in RecoveryActions, i \in Intents : note' = ChallengeFor(action, i, disk')
    BY <1>2, <1>3
  <2> QED BY <1>1, <1>3, <2>1, NoteKept
<1>6. CommandInv'
  <2>1. /\ command' \in [name : RecoveryCommands, intent : Intents] \cup {None}
        /\ found' \in RemoteEvidence \cup {None}
        /\ command' # None /\ owner' = "recovery"
    BY <1>2 DEF SystemInv, CommandInv
  <2>2. CASE AppendOk(staged) /\ step' = to
    <3>1. Reached(disk', to) /\ ~ fatal'
      BY <1>3, <2>2
    <3>2. step' \in RecoverySteps /\ step' \notin {"Idle", "Cancel", "Apply", "Acknowledge",
                                                   "Answered", "Cleaned", "Canceled"}
      BY <2>2 DEF RecoverySteps
    <3> QED BY <1>2, <2>1, <2>2, <3>1, <3>2 DEF CommandInv, Reached
  <2>3. CASE step' = "Done"
    BY <2>1, <2>3 DEF CommandInv, RecoverySteps
  <2> QED BY <1>2, <2>2, <2>3
<1> QED BY <1>1, <1>2, <1>3, <1>4, <1>5, <1>6 DEF SystemInv

\* A step of a command that leaves the ledger and the challenge alone.
LEMMA QuietKept ==
  ASSUME SystemInv, owner = "recovery", step # "Done", UNCHANGED botIdle,
         UNCHANGED <<ledgerVars, owner, command, note>>,
         marker' \in {marker, FALSE}, Moves, CommandInv'
  PROVE  SystemInv' /\ ~ BotRuns'
<1>1. /\ ~ BotRuns /\ ExchangeTypeOK /\ LedgerInv /\ MemoryInv /\ BotInv /\ NoteInv
  BY CommandFacts
<1>2. UNCHANGED <<proj, disk, opens, fatal, owner, halted>>
  BY DEF ledgerVars, botIdle
<1>3. MemoryInv'
  <2>1. ({opens, fatal, halted, marker} \subseteq BOOLEAN)'
    BY <1>1, <1>2 DEF MemoryInv
  <2> QED BY <1>1, <1>2, <2>1 DEF MemoryInv
<1>4. ~ BotRuns' /\ BotInv'
  BY <1>1, <1>2, <1>3, BotAway DEF BotRuns
<1>5. NoteInv'
  BY <1>1, NoteKept
<1> QED BY <1>4, <1>5 DEF SystemInv

-----------------------------------------------------------------------------
(* The recovery commands: one lemma per action *)

\* A step of a command that has the ledger open.
CommandStep == SystemInv' /\ Moves /\ Obedient /\ ~ BotRuns'

\* An event that leaves the intent in flight changes nothing else, but the book when the
\* operator has confirmed that it may.
LEMMA ObedientAppend ==
  ASSUME SystemInv, owner = "recovery", step # "Done", marker' = marker,
         disk' = disk \/ Onward(disk, disk'),
         step # "Apply" => disk' = disk \/ \E a : Advanced(disk, disk', a)
  PROVE  Obedient
<1>1. /\ disk \in Projections
      /\ step \in {"Cancel", "Apply", "Acknowledge"} => note # None /\ note.shown = disk.active
  BY CommandFacts
<1>2. disk' = disk \/ (disk'.active # None /\ disk'.cleanupPending = disk.cleanupPending)
  BY <1>1, OnwardKeeps
<1>3. disk'.positions # disk.positions => step = "Apply"
  BY DEF Advanced, Is
<1> QED BY <1>1, <1>2, <1>3 DEF Obedient

\* A step that leaves the ledger and the marker alone.
LEMMA ObedientQuiet ==
  ASSUME disk' = disk, marker' = marker
  PROVE  Obedient
BY DEF Obedient

\* An event that moves the intent of the command on in its state machine.
LEMMA AdvanceKept ==
  ASSUME SystemInv, owner = "recovery", step # "Done", step # "Apply", UNCHANGED botIdle,
         NEW staged, NEW to \in {"Reconcile", "Asking", "Canceling", "Done"}, Write(staged, to),
         ActiveFor(disk, command.intent),
         \A q \in Applied(disk, staged) : TrueStep(disk, q) /\ \E a : Advanced(disk, q, a),
         \/ note' = note
         \/ /\ proj' # proj
            /\ \E action \in RecoveryActions, i \in Intents :
                 note' = ChallengeFor(action, i, proj')
  PROVE  CommandStep
<1>1. disk \in Projections
  BY CommandFacts
<1>2. ASSUME NEW q \in Applied(disk, staged)
      PROVE  TrueStep(disk, q) /\ Reached(q, to) /\ Onward(disk, q)
  <2>1. TrueStep(disk, q) /\ Onward(disk, q)
    BY <1>2 DEF Onward
  <2>2. ActiveFor(q, command.intent)
    BY <1>1, <2>1, OnwardKeeps DEF ActiveFor
  <2> QED BY <2>1, <2>2 DEF Reached
<1>3. /\ SystemInv' /\ Moves /\ ~ BotRuns'
      /\ disk' = disk \/ disk' \in Applied(disk, staged)
      /\ marker' = marker
  BY <1>2, WriteKept
<1>4. Obedient
  BY <1>2, <1>3, ObedientAppend
<1> QED BY <1>3, <1>4 DEF CommandStep

\* StartReconciliation: a reconciliation that was interrupted goes on where it was.
LEMMA StartReconciliationKept ==
  ASSUME SystemInv, owner = "recovery", UNCHANGED botIdle, StartReconciliation
  PROVE  CommandStep
<1>1. step = "Reconcile" /\ note' = note
  BY DEF StartReconciliation
<1>2. /\ proj = disk /\ ActiveFor(disk, command.intent) /\ command.intent \in Intents
      /\ disk \in Projections /\ Accords(disk) /\ ~ fatal
  BY <1>1, CommandFacts
<1>3. CASE proj.active.state = "ReconciliationStarted"
  <2>1. step' = "Asking" /\ UNCHANGED <<ledgerVars, owner, marker, exchange, command, found>>
    BY <1>3 DEF StartReconciliation, Goes
  <2>2. UNCHANGED <<disk, fatal>>
    BY <2>1 DEF ledgerVars
  <2>3. Moves /\ Obedient
    BY <2>1, <2>2, ObedientQuiet DEF Moves, Records
  <2>4. CommandInv'
    BY <1>1, <1>2, <2>1, <2>2 DEF SystemInv, CommandInv, RecoverySteps, ActiveFor
  <2> QED BY <1>1, <2>1, <2>3, <2>4, QuietKept DEF CommandStep
<1>4. CASE proj.active.state # "ReconciliationStarted"
  <2> DEFINE staged == StageStartReconciliation(proj, command.intent)
  <2>1. Write(staged, "Asking")
    BY <1>4 DEF StartReconciliation
  <2>2. \A q \in Applied(disk, staged) : TrueStep(disk, q) /\ \E a : Advanced(disk, q, a)
    BY <1>2, StartReconciliationTrue, ReconciliationStartedStep
  <2> HIDE DEF staged
  <2> QED BY <1>1, <1>2, <2>1, <2>2, AdvanceKept
<1> QED BY <1>3, <1>4

\* Ask: what is found agrees with the fate of the order.
LEMMA AskKept ==
  ASSUME SystemInv, owner = "recovery", UNCHANGED botIdle, Ask
  PROVE  CommandStep
<1>1. /\ step = "Asking" /\ step' = "Answered"
      /\ found' \in Reports(Fate(proj.active.prepared.order))
      /\ UNCHANGED <<ledgerVars, owner, marker, exchange, command, note>>
  BY DEF Ask, Goes
<1>2. /\ proj = disk /\ ActiveFor(disk, command.intent) /\ ~ fatal /\ disk \in Projections
      /\ Safe(disk) /\ ExchangeTypeOK
  BY <1>1, CommandFacts
<1>3. UNCHANGED <<disk, fatal>>
  BY <1>1 DEF ledgerVars
<1>4. Moves /\ Obedient
  BY <1>1, <1>3, ObedientQuiet DEF Moves, Records
<1>5. /\ found' \in RemoteEvidence
      /\ found' = "Matched" => HasFate(disk.active.prepared.order, "Filled")
      /\ found' = "NoFill" => HasFate(disk.active.prepared.order, "Killed")
  <2> DEFINE o == disk.active.prepared.order
  <2>1. o \in Orders
    BY <1>2, ActiveOrder DEF Safe, ActiveFor
  <2>2. exchange[o] = None \/ exchange[o].fate \in {"InFlight", "Filled", "Killed"}
    BY <1>2, <2>1 DEF ExchangeTypeOK, Sent
  <2>3. /\ Fate(o) \in {"Unsent", "InFlight", "Filled", "Killed"}
        /\ Fate(o) # "Unsent" => HasFate(o, Fate(o))
    BY <2>2 DEF Fate, HasFate, Posted
  <2>4. found' \in Reports(Fate(o))
    BY <1>1, <1>2
  <2> HIDE DEF o
  <2>5. /\ found' \in RemoteEvidence
        /\ found' = "Matched" => Fate(o) = "Filled"
        /\ found' = "NoFill" => Fate(o) = "Killed"
    BY <2>3, <2>4 DEF Reports, RemoteEvidence
  <2>6. /\ found' = "Matched" => HasFate(o, "Filled")
        /\ found' = "NoFill" => HasFate(o, "Killed")
    BY <2>3, <2>5
  <2> QED BY <2>5, <2>6 DEF o
<1>6. CommandInv'
  <2>1. \A fate : HasFate(disk.active.prepared.order, fate)'
                    <=> HasFate(disk.active.prepared.order, fate)
    BY <1>1, <1>3 DEF HasFate, Posted
  <2> QED
    BY <1>1, <1>2, <1>3, <1>5, <2>1 DEF SystemInv, CommandInv, RecoverySteps, ActiveFor
<1>7. marker' = marker
  BY <1>1
<1> QED BY <1>1, <1>4, <1>6, <1>7, QuietKept DEF CommandStep

\* RecordEvidence: the class of the evidence; a match and a no-fill are what the exchange did.
LEMMA RecordEvidenceKept ==
  ASSUME SystemInv, owner = "recovery", UNCHANGED botIdle, RecordEvidence
  PROVE  CommandStep
<1> DEFINE staged == Reconciled(proj.active)
<1>1. step = "Answered" /\ Write(staged, "Done")
  BY DEF RecordEvidence
<1>2. /\ proj = disk /\ ActiveFor(disk, command.intent) /\ command.intent \in Intents
      /\ disk \in Projections /\ Accords(disk)
  BY <1>1, CommandFacts
<1>3. /\ found \in RemoteEvidence
      /\ found = "Matched" => HasFate(disk.active.prepared.order, "Filled")
      /\ found = "NoFill" => HasFate(disk.active.prepared.order, "Killed")
  BY <1>1 DEF SystemInv, CommandInv
<1>4. ASSUME NEW q \in Applied(disk, staged)
      PROVE  TrueStep(disk, q) /\ \E a : Advanced(disk, q, a)
  <2> DEFINE i == disk.active.intent
             amounts == [shares |-> SharesOf(disk.active.prepared),
                         usd |-> UsdOf(disk.active.prepared)]
  <2>1. i \in Intents
    BY <1>2 DEF ActiveFor
  <2>2. CASE found = "Matched"
    <3>1. q \in Applied(disk, StageReconciledMatched(disk, i, amounts))
      BY <1>2, <1>4, <2>2 DEF Reconciled
    <3> HIDE DEF i, amounts
    <3>2. TrueStep(disk, q)
      BY <1>2, <1>3, <2>1, <2>2, <3>1, ReconciledMatchedTrue
    <3>3. ExactMatch(disk, i, amounts)
      BY <3>1 DEF Applied, StageReconciledMatched, When
    <3>4. amounts \in MatchedAmounts
      BY <1>2, <3>3, MatchedOrderAmounts
    <3> QED BY <1>2, <2>1, <3>1, <3>2, <3>4, ReconciledMatchedStep
  <2>3. CASE found # "Matched"
    <3> DEFINE class == CASE found = "NoFill" -> "ReconciledNoFill"
                          [] found = "Live" -> "ReconciledLive"
                          [] found = "Pending" -> "ReconciledPending"
                          [] found = "Uncertain" -> "ReconciledUncertain"
    <3>1. class \in Classes /\ (class = "ReconciledNoFill" => found = "NoFill")
      BY <1>3, <2>3 DEF RemoteEvidence, Classes
    <3>2. q \in Applied(disk, StageReconciledOther(disk, i, class))
      BY <1>2, <1>4, <2>3 DEF Reconciled
    <3> HIDE DEF i, class
    <3> QED BY <1>2, <1>3, <2>1, <3>1, <3>2, ReconciledOtherTrue, ReconciledOtherStep
  <2> QED BY <2>2, <2>3
<1> HIDE DEF staged
<1>5. \/ note' = note
      \/ /\ proj' # proj
         /\ \E action \in RecoveryActions, i \in Intents : note' = ChallengeFor(action, i, proj')
  <2>1. \E actions : Prints(actions)
    BY DEF RecordEvidence
  <2> QED BY <1>2, <2>1, ShownChallenge DEF Prints
<1> QED BY <1>1, <1>2, <1>4, <1>5, AdvanceKept

\* StartCancel: CancelStarted.
LEMMA StartCancelKept ==
  ASSUME SystemInv, owner = "recovery", UNCHANGED botIdle, StartCancel
  PROVE  CommandStep
<1> DEFINE staged == StageCancelStarted(proj, command.intent)
<1>1. step = "Cancel" /\ Write(staged, "Canceling") /\ note' = note
  BY DEF StartCancel
<1>2. /\ proj = disk /\ ActiveFor(disk, command.intent) /\ command.intent \in Intents
      /\ disk \in Projections /\ Accords(disk)
  BY <1>1, CommandFacts
<1>3. \A q \in Applied(disk, staged) : TrueStep(disk, q) /\ \E a : Advanced(disk, q, a)
  BY <1>2, PlainTrue, PlainSteps
<1> HIDE DEF staged
<1> QED BY <1>1, <1>2, <1>3, AdvanceKept

\* ObserveCancel: CancelResponseObserved.
LEMMA ObserveCancelKept ==
  ASSUME SystemInv, owner = "recovery", UNCHANGED botIdle, ObserveCancel
  PROVE  CommandStep
<1> DEFINE staged == StageCancelResponseObserved(proj, command.intent)
<1>1. step = "Canceled" /\ Write(staged, "Reconcile") /\ note' = note
  BY DEF ObserveCancel
<1>2. /\ proj = disk /\ ActiveFor(disk, command.intent) /\ command.intent \in Intents
      /\ disk \in Projections /\ Accords(disk)
  BY <1>1, CommandFacts
<1>3. \A q \in Applied(disk, staged) : TrueStep(disk, q) /\ \E a : Advanced(disk, q, a)
  BY <1>2, PlainTrue, PlainSteps
<1> HIDE DEF staged
<1> QED BY <1>1, <1>2, <1>3, AdvanceKept

\* Cancel: the exchange kills the order, or it is too late.
LEMMA CancelKept ==
  ASSUME SystemInv, owner = "recovery", UNCHANGED botIdle, Cancel
  PROVE  CommandStep
<1>1. /\ step = "Canceling" /\ step' = "Canceled"
      /\ UNCHANGED <<ledgerVars, owner, marker, command, found, note>>
  BY DEF Cancel, Goes
<1>2. /\ proj = disk /\ ActiveFor(disk, command.intent) /\ ~ fatal /\ disk \in Projections
      /\ Safe(disk)
  BY <1>1, CommandFacts
<1>3. UNCHANGED <<disk, fatal>>
  BY <1>1 DEF ledgerVars
<1>4. Moves
  <2> DEFINE o == disk.active.prepared.order
  <2>1. o \in Orders
    BY <1>2, ActiveOrder DEF Safe, ActiveFor
  <2>2. CASE Fate(o) = "InFlight" /\ exchange' = [exchange EXCEPT ![o].fate = "Killed"]
    <3>1. HasFate(o, "InFlight")
      BY <2>2 DEF Fate, HasFate, Posted
    <3> QED BY <1>3, <2>1, <2>2, <3>1 DEF Moves, Decides
  <2>3. CASE UNCHANGED exchange
    BY <1>3, <2>3 DEF Moves, Records
  <2> QED BY <1>2, <2>2, <2>3 DEF Cancel
<1>5. Obedient
  BY <1>1, <1>3, ObedientQuiet
<1>6. CommandInv'
  BY <1>1, <1>2, <1>3 DEF SystemInv, CommandInv, RecoverySteps, ActiveFor
<1>7. marker' = marker
  BY <1>1
<1> QED BY <1>1, <1>4, <1>5, <1>6, <1>7, QuietKept DEF CommandStep

\* BookRecovered: the position of the fill, or the one that was recorded before.
LEMMA BookRecoveredKept ==
  ASSUME SystemInv, owner = "recovery", UNCHANGED botIdle, BookRecovered
  PROVE  CommandStep
<1>1. step = "Apply" /\ note' = note
  BY DEF BookRecovered
<1>2. /\ proj = disk /\ ActiveFor(disk, command.intent) /\ command.intent \in Intents
      /\ disk \in Projections /\ Accords(disk) /\ ~ fatal
  BY <1>1, CommandFacts
<1>3. CASE disk.active.positionEvent # None
  <2>1. /\ step' \in {"Applied", "Done"}
        /\ UNCHANGED <<ledgerVars, owner, marker, exchange, command, found>>
    BY <1>2, <1>3 DEF BookRecovered, Goes
  <2>2. UNCHANGED <<disk, fatal>>
    BY <2>1 DEF ledgerVars
  <2>3. Moves /\ Obedient
    BY <2>1, <2>2, ObedientQuiet DEF Moves, Records
  <2>4. CommandInv'
    BY <1>1, <1>2, <1>3, <2>1, <2>2 DEF SystemInv, CommandInv, RecoverySteps, ActiveFor
  <2> QED BY <1>1, <2>1, <2>3, <2>4, QuietKept DEF CommandStep
<1>4. CASE disk.active.positionEvent = None
  <2> DEFINE staged == IF proj.active.prepared.purpose.kind = "Entry"
                       THEN RecoveredOpening(proj.active) ELSE RecoveredClosing(proj.active)
  <2>1. Write(staged, "Applied")
    BY <1>2, <1>4 DEF BookRecovered
  <2>2. ASSUME NEW q \in Applied(disk, staged)
        PROVE  \/ \E position : OpenBooked(disk, q, position)
               \/ \E target, closing : CloseBooked(disk, q, target, closing)
    <3> DEFINE a == disk.active
    <3>1. a.intent \in Intents
      BY <1>2 DEF ActiveFor
    <3>2. CASE a.prepared.purpose.kind = "Entry"
      <4>1. q \in Applied(disk, StageOpenPosition(disk, a.intent,
                     [order |-> a.prepared.order, token |-> a.prepared.token,
                      side |-> a.prepared.side, seed |-> a.prepared.purpose.seed,
                      shares |-> a.evidence.amounts.shares, usd |-> a.evidence.amounts.usd,
                      closing |-> None]))
        BY <1>2, <2>2, <3>2 DEF RecoveredOpening, Applied
      <4> HIDE DEF a
      <4> QED BY <1>2, <3>1, <4>1, PositionSteps
    <3>3. CASE a.prepared.purpose.kind # "Entry"
      <4>1. q \in Applied(disk, StageClosePosition(disk, a.intent, a.prepared.purpose.position,
                     [intent |-> a.intent, order |-> a.prepared.order,
                      shares |-> a.evidence.amounts.shares, usd |-> a.evidence.amounts.usd]))
        BY <1>2, <2>2, <3>3 DEF RecoveredClosing, Applied
      <4> HIDE DEF a
      <4> QED BY <1>2, <3>1, <4>1, PositionSteps
    <3> QED BY <3>2, <3>3
  <2> HIDE DEF staged
  <2>3. ASSUME NEW q \in Applied(disk, staged)
        PROVE  TrueStep(disk, q) /\ Onward(disk, q) /\ Reached(q, "Applied")
    <3>1. TrueStep(disk, q) /\ Onward(disk, q)
      BY <2>2, <2>3 DEF TrueStep, Onward
    <3>2. q.active # None /\ q.active.intent = disk.active.intent
      BY <1>2, <3>1, OnwardKeeps
    <3>3. q.active.positionEvent # None
      BY <1>2, <2>2, <2>3, RecordedRecord
    <3> QED BY <1>2, <3>1, <3>2, <3>3 DEF Reached, ActiveFor
  <2>4. /\ SystemInv' /\ Moves /\ ~ BotRuns'
        /\ disk' = disk \/ disk' \in Applied(disk, staged)
        /\ marker' = marker
    BY <1>1, <2>1, <2>3, WriteKept
  <2>5. Obedient
    BY <1>1, <2>3, <2>4, ObedientAppend
  <2> QED BY <2>4, <2>5 DEF CommandStep
<1> QED BY <1>3, <1>4

\* FinishApply: RecoveryApplied, of the fill that is in the book.
LEMMA FinishApplyKept ==
  ASSUME SystemInv, owner = "recovery", UNCHANGED botIdle, FinishApply
  PROVE  CommandStep
<1> DEFINE staged == StageRecoveryApplied(proj, command.intent, proj.active.positionEvent)
<1>1. step = "Applied" /\ Write(staged, "Done") /\ Prints({"Acknowledge"})
  BY DEF FinishApply
<1>2. /\ proj = disk /\ ActiveFor(disk, command.intent) /\ command.intent \in Intents
      /\ disk \in Projections /\ Accords(disk)
  BY <1>1, CommandFacts
<1>3. disk.active.positionEvent # None
  BY <1>1 DEF SystemInv, CommandInv
<1>4. disk.active.positionEvent \in EventIds
  BY <1>2, <1>3, ActiveType DEF ActiveFor, ActiveIntents
<1>5. \A q \in Applied(disk, staged) : TrueStep(disk, q) /\ \E a : Advanced(disk, q, a)
  BY <1>2, <1>3, <1>4, RecoveryAppliedTrue, RecoveryAppliedStep
<1> HIDE DEF staged
<1>6. \/ note' = note
      \/ /\ proj' # proj
         /\ \E action \in RecoveryActions, i \in Intents : note' = ChallengeFor(action, i, proj')
  BY <1>1, <1>2, ShownChallenge DEF Prints
<1> QED BY <1>1, <1>2, <1>5, <1>6, AdvanceKept

\* Settle: the intent the operator was shown leaves flight.
LEMMA SettleKept ==
  ASSUME SystemInv, owner = "recovery", UNCHANGED botIdle, Settle
  PROVE  CommandStep
<1> DEFINE staged == StageAcknowledge(proj, command.intent, proj.active.state)
<1>1. step = "Acknowledge" /\ Write(staged, "Cleaning") /\ note' = note
  BY DEF Settle
<1>2. /\ proj = disk /\ ActiveFor(disk, command.intent) /\ command.intent \in Intents
      /\ disk \in Projections /\ Safe(disk) /\ note # None /\ note.shown = disk.active
  BY <1>1, CommandFacts
<1>3. ASSUME NEW q \in Applied(disk, staged)
      PROVE  /\ TrueStep(disk, q) /\ Reached(q, "Cleaning")
             /\ q.positions = disk.positions
  <2> DEFINE cleanup == [intent |-> command.intent, order |-> disk.active.prepared.order]
  <2>1. TrueStep(disk, q)
    BY <1>2, <1>3, SettlingTrue
  <2>2. q = [[disk EXCEPT !.active = None, !.cleanupPending = cleanup]
               EXCEPT !.sequence = disk.sequence + 1]
    BY <1>2, <1>3 DEF Applied, StageAcknowledge, When
  <2>3. q.active = None /\ q.cleanupPending = cleanup /\ q.positions = disk.positions
    BY <1>2, <2>2 DEF Projections
  <2>4. cleanup # None
    <3>1. disk.active.prepared.order \in Orders
      BY <1>2, ActiveOrder DEF Safe, ActiveFor
    <3>2. cleanup \in CleanupOwners
      BY <1>2, <3>1 DEF CleanupOwners
    <3> QED BY <3>2, NoneAssumption
  <2> HIDE DEF cleanup
  <2> QED BY <2>1, <2>3, <2>4 DEF Reached
<1> HIDE DEF staged
<1>4. /\ SystemInv' /\ Moves /\ ~ BotRuns'
      /\ disk' = disk \/ disk' \in Applied(disk, staged)
      /\ marker' = marker
  BY <1>1, <1>3, WriteKept
<1>5. disk' = disk \/ (disk'.cleanupPending # None /\ disk'.positions = disk.positions)
  BY <1>3, <1>4 DEF Reached
<1>6. Obedient
  BY <1>2, <1>4, <1>5 DEF Obedient
<1> QED BY <1>4, <1>6 DEF CommandStep

\* CleanMarker: the intent it halted for is settled in the ledger file.
LEMMA CleanMarkerKept ==
  ASSUME SystemInv, owner = "recovery", UNCHANGED botIdle, CleanMarker
  PROVE  CommandStep
<1>1. /\ step = "Cleaning"
      /\ \/ marker' = FALSE /\ step' = "Cleaned"
         \/ marker' \in {marker, FALSE} /\ step' = "Done"
      /\ UNCHANGED <<ledgerVars, owner, exchange, command, found, note>>
  BY DEF CleanMarker, Goes
<1>2. disk.active = None /\ disk.cleanupPending # None
  BY <1>1 DEF SystemInv, CommandInv
<1>3. UNCHANGED <<disk, fatal>> /\ ~ fatal
  BY <1>1, CommandFacts DEF ledgerVars
<1>4. Moves
  BY <1>1, <1>3 DEF Moves, Records
<1>5. Obedient
  BY <1>2, <1>3 DEF Obedient
<1>6. CommandInv'
  BY <1>1, <1>2, <1>3 DEF SystemInv, CommandInv, RecoverySteps
<1>7. marker' \in {marker, FALSE}
  BY <1>1
<1> QED BY <1>1, <1>4, <1>5, <1>6, <1>7, QuietKept DEF CommandStep

\* CompleteCleanup: the marker is gone.
LEMMA CompleteCleanupKept ==
  ASSUME SystemInv, owner = "recovery", UNCHANGED botIdle, CompleteCleanup
  PROVE  CommandStep
<1> DEFINE staged == StageCleanupCompleted(proj, command.intent)
<1>1. step = "Cleaned" /\ Write(staged, "Done") /\ note' = note
  BY DEF CompleteCleanup
<1>2. proj = disk /\ command.intent \in Intents /\ disk \in Projections
  BY <1>1, CommandFacts
<1>3. disk.active = None /\ ~ marker
  BY <1>1 DEF SystemInv, CommandInv
<1>4. ASSUME NEW q \in Applied(disk, staged)
      PROVE  /\ TrueStep(disk, q) /\ Reached(q, "Done")
             /\ q.active = None /\ q.positions = disk.positions
  <2>1. TrueStep(disk, q)
    BY <1>2, <1>4, SettlingTrue
  <2>2. q = [[disk EXCEPT !.cleanupPending = None] EXCEPT !.sequence = disk.sequence + 1]
    BY <1>2, <1>4 DEF Applied, StageCleanupCompleted, When
  <2>3. q.active = None /\ q.positions = disk.positions
    BY <1>2, <1>3, <2>2 DEF Projections
  <2> QED BY <2>1, <2>3 DEF Reached
<1> HIDE DEF staged
<1>5. /\ SystemInv' /\ Moves /\ ~ BotRuns'
      /\ disk' = disk \/ disk' \in Applied(disk, staged)
      /\ marker' = marker
  BY <1>1, <1>4, WriteKept
<1>6. disk'.active = disk.active /\ disk'.positions = disk.positions
  BY <1>3, <1>4, <1>5
<1>7. Obedient
  BY <1>3, <1>5, <1>6 DEF Obedient
<1> QED BY <1>5, <1>7 DEF CommandStep

\* EndCommand: the process is gone, wherever it stood.
LEMMA EndCommandKept ==
  ASSUME SystemInv, UNCHANGED botIdle, EndCommand
  PROVE  CommandStep
<1>1. /\ owner = "recovery" /\ owner' = None /\ proj' = EmptyProjection /\ fatal' = FALSE
      /\ command' = None /\ step' = "Idle" /\ found' = None
      /\ UNCHANGED <<disk, opens, marker, exchange, note>> /\ halted' = halted
  BY DEF EndCommand, CloseLedger, botIdle
<1>2. BotInv /\ NoteInv /\ ExchangeTypeOK /\ LedgerInv /\ MemoryInv
  BY DEF SystemInv, BotInv
<1>3. Moves /\ Obedient
  BY <1>1, ObedientQuiet DEF Moves, Records
<1>4. MemoryInv'
  <2>1. EmptyProjection \in Projections
    BY SequenceAssumption DEF EmptyProjection, Projections
  <2>2. ({opens, fatal, halted, marker} \subseteq BOOLEAN)'
    BY <1>1, <1>2 DEF MemoryInv
  <2> QED BY <1>1, <2>1, <2>2 DEF MemoryInv
<1>5. ~ BotRuns /\ ~ BotRuns'
  BY <1>1, AccessAssumption DEF BotRuns, Processes
<1>6. BotInv'
  BY <1>2, <1>3, <1>4, <1>5, BotAway
<1>7. NoteInv'
  BY <1>1, <1>2, <1>3, NoteKept
<1>8. CommandInv'
  <2>1. owner' # "recovery"
    BY <1>1, AccessAssumption DEF Processes
  <2> QED BY <1>1, <2>1 DEF CommandInv, RecoverySteps
<1> QED BY <1>3, <1>5, <1>6, <1>7, <1>8 DEF SystemInv, CommandStep

\* inspect prints a challenge.
LEMMA InspectKept ==
  ASSUME SystemInv, UNCHANGED botIdle, NEW i \in Intents, Inspect(i)
  PROVE  CommandStep
<1>1. /\ owner = None
      /\ UNCHANGED <<proj, disk, opens, fatal, owner, marker, exchange, command, step, found>>
      /\ halted' = halted /\ Shows({"Apply", "Acknowledge"}, i, disk)
  BY DEF Inspect, ledgerVars, commandVars, botIdle
<1>2. BotInv /\ NoteInv /\ CommandInv /\ ExchangeTypeOK /\ LedgerInv /\ MemoryInv
  BY DEF SystemInv, BotInv
<1>3. Moves /\ Obedient
  BY <1>1, ObedientQuiet DEF Moves, Records
<1>4. MemoryInv'
  BY <1>1, <1>2 DEF MemoryInv
<1>5. ~ BotRuns /\ ~ BotRuns'
  BY <1>1, AccessAssumption DEF BotRuns, Processes
<1>6. BotInv'
  BY <1>2, <1>3, <1>4, <1>5, BotAway
<1>7. NoteInv'
  <2>1. \/ note' = note
        \/ \E action \in RecoveryActions, j \in Intents : note' = ChallengeFor(action, j, disk)
    BY <1>1, ShownChallenge
  <2> QED BY <1>1, <1>2, <1>3, <2>1, NoteKept
<1>8. CommandInv'
  <2>1. owner # "recovery"
    BY <1>1, AccessAssumption DEF Processes
  <2>2. step = "Idle"
    BY <1>2, <2>1 DEF CommandInv
  <2> QED BY <1>1, <1>2, <2>1, <2>2 DEF CommandInv
<1> QED BY <1>3, <1>5, <1>6, <1>7, <1>8 DEF SystemInv, CommandStep

\* A command begins, with what it was given checked against the ledger it has opened.
LEMMA BeginKept ==
  ASSUME SystemInv, UNCHANGED botIdle, NEW i \in Intents, BeginSome(i)
  PROVE  CommandStep
<1>1. PICK name \in RecoveryCommands,
           first \in {"Reconcile", "Cancel", "Apply", "Acknowledge", "Cleaning"} :
        /\ Begin(name, i, first)
        /\ first \in {"Reconcile", "Cancel", "Apply", "Acknowledge"} => ActiveFor(disk, i)
        /\ first \in {"Cancel", "Apply", "Acknowledge"}
             => note # None /\ note.sequence = disk.sequence
        /\ first = "Cleaning" => disk.active = None /\ disk.cleanupPending # None
  <2>1. CASE BeginReconcile(i)
    <3>1. PICK name \in {"reconcile", "prepare_cancel"} :
            ActiveFor(disk, i) /\ Begin(name, i, "Reconcile")
      BY <2>1 DEF BeginReconcile
    <3>2. name \in RecoveryCommands
      BY DEF RecoveryCommands
    <3> QED BY <3>1, <3>2
  <2>2. CASE BeginCancel(i)
    <3>1. /\ Begin("cancel", i, "Cancel") /\ "cancel" \in RecoveryCommands
          /\ note # None /\ note.sequence = disk.sequence /\ "Cancel" \in Offered(disk, i)
      BY <2>2 DEF BeginCancel, Confirms, RecoveryCommands
    <3>2. ActiveFor(disk, i)
      BY <3>1 DEF Offered
    <3> QED BY <3>1, <3>2
  <2>3. CASE BeginApply(i)
    <3>1. /\ Begin("apply", i, "Apply") /\ "apply" \in RecoveryCommands
          /\ note # None /\ note.sequence = disk.sequence /\ "Apply" \in Offered(disk, i)
      BY <2>3 DEF BeginApply, Confirms, RecoveryCommands
    <3>2. ActiveFor(disk, i)
      BY <3>1 DEF Offered
    <3> QED BY <3>1, <3>2
  <2>4. CASE BeginAcknowledge(i)
    <3>1. /\ Begin("acknowledge", i, IF disk.active = None THEN "Cleaning" ELSE "Acknowledge")
          /\ "acknowledge" \in RecoveryCommands
          /\ note # None /\ note.sequence = disk.sequence /\ "Acknowledge" \in Offered(disk, i)
      BY <2>4 DEF BeginAcknowledge, Confirms, RecoveryCommands
    <3>2. \/ ActiveFor(disk, i)
          \/ disk.active = None /\ disk.cleanupPending # None
      BY <3>1 DEF Offered
    <3>3. CASE disk.active = None
      BY <3>1, <3>2, <3>3 DEF ActiveFor
    <3>4. CASE disk.active # None
      BY <3>1, <3>2, <3>4
    <3> QED BY <3>3, <3>4
  <2> QED BY <2>1, <2>2, <2>3, <2>4 DEF BeginSome
<1>2. /\ owner = None /\ owner' = "recovery" /\ proj' = disk
      /\ command' = [name |-> name, intent |-> i] /\ step' = first
      /\ UNCHANGED <<disk, opens, fatal, marker, exchange, found, note>> /\ halted' = halted
  BY <1>1 DEF Begin, OpenLedger, botIdle
<1>3. BotInv /\ NoteInv /\ CommandInv /\ ExchangeTypeOK /\ LedgerInv /\ MemoryInv
  BY DEF SystemInv, BotInv
<1>4. Moves /\ Obedient
  BY <1>2, ObedientQuiet DEF Moves, Records
<1>5. ~ fatal /\ disk \in Projections
  BY <1>2, <1>3 DEF MemoryInv, LedgerInv
<1>6. MemoryInv'
  <2>1. ({opens, fatal, halted, marker} \subseteq BOOLEAN)'
    BY <1>2, <1>3 DEF MemoryInv
  <2>2. owner' \in Processes
    BY <1>2 DEF Processes
  <2> QED BY <1>2, <1>5, <2>1, <2>2, AccessAssumption DEF MemoryInv
<1>7. ~ BotRuns /\ ~ BotRuns'
  BY <1>2, AccessAssumption DEF BotRuns, Processes
<1>8. BotInv'
  BY <1>3, <1>4, <1>6, <1>7, BotAway
<1>9. NoteInv'
  BY <1>2, <1>3, <1>4, NoteKept
<1>10. CommandInv'
  <2>1. /\ command' \in [name : RecoveryCommands, intent : Intents]
        /\ command' # None /\ command'.intent = i
    BY <1>1, <1>2, RecoveryAssumption
  <2>2. step' \in RecoverySteps /\ step' = first
    BY <1>2 DEF RecoverySteps
  <2>3. first \notin {"Idle", "Done", "Answered", "Applied", "Cleaned"}
    OBVIOUS
  <2>4. found' \in RemoteEvidence \cup {None}
    BY <1>2, <1>3 DEF CommandInv
  <2> QED BY <1>1, <1>2, <1>5, <2>1, <2>2, <2>3, <2>4 DEF CommandInv, ActiveFor
<1> QED BY <1>4, <1>7, <1>8, <1>9, <1>10 DEF SystemInv, CommandStep

\* A step of the recovery commands.
LEMMA RecoveryStep ==
  ASSUME SystemInv, UNCHANGED botIdle, RecoveryNext
  PROVE  CommandStep
<1>1. CASE RunsCommand
  <2>1. owner = "recovery" /\ Proceeds
    BY <1>1 DEF RunsCommand
  <2> QED BY <2>1, StartReconciliationKept, AskKept, RecordEvidenceKept, StartCancelKept,
             CancelKept, ObserveCancelKept, BookRecoveredKept, FinishApplyKept, SettleKept,
             CleanMarkerKept, CompleteCleanupKept DEF Proceeds
<1> QED BY <1>1, EndCommandKept, InspectKept, BeginKept DEF RecoveryNext

-----------------------------------------------------------------------------
(* The promise of OrderAccount *)

\* An event books the order of the intent in flight, or settles it, or does neither; of the
\* other orders the ledger says what it said.
LEMMA AccountChange ==
  ASSUME NEW p \in Projections, Safe(p), NEW q, Step(p, q)
  PROVE  LET known == { o \in Orders : p.orderIntents[o] # None }
         IN  \/ \A o \in known : /\ InBook(q, o) <=> InBook(p, o)
                                 /\ SettledIn(q, o) <=> SettledIn(p, o)
             \/ \E x \in known :
                  /\ ~ InBook(p, x) /\ InBook(q, x)
                  /\ \A o \in known : /\ o # x => (InBook(q, o) <=> InBook(p, o))
                                      /\ SettledIn(q, o) <=> SettledIn(p, o)
             \/ \E x \in known :
                  \A o \in known : /\ InBook(q, o) <=> InBook(p, o)
                                   /\ SettledIn(q, o) <=> SettledIn(p, o) \/ o = x
<1> DEFINE known == { o \in Orders : p.orderIntents[o] # None }
<1>1. /\ Coherent(p) /\ IdentityConsistent(p) /\ IdentityConsistent(q) /\ q \in Projections
  BY SafeIsCoherent, StepKeepsSafe DEF Safe
<1>2. ASSUME NEW o \in known
      PROVE  LET i == p.orderIntents[o]
             IN  /\ i \in Intents /\ p.intentOrders[i] = o /\ i # None /\ o # None
                 /\ InBook(p, o) <=> HasEffect(p, i)
                 /\ InBook(q, o) <=> HasEffect(q, i)
                 /\ SettledIn(p, o) <=> ~ ActiveFor(p, i)
                 /\ SettledIn(q, o) <=> ~ ActiveFor(q, i)
  <2> DEFINE i == p.orderIntents[o]
  <2>1. i \in Intents /\ i # None /\ o \in Orders /\ o # None
    BY <1>2, NoneAssumption DEF Projections
  <2>2. q.orderIntents[o] = i
    BY <2>1, IdentitiesGrow
  <2>3. p.intentOrders[i] = o /\ q.intentOrders[i] = o
    BY <1>1, <2>1, <2>2 DEF IdentityConsistent
  <2> QED BY <2>1, <2>2, <2>3 DEF InBook, SettledIn, Settled
<1>3. ASSUME NEW o \in known
      PROVE  \/ InBook(q, o) <=> InBook(p, o)
             \/ /\ p.active # None /\ q.active # None /\ p.orderIntents[o] = p.active.intent
                /\ ~ InBook(p, o) /\ InBook(q, o)
  BY <1>1, <1>2, <1>3, EffectChange
<1>4. p.active # None => \A o \in known : p.orderIntents[o] = p.active.intent
                                            <=> o = p.active.prepared.order
  BY <1>1, ActiveOrder
<1>5. CASE \E i \in Intents :
             /\ p.active = None /\ p.intentOrders[i] = None
             /\ q.active # None /\ q.active.intent = i
  <2>1. \A o \in known : SettledIn(q, o) <=> SettledIn(p, o)
    BY <1>2, <1>5 DEF ActiveFor
  <2> QED BY <1>3, <1>5, <2>1
<1>6. CASE p.active # None /\ q.active # None /\ q.active.intent = p.active.intent
  <2>1. \A o \in known : SettledIn(q, o) <=> SettledIn(p, o)
    BY <1>2, <1>6 DEF ActiveFor
  <2>2. CASE \A o \in known : InBook(q, o) <=> InBook(p, o)
    BY <2>1, <2>2
  <2>3. CASE ~ \A o \in known : InBook(q, o) <=> InBook(p, o)
    <3>1. PICK x \in known : ~ (InBook(q, x) <=> InBook(p, x))
      BY <2>3
    <3>2. ~ InBook(p, x) /\ InBook(q, x) /\ p.orderIntents[x] = p.active.intent
      BY <1>3, <3>1
    <3>3. \A o \in known : o # x => (InBook(q, o) <=> InBook(p, o))
      BY <1>3, <1>4, <1>6, <3>2
    <3> QED BY <2>1, <3>2, <3>3
  <2> QED BY <2>2, <2>3
<1>7. CASE p.active # None /\ q.active = None
  <2>1. /\ p.active.prepared.order \in Orders
        /\ p.orderIntents[p.active.prepared.order] = p.active.intent
        /\ p.active.intent \in Intents
    BY <1>1, <1>7, ActiveOrder
  <2>2. p.active.prepared.order \in known
    BY <2>1, NoneAssumption
  <2>3. \A o \in known : SettledIn(q, o) <=> SettledIn(p, o) \/ o = p.active.prepared.order
    BY <1>2, <1>4, <1>7 DEF ActiveFor
  <2> QED BY <1>3, <1>7, <2>2, <2>3
<1>8. CASE p.active = None /\ q.active = None
  <2>1. \A o \in known : SettledIn(q, o) <=> SettledIn(p, o)
    BY <1>2, <1>8 DEF ActiveFor
  <2> QED BY <1>3, <1>8, <2>1
<1> QED BY <1>1, <1>5, <1>6, <1>7, <1>8, FlightChange

\* The five sets of OrderAccount.
WithFate(fate) == { o \in Orders : HasFate(o, fate) }
BookedOrders == { o \in Orders : OnDisk(o) }
AccountedOrders == { o \in Orders : Posted(o) /\ Accounted(o) }

\* A true event is Book, Account or a stutter.
LEMMA RecordsAccount ==
  ASSUME ExchangeTypeOK, LedgerInv, exchange' = exchange, TrueStep(disk, disk')
  PROVE  [Account!Next]_(Account!accountVars)
<1>1. /\ disk \in Projections /\ Safe(disk) /\ Accords(disk) /\ Step(disk, disk')
      /\ disk' \in Projections /\ Accords(disk)'
  BY TrueStepIsStep, MovesKept DEF LedgerInv, Moves, Records
<1>2. /\ WithFate("InFlight")' = WithFate("InFlight") /\ WithFate("Filled")' = WithFate("Filled")
      /\ WithFate("Killed")' = WithFate("Killed")
      /\ \A o \in Orders : Posted(o)' <=> Posted(o)
  BY DEF WithFate, HasFate, Posted
<1>3. /\ BookedOrders = { o \in Orders : InBook(disk, o) }
      /\ BookedOrders' = { o \in Orders : InBook(disk', o) }
      /\ AccountedOrders = { o \in Orders : Posted(o) /\ SettledIn(disk, o) }
      /\ AccountedOrders' = { o \in Orders : Posted(o) /\ SettledIn(disk', o) }
  BY <1>2 DEF BookedOrders, AccountedOrders, OnDisk, Accounted, InBook, SettledIn
<1> DEFINE known == { o \in Orders : disk.orderIntents[o] # None }
<1>4. /\ \A o \in Orders : InBook(disk, o) => o \in WithFate("Filled")
      /\ \A o \in Orders : InBook(disk', o) => o \in WithFate("Filled")
      /\ \A o \in Orders : Posted(o) => o \in known
      /\ WithFate("Filled") \subseteq known
      /\ \A o \in Orders : Posted(o) /\ SettledIn(disk', o)
           => (o \in WithFate("Filled") /\ InBook(disk', o)) \/ o \in WithFate("Killed")
  <2>1. \A o \in Orders : /\ InBook(disk, o) => HasFate(o, "Filled")
                          /\ InBook(disk', o) => HasFate(o, "Filled")
                          /\ Posted(o) => disk.orderIntents[o] # None
                          /\ SettledIn(disk', o) =>
                               ~ HasFate(o, "InFlight") /\ (HasFate(o, "Filled") => InBook(disk', o))
    BY <1>1, <1>2 DEF Accords, HasFate, InBook, SettledIn
  <2>2. \A o \in Orders : Posted(o) => \E fate \in {"InFlight", "Filled", "Killed"} :
                                         HasFate(o, fate)
    BY DEF ExchangeTypeOK, HasFate, Posted, Sent
  <2>3. \A o \in Orders : \A fate : HasFate(o, fate) => Posted(o)
    BY DEF HasFate
  <2> QED BY <2>1, <2>2, <2>3 DEF WithFate
<1> HIDE DEF known
<1>5. CASE \A o \in known : /\ InBook(disk', o) <=> InBook(disk, o)
                            /\ SettledIn(disk', o) <=> SettledIn(disk, o)
  <2>1. BookedOrders' = BookedOrders /\ AccountedOrders' = AccountedOrders
    BY <1>3, <1>4, <1>5
  <2> QED BY <1>2, <2>1 DEF Account!accountVars, WithFate, BookedOrders, AccountedOrders
<1>6. CASE \E x \in known :
             /\ ~ InBook(disk, x) /\ InBook(disk', x)
             /\ \A o \in known : /\ o # x => (InBook(disk', o) <=> InBook(disk, o))
                                 /\ SettledIn(disk', o) <=> SettledIn(disk, o)
  <2>1. PICK x \in known :
             /\ ~ InBook(disk, x) /\ InBook(disk', x)
             /\ \A o \in known : /\ o # x => (InBook(disk', o) <=> InBook(disk, o))
                                 /\ SettledIn(disk', o) <=> SettledIn(disk, o)
    BY <1>6
  <2>2. x \in Orders
    BY DEF known
  <2>3. /\ x \in WithFate("Filled") \ BookedOrders
        /\ BookedOrders' = BookedOrders \cup {x} /\ AccountedOrders' = AccountedOrders
    BY <1>3, <1>4, <2>1, <2>2
  <2>4. Account!Book(x)
    BY <1>2, <2>3 DEF Account!Book, WithFate, BookedOrders, AccountedOrders
  <2> QED BY <2>2, <2>4 DEF Account!Next
<1>7. CASE \E x \in known :
             \A o \in known : /\ InBook(disk', o) <=> InBook(disk, o)
                              /\ SettledIn(disk', o) <=> SettledIn(disk, o) \/ o = x
  <2>1. PICK x \in known :
             \A o \in known : /\ InBook(disk', o) <=> InBook(disk, o)
                              /\ SettledIn(disk', o) <=> SettledIn(disk, o) \/ o = x
    BY <1>7
  <2>2. x \in Orders
    BY DEF known
  <2>3. BookedOrders' = BookedOrders
    BY <1>3, <1>4, <2>1
  <2>4. CASE Posted(x)
    <3>1. AccountedOrders' = AccountedOrders \cup {x}
      BY <1>3, <1>4, <2>1, <2>2, <2>4
    <3>2. x \in BookedOrders \cup WithFate("Killed")
      BY <1>3, <1>4, <2>1, <2>2, <2>4
    <3>3. Account!Account(x)
      BY <1>2, <2>3, <3>1, <3>2 DEF Account!Account, WithFate, BookedOrders, AccountedOrders
    <3> QED BY <2>2, <3>3 DEF Account!Next
  <2>5. CASE ~ Posted(x)
    <3>1. AccountedOrders' = AccountedOrders
      BY <1>3, <1>4, <2>1, <2>5
    <3> QED BY <1>2, <2>3, <3>1 DEF Account!accountVars, WithFate, BookedOrders, AccountedOrders
  <2> QED BY <2>4, <2>5
<1> QED BY <1>1, <1>5, <1>6, <1>7, AccountChange DEF known

\* An order that leaves is new, and every earlier one is accounted for.
LEMMA SendsAccount ==
  ASSUME ExchangeTypeOK, LedgerInv, Sends
  PROVE  [Account!Next]_(Account!accountVars)
<1> DEFINE x == disk.active.prepared.order
           sent == [fate |-> "InFlight", token |-> disk.active.prepared.token,
                    side |-> disk.active.prepared.side]
<1>1. /\ disk \in Projections /\ IdentityConsistent(disk) /\ Accords(disk)
      /\ disk.active # None /\ exchange[x] = None /\ disk' = disk
      /\ exchange' = [exchange EXCEPT ![x] = sent]
  BY DEF LedgerInv, Safe, Sends
<1>2. /\ x \in Orders /\ disk.active.prepared \in PreparedIntents
      /\ \A o \in Orders : disk.orderIntents[o] = disk.active.intent <=> o = x
  BY <1>1, ActiveOrder
<1>3. sent \in Sent /\ sent.fate = "InFlight"
  BY <1>2 DEF Sent, PreparedIntents
<1> HIDE DEF x, sent
<1>4. /\ ~ Posted(x) /\ exchange'[x] = sent /\ sent # None
      /\ \A o \in Orders : o # x => exchange'[o] = exchange[o]
  BY <1>1, <1>2, <1>3, AccessAssumption DEF Posted, ExchangeTypeOK
<1>5. /\ \A o \in Orders : Posted(o)' <=> Posted(o) \/ o = x
      /\ \A o \in Orders : HasFate(o, "InFlight")' <=> HasFate(o, "InFlight") \/ o = x
      /\ \A o \in Orders : HasFate(o, "Filled")' <=> HasFate(o, "Filled")
      /\ \A o \in Orders : HasFate(o, "Killed")' <=> HasFate(o, "Killed")
  BY <1>3, <1>4 DEF Posted, HasFate
<1>6. ASSUME NEW o \in Orders, Posted(o)
      PROVE  Accounted(o)
  <2>1. disk.orderIntents[o] # None /\ disk.orderIntents[o] \in Intents /\ o # x
    BY <1>1, <1>4, <1>6 DEF Accords, Projections
  <2>2. disk.intentOrders[disk.orderIntents[o]] = o
    BY <1>1, <2>1 DEF IdentityConsistent
  <2> QED BY <1>2, <2>1, <2>2, NoneAssumption DEF Accounted, Settled, ActiveFor
<1>7. ~ Accounted(x)
  BY <1>1, <1>2 DEF Accounted, Settled, ActiveFor
<1>8. \A o \in Orders : (OnDisk(o)' <=> OnDisk(o)) /\ (Accounted(o)' <=> Accounted(o))
  BY <1>1 DEF OnDisk, Accounted
<1>9. /\ WithFate("InFlight")' = WithFate("InFlight") \cup {x}
      /\ WithFate("Filled")' = WithFate("Filled") /\ WithFate("Killed")' = WithFate("Killed")
      /\ BookedOrders' = BookedOrders /\ AccountedOrders' = AccountedOrders
  BY <1>2, <1>5, <1>7, <1>8 DEF WithFate, BookedOrders, AccountedOrders
<1>10. LET all == WithFate("InFlight") \cup WithFate("Filled") \cup WithFate("Killed")
       IN  x \notin all /\ all \subseteq AccountedOrders
  BY <1>4, <1>6 DEF WithFate, AccountedOrders, HasFate
<1>11. Account!Send(x)
  BY <1>9, <1>10 DEF Account!Send, Account!sent, WithFate, BookedOrders, AccountedOrders
<1> QED BY <1>2, <1>11 DEF Account!Next

\* A decision of the exchange is Fill or Kill.
LEMMA DecidesAccount ==
  ASSUME ExchangeTypeOK, LedgerInv, Decides
  PROVE  [Account!Next]_(Account!accountVars)
<1>1. PICK x \in Orders, fate \in {"Filled", "Killed"} :
        HasFate(x, "InFlight") /\ exchange' = [exchange EXCEPT ![x].fate = fate]
  BY DEF Decides
<1>2. Posted(x) /\ exchange[x].fate = "InFlight" /\ disk' = disk
  BY <1>1 DEF HasFate, Decides
<1>3. /\ exchange'[x] # None /\ exchange'[x].fate = fate
      /\ \A o \in Orders : o # x => exchange'[o] = exchange[o]
  BY <1>1, <1>2, DecidedOrder
<1>4. /\ \A o \in Orders : Posted(o)' <=> Posted(o)
      /\ \A o \in Orders : HasFate(o, "InFlight")' <=> HasFate(o, "InFlight") /\ o # x
      /\ \A o \in Orders : HasFate(o, "Filled")'
                             <=> HasFate(o, "Filled") \/ (o = x /\ fate = "Filled")
      /\ \A o \in Orders : HasFate(o, "Killed")'
                             <=> HasFate(o, "Killed") \/ (o = x /\ fate = "Killed")
  BY <1>2, <1>3 DEF Posted, HasFate
<1>5. \A o \in Orders : (OnDisk(o)' <=> OnDisk(o)) /\ (Accounted(o)' <=> Accounted(o))
  BY <1>2 DEF OnDisk, Accounted
<1>6. /\ WithFate("InFlight")' = WithFate("InFlight") \ {x} /\ x \in WithFate("InFlight")
      /\ BookedOrders' = BookedOrders /\ AccountedOrders' = AccountedOrders
  BY <1>1, <1>4, <1>5 DEF WithFate, BookedOrders, AccountedOrders
<1>7. CASE fate = "Filled"
  <2>1. /\ WithFate("Filled")' = WithFate("Filled") \cup {x}
        /\ WithFate("Killed")' = WithFate("Killed")
    BY <1>4, <1>7 DEF WithFate
  <2>2. Account!Fill(x)
    BY <1>6, <2>1 DEF Account!Fill, WithFate, BookedOrders, AccountedOrders
  <2> QED BY <2>2 DEF Account!Next
<1>8. CASE fate = "Killed"
  <2>1. /\ WithFate("Killed")' = WithFate("Killed") \cup {x}
        /\ WithFate("Filled")' = WithFate("Filled")
    BY <1>4, <1>8 DEF WithFate
  <2>2. Account!Kill(x)
    BY <1>6, <2>1 DEF Account!Kill, WithFate, BookedOrders, AccountedOrders
  <2> QED BY <2>2 DEF Account!Next
<1> QED BY <1>7, <1>8

\* Every step of the bot, the commands and the exchange is one of OrderAccount or a stutter.
LEMMA MovesAccount ==
  ASSUME ExchangeTypeOK, LedgerInv, Moves
  PROVE  [Account!Next]_(Account!accountVars)
<1>1. CASE disk' = disk /\ exchange' = exchange
  BY <1>1 DEF Account!accountVars, HasFate, Posted, OnDisk, Accounted
<1> QED BY <1>1, RecordsAccount, SendsAccount, DecidesAccount DEF Moves, Records

-----------------------------------------------------------------------------
(* What the inductive invariants and the steps say *)

\* The invariants of the live system.
LEMMA BotImplies ==
  ASSUME BotInv
  PROVE  LiveTypeOK /\ JournaledBeforePost /\ BookMatchesExchange /\ HoldsAtMostOne
<1>1. /\ ExchangeTypeOK /\ LedgerInv /\ MemoryInv /\ CallersTypeOK
      /\ disk \in Projections /\ Safe(disk) /\ Accords(disk) /\ Holds(disk)
  BY DEF BotInv, LedgerInv
<1>2. LiveTypeOK
  BY <1>1 DEF LiveTypeOK, ExchangeTypeOK, MemoryInv, CallersTypeOK
<1>3. JournaledBeforePost
  <2> SUFFICES ASSUME NEW o \in Orders, Posted(o)
               PROVE  /\ disk.orderIntents[o] # None
                      /\ ActiveFor(disk, disk.orderIntents[o]) => disk.active.state # "NotSent"
    BY DEF JournaledBeforePost
  <2>1. disk.orderIntents[o] # None
    BY <1>1 DEF Accords
  <2>2. ASSUME ActiveFor(disk, disk.orderIntents[o])
        PROVE  disk.active.state # "NotSent"
    <3>1. disk.active # None /\ Truthful(disk.active)
      BY <1>1, <2>2 DEF ActiveFor, Accords
    <3>2. o = disk.active.prepared.order
      BY <1>1, <2>2, <3>1, ActiveOrder DEF Safe, ActiveFor
    <3> QED BY <3>1, <3>2 DEF Truthful, Posted
  <2> QED BY <2>1, <2>2
<1>4. BookMatchesExchange
  BY <1>1 DEF Accords, BookMatchesExchange, OnDisk, Accounted, InBook, SettledIn
<1>5. HoldsAtMostOne
  <2> SUFFICES ASSUME NEW token \in Tokens
               PROVE  Cardinality(Fills(token, "Buy")) - Cardinality(Fills(token, "Sell")) \in {0, 1}
    BY DEF HoldsAtMostOne
  <2>1. IsFiniteSet(Fills(token, "Sell"))
    <3>1. Fills(token, "Sell") \subseteq { o \in Orders : Posted(o) }
      BY DEF Fills, HasFate
    <3> QED BY <1>1, <3>1, FS_Subset DEF Holds
  <2>2. Cardinality(Fills(token, "Sell")) \in Nat
    BY <2>1, FS_CardinalityType
  <2> QED BY <1>1, <2>2 DEF Holds
<1> QED BY <1>2, <1>3, <1>4, <1>5

\* A bot that starts knows the fate of every order.
LEMMA RestartKnows ==
  ASSUME BotInv, Restart, NEW o \in Orders, Posted(o)
  PROVE  ~ HasFate(o, "InFlight") /\ (HasFate(o, "Filled") <=> OnDisk(o)) /\ proj' = disk
<1>1. disk.active = None /\ proj' = disk
  BY DEF Restart, MayStart, OpenLedger
<1>2. disk \in Projections /\ IdentityConsistent(disk) /\ Accords(disk)
  BY DEF BotInv, LedgerInv, Safe
<1>3. disk.orderIntents[o] # None /\ disk.orderIntents[o] \in Intents
  BY <1>2 DEF Accords, Projections
<1>4. disk.intentOrders[disk.orderIntents[o]] = o
  BY <1>2, <1>3 DEF IdentityConsistent
<1>5. SettledIn(disk, o)
  BY <1>1, <1>3, <1>4, NoneAssumption DEF SettledIn, Settled, ActiveFor
<1> QED BY <1>1, <1>2, <1>5 DEF Accords, OnDisk, InBook

\* Only the order of a submission leaves, and a halted breaker lets none begin.
LEMMA HaltedSendsNothing ==
  ASSUME BotInv, LiveMove, halted, NEW o \in Orders, Posted(o)'
  PROVE  Posted(o)
<1>1. CASE Records
  BY <1>1 DEF Records, Posted
<1>2. CASE Decides
  <2>1. PICK x \in Orders, fate \in {"Filled", "Killed"} :
          HasFate(x, "InFlight") /\ exchange' = [exchange EXCEPT ![x].fate = fate]
    BY <1>2 DEF Decides
  <2>2. CASE o = x
    BY <2>1, <2>2 DEF HasFate
  <2>3. CASE o # x
    BY <2>1, <2>3 DEF BotInv, ExchangeTypeOK, Posted
  <2> QED BY <2>2, <2>3
<1> QED BY <1>1, <1>2 DEF LiveMove

\* The first state of live trading is one of OrderAccount.
LEMMA AccountStart ==
  ASSUME LiveInit
  PROVE  Account!Init
<1>1. \A o \in Orders : exchange[o] = None /\ disk.orderIntents[o] = None
  BY DEF LiveInit, AccessInit, EmptyProjection
<1> QED BY <1>1 DEF Account!Init, HasFate, Posted, OnDisk, Accounted

-----------------------------------------------------------------------------
(* The theorems about live trading *)

\* Live trading keeps its inductive invariant.
THEOREM LiveInvariant == LiveSpec => []BotInv
<1>1. LiveInit => BotInv
  BY BotStart
<1>2. BotInv /\ [LiveNext]_liveVars => BotInv'
  BY LiveStep
<1> QED BY <1>1, <1>2, PTL DEF LiveSpec

\* The variables of live trading have their types, and the submission lock is held exactly by
\* the caller that is between check() and the end of submit_fok.
THEOREM LiveTypeCorrect == LiveSpec => []LiveTypeOK
<1>1. BotInv => LiveTypeOK
  BY BotImplies
<1> QED BY <1>1, LiveInvariant, PTL

\* Every order that reached the exchange is in the ledger file, whatever crashes: no restart can
\* miss one.
THEOREM PostsAreJournaled == LiveSpec => []JournaledBeforePost
<1>1. BotInv => JournaledBeforePost
  BY BotImplies
<1> QED BY <1>1, LiveInvariant, PTL

\* The book shows no fill the exchange did not make, and forgets none.
THEOREM BookIsExact == LiveSpec => []BookMatchesExchange
<1>1. BotInv => BookMatchesExchange
  BY BotImplies
<1> QED BY <1>1, LiveInvariant, PTL

\* Entries never pile up in a token and nothing is sold twice, whatever answers were lost.
THEOREM WalletHoldsAtMostOne == LiveSpec => []HoldsAtMostOne
<1>1. BotInv => HoldsAtMostOne
  BY BotImplies
<1> QED BY <1>1, LiveInvariant, PTL

\* A halted breaker lets no order out, whichever caller was where.
THEOREM HaltStopsPosts == LiveSpec => NoPostAfterHalt
<1>1. BotInv /\ [LiveNext]_liveVars
        => [halted => \A o \in Orders : Posted(o)' => Posted(o)]_liveVars
  BY LiveStep, HaltedSendsNothing
<1> QED BY <1>1, LiveInvariant, PTL DEF LiveSpec, NoPostAfterHalt

\* Orders leave one at a time, each once, and the next one only when every earlier one is
\* accounted for with its fate in the book.
THEOREM LiveIsOrderAccount == LiveSpec => ImplementsOrderAccount
<1>1. LiveInit => Account!Init
  BY AccountStart
<1>2. BotInv /\ [LiveNext]_liveVars => [Account!Next]_(Account!accountVars)
  BY LiveStep, MovesAccount DEF BotInv, LiveMove, Moves
<1> QED BY <1>1, <1>2, LiveInvariant, PTL DEF LiveSpec, ImplementsOrderAccount, Account!Spec

-----------------------------------------------------------------------------
(* The theorems about the bot and the recovery commands together *)

\* A step of the whole.
SystemMove ==
  /\ Moves
  /\ owner = "recovery" => Obedient
  /\ disk.cleanupPending # None /\ disk'.cleanupPending = None => owner = "recovery"
  /\ ~ BotRuns /\ BotRuns' => Restart

LEMMA SystemStep ==
  ASSUME SystemInv, [SystemNext]_systemVars
  PROVE  SystemInv' /\ SystemMove
<1>1. BotInv /\ NoteInv /\ CommandInv /\ ExchangeTypeOK /\ LedgerInv
  BY DEF SystemInv, BotInv
<1>2. CASE BotNext /\ UNCHANGED recoveryVars
  <2>1. /\ BotInv' /\ Moves
        /\ owner # "recovery" /\ owner' # "recovery"
        /\ BotRuns \/ (Restart /\ disk' = disk)
    BY <1>1, <1>2, BotStep DEF Moves
  <2>2. UNCHANGED <<command, step, found, note>>
    BY <1>2 DEF recoveryVars, commandVars
  <2>3. NoteInv'
    BY <1>1, <2>1, <2>2, NoteKept
  <2>4. CommandInv'
    <3>1. command = None /\ step = "Idle" /\ found \in RemoteEvidence \cup {None}
      BY <1>1, <2>1 DEF CommandInv
    <3> QED BY <2>1, <2>2, <3>1 DEF CommandInv, RecoverySteps
  <2>5. BotRuns => disk.cleanupPending = None
    BY <1>1 DEF BotInv, BreakerInv
  <2> QED BY <2>1, <2>3, <2>4, <2>5 DEF SystemInv, SystemMove
<1>3. CASE RecoveryNext /\ UNCHANGED botIdle
  <2>1. CommandStep
    BY <1>3, RecoveryStep
  <2>2. disk' # disk => owner = "recovery"
    BY <1>3 DEF RecoveryNext, RunsCommand, EndCommand, Inspect, BeginSome, BeginReconcile,
               BeginCancel, BeginApply, BeginAcknowledge, Begin, OpenLedger, ledgerVars
  <2> QED BY <2>1, <2>2 DEF CommandStep, SystemMove
<1>4. ASSUME NEW o \in Orders, Decide(o), UNCHANGED <<botVars, recoveryVars>>
      PROVE  SystemInv' /\ SystemMove
  <2>1. /\ Decides /\ UNCHANGED <<proj, opens, fatal, owner, marker>>
        /\ UNCHANGED <<command, step, found, note>> /\ UNCHANGED botIdle
    BY <1>4, DecideDecides DEF botVars, breakerVars, botIdle, recoveryVars, commandVars
  <2>2. BotInv' /\ disk' = disk
    BY <1>1, <2>1, ExchangeDecides DEF Decides
  <2>3. NoteInv'
    BY <1>1, <2>1, NoteKept DEF Moves
  <2>4. CommandInv'
    <3>1. PICK x \in Orders, fate \in {"Filled", "Killed"} :
            HasFate(x, "InFlight") /\ exchange' = [exchange EXCEPT ![x].fate = fate]
      BY <2>1 DEF Decides
    <3>2. /\ Posted(x) /\ exchange[x].fate = "InFlight"
          /\ \A y \in Orders : y # x => exchange'[y] = exchange[y]
      BY <1>1, <3>1, DecidedOrder DEF HasFate
    <3>3. \A y \in Orders : \A result \in {"Filled", "Killed"} :
            HasFate(y, result) => HasFate(y, result)'
      BY <3>2 DEF HasFate, Posted
    <3>4. disk.active # None => disk.active.prepared.order \in Orders
      BY <1>1, ActiveOrder DEF LedgerInv, Safe
    <3> QED BY <1>1, <2>1, <2>2, <3>3, <3>4 DEF CommandInv, ActiveFor
  <2> QED BY <2>1, <2>2, <2>3, <2>4, ObedientQuiet DEF SystemInv, SystemMove, Moves, BotRuns
<1>5. CASE UNCHANGED systemVars
  <2>1. UNCHANGED liveVars /\ UNCHANGED <<command, step, found, note>>
    BY <1>5 DEF systemVars, recoveryVars, commandVars
  <2>2. UNCHANGED <<disk, fatal, owner, marker, exchange>>
    BY <2>1 DEF liveVars, ledgerVars, breakerVars
  <2>3. BotInv' /\ Moves
    BY <1>1, <2>1, BotStutter DEF Moves
  <2>4. NoteInv' /\ CommandInv'
    BY <1>1, <2>1, <2>2 DEF NoteInv, CommandInv, ActiveFor, HasFate, Posted
  <2> QED BY <2>2, <2>3, <2>4, ObedientQuiet DEF SystemInv, SystemMove, BotRuns
<1> QED BY <1>2, <1>3, <1>4, <1>5 DEF SystemNext

\* The bot and the recovery commands keep their inductive invariant.
THEOREM SystemInvariant == SystemSpec => []SystemInv
<1>1. SystemInit => SystemInv
  <2> SUFFICES ASSUME SystemInit PROVE SystemInv
    OBVIOUS
  <2>1. /\ BotInv /\ owner = None
        /\ command = None /\ step = "Idle" /\ found = None /\ note = None
    BY BotStart DEF SystemInit, LiveInit, AccessInit, RecoveryInit
  <2>2. owner # "recovery"
    BY <2>1, AccessAssumption DEF Processes
  <2> QED BY <2>1, <2>2 DEF SystemInv, NoteInv, CommandInv, RecoverySteps
<1>2. SystemInv /\ [SystemNext]_systemVars => SystemInv'
  BY SystemStep
<1> QED BY <1>1, <1>2, PTL DEF SystemSpec

\* The variables of the whole have their types, and a recovery step is taken only on the intent
\* the command was given.
THEOREM SystemTypeCorrect == SystemSpec => []SystemTypeOK
<1>1. SystemInv => SystemTypeOK
  <2> SUFFICES ASSUME SystemInv PROVE SystemTypeOK
    OBVIOUS
  <2>1. LiveTypeOK /\ note \in Challenges \cup {None}
    BY BotImplies DEF SystemInv, NoteInv
  <2>2. /\ command \in [name : RecoveryCommands, intent : Intents] \cup {None}
        /\ step \in RecoverySteps /\ found \in RemoteEvidence \cup {None}
        /\ command # None <=> owner = "recovery"
    BY DEF SystemInv, CommandInv
  <2>3. step \notin {"Idle", "Cleaning", "Cleaned", "Done"} => ActiveFor(proj, command.intent)
    <3>1. step # "Idle" => owner = "recovery"
      BY DEF SystemInv, CommandInv
    <3> QED BY <3>1, CommandFacts
  <2> QED BY <2>1, <2>2, <2>3 DEF SystemTypeOK
<1> QED BY <1>1, SystemInvariant, PTL

\* What recovery settles agrees with what the exchange did, whatever cancellation raced the fill
\* and wherever a command was interrupted.
THEOREM SettledOrdersAgreeAlways == SystemSpec => []SettledOrdersAgree
<1>1. SystemInv => SettledOrdersAgree
  BY BotImplies DEF SystemInv, SettledOrdersAgree
<1> QED BY <1>1, SystemInvariant, PTL

\* Also with orders settled by hand the wallet holds nothing or one position of a token.
THEOREM SystemHoldsAtMostOne == SystemSpec => []HoldsAtMostOne
<1>1. SystemInv => HoldsAtMostOne
  BY BotImplies DEF SystemInv
<1> QED BY <1>1, SystemInvariant, PTL

\* The marker and the pending cleanup relieve each other without a gap.
THEOREM MarkerOutlivesItsIntent == SystemSpec => MarkerOutlivesIntent
<1>1. SystemInv /\ [SystemNext]_systemVars
        => [/\ owner = "recovery" /\ marker /\ ~ marker'
                 => disk.active = None /\ disk.cleanupPending # None
            /\ disk.cleanupPending # None /\ disk'.cleanupPending = None => ~ marker]_systemVars
  BY SystemStep DEF SystemMove, Obedient
<1> QED BY <1>1, SystemInvariant, PTL DEF SystemSpec, MarkerOutlivesIntent

\* An intent is cancelled, booked or settled by hand only in the state its challenge showed.
THEOREM ConfirmationsAreOfWhatWasShown == SystemSpec => ConfirmedAsShown
<1>1. SystemInv /\ [SystemNext]_systemVars
        => [owner = "recovery" =>
             /\ disk'.active # disk.active /\ step \in {"Cancel", "Apply", "Acknowledge"}
                  => note # None /\ note.shown = disk.active
             /\ disk'.positions # disk.positions => note # None /\ note.shown = disk.active
             /\ disk.active # None /\ disk'.active = None
                  => note # None /\ note.shown = disk.active]_systemVars
  BY SystemStep DEF SystemMove, Obedient
<1> QED BY <1>1, SystemInvariant, PTL DEF SystemSpec, ConfirmedAsShown

\* A bot starts only when the fate of every order it ever sent is known, with the book that
\* shows exactly the fills, also after orders were settled by hand.
THEOREM RestartsFindFates == SystemSpec => RestartFindsFates
<1>1. SystemInv /\ [SystemNext]_systemVars
        => [~ BotRuns /\ BotRuns' =>
              /\ proj' = disk
              /\ \A o \in Orders : Posted(o) =>
                   ~ HasFate(o, "InFlight") /\ (HasFate(o, "Filled") <=> OnDisk(o))]_liveVars
  <2> SUFFICES ASSUME SystemInv, [SystemNext]_systemVars, ~ BotRuns, BotRuns'
               PROVE  /\ proj' = disk
                      /\ \A o \in Orders : Posted(o) =>
                           ~ HasFate(o, "InFlight") /\ (HasFate(o, "Filled") <=> OnDisk(o))
    OBVIOUS
  <2>1. Restart /\ BotInv
    BY SystemStep DEF SystemMove, SystemInv
  <2>2. proj' = disk
    BY <2>1 DEF Restart, OpenLedger
  <2> QED BY <2>1, <2>2, RestartKnows
<1> QED BY <1>1, SystemInvariant, PTL DEF SystemSpec, RestartFindsFates

\* The bot, the commands and the exchange together keep the promise of OrderAccount.
THEOREM SystemIsOrderAccount == SystemSpec => SystemImplementsOrderAccount
<1>1. SystemInit => Account!Init
  BY AccountStart DEF SystemInit
<1>2. SystemInv /\ [SystemNext]_systemVars => [Account!Next]_(Account!accountVars)
  BY SystemStep, MovesAccount DEF SystemInv, SystemMove, BotInv
<1> QED BY <1>1, <1>2, SystemInvariant, PTL
        DEF SystemSpec, SystemImplementsOrderAccount, Account!Spec
=============================================================================
