----------------------------- MODULE LedgerSafety -----------------------------
(***************************************************************************)
(* What must hold of every ledger projection, and of every step of one.     *)
(* The invariants are predicates of a projection p, so that the modules     *)
(* with several projections (in memory, on disk) can state them of each.    *)
(***************************************************************************)
EXTENDS LedgerProjection

-----------------------------------------------------------------------------
(* Readers the properties use *)

Closed(position) == position # None /\ position.closing # None

Opened(p, i) == p.positions[i] # None

ClosedBy(p, j, i) == Closed(p.positions[j]) /\ p.positions[j].closing.intent = i

\* Intent i has changed the position book: it opened its position or closed another.
HasEffect(p, i) == Opened(p, i) \/ \E j \in Intents : ClosedBy(p, j, i)

Settled(p, i) == p.intentOrders[i] # None /\ ~ ActiveFor(p, i)

-----------------------------------------------------------------------------
(* Invariants *)

\* The two identity indexes are inverse: no order hash ever serves two intents, and the
\* intent in flight, the cleanup owner and every position event carry registered pairs.
IdentityConsistent(p) ==
  /\ \A i \in Intents, o \in Orders : p.intentOrders[i] = o <=> p.orderIntents[o] = i
  /\ p.active # None => p.intentOrders[p.active.intent] = p.active.prepared.order
  /\ p.cleanupPending # None => p.intentOrders[p.cleanupPending.intent] = p.cleanupPending.order
  /\ \A i \in Intents : Opened(p, i) => p.intentOrders[i] = p.positions[i].order
  /\ \A j \in Intents : Closed(p.positions[j]) =>
        p.intentOrders[p.positions[j].closing.intent] = p.positions[j].closing.order

\* At most one position per token is open: the strategy's one-position rule holds in the
\* durable book whatever order intents, crashes and recoveries happened in.
OneOpenPerToken(p) ==
  \A i, j \in Intents :
    IsOpen(p.positions[i]) /\ IsOpen(p.positions[j])
    /\ p.positions[i].token = p.positions[j].token => i = j

\* An intent changes the book at most once: it does not both open and close, it closes at
\* most one position, and what it closes is closed for the full entry size.
OneEffectPerIntent(p) ==
  /\ \A i, j, k \in Intents : ClosedBy(p, j, i) => ~ Opened(p, i) /\ (ClosedBy(p, k, i) => j = k)
  /\ \A j \in Intents : Closed(p.positions[j]) => p.positions[j].closing.shares = p.positions[j].shares

\* The change of the book that intent i was prepared for.
PreparedEffect(p, i, purpose) ==
  IF purpose.kind = "Entry" THEN Opened(p, i) ELSE ClosedBy(p, purpose.position, i)

\* An unresolved intent remembers its position event exactly when the book shows its effect,
\* so a recovery neither books a fill twice nor forgets that it was booked.
EffectRemembered(p) ==
  p.active # None =>
    /\ p.active.positionEvent = None => ~ HasEffect(p, p.active.intent)
    /\ p.active.positionEvent # None
         => PreparedEffect(p, p.active.intent, p.active.prepared.purpose)
    /\ p.active.state \in {"PositionRecorded", "RecoveryPositionRecorded", "RecoveryApplied"}
         => p.active.positionEvent # None
    /\ p.active.state \in {"NotSent", "SubmitStarted", "RemoteMatched", "RemoteRejected",
                           "RemoteUncertain", "ReconciledNoFill", "ReconciledLive",
                           "ReconciledPending", "CancelStarted", "CancelResponseObserved"}
         => p.active.positionEvent = None

\* The state of the intent in flight never contradicts what the submission was told: a match
\* is never settled as a no-fill and a rejection never reaches the book.
OutcomeRespected(p) ==
  p.active # None =>
    /\ p.active.state \in {"NotSent", "SubmitStarted", "RemoteUncertain", "ReconciledLive",
                           "ReconciledPending", "CancelStarted", "CancelResponseObserved"}
         => p.active.outcome = "Unknown"
    /\ p.active.state \in {"RemoteMatched", "PositionRecorded"} => p.active.outcome = "Matched"
    /\ p.active.state = "RemoteRejected" => p.active.outcome = "Rejected"
    /\ p.active.state = "ReconciledNoFill" => p.active.outcome # "Matched"
    /\ p.active.state \in {"ReconciledMatched", "RecoveryPositionRecorded", "RecoveryApplied"}
         => p.active.outcome # "Rejected"
    /\ p.active.outcome = "Rejected" => p.active.positionEvent = None

\* A fill that is known but not yet booked can always be booked: the book still has room for
\* the position an entry opens, and the position an exit closes is still open.
FillStaysBookable(p) ==
  p.active # None /\ p.active.positionEvent = None =>
    LET prepared == p.active.prepared
    IN  IF prepared.purpose.kind = "Entry"
        THEN ~ Opened(p, p.active.intent) /\ ~ OpenWithToken(p, prepared.token)
        ELSE ExitAllowed(p, prepared)

\* Nothing is in flight while a marker cleanup is pending: an acknowledgement is finished
\* before the next intent begins.
CleanupExclusive(p) == p.active = None \/ p.cleanupPending = None

Safe(p) ==
  /\ IdentityConsistent(p)
  /\ OneOpenPerToken(p)
  /\ OneEffectPerIntent(p)
  /\ EffectRemembered(p)
  /\ OutcomeRespected(p)
  /\ FillStaysBookable(p)
  /\ CleanupExclusive(p)

\* The projection has its type.
TypeOK == proj \in Projections
IdentityInv == IdentityConsistent(proj)
OneOpenPerTokenInv == OneOpenPerToken(proj)
OneEffectPerIntentInv == OneEffectPerIntent(proj)
EffectRememberedInv == EffectRemembered(proj)
OutcomeRespectedInv == OutcomeRespected(proj)
FillStaysBookableInv == FillStaysBookable(proj)

-----------------------------------------------------------------------------
(* What a step from p to q may do *)

BookStep(p, q) ==
  \A i \in Intents : Opened(p, i) /\ q.positions[i] # p.positions[i] =>
    /\ IsOpen(p.positions[i])
    /\ Closed(q.positions[i])
    /\ ActiveFor(p, q.positions[i].closing.intent)
    /\ q.positions[i] = [p.positions[i] EXCEPT !.closing = q.positions[i].closing]

\* The book is never rewritten: a recorded position keeps every field, except that an open
\* one may be closed, by the intent in flight.
BookAppendOnly == [][BookStep(proj, proj')]_vars

SettledStep(p, q) ==
  \A i \in Intents : Settled(p, i) =>
    /\ Settled(q, i)
    /\ q.intentOrders[i] = p.intentOrders[i]
    /\ HasEffect(q, i) <=> HasEffect(p, i)

\* Settling is final: an intent that has left flight never returns to it, keeps its order
\* hash and has no further effect on the book.
SettledIsFinal == [][SettledStep(proj, proj')]_vars

FateStep(p, q) ==
  p.active # None /\ q.active = None =>
    /\ p.active.outcome = "Matched" => HasEffect(q, p.active.intent)
    /\ p.active.outcome = "Rejected" => ~ HasEffect(q, p.active.intent)
    /\ p.active.outcome = "Unknown" => q.cleanupPending # None

\* An intent leaves flight only with its fate in the book: a submission that was told of a
\* match has booked it, one that was told of a rejection has booked nothing, and one that was
\* told nothing leaves through an operator's acknowledgement, never through a commit.
SettlesWithItsFate == [][FateStep(proj, proj')]_vars

-----------------------------------------------------------------------------
(* The promise of SingleFlight, read off a projection *)

begun == { i \in Intents : proj.intentOrders[i] # None }
unresolved == { i \in Intents : ActiveFor(proj, i) }
booked == { i \in Intents : HasEffect(proj, i) }
gate == proj.cleanupPending # None

Flight == INSTANCE SingleFlight

\* The ledger settles intents one at a time, each with at most one effect on the book.
ImplementsSingleFlight == Flight!Spec
=============================================================================
