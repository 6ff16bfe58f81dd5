----------------------------- MODULE OrderSubmission -----------------------------
(***************************************************************************)
(* One submission after the other, at the resolution of the gateway's       *)
(* result codes: how an order is prepared and posted and its answer taken   *)
(* (clob_sdk_orders.rs, order_gateway.rs), what the circuit breaker records *)
(* of the result (execution_circuit_breaker.rs), and after which results    *)
(* the callers go on (order_executor.rs, position_monitor.rs).              *)
(* LiveExecution has the steps of the journal, crashes and the two callers, *)
(* and takes for granted what is derived here: which of three answers a     *)
(* submission may get, given what becomes of the order.                     *)
(*                                                                          *)
(* The exchange and the network between are external.  They are taken to    *)
(* refuse (a 4xx of the gateway's list, success = false) only what was not  *)
(* filled, and to say anything else of any order.                           *)
(***************************************************************************)
EXTENDS Optional, Naturals, Sequences

Sides == {"Buy", "Sell"}

Order == [shares |-> 3, usd |-> 2]

VARIABLES stage,     \* where the submission is; "Idle" before it; "Down" when its caller has
                      \* stopped after a fatal result
          plan,      \* PlannedOrder: [side, negRisk, sound], sound if its numbers convert
          negRisk,   \* what the exchange says of the market
          identity,  \* PreparedOrderIdentity: [id, making, taking], or None
          hash,      \* what the exchange calls the signed order
          fate,      \* what becomes of the order
          journal,   \* the last event of its intent in the ledger
          broken,    \* an append or the booking has failed
          answer,    \* what the gateway returned, [kind, code, shares, usd], or None
          result,    \* what the breaker returned, or None
          halted, marker

orderVars == <<plan, negRisk, identity, hash>>
breakerVars == <<halted, marker>>
vars == <<stage, orderVars, fate, journal, broken, answer, result, breakerVars>>

Init ==
  /\ stage = "Idle" /\ plan = None /\ negRisk = FALSE /\ identity = None /\ hash = None
  /\ fate = "Unsent" /\ journal = "None" /\ broken = FALSE /\ answer = None /\ result = None
  /\ halted = FALSE /\ marker = FALSE

Error(kind, code) == [kind |-> kind, code |-> code, shares |-> 0, usd |-> 0]

Preflight(code) == Error("Preflight", code)

-----------------------------------------------------------------------------
(* prepare_fok                                                              *)

Goes(to) == stage' = to

Returns(value) == answer' = value /\ Goes("Returned")

\* submit_fok of the breaker, then of the gateway; after a fatal result, the other caller's.
Submit ==
  /\ stage \in {"Idle", "Down"}
  /\ plan' \in [side : Sides, negRisk : BOOLEAN, sound : BOOLEAN] /\ negRisk' \in BOOLEAN
  /\ identity' = None /\ hash' = None /\ fate' = "Unsent" /\ journal' = "None"
  /\ broken' = FALSE /\ answer' = None
  /\ IF halted THEN Goes("Ended") /\ result' = Error("Halted", "ExecutionHalted")
               ELSE Goes("Metadata") /\ result' = None
  /\ UNCHANGED breakerVars

SameExchange == plan.negRisk = negRisk

\* tick_size and neg_risk.
LookUp ==
  /\ stage = "Metadata"
  /\ \/ Returns(Preflight("MetadataLookupFailed"))
     \/ ~ SameExchange /\ Returns(Preflight("NegRiskMismatch"))
     \/ SameExchange /\ Goes("Build") /\ UNCHANGED answer
  /\ UNCHANGED <<orderVars, fate, journal, broken, result, breakerVars>>

Making(side) == IF side = "Buy" THEN Order.usd ELSE Order.shares
Taking(side) == IF side = "Buy" THEN Order.shares ELSE Order.usd

\* The token, the tick, the price and the size, the builder of the SDK and the amounts it has put
\* into the order.
Build ==
  /\ stage = "Build"
  /\ \/ /\ \E code \in {"SdkBuild", "UnsupportedProtocolVersion"} : Returns(Preflight(code))
        /\ UNCHANGED identity
     \/ /\ ~ plan.sound
        /\ \E code \in {"InvalidTokenId", "InvalidTickSize", "InvalidPrice", "InvalidSize", "AmountConversion"} :
             Returns(Preflight(code))
        /\ UNCHANGED identity
     \/ /\ plan.sound
        /\ identity' = [id |-> None, making |-> Making(plan.side), taking |-> Taking(plan.side)]
        /\ Goes("Sign") /\ UNCHANGED answer
  /\ UNCHANGED <<plan, negRisk, hash, fate, journal, broken, result, breakerVars>>

\* The SDK signs for the exchange the market is on, exact_v2_order_id hashes for the one that
\* the plan names.
OrderHash(onNegRisk) == <<"order", onNegRisk>>

Sign ==
  /\ stage = "Sign"
  /\ \/ /\ \E code \in {"SdkSign", "ExactOrderIdUnavailable"} : Returns(Preflight(code))
        /\ UNCHANGED <<identity, hash>>
     \/ /\ identity' = [identity EXCEPT !.id = OrderHash(plan.negRisk)]
        /\ hash' = OrderHash(negRisk)
        /\ Goes("Signed") /\ UNCHANGED answer
  /\ UNCHANGED <<plan, negRisk, fate, journal, broken, result, breakerVars>>

-----------------------------------------------------------------------------
(* before_post, and the POST                                                *)

\* fatal(): the error of the journal is that of the gateway; the breaker has halted.
BeforePost(from, to) ==
  \/ journal' = to /\ UNCHANGED broken
  \/ journal' \in {from, to} /\ broken' = TRUE

Prepare ==
  /\ stage = "Signed" /\ BeforePost("None", "IntentPrepared")
  /\ Goes(IF broken' THEN "Halting" ELSE "Prepared")
  /\ UNCHANGED <<orderVars, fate, answer, result, breakerVars>>

Start ==
  /\ stage = "Prepared" /\ BeforePost("IntentPrepared", "SubmitStarted")
  /\ Goes(IF broken' THEN "Halting" ELSE "Started")
  /\ UNCHANGED <<orderVars, fate, answer, result, breakerVars>>

Post ==
  /\ stage = "Started"
  /\ fate' = "InFlight" /\ Goes("Posted")
  /\ UNCHANGED <<orderVars, journal, broken, answer, result, breakerVars>>

\* The exchange; the order may arrive after the answer was given up, or never.
Decide ==
  /\ fate = "InFlight"
  /\ fate' \in {"Refused", "Killed", "Filled", "Improved"}
  /\ UNCHANGED <<stage, orderVars, journal, broken, answer, result, breakerVars>>

-----------------------------------------------------------------------------
(* The answer                                                               *)

\* A better price: a buyer pays less, a seller gets more.
PaidFor(side) == IF fate = "Improved" THEN IF side = "Buy" THEN Order.usd - 1 ELSE Order.usd + 1
                 ELSE Order.usd

Bodies(success, status, ids, making, taking) ==
  [success : {success}, status : {status}, id : ids, making : {making}, taking : {taking}]

\* What the exchange says of the order.
Says ==
  CASE fate \in {"Refused", "Killed"} -> Bodies(FALSE, "Unmatched", {None, hash}, 0, 0)
    [] fate = "InFlight" -> Bodies(TRUE, "Delayed", {None, hash}, 0, 0)
    [] fate \in {"Filled", "Improved"} /\ plan.side = "Buy" ->
         Bodies(TRUE, "Matched", {None, hash, <<"another", FALSE>>}, PaidFor("Buy"), Order.shares)
    [] fate \in {"Filled", "Improved"} /\ plan.side = "Sell" ->
         Bodies(TRUE, "Matched", {None, hash, <<"another", FALSE>>}, Order.shares, PaidFor("Sell"))

\* Statuses a server or a proxy answers with.
RefusedWith == IF fate \in {"Refused", "Killed"} THEN {400, 401, 404, 409, 429} ELSE {}
AnsweredWith == {408, 425, 500, 502, 503} \cup RefusedWith

\* is_deterministic_pre_acceptance_rejection.
Rejection(status) ==
  status \in {400, 401, 421, 422, 426, 428, 429, 431, 451} \cup (403 .. 406) \cup (409 .. 417)

AsSigned(body) ==
  /\ body.making > 0 /\ body.taking > 0
  /\ body.making = identity.making /\ body.taking = identity.taking

\* map_amounts.
Receipt(body) ==
  [kind |-> "Receipt", code |-> None,
   shares |-> IF plan.side = "Buy" THEN body.taking ELSE body.making,
   usd |-> IF plan.side = "Buy" THEN body.making ELSE body.taking]

\* classify_response.
Classified(body) ==
  IF ~ body.success THEN Error("Rejected", "ServerRejected")
  ELSE IF body.id = None THEN Error("Uncertain", "EmptyOrderId")
  ELSE IF body.status # "Matched" THEN Error("Uncertain", "NonFinalStatus")
  ELSE IF ~ AsSigned(body) THEN Error("Uncertain", "AmountMismatch")
  ELSE IF body.id # identity.id THEN Error("Uncertain", "ResponseOrderIdMismatch")
  ELSE Receipt(body)

\* classify_post_error: a status, an answer that is empty or no JSON, and no answer at all.
Failed(status) ==
  IF Rejection(status) THEN Error("Rejected", "HttpRejected") ELSE Error("Uncertain", "PostTransport")

Answer ==
  /\ stage = "Posted"
  /\ \/ \E body \in Says : Returns(Classified(body))
     \/ \E status \in AnsweredWith : Returns(Failed(status))
     \/ \E code \in {"MalformedResponse", "PostTransport"} : Returns(Error("Uncertain", code))
  /\ UNCHANGED <<orderVars, fate, journal, broken, result, breakerVars>>

\* tokio::time::timeout drops the request; the order may be filled later.
TimeOut ==
  /\ stage = "Posted"
  /\ Returns(Error("Uncertain", "PostTimeout"))
  /\ UNCHANGED <<orderVars, fate, journal, broken, result, breakerVars>>

-----------------------------------------------------------------------------
(* The breaker                                                              *)

\* remote_reject_code.
RejectCodes == {"HttpRejected", "ServerRejected"}

\* remote_uncertain_code.
UncertainCodes ==
  {"PostTimeout", "PostTransport", "MalformedResponse", "NonFinalStatus", "AmountMismatch",
   "ResponseOrderIdMismatch", "EmptyOrderId", "AmountConversion"}

\* The events after an answer; any of them can fail, and so can the booking.
Settles(events) ==
  \/ journal' = events[Len(events)] /\ broken' = FALSE /\ result' = answer /\ Goes("Ended")
  \/ journal' \in {"SubmitStarted"} \cup {events[i] : i \in DOMAIN events}
     /\ broken' = TRUE /\ Goes("Halting") /\ UNCHANGED result

\* A code that has no counterpart in the ledger.
Unknown == Goes("Halting") /\ UNCHANGED <<journal, broken, result>>

RecordUncertain ==
  /\ \/ journal' = "RemoteUncertain" /\ UNCHANGED broken
     \/ journal' \in {journal, "RemoteUncertain"} /\ broken' = TRUE
  /\ Goes("Halting") /\ UNCHANGED result

Record ==
  /\ stage = "Returned"
  /\ \/ /\ answer.kind = "Receipt"
        /\ Settles(<<"RemoteMatched", "PositionRecorded", "SubmissionCommitted">>)
     \/ /\ answer.kind = "Rejected"
        /\ IF answer.code \in RejectCodes
           THEN Settles(<<"RemoteRejected", "SubmissionCommittedNoFill">>) ELSE Unknown
     \/ /\ answer.kind = "Uncertain"
        /\ IF answer.code \in UncertainCodes THEN RecordUncertain ELSE Unknown
     \/ /\ answer.kind = "Preflight"
        /\ result' = answer /\ Goes("Ended") /\ UNCHANGED <<journal, broken>>
  /\ UNCHANGED <<orderVars, fate, answer, breakerVars>>

Halted == TRUE

\* halt_uncertain: the flag, then the marker, whose failure takes the place of the error.
Halt ==
  /\ stage = "Halting"
  /\ Goes("Ended")
  /\ \/ marker' = TRUE
        /\ result' = IF journal = "RemoteUncertain" /\ ~ broken THEN answer
                     ELSE Error("Halted", "ExecutionHalted")
     \/ marker' \in {marker, TRUE} /\ result' = Error("Halted", "HaltMarkerIo")
  /\ halted' = Halted
  /\ UNCHANGED <<orderVars, fate, journal, broken, answer>>

-----------------------------------------------------------------------------
(* The callers                                                              *)

\* Filled, or an ExecutionOutcome::NotSubmitted, an ExitOutcome::Rejected.
GoesOn(value) == value.kind \in {"Receipt", "Preflight", "Rejected"}

Return ==
  /\ stage = "Ended"
  /\ Goes(IF GoesOn(result) THEN "Idle" ELSE "Down")
  /\ UNCHANGED <<orderVars, fate, journal, broken, answer, result, breakerVars>>

Next ==
  \/ Submit \/ LookUp \/ Build \/ Sign \/ Prepare \/ Start \/ Post \/ Decide
  \/ Answer \/ TimeOut \/ Record \/ Halt \/ Return

Spec == Init /\ [][Next]_vars

-----------------------------------------------------------------------------
(* Properties                                                               *)

\* The variables have their types; a fatal result has halted the breaker.
TypeOK ==
  /\ stage \in {"Idle", "Metadata", "Build", "Sign", "Signed", "Prepared", "Started", "Posted",
                "Returned", "Halting", "Ended", "Down"}
  /\ fate \in {"Unsent", "InFlight", "Refused", "Killed", "Filled", "Improved"}
  /\ {broken, halted, marker, negRisk} \subseteq BOOLEAN
  /\ stage \in {"Idle", "Metadata"} => ~ halted
  /\ stage = "Down" => halted

\* What LiveExecution takes for granted of an answer: a rejection is one of an order that is not
\* filled, now or later; a receipt is one of a fill, with its amounts; and whatever comes back
\* of an order that may still be filled is neither.
AnswersAreTrue ==
  answer # None =>
    /\ answer.kind = "Preflight" => fate = "Unsent"
    /\ answer.kind = "Rejected" => fate \in {"Refused", "Killed"}
    /\ answer.kind = "Receipt" => /\ fate = "Filled"
                                  /\ answer.shares = Order.shares /\ answer.usd = PaidFor(plan.side)

\* An order is on its way only after both of its events are in the ledger, and the ledger knows
\* it by the name the exchange has for it.
JournalNamesThePost ==
  fate # "Unsent" => /\ journal \notin {"None", "IntentPrepared"}
                     /\ identity.id = hash

\* A caller goes on only when its order is settled: not sent, gone without a fill, or filled as
\* it was signed and committed; and the ledger says which.
GoesOnWhenSettled ==
  stage = "Idle" =>
    /\ journal = "None" => fate = "Unsent"
    /\ journal # "None" => \/ journal = "SubmissionCommitted" /\ fate = "Filled"
                           \/ journal = "SubmissionCommittedNoFill" /\ fate \in {"Refused", "Killed"}

\* Whatever the gateway found out is in the ledger when the submission ends, unless an append
\* has failed: no result code is unknown to the breaker.
AnswersAreRecorded ==
  stage \in {"Ended", "Down"} /\ answer # None /\ ~ broken =>
    journal = CASE answer.kind = "Receipt" -> "SubmissionCommitted"
                [] answer.kind = "Rejected" -> "SubmissionCommittedNoFill"
                [] answer.kind = "Uncertain" -> "RemoteUncertain"
                [] answer.kind = "Preflight" -> "None"
=============================================================================
