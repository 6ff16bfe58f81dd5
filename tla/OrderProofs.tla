---------------------------- MODULE OrderProofs -----------------------------
(***************************************************************************)
(* Proofs about one order of the bot: how it is submitted, as a buyer or by *)
(* the position monitor, and how the operator finds out what became of it.  *)
(***************************************************************************)
EXTENDS OrderSubmission, ExitMonitor, RecoveryEvidence, SetSums

-----------------------------------------------------------------------------
(* What an answer says, and what the breaker can make of it                 *)

\* AnswersAreTrue, of one answer.
Truth(a) ==
  /\ a.kind = "Preflight" => fate = "Unsent"
  /\ a.kind = "Rejected" => fate \in {"Refused", "Killed"}
  /\ a.kind = "Receipt" => /\ fate = "Filled"
                           /\ a.shares = Order.shares /\ a.usd = PaidFor(plan.side)

\* Its code has a counterpart in the ledger.
Known(a) ==
  /\ a.kind \in {"Preflight", "Rejected", "Receipt", "Uncertain"}
  /\ a.kind = "Rejected" => a.code \in RejectCodes
  /\ a.kind = "Uncertain" => a.code \in UncertainCodes

Recorded ==
  journal = CASE answer.kind = "Receipt" -> "SubmissionCommitted"
              [] answer.kind = "Rejected" -> "SubmissionCommittedNoFill"
              [] answer.kind = "Uncertain" -> "RemoteUncertain"
              [] answer.kind = "Preflight" -> "None"

Fates == {"Unsent", "InFlight", "Refused", "Killed", "Filled", "Improved"}

BeforePosted == {"Metadata", "Build", "Sign", "Signed", "Prepared", "Started"}

Signed == [id |-> hash, making |-> Making(plan.side), taking |-> Taking(plan.side)]

\* Where the submission is, what of the order is known, in the ledger and true.
SubmissionInv ==
  /\ stage \in BeforePosted \cup {"Idle", "Posted", "Returned", "Halting", "Ended", "Down"}
  /\ fate \in Fates
  /\ stage \in BeforePosted => fate = "Unsent"
  /\ stage = "Posted" => fate # "Unsent"
  /\ stage \in BeforePosted \cup {"Posted"} => answer = None /\ ~ broken /\ plan.side \in Sides
  /\ stage \in {"Build", "Sign", "Signed", "Prepared", "Started", "Posted"} => plan.negRisk = negRisk
  /\ stage = "Sign" =>
       identity = [id |-> None, making |-> Making(plan.side), taking |-> Taking(plan.side)]
  /\ stage \in {"Signed", "Prepared", "Started", "Posted"} => identity = Signed
  /\ stage \in {"Metadata", "Build", "Sign", "Signed"} => journal = "None"
  /\ stage = "Prepared" => journal = "IntentPrepared"
  /\ stage \in {"Started", "Posted"} => journal = "SubmitStarted"
  /\ fate # "Unsent" => journal \notin {"None", "IntentPrepared"} /\ identity.id = hash
  /\ answer = None \/ Truth(answer)
  /\ stage = "Returned" =>
       /\ Truth(answer) /\ Known(answer) /\ ~ broken
       /\ journal = IF fate = "Unsent" THEN "None" ELSE "SubmitStarted"
  /\ stage = "Halting" /\ ~ broken => journal = "RemoteUncertain" /\ answer.kind = "Uncertain"
  /\ stage \in {"Ended", "Down"} /\ ~ broken => answer = None \/ Recorded
  /\ stage = "Ended" =>
       /\ result.kind = "Receipt" => journal = "SubmissionCommitted" /\ fate = "Filled"
       /\ result.kind = "Rejected" =>
            journal = "SubmissionCommittedNoFill" /\ fate \in {"Refused", "Killed"}
       /\ result.kind = "Preflight" => journal = "None" /\ fate = "Unsent"
  /\ GoesOnWhenSettled

\* classify_response: a body that the exchange may send is classified as what has become of
\* the order, with a code that the breaker knows.
LEMMA ClassifiedIsTrue ==
  ASSUME NEW body \in Says, fate \in Fates \ {"Unsent"}, plan.side \in Sides, identity = Signed
  PROVE  Truth(Classified(body)) /\ Known(Classified(body))
<1> USE DEF Classified, Truth, Known, Error, RejectCodes, UncertainCodes
<1>1. CASE fate \in {"Refused", "Killed"}
  <2>1. body.success = FALSE
    BY <1>1 DEF Says, Bodies
  <2> QED BY <1>1, <2>1
<1>2. CASE fate = "InFlight"
  <2>1. body.success = TRUE /\ body.status = "Delayed"
    BY <1>2 DEF Says, Bodies
  <2> QED BY <1>2, <2>1
<1>3. CASE fate \in {"Filled", "Improved"} /\ plan.side = "Buy"
  <2>1. /\ body.success = TRUE /\ body.status = "Matched"
        /\ body.making = PaidFor("Buy") /\ body.taking = Order.shares
    BY <1>3 DEF Says, Bodies
  <2>2. AsSigned(body) => fate = "Filled"
    BY <1>3, <2>1 DEF AsSigned, Signed, Making, PaidFor, Order
  <2>3. Receipt(body).shares = Order.shares /\ Receipt(body).usd = PaidFor("Buy")
        /\ Receipt(body).kind = "Receipt"
    BY <1>3, <2>1 DEF Receipt
  <2> QED BY <1>3, <2>1, <2>2, <2>3
<1>4. CASE fate \in {"Filled", "Improved"} /\ plan.side = "Sell"
  <2>1. /\ body.success = TRUE /\ body.status = "Matched"
        /\ body.making = Order.shares /\ body.taking = PaidFor("Sell")
    BY <1>4 DEF Says, Bodies
  <2>2. AsSigned(body) => fate = "Filled"
    BY <1>4, <2>1 DEF AsSigned, Signed, Taking, PaidFor, Order
  <2>3. Receipt(body).shares = Order.shares /\ Receipt(body).usd = PaidFor("Sell")
        /\ Receipt(body).kind = "Receipt"
    BY <1>4, <2>1 DEF Receipt
  <2> QED BY <1>4, <2>1, <2>2, <2>3
<1> QED BY <1>1, <1>2, <1>3, <1>4 DEF Fates, Sides

\* classify_post_error: a status of the list is one the exchange refuses an order with.
LEMMA FailedIsTrue ==
  ASSUME NEW http \in AnsweredWith, fate # "Unsent"
  PROVE  Truth(Failed(http)) /\ Known(Failed(http))
<1>1. Rejection(http) => fate \in {"Refused", "Killed"}
  BY DEF Rejection, AnsweredWith, RefusedWith
<1> QED BY <1>1 DEF Failed, Truth, Known, Error, RejectCodes, UncertainCodes

-----------------------------------------------------------------------------
(* The invariant                                                            *)

LEMMA InitSubmission == Init => SubmissionInv
  BY DEF Init, SubmissionInv, Fates, BeforePosted, GoesOnWhenSettled

LEMMA NextSubmission == SubmissionInv /\ [Next]_vars => SubmissionInv'
<1> SUFFICES ASSUME SubmissionInv, [Next]_vars
             PROVE  SubmissionInv'
  OBVIOUS
<1> USE DEF SubmissionInv, Fates, BeforePosted, GoesOnWhenSettled, Goes, orderVars, breakerVars, Signed
<1>1. CASE Submit
  BY <1>1 DEF Submit, Error, Sides
<1>2. CASE LookUp
  BY <1>2 DEF LookUp, SameExchange, Returns, Preflight, Error, Truth, Known
<1>3. CASE Build
  BY <1>3 DEF Build, Returns, Preflight, Error, Truth, Known
<1>4. CASE Sign
  BY <1>4 DEF Sign, Returns, Preflight, Error, Truth, Known, OrderHash
<1>5. CASE Prepare
  BY <1>5 DEF Prepare, BeforePost
<1>6. CASE Start
  BY <1>6 DEF Start, BeforePost
<1>7. CASE Post
  BY <1>7 DEF Post
<1>8. CASE Decide
  BY <1>8 DEF Decide, Truth, PaidFor, Recorded
<1>9. CASE Answer
  <2>1. /\ stage = "Posted" /\ stage' = "Returned" /\ Truth(answer') /\ Known(answer')
    BY <1>9, ClassifiedIsTrue, FailedIsTrue
    DEF Answer, Returns, Error, Truth, Known, UncertainCodes
  <2> QED BY <1>9, <2>1 DEF Answer, Truth, PaidFor
<1>10. CASE TimeOut
  BY <1>10 DEF TimeOut, Returns, Error, Truth, Known, UncertainCodes
<1>11. CASE Record
  <2> USE DEF Record
  <2>1. Truth(answer)' /\ answer' = answer /\ ~ broken /\ fate' = fate /\ stage = "Returned"
    BY <1>11 DEF Truth, PaidFor
  <2>2. \A s \in {<<"RemoteMatched", "PositionRecorded", "SubmissionCommitted">>,
                  <<"RemoteRejected", "SubmissionCommittedNoFill">>} :
          Settles(s) =>
            /\ journal' \notin {"None", "IntentPrepared"}
            /\ \/ /\ journal' = s[Len(s)] /\ result' = answer /\ broken' = FALSE /\ stage' = "Ended"
               \/ broken' = TRUE /\ stage' = "Halting"
    BY <1>11 DEF Settles
  <2>3. CASE answer.kind = "Receipt"
    <3>1. fate = "Filled" /\ Settles(<<"RemoteMatched", "PositionRecorded", "SubmissionCommitted">>)
      BY <1>11, <2>3 DEF Truth
    <3>2. \/ /\ journal' = "SubmissionCommitted" /\ result' = answer /\ broken' = FALSE
             /\ stage' = "Ended"
          \/ broken' = TRUE /\ stage' = "Halting" /\ journal' \notin {"None", "IntentPrepared"}
      BY <2>2, <3>1
    <3> QED BY <1>11, <2>1, <2>3, <3>1, <3>2 DEF Recorded
  <2>4. CASE answer.kind = "Rejected"
    <3>1. /\ fate \in {"Refused", "Killed"}
          /\ Settles(<<"RemoteRejected", "SubmissionCommittedNoFill">>)
      BY <1>11, <2>4 DEF Truth, Known
    <3>2. \/ /\ journal' = "SubmissionCommittedNoFill" /\ result' = answer /\ broken' = FALSE
             /\ stage' = "Ended"
          \/ broken' = TRUE /\ stage' = "Halting" /\ journal' \notin {"None", "IntentPrepared"}
      BY <2>2, <3>1
    <3> QED BY <1>11, <2>1, <2>4, <3>1, <3>2 DEF Recorded
  <2>5. CASE answer.kind = "Uncertain"
    <3>1. RecordUncertain
      BY <1>11, <2>5 DEF Known
    <3> QED BY <1>11, <2>1, <2>5, <3>1 DEF RecordUncertain
  <2>6. CASE answer.kind = "Preflight"
    <3>1. fate = "Unsent" /\ result' = answer /\ stage' = "Ended" /\ UNCHANGED <<journal, broken>>
      BY <1>11, <2>6 DEF Truth
    <3> QED BY <1>11, <2>1, <2>6, <3>1 DEF Recorded
  <2> QED BY <2>1, <2>3, <2>4, <2>5, <2>6 DEF Known
<1>12. CASE Halt
  <2>1. /\ stage = "Halting" /\ stage' = "Ended"
        /\ UNCHANGED <<orderVars, fate, journal, broken, answer>>
    BY <1>12 DEF Halt
  <2>2. result'.kind \notin {"Receipt", "Rejected", "Preflight"}
    <3>1. \A code : Error("Halted", code).kind = "Halted"
      BY DEF Error
    <3>2. CASE journal = "RemoteUncertain" /\ ~ broken
      BY <1>12, <3>1, <3>2 DEF Halt
    <3>3. CASE ~ (journal = "RemoteUncertain" /\ ~ broken)
      BY <1>12, <3>1, <3>3 DEF Halt
    <3> QED BY <3>2, <3>3
  <2>3. Truth(answer)' = Truth(answer)
    BY <2>1 DEF Truth, PaidFor
  <2>4. ~ broken' => Recorded'
    BY <2>1 DEF Recorded
  <2> QED BY <2>1, <2>2, <2>3, <2>4
<1>13. CASE Return
  BY <1>13 DEF Return, GoesOn, Truth, PaidFor, Recorded
<1>14. CASE UNCHANGED vars
  <2>1. UNCHANGED <<stage, plan, negRisk, identity, hash, fate, journal, broken, answer, result>>
    BY <1>14 DEF vars
  <2>2. Truth(answer)' = Truth(answer) /\ Known(answer)' = Known(answer)
    BY <2>1 DEF Truth, Known, PaidFor
  <2>3. Recorded' = Recorded
    BY <2>1 DEF Recorded
  <2> QED BY <2>1, <2>2, <2>3
<1> QED
  BY <1>1, <1>2, <1>3, <1>4, <1>5, <1>6, <1>7, <1>8, <1>9, <1>10, <1>11, <1>12, <1>13, <1>14
  DEF Next

\* The invariant holds in every reachable state.
THEOREM SubmissionInvariance == Spec => []SubmissionInv
  BY InitSubmission, NextSubmission, PTL DEF Spec

\* A rejection is one of an order that is not filled, now or later, a receipt one of a fill,
\* with its amounts: what LiveExecution has the gateway answer is what it can answer.
THEOREM AnswersTellTheTruth == Spec => []AnswersAreTrue
<1>1. SubmissionInv => AnswersAreTrue
  BY DEF SubmissionInv, AnswersAreTrue, Truth
<1> QED BY <1>1, SubmissionInvariance, PTL

\* No order is posted that the ledger does not know, under the name the exchange gives it.
THEOREM PostsAreJournaled == Spec => []JournalNamesThePost
<1>1. SubmissionInv => JournalNamesThePost
  BY DEF SubmissionInv, JournalNamesThePost
<1> QED BY <1>1, SubmissionInvariance, PTL

\* A caller that goes on leaves no order behind of which the ledger says anything but what has
\* become of it.
THEOREM CallersLeaveNothingOpen == Spec => []GoesOnWhenSettled
<1>1. SubmissionInv => GoesOnWhenSettled
  BY DEF SubmissionInv
<1> QED BY <1>1, SubmissionInvariance, PTL

\* Every result code of the gateway has its event in the ledger.
THEOREM EveryAnswerIsRecorded == Spec => []AnswersAreRecorded
<1>1. SubmissionInv => AnswersAreRecorded
  BY DEF SubmissionInv, AnswersAreRecorded, Recorded
<1> QED BY <1>1, SubmissionInvariance, PTL

-----------------------------------------------------------------------------
(* The queue of the monitor                                                 *)

Distinct(s) == \A i, j \in DOMAIN s : s[i] = s[j] => i = j

LEMMA PlacesAreNumbers ==
  ASSUME NEW token \in Traded
  PROVE  Place(token) \in Int
<1>1. PICK i \in DOMAIN Tokens : Tokens[i] = token
  BY DEF Traded
<1>2. DOMAIN Tokens \subseteq Int
  BY TokensAssumption
<1> QED BY <1>1, <1>2 DEF Place

\* Nothing is twice in what is sorted.
LEMMA SortedIsDistinct ==
  ASSUME NEW s, DOMAIN s \subseteq Int, \A i \in DOMAIN s : s[i].token \in Traded, Sorted(s)
  PROVE  Distinct(s)
<1> SUFFICES ASSUME NEW i \in DOMAIN s, NEW j \in DOMAIN s, s[i] = s[j], i # j
             PROVE  FALSE
  BY DEF Distinct
<1>1. Place(s[i].token) \in Int /\ Place(s[i].token) = Place(s[j].token)
  BY PlacesAreNumbers
<1>2. CASE i < j
  BY <1>1, <1>2 DEF Sorted
<1>3. CASE j < i
  BY <1>1, <1>3 DEF Sorted
<1> QED BY <1>2, <1>3

LEMMA SnapshotsAreQueues ==
  ASSUME \A p \in book : p.token \in Traded, NEW s \in Snapshots
  PROVE  s \in Seq(book) /\ Distinct(s)
<1>1. PICK n \in 0 .. Len(Tokens) : s \in [1 .. n -> book]
  BY DEF Snapshots
<1>2. n \in Nat /\ Sorted(s)
  BY TokensAssumption DEF Snapshots
<1>3. s \in Seq(book) /\ DOMAIN s = 1 .. n
  BY <1>1, <1>2
<1>4. \A i \in DOMAIN s : s[i].token \in Traded
  BY <1>1
<1> QED BY <1>2, <1>3, <1>4, SortedIsDistinct

LEMMA SequenceOfPart ==
  ASSUME NEW S, NEW T, NEW s \in Seq(S), \A i \in 1 .. Len(s) : s[i] \in T
  PROVE  s \in Seq(T)
<1>1. Len(s) \in Nat /\ s \in [1 .. Len(s) -> S]
  OBVIOUS
<1>2. s \in [1 .. Len(s) -> T]
  BY <1>1
<1> QED BY <1>1, <1>2

\* What is behind the head of a queue without duplicates is not the head.
LEMMA TailWithoutHead ==
  ASSUME NEW S, NEW s \in Seq(S), s # <<>>, Distinct(s)
  PROVE  /\ Tail(s) \in Seq(S) /\ Tail(s) \in Seq(S \ {Head(s)}) /\ Distinct(Tail(s))
         /\ Head(s) \in S
<1>1. Len(s) \in Nat \ {0} /\ DOMAIN s = 1 .. Len(s) /\ Head(s) = s[1] /\ s[1] \in S
  OBVIOUS
<1>2. /\ Tail(s) \in Seq(S) /\ Len(Tail(s)) = Len(s) - 1
      /\ DOMAIN Tail(s) = 1 .. Len(s) - 1
      /\ \A i \in 1 .. Len(s) - 1 : Tail(s)[i] = s[i + 1] /\ i + 1 \in DOMAIN s
  BY <1>1
<1>3. \A i \in 1 .. Len(s) - 1 : Tail(s)[i] \in S \ {Head(s)}
  <2> TAKE i \in 1 .. Len(s) - 1
  <2>1. i + 1 # 1 /\ 1 \in DOMAIN s /\ i + 1 \in DOMAIN s
    BY <1>1
  <2>2. s[i + 1] # s[1] /\ s[i + 1] \in S
    BY <2>1 DEF Distinct
  <2> QED BY <1>1, <1>2, <2>2
<1>4. Tail(s) \in Seq(S \ {Head(s)})
  BY <1>1, <1>2, <1>3, SequenceOfPart
<1>5. Distinct(Tail(s))
  <2> SUFFICES ASSUME NEW i \in 1 .. Len(s) - 1, NEW j \in 1 .. Len(s) - 1, Tail(s)[i] = Tail(s)[j]
               PROVE  i = j
    BY <1>2 DEF Distinct
  <2>1. s[i + 1] = s[j + 1] /\ i + 1 \in DOMAIN s /\ j + 1 \in DOMAIN s
    BY <1>2
  <2>2. i + 1 = j + 1
    BY <2>1 DEF Distinct
  <2> QED BY <1>1, <2>2
<1> QED BY <1>1, <1>2, <1>4, <1>5

LEMMA LargerBook ==
  ASSUME NEW S, NEW T, S \subseteq T, NEW s \in Seq(S)
  PROVE  s \in Seq(T)
  OBVIOUS

-----------------------------------------------------------------------------
(* The invariant                                                            *)

\* The monitor has each position of its snapshot once and only such as are open; an entry
\* carries the thresholds that the running process still has, and they are whole.
MonitorInv ==
  /\ \A p \in book : p.token \in Traded
  /\ queue \in Seq(book) /\ Distinct(queue)
  /\ at \in {"Asking", "Queued", "Submitting"} => queue # <<>>
  /\ at = "Down" => entry = None
  /\ entry # None =>
       /\ entry.token \in Traded /\ Seedable(entry.token)
       /\ entry.seed = Seed(entry.token)
  /\ doubt # None => /\ doubt.why # "Unbooked"
                     /\ \A p \in doubt.opens : p.token \in Traded

LEMMA InitMonitor == MonitorInit => MonitorInv
  BY DEF MonitorInit, MonitorInv, Distinct

LEMMA NextMonitor == MonitorInv /\ [MonitorNext]_exitVars => MonitorInv'
<1> SUFFICES ASSUME MonitorInv, [MonitorNext]_exitVars
             PROVE  MonitorInv'
  OBVIOUS
<1> USE DEF MonitorInv, configVars, monitorVars, Seedable, Seed, TakeProfit, StopLoss
<1>1. ASSUME NEW t \in Traded, NEW price \in Prices, SubmitEntry(t, price)
      PROVE  MonitorInv'
  BY <1>1 DEF SubmitEntry
<1>2. CASE EntryFilled
  <2>1. Booked /\ book' = book \cup {Opened} /\ UNCHANGED <<queue, at, doubt, cfg, first>> /\ entry' = None
    BY <1>2 DEF EntryFilled, Booked
  <2>2. Opened.token \in Traded
    BY <1>2 DEF EntryFilled, Opened
  <2>3. queue' \in Seq(book')
    BY <2>1, LargerBook
  <2> QED BY <2>1, <2>2, <2>3 DEF Distinct
<1>3. CASE EntryNotSubmitted
  BY <1>3 DEF EntryNotSubmitted
<1>4. CASE EntryUncertain
  BY <1>4 DEF EntryUncertain, Opened
<1>5. CASE Tick
  <2>1. queue' \in Seq(book) /\ Distinct(queue')
    BY <1>5, SnapshotsAreQueues DEF Tick
  <2> QED BY <1>5, <2>1 DEF Tick
<1>6. CASE EndTick \/ Ask
  BY <1>6 DEF EndTick, Ask
<1>7. CASE Look
  <2>1. CASE Due(Head(queue), mids[Head(queue).token])
    BY <1>7, <2>1 DEF Look
  <2>2. CASE ~ Due(Head(queue), mids[Head(queue).token])
    <3>1. /\ queue # <<>> /\ queue' = Tail(queue) /\ at' = "Ticking"
          /\ UNCHANGED <<cfg, first, book, entry, doubt>>
      BY <1>7, <2>2 DEF Look, Pass
    <3>2. queue' \in Seq(book) /\ Distinct(queue')
      BY <3>1, TailWithoutHead
    <3> QED BY <3>1, <3>2
  <2> QED BY <2>1, <2>2
<1>8. CASE EnterExit
  BY <1>8 DEF EnterExit
<1>9. CASE ExitFilled
  <2>1. /\ queue # <<>> /\ queue' = Tail(queue) /\ at' = "Ticking" /\ book' = book \ {Head(queue)}
        /\ UNCHANGED <<cfg, first, entry, doubt>>
    BY <1>9 DEF ExitFilled, Continue
  <2>2. queue' \in Seq(book') /\ Distinct(queue')
    BY <2>1, TailWithoutHead
  <2> QED BY <2>1, <2>2
<1>10. CASE ExitNotSubmitted
  <2>1. /\ queue # <<>> /\ queue' = Tail(queue) /\ at' = "Ticking"
        /\ UNCHANGED <<cfg, first, book, entry, doubt>>
    BY <1>10 DEF ExitNotSubmitted, Continue
  <2>2. queue' \in Seq(book') /\ Distinct(queue')
    BY <2>1, TailWithoutHead
  <2> QED BY <2>1, <2>2
<1>11. CASE ExitUncertain
  BY <1>11 DEF ExitUncertain
<1>12. ASSUME NEW t \in Traded, Move(t)
       PROVE  MonitorInv'
  BY <1>12 DEF Move
<1>13. CASE Stop
  <2>1. /\ queue' = <<>> /\ at' = "Down" /\ entry' = None /\ doubt' = None
    BY <1>13 DEF Stop
  <2>2. queue' \in Seq(book') /\ Distinct(queue')
    BY <2>1 DEF Distinct
  <2>3. \A p \in book' : p.token \in Traded
    <3> DEFINE unknown == IF doubt # None THEN doubt
                          ELSE [opens |-> IF entry = None THEN {} ELSE {Opened},
                                closes |-> IF at = "Submitting" THEN {Head(queue)} ELSE {}]
    <3>1. book' = book \/ book' = (book \cup unknown.opens) \ unknown.closes
      BY <1>13 DEF Stop
    <3>2. \A p \in unknown.opens : p.token \in Traded
      <4>1. CASE doubt # None
        BY <4>1
      <4>2. CASE doubt = None /\ entry = None
        BY <4>2
      <4>3. CASE doubt = None /\ entry # None
        <5>1. unknown.opens = {Opened}
          BY <4>3
        <5>2. Opened.token \in Traded
          BY <4>3 DEF Opened
        <5> QED BY <5>1, <5>2
      <4> QED BY <4>1, <4>2, <4>3
    <3> HIDE DEF unknown
    <3> QED BY <3>1, <3>2
  <2> QED BY <2>1, <2>2, <2>3
<1>14. CASE StartAgain
  BY <1>14 DEF StartAgain, Configure
<1>15. CASE UNCHANGED exitVars
  BY <1>15 DEF exitVars
<1> QED
  BY <1>1, <1>2, <1>3, <1>4, <1>5, <1>6, <1>7, <1>8, <1>9, <1>10, <1>11, <1>12, <1>13, <1>14,
     <1>15 DEF MonitorNext, Submitted, ExitSubmitted

\* The invariant holds in every reachable state.
THEOREM MonitorInvariance == MonitorSpec => []MonitorInv
  BY InitMonitor, NextMonitor, PTL DEF MonitorSpec

\* However long the lookups and the submissions ahead of it take, and whatever is opened and
\* left meanwhile, a position that the monitor asks an exit for is still in the book.
THEOREM ExitsAreForOpenPositions == MonitorSpec => []ExitsWhatIsOpen
<1>1. ASSUME MonitorInv
      PROVE  ExitsWhatIsOpen
  <2> SUFFICES ASSUME at \in {"Queued", "Submitting"}
               PROVE  Head(queue) \in book
    BY DEF ExitsWhatIsOpen
  <2> QED BY <1>1, TailWithoutHead DEF MonitorInv
<1>2. MonitorInv => ExitsWhatIsOpen
  BY <1>1
<1> QED BY <1>2, MonitorInvariance, PTL

\* The thresholds that were checked before an order was signed are those with which its fill is
\* booked: no fill is left unbooked for their sake.
THEOREM FilledEntriesAreBooked == MonitorSpec => []FillsAreBooked
<1>1. MonitorInv => FillsAreBooked
  BY DEF MonitorInv, FillsAreBooked
<1> QED BY <1>1, MonitorInvariance, PTL

-----------------------------------------------------------------------------
(* What became of one order                                                 *)

\* The weights of trades: what each gives the order, and what that is worth in micro-USD.
Sizes == [t \in TradeIds |-> IF trades[t] = None THEN 0 ELSE trades[t].ours]
Values == [t \in TradeIds |->
             IF trades[t] = None THEN 0 ELSE (trades[t].ours * trades[t].price) \div Scale]

\* A sum over trades is a sum of sizes.
LEMMA MatchedIsSum ==
  ASSUME NEW S \in SUBSET Made, IsFiniteSet(S)
  PROVE  MapThenSumSet(Ours, S) = Sum(Sizes, S)
<1> DEFINE w == Sizes
<1>1. PICK h : SumsUp(w, h, S) /\ Sum(w, S) = h[S]
  BY SumStep
<1>2. \A s \in SUBSET S : s # {} => w[Chosen(s)] = Ours(Chosen(s))
  BY ChosenIsIn DEF Sizes, Ours, Made
<1> HIDE DEF w
<1>3. h = [s \in SUBSET S |-> IF s = {} THEN 0 ELSE Ours(Chosen(s)) + h[s \ {Chosen(s)}]]
  <2>1. h = [s \in SUBSET S |-> IF s = {} THEN 0 ELSE w[Chosen(s)] + h[s \ {Chosen(s)}]]
    BY <1>1, Zenon DEF SumsUp
  <2> QED BY <1>2, <2>1
<1>4. PICK g : /\ g = [s \in SUBSET S |-> IF s = {} THEN 0 ELSE Ours(Chosen(s)) + g[s \ {Chosen(s)}]]
               /\ MapThenSumSet(Ours, S) = g[S]
  <2>1. \E g : g = [s \in SUBSET S |-> IF s = {} THEN 0 ELSE Ours(Chosen(s)) + g[s \ {Chosen(s)}]]
    BY <1>3
  <2> QED BY <2>1, Zenon DEF MapThenSumSet, MapThenFoldSet, Chosen
<1>5. SumsUp(w, g, S)
  BY <1>2, <1>4 DEF SumsUp
<1> QED BY <1>4, <1>5, SumIs DEF w

-----------------------------------------------------------------------------

\* Never worse than the limit, an order to buy or one to sell.
Fair(trade) ==
  /\ trade.ours \in 1 .. Size /\ trade.price \in TradePrices
  /\ trade.role = "Taker" => trade.total = trade.ours
  /\ trade.role = "Maker" => trade.price = Limit

\* The trades are of this order and never more than the order; what the lookup has added up
\* belongs to trades that are confirmed, and what it has still to ask for is not among them.
EvidenceInv ==
  /\ status \in OrderStatuses
  /\ trades \in [TradeIds -> Trades \cup {None}] /\ IsFiniteSet(Made)
  /\ \A t \in Made : Fair(trades[t])
  /\ Matched <= Size
  /\ asking \in {"Idle", "Trades"}
  /\ asking = "Trades" =>
       /\ status = "Matched" /\ Matched = Size /\ left \subseteq Made
       /\ \E counted \in SUBSET Confirmed :
            /\ counted \cap left = {} /\ counted \subseteq Made
            /\ shares = Sum(Sizes, counted) /\ usd = Sum(Values, counted)
            /\ \A t \in counted : Whole(trades[t].ours, trades[t].price)
  /\ finding = "Matched" =>
       status = "Matched" /\ Matched = Size /\ Confirmed = Made /\ \A t \in Made : trades[t].price = Limit
  /\ finding = "NoFill" => status = "Canceled" /\ Made = {}

LEMMA EvidenceConstants ==
  /\ Size \in Nat \ {0} /\ Limit \in Nat \ {0} /\ Scale \in Nat \ {0}
  /\ TradePrices \subseteq Nat \ {0}
BY Zenon, EvidenceAssumption

\* The sums are of natural numbers.
LEMMA WeightsOfTrades ==
  ASSUME EvidenceInv
  PROVE  /\ Weighs(Sizes, Made) /\ Weighs(Values, Made)
         /\ \A t \in Made : /\ Sizes[t] = trades[t].ours /\ Sizes[t] \in Nat \ {0}
                            /\ Values[t] = (trades[t].ours * trades[t].price) \div Scale
                            /\ trades[t].price \in Nat \ {0}
<1>1. ASSUME NEW t \in Made
      PROVE  /\ trades[t].ours \in Nat \ {0} /\ trades[t].price \in Nat \ {0}
             /\ (trades[t].ours * trades[t].price) \div Scale \in Nat
             /\ t \in TradeIds /\ trades[t] # None
  <2>1. trades[t].ours \in 1 .. Size /\ trades[t].price \in TradePrices
    BY DEF EvidenceInv, Fair
  <2>2. trades[t].ours \in Nat \ {0} /\ trades[t].price \in Nat \ {0} /\ Scale \in Nat \ {0}
    <3>1. \A n \in 1 .. Size : n \in Nat \ {0}
      BY EvidenceConstants
    <3> QED BY <2>1, <3>1, EvidenceConstants
  <2>3. trades[t].ours * trades[t].price \in Nat
    BY <2>2
  <2>4. \A n \in Nat, d \in Nat \ {0} : n \div d \in Nat
    OBVIOUS
  <2> QED BY <2>2, <2>3, <2>4 DEF Made
<1> QED BY <1>1 DEF Weighs, Sizes, Values

\* What has been matched is the sum of the sizes, before and after a step.
LEMMA MatchedNow == IsFiniteSet(Made) => Matched = Sum(Sizes, Made)
  BY MatchedIsSum DEF Matched

LEMMA MatchedThen == (IsFiniteSet(Made) => Matched = Sum(Sizes, Made))'
  BY MatchedNow, PTL

LEMMA MatchedIs ==
  ASSUME EvidenceInv
  PROVE  Matched = Sum(Sizes, Made) /\ Matched \in Nat
<1>1. IsFiniteSet(Made)
  BY DEF EvidenceInv
<1> QED BY <1>1, MatchedNow, WeightsOfTrades, SumWithout

\* Amounts that add up to those of the order, as parts of trades none of which is worse than the
\* limit, are all of its trades, each at the limit.
LEMMA ExactIsAll ==
  ASSUME EvidenceInv, NEW T \in SUBSET Made, Matched <= Size, Sum(Sizes, T) = Size,
         Sum(Values, T) = (Size * Limit) \div Scale,
         \A t \in T : Whole(trades[t].ours, trades[t].price)
  PROVE  T = Made /\ \A t \in Made : trades[t].price = Limit
<1> DEFINE p == [t \in TradeIds |-> Scale * Values[t]]
           q == [t \in TradeIds |-> Limit * Sizes[t]]
<1>1. IsFiniteSet(T) /\ T \subseteq TradeIds /\ IsFiniteSet(Made)
  BY FS_Subset DEF EvidenceInv, Made
<1>2. Weighs(Sizes, Made) /\ Weighs(Values, Made) /\ Weighs(Sizes, T) /\ Weighs(Values, T)
  BY WeightsOfTrades DEF Weighs
<1>3. T = Made
  <2> SUFFICES ASSUME NEW x \in Made \ T
               PROVE  FALSE
    OBVIOUS
  <2>1. Sum(Sizes, T) + Sizes[x] <= Sum(Sizes, Made)
    BY <1>1, <1>2, SumOfPart
  <2>2. Sum(Sizes, Made) <= Size /\ Sum(Sizes, Made) \in Nat
    BY MatchedIs
  <2>3. Sizes[x] \in Nat \ {0} /\ Size \in Nat
    BY WeightsOfTrades, EvidenceConstants
  <2> QED BY <2>1, <2>2, <2>3
<1>4. ASSUME NEW t \in T
      PROVE  /\ Values[t] \in Nat /\ Sizes[t] \in Nat \ {0} /\ trades[t].price \in Nat \ {0}
             /\ Scale * Values[t] = Sizes[t] * trades[t].price
  <2>1. /\ Sizes[t] = trades[t].ours /\ Sizes[t] \in Nat \ {0} /\ trades[t].price \in Nat \ {0}
        /\ Values[t] = (trades[t].ours * trades[t].price) \div Scale
    BY WeightsOfTrades
  <2>2. Values[t] \in Nat
    BY <1>2 DEF Weighs
  <2>3. (Sizes[t] * trades[t].price) % Scale = 0
    BY <2>1 DEF Whole
  <2>4. Sizes[t] * trades[t].price \in Nat /\ Scale \in Nat \ {0}
    BY <2>1, EvidenceConstants
  <2>5. \A n \in Nat, d \in Nat \ {0} : n % d = 0 => d * (n \div d) = n
    OBVIOUS
  <2>6. Scale * ((Sizes[t] * trades[t].price) \div Scale) = Sizes[t] * trades[t].price
    BY <2>3, <2>4, <2>5
  <2>7. Values[t] = (Sizes[t] * trades[t].price) \div Scale
    BY <2>1
  <2> QED BY <2>1, <2>2, <2>6, <2>7
<1>5. \A t \in T : p[t] = Scale * Values[t] /\ q[t] = Limit * Sizes[t]
  BY <1>1
<1> HIDE DEF p, q
<1>6. Weighs(p, T) /\ Weighs(q, T)
  BY <1>4, <1>5, EvidenceConstants DEF Weighs
<1>7. Sum(p, T) = Scale * Sum(Values, T) /\ Sum(q, T) = Limit * Sum(Sizes, T)
  <2>1. Scale \in Nat /\ Limit \in Nat
    BY EvidenceConstants
  <2>2. Sum(p, T) = Scale * Sum(Values, T)
    BY <1>1, <1>2, <1>5, <2>1, SumScaled
  <2>3. Sum(q, T) = Limit * Sum(Sizes, T)
    BY <1>1, <1>2, <1>5, <2>1, SumScaled
  <2> QED BY <2>2, <2>3
<1>8. Sum(p, T) = Sum(q, T)
  <2>1. (Size * Limit) % Scale = 0
    BY Zenon, EvidenceAssumption
  <2>2. Size * Limit \in Nat /\ Scale \in Nat \ {0} /\ Size * Limit = Limit * Size
    BY EvidenceConstants
  <2>3. \A n \in Nat, d \in Nat \ {0} : n % d = 0 => d * (n \div d) = n
    OBVIOUS
  <2>4. Scale * ((Size * Limit) \div Scale) = Size * Limit
    BY <2>1, <2>2, <2>3
  <2> QED BY <1>7, <2>2, <2>4
<1>9. \A t \in T : p[t] = q[t]
  <2>1. CASE \A x \in TradePrices : x <= Limit
    <3>1. ASSUME NEW t \in T
          PROVE  p[t] <= q[t]
      <4>1. trades[t].price <= Limit
        BY <2>1 DEF EvidenceInv, Fair
      <4>2. \A a, b, c \in Nat : a <= b => c * a <= b * c
        OBVIOUS
      <4>3. Sizes[t] * trades[t].price <= Limit * Sizes[t]
        BY <1>4, <4>1, <4>2, EvidenceConstants
      <4> QED BY <1>4, <1>5, <4>3
    <3> QED BY <1>1, <1>6, <1>8, <3>1, SumOfLess
  <2>2. CASE \A x \in TradePrices : x >= Limit
    <3>1. ASSUME NEW t \in T
          PROVE  q[t] <= p[t]
      <4>1. trades[t].price >= Limit
        BY <2>2 DEF EvidenceInv, Fair
      <4>2. \A a, b, c \in Nat : a >= b => b * c <= c * a
        OBVIOUS
      <4>3. Limit * Sizes[t] <= Sizes[t] * trades[t].price
        BY <1>4, <4>1, <4>2, EvidenceConstants
      <4> QED BY <1>4, <1>5, <4>3
    <3> QED BY <1>1, <1>6, <1>8, <3>1, SumOfLess
  <2>3. (\A x \in TradePrices : x <= Limit) \/ (\A x \in TradePrices : x >= Limit)
    BY Zenon, EvidenceAssumption
  <2> QED BY <2>1, <2>2, <2>3
<1>10. ASSUME NEW t \in T
       PROVE  trades[t].price = Limit
  <2>1. Sizes[t] * trades[t].price = Limit * Sizes[t]
    BY <1>4, <1>5, <1>9
  <2>2. \A a \in Nat \ {0}, b, c \in Nat : a * b = c * a => b = c
    OBVIOUS
  <2> QED BY <1>4, <2>1, <2>2, EvidenceConstants
<1> QED BY <1>3, <1>10
LEMMA InitEvidence == EvidenceInit => EvidenceInv
<1> SUFFICES ASSUME EvidenceInit
             PROVE  EvidenceInv
  OBVIOUS
<1>1. Made = {} /\ trades \in [TradeIds -> Trades \cup {None}]
  BY DEF EvidenceInit, Made
<1>2. Matched = 0
  BY <1>1, MatchedNow, SumEmpty, FS_EmptySet
<1>3. finding \notin {"Matched", "NoFill"} /\ status \in OrderStatuses /\ asking = "Idle"
  BY NoEvidenceAssumption DEF EvidenceInit, Evidence, OrderStatuses
<1> QED BY <1>1, <1>2, <1>3, FS_EmptySet, EvidenceConstants DEF EvidenceInv

\* What an answer about the order can lead to.
LEMMA WhatAnAnswerSays ==
  ASSUME status \in OrderStatuses, NEW ids
  PROVE  /\ Classify(ids) = "Matched" => status = "Matched" /\ Matched = Size
         /\ Classify(ids) = "NoFill" => status = "Canceled" /\ Matched = 0
<1>1. CASE status = "Live"
  <2>1. Classify(ids) = IF Unmatched(ids) THEN "Live" ELSE "Uncertain"
    BY <1>1, Zenon DEF Classify
  <2> QED BY <2>1
<1>2. CASE status = "Delayed"
  <2>1. Classify(ids) = IF Unmatched(ids) THEN "Pending" ELSE "Uncertain"
    BY <1>2, Zenon DEF Classify
  <2> QED BY <2>1
<1>3. CASE status = "Canceled"
  <2>1. Classify(ids) = IF Unmatched(ids) THEN "NoFill" ELSE "Uncertain"
    BY <1>3, Zenon DEF Classify
  <2> QED BY <1>3, <2>1 DEF Unmatched
<1>4. CASE status = "Matched"
  <2>1. Classify(ids) = IF Matched = Size /\ ids # {} THEN "Matched" ELSE "Uncertain"
    BY <1>4, Zenon DEF Classify
  <2> QED BY <1>4, <2>1
<1> QED BY <1>1, <1>2, <1>3, <1>4 DEF OrderStatuses

\* The lookup changes nothing at the exchange.
LEMMA TheSameTrades ==
  ASSUME EvidenceInv, UNCHANGED exchangeVars
  PROVE  /\ Made' = Made /\ Confirmed' = Confirmed /\ Sizes' = Sizes /\ Values' = Values
         /\ Matched' = Matched /\ trades' = trades /\ status' = status
<1>1. trades' = trades /\ status' = status
  BY DEF exchangeVars
<1>2. Made' = Made /\ Confirmed' = Confirmed /\ Sizes' = Sizes /\ Values' = Values
  BY <1>1 DEF Made, Confirmed, Sizes, Values
<1>3. Matched' = Matched
  BY <1>2, MatchedNow, MatchedThen DEF EvidenceInv
<1> QED BY <1>1, <1>2, <1>3

LEMMA NextEvidence == EvidenceInv /\ [EvidenceNext]_evidenceVars => EvidenceInv'
<1> SUFFICES ASSUME EvidenceInv, [EvidenceNext]_evidenceVars
             PROVE  EvidenceInv'
  OBVIOUS
<1>1. ASSUME UNCHANGED exchangeVars, asking' = "Idle", finding' \notin {"Matched", "NoFill"}
      PROVE  EvidenceInv'
  BY <1>1, TheSameTrades DEF EvidenceInv, Fair
<1>2. CASE Accept
  <2>1. status = "Delayed" /\ status' = "Live" /\ UNCHANGED <<trades, asking, left, shares, usd, finding>>
    BY <1>2 DEF Accept, lookupVars
  <2>2. Made' = Made /\ Confirmed' = Confirmed /\ Sizes' = Sizes
    BY <2>1 DEF Made, Confirmed, Sizes
  <2>3. Matched' = Matched
    BY <2>2, MatchedNow, MatchedThen DEF EvidenceInv
  <2> QED BY <2>1, <2>2, <2>3 DEF EvidenceInv, Fair, OrderStatuses
<1>3. CASE Trade
  <2>1. PICK t \in TradeIds \ Made, trade \in Trades :
          /\ trade.ours <= Size - Matched /\ Fair(trade)
          /\ trades' = [trades EXCEPT ![t] = trade] /\ status' \in OrderStatuses
    BY <1>3 DEF OrderStatuses, Trade, Fair, Trades
  <2>2. status = "Live" /\ UNCHANGED <<asking, left, shares, usd, finding>>
    BY <1>3 DEF Trade, lookupVars
  <2>3. asking = "Idle" /\ finding \notin {"Matched", "NoFill"}
    BY <2>2 DEF EvidenceInv
  <2>4. /\ trades' \in [TradeIds -> Trades \cup {None}] /\ trades'[t] = trade
        /\ \A u \in TradeIds : u # t => trades'[u] = trades[u]
    BY <2>1 DEF EvidenceInv
  <2>5. Made' = Made \cup {t}
    BY <2>1, <2>4, NoTradeAssumption DEF Made
  <2>6. IsFiniteSet(Made')
    BY <2>5, FS_AddElement DEF EvidenceInv
  <2>7. \A u \in Made' : Fair(trades'[u])
    BY <2>1, <2>4, <2>5 DEF EvidenceInv, Made
  <2>8. /\ \A u \in Made : Sizes'[u] = Sizes[u]
        /\ t \in TradeIds /\ Sizes'[t] = trade.ours /\ trade.ours \in Nat
    <3>1. trade.ours \in Nat
      BY <2>1, EvidenceConstants DEF Fair
    <3>2. trade # None
      BY NoTradeAssumption
    <3> QED BY <2>1, <2>4, <3>1, <3>2 DEF Sizes, Made
  <2>9. Weighs(Sizes, Made) /\ IsFiniteSet(Made)
    BY WeightsOfTrades DEF EvidenceInv
  <2>10. Weighs(Sizes', Made \cup {t}) /\ Weighs(Sizes', Made)
    BY <2>8, <2>9 DEF Weighs
  <2>11. Sum(Sizes', Made \cup {t}) = Sizes'[t] + Sum(Sizes', Made)
    BY <2>1, <2>9, <2>10, SumWith
  <2>12. Sum(Sizes', Made) = Sum(Sizes, Made)
    BY <2>8, <2>9, SumOfSame
  <2>13. Matched' <= Size
    <3>1. Matched' = trade.ours + Matched
      BY <2>5, <2>6, <2>8, <2>11, <2>12, MatchedThen, MatchedIs
    <3> QED BY <2>1, <2>8, <3>1, MatchedIs, EvidenceConstants
  <2> QED BY <2>1, <2>2, <2>3, <2>4, <2>6, <2>7, <2>13 DEF EvidenceInv
<1>4. CASE Settle
  <2>1. PICK t \in Made, outcome \in {"Confirmed", "Failed"} :
          /\ trades[t].status = "Matched" /\ trades' = [trades EXCEPT ![t].status = outcome]
    BY <1>4 DEF Settle
  <2>2. UNCHANGED <<status, asking, left, shares, usd, finding>>
    BY <1>4 DEF Settle, lookupVars
  <2>3. t \in TradeIds /\ trades[t] \in Trades
    BY DEF Made, EvidenceInv
  <2>4. /\ trades'[t] = [trades[t] EXCEPT !.status = outcome] /\ trades'[t] \in Trades
        /\ \A u \in TradeIds : u # t => trades'[u] = trades[u]
        /\ trades' \in [TradeIds -> Trades \cup {None}]
    BY <2>1, <2>3 DEF EvidenceInv, Trades, TradeStatuses
  <2>5. /\ trades'[t].ours = trades[t].ours /\ trades'[t].price = trades[t].price
        /\ trades'[t].total = trades[t].total /\ trades'[t].role = trades[t].role
    BY <2>3, <2>4 DEF Trades
  <2>6. Made' = Made
    BY <2>3, <2>4, NoTradeAssumption DEF Made
  <2>7. Sizes' = Sizes /\ Values' = Values
    <3>1. \A u \in TradeIds : (trades'[u] = None) <=> (trades[u] = None)
      BY <2>3, <2>4, NoTradeAssumption
    <3>2. \A u \in TradeIds : trades'[u].ours = trades[u].ours /\ trades'[u].price = trades[u].price
      BY <2>4, <2>5
    <3> QED BY <3>1, <3>2 DEF Sizes, Values
  <2>8. Matched' = Matched
    BY <2>6, <2>7, MatchedNow, MatchedThen DEF EvidenceInv
  <2>9. Confirmed \subseteq Confirmed' /\ t \notin Confirmed
    BY <2>1, <2>4 DEF Confirmed
  <2>10. finding \notin {"Matched", "NoFill"}
    BY <2>9 DEF EvidenceInv
  <2>11. \A u \in Made : Fair(trades'[u])
    BY <2>4, <2>5 DEF EvidenceInv, Fair, Made
  <2>12. ASSUME asking = "Trades"
         PROVE  \E counted \in SUBSET Confirmed' :
                  /\ counted \cap left = {} /\ counted \subseteq Made
                  /\ shares = Sum(Sizes, counted) /\ usd = Sum(Values, counted)
                  /\ \A u \in counted : Whole(trades'[u].ours, trades'[u].price)
    <3>1. PICK counted \in SUBSET Confirmed :
            /\ counted \cap left = {} /\ counted \subseteq Made
            /\ shares = Sum(Sizes, counted) /\ usd = Sum(Values, counted)
            /\ \A u \in counted : Whole(trades[u].ours, trades[u].price)
      BY <2>12 DEF EvidenceInv
    <3>2. \A u \in counted : trades'[u] = trades[u]
      BY <2>4, <2>9, <3>1 DEF Made
    <3> QED BY <2>9, <3>1, <3>2
  <2> QED BY <2>2, <2>4, <2>6, <2>7, <2>8, <2>10, <2>11, <2>12 DEF EvidenceInv, Whole
<1>5. CASE Kill
  <2>1. status # "Matched" /\ status' = "Canceled" /\ UNCHANGED <<trades, asking, left, shares, usd, finding>>
    BY <1>5 DEF Kill, lookupVars
  <2>2. Made' = Made /\ Confirmed' = Confirmed /\ Sizes' = Sizes
    BY <2>1 DEF Made, Confirmed, Sizes
  <2>3. Matched' = Matched
    BY <2>2, MatchedNow, MatchedThen DEF EvidenceInv
  <2> QED BY <2>1, <2>2, <2>3 DEF EvidenceInv, Fair, OrderStatuses
<1>6. CASE AskOrder
  <2>1. PICK ids \in SUBSET Made :
          IF Classify(ids) = "Matched"
          THEN /\ asking' = "Trades" /\ left' = ids /\ shares' = 0 /\ usd' = 0 /\ finding' = None
               /\ UNCHANGED exchangeVars
          ELSE Concludes(Classify(ids))
    BY <1>6 DEF AskOrder
  <2>2. CASE Classify(ids) = "Matched"
    <3>1. status = "Matched" /\ Matched = Size
      BY <2>2, WhatAnAnswerSays DEF EvidenceInv
    <3>2. UNCHANGED exchangeVars /\ asking' = "Trades" /\ left' = ids /\ shares' = 0 /\ usd' = 0 /\ finding' = None
      BY <2>1, <2>2
    <3>3. Sum(Sizes', {}) = 0 /\ Sum(Values', {}) = 0
      BY SumEmpty
    <3>4. finding' \notin {"Matched", "NoFill"}
      BY <3>2, NoEvidenceAssumption DEF Evidence
    <3>5. \E counted \in SUBSET Confirmed' :
            /\ counted \cap left' = {} /\ counted \subseteq Made'
            /\ shares' = Sum(Sizes', counted) /\ usd' = Sum(Values', counted)
            /\ \A t \in counted : Whole(trades'[t].ours, trades'[t].price)
      BY <3>2, <3>3
    <3> QED BY <3>1, <3>2, <3>4, <3>5, TheSameTrades DEF EvidenceInv, Fair, Whole
  <2>3. CASE Classify(ids) = "NoFill"
    <3>1. status = "Canceled" /\ Matched = 0
      BY <2>3, WhatAnAnswerSays DEF EvidenceInv
    <3>2. UNCHANGED exchangeVars /\ asking' = "Idle" /\ finding' = "NoFill"
      BY <2>1, <2>3 DEF Concludes
    <3>3. Made = {}
      <4> SUFFICES ASSUME NEW x \in Made
                   PROVE  FALSE
        OBVIOUS
      <4>1. Sum(Sizes, {}) + Sizes[x] <= Sum(Sizes, Made)
        BY WeightsOfTrades, SumOfPart DEF EvidenceInv
      <4> QED BY <3>1, <4>1, SumEmpty, MatchedIs, WeightsOfTrades
    <3> QED BY <3>1, <3>2, <3>3, TheSameTrades DEF EvidenceInv, Fair
  <2>4. CASE Classify(ids) \notin {"Matched", "NoFill"}
    BY <1>1, <2>1, <2>4 DEF Concludes
  <2> QED BY <2>2, <2>3, <2>4
<1>7. CASE AskTrade
  <2>1. PICK t \in left :
          IF Counts(trades[t]) /\ Whole(Part(trades[t]), trades[t].price)
          THEN /\ left' = left \ {t}
               /\ shares' = shares + Part(trades[t])
               /\ usd' = usd + (Part(trades[t]) * trades[t].price) \div Scale
               /\ UNCHANGED <<exchangeVars, asking, finding>>
          ELSE Concludes("Uncertain")
    BY <1>7 DEF AskTrade
  <2>2. CASE ~ (Counts(trades[t]) /\ Whole(Part(trades[t]), trades[t].price))
    BY <1>1, <2>1, <2>2 DEF Concludes
  <2>3. CASE Counts(trades[t]) /\ Whole(Part(trades[t]), trades[t].price)
    <3>1. asking = "Trades" /\ t \in Made
      BY <1>7 DEF AskTrade, EvidenceInv
    <3>2. Part(trades[t]) = trades[t].ours
      <4>1. trades[t] \in Trades
        BY <3>1 DEF Made, EvidenceInv
      <4> QED BY <3>1, <4>1 DEF Part, EvidenceInv, Fair, Trades
    <3>3. /\ left' = left \ {t} /\ asking' = "Trades" /\ finding' = finding
          /\ shares' = shares + Sizes[t] /\ usd' = usd + Values[t]
          /\ UNCHANGED exchangeVars
      BY <2>1, <2>3, <3>1, <3>2, WeightsOfTrades
    <3>4. t \in Confirmed
      BY <2>3, <3>1 DEF Counts, Confirmed, Made
    <3>5. PICK counted \in SUBSET Confirmed :
            /\ counted \cap left = {} /\ counted \subseteq Made
            /\ shares = Sum(Sizes, counted) /\ usd = Sum(Values, counted)
            /\ \A u \in counted : Whole(trades[u].ours, trades[u].price)
      BY <3>1 DEF EvidenceInv
    <3>6. t \notin counted /\ IsFiniteSet(counted)
      BY <2>1, <3>5, FS_Subset DEF EvidenceInv
    <3>7. Weighs(Sizes, counted \cup {t}) /\ Weighs(Values, counted \cup {t})
      BY <3>1, <3>5, WeightsOfTrades DEF Weighs
    <3>8. /\ Sum(Sizes, counted \cup {t}) = Sizes[t] + Sum(Sizes, counted)
          /\ Sum(Values, counted \cup {t}) = Values[t] + Sum(Values, counted)
      BY <3>6, <3>7, SumWith
    <3>9. /\ Sum(Sizes, counted) \in Nat /\ Sum(Values, counted) \in Nat
          /\ Sizes[t] \in Nat /\ Values[t] \in Nat
      <4>1. Weighs(Sizes, counted) /\ Weighs(Values, counted)
        BY <3>7 DEF Weighs
      <4> QED BY <3>6, <3>7, <4>1, SumWithout DEF Weighs
    <3>10. shares' = Sum(Sizes, counted \cup {t}) /\ usd' = Sum(Values, counted \cup {t})
      BY <3>3, <3>5, <3>8, <3>9
    <3>11. \A u \in counted \cup {t} : Whole(trades[u].ours, trades[u].price)
      BY <2>3, <3>2, <3>5
    <3>12. \E done \in SUBSET Confirmed :
             /\ done \cap left' = {} /\ done \subseteq Made
             /\ shares' = Sum(Sizes, done) /\ usd' = Sum(Values, done)
             /\ \A u \in done : Whole(trades[u].ours, trades[u].price)
      <4>1. counted \cup {t} \in SUBSET Confirmed /\ (counted \cup {t}) \cap left' = {}
            /\ counted \cup {t} \subseteq Made
        BY <3>1, <3>3, <3>4, <3>5
      <4> QED BY <3>10, <3>11, <4>1
    <3> QED BY <3>1, <3>3, <3>12, TheSameTrades DEF EvidenceInv, Fair, Whole
  <2> QED BY <2>2, <2>3
<1>8. CASE Total
  <2>1. asking = "Trades" /\ left = {} /\ Concludes(IF Exact THEN "Matched" ELSE "Uncertain")
    BY <1>8 DEF Total
  <2>2. CASE ~ Exact
    BY <1>1, <2>1, <2>2 DEF Concludes
  <2>3. CASE Exact
    <3>1. UNCHANGED exchangeVars /\ asking' = "Idle" /\ finding' = "Matched"
      BY <2>1, <2>3 DEF Concludes
    <3>2. PICK counted \in SUBSET Confirmed :
            /\ counted \subseteq Made
            /\ shares = Sum(Sizes, counted) /\ usd = Sum(Values, counted)
            /\ \A u \in counted : Whole(trades[u].ours, trades[u].price)
      BY <2>1 DEF EvidenceInv
    <3>3. Sum(Sizes, counted) = Size /\ Sum(Values, counted) = (Size * Limit) \div Scale
      BY <2>3, <3>2 DEF Exact
    <3>4. status = "Matched" /\ Matched = Size /\ Matched <= Size
      BY <2>1 DEF EvidenceInv
    <3>5. counted = Made /\ \A u \in Made : trades[u].price = Limit
      BY <3>2, <3>3, <3>4, ExactIsAll
    <3>6. Confirmed \subseteq Made
      BY DEF Confirmed, Made
    <3>7. Confirmed = Made
      BY <3>2, <3>5, <3>6
    <3> QED BY <3>1, <3>4, <3>5, <3>7, TheSameTrades DEF EvidenceInv, Fair
  <2> QED BY <2>2, <2>3
<1>9. CASE Unusable
  BY <1>1, <1>9 DEF Unusable, Concludes
<1>10. CASE UNCHANGED evidenceVars
  <2>1. UNCHANGED exchangeVars /\ UNCHANGED <<asking, left, shares, usd, finding>>
    BY <1>10 DEF evidenceVars, lookupVars
  <2> QED BY <2>1, TheSameTrades DEF EvidenceInv, Fair, Whole
<1> QED BY <1>2, <1>3, <1>4, <1>5, <1>6, <1>7, <1>8, <1>9, <1>10 DEF EvidenceNext

\* The invariant holds in every reachable state.
THEOREM EvidenceInvariance == EvidenceSpec => []EvidenceInv
  BY InitEvidence, NextEvidence, PTL DEF EvidenceSpec

\* What the gateway reports as decided is so, of an order of any size in any number of trades:
\* amounts that add up to the signed ones leave no room for a trade that is not confirmed, that
\* was not listed or that had another price, although order and trades are asked for one by one.
THEOREM ReportedFatesAreTrue == EvidenceSpec => []EvidenceIsTrue
<1>1. ASSUME EvidenceInv
      PROVE  EvidenceIsTrue
  <2>1. finding = "Matched" => MapThenSumSet(Ours, Confirmed) = Size /\ \A t \in Made : trades[t].price = Limit
    BY <1>1 DEF EvidenceInv, Matched
  <2>2. finding = "NoFill" => status = "Canceled" /\ Made = {}
    BY <1>1 DEF EvidenceInv
  <2> QED BY <2>1, <2>2 DEF EvidenceIsTrue
<1>2. EvidenceInv => EvidenceIsTrue
  BY <1>1
<1> QED BY <1>2, EvidenceInvariance, PTL
=============================================================================
