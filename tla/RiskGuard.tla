------------------------------- MODULE RiskGuard --------------------------------
(***************************************************************************)
(* The risk guard of the decision path (risk_guard.rs): a window of large   *)
(* trades per outcome token, and a trip that blocks for a while.            *)
(*                                                                          *)
(* Instants are kept as ages: the time since a trade, the time a trip has   *)
(* still to last.  The code only compares them with the window and the trip *)
(* duration, so an age stops at Window + 1 and no bound on time is needed.  *)
(*                                                                          *)
(* A definition named Faulty... is a mistake the next definition could have *)
(* made; nothing uses it.                                                   *)
(***************************************************************************)
EXTENDS Integers, Sequences

CONSTANTS Tokens,
          Window,         \* sequence_window_secs
          Trigger,        \* consecutive_trigger
          TripDuration    \* trip_duration_secs

ASSUME RiskAssumption ==
  Window \in Nat /\ Trigger \in Nat \ {0} /\ TripDuration \in Nat \ {0}

Answers == {"Allow", "FetchBook", "Tripped", "ConsecutiveLargeTrades", "InsufficientDepth"}

VARIABLES history,      \* history[t]: ages of the large trades of token t, oldest first
          trippedFor,   \* how long tripped_until is ahead; 0 when it is past or unset
          lastCall,     \* the last call and its answer
          passed,       \* ages of the large trades let through, those within the window
          sinceTrip     \* time since the last trip, TripDuration at most

guardVars == <<history, trippedFor, lastCall>>
riskVars == <<guardVars, passed, sinceTrip>>

Least(a, b) == IF a <= b THEN a ELSE b

GuardInit ==
  /\ history = [t \in Tokens |-> <<>>] /\ trippedFor = 0
  /\ lastCall = <<"none", "Allow">>
  /\ passed = [t \in Tokens |-> <<>>] /\ sinceTrip = TripDuration

Tripped == trippedFor > 0

\* How many entries at the front are older than last.
Expired(ages, last) ==
  CHOOSE n \in 0 .. Len(ages) :
    (\A i \in 1 .. n : ages[i] > last) /\ (n < Len(ages) => ages[n + 1] <= last)

\* What popping them leaves.
Since(ages, last) == SubSeq(ages, Expired(ages, last) + 1, Len(ages))

\* The bucket loses its entry that is exactly as old as the window, too.
FaultyFresh(bucket) == Since(bucket, Window - 1)

\* Entries strictly older than the window are dropped.
Fresh(bucket) == Since(bucket, Window)

Bucket(t) == Append(Fresh(history[t]), 0)

FastAnswer(t, large) ==
  CASE Tripped -> "Tripped"
    [] ~ Tripped /\ ~ large -> "Allow"
    [] ~ Tripped /\ large -> IF Len(Bucket(t)) >= Trigger THEN "ConsecutiveLargeTrades" ELSE "FetchBook"

TripsOn(answer) == answer = "ConsecutiveLargeTrades"

\* A trade that is blocked because of an earlier trip is not counted.
CheckFast(t, large) ==
  LET answer == FastAnswer(t, large) IN
  /\ history' = IF large /\ ~ Tripped THEN [history EXCEPT ![t] = Bucket(t)] ELSE history
  /\ trippedFor' = IF TripsOn(answer) THEN TripDuration ELSE trippedFor
  /\ lastCall' = <<"fast", answer>>
  /\ passed' = IF answer = "FetchBook" THEN [passed EXCEPT ![t] = Append(@, 0)] ELSE passed
  /\ sinceTrip' = IF answer = "ConsecutiveLargeTrades" THEN 0 ELSE sinceTrip

\* A trip during a trip does not prolong it.
FaultyTrip ==
  /\ trippedFor' = IF Tripped THEN trippedFor ELSE TripDuration
  /\ sinceTrip' = 0

Trip ==
  /\ trippedFor' = TripDuration
  /\ sinceTrip' = 0

CheckWithBook(deep) ==
  /\ IF deep THEN UNCHANGED <<trippedFor, sinceTrip>> ELSE Trip
  /\ lastCall' = <<"book", IF deep THEN "Allow" ELSE "InsufficientDepth">>
  /\ UNCHANGED <<history, passed>>

ManualTrip ==
  /\ Trip
  /\ lastCall' = <<"none", "Allow">>
  /\ UNCHANGED <<history, passed>>

Aged(ages) == [i \in DOMAIN ages |-> Least(ages[i] + 1, Window + 1)]

TimePasses ==
  /\ history' = [t \in Tokens |-> Aged(history[t])]
  /\ trippedFor' = IF Tripped THEN trippedFor - 1 ELSE 0
  /\ passed' = [t \in Tokens |-> Since(Aged(passed[t]), Window)]
  /\ sinceTrip' = Least(sinceTrip + 1, TripDuration)
  /\ lastCall' = <<"none", "Allow">>

SomeCheckFast == \E t \in Tokens, large \in BOOLEAN : CheckFast(t, large)

SomeCheckWithBook == \E deep \in BOOLEAN : CheckWithBook(deep)

GuardNext == SomeCheckFast \/ SomeCheckWithBook \/ ManualTrip \/ TimePasses

GuardSpec == GuardInit /\ [][GuardNext]_riskVars

-----------------------------------------------------------------------------
(* Properties                                                               *)

Times(last) == 0 .. last

\* The variables have their types, every bucket oldest first.
GuardTypeOK ==
  /\ trippedFor \in Times(TripDuration) /\ sinceTrip \in Times(TripDuration)
  /\ lastCall \in {"none", "fast", "book"} \X Answers
  /\ \A t \in Tokens :
       /\ history[t] \in Seq(Times(Window + 1)) /\ passed[t] \in Seq(Times(Window))
       /\ \A i, j \in DOMAIN history[t] : i <= j => history[t][i] >= history[t][j]

\* Whatever the order of calls, trips and cooldowns, fewer than Trigger large trades of one
\* token are let through within one window, both ends of it included.
NoBurst == \A t \in Tokens : Len(passed[t]) < Trigger

\* The fast check lets nothing through before a trip, from whatever side it came and however
\* often it was renewed, has lasted its whole duration.
FastHonoursCooldown ==
  lastCall[1] = "fast" /\ lastCall[2] \in {"Allow", "FetchBook"} => sinceTrip >= TripDuration
=============================================================================
