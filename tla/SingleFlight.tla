----------------------------- MODULE SingleFlight -----------------------------
(***************************************************************************)
(* What the execution ledger promises, without its states: intents are      *)
(* settled one at a time.  An intent is begun at most once; while it is     *)
(* unresolved nothing else begins; it may change the position book once,    *)
(* and only while it is unresolved; settling it by hand closes a gate that  *)
(* stays closed until the halt marker has been cleaned up.                  *)
(***************************************************************************)
CONSTANT Intents

VARIABLES begun,       \* intents whose identity has been used up
          unresolved,  \* the intent in flight: {} or a singleton
          booked,      \* intents that changed the position book
          gate         \* a marker cleanup is pending

flightVars == <<begun, unresolved, booked, gate>>

Init == begun = {} /\ unresolved = {} /\ booked = {} /\ gate = FALSE

Begin(i) ==
  /\ i \notin begun
  /\ unresolved = {} /\ ~ gate
  /\ begun' = begun \cup {i}
  /\ unresolved' = {i}
  /\ UNCHANGED <<booked, gate>>

Book(i) ==
  /\ i \in unresolved \ booked
  /\ booked' = booked \cup {i}
  /\ UNCHANGED <<begun, unresolved, gate>>

Settle(i) ==
  /\ i \in unresolved
  /\ unresolved' = {}
  /\ UNCHANGED <<begun, booked, gate>>

SettleByHand(i) ==
  /\ i \in unresolved
  /\ unresolved' = {}
  /\ gate' = TRUE
  /\ UNCHANGED <<begun, booked>>

Reopen ==
  /\ gate /\ unresolved = {}
  /\ gate' = FALSE
  /\ UNCHANGED <<begun, unresolved, booked>>

Next == (\E i \in Intents : Begin(i) \/ Book(i) \/ Settle(i) \/ SettleByHand(i)) \/ Reopen

Spec == Init /\ [][Next]_flightVars
=============================================================================
