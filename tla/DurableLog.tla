------------------------------ MODULE DurableLog ------------------------------
(***************************************************************************)
(* What the ledger's files promise, without files: an append-only log and   *)
(* at most one event whose fate is not known yet.  While an event is in     *)
(* doubt nothing else is appended; the doubt ends with the event in the log *)
(* or with the event gone, and what is in the log stays there.              *)
(***************************************************************************)
EXTENDS Sequences

CONSTANT Events

VARIABLES log,    \* the events somebody has relied upon
          doubt   \* the event in doubt: <<>> or <<e>>

logVars == <<log, doubt>>

Init == log = <<>> /\ doubt = <<>>

Begin(e) == doubt = <<>> /\ doubt' = <<e>> /\ UNCHANGED log

Confirm == doubt # <<>> /\ log' = log \o doubt /\ doubt' = <<>>

Withdraw == doubt # <<>> /\ doubt' = <<>> /\ UNCHANGED log

Next == (\E e \in Events : Begin(e)) \/ Confirm \/ Withdraw

Spec == Init /\ [][Next]_logVars
=============================================================================
