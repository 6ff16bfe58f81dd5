----------------------------- MODULE LogSubscription -----------------------------
(***************************************************************************)
(* The subscription to the logs of the watched wallet (onchain.rs): a task  *)
(* that connects, subscribes, reads frames and hands the logs to the copy   *)
(* bot over a bounded channel, and that starts again whenever it fails.     *)
(*                                                                          *)
(* The node is external.  It numbers the logs in the order of the chain,    *)
(* sends those of the time a client is subscribed, and may close or break   *)
(* the connection, also because a client that does not read answers no      *)
(* pings.  Its numbers go up to MaxLogs and start again; MaxWire bounds the  *)
(* frames that are under way.                                               *)
(*                                                                          *)
(* A definition named Faulty... is a mistake the next definition could have *)
(* made; nothing uses it.                                                   *)
(***************************************************************************)
EXTENDS Integers, Sequences, SequencesExt

CONSTANTS Capacity,     \* LOG_CHANNEL_CAPACITY
          MaxBackoff,   \* 30 seconds
          MaxLogs, MaxWire

ASSUME SubscriptionAssumption ==
  {Capacity, MaxBackoff, MaxWire, MaxLogs} \subseteq Nat \ {0}

VARIABLES task,         \* where the task is
          backoff,      \* backoff_secs
          pause,        \* how long it sleeps before it connects again
          wire,         \* frames that were sent and not read
          held,         \* the log that waits for room in the channel, 0 if none does
          channel,      \* the logs in the channel
          consumer,     \* "Running" until the receiver is dropped
          emitted,      \* how many logs there were
          received,     \* the logs the bot took
          dropped       \* logs of the time without a connection, of broken ones, malformed ones

taskVars == <<task, backoff, pause, held>>
subscriptionVars == <<taskVars, wire, channel, consumer, emitted, received, dropped>>

\* A task that is where it is said to be, with nothing behind it.
Fresh(place) ==
  /\ task = place /\ backoff = 1 /\ pause = 0 /\ held = 0
  /\ wire = <<>> /\ channel = <<>>
  /\ emitted = 0 /\ received = <<>> /\ dropped = {}

SubscriptionInit == Fresh("Connecting") /\ consumer = "Running"

LogFrames(frames) == { f.log : f \in { g \in ToSet(frames) : g.kind \in {"Log", "Malformed"} } }

\* What the broken connection still held is lost.
Disconnect ==
  /\ wire' = <<>> /\ held' = 0
  /\ dropped' = dropped \cup LogFrames(wire) \cup ({held} \ {0})
  /\ task' = "Pausing"

\* An end without an error: a short pause, and the backoff starts again.
EndCleanly == Disconnect /\ pause' = 2 /\ backoff' = 1

Doubled == IF backoff * 2 < MaxBackoff THEN backoff * 2 ELSE MaxBackoff

Fail == Disconnect /\ pause' = backoff /\ backoff' = Doubled

-----------------------------------------------------------------------------
(* The node                                                                 *)

Subscribed == task \in {"Reading", "Sending"}

Send(frame) == wire' = Append(wire, frame)

\* Nothing is left of the logs so far.
WorkedOff == channel = <<>> /\ held = 0 /\ LogFrames(wire) = {}

\* When the numbers are used up they start again, and the history with them.
Number == IF emitted < MaxLogs THEN emitted + 1 ELSE 1
Since(history, nothing) == IF emitted < MaxLogs THEN history ELSE nothing

\* A log of the watched wallet; the frame can be one that does not parse.
Emit(kind) ==
  /\ emitted < MaxLogs \/ WorkedOff
  /\ emitted' = Number /\ received' = Since(received, <<>>)
  /\ IF Subscribed
     THEN /\ Len(wire) < MaxWire /\ Send([kind |-> kind, log |-> Number])
          /\ dropped' = Since(dropped, {})
     ELSE dropped' = Since(dropped, {}) \cup {Number} /\ UNCHANGED wire
  /\ UNCHANGED <<taskVars, channel, consumer>>

\* A ping, the answer to the subscription, a frame that is no JSON, or a close.
SendOther(kind) ==
  /\ Subscribed /\ Len(wire) < MaxWire
  /\ wire # <<>> => Last(wire).kind \notin {"Ping", "Other", "Close"}
  /\ Send([kind |-> kind, log |-> 0])
  /\ UNCHANGED <<taskVars, channel, consumer, emitted, received, dropped>>

-----------------------------------------------------------------------------
(* The task: run_once and the loop around it                                *)

Wake ==
  /\ task = "Pausing"
  /\ task' = "Connecting" /\ pause' = 0
  /\ UNCHANGED <<backoff, held, wire, channel, consumer, emitted, received, dropped>>

Connect ==
  /\ task = "Connecting"
  /\ task' = "Reading"
  /\ UNCHANGED <<backoff, pause, held, wire, channel, consumer, emitted, received, dropped>>

ConnectFails ==
  /\ task = "Connecting"
  /\ Fail
  /\ UNCHANGED <<channel, consumer, emitted, received>>

\* Pings are answered; what is no notification is skipped.
ReadOther ==
  /\ task = "Reading" /\ wire # <<>> /\ Head(wire).kind \in {"Ping", "Other"}
  /\ wire' = Tail(wire)
  /\ UNCHANGED <<taskVars, channel, consumer, emitted, received, dropped>>

ReadClose ==
  /\ task = "Reading" /\ wire # <<>> /\ Head(wire).kind = "Close"
  /\ EndCleanly
  /\ UNCHANGED <<channel, consumer, emitted, received>>

\* A notification that does not parse ends the connection.
ReadMalformed ==
  /\ task = "Reading" /\ wire # <<>> /\ Head(wire).kind = "Malformed"
  /\ Fail
  /\ UNCHANGED <<channel, consumer, emitted, received>>

\* A log is dropped when the channel is full.
FaultyReadLog ==
  /\ task = "Reading" /\ wire # <<>> /\ Head(wire).kind = "Log"
  /\ IF Len(channel) < Capacity THEN task' = "Sending" /\ held' = Head(wire).log
                                ELSE UNCHANGED <<task, held>>
  /\ wire' = Tail(wire)
  /\ UNCHANGED <<backoff, pause, channel, consumer, emitted, received, dropped>>

ReadLog ==
  /\ task = "Reading" /\ wire # <<>> /\ Head(wire).kind = "Log"
  /\ task' = "Sending" /\ held' = Head(wire).log
  /\ wire' = Tail(wire)
  /\ UNCHANGED <<backoff, pause, channel, consumer, emitted, received, dropped>>

\* The connection breaks; the task notices when it reads or writes.
Break ==
  /\ task = "Reading"
  /\ Fail
  /\ UNCHANGED <<channel, consumer, emitted, received>>

Queued == Append(channel, held)

\* While there is no room nothing is read, and no ping answered.
Deliver ==
  /\ task = "Sending" /\ consumer = "Running" /\ Len(channel) < Capacity
  /\ channel' = Queued
  /\ task' = "Reading" /\ held' = 0
  /\ UNCHANGED <<backoff, pause, wire, consumer, emitted, received, dropped>>

\* "Consumer dropped -- exit cleanly."
Undeliverable ==
  /\ task = "Sending" /\ consumer = "Dropped"
  /\ EndCleanly
  /\ UNCHANGED <<channel, consumer, emitted, received>>

-----------------------------------------------------------------------------
(* The bot                                                                  *)

\* rx.recv(), in the loop of copy_trading.rs.
Take ==
  /\ consumer = "Running" /\ channel # <<>>
  /\ received' = Append(received, Head(channel)) /\ channel' = Tail(channel)
  /\ UNCHANGED <<taskVars, wire, consumer, emitted, dropped>>

\* The run ends and drops the receiver with what is in the channel.
Drop ==
  /\ consumer = "Running" /\ consumer' = "Dropped"
  /\ channel' = <<>> /\ dropped' = dropped \cup ToSet(channel)
  /\ UNCHANGED <<taskVars, wire, emitted, received>>

ReadFrame == ReadOther \/ ReadClose \/ ReadMalformed \/ ReadLog

Proceed == Wake \/ Connect \/ ConnectFails \/ ReadFrame \/ Deliver \/ Undeliverable

SubscriptionNext ==
  \/ \E kind \in {"Log", "Malformed"} : Emit(kind)
  \/ \E kind \in {"Ping", "Other", "Close"} : SendOther(kind)
  \/ Proceed \/ Break
  \/ Take \/ Drop

SubscriptionSpec == SubscriptionInit /\ [][SubscriptionNext]_subscriptionVars

-----------------------------------------------------------------------------
(* Properties                                                               *)

Frames == [kind : {"Log", "Malformed", "Ping", "Other", "Close"}, log : 0 .. MaxLogs]

\* The variables have their types; a pause is between one second and the longest.
SubscriptionTypeOK ==
  /\ task \in {"None", "Connecting", "Reading", "Sending", "Pausing"} /\ (task = "Sending") = (held > 0)
  /\ backoff \in 1 .. MaxBackoff /\ pause \in (0 .. MaxBackoff) \cup {2} /\ (task = "Pausing") = (pause > 0)
  /\ wire \in Seq(Frames) /\ held \in 0 .. MaxLogs /\ consumer \in {"Running", "Dropped"}
  /\ channel \in Seq(1 .. MaxLogs) /\ Len(channel) <= Capacity

\* The logs the bot takes are in the order of the chain and each of them comes once, over all
\* connections; and no log of a living connection is lost, full channel or not: it was taken, or
\* it is in the channel, in the task's hand or on the wire.
LogsAreKept ==
  /\ \A i, j \in 1 .. Len(received) : i < j => received[i] < received[j]
  /\ 1 .. emitted =
       dropped \cup ToSet(received) \cup ToSet(channel) \cup ({held} \ {0}) \cup LogFrames(wire)
=============================================================================
