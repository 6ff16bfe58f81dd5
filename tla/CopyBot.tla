--------------------------------- MODULE CopyBot ---------------------------------
(***************************************************************************)
(* The copy bot with the subscription it lives on: BotLifecycle, in which a *)
(* log may come at any time, and LogSubscription, in which the bot takes    *)
(* one at any time, joined by the channel between them (copy_trading.rs).   *)
(*                                                                          *)
(* The subscription is that of the current run.  The task of an earlier run *)
(* goes on without a consumer and meets nobody any more; it is left out     *)
(* from the moment the next run subscribes.                                 *)
(*                                                                          *)
(* A definition named Faulty... is a mistake the next definition could have *)
(* made; nothing uses it.                                                   *)
(***************************************************************************)
EXTENDS BotLifecycle, LogSubscription

copyVars == <<vars, subscriptionVars>>

\* Before the first run there is no task, and nobody who takes logs.
CopyInit == Init /\ Fresh("None") /\ consumer = "Dropped"

\* spawn_subscription, with the two ends of a new channel.
Subscribe ==
  /\ task' = "Connecting" /\ backoff' = 1 /\ pause' = 0 /\ held' = 0
  /\ wire' = <<>> /\ channel' = <<>> /\ consumer' = "Running"
  /\ emitted' = 0 /\ received' = <<>> /\ dropped' = {}

\* A run that ends keeps its receiver.
FaultyChannel ==
  CASE loop = "Filter" /\ loop' = "Waiting" -> Subscribe
    [] loop = "Waiting" /\ loop' = "Handling" -> Take
    [] OTHER -> UNCHANGED subscriptionVars

\* What a step of the bot does to its channel: the last step of its start makes it, the loop
\* takes a log from it, and the end of the run, by whatever way, drops it.
Channel ==
  CASE loop = "Filter" /\ loop' = "Waiting" -> Subscribe
    [] loop = "Waiting" /\ loop' = "Handling" -> Take
    [] consumer = "Running" /\ loop' = "Off" -> Drop
    [] OTHER -> UNCHANGED subscriptionVars

Bot == Next /\ Channel

\* The subscription's own steps and those of the node.
Stream ==
  \/ \E kind \in {"Log", "Malformed"} : Emit(kind)
  \/ \E kind \in {"Ping", "Other", "Close"} : SendOther(kind)
  \/ Proceed \/ Break

CopyNext == Bot \/ (Stream /\ UNCHANGED vars)

CopySpec == CopyInit /\ [][CopyNext]_copyVars

\* The loop takes a log when there is one and nothing else to do, and the task of the
\* subscription hands over the log it holds when it can.
FairCopySpec ==
  /\ CopySpec /\ Fairness
  /\ WF_copyVars(TakeLog /\ Take) /\ WF_subscriptionVars(Deliver \/ Undeliverable)

-----------------------------------------------------------------------------
(* Properties                                                               *)

\* The channel belongs to a run whose start is done, and to nobody else.
CopyTypeOK ==
  /\ TypeOK /\ SubscriptionTypeOK
  /\ (consumer = "Running") = (loop \in {"Waiting", "Handling", "Queued", "Preparing", "Submitting"})

\* A full channel stops the subscription, but not for good: whatever logs, submissions and
\* exits the loop works off, the task gets rid of its log or of its consumer, unless the loop
\* waits for ever for one request that is never answered.
ReaderGoesOn == [](task = "Sending" => <>(task # "Sending" \/ []AwaitsPeer))
=============================================================================
