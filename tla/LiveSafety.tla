------------------------------ MODULE LiveSafety ------------------------------
(***************************************************************************)
(* What must hold of live trading: between what the ledger file says and    *)
(* what the exchange has done, whatever the two callers, crashes and failed *)
(* appends do in between.                                                   *)
(***************************************************************************)
EXTENDS LiveExecution, LedgerSafety, FiniteSets

Critical == Steps \ {"Planned", "Queued"}

\* The variables have their types, and a caller is between check() and the end of
\* submit_fok exactly while it holds the submission lock.
LiveTypeOK ==
  /\ proj \in Projections /\ disk \in Projections
  /\ {opens, fatal, halted, marker} \subseteq BOOLEAN /\ owner \in Processes \cup {None}
  /\ at \in [Callers -> Steps \cup Exits]
  /\ plan \in [Callers -> Plans \cup {None}] /\ job \in [Callers -> Submissions \cup {None}]
  /\ exchange \in [Orders -> Sent \cup {None}]
  /\ \A c \in Callers : at[c] \in Critical <=> lock = c

Posted(o) == exchange[o] # None
HasFate(o, fate) == Posted(o) /\ exchange[o].fate = fate

\* The book on disk shows the effect of order o.
OnDisk(o) == disk.orderIntents[o] # None /\ HasEffect(disk, disk.orderIntents[o])
Accounted(o) == disk.orderIntents[o] # None /\ Settled(disk, disk.orderIntents[o])

\* No order reaches the exchange before the ledger file says that its submission has
\* started: after any crash the file names every order that may exist.
JournaledBeforePost ==
  \A o \in Orders : Posted(o) =>
    /\ disk.orderIntents[o] # None
    /\ ActiveFor(disk, disk.orderIntents[o]) => disk.active.state # "NotSent"

\* The book on disk shows no fill the exchange did not make, and no fill is forgotten: until
\* it is in the book its intent stays unresolved.  An undecided order stays unresolved too.
BookMatchesExchange ==
  \A o \in Orders :
    /\ OnDisk(o) => HasFate(o, "Filled")
    /\ Accounted(o) => ~ HasFate(o, "InFlight") /\ (HasFate(o, "Filled") => OnDisk(o))

Fills(token, side) ==
  { o \in Orders : HasFate(o, "Filled") /\ exchange[o].token = token /\ exchange[o].side = side }

\* What the wallet really holds of a token is nothing or one position: entries never pile up
\* and no exit sells what an earlier exit has sold, also after an answer was lost.
HoldsAtMostOne ==
  \A token \in Tokens :
    Cardinality(Fills(token, "Buy")) - Cardinality(Fills(token, "Sell")) \in {0, 1}

\* The bot starts only when every order it ever posted is decided and the book it starts from
\* shows exactly the fills ("reconstruct the exact committed position state or remain halted").
RestartFindsFates ==
  [][~ BotRuns /\ BotRuns' => /\ proj' = disk
                    /\ \A o \in Orders : Posted(o) =>
                         ~ HasFate(o, "InFlight") /\ (HasFate(o, "Filled") <=> OnDisk(o))]_liveVars

\* Once the breaker is halted no order leaves, although two callers share it and the marker
\* may not have reached the disk.
NoPostAfterHalt ==
  [][halted => \A o \in Orders : Posted(o)' => Posted(o)]_liveVars

Journaled == {"Prepared", "Started", "Posted", "Matched", "Booking", "Booked",
              "Rejected", "Dropping", "Uncertain", "Halting"}

\* A submission that has been journaled ends, and the lock is free again, even if the
\* exchange never answers.
SubmissionEnds == \A c \in Callers : at[c] \in Journaled ~> at[c] \in Exits

-----------------------------------------------------------------------------
(* The promise of OrderAccount, read off the exchange and the ledger file    *)

Account == INSTANCE OrderAccount WITH
  open <- { o \in Orders : HasFate(o, "InFlight") },
  filled <- { o \in Orders : HasFate(o, "Filled") },
  killed <- { o \in Orders : HasFate(o, "Killed") },
  inBook <- { o \in Orders : OnDisk(o) },
  accounted <- { o \in Orders : Posted(o) /\ Accounted(o) }

\* Orders are sent one at a time and once each, and settled with their fate in the book.
ImplementsOrderAccount == Account!Spec
=============================================================================
