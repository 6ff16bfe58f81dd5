----------------------------- MODULE OrderAccount -----------------------------
(***************************************************************************)
(* What live trading promises about the orders it sends, across crashes and *)
(* restarts: one order at a time, sent once.  The next one leaves only when *)
(* the fate of every earlier one is known and accounted for, and an order   *)
(* is in the position book exactly when the exchange has filled it.         *)
(***************************************************************************)
CONSTANT Orders

VARIABLES open,       \* sent, and not decided by the exchange
          filled,     \* filled by the exchange
          killed,     \* refused or killed by the exchange
          inBook,     \* the position book shows the fill
          accounted   \* the ledger has settled the order for good

accountVars == <<open, filled, killed, inBook, accounted>>

Init == open = {} /\ filled = {} /\ killed = {} /\ inBook = {} /\ accounted = {}

sent == open \cup filled \cup killed

Send(o) ==
  /\ o \notin sent
  /\ sent \subseteq accounted
  /\ open' = open \cup {o}
  /\ UNCHANGED <<filled, killed, inBook, accounted>>

Fill(o) ==
  /\ o \in open
  /\ open' = open \ {o} /\ filled' = filled \cup {o}
  /\ UNCHANGED <<killed, inBook, accounted>>

Kill(o) ==
  /\ o \in open
  /\ open' = open \ {o} /\ killed' = killed \cup {o}
  /\ UNCHANGED <<filled, inBook, accounted>>

Book(o) ==
  /\ o \in filled \ inBook
  /\ inBook' = inBook \cup {o}
  /\ UNCHANGED <<open, filled, killed, accounted>>

Account(o) ==
  /\ o \in inBook \cup killed
  /\ accounted' = accounted \cup {o}
  /\ UNCHANGED <<open, filled, killed, inBook>>

Next == \E o \in Orders : Send(o) \/ Fill(o) \/ Kill(o) \/ Book(o) \/ Account(o)

Spec == Init /\ [][Next]_accountVars
=============================================================================
