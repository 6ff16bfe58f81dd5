------------------------------ MODULE CopyDecision ------------------------------
(***************************************************************************)
(* The decision path of the copy bot: a log of the watched wallet is        *)
(* decoded (parse.rs), checked against what is open, the market's metadata, *)
(* the filters (eligibility.rs), the sizes (strategy.rs), the exposure caps *)
(* and the risk guard, and becomes an order (order_executor.rs) or, in      *)
(* paper mode, a position at once.  Meanwhile the monitor leaves positions, *)
(* and the process stops and starts again.                                  *)
(*                                                                          *)
(* What the guard answers is RiskGuard's subject, what the cache answers    *)
(* MarketCache's, what happens to an order LiveExecution's and              *)
(* RecoveryService's; here each of them does anything that it may do.       *)
(* Amounts are those of OrderAmounts.                                       *)
(*                                                                          *)
(* A definition named Faulty... is a mistake the next definition could have *)
(* made; nothing uses it.                                                   *)
(***************************************************************************)
EXTENDS OrderAmounts, Optional, FiniteSets, FiniteSetsExt

CONSTANTS Logs,         \* [maker, makerAsset, takerAsset, makerAmount, takerAmount]
          Whale,        \* the watched wallet
          Cash,         \* asset 0
          Metadata,     \* Metadata[token]: what Gamma may say, [slug, category, tags, closed]
          Lower,        \* the name in lower case, of slugs, categories and tags
          Filters,      \* [slugBlock, categoriesBlock, tagsBlock, slugAllow, categoriesAllow, tagsAllow]
          CategoryCap, TagCap,  \* functions from the configured names to micro-dollars
          Configs,      \* the values StrategyConfig may have, as in OrderAmounts
          Tick, Buffer  \* the markets' tick, price_buffer

ASSUME ConfigsAssumption ==
  Configs \subseteq [strategy : {"Percentage", "Fixed", "Adaptive"}, percent : Nat, fixed : Nat, multiplier : Nat,
                     least : Nat, most : Nat, leastShares : Nat, threshold : Int, low : Nat, high : Nat]

ASSUME AmountsAssumption ==
  /\ \A log \in Logs : log.makerAmount \in Nat /\ log.takerAmount \in Nat
  /\ Tick \in Nat \ {0} /\ Buffer \in Nat

ASSUME CapsAssumption ==
  /\ \A name \in DOMAIN CategoryCap : CategoryCap[name] \in Nat
  /\ \A name \in DOMAIN TagCap : TagCap[name] \in Nat

VARIABLES live,         \* live_trading_allowed(), for good
          cfg,          \* the strategy, read once
          book,         \* the open positions, [token, slug, category, tags, usd]
          doubt,        \* what an uncertain order would open or close, or None
          pc,           \* where execute is
          trade,        \* the trade at hand
          plan,         \* the planned order: the position it would open, or None
          verdict       \* the risk guard's answer to it

deal == <<pc, trade, plan, verdict>>
settings == <<live, cfg>>
vars == <<settings, book, doubt, deal>>

Init ==
  /\ live \in BOOLEAN /\ cfg \in Configs /\ book = {} /\ doubt = None
  /\ pc = "Idle" /\ trade = None /\ plan = None /\ verdict = None

-----------------------------------------------------------------------------
(* parse.rs                                                                 *)

Shares6(amount) == amount \div 1000000

\* A log with a topic or a body that does not parse is an error, one of another event or
\* another maker is not relevant; neither gets any further.
Relevant(log) == log.maker = Whale

\* A maker who gives outcome tokens sells them.
Decoded(log) ==
  IF log.makerAsset # Cash
  THEN [side |-> "Sell", token |-> log.makerAsset, shares |-> Shares6(log.makerAmount), usd |-> log.takerAmount]
  ELSE [side |-> "Buy", token |-> log.takerAsset, shares |-> Shares6(log.takerAmount), usd |-> log.makerAmount]

-----------------------------------------------------------------------------
(* eligibility.rs                                                           *)

\* ci_eq: the same but for the case of letters.
Named(names, name) == { n \in names : Lower[n] = Lower[name] }

Listed(names, name) == name # None /\ Named(names, name) # {}

SomeListed(names, tags) == \E tag \in tags : Named(names, tag) # {}

IsStrict == Filters.slugAllow \cup Filters.categoriesAllow \cup Filters.tagsAllow # {}

\* Block lists first; then, if there is an allow list at all, one of them has to match.
Eligible(market) ==
  /\ ~ market.closed
  /\ market.slug \notin Filters.slugBlock
  /\ ~ Listed(Filters.categoriesBlock, market.category)
  /\ ~ SomeListed(Filters.tagsBlock, market.tags)
  /\ IsStrict =>
       \/ market.slug \in Filters.slugAllow
       \/ Listed(Filters.categoriesAllow, market.category)
       \/ SomeListed(Filters.tagsAllow, market.tags)

-----------------------------------------------------------------------------
(* order_executor.rs: the exposure caps                                     *)

Usd(position) == position.usd

Total(positions) == MapThenSumSet(Usd, positions)

\* open_usd_by_category, open_usd_by_tag.
InCategory(positions, name) ==
  { p \in positions : p.category # None /\ Lower[p.category] = Lower[name] }

Tagged(positions, name) == { p \in positions : Named(p.tags, name) # {} }

\* The position a trade would add is not counted.
FaultyRoom(positions, want, limit) == Total(positions) * 100 <= limit * 100

Room(positions, want, limit) == Total(positions) * 100 + want <= limit * 100

\* Several configured names can be the same but for their case, and the code takes whichever
\* its hash map gives first.
CategoryRoom(market, want) ==
  IF Listed(DOMAIN CategoryCap, market.category)
  THEN { Room(InCategory(book, market.category), want, CategoryCap[n]) :
           n \in Named(DOMAIN CategoryCap, market.category) }
  ELSE {TRUE}

TagRoom(tag, want) ==
  IF Named(DOMAIN TagCap, tag) = {} THEN {TRUE}
  ELSE { Room(Tagged(book, tag), want, TagCap[n]) : n \in Named(DOMAIN TagCap, tag) }

Admitted(market, want) ==
  TRUE \in CategoryRoom(market, want) /\ \A tag \in market.tags : TRUE \in TagRoom(tag, want)

Capped(market, want) ==
  FALSE \in CategoryRoom(market, want) \/ \E tag \in market.tags : FALSE \in TagRoom(tag, want)

-----------------------------------------------------------------------------
(* order_executor.rs: execute                                               *)

IsOpen(token) == \E p \in book : p.token = token

\* The book is not looked at.
FaultyMirrored(t) == t.side = "Buy"

\* Sales are not mirrored, and what is open is not bought again.
Mirrored(t) == t.side = "Buy" /\ ~ IsOpen(t.token)

Receive(log) ==
  /\ pc = "Idle"
  /\ Relevant(log) /\ Mirrored(Decoded(log))
  /\ pc' = "Metadata" /\ trade' = Decoded(log) /\ plan' = None /\ verdict' = None
  /\ UNCHANGED <<settings, book, doubt>>

Finished == pc' = "Idle" /\ trade' = None

Skip == Finished /\ UNCHANGED <<settings, book, doubt, plan, verdict>>

MetadataFails == pc = "Metadata" /\ Skip

Planned(market) ==
  LET limit == LimitFor(trade, Buffer)
      usd == CopyUsd(cfg, trade.usd) IN
  [token |-> trade.token, slug |-> market.slug, category |-> market.category,
   tags |-> market.tags, usd |-> usd, limit |-> limit, shares |-> Shares(usd, limit)]

Decline(market) ==
  /\ pc = "Metadata"
  /\ \/ ~ Eligible(market)
     \/ ~ Sized(cfg, trade)
     \/ Capped(market, CopyUsd(cfg, trade.usd))
  /\ Skip

\* The guard blocks the trade.
Block(market) ==
  /\ pc = "Metadata"
  /\ Eligible(market) /\ Sized(cfg, trade) /\ Admitted(market, CopyUsd(cfg, trade.usd))
  /\ Finished /\ verdict' = "Block"
  /\ UNCHANGED <<settings, book, doubt, plan>>

\* What the guard would see the book for goes on like the rest.
Plan(market, answer) ==
  /\ pc = "Metadata"
  /\ Eligible(market) /\ Sized(cfg, trade) /\ Admitted(market, CopyUsd(cfg, trade.usd))
  /\ pc' = "Planned" /\ plan' = Planned(market) /\ verdict' = answer
  /\ UNCHANGED <<settings, book, doubt, trade>>

\* A position of usd micro-dollars.
Position(usd) ==
  [token |-> plan.token, slug |-> plan.slug, category |-> plan.category, tags |-> plan.tags,
   usd |-> usd]

\* record_open_from_plan.  apply_open refuses a second position of the token.
RecordPaper ==
  /\ ~ live /\ pc = "Planned"
  /\ WholeMicros(plan.usd) /\ plan.shares > 0 /\ ~ IsOpen(plan.token)
  /\ book' = book \cup {Position(plan.usd \div 100)}
  /\ Finished /\ UNCHANGED <<settings, doubt, plan, verdict>>

\* An amount that is not a whole number of micro-dollars is an error, which is logged.
FailPaper ==
  /\ ~ live /\ pc = "Planned"
  /\ ~ (WholeMicros(plan.usd) /\ plan.shares > 0 /\ ~ IsOpen(plan.token))
  /\ Finished /\ UNCHANGED <<settings, book, doubt, plan, verdict>>

\* What the aligned order is worth, which a confirmed FOK order fills exactly.
Filled == Worth(plan.shares, AlignPrice(plan.limit, Tick, "Buy"))

Submittable == Prepared(plan.limit, Tick, "Buy", plan.shares)

Fill ==
  /\ live /\ pc = "Planned" /\ doubt = None /\ Submittable
  /\ book' = book \cup {Position(Filled)}
  /\ Finished /\ UNCHANGED <<settings, doubt, plan, verdict>>

\* Preflight and rejections.
NotSubmitted == live /\ pc = "Planned" /\ Skip

\* The order is in the journal and its outcome unknown: Uncertain, or the process stops.
EntryInDoubt ==
  /\ live /\ pc = "Planned" /\ doubt = None /\ Submittable
  /\ doubt' = [opens |-> {Position(Filled)}, closes |-> {}]
  /\ Finished /\ UNCHANGED <<settings, book, plan, verdict>>

-----------------------------------------------------------------------------
(* The monitor, recovery and restarts                                       *)

\* A filled exit, which can come between the plan of execute and its turn at submit_lock.
Leave(p) ==
  /\ live /\ doubt = None
  /\ book' = book \ {p}
  /\ UNCHANGED <<settings, doubt, deal>>

LeaveInDoubt(p) ==
  /\ live /\ doubt = None
  /\ doubt' = [opens |-> {}, closes |-> {p}]
  /\ UNCHANGED <<settings, book, deal>>

\* Another process.
Afresh ==
  /\ pc' = "Idle" /\ trade' = None /\ plan' = None /\ verdict' = None
  /\ UNCHANGED settings

\* The process has ended, and the operator resolves the order with what the venue
\* says of it.
Resolve(filled) ==
  /\ doubt # None
  /\ book' = IF filled THEN (book \cup doubt.opens) \ doubt.closes ELSE book
  /\ doubt' = None /\ Afresh

\* A live book is rebuilt from the ledger, a paper book is gone.
Restart ==
  /\ book' = IF live THEN book ELSE {}
  /\ Afresh /\ UNCHANGED doubt

Decide ==
  \E market \in Metadata[trade.token] :
    Decline(market) \/ Block(market) \/ (\E answer \in {"Allow", "FetchBook"} : Plan(market, answer))

Next ==
  \/ \E log \in Logs : Receive(log)
  \/ MetadataFails
  \/ pc = "Metadata" /\ Decide
  \/ RecordPaper \/ FailPaper
  \/ Fill \/ NotSubmitted \/ EntryInDoubt
  \/ \E p \in book : Leave(p) \/ LeaveInDoubt(p)
  \/ \E filled \in BOOLEAN : Resolve(filled)
  \/ Restart

Spec == Init /\ [][Next]_vars
-----------------------------------------------------------------------------
(* Properties                                                               *)

\* The variables have their types; there is one position of a token at most.
TypeOK ==
  /\ live \in BOOLEAN
  /\ pc \in {"Idle", "Metadata", "Planned"} /\ (pc = "Idle") = (trade = None)
  /\ verdict \in {"Allow", "FetchBook", "Block", None}
  /\ \A p \in book : p.usd \in Nat \ {0}
  /\ \A p, q \in book : p.token = q.token => p = q

\* What is open, what an order in doubt or a planned one would open.
Exposed ==
  book \cup (IF doubt = None THEN {} ELSE doubt.opens)
       \cup (IF pc = "Planned" /\ live /\ doubt = None THEN {Position(Filled)} ELSE {})

\* Names that are the same but for their case can have several caps, of which one is applied.
AtMost(positions, caps, name) ==
  \E n \in Named(DOMAIN caps, name) : Total(positions) <= caps[n]

\* Exits, orders in doubt, what the operator makes of them and restarts included, what is open
\* in a category or under a tag stays within its cap, although the book is read long before
\* the order is filled.
CapsHold ==
  /\ \A name \in DOMAIN CategoryCap : AtMost(InCategory(Exposed, name), CategoryCap, name)
  /\ \A name \in DOMAIN TagCap : AtMost(Tagged(Exposed, name), TagCap, name)

\* No order is planned, in doubt or lost for a token of which a position is open, although that
\* was looked up before the metadata was waited for.
BuysNothingItHolds ==
  /\ pc = "Planned" => ~ IsOpen(plan.token)
  /\ doubt # None => \A p \in doubt.opens : ~ IsOpen(p.token)

\* What is signed and booked costs no more than was planned, and that no more than the largest
\* order of the configuration, whatever was rounded and aligned on the way.
WithinBudget ==
  live /\ pc = "Planned" /\ Submittable =>
    Filled * 100 <= plan.usd /\ plan.usd <= cfg.most * 100
=============================================================================
