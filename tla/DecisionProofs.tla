--------------------------- MODULE DecisionProofs ---------------------------
(***************************************************************************)
(* Proofs about what a decision to copy a trade rests on: the amounts and   *)
(* the caps of CopyDecision, the bursts that RiskGuard lets pass and the    *)
(* state of a market that MarketCache answers from.                         *)
(***************************************************************************)
EXTENDS CopyDecision, RiskGuard, MarketCache, SetSums

-----------------------------------------------------------------------------
(* OrderAmounts                                                             *)

\* clamp_price stays in its band.
LEMMA ClampInBand ==
  ASSUME NEW a \in Int, NEW b \in Nat \ {0}
  PROVE  ClampPrice(a, b) \in Lowest .. Highest
<1>1. (2 * a + b) \div (2 * b) \in Int
  OBVIOUS
<1> QED BY <1>1 DEF ClampPrice, High, Low, Lowest, Highest

\* A price on the market's grid, not above the limit of a buyer and not below that of a seller:
\* alignment never crosses the limit.
THEOREM AlignmentKeepsTheLimit ==
  ASSUME NEW price \in Nat, NEW tick \in Nat \ {0}
  PROVE  /\ AlignPrice(price, tick, "Buy") \in Nat /\ AlignPrice(price, tick, "Buy") <= price
         /\ AlignPrice(price, tick, "Sell") \in Nat /\ AlignPrice(price, tick, "Sell") >= price
         /\ price - AlignPrice(price, tick, "Buy") < tick
         /\ AlignPrice(price, tick, "Sell") - price < tick
<1>1. price % tick \in 0 .. tick - 1
  OBVIOUS
<1>2. price % tick <= price
  OBVIOUS
<1> QED BY <1>1, <1>2 DEF AlignPrice

LEMMA QuotientTimesDivisor ==
  ASSUME NEW a \in Nat, NEW b \in Nat \ {0}
  PROVE  (a \div b) \in Nat /\ (a \div b) * b <= a
<1>1. (a \div b) \in Nat
  OBVIOUS
<1>2. a = b * (a \div b) + (a % b) /\ (a % b) \in Nat
  OBVIOUS
<1>3. ASSUME NEW q \in Nat, NEW r \in Nat, a = b * q + r
      PROVE  q * b <= a
  BY <1>3
<1> QED BY <1>1, <1>2, <1>3

LEMMA WorthInUnits ==
  ASSUME NEW n \in Nat, NEW price \in Nat
  PROVE  /\ Worth(n, price) * 100 = n * (price * Micros * 100)
         /\ Worth(n, price) * 100 = (n * price) * 100000
<1>1. n * (price * 100000) = (n * price) * 100000
  OBVIOUS
<1>2. price * 1000 * 100 = price * 100000 /\ n * price \in Nat
  OBVIOUS
<1>3. (n * price) * 1000 * 100 = (n * price) * 100000
  BY <1>2
<1> QED BY <1>1, <1>2, <1>3 DEF Worth, Micros

\* usd_to_shares rounds down: the shares cost no more than the money at the price they were
\* counted with.
LEMMA SharesAreAffordable ==
  ASSUME NEW usd \in Nat, NEW price \in Nat \ {0}
  PROVE  /\ Shares(usd, price) \in Nat
         /\ Worth(Shares(usd, price), price) * 100 <= usd
<1> DEFINE unit == price * Micros * 100
           shares == usd \div unit
<1>1. unit \in Nat \ {0}
  BY DEF Micros
<1>2. shares \in Nat /\ shares * unit <= usd
  <2> HIDE DEF unit
  <2> QED BY <1>1, QuotientTimesDivisor
<1>3. Worth(shares, price) * 100 = shares * unit
  BY <1>2, WorthInUnits
<1> QED BY <1>2, <1>3 DEF Shares

\* What an order costs at a price that is not above the one its shares were counted with.
LEMMA AlignedIsAffordable ==
  ASSUME NEW usd \in Nat, NEW limit \in Nat \ {0}, NEW tick \in Nat \ {0},
         AlignPrice(limit, tick, "Buy") \in Nat
  PROVE  Worth(Shares(usd, limit), AlignPrice(limit, tick, "Buy")) * 100 <= usd
<1> DEFINE price == AlignPrice(limit, tick, "Buy")
           shares == Shares(usd, limit)
<1>1. price \in Nat /\ price <= limit
  BY AlignmentKeepsTheLimit
<1>2. shares \in Nat /\ Worth(shares, limit) * 100 <= usd
  BY SharesAreAffordable
<1> HIDE DEF shares, price
<1>3. shares * price <= shares * limit /\ shares * price \in Nat /\ shares * limit \in Nat
  BY <1>1, <1>2
<1>4. (shares * price) * 100000 <= (shares * limit) * 100000
  BY <1>3
<1>5. /\ Worth(shares, price) * 100 = (shares * price) * 100000
      /\ Worth(shares, limit) * 100 = (shares * limit) * 100000
  BY <1>1, <1>2, WorthInUnits
<1>6. Worth(shares, price) * 100 <= usd
  BY <1>2, <1>3, <1>4, <1>5
<1> QED BY <1>6 DEF shares, price

\* strategy.rs: a copy that is large enough is a number of hundredths of a micro-dollar, and
\* no more than the largest.
LEMMA CopiesAreCapped ==
  ASSUME NEW c \in Configs, NEW t, t.shares \in Nat, t.usd \in Nat, Sized(c, t)
  PROVE  CopyUsd(c, t.usd) \in Nat /\ CopyUsd(c, t.usd) <= c.most * 100
<1>1. /\ c.strategy \in {"Percentage", "Fixed", "Adaptive"}
      /\ c.percent \in Nat /\ c.fixed \in Nat /\ c.multiplier \in Nat /\ c.least \in Nat
      /\ c.most \in Nat /\ c.threshold \in Int /\ c.low \in Nat /\ c.high \in Nat
  BY ConfigsAssumption
<1>2. AdaptivePercent(c, t.usd) \in Int
  <2>1. CASE c.threshold <= 0
    BY <1>1, <2>1 DEF AdaptivePercent
  <2>2. CASE ~ (c.threshold <= 0)
    <3>1. (c.high - c.low) * 100 * c.threshold \in Int /\ c.threshold + t.usd \in Nat \ {0}
      BY <1>1, <2>2
    <3>2. ((c.high - c.low) * 100 * c.threshold) \div (c.threshold + t.usd) \in Int
      BY <3>1
    <3> QED BY <1>1, <2>2, <3>2 DEF AdaptivePercent
  <2> QED BY <2>1, <2>2
<1>3. BaseUsd(c, t.usd) \in Int
  <2>1. CASE c.strategy = "Percentage"
    BY <1>1, <2>1 DEF BaseUsd
  <2>2. CASE c.strategy = "Fixed"
    BY <1>1, <2>2 DEF BaseUsd
  <2>3. CASE c.strategy = "Adaptive"
    <3>1. t.usd \div 100 \in Nat
      OBVIOUS
    <3>2. BaseUsd(c, t.usd) = (t.usd \div 100) * AdaptivePercent(c, t.usd)
      BY <2>3 DEF BaseUsd
    <3> QED BY <1>2, <3>1, <3>2
  <2> QED BY <1>1, <2>1, <2>2, <2>3
<1>4. BaseUsd(c, t.usd) * c.multiplier \in Int /\ c.most * 100 \in Nat
  BY <1>1, <1>3
<1>5. CopyUsd(c, t.usd) \in Int /\ CopyUsd(c, t.usd) <= c.most * 100
  BY <1>4 DEF CopyUsd, Low
<1> QED BY <1>1, <1>5 DEF Sized

-----------------------------------------------------------------------------
(* CopyDecision                                                             *)

\* A trade is looked at, an order planned or in doubt for tokens only of which no position is
\* open; the plan is the sizing's, and paper orders are never in doubt.
IInv ==
  /\ cfg \in Configs
  /\ pc \in {"Idle", "Metadata", "Planned"}
  /\ pc = "Metadata" => trade.shares \in Nat /\ trade.usd \in Nat /\ ~ IsOpen(trade.token)
  /\ pc = "Planned" =>
       /\ plan.limit \in Lowest .. Highest
       /\ plan.usd \in Nat /\ plan.usd <= cfg.most * 100
       /\ plan.shares = Shares(plan.usd, plan.limit)
       /\ ~ IsOpen(plan.token)
  /\ doubt # None => live /\ \A p \in doubt.opens : ~ IsOpen(p.token)

LEMMA DecodedIsCounted ==
  ASSUME NEW log \in Logs
  PROVE  Decoded(log).shares \in Nat /\ Decoded(log).usd \in Nat
<1>1. log.makerAmount \in Nat /\ log.takerAmount \in Nat
  BY AmountsAssumption
<1>2. \A n \in Nat : n \div 1000000 \in Nat
  OBVIOUS
<1> QED BY <1>1, <1>2 DEF Decoded, Shares6

LEMMA LimitInBand ==
  ASSUME NEW t, t.shares \in Nat, t.usd \in Nat
  PROVE  LimitFor(t, Buffer) \in Lowest .. Highest
<1>1. CASE t.shares = 0
  BY <1>1, ClampInBand, AmountsAssumption DEF LimitFor
<1>2. CASE t.shares # 0
  <2>1. t.shares * Micros \in Nat \ {0} /\ t.usd + t.shares * Micros * Buffer \in Int
    BY <1>2, AmountsAssumption DEF Micros
  <2> QED BY <1>2, <2>1, ClampInBand DEF LimitFor
<1> QED BY <1>1, <1>2

LEMMA InitIInv == Init => IInv
  BY DEF Init, IInv

LEMMA NextIInv == IInv /\ [Next]_vars => IInv'
<1> SUFFICES ASSUME IInv, [Next]_vars
             PROVE  IInv'
  OBVIOUS
<1> USE DEF IInv, settings, deal
<1>1. ASSUME NEW log \in Logs, Receive(log)
      PROVE  IInv'
  BY <1>1, DecodedIsCounted DEF Receive, Mirrored, IsOpen
<1>2. CASE MetadataFails
  BY <1>2 DEF MetadataFails, Skip, Finished, IsOpen
<1>3. ASSUME pc = "Metadata", NEW market \in Metadata[trade.token], Decline(market)
      PROVE  IInv'
  BY <1>3 DEF Decline, Skip, Finished, IsOpen
<1>4. ASSUME pc = "Metadata", NEW market \in Metadata[trade.token], Block(market)
      PROVE  IInv'
  BY <1>4 DEF Block, Finished, IsOpen
<1>5. ASSUME pc = "Metadata", NEW market \in Metadata[trade.token],
             NEW said \in {"Allow", "FetchBook"}, Plan(market, said)
      PROVE  IInv'
  <2>1. plan' = Planned(market) /\ pc' = "Planned" /\ UNCHANGED <<live, cfg, book, doubt>>
    BY <1>5 DEF Plan
  <2>2. CopyUsd(cfg, trade.usd) \in Nat /\ CopyUsd(cfg, trade.usd) <= cfg.most * 100
    BY <1>5, CopiesAreCapped DEF Plan
  <2>3. LimitFor(trade, Buffer) \in Lowest .. Highest
    BY <1>5, LimitInBand
  <2> QED BY <1>5, <2>1, <2>2, <2>3 DEF Planned, IsOpen
<1>6. CASE RecordPaper
  BY <1>6 DEF RecordPaper, Finished
<1>7. CASE FailPaper
  BY <1>7 DEF FailPaper, Finished, IsOpen
<1>8. CASE Fill
  BY <1>8 DEF Fill, Finished
<1>9. CASE NotSubmitted
  BY <1>9 DEF NotSubmitted, Skip, Finished, IsOpen
<1>10. CASE EntryInDoubt
  BY <1>10 DEF EntryInDoubt, Finished, Position, IsOpen
<1>11. ASSUME NEW p \in book, Leave(p)
       PROVE  IInv'
  BY <1>11 DEF Leave, IsOpen
<1>12. ASSUME NEW p \in book, LeaveInDoubt(p)
       PROVE  IInv'
  BY <1>12 DEF LeaveInDoubt, IsOpen
<1>13. ASSUME NEW filled \in BOOLEAN, Resolve(filled)
       PROVE  IInv'
  BY <1>13 DEF Resolve, Afresh
<1>14. CASE Restart
  BY <1>14 DEF Restart, Afresh, IsOpen
<1>15. CASE UNCHANGED vars
  BY <1>15 DEF vars, IsOpen
<1> QED
  BY <1>1, <1>2, <1>3, <1>4, <1>5, <1>6, <1>7, <1>8, <1>9, <1>10, <1>11, <1>12, <1>13, <1>14,
     <1>15 DEF Next, Decide

\* The invariant holds in every reachable state.
THEOREM Invariance == Spec => []IInv
  BY InitIInv, NextIInv, PTL DEF Spec

\* In every configuration the book that a trade was checked against before the wait for the
\* market still answers when the order is planned, and while it is in doubt.
THEOREM NothingHeldIsBought == Spec => []BuysNothingItHolds
<1>1. IInv => BuysNothingItHolds
  BY DEF IInv, BuysNothingItHolds
<1> QED BY <1>1, Invariance, PTL

\* Rounding and alignment never make an order dearer than planned, and no plan is larger than
\* the configuration allows.
THEOREM OrdersStayWithinBudget == Spec => []WithinBudget
<1>1. ASSUME IInv
      PROVE  WithinBudget
  <2> SUFFICES ASSUME pc = "Planned", Submittable
               PROVE  Filled * 100 <= plan.usd /\ plan.usd <= cfg.most * 100
    BY DEF WithinBudget
  <2>1. /\ plan.limit \in Lowest .. Highest /\ plan.usd \in Nat
        /\ plan.shares = Shares(plan.usd, plan.limit) /\ plan.usd <= cfg.most * 100
    BY <1>1 DEF IInv
  <2>2. Tick \in Nat \ {0}
    BY AmountsAssumption
  <2>3. plan.limit \in Nat \ {0} /\ AlignPrice(plan.limit, Tick, "Buy") \in Nat
    <3>1. \A limit \in Lowest .. Highest : limit \in Nat \ {0}
      BY DEF Lowest, Highest
    <3>2. plan.limit \in Nat \ {0}
      BY <2>1, <3>1
    <3> QED BY <2>2, <3>2, AlignmentKeepsTheLimit
  <2>4. Worth(Shares(plan.usd, plan.limit), AlignPrice(plan.limit, Tick, "Buy")) * 100 <= plan.usd
    BY <2>1, <2>2, <2>3, AlignedIsAffordable
  <2> QED BY <2>1, <2>4 DEF Filled
<1>2. IInv => WithinBudget
  BY <1>1
<1> QED BY <1>2, Invariance, PTL

-----------------------------------------------------------------------------
(* Sums of positions                                                        *)

Counted(positions) == IsFiniteSet(positions) /\ \A p \in positions : p.usd \in Nat

\* Total is the sum of a weight that gives every position its dollars.
LEMMA TotalIsSum ==
  ASSUME NEW S, IsFiniteSet(S), NEW w, \A p \in S : w[p] = p.usd
  PROVE  Total(S) = Sum(w, S)
<1>1. PICK h : SumsUp(w, h, S) /\ Sum(w, S) = h[S]
  BY SumStep
<1>2. h = [s \in SUBSET S |-> IF s = {} THEN 0 ELSE Chosen(s).usd + h[s \ {Chosen(s)}]]
  <2>1. h = [s \in SUBSET S |-> IF s = {} THEN 0 ELSE w[Chosen(s)] + h[s \ {Chosen(s)}]]
    BY <1>1, Zenon DEF SumsUp
  <2>2. \A s \in SUBSET S : s # {} => w[Chosen(s)] = Chosen(s).usd
    BY ChosenIsIn
  <2> QED BY <2>1, <2>2
<1>3. PICK g : /\ g = [s \in SUBSET S |-> IF s = {} THEN 0 ELSE Chosen(s).usd + g[s \ {Chosen(s)}]]
               /\ Total(S) = g[S]
  <2>1. \E g : g = [s \in SUBSET S |-> IF s = {} THEN 0 ELSE Chosen(s).usd + g[s \ {Chosen(s)}]]
    BY <1>2
  <2> QED BY <2>1, Zenon DEF Total, MapThenSumSet, MapThenFoldSet, Usd, Chosen
<1>4. SumsUp(w, g, S)
  <2>1. \A s \in SUBSET S : s # {} => w[Chosen(s)] = Chosen(s).usd
    BY ChosenIsIn
  <2> QED BY <1>3, <2>1 DEF SumsUp
<1> QED BY <1>3, <1>4, SumIs

\* A part is worth no more than the whole.
LEMMA TotalOfPart ==
  ASSUME NEW S, Counted(S), NEW T \in SUBSET S
  PROVE  Total(T) \in Nat /\ Total(S) \in Nat /\ Total(T) <= Total(S)
<1> DEFINE w == [p \in S |-> p.usd]
<1>1. IsFiniteSet(T) /\ Weighs(w, S) /\ IsFiniteSet(S)
  BY FS_Subset DEF Counted, Weighs
<1>2. Total(S) = Sum(w, S) /\ Total(T) = Sum(w, T)
  BY <1>1, TotalIsSum
<1> HIDE DEF w
<1> QED BY <1>1, <1>2, SumOfPart, SumWithout

\* A position more is worth at most what it is worth alone (nothing if it is there already).
LEMMA TotalWith ==
  ASSUME NEW S, Counted(S), NEW x, x.usd \in Nat
  PROVE  Total(S \cup {x}) \in Nat /\ Total(S \cup {x}) <= Total(S) + x.usd
<1> DEFINE T == S \cup {x}
           w == [p \in T |-> p.usd]
<1>1. IsFiniteSet(T) /\ IsFiniteSet(S) /\ Weighs(w, T) /\ w[x] = x.usd
  BY FS_AddElement DEF Counted, Weighs
<1>2. Total(S) = Sum(w, S) /\ Total(T) = Sum(w, T)
  BY <1>1, TotalIsSum
<1>3. Sum(w, S) \in Nat /\ Sum(w, T) \in Nat
  BY <1>1, SumOfPart
<1>4. CASE x \in S
  <2>1. T = S
    BY <1>4
  <2> HIDE DEF w, T
  <2> QED BY <1>1, <1>2, <1>3, <2>1 DEF T
<1>5. CASE x \notin S
  <2>1. Sum(w, T) = w[x] + Sum(w, S)
    <3> HIDE DEF w
    <3> QED BY <1>1, <1>5, SumWith
  <2> HIDE DEF w, T
  <2> QED BY <1>1, <1>2, <1>3, <2>1 DEF T
<1> QED BY <1>4, <1>5

LEMMA TotalOfNone == Total({}) = 0
<1>1. Total({}) = Sum([p \in {} |-> p.usd], {})
  BY TotalIsSum, FS_EmptySet
<1> QED BY <1>1, SumEmpty

-----------------------------------------------------------------------------
(* The caps                                                                 *)

\* CapsHold, of any positions.
CapsHoldOf(positions) ==
  /\ \A name \in DOMAIN CategoryCap : AtMost(InCategory(positions, name), CategoryCap, name)
  /\ \A name \in DOMAIN TagCap : AtMost(Tagged(positions, name), TagCap, name)

LEMMA CapsOfPart ==
  ASSUME NEW S, Counted(S), CapsHoldOf(S), NEW T \in SUBSET S
  PROVE  CapsHoldOf(T)
<1>1. ASSUME NEW A, NEW B, A \subseteq B, B \subseteq S, NEW caps, NEW name, AtMost(B, caps, name),
             \A n \in DOMAIN caps : caps[n] \in Nat
      PROVE  AtMost(A, caps, name)
  <2>1. Counted(B)
    BY <1>1, FS_Subset DEF Counted
  <2>2. Total(A) \in Nat /\ Total(B) \in Nat /\ Total(A) <= Total(B)
    BY <1>1, <2>1, TotalOfPart
  <2>3. PICK n \in Named(DOMAIN caps, name) : Total(B) <= caps[n]
    BY <1>1 DEF AtMost
  <2>4. caps[n] \in Nat
    BY <1>1 DEF Named
  <2>5. Total(A) <= caps[n]
    BY <2>2, <2>3, <2>4
  <2> QED BY <2>5 DEF AtMost
<1>2. \A name : InCategory(T, name) \subseteq InCategory(S, name) /\ InCategory(S, name) \subseteq S
  BY DEF InCategory
<1>3. \A name : Tagged(T, name) \subseteq Tagged(S, name) /\ Tagged(S, name) \subseteq S
  BY DEF Tagged
<1>4. ASSUME NEW name \in DOMAIN CategoryCap
      PROVE  AtMost(InCategory(T, name), CategoryCap, name)
  BY <1>1, <1>2, CapsAssumption DEF CapsHoldOf
<1>5. ASSUME NEW name \in DOMAIN TagCap
      PROVE  AtMost(Tagged(T, name), TagCap, name)
  BY <1>1, <1>3, CapsAssumption DEF CapsHoldOf
<1> QED BY <1>4, <1>5 DEF CapsHoldOf

\* There is room for want hundredths of a micro-dollar in the category and under each tag.
FitsInto(positions, category, tags, want) ==
  /\ \A name \in DOMAIN CategoryCap :
       category # None /\ Lower[category] = Lower[name] =>
         \E n \in Named(DOMAIN CategoryCap, name) :
           Room(InCategory(positions, name), want, CategoryCap[n])
  /\ \A name \in DOMAIN TagCap :
       Named(tags, name) # {} =>
         \E n \in Named(DOMAIN TagCap, name) : Room(Tagged(positions, name), want, TagCap[n])

\* Names that are the same but for their case are interchangeable.
LEMMA SameName ==
  ASSUME NEW a, NEW b, Lower[a] = Lower[b], NEW names, NEW positions
  PROVE  /\ Named(names, a) = Named(names, b)
         /\ InCategory(positions, a) = InCategory(positions, b)
         /\ Tagged(positions, a) = Tagged(positions, b)
BY DEF Named, InCategory, Tagged

\* What the caps admit fits.
LEMMA AdmittedFits ==
  ASSUME NEW market, NEW want, Admitted(market, want)
  PROVE  FitsInto(book, market.category, market.tags, want)
<1>1. ASSUME NEW name \in DOMAIN CategoryCap, market.category # None, Lower[market.category] = Lower[name]
      PROVE  \E n \in Named(DOMAIN CategoryCap, name) : Room(InCategory(book, name), want, CategoryCap[n])
  <2>1. name \in Named(DOMAIN CategoryCap, market.category)
    BY <1>1 DEF Named
  <2>2. Listed(DOMAIN CategoryCap, market.category)
    BY <1>1, <2>1 DEF Listed
  <2>3. \E n \in Named(DOMAIN CategoryCap, market.category) :
          Room(InCategory(book, market.category), want, CategoryCap[n])
    BY <2>2 DEF Admitted, CategoryRoom
  <2>4. /\ Named(DOMAIN CategoryCap, market.category) = Named(DOMAIN CategoryCap, name)
        /\ InCategory(book, market.category) = InCategory(book, name)
    BY <1>1, SameName
  <2> QED BY <2>3, <2>4
<1>2. ASSUME NEW name \in DOMAIN TagCap, Named(market.tags, name) # {}
      PROVE  \E n \in Named(DOMAIN TagCap, name) : Room(Tagged(book, name), want, TagCap[n])
  <2>1. PICK tag \in market.tags : Lower[tag] = Lower[name]
    BY <1>2 DEF Named
  <2>2. name \in Named(DOMAIN TagCap, tag)
    BY <2>1 DEF Named
  <2>3. \E n \in Named(DOMAIN TagCap, tag) : Room(Tagged(book, tag), want, TagCap[n])
    BY <2>2 DEF Admitted, TagRoom
  <2>4. Named(DOMAIN TagCap, tag) = Named(DOMAIN TagCap, name) /\ Tagged(book, tag) = Tagged(book, name)
    BY <2>1, SameName
  <2> QED BY <2>3, <2>4
<1> QED BY <1>1, <1>2 DEF FitsInto

\* What fits into a book fits into what is left of it.
LEMMA FitsIntoPart ==
  ASSUME NEW S, Counted(S), NEW T \in SUBSET S, NEW category, NEW tags, NEW want \in Nat,
         FitsInto(S, category, tags, want)
  PROVE  FitsInto(T, category, tags, want)
<1>1. ASSUME NEW A \in SUBSET S, NEW B \in SUBSET A, NEW cap \in Nat, Room(A, want, cap)
      PROVE  Room(B, want, cap)
  <2>1. Counted(A) /\ Counted(B)
    BY FS_Subset DEF Counted
  <2>2. Total(A) \in Nat /\ Total(B) \in Nat /\ Total(B) <= Total(A)
    BY <2>1, TotalOfPart
  <2> QED BY <1>1, <2>2 DEF Room
<1>2. ASSUME NEW name \in DOMAIN CategoryCap, category # None, Lower[category] = Lower[name]
      PROVE  \E n \in Named(DOMAIN CategoryCap, name) :
               Room(InCategory(T, name), want, CategoryCap[n])
  <2>1. PICK n \in Named(DOMAIN CategoryCap, name) : Room(InCategory(S, name), want, CategoryCap[n])
    BY <1>2 DEF FitsInto
  <2>2. InCategory(S, name) \in SUBSET S /\ InCategory(T, name) \in SUBSET InCategory(S, name)
    BY DEF InCategory
  <2>3. CategoryCap[n] \in Nat
    BY CapsAssumption DEF Named
  <2> QED BY <1>1, <2>1, <2>2, <2>3
<1>3. ASSUME NEW name \in DOMAIN TagCap, Named(tags, name) # {}
      PROVE  \E n \in Named(DOMAIN TagCap, name) : Room(Tagged(T, name), want, TagCap[n])
  <2>1. PICK n \in Named(DOMAIN TagCap, name) : Room(Tagged(S, name), want, TagCap[n])
    BY <1>3 DEF FitsInto
  <2>2. Tagged(S, name) \in SUBSET S /\ Tagged(T, name) \in SUBSET Tagged(S, name)
    BY DEF Tagged
  <2>3. TagCap[n] \in Nat
    BY CapsAssumption DEF Named
  <2> QED BY <1>1, <2>1, <2>2, <2>3
<1> QED BY <1>2, <1>3 DEF FitsInto

\* A position that fits, and is worth no more than there was to be room for, keeps the caps.
LEMMA CapsOfMore ==
  ASSUME NEW S, Counted(S), CapsHoldOf(S), NEW x, x.usd \in Nat, NEW want \in Nat,
         x.usd * 100 <= want, FitsInto(S, x.category, x.tags, want)
  PROVE  CapsHoldOf(S \cup {x})
<1>1. ASSUME NEW A \in SUBSET S, NEW cap \in Nat, Room(A, want, cap)
      PROVE  Total(A \cup {x}) <= cap
  <2>1. Counted(A)
    BY FS_Subset DEF Counted
  <2>2. /\ Total(A) \in Nat /\ Total(A \cup {x}) \in Nat
        /\ Total(A \cup {x}) <= Total(A) + x.usd
    BY <2>1, TotalOfPart, TotalWith
  <2>3. Total(A) * 100 + want <= cap * 100
    BY <1>1 DEF Room
  <2>4. \A a, u, c, k \in Nat : a * 100 + k <= c * 100 /\ u * 100 <= k => a + u <= c
    OBVIOUS
  <2>5. Total(A) + x.usd <= cap
    BY <1>1, <2>2, <2>3, <2>4
  <2> QED BY <2>2, <2>5
<1>2. ASSUME NEW name \in DOMAIN CategoryCap
      PROVE  AtMost(InCategory(S \cup {x}, name), CategoryCap, name)
  <2>1. CASE x.category # None /\ Lower[x.category] = Lower[name]
    <3>1. PICK n \in Named(DOMAIN CategoryCap, name) : Room(InCategory(S, name), want, CategoryCap[n])
      BY <2>1 DEF FitsInto
    <3>2. InCategory(S, name) \in SUBSET S /\ InCategory(S \cup {x}, name) = InCategory(S, name) \cup {x}
      BY <2>1 DEF InCategory
    <3>3. CategoryCap[n] \in Nat
      BY CapsAssumption DEF Named
    <3>4. Total(InCategory(S \cup {x}, name)) <= CategoryCap[n]
      BY <1>1, <3>1, <3>2, <3>3
    <3> QED BY <3>4 DEF AtMost
  <2>2. CASE ~ (x.category # None /\ Lower[x.category] = Lower[name])
    <3>1. InCategory(S \cup {x}, name) = InCategory(S, name)
      BY <2>2 DEF InCategory
    <3> QED BY <3>1 DEF CapsHoldOf
  <2> QED BY <2>1, <2>2
<1>3. ASSUME NEW name \in DOMAIN TagCap
      PROVE  AtMost(Tagged(S \cup {x}, name), TagCap, name)
  <2>1. CASE Named(x.tags, name) # {}
    <3>1. PICK n \in Named(DOMAIN TagCap, name) : Room(Tagged(S, name), want, TagCap[n])
      BY <2>1 DEF FitsInto
    <3>2. Tagged(S, name) \in SUBSET S /\ Tagged(S \cup {x}, name) = Tagged(S, name) \cup {x}
      BY <2>1 DEF Tagged
    <3>3. TagCap[n] \in Nat
      BY CapsAssumption DEF Named
    <3>4. Total(Tagged(S \cup {x}, name)) <= TagCap[n]
      BY <1>1, <3>1, <3>2, <3>3
    <3> QED BY <3>4 DEF AtMost
  <2>2. CASE ~ (Named(x.tags, name) # {})
    <3>1. Tagged(S \cup {x}, name) = Tagged(S, name)
      BY <2>2 DEF Tagged
    <3> QED BY <3>1 DEF CapsHoldOf
  <2> QED BY <2>1, <2>2
<1> QED BY <1>2, <1>3 DEF CapsHoldOf

-----------------------------------------------------------------------------

\* From its plan on a trade fits into the book, which nobody else adds to.
CapInv ==
  /\ Counted(book)
  /\ doubt # None => Counted(doubt.opens)
  /\ pc = "Planned" => FitsInto(book, plan.category, plan.tags, plan.usd)
  /\ CapsHoldOf(Exposed)

\* What the shares for usd hundredths of a micro-dollar at a limit come to.
LEMMA SharesAreWorth ==
  ASSUME NEW limit \in Lowest .. Highest, NEW usd \in Nat
  PROVE  /\ Worth(Shares(usd, limit), AlignPrice(limit, Tick, "Buy")) \in Nat
         /\ Worth(Shares(usd, limit), AlignPrice(limit, Tick, "Buy")) * 100 <= usd
<1>1. limit \in Nat \ {0} /\ Tick \in Nat \ {0}
  <2>1. \A price \in Lowest .. Highest : price \in Nat \ {0}
    BY DEF Lowest, Highest
  <2> QED BY <2>1, AmountsAssumption
<1>2. AlignPrice(limit, Tick, "Buy") \in Nat
  BY <1>1, AlignmentKeepsTheLimit
<1>3. Shares(usd, limit) \in Nat
  BY <1>1, SharesAreAffordable
<1>4. Worth(Shares(usd, limit), AlignPrice(limit, Tick, "Buy")) \in Nat
  BY <1>2, <1>3 DEF Worth, Micros
<1> QED BY <1>1, <1>2, <1>4, AlignedIsAffordable

\* What a plan comes to, before and after a step.
LEMMA PlanIsWorth ==
  /\ IInv /\ pc = "Planned" =>
       Filled \in Nat /\ Filled * 100 <= plan.usd /\ plan.usd \in Nat
  /\ IInv' /\ pc' = "Planned" =>
       Filled' \in Nat /\ Filled' * 100 <= plan'.usd /\ plan'.usd \in Nat
BY SharesAreWorth DEF IInv, Filled

LEMMA ExposedIsCounted ==
  ASSUME IInv, CapInv
  PROVE  Counted(Exposed)
<1>1. pc = "Planned" => Position(Filled).usd \in Nat
  BY PlanIsWorth DEF Position
<1>2. \A S, T : Counted(S) /\ Counted(T) => Counted(S \cup T)
  BY FS_Union DEF Counted
<1>3. \A x : x.usd \in Nat => Counted({x})
  BY FS_Singleton DEF Counted
<1>4. Counted({})
  BY FS_EmptySet DEF Counted
<1>5. Counted(IF doubt = None THEN {} ELSE doubt.opens)
  BY <1>4 DEF CapInv
<1>6. Counted(IF pc = "Planned" /\ live /\ doubt = None THEN {Position(Filled)} ELSE {})
  BY <1>1, <1>3, <1>4
<1> QED BY <1>2, <1>5, <1>6 DEF CapInv, Exposed

\* All steps but two expose nothing new.
LEMMA NothingNew ==
  ASSUME IInv, CapInv, book' \subseteq Exposed,
         doubt' # None => doubt'.opens \subseteq Exposed,
         pc' = "Planned" => /\ pc = "Planned" /\ doubt = None /\ UNCHANGED <<live, plan>>
                            /\ book' \subseteq book
  PROVE  CapInv'
<1>1. Counted(Exposed)
  BY ExposedIsCounted
<1>2. \A S \in SUBSET Exposed : Counted(S) /\ CapsHoldOf(S)
  BY <1>1, CapsOfPart, FS_Subset DEF CapInv, Counted
<1>3. Exposed' \subseteq Exposed
  BY DEF Exposed, Position, Filled
<1>4. CapsHoldOf(Exposed')
  BY <1>2, <1>3
<1>5. Counted(book') /\ (doubt' # None => Counted(doubt'.opens))
  BY <1>2
<1>6. pc' = "Planned" => FitsInto(book', plan'.category, plan'.tags, plan'.usd)
  BY FitsIntoPart DEF CapInv, IInv
<1> QED BY <1>4, <1>5, <1>6 DEF CapInv, CapsHoldOf, Counted, FitsInto

LEMMA InitCaps == Init => CapInv
<1> SUFFICES ASSUME Init
             PROVE  CapInv
  OBVIOUS
<1>1. book = {} /\ Exposed = {} /\ doubt = None /\ pc # "Planned"
  BY DEF Init, Exposed
<1>2. Counted({})
  BY FS_EmptySet DEF Counted
<1>3. \A name : InCategory({}, name) = {} /\ Tagged({}, name) = {}
  BY DEF InCategory, Tagged
<1>4. ASSUME NEW caps, \A n \in DOMAIN caps : caps[n] \in Nat, NEW name \in DOMAIN caps
      PROVE  AtMost({}, caps, name)
  <2>1. name \in Named(DOMAIN caps, name) /\ 0 <= caps[name]
    BY <1>4 DEF Named
  <2> QED BY <2>1, TotalOfNone DEF AtMost
<1>5. CapsHoldOf({})
  BY <1>3, <1>4, CapsAssumption DEF CapsHoldOf
<1> QED BY <1>1, <1>2, <1>5 DEF CapInv

LEMMA NextCaps == IInv /\ CapInv /\ [Next]_vars => CapInv'
<1> SUFFICES ASSUME IInv, CapInv, [Next]_vars
             PROVE  CapInv'
  OBVIOUS
<1> USE DEF settings, deal
<1>1. book \subseteq Exposed /\ (doubt # None => doubt.opens \subseteq Exposed)
  BY DEF Exposed
<1>2. ASSUME NEW log \in Logs, Receive(log)
      PROVE  CapInv'
  BY <1>1, <1>2, NothingNew DEF Receive
<1>3. CASE MetadataFails \/ FailPaper \/ NotSubmitted
  BY <1>1, <1>3, NothingNew DEF MetadataFails, FailPaper, NotSubmitted, Skip, Finished
<1>4. ASSUME pc = "Metadata", NEW market \in Metadata[trade.token], Decline(market) \/ Block(market)
      PROVE  CapInv'
  BY <1>1, <1>4, NothingNew DEF Decline, Block, Skip, Finished
<1>5. ASSUME pc = "Metadata", NEW market \in Metadata[trade.token],
             NEW said \in {"Allow", "FetchBook"}, Plan(market, said)
      PROVE  CapInv'
  <2>1. /\ plan' = Planned(market) /\ pc' = "Planned" /\ UNCHANGED <<live, cfg, book, doubt>>
        /\ Admitted(market, CopyUsd(cfg, trade.usd))
    BY <1>5 DEF Plan
  <2>2. /\ plan'.category = market.category /\ plan'.tags = market.tags
        /\ plan'.usd = CopyUsd(cfg, trade.usd)
    BY <2>1 DEF Planned
  <2>3. FitsInto(book, plan'.category, plan'.tags, plan'.usd)
    BY <2>1, <2>2, AdmittedFits
  <2>4. IInv'
    BY NextIInv
  <2>5. Filled' \in Nat /\ Filled' * 100 <= plan'.usd /\ plan'.usd \in Nat
    BY <2>1, <2>4, PlanIsWorth
  <2>6. CapsHoldOf(book) /\ Counted(Exposed)
    BY <1>1, ExposedIsCounted, CapsOfPart DEF CapInv
  <2>7. CapsHoldOf(Exposed')
    <3>1. CASE ~ (live /\ doubt = None)
      <4>1. Exposed' \subseteq Exposed
        BY <2>1, <3>1 DEF Exposed
      <4> QED BY <2>6, <4>1, CapsOfPart DEF CapInv
    <3>2. CASE live /\ doubt = None
      <4> DEFINE x == Position(Filled)'
      <4>1. Exposed' = book \cup {x}
        BY <2>1, <3>2 DEF Exposed
      <4>2. x.usd = Filled' /\ x.category = plan'.category /\ x.tags = plan'.tags
        BY DEF Position
      <4>3. Counted(book) /\ x.usd \in Nat /\ x.usd * 100 <= plan'.usd
        BY <2>5, <4>2 DEF CapInv
      <4>4. FitsInto(book, x.category, x.tags, plan'.usd)
        BY <2>3, <4>2
      <4> HIDE DEF x
      <4> QED BY <2>5, <2>6, <4>1, <4>3, <4>4, CapsOfMore
    <3> QED BY <3>1, <3>2
  <2> QED BY <2>1, <2>3, <2>7 DEF CapInv, CapsHoldOf, FitsInto, Counted
<1>6. CASE RecordPaper
  <2> DEFINE x == Position(plan.usd \div 100)
  <2>1. /\ ~ live /\ pc = "Planned" /\ plan.usd \in Nat
        /\ book' = book \cup {x} /\ pc' = "Idle" /\ UNCHANGED <<live, cfg, doubt, plan>>
    BY <1>6 DEF RecordPaper, Finished, IInv
  <2>2. doubt = None
    BY <2>1 DEF IInv
  <2>3. Exposed = book /\ Exposed' = book'
    BY <2>1, <2>2 DEF Exposed
  <2>4. x.usd = plan.usd \div 100 /\ x.category = plan.category /\ x.tags = plan.tags
    BY DEF Position
  <2>5. plan.usd \div 100 \in Nat /\ (plan.usd \div 100) * 100 <= plan.usd
    BY <2>1, QuotientTimesDivisor
  <2>6. Counted(book) /\ CapsHoldOf(book) /\ FitsInto(book, x.category, x.tags, plan.usd)
    BY <2>1, <2>3, <2>4 DEF CapInv
  <2>7. x.usd \in Nat /\ x.usd * 100 <= plan.usd
    BY <2>4, <2>5
  <2> HIDE DEF x
  <2>8. CapsHoldOf(book')
    BY <2>1, <2>6, <2>7, CapsOfMore
  <2>9. Counted(book')
    BY <2>1, <2>6, <2>7, FS_AddElement DEF Counted
  <2> QED BY <2>1, <2>2, <2>3, <2>8, <2>9 DEF CapInv, CapsHoldOf, Counted
<1>7. CASE Fill
  <2>1. live /\ pc = "Planned" /\ doubt = None /\ Position(Filled) \in Exposed
    BY <1>7 DEF Fill, Exposed
  <2> QED BY <1>1, <1>7, <2>1, NothingNew DEF Fill, Finished
<1>8. CASE EntryInDoubt
  <2>1. live /\ pc = "Planned" /\ doubt = None /\ Position(Filled) \in Exposed
    BY <1>8 DEF EntryInDoubt, Exposed
  <2> QED BY <1>1, <1>8, <2>1, NothingNew DEF EntryInDoubt, Finished
<1>9. ASSUME NEW p \in book, Leave(p) \/ LeaveInDoubt(p)
      PROVE  CapInv'
  <2>1. book' \subseteq book /\ doubt = None /\ UNCHANGED <<live, cfg, pc, trade, plan, verdict>>
    BY <1>9 DEF Leave, LeaveInDoubt
  <2>2. doubt' # None => doubt'.opens \subseteq Exposed
    BY <1>9 DEF Leave, LeaveInDoubt
  <2> QED BY <1>1, <2>1, <2>2, NothingNew
<1>10. ASSUME NEW filled \in BOOLEAN, Resolve(filled)
       PROVE  CapInv'
  BY <1>1, <1>10, NothingNew DEF Resolve, Afresh
<1>11. CASE Restart
  BY <1>1, <1>11, NothingNew DEF Restart, Afresh
<1>12. CASE UNCHANGED vars
  BY <1>12 DEF vars, CapInv, CapsHoldOf, FitsInto, Counted, Exposed, Position, Filled
<1> QED
  BY <1>2, <1>3, <1>4, <1>5, <1>6, <1>7, <1>8, <1>9, <1>10, <1>11, <1>12 DEF Next, Decide

\* Exits, orders in doubt, what the operator makes of them and restarts included, what is open
\* in a category or under a tag stays within its cap, although the book is read long before
\* the order is filled, whatever the caps, the sizes and the names.
THEOREM CapsAlwaysHold == Spec => []CapsHold
<1>1. Init => IInv /\ CapInv
  BY InitIInv, InitCaps
<1>2. IInv /\ CapInv /\ [Next]_vars => (IInv /\ CapInv)'
  BY NextIInv, NextCaps
<1>3. CapInv => CapsHold
  BY DEF CapInv, CapsHoldOf, CapsHold
<1> QED BY <1>1, <1>2, <1>3, PTL DEF Spec

-----------------------------------------------------------------------------
(* The window of the risk guard                                             *)

\* A sequence whose entries are in S.
LEMMA EntriesIn ==
  ASSUME NEW R, NEW s \in Seq(R), NEW S, \A i \in 1 .. Len(s) : s[i] \in S
  PROVE  s \in Seq(S)
<1>1. Len(s) \in Nat /\ s = [i \in 1 .. Len(s) |-> s[i]]
  OBVIOUS
<1> QED BY <1>1

\* And the other way round.
LEMMA EntryOf ==
  ASSUME NEW S, NEW s \in Seq(S), NEW i \in 1 .. Len(s)
  PROVE  s[i] \in S
OBVIOUS

\* The sequence s without its first n entries.
Dropped(s, n, rest) ==
  /\ n \in 0 .. Len(s) /\ rest \in Seq(Nat) /\ Len(rest) = Len(s) - n
  /\ \A i \in 1 .. Len(rest) : rest[i] = s[i + n]

\* What popping the entries that are older than last leaves.
LEMMA SinceDrops ==
  ASSUME NEW s \in Seq(Nat), NEW last \in Nat
  PROVE  \E n \in 0 .. Len(s) :
           /\ Dropped(s, n, Since(s, last))
           /\ \A i \in 1 .. n : s[i] > last
           /\ n < Len(s) => s[n + 1] <= last
<1> DEFINE Young == { n \in 0 .. Len(s) : n < Len(s) => s[n + 1] <= last }
<1>1. Len(s) \in Nat /\ \A i \in 1 .. Len(s) : s[i] \in Nat
  OBVIOUS
<1>2. Len(s) \in Young /\ Young \in SUBSET Nat
  BY <1>1
<1>3. PICK n \in Young : \A m \in Young : n <= m
  <2> HIDE DEF Young
  <2> QED BY <1>2, LeastElement
<1>4. n \in 0 .. Len(s) /\ (n < Len(s) => s[n + 1] <= last)
  OBVIOUS
<1>5. ASSUME NEW i \in 1 .. n
      PROVE  s[i] > last
  <2>1. i - 1 \notin Young /\ i - 1 \in 0 .. Len(s) /\ i - 1 < Len(s) /\ s[(i - 1) + 1] = s[i]
    <3> HIDE DEF Young
    <3>1. i \in Nat /\ n \in Nat /\ 1 <= i /\ i <= n /\ n <= Len(s) /\ (i - 1) + 1 = i
      BY <1>1, <1>4
    <3>2. i - 1 \notin Young
      BY <1>2, <1>3, <3>1
    <3> QED BY <1>1, <3>1, <3>2
  <2>2. ~ (s[i] <= last)
    BY <2>1
  <2>3. s[i] \in Nat
    BY <1>1, <1>4
  <2> QED BY <2>2, <2>3
<1>6. \E k \in 0 .. Len(s) : (\A i \in 1 .. k : s[i] > last) /\ (k < Len(s) => s[k + 1] <= last)
  BY <1>4, <1>5
<1> DEFINE k == Expired(s, last)
<1>7. k \in 0 .. Len(s) /\ (\A i \in 1 .. k : s[i] > last) /\ (k < Len(s) => s[k + 1] <= last)
  BY <1>6 DEF Expired
<1>8. Since(s, last) = SubSeq(s, k + 1, Len(s))
  BY DEF Since
<1> HIDE DEF k
<1>9. Dropped(s, k, Since(s, last))
  <2>1. k \in Nat /\ k <= Len(s)
    BY <1>1, <1>7
  <2>2. /\ Since(s, last) \in Seq(Nat) /\ Len(Since(s, last)) = Len(s) - k
        /\ \A i \in 1 .. Len(s) - k : Since(s, last)[i] = s[i + k]
    BY <1>1, <1>8, <2>1
  <2> QED BY <1>7, <2>2 DEF Dropped
<1> QED BY <1>7, <1>9

\* Oldest first.
Ordered(s) == \A i, j \in 1 .. Len(s) : i <= j => s[j] <= s[i]

\* In an ordered sequence only the entries that are young enough are left.
LEMMA SinceIsYoung ==
  ASSUME NEW s \in Seq(Nat), NEW last \in Nat, Ordered(s)
  PROVE  /\ Since(s, last) \in Seq(0 .. last) /\ Ordered(Since(s, last))
         /\ \E n \in 0 .. Len(s) :
              Dropped(s, n, Since(s, last)) /\ \A i \in 1 .. n : s[i] > last
<1>1. PICK n \in 0 .. Len(s) :
        /\ Dropped(s, n, Since(s, last))
        /\ \A i \in 1 .. n : s[i] > last
        /\ n < Len(s) => s[n + 1] <= last
  BY SinceDrops
<1> DEFINE rest == Since(s, last)
<1> HIDE DEF rest
<1>2. /\ rest \in Seq(Nat) /\ Len(rest) = Len(s) - n /\ Len(s) \in Nat /\ Len(rest) \in Nat
      /\ \A i \in 1 .. Len(rest) : rest[i] = s[i + n]
  BY <1>1 DEF Dropped, rest
<1>3. \A i \in 1 .. Len(rest) : i + n \in 1 .. Len(s) /\ n + 1 <= i + n /\ n < Len(s) /\ n + 1 \in 1 .. Len(s)
  BY <1>2
<1>4. ASSUME NEW i \in 1 .. Len(rest)
      PROVE  rest[i] \in 0 .. last
  <2>1. s[i + n] <= s[n + 1] /\ s[n + 1] <= last /\ s[i + n] \in Nat /\ s[n + 1] \in Nat
    BY <1>1, <1>3 DEF Ordered
  <2>2. rest[i] = s[i + n]
    BY <1>2
  <2> QED BY <2>1, <2>2
<1>5. rest \in Seq(0 .. last)
  BY <1>2, <1>4, EntriesIn
<1>6. Ordered(rest)
  <2> SUFFICES ASSUME NEW i \in 1 .. Len(rest), NEW j \in 1 .. Len(rest), i <= j
               PROVE  rest[j] <= rest[i]
    BY DEF Ordered
  <2>1. rest[i] = s[i + n] /\ rest[j] = s[j + n] /\ i + n \in 1 .. Len(s) /\ j + n \in 1 .. Len(s)
    BY <1>2, <1>3
  <2>2. i + n <= j + n
    OBVIOUS
  <2> QED BY <2>1, <2>2 DEF Ordered
<1> QED BY <1>1, <1>5, <1>6 DEF rest

\* Every entry of p has one of h that is as young, entry by entry from the youngest on.
Behind(p, h) ==
  /\ Len(p) <= Len(h)
  /\ \A i \in 1 .. Len(p) : h[i + (Len(h) - Len(p))] <= p[i]

\* The trades of one token: h in the bucket, p let through.
BucketInv(h, p) ==
  /\ h \in Seq(0 .. Window + 1) /\ p \in Seq(0 .. Window)
  /\ Ordered(h) /\ Ordered(p) /\ Behind(p, h) /\ Len(p) < Trigger

\* What is dropped from the bucket is nothing that was let through within the window.
LEMMA FreshIsAhead ==
  ASSUME NEW h, NEW p, BucketInv(h, p)
  PROVE  /\ Fresh(h) \in Seq(0 .. Window) /\ Ordered(Fresh(h)) /\ Behind(p, Fresh(h))
<1>1. h \in Seq(Nat) /\ p \in Seq(0 .. Window) /\ Window \in Nat
  BY RiskAssumption DEF BucketInv
<1> DEFINE f == Fresh(h)
<1>2. f \in Seq(0 .. Window) /\ Ordered(f)
  BY <1>1, SinceIsYoung DEF BucketInv, Fresh
<1>3. PICK n \in 0 .. Len(h) : Dropped(h, n, f) /\ \A i \in 1 .. n : h[i] > Window
  BY <1>1, SinceIsYoung DEF BucketInv, Fresh
<1> HIDE DEF f
<1>4. /\ Len(f) = Len(h) - n /\ Len(f) \in Nat /\ Len(h) \in Nat /\ Len(p) \in Nat /\ n \in Nat
      /\ \A i \in 1 .. Len(f) : f[i] = h[i + n]
  BY <1>1, <1>2, <1>3 DEF Dropped
<1>5. Len(p) <= Len(h) /\ \A i \in 1 .. Len(p) : h[i + (Len(h) - Len(p))] <= p[i]
  BY DEF BucketInv, Behind
<1>6. Len(p) <= Len(f)
  <2> SUFFICES ASSUME Len(p) > Len(f)
               PROVE  FALSE
    BY <1>4
  <2> DEFINE j == 1 + (Len(h) - Len(p))
  <2>1. 1 \in 1 .. Len(p) /\ j \in 1 .. n /\ j \in 1 .. Len(h)
    BY <1>4, <1>5
  <2>2. h[j] <= p[1]
    BY <1>5, <2>1
  <2> HIDE DEF j
  <2>3. h[j] > Window
    BY <1>3, <2>1
  <2>4. h[j] \in Nat /\ p[1] \in 0 .. Window
    BY <1>1, <2>1
  <2> QED BY <1>1, <2>2, <2>3, <2>4
<1>7. ASSUME NEW i \in 1 .. Len(p)
      PROVE  f[i + (Len(f) - Len(p))] <= p[i]
  <2>1. /\ i + (Len(f) - Len(p)) \in 1 .. Len(f)
        /\ (i + (Len(f) - Len(p))) + n = i + (Len(h) - Len(p))
    BY <1>4, <1>6
  <2> QED BY <1>4, <1>5, <2>1
<1>8. Behind(p, f)
  BY <1>6, <1>7 DEF Behind
<1> QED BY <1>2, <1>8 DEF f

\* One more large trade, blocked or let through.
LEMMA OneMore ==
  ASSUME NEW f \in Seq(0 .. Window), NEW p \in Seq(0 .. Window), Ordered(f), Behind(p, f)
  PROVE  /\ Append(f, 0) \in Seq(0 .. Window) /\ Ordered(Append(f, 0))
         /\ Behind(p, Append(f, 0)) /\ Behind(Append(p, 0), Append(f, 0))
<1> DEFINE b == Append(f, 0)
           q == Append(p, 0)
<1>1. Window \in Nat /\ Len(f) \in Nat /\ Len(p) \in Nat
  BY RiskAssumption
<1>2. /\ b \in Seq(0 .. Window) /\ Len(b) = Len(f) + 1 /\ b[Len(f) + 1] = 0
      /\ \A i \in 1 .. Len(f) : b[i] = f[i] /\ f[i] \in 0 .. Window
  BY <1>1
<1>3. /\ Len(q) = Len(p) + 1 /\ q[Len(p) + 1] = 0
      /\ \A i \in 1 .. Len(p) : q[i] = p[i] /\ p[i] \in 0 .. Window
  BY <1>1
<1> HIDE DEF b, q
<1>4. Len(p) <= Len(f) /\ \A i \in 1 .. Len(p) : f[i + (Len(f) - Len(p))] <= p[i]
  BY DEF Behind
<1>5. Ordered(b)
  <2> SUFFICES ASSUME NEW i \in 1 .. Len(b), NEW j \in 1 .. Len(b), i <= j
               PROVE  b[j] <= b[i]
    BY DEF Ordered
  <2>1. CASE j = Len(f) + 1
    <3>1. b[j] = 0 /\ b[i] \in Nat
      BY <1>1, <1>2, <2>1
    <3> QED BY <3>1
  <2>2. CASE j # Len(f) + 1
    <3>1. i \in 1 .. Len(f) /\ j \in 1 .. Len(f)
      BY <1>1, <1>2, <2>2
    <3> QED BY <1>2, <3>1 DEF Ordered
  <2> QED BY <2>1, <2>2
<1>6. Behind(q, b)
  <2> SUFFICES ASSUME NEW i \in 1 .. Len(q)
               PROVE  b[i + (Len(b) - Len(q))] <= q[i]
    BY <1>1, <1>2, <1>3, <1>4 DEF Behind
  <2>1. Len(b) - Len(q) = Len(f) - Len(p)
    BY <1>1, <1>2, <1>3
  <2>2. CASE i = Len(p) + 1
    <3>1. i + (Len(b) - Len(q)) = Len(f) + 1
      BY <1>1, <1>2, <1>3, <2>2
    <3> QED BY <1>2, <1>3, <2>2, <3>1
  <2>3. CASE i # Len(p) + 1
    <3>1. i \in 1 .. Len(p) /\ i + (Len(f) - Len(p)) \in 1 .. Len(f)
      BY <1>1, <1>3, <1>4, <2>3
    <3> QED BY <1>2, <1>3, <1>4, <2>1, <3>1
  <2> QED BY <2>2, <2>3
<1>7. Behind(p, b)
  <2> SUFFICES ASSUME NEW i \in 1 .. Len(p)
               PROVE  b[i + (Len(b) - Len(p))] <= p[i]
    BY <1>1, <1>2, <1>4 DEF Behind
  <2> DEFINE j == i + (Len(f) - Len(p))
  <2>1. i + (Len(b) - Len(p)) = j + 1
    BY <1>1, <1>2
  <2>2. j \in 1 .. Len(f)
    BY <1>1, <1>4
  <2> HIDE DEF j
  <2>3. j \in 1 .. Len(b) /\ j + 1 \in 1 .. Len(b) /\ j <= j + 1
    BY <1>1, <1>2, <2>2
  <2>4. b[j + 1] <= b[j] /\ b[j] = f[j]
    BY <1>2, <1>5, <2>2, <2>3 DEF Ordered
  <2>5. f[j] <= p[i]
    BY <1>4 DEF j
  <2>6. b[j + 1] \in 0 .. Window
    <3>1. b \in Seq(0 .. Window)
      BY <1>2
    <3> QED BY <2>3, <3>1, EntryOf
  <2>7. f[j] \in 0 .. Window /\ p[i] \in 0 .. Window
    BY <1>2, <1>3, <2>2
  <2> QED BY <2>1, <2>4, <2>5, <2>6, <2>7
<1> QED BY <1>2, <1>5, <1>6, <1>7 DEF b, q

\* Time passes.
LEMMA OlderBucket ==
  ASSUME NEW h, NEW p, BucketInv(h, p)
  PROVE  BucketInv(Aged(h), Since(Aged(p), Window))
<1> DEFINE a == Aged(h)
           q == Aged(p)
           r == Since(q, Window)
<1>1. /\ h \in Seq(0 .. Window + 1) /\ p \in Seq(0 .. Window) /\ Window \in Nat /\ Trigger \in Nat
      /\ Len(h) \in Nat /\ Len(p) \in Nat /\ Ordered(h) /\ Ordered(p) /\ Behind(p, h) /\ Len(p) < Trigger
  BY RiskAssumption DEF BucketInv
<1>2. \A x, y \in Nat : x <= y => /\ Least(x + 1, Window + 1) <= Least(y + 1, Window + 1)
                                  /\ Least(x + 1, Window + 1) \in 0 .. Window + 1
  BY <1>1 DEF Least
<1>3. \A i \in 1 .. Len(h) : h[i] \in Nat
  BY <1>1
<1>4. \A i \in 1 .. Len(p) : p[i] \in Nat
  BY <1>1
<1>5. /\ a \in Seq(0 .. Window + 1) /\ Len(a) = Len(h)
      /\ \A i \in 1 .. Len(h) : a[i] = Least(h[i] + 1, Window + 1)
  <2>1. a = [i \in 1 .. Len(h) |-> Least(h[i] + 1, Window + 1)]
    BY <1>1 DEF Aged
  <2>2. \A i \in 1 .. Len(h) : Least(h[i] + 1, Window + 1) \in 0 .. Window + 1
    BY <1>2, <1>3
  <2> HIDE DEF a
  <2> QED BY <1>1, <2>1, <2>2
<1>6. /\ q \in Seq(0 .. Window + 1) /\ Len(q) = Len(p)
      /\ \A i \in 1 .. Len(p) : q[i] = Least(p[i] + 1, Window + 1)
  <2>1. q = [i \in 1 .. Len(p) |-> Least(p[i] + 1, Window + 1)]
    BY <1>1 DEF Aged
  <2>2. \A i \in 1 .. Len(p) : Least(p[i] + 1, Window + 1) \in 0 .. Window + 1
    BY <1>2, <1>4
  <2> HIDE DEF q
  <2> QED BY <1>1, <2>1, <2>2
<1> HIDE DEF a, q, r
<1>7. Ordered(a) /\ Ordered(q)
  BY <1>1, <1>2, <1>3, <1>4, <1>5, <1>6 DEF Ordered
<1>8. ASSUME NEW i \in 1 .. Len(p)
      PROVE  a[i + (Len(h) - Len(p))] <= q[i]
  <2>1. i + (Len(h) - Len(p)) \in 1 .. Len(h) /\ h[i + (Len(h) - Len(p))] <= p[i]
    BY <1>1 DEF Behind
  <2> QED BY <1>2, <1>3, <1>4, <1>5, <1>6, <2>1
<1>9. q \in Seq(Nat)
  <2>1. \A i \in 1 .. Len(q) : q[i] \in Nat
    BY <1>1, <1>6
  <2> QED BY <1>6, <2>1, EntriesIn
<1>10. r \in Seq(0 .. Window) /\ Ordered(r)
  BY <1>1, <1>7, <1>9, SinceIsYoung DEF r
<1>11. PICK n \in 0 .. Len(q) : Dropped(q, n, r)
  BY <1>1, <1>7, <1>9, SinceIsYoung DEF r
<1>12. /\ Len(r) = Len(p) - n /\ Len(r) \in Nat /\ n \in Nat
       /\ \A i \in 1 .. Len(r) : r[i] = q[i + n]
  BY <1>1, <1>6, <1>11 DEF Dropped
<1>13. Behind(r, a)
  <2>1. Len(r) <= Len(a)
    BY <1>1, <1>5, <1>12 DEF Behind
  <2>2. ASSUME NEW i \in 1 .. Len(r)
        PROVE  a[i + (Len(a) - Len(r))] <= r[i]
    <3>1. i + n \in 1 .. Len(p) /\ i + (Len(a) - Len(r)) = (i + n) + (Len(h) - Len(p))
      BY <1>1, <1>5, <1>12
    <3> QED BY <1>8, <1>12, <3>1
  <2> QED BY <2>1, <2>2 DEF Behind
<1>14. Len(r) < Trigger
  BY <1>1, <1>12
<1> QED BY <1>5, <1>7, <1>10, <1>13, <1>14 DEF BucketInv, a, q, r

-----------------------------------------------------------------------------
(* The risk guard                                                           *)

\* What was let through is in the bucket, whose young entries are fewer than Trigger whenever
\* another is let through; a trip has as long to last as it has not lasted yet.
GuardInv ==
  /\ history = [t \in Tokens |-> history[t]] /\ passed = [t \in Tokens |-> passed[t]]
  /\ \A t \in Tokens : BucketInv(history[t], passed[t])
  /\ trippedFor \in 0 .. TripDuration /\ sinceTrip \in 0 .. TripDuration
  /\ trippedFor + sinceTrip >= TripDuration
  /\ lastCall \in {"none", "fast", "book"} \X Answers
  /\ FastHonoursCooldown

LEMMA InitGuard == GuardInit => GuardInv
<1> SUFFICES ASSUME GuardInit
             PROVE  GuardInv
  OBVIOUS
<1>1. BucketInv(<<>>, <<>>)
  BY RiskAssumption DEF BucketInv, Ordered, Behind
<1> QED BY <1>1, RiskAssumption DEF GuardInit, GuardInv, FastHonoursCooldown, Answers

LEMMA NextGuard == GuardInv /\ [GuardNext]_riskVars => GuardInv'
<1> SUFFICES ASSUME GuardInv, [GuardNext]_riskVars
             PROVE  GuardInv'
  OBVIOUS
<1> USE RiskAssumption DEF Answers
<1>1. ASSUME NEW t \in Tokens, NEW large \in BOOLEAN, CheckFast(t, large)
      PROVE  GuardInv'
  <2> DEFINE said == FastAnswer(t, large)
             h == history[t]
             p == passed[t]
             b == Bucket(t)
  <2>1. /\ Tripped => said = "Tripped"
        /\ ~ Tripped /\ ~ large => said = "Allow"
        /\ ~ Tripped /\ large /\ Len(b) >= Trigger => said = "ConsecutiveLargeTrades"
        /\ ~ Tripped /\ large /\ ~ (Len(b) >= Trigger) => said = "FetchBook"
    BY Zenon DEF FastAnswer
  <2>2. /\ history' = IF large /\ ~ Tripped THEN [history EXCEPT ![t] = b] ELSE history
        /\ trippedFor' = IF TripsOn(said) THEN TripDuration ELSE trippedFor
        /\ lastCall' = <<"fast", said>>
        /\ passed' = IF said = "FetchBook" THEN [passed EXCEPT ![t] = Append(@, 0)] ELSE passed
        /\ sinceTrip' = IF said = "ConsecutiveLargeTrades" THEN 0 ELSE sinceTrip
    BY <1>1 DEF CheckFast
  <2>3. BucketInv(h, p)
    BY DEF GuardInv
  <2>4. Fresh(h) \in Seq(0 .. Window) /\ Ordered(Fresh(h)) /\ Behind(p, Fresh(h)) /\ p \in Seq(0 .. Window)
    BY <2>3, FreshIsAhead DEF BucketInv
  <2>5. b \in Seq(0 .. Window) /\ Ordered(b) /\ Behind(p, b) /\ Behind(Append(p, 0), b)
    BY <2>4, OneMore DEF Bucket
  <2>6. b \in Seq(0 .. Window + 1) /\ Len(b) \in Nat
    <3>1. 0 .. Window \subseteq 0 .. Window + 1
      OBVIOUS
    <3> HIDE DEF b
    <3> QED BY <2>5, <3>1
  <2>7. BucketInv(b, p)
    BY <2>3, <2>5, <2>6 DEF BucketInv
  <2>8. ~ (Len(b) >= Trigger) => BucketInv(b, Append(p, 0))
    <3>1. Append(p, 0) \in Seq(0 .. Window) /\ Len(Append(p, 0)) = Len(p) + 1
      BY <2>4
    <3>2. Ordered(Append(p, 0))
      <4>1. Behind(p, p)
        BY <2>4 DEF Behind
      <4> QED BY <2>3, <2>4, <4>1, OneMore DEF BucketInv
    <3>3. Len(Append(p, 0)) <= Len(b)
      BY <2>5 DEF Behind
    <3> HIDE DEF b, p
    <3> QED BY <2>5, <2>6, <3>1, <3>2, <3>3 DEF BucketInv
  <2> HIDE DEF said, h, p, b
  <2>9. \A u \in Tokens : u # t => history'[u] = history[u] /\ passed'[u] = passed[u]
    BY <2>2 DEF GuardInv
  <2>10. /\ history' = [u \in Tokens |-> history'[u]] /\ passed' = [u \in Tokens |-> passed'[u]]
    BY <2>2 DEF GuardInv
  <2>11. BucketInv(history'[t], passed'[t])
    <3>1. CASE Tripped \/ ~ large
      <4>1. history' = history /\ passed' = passed
        BY <2>1, <2>2, <3>1
      <4> QED BY <2>3, <4>1 DEF h, p
    <3>2. CASE ~ Tripped /\ large /\ Len(b) >= Trigger
      <4>1. history' = [history EXCEPT ![t] = b] /\ passed' = passed
        BY <2>1, <2>2, <3>2
      <4>2. history'[t] = b
        BY <4>1 DEF GuardInv
      <4> QED BY <2>7, <4>1, <4>2 DEF p
    <3>3. CASE ~ Tripped /\ large /\ ~ (Len(b) >= Trigger)
      <4>1. history' = [history EXCEPT ![t] = b] /\ passed' = [passed EXCEPT ![t] = Append(p, 0)]
        BY <2>1, <2>2, <3>3 DEF p
      <4>2. history'[t] = b /\ passed'[t] = Append(p, 0)
        BY <4>1 DEF GuardInv
      <4> QED BY <2>8, <3>3, <4>2
    <3> QED BY <3>1, <3>2, <3>3
  <2>12. \A u \in Tokens : BucketInv(history'[u], passed'[u])
    BY <2>9, <2>11 DEF GuardInv
  <2>13. /\ trippedFor' \in 0 .. TripDuration /\ sinceTrip' \in 0 .. TripDuration
         /\ trippedFor' + sinceTrip' >= TripDuration
    BY <2>2 DEF GuardInv, TripsOn
  <2>14. lastCall' \in {"none", "fast", "book"} \X {"Allow", "FetchBook", "Tripped", "ConsecutiveLargeTrades", "InsufficientDepth"}
    BY <2>1, <2>2
  <2>15. FastHonoursCooldown'
    <3> SUFFICES ASSUME said \in {"Allow", "FetchBook"}
                 PROVE  sinceTrip' >= TripDuration
      BY <2>2 DEF FastHonoursCooldown
    <3>1. ~ Tripped /\ sinceTrip' = sinceTrip
      BY <2>1, <2>2
    <3> QED BY <3>1 DEF Tripped, GuardInv
  <2> QED BY <2>10, <2>12, <2>13, <2>14, <2>15 DEF GuardInv
<1>2. ASSUME NEW deep \in BOOLEAN, CheckWithBook(deep)
      PROVE  GuardInv'
  BY <1>2 DEF CheckWithBook, Trip, GuardInv, FastHonoursCooldown
<1>3. CASE ManualTrip
  BY <1>3 DEF ManualTrip, Trip, GuardInv, FastHonoursCooldown
<1>4. CASE TimePasses
  <2>1. \A t \in Tokens : /\ history'[t] = Aged(history[t])
                          /\ passed'[t] = Since(Aged(passed[t]), Window)
    BY <1>4 DEF TimePasses
  <2>2. \A t \in Tokens : BucketInv(history'[t], passed'[t])
    BY <2>1, OlderBucket DEF GuardInv
  <2>3. /\ history' = [t \in Tokens |-> history'[t]] /\ passed' = [t \in Tokens |-> passed'[t]]
    BY <1>4 DEF TimePasses
  <2>4. /\ trippedFor' \in 0 .. TripDuration /\ sinceTrip' \in 0 .. TripDuration
        /\ trippedFor' + sinceTrip' >= TripDuration
    BY <1>4 DEF TimePasses, Tripped, Least, GuardInv
  <2>5. lastCall' = <<"none", "Allow">>
    BY <1>4 DEF TimePasses
  <2> QED BY <2>2, <2>3, <2>4, <2>5 DEF GuardInv, FastHonoursCooldown
<1>5. CASE UNCHANGED riskVars
  BY <1>5 DEF riskVars, guardVars, GuardInv, FastHonoursCooldown
<1> QED BY <1>1, <1>2, <1>3, <1>4, <1>5 DEF GuardNext, SomeCheckFast, SomeCheckWithBook

\* The invariant holds in every reachable state.
THEOREM GuardInvariance == GuardSpec => []GuardInv
  BY InitGuard, NextGuard, PTL DEF GuardSpec

\* However trades, trips and cooldowns follow each other, fewer than Trigger large trades of
\* a token are let through within any window: the bucket, which loses old entries only when
\* a large trade of its token arrives, never loses one that still counts.
THEOREM NoBurstEver == GuardSpec => []NoBurst
<1>1. GuardInv => NoBurst
  BY DEF GuardInv, BucketInv, NoBurst
<1> QED BY <1>1, GuardInvariance, PTL

\* Nothing passes the fast check before the last of several trips has lasted its duration.
THEOREM CooldownsAreHonoured == GuardSpec => []FastHonoursCooldown
<1>1. GuardInv => FastHonoursCooldown
  BY DEF GuardInv
<1> QED BY <1>1, GuardInvariance, PTL

-----------------------------------------------------------------------------
(* The market cache                                                         *)

\* How old the data of a response are, and how long they can have been wrong.
ResponseInv(c) ==
  response[c] # None =>
    /\ stage[c] \in {"Fetching", "Inserting"}
    /\ response[c].closed \/ closedFor[wants[c]] = None \/ closedFor[wants[c]] <= response[c].age

\* An entry is as old as it says, and what it was made of at most MaxLatency older.
EntryInv(s) ==
  entries[s] # None =>
    \/ entries[s].closed \/ closedFor[s] = None \/ entries[s].age = Ttl
    \/ closedFor[s] <= entries[s].age + MaxLatency

AnswerInv(c) ==
  answer[c] = FALSE => closedFor[wants[c]] = None \/ closedFor[wants[c]] < Ttl + MaxLatency

CacheInv ==
  /\ CacheTypeOK
  /\ \A c \in Callers : stage[c] # "Idle" \/ answer[c] # None => wants[c] \in Slugs
  /\ \A c \in Callers : stage[c] = "Inserting" => response[c] # None
  /\ \A c \in Callers : ResponseInv(c) /\ AnswerInv(c)
  /\ \A s \in Slugs : EntryInv(s)

LEMMA AgesAreData ==
  ASSUME NEW last \in Nat
  PROVE  /\ None \notin Ages(last)
         /\ \A d \in Ages(last) : d.closed \in BOOLEAN /\ d.age \in Nat /\ d.age <= last
BY CacheAssumption DEF Ages

LEMMA InitCache == CacheInit => CacheInv
<1> SUFFICES ASSUME CacheInit
             PROVE  CacheInv
  OBVIOUS
<1>1. \A c \in Callers : answer[c] # FALSE
  BY CacheAssumption DEF CacheInit
<1>2. CacheTypeOK
  BY DEF CacheInit, CacheTypeOK
<1> QED BY <1>1, <1>2 DEF CacheInit, CacheInv, ResponseInv, EntryInv, AnswerInv

\* What a look into the entries for market s answers.
LEMMA PeekAnswers ==
  ASSUME CacheInv, NEW c \in Callers, NEW s \in Slugs, PeekFor(c, s),
         wants' \in [Callers -> Slugs \cup {None}], wants'[c] = s,
         \A d \in Callers : d # c => wants'[d] = wants[d],
         response[c] = None, UNCHANGED <<closedFor, entries, index, response>>
  PROVE  CacheInv'
<1>1. /\ stage' \in [Callers -> {"Idle", "Peeking", "Fetching", "Inserting"}]
      /\ stage'[c] \in {"Idle", "Fetching"} /\ \A d \in Callers : d # c => stage'[d] = stage[d]
  BY DEF PeekFor, Tells, Goes, CacheInv, CacheTypeOK
<1>2. \A d \in Callers : d # c => answer'[d] = answer[d]
  BY DEF PeekFor, Tells, Goes, CacheInv, CacheTypeOK
<1>3. answer'[c] = None \/ (entries[s] # None /\ Usable(entries[s]) /\ answer'[c] = entries[s].closed)
  BY DEF PeekFor, Tells, Goes, CacheInv, CacheTypeOK
<1>4. entries[s] # None => entries[s] \in Ages(Ttl)
  BY DEF CacheInv, CacheTypeOK
<1>5. entries[s] # None => entries[s].closed \in BOOLEAN /\ entries[s].age \in Nat
  BY <1>4, AgesAreData, CacheAssumption
<1>6. answer' \in [Callers -> BOOLEAN \cup {None}]
  BY <1>5 DEF PeekFor, Tells, Goes, CacheInv, CacheTypeOK
<1>7. CacheTypeOK'
  BY <1>1, <1>6 DEF CacheInv, CacheTypeOK
<1>8. AnswerInv(c)'
  <2> SUFFICES ASSUME answer'[c] = FALSE, closedFor[s] # None
               PROVE  closedFor[s] < Ttl + MaxLatency
    BY DEF AnswerInv
  <2>1. entries[s] # None /\ entries[s].age < Ttl /\ ~ entries[s].closed
    BY <1>3, CacheAssumption DEF Usable
  <2>2. closedFor[s] <= entries[s].age + MaxLatency /\ closedFor[s] \in Nat
    BY <1>5, <2>1, CacheAssumption DEF CacheInv, EntryInv, CacheTypeOK, Never
  <2> QED BY <1>5, <2>1, <2>2, CacheAssumption
<1>9. \A d \in Callers : ResponseInv(d)'
  BY <1>1 DEF CacheInv, ResponseInv
<1>10. \A d \in Callers : AnswerInv(d)'
  BY <1>2, <1>8 DEF CacheInv, AnswerInv
<1>11. \A d \in Callers : stage'[d] = "Inserting" => response'[d] # None
  BY <1>1 DEF CacheInv
<1>12. \A d \in Callers : stage'[d] # "Idle" \/ answer'[d] # None => wants'[d] \in Slugs
  BY <1>1, <1>2 DEF CacheInv
<1>13. \A x \in Slugs : EntryInv(x)'
  BY DEF CacheInv, EntryInv
<1> QED BY <1>7, <1>9, <1>10, <1>11, <1>12, <1>13 DEF CacheInv

LEMMA NextCache == CacheInv /\ [CacheNext]_cacheVars => CacheInv'
<1> SUFFICES ASSUME CacheInv, [CacheNext]_cacheVars
             PROVE  CacheInv'
  OBVIOUS
<1> USE CacheAssumption
<1>1. ASSUME NEW c \in Callers, NEW s \in Slugs, BySlug(c, s)
      PROVE  CacheInv'
  <2>1. wants' \in [Callers -> Slugs \cup {None}] /\ wants'[c] = s
        /\ \A d \in Callers : d # c => wants'[d] = wants[d]
    BY <1>1 DEF BySlug, CacheInv, CacheTypeOK
  <2>2. response[c] = None
    BY <1>1 DEF BySlug, CacheInv, ResponseInv
  <2> QED BY <1>1, <2>1, <2>2, PeekAnswers DEF BySlug
<1>2. ASSUME NEW c \in Callers, NEW t \in OutcomeTokens, ByTokenId(c, t)
      PROVE  CacheInv'
  <2>1. /\ stage[c] = "Idle" /\ stage'[c] \in {"Peeking", "Fetching"}
        /\ stage' \in [Callers -> {"Idle", "Peeking", "Fetching", "Inserting"}]
        /\ wants' \in [Callers -> Slugs \cup {None}] /\ wants'[c] \in Slugs
        /\ answer' \in [Callers -> BOOLEAN \cup {None}] /\ answer'[c] = None
        /\ \A d \in Callers : d # c => /\ stage'[d] = stage[d] /\ wants'[d] = wants[d]
                                       /\ answer'[d] = answer[d]
        /\ UNCHANGED <<closedFor, entries, index, response>>
    BY <1>2 DEF ByTokenId, Goes, CacheInv, CacheTypeOK
  <2>2. response[c] = None
    BY <2>1 DEF CacheInv, ResponseInv
  <2> QED BY <2>1, <2>2 DEF CacheInv, CacheTypeOK, ResponseInv, AnswerInv, EntryInv
<1>3. ASSUME NEW c \in Callers, Peek(c)
      PROVE  CacheInv'
  <2>1. wants[c] \in Slugs /\ response[c] = None
    BY <1>3 DEF Peek, CacheInv, ResponseInv
  <2>2. wants' \in [Callers -> Slugs \cup {None}]
    BY <1>3 DEF Peek, CacheInv, CacheTypeOK
  <2> QED BY <1>3, <2>1, <2>2, PeekAnswers DEF Peek
<1>4. ASSUME NEW c \in Callers, Respond(c)
      PROVE  CacheInv'
  <2> DEFINE new == [closed |-> closedFor[wants[c]] # None, age |-> 0]
  <2>1. /\ stage[c] = "Fetching" /\ response'[c] = new
        /\ \A d \in Callers : d # c => response'[d] = response[d]
        /\ UNCHANGED <<closedFor, entries, index, stage, wants, answer>>
    BY <1>4 DEF Respond, CacheInv, CacheTypeOK
  <2>2. new \in Ages(MaxLatency)
    BY DEF Ages
  <2>3. response' \in [Callers -> Ages(MaxLatency) \cup {None}]
    BY <1>4, <2>2 DEF Respond, CacheInv, CacheTypeOK
  <2>4. new # None
    BY <2>2, AgesAreData
  <2>5. new.closed \/ closedFor[wants[c]] = None
    OBVIOUS
  <2> HIDE DEF new
  <2>6. ResponseInv(c)'
    BY <2>1, <2>5 DEF ResponseInv
  <2>7. \A d \in Callers : d # c => ResponseInv(d)'
    BY <2>1 DEF CacheInv, ResponseInv
  <2> QED BY <2>1, <2>3, <2>4, <2>6, <2>7 DEF CacheInv, CacheTypeOK, AnswerInv, EntryInv
<1>5. ASSUME NEW c \in Callers, Fail(c)
      PROVE  CacheInv'
  <2>1. /\ stage' \in [Callers -> {"Idle", "Peeking", "Fetching", "Inserting"}] /\ stage'[c] = "Idle"
        /\ response' \in [Callers -> Ages(MaxLatency) \cup {None}] /\ response'[c] = None
        /\ \A d \in Callers : d # c => stage'[d] = stage[d] /\ response'[d] = response[d]
        /\ UNCHANGED <<closedFor, entries, index, wants, answer>>
    BY <1>5 DEF Fail, Goes, CacheInv, CacheTypeOK
  <2> QED BY <2>1 DEF CacheInv, CacheTypeOK, ResponseInv, AnswerInv, EntryInv
<1>6. ASSUME NEW c \in Callers, BeginInsert(c)
      PROVE  CacheInv'
  <2>1. /\ stage' \in [Callers -> {"Idle", "Peeking", "Fetching", "Inserting"}]
        /\ stage[c] = "Fetching" /\ stage'[c] = "Inserting" /\ response[c] # None
        /\ \A d \in Callers : d # c => stage'[d] = stage[d]
        /\ UNCHANGED <<closedFor, entries, index, wants, response, answer>>
    BY <1>6 DEF BeginInsert, Goes, CacheInv, CacheTypeOK
  <2> QED BY <2>1 DEF CacheInv, CacheTypeOK, ResponseInv, AnswerInv, EntryInv
<1>7. ASSUME NEW c \in Callers, FinishInsert(c)
      PROVE  CacheInv'
  <2>1. PICK s \in Slugs : s = wants[c] /\ response[c] # None /\ stage[c] = "Inserting"
    BY <1>7 DEF FinishInsert, CacheInv
  <2> DEFINE new == [closed |-> response[c].closed, age |-> 0]
  <2>2. response[c] \in Ages(MaxLatency)
    BY <2>1 DEF CacheInv, CacheTypeOK
  <2>3. /\ response[c].closed \in BOOLEAN /\ response[c].age \in Nat
        /\ response[c].age <= MaxLatency
    BY <2>2, AgesAreData
  <2>4. new \in Ages(Ttl)
    BY <2>3 DEF Ages
  <2>5. /\ stage' \in [Callers -> {"Idle", "Peeking", "Fetching", "Inserting"}] /\ stage'[c] = "Idle"
        /\ response' \in [Callers -> Ages(MaxLatency) \cup {None}] /\ response'[c] = None
        /\ answer' \in [Callers -> BOOLEAN \cup {None}] /\ answer'[c] = response[c].closed
        /\ \A d \in Callers : d # c => /\ stage'[d] = stage[d] /\ response'[d] = response[d]
                                       /\ answer'[d] = answer[d]
        /\ UNCHANGED <<closedFor, wants>> /\ index' \subseteq OutcomeTokens
    BY <1>7, <2>3 DEF FinishInsert, Tells, Goes, CacheInv, CacheTypeOK
  <2>6. /\ entries' \in [Slugs -> Ages(Ttl) \cup {None}] /\ entries'[s] = new
        /\ \A x \in Slugs : x # s => entries'[x] = entries[x]
    BY <1>7, <2>1, <2>4 DEF FinishInsert, Stored, CacheInv, CacheTypeOK
  <2>7. response[c].closed \/ closedFor[s] = None \/ closedFor[s] <= MaxLatency
    <3>1. response[c].closed \/ closedFor[s] = None \/ closedFor[s] <= response[c].age
      BY <2>1 DEF CacheInv, ResponseInv
    <3>2. closedFor[s] = None \/ closedFor[s] \in Nat
      BY <2>1 DEF CacheInv, CacheTypeOK, Never
    <3> QED BY <2>3, <3>1, <3>2
  <2>8. new.closed = response[c].closed /\ new.age = 0
    OBVIOUS
  <2> HIDE DEF new
  <2>9. EntryInv(s)'
    <3>1. entries'[s].closed \/ closedFor'[s] = None \/ closedFor'[s] <= entries'[s].age + MaxLatency
      BY <2>5, <2>6, <2>7, <2>8
    <3> QED BY <3>1 DEF EntryInv
  <2>10. \A x \in Slugs : x # s => EntryInv(x)'
    BY <2>5, <2>6 DEF CacheInv, EntryInv
  <2>11. AnswerInv(c)'
    <3>1. closedFor[s] = None \/ closedFor[s] \in Nat
      BY <2>1 DEF CacheInv, CacheTypeOK, Never
    <3>2. closedFor[s] = None \/ response[c].closed \/ closedFor[s] < Ttl + MaxLatency
      BY <2>7, <3>1
    <3> QED BY <2>1, <2>3, <2>5, <3>2 DEF AnswerInv
  <2>12. \A d \in Callers : d # c => AnswerInv(d)' /\ ResponseInv(d)'
    BY <2>5 DEF CacheInv, AnswerInv, ResponseInv
  <2>13. ResponseInv(c)'
    BY <2>5 DEF ResponseInv
  <2>14. CacheTypeOK'
    BY <2>5, <2>6 DEF CacheInv, CacheTypeOK
  <2>15. \A x \in Slugs : EntryInv(x)'
    BY <2>9, <2>10
  <2>16. \A d \in Callers : AnswerInv(d)' /\ ResponseInv(d)'
    BY <2>11, <2>12, <2>13
  <2> QED BY <2>1, <2>5, <2>14, <2>15, <2>16 DEF CacheInv
<1>8. ASSUME NEW s \in Slugs, Close(s)
      PROVE  CacheInv'
  <2>1. /\ closedFor' \in [Slugs -> 0 .. Never \cup {None}] /\ closedFor'[s] = 0
        /\ \A x \in Slugs : x # s => closedFor'[x] = closedFor[x]
        /\ UNCHANGED <<entries, index, stage, wants, response, answer>>
    BY <1>8 DEF Close, callerVars, CacheInv, CacheTypeOK, Never
  <2>2. \A c \in Callers : stage[c] # "Idle" \/ answer[c] # None => wants[c] \in Slugs
    BY DEF CacheInv
  <2>3. ASSUME NEW c \in Callers
        PROVE  ResponseInv(c)'
    <3> SUFFICES ASSUME response[c] # None
                 PROVE  /\ stage[c] \in {"Fetching", "Inserting"}
                        /\ response[c].closed \/ closedFor'[wants[c]] = None
                           \/ closedFor'[wants[c]] <= response[c].age
      BY <2>1 DEF ResponseInv
    <3>1. /\ stage[c] \in {"Fetching", "Inserting"}
          /\ response[c].closed \/ closedFor[wants[c]] = None \/ closedFor[wants[c]] <= response[c].age
      BY DEF CacheInv, ResponseInv
    <3>2. wants[c] \in Slugs
      BY <2>2, <3>1
    <3>3. response[c].age \in Nat
      <4>1. response[c] \in Ages(MaxLatency)
        BY DEF CacheInv, CacheTypeOK
      <4> QED BY <4>1, AgesAreData
    <3> QED BY <2>1, <3>1, <3>2, <3>3
  <2>4. ASSUME NEW c \in Callers
        PROVE  AnswerInv(c)'
    <3> SUFFICES ASSUME answer[c] = FALSE
                 PROVE  closedFor'[wants[c]] = None \/ closedFor'[wants[c]] < Ttl + MaxLatency
      BY <2>1 DEF AnswerInv
    <3>1. wants[c] \in Slugs
      BY <2>2
    <3> QED BY <2>1, <3>1 DEF CacheInv, AnswerInv
  <2>5. ASSUME NEW x \in Slugs
        PROVE  EntryInv(x)'
    <3>1. entries[x] # None => entries[x].age \in Nat
      <4>1. entries[x] # None => entries[x] \in Ages(Ttl)
        BY DEF CacheInv, CacheTypeOK
      <4> QED BY <4>1, AgesAreData
    <3> QED BY <2>1, <3>1 DEF CacheInv, EntryInv
  <2> QED BY <2>1, <2>3, <2>4, <2>5 DEF CacheInv, CacheTypeOK
<1>9. CASE CacheAges
  <2>1. /\ \A s \in Slugs : closedFor'[s] = Older(closedFor[s], Never)
        /\ \A s \in Slugs : entries'[s] = AgedData(entries[s], Ttl)
        /\ \A c \in Callers : response'[c] = AgedData(response[c], MaxLatency)
        /\ \A c \in Callers : answer'[c] = None
        /\ \A c \in Callers : response[c] # None => response[c].age < MaxLatency
        /\ \A c \in Callers : stage[c] \in {"Idle", "Fetching"}
        /\ UNCHANGED <<index, stage, wants>>
    BY <1>9 DEF CacheAges
  <2>2. ASSUME NEW last \in Nat, NEW d \in Ages(last)
        PROVE  /\ AgedData(d, last) \in Ages(last) /\ AgedData(d, last).closed = d.closed
               /\ AgedData(d, last).age = IF d.age < last THEN d.age + 1 ELSE last
    <3>1. d # None /\ d.age # None /\ d.age \in Nat /\ d.age <= last
      BY AgesAreData
    <3>2. AgedData(d, last) = [d EXCEPT !.age = Older(d.age, last)]
      BY <3>1 DEF AgedData
    <3>3. Older(d.age, last) = IF d.age < last THEN d.age + 1 ELSE last
      BY <3>1 DEF Older
    <3>4. Older(d.age, last) \in 0 .. last
      BY <3>1, <3>3
    <3> QED BY <3>2, <3>3, <3>4 DEF Ages
  <2>3. AgedData(None, MaxLatency) = None /\ AgedData(None, Ttl) = None
    BY DEF AgedData
  <2>4. ASSUME NEW s \in Slugs
        PROVE  /\ closedFor[s] = None => closedFor'[s] = None
               /\ closedFor[s] # None => /\ closedFor[s] \in Nat /\ closedFor'[s] \in 0 .. Never
                                         /\ closedFor'[s] <= closedFor[s] + 1
    BY <2>1 DEF CacheInv, CacheTypeOK, Older, Never
  <2>5. CacheTypeOK'
    <3>1. closedFor' \in [Slugs -> 0 .. Never \cup {None}]
      BY <1>9, <2>4 DEF CacheAges
    <3>2. entries' \in [Slugs -> Ages(Ttl) \cup {None}]
      BY <1>9, <2>2, <2>3 DEF CacheAges, CacheInv, CacheTypeOK
    <3>3. response' \in [Callers -> Ages(MaxLatency) \cup {None}]
      BY <1>9, <2>2, <2>3 DEF CacheAges, CacheInv, CacheTypeOK
    <3>4. answer' \in [Callers -> BOOLEAN \cup {None}]
      BY <1>9 DEF CacheAges
    <3> QED BY <2>1, <3>1, <3>2, <3>3, <3>4 DEF CacheInv, CacheTypeOK
  <2>6. ASSUME NEW c \in Callers
        PROVE  ResponseInv(c)'
    <3> SUFFICES ASSUME response'[c] # None
                 PROVE  ResponseInv(c)'
      BY DEF ResponseInv
    <3>1. response[c] # None
      BY <2>1, <2>3
    <3>2. response[c] \in Ages(MaxLatency)
      BY <3>1 DEF CacheInv, CacheTypeOK
    <3>3. /\ response'[c].closed = response[c].closed /\ response'[c].age = response[c].age + 1
          /\ response[c].age \in Nat
      BY <2>1, <2>2, <3>1, <3>2, AgesAreData
    <3>4. /\ stage[c] \in {"Fetching", "Inserting"}
          /\ response[c].closed \/ closedFor[wants[c]] = None \/ closedFor[wants[c]] <= response[c].age
      BY <3>1 DEF CacheInv, ResponseInv
    <3>5. wants[c] \in Slugs
      BY <3>4 DEF CacheInv
    <3>6. response[c].closed \/ closedFor'[wants[c]] = None \/ closedFor'[wants[c]] <= response[c].age + 1
      BY <2>4, <3>3, <3>4, <3>5, CacheAssumption DEF Never
    <3> QED BY <2>1, <3>3, <3>4, <3>6 DEF ResponseInv
  <2>7. ASSUME NEW s \in Slugs
        PROVE  EntryInv(s)'
    <3> SUFFICES ASSUME entries'[s] # None
                 PROVE  EntryInv(s)'
      BY DEF EntryInv
    <3>1. entries[s] # None
      BY <2>1, <2>3
    <3>2. entries[s] \in Ages(Ttl)
      BY <3>1 DEF CacheInv, CacheTypeOK
    <3>3. /\ entries'[s].closed = entries[s].closed
          /\ entries'[s].age = IF entries[s].age < Ttl THEN entries[s].age + 1 ELSE Ttl
          /\ entries[s].age \in Nat /\ entries[s].age <= Ttl
      BY <2>1, <2>2, <3>2, AgesAreData
    <3>4. \/ entries[s].closed \/ closedFor[s] = None \/ entries[s].age = Ttl
          \/ closedFor[s] <= entries[s].age + MaxLatency
      BY <3>1 DEF CacheInv, EntryInv
    <3>5. \/ entries[s].closed \/ closedFor'[s] = None \/ entries'[s].age = Ttl
          \/ closedFor'[s] <= entries'[s].age + MaxLatency
      BY <2>4, <3>3, <3>4 DEF Never
    <3> QED BY <3>3, <3>5 DEF EntryInv
  <2>8. \A c \in Callers : AnswerInv(c)'
    BY <2>1 DEF AnswerInv
  <2>9. \A c \in Callers : stage'[c] # "Idle" \/ answer'[c] # None => wants'[c] \in Slugs
    BY <2>1 DEF CacheInv
  <2>10. \A c \in Callers : stage'[c] = "Inserting" => response'[c] # None
    BY <2>1
  <2> QED BY <2>5, <2>6, <2>7, <2>8, <2>9, <2>10 DEF CacheInv
<1>10. CASE UNCHANGED cacheVars
  BY <1>10 DEF cacheVars, callerVars, CacheInv, CacheTypeOK, ResponseInv, AnswerInv, EntryInv
<1> QED
  BY <1>1, <1>2, <1>3, <1>4, <1>5, <1>6, <1>7, <1>8, <1>9, <1>10 DEF CacheNext, Call, Proceed

\* The invariant holds in every reachable state.
THEOREM CacheInvariance == CacheSpec => []CacheInv
  BY InitCache, NextCache, PTL DEF CacheSpec

\* However many look up markets at the same time and overwrite each other's entries with older
\* data, a market that has been closed for Ttl + MaxLatency is not taken for open.
THEOREM StaleAnswersEnd == CacheSpec => []StalenessIsBounded
<1>1. CacheInv => StalenessIsBounded
  BY DEF CacheInv, AnswerInv, StalenessIsBounded
<1> QED BY <1>1, CacheInvariance, PTL
=============================================================================
