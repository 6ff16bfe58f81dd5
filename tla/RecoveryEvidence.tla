--------------------------- MODULE RecoveryEvidence ----------------------------
(***************************************************************************)
(* How the recovery gateway (clob_sdk_recovery.rs) finds out what became of *)
(* one order: it asks for the order, and if that is matched for each of its *)
(* trades, one request after the other, while the exchange goes on.         *)
(*                                                                          *)
(* The exchange is external: an order is delayed, rests, is matched in      *)
(* parts and canceled, its trades are confirmed or fail later, a response   *)
(* can be missing, unreadable or about something else, and a trade can be   *)
(* absent from the order's list for a while.  Amounts are in units of       *)
(* 1/Scale micro-unit of USD, so that a product can fall between two        *)
(* micro-units, which decimal_to_micros refuses.                            *)
(*                                                                          *)
(* A definition named Faulty... is a mistake the next definition could have *)
(* made; nothing uses it.                                                   *)
(***************************************************************************)
EXTENDS Optional, Integers, FiniteSets, FiniteSetsExt

CONSTANTS TradeIds,
          Size,        \* original_size of the order, in micro-shares
          Limit,       \* its price
          TradePrices, \* prices a trade can have, the limit and better ones: lower for
                       \* an order to buy, higher for one to sell
          Scale        \* units of price per micro-USD

ASSUME EvidenceAssumption ==
  /\ Size \in Nat \ {0} /\ Limit \in Nat \ {0} /\ Scale \in Nat \ {0}
  /\ TradePrices \subseteq Nat \ {0} /\ (Size * Limit) % Scale = 0
  /\ (\A p \in TradePrices : p <= Limit) \/ (\A p \in TradePrices : p >= Limit)

OrderStatuses == {"Delayed", "Live", "Matched", "Canceled"}

TradeStatuses == {"Matched", "Confirmed", "Failed"}

\* total is the size of the trade, ours the part that belongs to the order.
Trades == [ours : 1 .. Size, total : 1 .. Size + 1, price : TradePrices, status : TradeStatuses,
           role : {"Taker", "Maker"}]

Evidence == {"Matched", "NoFill", "Live", "Pending", "Uncertain"}

ASSUME NoEvidenceAssumption == None \notin Evidence

ASSUME NoTradeAssumption == None \notin Trades

VARIABLES status,   \* OpenOrderResponse.status, as the exchange has it
          trades,   \* trades[t]: what was traded under identity t, or None
          asking,   \* where the lookup is
          left,     \* the trades it has still to ask for
          shares,   \* what it has added up
          usd,
          finding   \* the evidence it has returned, None before

exchangeVars == <<status, trades>>
lookupVars == <<asking, left, shares, usd, finding>>
evidenceVars == <<exchangeVars, lookupVars>>

Made == { t \in TradeIds : trades[t] # None }

Ours(t) == trades[t].ours

\* MapThenSumSet of the community modules adds up a function over a set.
Matched == MapThenSumSet(Ours, Made)

EvidenceInit ==
  /\ status \in {"Delayed", "Live"}
  /\ trades = [t \in TradeIds |-> None]
  /\ asking = "Idle" /\ left = {} /\ shares = 0 /\ usd = 0 /\ finding = None

-----------------------------------------------------------------------------
(* The exchange                                                             *)

Accept ==
  /\ status = "Delayed" /\ status' = "Live"
  /\ UNCHANGED <<trades, lookupVars>>

Trade ==
  /\ status = "Live"
  /\ \E t \in TradeIds \ Made, trade \in Trades :
       /\ trade.ours <= Size - Matched /\ trade.status = "Matched"
       /\ trade.role = "Taker" => trade.total = trade.ours
       /\ trade.role = "Maker" => trade.total >= trade.ours /\ trade.price = Limit
       /\ trades' = [trades EXCEPT ![t] = trade]
       /\ status' = IF Matched + trade.ours = Size THEN "Matched" ELSE "Live"
  /\ UNCHANGED lookupVars

\* A trade is settled on the chain, or it is not.
Settle ==
  /\ \E t \in Made, outcome \in {"Confirmed", "Failed"} :
       /\ trades[t].status = "Matched"
       /\ trades' = [trades EXCEPT ![t].status = outcome]
  /\ UNCHANGED <<status, lookupVars>>

Kill ==
  /\ status \in {"Delayed", "Live"} /\ status' = "Canceled"
  /\ UNCHANGED <<trades, lookupVars>>

-----------------------------------------------------------------------------
(* The lookup                                                               *)

Concludes(evidence) ==
  /\ finding' = evidence /\ asking' = "Idle" /\ left' = {}
  /\ UNCHANGED <<exchangeVars, shares, usd>>

\* Nothing was matched and no trade is named.
Unmatched(ids) == Matched = 0 /\ ids = {}

\* classify_order, on a response that names the order, its token, side and amounts.
Classify(ids) ==
  CASE status = "Live" -> IF Unmatched(ids) THEN "Live" ELSE "Uncertain"
    [] status = "Delayed" -> IF Unmatched(ids) THEN "Pending" ELSE "Uncertain"
    [] status = "Canceled" -> IF Unmatched(ids) THEN "NoFill" ELSE "Uncertain"
    [] status = "Matched" -> IF Matched = Size /\ ids # {} THEN "Matched" ELSE "Uncertain"

Decided == finding \in {"Matched", "NoFill"}

AskOrder ==
  /\ asking = "Idle" /\ ~ Decided
  /\ \E ids \in SUBSET Made :
       IF Classify(ids) = "Matched"
       THEN /\ asking' = "Trades" /\ left' = ids /\ shares' = 0 /\ usd' = 0 /\ finding' = None
            /\ UNCHANGED exchangeVars
       ELSE Concludes(Classify(ids))

\* order_amounts, decimal_to_micros: a product that is no whole number of micro-USD is refused.
Whole(amount, price) == (amount * price) % Scale = 0

\* A trade counts as soon as it has been matched.
FaultyCounts(trade) == trade.status \in {"Matched", "Confirmed"}

\* classify_trade: only a confirmed trade counts, with the part of it that is the order's.
Counts(trade) == trade.status = "Confirmed"

\* The whole of a trade is counted.
FaultyPart(trade) == trade.total

Part(trade) == IF trade.role = "Taker" THEN trade.total ELSE trade.ours

AskTrade ==
  /\ asking = "Trades"
  /\ \E t \in left :
       IF Counts(trades[t]) /\ Whole(Part(trades[t]), trades[t].price)
       THEN /\ left' = left \ {t}
            /\ shares' = shares + Part(trades[t])
            /\ usd' = usd + (Part(trades[t]) * trades[t].price) \div Scale
            /\ UNCHANGED <<exchangeVars, asking, finding>>
       ELSE Concludes("Uncertain")

\* Both sums are exactly the amounts that were signed.
Exact == shares = Size /\ usd = (Size * Limit) \div Scale

Total ==
  /\ asking = "Trades" /\ left = {}
  /\ Concludes(IF Exact THEN "Matched" ELSE "Uncertain")

\* A timeout, a transport or decoding error, a 404, a response that names something else, a
\* trade list with a repeated or malformed identity.
Unusable ==
  /\ ~ Decided
  /\ Concludes("Uncertain")

EvidenceNext == Accept \/ Trade \/ Settle \/ Kill \/ AskOrder \/ AskTrade \/ Total \/ Unusable

EvidenceSpec == EvidenceInit /\ [][EvidenceNext]_evidenceVars

\* The operator repeats the lookup, the exchange comes to a decision and answers in the end
\* with the complete list of trades, and from some point on with usable responses.
EvidenceFairSpec ==
  /\ EvidenceSpec
  /\ WF_evidenceVars(Accept) /\ WF_evidenceVars(Settle) /\ WF_evidenceVars(Trade \/ Kill)
  /\ SF_evidenceVars(AskOrder /\ left' = Made)
  /\ WF_evidenceVars(AskTrade) /\ WF_evidenceVars(Total)
  /\ <>[][asking = "Trades" /\ asking' = "Idle" => AskTrade \/ Total]_evidenceVars

-----------------------------------------------------------------------------
(* Properties                                                               *)

\* The variables have their types, and the lookup never adds up more than the whole order.
EvidenceTypeOK ==
  /\ status \in OrderStatuses /\ trades \in [TradeIds -> Trades \cup {None}]
  /\ asking \in {"Idle", "Trades"} /\ left \subseteq TradeIds
  /\ shares \in 0 .. Size /\ usd \in Nat /\ finding \in Evidence \cup {None}

Confirmed == { t \in TradeIds : trades[t] # None /\ trades[t].status = "Confirmed" }

\* Whatever is reported as decided is true, and stays true while the exchange goes on: a match
\* is a fill of the whole order, confirmed on the chain, at exactly the signed price, although
\* order and trades were read one after the other; a no-fill is an order that never trades.
EvidenceIsTrue ==
  /\ finding = "Matched" =>
       /\ MapThenSumSet(Ours, Confirmed) = Size
       /\ \A t \in Made : trades[t].price = Limit
  /\ finding = "NoFill" => status = "Canceled" /\ Made = {}

\* A fill that the lookup can recognize.  A better price than the limit, or a part whose value
\* is no whole number of micro-USD, it cannot.
Recognizable ==
  /\ Confirmed = Made /\ Matched = Size
  /\ \A t \in Made : trades[t].price = Limit /\ Whole(trades[t].ours, Limit)

\* Evidence that can be had is found: a recognizable fill, or an order that was canceled
\* untouched, does not leave the operator with Uncertain for ever.
DecidedFatesAreFound ==
  /\ Recognizable ~> finding = "Matched"
  /\ status = "Canceled" /\ Made = {} ~> finding = "NoFill"
=============================================================================
