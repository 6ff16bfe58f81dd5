---------------------------- MODULE MCCopyDecision ----------------------------
(* Two markets of a category whose name Gamma writes in two ways, one of them with two outcomes, *)
(* and caps that leave room for some of the positions.                                           *)
EXTENDS CopyDecision

CONSTANTS whale, other, yes, no, far

Log(maker, given, taken, gives, takes) ==
  [maker |-> maker, makerAsset |-> given, takerAsset |-> taken, makerAmount |-> gives, takerAmount |-> takes]

\* Five and ten dollars of each token, an amount that is not a multiple of five micro-dollars, a
\* trade too small to copy, a sale and somebody else's trade.
MCLogs ==
  { Log(whale, Cash, t, usd, 10000000) : t \in {yes, no, far}, usd \in {5000000, 9000000} }
  \cup {Log(whale, Cash, no, 5000003, 10000000), Log(whale, Cash, far, 1000, 10000000),
        Log(whale, yes, Cash, 10000000, 5000000), Log(other, Cash, yes, 5000000, 10000000)}

Market(slug, category, tags, closed) ==
  [slug |-> slug, category |-> category, tags |-> tags, closed |-> closed]

MCMetadata ==
  [t \in {yes, no, far} |->
     IF t = far
     THEN {Market("far", "Sports", {"Live"}, FALSE), Market("far", None, {"LIVE", "Final"}, FALSE),
           Market("far", "SPORTS", {"Banned"}, FALSE)}
     ELSE {Market("near", "SPORTS", {"Final"}, FALSE), Market("near", "Sports", {}, TRUE),
           Market("near", "News", {"live"}, FALSE)}]

MCLower ==
  [n \in {"near", "far", "Sports", "SPORTS", "sports", "News", "Live", "LIVE", "live", "Final", "Banned", "BANNED"} |->
     CASE n \in {"Sports", "SPORTS", "sports"} -> "sports"
       [] n \in {"Live", "LIVE", "live"} -> "live"
       [] n \in {"Banned", "BANNED"} -> "banned"
       [] OTHER -> n]

MCFilters ==
  [slugBlock |-> {}, categoriesBlock |-> {}, tagsBlock |-> {"BANNED"},
   slugAllow |-> {"far"}, categoriesAllow |-> {"sports"}, tagsAllow |-> {"live"}]

MCCategoryCap == [n \in {"sports"} |-> 2200000]
MCTagCap == [n \in {"live", "LIVE", "Final"} |-> IF n = "live" THEN 1500000 ELSE 2500000]

\* The three ways to size an order.
Strategy(strategy) ==
  [strategy |-> strategy, percent |-> 20, fixed |-> 1100000, multiplier |-> 1, least |-> 500000,
   most |-> 5000000, leastShares |-> 10, threshold |-> 800000, low |-> 5, high |-> 30]

\* The last one is capped by its largest order.
MCConfigs ==
  { Strategy(s) : s \in {"Percentage", "Fixed", "Adaptive"} }
  \cup { [Strategy("Percentage") EXCEPT !.multiplier = 2, !.most = 1999999] }
=============================================================================
