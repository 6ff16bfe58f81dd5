----------------------------- MODULE MCExitMonitor -----------------------------
EXTENDS ExitMonitor

CONSTANTS t1, t2

MCTokens == <<t1, t2>>
MCCategory == [t \in {t1, t2} |-> IF t = t1 THEN "Sports" ELSE None]
MCLower == [n \in {"Sports", "sports"} |-> "sports"]

\* Two spellings of one category, and a percentage that is no whole number of basis points.
MCConfigs ==
  { [enabled |-> TRUE, tp |-> 50000, sl |-> 30000,
     perTp |-> [n \in {"Sports", "sports"} |-> IF n = "Sports" THEN 20000 ELSE 30000],
     perSl |-> [n \in {} |-> 0]],
    [enabled |-> TRUE, tp |-> 33333, sl |-> 10000,
     perTp |-> [n \in {"sports"} |-> 60000], perSl |-> [n \in {"sports"} |-> 60000]] }
MCOff == MCConfigs \cup { [c EXCEPT !.enabled = FALSE] : c \in MCConfigs }
MCMids == {None, 300, 500, 700, 1000}
=============================================================================
