------------------------------- MODULE ExitMonitor -------------------------------
(***************************************************************************)
(* Take profit and stop loss: the thresholds a position gets when it is     *)
(* opened (tp_sl_for in order_executor.rs), the positions a store gives out *)
(* (position_store.rs), the midpoints (midprice.rs) and the monitor that    *)
(* works off one snapshot of the open positions after the other             *)
(* (position_monitor.rs), beside the entries and across restarts with       *)
(* another configuration.                                                   *)
(*                                                                          *)
(* Of a submission only the lock and the result are kept; LiveExecution has *)
(* its steps.  Prices are thousandths of a dollar, percentages tenths of a  *)
(* basis point.  Positions are long: nothing opens another.                 *)
(*                                                                          *)
(* A definition named Faulty... is a mistake the next definition could have *)
(* made; nothing uses it.                                                   *)
(***************************************************************************)
EXTENDS Optional, Naturals, Integers, Sequences

CONSTANTS Tokens,      \* the tokens as a snapshot sorts them, a sequence
          Category,    \* the category of each token's market, or None
          Lower,       \* the category names in lower case
          Configs,     \* TpSlConfig: [enabled, tp, sl, perTp, perSl]
          Prices,      \* what entries cost
          Mids         \* midpoints, None when the lookup fails

Traded == { Tokens[i] : i \in DOMAIN Tokens }

ASSUME TokensAssumption == Tokens \in Seq(Traded)

VARIABLES cfg,      \* the configuration of the running process
          first,    \* which of several matching names its hash maps give first
          book,     \* the open positions, [token, price, tp, sl]
          entry,    \* the entry that is being submitted, or None
          mids,     \* the midpoints of the tokens
          at,       \* the monitor: "Off", "Waiting", "Ticking", "Asking", "Queued",
            \* "Submitting" or "Ended"; "Down" while no process runs
          queue,    \* what is left of its snapshot
          mid,      \* the midpoint of the position at hand
          doubt     \* the order with an unknown result, or None

configVars == <<cfg, first>>
monitorVars == <<at, queue, mid>>
exitVars == <<configVars, book, entry, mids, monitorVars, doubt>>

-----------------------------------------------------------------------------
(* Thresholds                                                               *)

\* ci_eq: the same but for the case of letters.
Named(names, category) == { n \in names : category # None /\ Lower[n] = Lower[category] }

\* The names a process finds for the categories of the markets, if there are several.
Firsts(names) ==
  { f \in [Traded -> names \cup {None}] :
      \A t \in Traded : LET found == Named(names, Category[t])
                        IN IF found = {} THEN f[t] = None ELSE f[t] \in found }

\* tp_sl_for.
TakeProfit(token) == IF first.tp[token] = None THEN cfg.tp ELSE cfg.perTp[first.tp[token]]
StopLoss(token) == IF first.sl[token] = None THEN cfg.sl ELSE cfg.perSl[first.sl[token]]

\* bps_from_pct.
WholeBps(percent) == percent % 10 = 0

\* What a position would be opened with.
Seed(token) == [tp |-> TakeProfit(token) \div 10, sl |-> StopLoss(token) \div 10]

Configure(new) ==
  /\ cfg' = new
  /\ first' \in [tp : Firsts(DOMAIN new.perTp), sl : Firsts(DOMAIN new.perSl)]

MonitorInit ==
  /\ cfg \in Configs
  /\ first \in [tp : Firsts(DOMAIN cfg.perTp), sl : Firsts(DOMAIN cfg.perSl)]
  /\ book = {} /\ entry = None /\ mids \in [Traded -> Mids]
  /\ at = (IF cfg.enabled THEN "Waiting" ELSE "Off")
  /\ queue = <<>> /\ mid = None /\ doubt = None

-----------------------------------------------------------------------------
(* Entries                                                                  *)

IsOpen(token) == \E p \in book : p.token = token

\* Percentages are looked at when the position is booked.
FaultySeedable(token) == TRUE

\* Before anything is submitted.
Seedable(token) == WholeBps(TakeProfit(token)) /\ WholeBps(StopLoss(token))

SubmitEntry(token, price) ==
  /\ doubt = None /\ entry = None /\ at \notin {"Submitting", "Ended", "Down"}
  /\ ~ IsOpen(token) /\ Seedable(token)
  /\ entry' = [token |-> token, price |-> price, seed |-> Seed(token)]
  /\ UNCHANGED <<configVars, book, mids, monitorVars, doubt>>

\* record_open_from_receipt looks the thresholds up once more, and the reducer compares them
\* with the seed in the journal.
Booked == WholeBps(TakeProfit(entry.token)) /\ WholeBps(StopLoss(entry.token)) /\ Seed(entry.token) = entry.seed

Opened == [token |-> entry.token, price |-> entry.price, tp |-> entry.seed.tp, sl |-> entry.seed.sl]

EntryFilled ==
  /\ entry # None
  /\ IF Booked THEN book' = book \cup {Opened} /\ UNCHANGED doubt
               ELSE doubt' = [opens |-> {Opened}, closes |-> {}, why |-> "Unbooked"] /\ UNCHANGED book
  /\ entry' = None
  /\ UNCHANGED <<configVars, mids, monitorVars>>

EntryNotSubmitted ==
  /\ entry # None /\ entry' = None
  /\ UNCHANGED <<configVars, book, mids, monitorVars, doubt>>

EntryUncertain ==
  /\ entry # None /\ entry' = None
  /\ doubt' = [opens |-> {Opened}, closes |-> {}, why |-> "Uncertain"]
  /\ UNCHANGED <<configVars, book, mids, monitorVars>>

-----------------------------------------------------------------------------
(* The monitor                                                              *)

Place(token) == CHOOSE i \in DOMAIN Tokens : Tokens[i] = token

Sorted(s) == \A i, j \in DOMAIN s : i < j => Place(s[i].token) < Place(s[j].token)

\* snapshot: all that is open, sorted by token.
Snapshots ==
  { s \in UNION { [1 .. n -> book] : n \in 0 .. Len(Tokens) } :
      Sorted(s) /\ { s[i] : i \in DOMAIN s } = book }

Tick ==
  /\ at = "Waiting"
  /\ at' = "Ticking" /\ queue' \in Snapshots
  /\ UNCHANGED <<configVars, book, entry, mids, mid, doubt>>

EndTick ==
  /\ at = "Ticking" /\ queue = <<>> /\ at' = "Waiting"
  /\ UNCHANGED <<configVars, book, entry, mids, queue, mid, doubt>>

\* pnl_pct against the thresholds in basis points.
Triggered(p, price) ==
  \/ (price - p.price) * 10000 >= p.tp * p.price
  \/ (price - p.price) * 10000 <= - (p.sl * p.price)

\* monitor_once: a midpoint that is none, or not within the band, triggers nothing.
Due(p, price) == price # None /\ price > 0 /\ price < 1000 /\ Triggered(p, price)

\* On to the next position, also after a lookup that failed.
Pass == queue' = Tail(queue) /\ at' = "Ticking"

Ask ==
  /\ at = "Ticking" /\ queue # <<>> /\ at' = "Asking"
  /\ UNCHANGED <<configVars, book, entry, mids, queue, mid, doubt>>

\* The lookup is answered, or fails.
Look ==
  /\ at = "Asking"
  /\ LET p == Head(queue) IN
     IF Due(p, mids[p.token]) THEN at' = "Queued" /\ mid' = mids[p.token] /\ UNCHANGED queue
     ELSE Pass /\ UNCHANGED mid
  /\ UNCHANGED <<configVars, book, entry, mids, doubt>>

\* submit_fok: the lock, and the breaker that an earlier order has halted.
EnterExit ==
  /\ at = "Queued" /\ entry = None
  /\ at' = IF doubt = None THEN "Submitting" ELSE "Ended"
  /\ UNCHANGED <<configVars, book, entry, mids, queue, mid, doubt>>

\* The position is looked at again.
FaultyContinue == at' = "Ticking" /\ mid' = None /\ UNCHANGED queue

Continue == at' = "Ticking" /\ queue' = Tail(queue) /\ mid' = None

\* apply_filled_close.
ExitFilled ==
  /\ at = "Submitting"
  /\ book' = book \ {Head(queue)} /\ Continue
  /\ UNCHANGED <<configVars, entry, mids, doubt>>

\* An exit that was refused is tried again before the next position.
FaultyExitNotSubmitted ==
  /\ at = "Submitting" /\ at' = "Queued"
  /\ UNCHANGED <<configVars, book, entry, mids, queue, mid, doubt>>

ExitNotSubmitted ==
  /\ at = "Submitting" /\ Continue
  /\ UNCHANGED <<configVars, book, entry, mids, doubt>>

\* The monitor ends with the error.
ExitUncertain ==
  /\ at = "Submitting"
  /\ at' = "Ended" /\ doubt' = [opens |-> {}, closes |-> {Head(queue)}, why |-> "Uncertain"]
  /\ UNCHANGED <<configVars, book, entry, mids, queue, mid>>

-----------------------------------------------------------------------------
(* Everything else                                                          *)

Move(token) ==
  /\ \E price \in Mids : mids' = [mids EXCEPT ![token] = price]
  /\ UNCHANGED <<configVars, book, entry, monitorVars, doubt>>

\* The process ends and the operator resolves what is in doubt.
Stop ==
  /\ at # "Down" /\ at' = "Down"
  /\ LET unknown == IF doubt # None THEN doubt
                    ELSE [opens |-> IF entry = None THEN {} ELSE {Opened},
                          closes |-> IF at = "Submitting" THEN {Head(queue)} ELSE {}]
     IN book' \in {book, (book \cup unknown.opens) \ unknown.closes}
  /\ entry' = None /\ queue' = <<>> /\ mid' = None /\ doubt' = None
  /\ UNCHANGED <<configVars, mids>>

\* Another one starts, with the same positions and perhaps another configuration.
StartAgain ==
  /\ at = "Down"
  /\ \E new \in Configs : Configure(new) /\ at' = IF new.enabled THEN "Waiting" ELSE "Off"
  /\ UNCHANGED <<book, entry, mids, queue, mid, doubt>>

Submitted == EntryFilled \/ EntryNotSubmitted \/ EntryUncertain

ExitSubmitted == ExitFilled \/ ExitNotSubmitted \/ ExitUncertain

MonitorNext ==
  \/ \E t \in Traded, price \in Prices : SubmitEntry(t, price)
  \/ Submitted \/ Tick \/ EndTick \/ Ask \/ Look \/ EnterExit \/ ExitSubmitted
  \/ \E t \in Traded : Move(t)
  \/ Stop \/ StartAgain

MonitorSpec == MonitorInit /\ [][MonitorNext]_exitVars

\* The ticker ticks, the loop goes on where it waits for nobody, and the submission lock is a
\* queue.  Nothing is assumed of what the task waits for: a lookup or the preparation of an
\* order may never end (the HTTP client of the program has no timeout), and an exit may be
\* refused every time.
MonitorFairSpec ==
  /\ MonitorSpec
  /\ WF_exitVars(Tick) /\ WF_exitVars(EndTick) /\ WF_exitVars(Ask) /\ SF_exitVars(EnterExit)

-----------------------------------------------------------------------------
(* Properties                                                               *)

\* The variables have their types; one position of a token is open, and the submission lock
\* has one holder.
MonitorTypeOK ==
  /\ at \in {"Off", "Waiting", "Ticking", "Asking", "Queued", "Submitting", "Ended", "Down"}
  /\ \A p \in book : p.token \in Traded /\ p.price \in Prices /\ {p.tp, p.sl} \subseteq Nat
  /\ \A p, q \in book : p.token = q.token => p = q
  /\ \A i \in DOMAIN queue : queue[i].token \in Traded
  /\ at \in {"Asking", "Queued", "Submitting"} => queue # <<>>
  /\ at \in {"Queued", "Submitting"} => mid \in Mids \ {None}
  /\ ~ (entry # None /\ at = "Submitting")

\* What an exit is asked for is still open, although the snapshot was taken before the lookups
\* and submissions of the positions ahead of it.
ExitsWhatIsOpen == at \in {"Queued", "Submitting"} => Head(queue) \in book

\* A filled entry is booked: no configuration makes its booking fail after it was paid for.
FillsAreBooked == doubt # None => doubt.why # "Unbooked"

DueNow(token) == \E p \in book : p.token = token /\ Due(p, mids[token])

Watching == at \notin {"Off", "Ended", "Down"} /\ doubt = None

HasItsTurn(token) == at = "Submitting" /\ Head(queue).token = token

\* One lookup, one exit or one entry that holds the submission lock never ends.
WaitsForGood == <>[](at = "Asking") \/ <>[](at = "Submitting") \/ <>[](at = "Queued" /\ entry # None)

\* A position whose midpoint stays beyond a threshold is submitted for exit again and again
\* until it is left, although lookups keep failing and other exits keep being refused; only a
\* request that is never answered can keep the monitor from it.
DuePositionsGetTheirTurn ==
  <>[]Watching =>
    WaitsForGood \/ \A t \in Traded : []<>(~ DueNow(t) \/ HasItsTurn(t))
=============================================================================
