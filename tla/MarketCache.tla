------------------------------ MODULE MarketCache -------------------------------
(***************************************************************************)
(* The read-through cache of market metadata (market_cache.rs): entries by  *)
(* slug with a time to live, an index from outcome tokens to slugs, two     *)
(* locks, and callers that fetch on their own when they miss.               *)
(*                                                                          *)
(* Of the metadata only `closed` is kept, which is what a stale answer gets *)
(* wrong: a market closes, and never opens again.  Gamma is external; a     *)
(* response is on its way for at most MaxLatency, an assumption about the   *)
(* network, since the HTTP client has no timeout.  Instants are ages, which *)
(* stop where no comparison tells them apart.                               *)
(*                                                                          *)
(* A definition named Faulty... is a mistake the next definition could have *)
(* made; nothing uses it.                                                   *)
(***************************************************************************)
EXTENDS Optional, Integers, FiniteSets

CONSTANTS Callers, Slugs, OutcomeTokens,
          SlugOf,       \* the market of a token
          Ttl,          \* ttl
          MaxLatency    \* bound on the age of a response when it arrives

ASSUME CacheAssumption ==
  /\ SlugOf \in [OutcomeTokens -> Slugs] /\ Ttl \in Nat \ {0} /\ MaxLatency \in Nat
  /\ None \notin Nat \cup BOOLEAN /\ None \notin [closed : BOOLEAN, age : Nat]

VARIABLES closedFor,    \* how long a market has been closed, None while it is open
          entries,      \* entries[s]: [closed, age], or None
          index,        \* the tokens of token_index
          stage,        \* where each caller is
          wants,        \* the market it looks up
          response,     \* what it was sent: [closed, age], or None
          answer        \* what it was last told: TRUE, FALSE (closed or not), or None

callerVars == <<stage, wants, response, answer>>
cacheVars == <<closedFor, entries, index, callerVars>>

Never == Ttl + MaxLatency       \* no age above this is told apart

CacheInit ==
  /\ closedFor = [s \in Slugs |-> None]
  /\ entries = [s \in Slugs |-> None] /\ index = {}
  /\ stage = [c \in Callers |-> "Idle"] /\ wants = [c \in Callers |-> None]
  /\ response = [c \in Callers |-> None] /\ answer = [c \in Callers |-> None]

\* The guard of `if let Some(slug) = self.token_index.read()...` lives as long as its block.
IndexReaders == { c \in Callers : stage[c] = "Peeking" }

\* Between entries.write() and the end of insert.
EntryWriters == { c \in Callers : stage[c] = "Inserting" }

\* An entry is good for its last moment, too.
FaultyUsable(entry) == entry.age <= Ttl

Usable(entry) == entry.age < Ttl

Goes(c, place) == stage' = [stage EXCEPT ![c] = place]

Tells(c, closed) ==
  /\ answer' = [answer EXCEPT ![c] = closed]
  /\ Goes(c, "Idle")

\* peek, and a fetch when it finds nothing.
PeekFor(c, s) ==
  IF entries[s] # None /\ Usable(entries[s])
  THEN Tells(c, entries[s].closed)
  ELSE Goes(c, "Fetching") /\ answer' = [answer EXCEPT ![c] = None]

BySlug(c, s) ==
  /\ stage[c] = "Idle" /\ EntryWriters = {}
  /\ PeekFor(c, s)
  /\ wants' = [wants EXCEPT ![c] = s]
  /\ UNCHANGED <<closedFor, entries, index, response>>

ByTokenId(c, t) ==
  /\ stage[c] = "Idle"
  /\ Goes(c, IF t \in index THEN "Peeking" ELSE "Fetching")
  /\ wants' = [wants EXCEPT ![c] = SlugOf[t]]
  /\ answer' = [answer EXCEPT ![c] = None]
  /\ UNCHANGED <<closedFor, entries, index, response>>

Peek(c) ==
  /\ stage[c] = "Peeking" /\ EntryWriters = {}
  /\ PeekFor(c, wants[c])
  /\ UNCHANGED <<closedFor, entries, index, wants, response>>

\* Gamma reads its data and answers.
Respond(c) ==
  /\ stage[c] = "Fetching" /\ response[c] = None
  /\ response' = [response EXCEPT ![c] = [closed |-> closedFor[wants[c]] # None, age |-> 0]]
  /\ UNCHANGED <<closedFor, entries, index, stage, wants, answer>>

\* The request fails, or the market is not in the response.
Fail(c) ==
  /\ stage[c] = "Fetching"
  /\ Goes(c, "Idle") /\ response' = [response EXCEPT ![c] = None]
  /\ UNCHANGED <<closedFor, entries, index, wants, answer>>

BeginInsert(c) ==
  /\ stage[c] = "Fetching" /\ response[c] # None /\ EntryWriters = {}
  /\ Goes(c, "Inserting")
  /\ UNCHANGED <<closedFor, entries, index, wants, response, answer>>

\* Stamped with the time of the insertion, not of the data, and whatever is there already.
Stored(c) == [entries EXCEPT ![wants[c]] = [closed |-> response[c].closed, age |-> 0]]

FinishInsert(c) ==
  /\ stage[c] = "Inserting" /\ IndexReaders = {}
  /\ entries' = Stored(c)
  /\ index' = index \cup { t \in OutcomeTokens : SlugOf[t] = wants[c] }
  /\ Tells(c, response[c].closed)
  /\ response' = [response EXCEPT ![c] = None]
  /\ UNCHANGED <<closedFor, wants>>

Close(s) ==
  /\ closedFor[s] = None
  /\ closedFor' = [closedFor EXCEPT ![s] = 0]
  /\ UNCHANGED <<entries, index, callerVars>>

Older(age, last) == IF age = None THEN None ELSE IF age < last THEN age + 1 ELSE last

AgedData(data, last) == IF data = None THEN None ELSE [data EXCEPT !.age = Older(@, last)]

\* Time passes while no response is older than MaxLatency.  A lock is not held for long: what
\* happens under a guard takes no time.
CacheAges ==
  /\ \A c \in Callers : response[c] # None => response[c].age < MaxLatency
  /\ \A c \in Callers : stage[c] \in {"Idle", "Fetching"}
  /\ closedFor' = [s \in Slugs |-> Older(closedFor[s], Never)]
  /\ entries' = [s \in Slugs |-> AgedData(entries[s], Ttl)]
  /\ response' = [c \in Callers |-> AgedData(response[c], MaxLatency)]
  /\ answer' = [c \in Callers |-> None]
  /\ UNCHANGED <<index, stage, wants>>

Proceed(c) == Peek(c) \/ Respond(c) \/ Fail(c) \/ BeginInsert(c) \/ FinishInsert(c)

Call(c) == (\E s \in Slugs : BySlug(c, s)) \/ (\E t \in OutcomeTokens : ByTokenId(c, t))

CacheNext ==
  \/ \E c \in Callers : Call(c) \/ Proceed(c)
  \/ \E s \in Slugs : Close(s)
  \/ CacheAges

CacheSpec == CacheInit /\ [][CacheNext]_cacheVars

-----------------------------------------------------------------------------
(* Properties                                                               *)

Ages(last) == [closed : BOOLEAN, age : 0 .. last]

\* The variables have their types.
CacheTypeOK ==
  /\ closedFor \in [Slugs -> 0 .. Never \cup {None}] /\ index \subseteq OutcomeTokens
  /\ entries \in [Slugs -> Ages(Ttl) \cup {None}]
  /\ stage \in [Callers -> {"Idle", "Peeking", "Fetching", "Inserting"}]
  /\ wants \in [Callers -> Slugs \cup {None}]
  /\ response \in [Callers -> Ages(MaxLatency) \cup {None}]
  /\ answer \in [Callers -> BOOLEAN \cup {None}]

\* A market that has been closed for the time to live and the longest latency is not taken for
\* open any more, although its entry is stamped when the response is stored and not when Gamma
\* read it.
StalenessIsBounded ==
  \A c \in Callers : answer[c] = FALSE /\ closedFor[wants[c]] # None =>
    closedFor[wants[c]] < Ttl + MaxLatency
=============================================================================
