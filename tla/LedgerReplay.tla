------------------------------ MODULE LedgerReplay ------------------------------
(***************************************************************************)
(* What an open of the execution ledger reads: the lines of the file, their *)
(* decoding (execution_ledger/model.rs), the hash chain (replay in          *)
(* storage.rs) and the snapshot beside it (snapshot.rs), when a file was    *)
(* cut, edited, restored from a copy or removed since it was written.       *)
(*                                                                          *)
(* Abstractions.  A hash is the sequence of event contents it commits to,   *)
(* which takes SHA-256 to have no collisions; the hash of nothing is <<>>.  *)
(* A line is its fields and the shape of its JSON.  The kinds stand for the *)
(* three sorts of payload a kind can have; LedgerProjection has all of them *)
(* and the order they may come in, of which the two sides here keep only    *)
(* that an intent is prepared when none is active.  Intent and time are part *)
(* of the payload.                                                          *)
(*                                                                          *)
(* A definition named Faulty... is a mistake the next definition could have *)
(* made; nothing uses it.                                                   *)
(***************************************************************************)
EXTENDS Optional, Naturals, Sequences, SequencesExt

CONSTANTS MaxEvents,   \* bound: events that are written
          MaxDamage    \* bound: changes made to the files from outside

ASSUME BoundsAssumption == {MaxEvents, MaxDamage} \subseteq Nat

Schema == 1

EventKinds ==
  {"intent_prepared", "submit_started", "remote_matched", "reconciled_matched", "submission_committed"}

LineKinds == EventKinds \cup {"of a later version"}

\* from_parts: the type of the payload that is read of each kind.
PayloadTypes ==
  [ kind \in EventKinds |->
      IF kind = "intent_prepared" THEN "PreparedIntent"
      ELSE IF kind \in {"remote_matched", "reconciled_matched"} THEN "MatchedAmounts" ELSE "null" ]

\* Type and value.
Payloads == {"PreparedIntent", "MatchedAmounts", "null"} \X {1, 2}

\* What a hash commits to of a line: whoever edits a line can compute its hash again.
EventContents == [schema : Nat, sequence : Nat, id : Nat, kind : LineKinds, payload : Payloads]

Hashes == Seq(EventContents)

Shapes == {"whole", "cut", "field unknown", "field twice", "respelled"}

\* A line that is in the file, or that its change can make of it.
LedgerLines ==
  [shape : Shapes, schema : Nat, sequence : Nat, id : Nat, kind : LineKinds,
   payload : Payloads, previous : Hashes, hash : Hashes]

SnapshotFiles == [schema : Nat, sequence : Nat, head : Hashes, active : BOOLEAN]

ASSUME NoFileAssumption == None \notin Nat \cup Hashes \cup SnapshotFiles

VARIABLES written,         \* history: the contents of the events up to the last that was appended
          lines,           \* the lines of the ledger file
          newline,         \* the last of them ends in a newline
          snapshotFile,    \* the active snapshot, or None
          earlier,         \* the snapshots it replaced
          headHash,        \* the running program's head hash, or None
          code,            \* what the last open came to
          ledgerDamage, snapshotDamage,  \* changes from outside
          forged           \* one of them left a line with the hash of its changed content

fileVars == <<lines, newline, snapshotFile, earlier>>
damageVars == <<ledgerDamage, snapshotDamage, forged>>
replayVars == <<written, fileVars, headHash, code, damageVars>>

ReplayInit ==
  /\ written = <<>> /\ lines = <<>> /\ newline = TRUE
  /\ snapshotFile = None /\ earlier = {}
  /\ headHash = None /\ code = "Closed" /\ ledgerDamage = 0 /\ snapshotDamage = 0
  /\ forged = FALSE

-----------------------------------------------------------------------------
(* One event                                                                *)

Content(line) ==
  [schema |-> line.schema, sequence |-> line.sequence, id |-> line.id,
   kind |-> line.kind, payload |-> line.payload]

\* calculate_event_hash, over every field that precedes it.
Digest(line) == Append(line.previous, Content(line))

\* "submission_committed" is written with the payload of a match.
FaultyPayload(kind) ==
  <<CASE kind = "intent_prepared" -> "PreparedIntent"
      [] kind = "submit_started" -> "null"
      [] OTHER -> "MatchedAmounts", 1>>

\* payload_value: what is written, in a list of its own beside that of from_parts.
Payload(kind) ==
  IF kind \in {"submit_started", "submission_committed"} THEN <<"null", 1>>
  ELSE IF kind = "intent_prepared" THEN <<"PreparedIntent", 1>> ELSE <<"MatchedAmounts", 1>>

\* LedgerEvent, serialized by append.
Line(kind) ==
  LET n == Len(headHash) + 1
      fields == [shape |-> "whole", schema |-> Schema, sequence |-> n, id |-> n, kind |-> kind,
                 payload |-> Payload(kind), previous |-> headHash, hash |-> <<>>]
  IN [fields EXCEPT !.hash = Digest(fields)]

ActiveAfter(contents) == contents # <<>> /\ Last(contents).kind # "submission_committed"

\* ActiveSnapshot::from_projection.
SnapshotOf(hash) ==
  [schema |-> Schema, sequence |-> Len(hash), head |-> hash, active |-> ActiveAfter(hash)]

-----------------------------------------------------------------------------
(* Replay                                                                   *)

\* UniqueJsonValue.
FieldsOnce(line) == line.shape # "field twice"

\* deny_unknown_fields.
FieldsKnown(line) == line.shape # "field unknown"

\* Hashes, order ids and tokens have one spelling.  White space, the order of the fields and
\* the zeros before a decimal may differ: the hash is that of the event, not of the text.
Spelled(line) == line.shape # "cut"

\* from_parts, classify_json_error.
Decoded(line) ==
  IF ~ (FieldsOnce(line) /\ FieldsKnown(line) /\ Spelled(line)) THEN "InvalidJson"
  ELSE IF line.kind \notin EventKinds THEN "UnsupportedEventKind"
  ELSE IF line.payload[1] # PayloadTypes[line.kind] THEN "InvalidJson" ELSE "Decoded"

\* The reducer: an intent is prepared when none is active.
InOrder(kind, head) == (kind = "intent_prepared") = ~ ActiveAfter(head)

\* replay, validate_and_apply: what is found out about line i, given that all the lines
\* before it are valid.
Verdict(i) ==
  LET line == lines[i]
      head == IF i = 1 THEN <<>> ELSE lines[i - 1].hash
  IN IF Decoded(line) # "Decoded" THEN Decoded(line)
     ELSE IF line.sequence # i THEN "SequenceMismatch"
     ELSE IF line.schema # Schema THEN "UnsupportedSchema"
     ELSE IF Digest(line) # line.hash THEN "EventHashMismatch"
     ELSE IF \E j \in 1 .. i - 1 : lines[j].id = line.id THEN "IdempotencyConflict"
     ELSE IF line.previous # head THEN "PreviousHashMismatch"
     ELSE IF ~ InOrder(line.kind, head) THEN "IllegalTransition" ELSE "Valid"

Replay ==
  LET wrong == { i \in DOMAIN lines : Verdict(i) # "Valid" }
  IN IF lines # <<>> /\ ~ newline THEN "TruncatedTail"
     ELSE IF wrong = {} THEN "Valid"
     ELSE Verdict(CHOOSE i \in wrong : \A j \in wrong : i <= j)

ReplayedHead == IF lines = <<>> THEN <<>> ELSE Last(lines).hash

\* A snapshot is compared by its active intent alone.
FaultyVerifySnapshot ==
  IF snapshotFile = None THEN IF ActiveAfter(ReplayedHead) THEN "SnapshotMissing" ELSE "Valid"
  ELSE IF snapshotFile.active = ActiveAfter(ReplayedHead) THEN "Valid" ELSE "SnapshotMismatch"

\* verify_snapshot.
VerifySnapshot ==
  IF snapshotFile = None THEN IF ActiveAfter(ReplayedHead) THEN "SnapshotMissing" ELSE "Valid"
  ELSE IF snapshotFile.schema = None THEN "InvalidSnapshot"
  ELSE IF snapshotFile.schema # Schema THEN "UnsupportedSnapshotSchema"
  ELSE IF snapshotFile = SnapshotOf(ReplayedHead) THEN "Valid" ELSE "SnapshotMismatch"

\* map_ledger_startup_failure: what the operator is told.
StartupCode(error) ==
  CASE error = "TruncatedTail" -> "LedgerTruncated"
    [] error \in {"UnsupportedEventKind", "UnsupportedSchema"} -> "LedgerUnsupported"
    [] error \in {"SnapshotMissing", "InvalidSnapshot", "UnsupportedSnapshotSchema", "SnapshotMismatch"}
         -> "SnapshotInconsistent"
    [] error = "IdempotencyConflict" -> "LedgerIdempotencyConflict"
    [] error \in {"InvalidJson", "EventHashMismatch", "SequenceMismatch", "PreviousHashMismatch",
                  "IllegalTransition"} -> "LedgerCorrupt"

-----------------------------------------------------------------------------
(* The program                                                              *)

\* open_with_ops.
OpenLedger ==
  /\ headHash = None
  /\ LET error == IF Replay # "Valid" THEN Replay ELSE VerifySnapshot
     IN IF error = "Valid" THEN headHash' = ReplayedHead /\ code' = "Opened"
                           ELSE headHash' = None /\ code' = StartupCode(error)
  /\ UNCHANGED <<written, fileVars, damageVars>>

\* append, with the snapshot it replaces.  A line that follows one without its newline
\* becomes a part of it.
AppendEvent(kind) ==
  /\ headHash # None /\ Len(headHash) < MaxEvents
  /\ InOrder(kind, headHash)
  /\ LET line == Line(kind)
         extended == IF lines # <<>> /\ ~ newline
                     THEN [lines EXCEPT ![Len(lines)].shape = "cut"] ELSE Append(lines, line)
     IN /\ lines' = extended /\ newline' = TRUE
        /\ written' = Append(headHash, Content(line))
        /\ headHash' = line.hash
        /\ snapshotFile' = SnapshotOf(line.hash) /\ earlier' = earlier \cup {snapshotFile}
  /\ UNCHANGED <<code, damageVars>>

\* Drop: the locks are given back, nothing is written.
Close ==
  /\ headHash # None /\ headHash' = None /\ code' = "Closed"
  /\ UNCHANGED <<written, fileVars, damageVars>>

-----------------------------------------------------------------------------
(* The files change under or between the runs of the program                *)

Edits(line) ==
  { [line EXCEPT !.shape = s] : s \in Shapes \ {"whole"} }
    \cup { [line EXCEPT !.schema = Schema + 1] }
    \cup { [line EXCEPT !.sequence = n] : n \in 1 .. MaxEvents }
    \cup { [line EXCEPT !.id = n] : n \in 1 .. MaxEvents }
    \cup { [line EXCEPT !.kind = k] : k \in LineKinds }
    \cup { [line EXCEPT !.payload[2] = 2] }
    \cup { [line EXCEPT !.previous = h] : h \in {<<>>} \cup { lines[i].hash : i \in DOMAIN lines } }
    \cup { [line EXCEPT !.hash = h] : h \in {<<>>} \cup { lines[i].hash : i \in DOMAIN lines } }

Edited == UNION { { [lines EXCEPT ![i] = e] : e \in Edits(lines[i]) } : i \in DOMAIN lines }

Lost == { RemoveAt(lines, i) : i \in DOMAIN lines }

Repeated == { InsertAt(lines, i, lines[j]) : i, j \in DOMAIN lines }

Exchanged == { [lines EXCEPT ![i] = lines[j], ![j] = lines[i]] : i, j \in DOMAIN lines }

\* Edited, and the hash of the line computed again: it has no key.
Rehashed ==
  UNION { { [lines EXCEPT ![i] = [e EXCEPT !.hash = Digest(e)]] : e \in Edits(lines[i]) } : i \in DOMAIN lines }

Damaged == Edited \cup Lost \cup Repeated \cup Exchanged

DamageLedger ==
  /\ lines # <<>> /\ ledgerDamage + snapshotDamage < MaxDamage
  /\ ledgerDamage' = ledgerDamage + 1
  /\ \/ lines' \in Damaged /\ UNCHANGED <<newline, forged>>
     \/ lines' \in Rehashed /\ forged' = TRUE /\ UNCHANGED newline
     \/ \E n \in 0 .. Len(lines) : lines' = SubSeq(lines, 1, n) /\ newline' = TRUE /\ UNCHANGED forged
     \/ newline' = FALSE /\ UNCHANGED <<lines, forged>>
  /\ UNCHANGED <<written, snapshotFile, earlier, headHash, code, snapshotDamage>>

\* It is also fitted to the ledger as that now stands.
DamageSnapshot ==
  /\ snapshotFile # None /\ ledgerDamage + snapshotDamage < MaxDamage
  /\ snapshotDamage' = snapshotDamage + 1
  /\ snapshotFile' \in earlier \cup {None, SnapshotOf(ReplayedHead)}
                     \cup { [snapshotFile EXCEPT !.schema = s] : s \in {None, Schema + 1} }
                     \cup { [snapshotFile EXCEPT !.active = ~ @] }
  /\ UNCHANGED <<written, lines, newline, earlier, headHash, code, ledgerDamage, forged>>

-----------------------------------------------------------------------------

ReplayNext == OpenLedger \/ (\E kind \in EventKinds : AppendEvent(kind)) \/ Close \/ DamageLedger \/ DamageSnapshot

ReplaySpec == ReplayInit /\ [][ReplayNext]_replayVars

-----------------------------------------------------------------------------
(* Properties                                                               *)

\* The variables have their types: a program that has the ledger open knows its head.
ReplayTypeOK ==
  /\ written \in Hashes /\ Len(written) <= MaxEvents
  /\ \A i \in DOMAIN written : written[i].sequence = i
  /\ lines \in Seq(LedgerLines) /\ newline \in BOOLEAN
  /\ headHash \in Hashes \cup {None} /\ snapshotFile # None => snapshotFile.head \in Hashes
  /\ (headHash = None) = (code # "Opened")
  /\ ledgerDamage + snapshotDamage <= MaxDamage
  /\ code \in {"Closed", "Opened", "LedgerTruncated", "LedgerUnsupported", "SnapshotInconsistent",
               "LedgerIdempotencyConflict", "LedgerCorrupt"}

\* While nobody has touched the snapshot, a ledger that opens is exactly what was written,
\* whatever was done to its lines, their hashes computed again included.  When the snapshot
\* was touched too, it may lack events at its end, but has no line that is not as written
\* unless hashes were computed again: they have no key, and nothing else would show it.
OpensAsWritten ==
  [][headHash = None /\ headHash' # None =>
       LET contents == [i \in DOMAIN lines |-> Content(lines[i])]
       IN /\ snapshotDamage = 0 => contents = written
          /\ ~ forged => IsPrefix(contents, written)]_replayVars

\* What the program wrote it can read again.
ReadsWhatItWrote == ledgerDamage = 0 /\ snapshotDamage = 0 => code \in {"Closed", "Opened"}
=============================================================================
