----------------------------- MODULE AuditExport -----------------------------
(***************************************************************************)
(* The export of the audit trail (audit/export.py, cli/commands/audits.py) *)
(* and its verification without the database.  The scan reads the table in *)
(* chunks while others record; the head is read after it; the file, once   *)
(* written, may be edited by anybody, but nobody makes up a hash.          *)
(***************************************************************************)
EXTENDS Integers, Sequences, FiniteSets, SequencesExt

CONSTANTS
  Kind,                \* what filters tell apart
  Chunk,               \* rows read by one query of scan
  MaxRows, MaxEdits    \* bounds

VARIABLES
  ledger,              \* table events
  export,              \* the export under way: the filter, and the rows it has read
  file,                \* manifest and rows
  edited,              \* ghost: whether somebody edited rows or manifest
  edits

vars == <<ledger, export, file, edited, edits>>

-----------------------------------------------------------------------------
\* core/hashing.py, free of collisions: a hash tells what went into it.
GENESIS == <<>>
chain_hash(previous, content) == <<previous, content>>

\* A row's content is its kind and what tells it from others.
Row(seq, content, previous) == [seq |-> seq, content |-> content, prev_hash |-> previous, hash |-> chain_hash(previous, content)]
LedgerHead == IF ledger = <<>> THEN GENESIS ELSE Last(ledger).hash

\* AuditLedger.record, of one process at a time (AuditLedger tells what two at once do).
Recorded(kind) == Append(ledger, Row(Len(ledger) + 1, <<kind, Len(ledger)>>, LedgerHead))

Record == /\ Len(ledger) < MaxRows
          /\ \E kind \in Kind : ledger' = Recorded(kind)
          /\ UNCHANGED <<export, file, edited, edits>>

-----------------------------------------------------------------------------
Idle == [at |-> "idle", kinds |-> Kind, rows |-> <<>>]
NoFile == [written |-> FALSE, count |-> 0, head |-> GENESIS, rows |-> <<>>]

Begin(kinds) == /\ export.at = "idle" /\ ~file.written
                /\ export' = [Idle EXCEPT !.at = "scan", !.kinds = kinds]
                /\ UNCHANGED <<ledger, file, edited, edits>>

\* AuditLedger.scan: by OFFSET into the rows the filter lets through.
Wanted == {i \in DOMAIN ledger : ledger[i].content[1] \in export.kinds}
Nth(n) == ledger[CHOOSE i \in Wanted : Cardinality({j \in Wanted : j <= i}) = n]
Page(offset) == [n \in 1..(IF offset + Chunk < Cardinality(Wanted) THEN Chunk ELSE Cardinality(Wanted) - offset) |-> Nth(offset + n)]

Scan ==
  /\ export.at = "scan"
  /\ export' = IF Len(export.rows) < Cardinality(Wanted)
               THEN [export EXCEPT !.rows = @ \o Page(Len(@))]
               ELSE [export EXCEPT !.at = "head"]
  /\ UNCHANGED <<ledger, file, edited, edits>>

\* build_manifest, with the head of this moment; and the export is recorded.
Write ==
  /\ export.at = "head" /\ Len(ledger) < MaxRows
  /\ file' = [written |-> TRUE, count |-> Len(export.rows), head |-> LedgerHead, rows |-> export.rows]
  /\ \E kind \in Kind : ledger' = Recorded(kind)
  /\ export' = Idle
  /\ UNCHANGED <<edited, edits>>

-----------------------------------------------------------------------------
\* What may happen to a file: a row changed, moved, dropped or renumbered, the
\* manifest put right with what is left.
Changed(rows) ==
  UNION {{[rows EXCEPT ![i].content = <<k, 9>>] : k \in Kind}
         \cup {[rows EXCEPT ![i].seq = n] : n \in 1..Len(rows)}
         \cup {[rows EXCEPT ![i].prev_hash = GENESIS], RemoveAt(rows, i)}
         \cup {[rows EXCEPT ![i] = rows[j], ![j] = rows[i]] : j \in DOMAIN rows} : i \in DOMAIN rows}

Edit == /\ file.written /\ edits < MaxEdits /\ edits' = edits + 1 /\ edited' = TRUE
        /\ \/ \E rows \in Changed(file.rows) : \E count \in {file.count, Len(rows)} :
                file' = [file EXCEPT !.rows = rows, !.count = count]
           \/ \E row \in Range(file.rows) : file' = [file EXCEPT !.head = row.hash]
        /\ UNCHANGED <<ledger, export>>

Init == /\ ledger = <<>> /\ export = Idle /\ file = NoFile /\ edited = FALSE /\ edits = 0

Next == Record \/ (\E kinds \in SUBSET Kind \ {{}} : Begin(kinds)) \/ Scan \/ Write \/ Edit

Spec == Init /\ [][Next]_vars

-----------------------------------------------------------------------------
(* verify_export_file                                                      *)

contiguous(rows) == rows # <<>> /\ \A i \in DOMAIN rows : rows[i].seq = rows[1].seq + i - 1
from_genesis_Any(rows) == rows # <<>>     \* mutant: any first row will do
from_genesis(rows) == rows # <<>> /\ rows[1].prev_hash = GENESIS

\* Content is always asked for, the chain only where nothing is left out.
broken_Content(rows) == {i \in DOMAIN rows : rows[i].hash # chain_hash(rows[i].prev_hash, rows[i].content)}   \* mutant: the chain is not looked at
broken(rows) == {i \in DOMAIN rows : \/ rows[i].hash # chain_hash(rows[i].prev_hash, rows[i].content)
                                     \/ contiguous(rows) /\ i > 1 /\ rows[i].prev_hash # rows[i - 1].hash}

valid == broken(file.rows) = {} /\ file.count = Len(file.rows)
complete == /\ valid /\ contiguous(file.rows) /\ from_genesis(file.rows)
            /\ Last(file.rows).hash = file.head

-----------------------------------------------------------------------------
TypeOK == /\ \A i \in DOMAIN ledger : ledger[i].seq = i /\ ledger[i].content[1] \in Kind
          /\ export.at \in {"idle", "scan", "head"} /\ export.kinds \subseteq Kind
          /\ Len(export.rows) <= Len(ledger)
          /\ file.written \in BOOLEAN /\ edited \in BOOLEAN /\ edits \in 0..MaxEdits

Recordings == {ledger[i].content : i \in DOMAIN ledger}
Contents(rows) == [i \in DOMAIN rows |-> rows[i].content]

\* "`complete` só é verdadeiro para a exportação total íntegra até o
\* `ledger_head`" (audit/export.py): whatever was recorded during the export
\* and done to the file after it, a complete file tells every event up to the
\* head it names, in order, and a valid one tells none that was not recorded.
CompleteIsAll ==
  file.written =>
    /\ valid => Range(Contents(file.rows)) \subseteq Recordings
    /\ complete => Contents(file.rows) = Contents(SubSeq(ledger, 1, Len(file.rows)))

\* A file nobody touched is valid, and is complete unless a filter left
\* something out or somebody recorded between the last chunk and the head.
UntouchedIsValid ==
  file.written /\ ~edited =>
    /\ valid
    /\ complete <=> /\ file.rows # <<>> /\ file.head = Last(file.rows).hash
                    /\ Contents(file.rows) = Contents(SubSeq(ledger, 1, Len(file.rows)))
=============================================================================
