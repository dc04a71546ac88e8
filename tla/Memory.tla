-------------------------------- MODULE Memory -------------------------------
(***************************************************************************)
(* The memory of the enterprise (memory/service.py): records and their     *)
(* vectors are written, found and reinforced, archived, forgotten, and     *)
(* consolidated: of two near-duplicates the better one survives.  Nothing  *)
(* holds a lock between reading records and writing them back, and a save  *)
(* inserts a record that is not there any more.                            *)
(***************************************************************************)
EXTENDS Integers, FiniteSets

CONSTANTS
  Caller, Namespace,
  Alike,               \* pairs of records whose vectors are near-duplicates
  MaxScan,             \* memory.max_consolidate_scan
  MaxRecords, MaxCalls, MaxUses    \* bounds

VARIABLES
  records, vectors,    \* tables memory_records (with its text index) and memory_vectors
  caller,              \* each caller: the records it has read
  merged,              \* ghost: <<loser, winner>> of consolidations
  byHand,              \* ghost: records that were archived or forgotten on request
  gone,                \* ghost: those forgotten while nobody held a copy
  twice,               \* ghost: two consolidations have overlapped
  calls

vars == <<records, vectors, caller, merged, byHand, gone, twice, calls>>
ghosts == <<merged, byHand, gone, twice>>

Id == 1..MaxRecords                          \* in the order they were created
Record == [ns : Namespace, archived : BOOLEAN, uses : 0..MaxUses]
NoRecord == [ns |-> CHOOSE n \in Namespace : TRUE, archived |-> TRUE, uses |-> 0]
Copies == UNION {[ids -> Record] : ids \in SUBSET Id}    \* rows as they were read
NoCopies == [i \in {} |-> NoRecord]
Idle == [at |-> "idle", left |-> NoCopies, survivors |-> NoCopies, heal |-> {}, id |-> 1, prune |-> FALSE, known |-> {}]

There == DOMAIN records
Live == {i \in There : ~records[i].archived}

TypeOK ==
  /\ records \in Copies
  /\ vectors \subseteq Id
  /\ \A c \in Caller : /\ caller[c].at \in {"idle", "embed", "reinforce", "archive", "heal", "vector", "scan", "prune"}
                       /\ caller[c].left \in Copies /\ caller[c].survivors \in Copies
                       /\ caller[c].heal \subseteq Id /\ caller[c].id \in Id
                       /\ caller[c].known \subseteq Id
  /\ merged \subseteq Id \X Id /\ byHand \subseteq Id /\ gone \subseteq Id
  /\ twice \in BOOLEAN /\ calls \in 0..MaxCalls

-----------------------------------------------------------------------------
Enter(c) == caller[c].at = "idle" /\ calls < MaxCalls /\ calls' = calls + 1
Begin(c, record) == caller' = [caller EXCEPT ![c] = record]
Return(c) == caller' = [caller EXCEPT ![c] = Idle]

Copied(ids) == [i \in ids |-> records[i]]
With(copies, i, row) == [j \in DOMAIN copies \cup {i} |-> IF j = i THEN row ELSE copies[j]]
Without(copies, i) == [j \in DOMAIN copies \ {i} |-> copies[j]]
Newest(ids) == CHOOSE i \in ids : \A j \in ids : j <= i

Save(i, row) == records' = With(records, i, row)
Delete_Row(i) == records' = Without(records, i) /\ UNCHANGED vectors    \* mutant: the vector stays
Delete(i) == records' = Without(records, i) /\ vectors' = vectors \ {i}

\* The next of the rows that were read: the caller is done with it.
Done(c, i) == IF DOMAIN caller[c].left = {i} THEN Return(c) ELSE caller' = [caller EXCEPT ![c].left = Without(@, i)]

\* A record some caller is going to write, or to give a vector.
Held(i) == \E c \in Caller : \/ i \in DOMAIN caller[c].left \cup DOMAIN caller[c].survivors \cup caller[c].heal
                             \/ caller[c].at \in {"embed", "vector"} /\ caller[c].id = i

\* write: the row, then the vector.  Identifiers are never used again.
Write(c, ns) ==
  /\ Enter(c)
  /\ \E i \in Id : /\ i \notin There \cup gone \cup byHand
                   /\ \A j \in Id : (j \in There \cup byHand \/ \E p \in merged : p[1] = j) => j < i
                   /\ \A j \in 1..(i - 1) : j \in There \cup byHand \/ \E p \in merged : p[1] = j
                   /\ Save(i, [ns |-> ns, archived |-> FALSE, uses |-> 0])
                   /\ Begin(c, [Idle EXCEPT !.at = "embed", !.id = i])
  /\ UNCHANGED <<vectors, ghosts>>

SaveVector(c) ==
  /\ caller[c].at \in {"embed", "vector"}
  /\ vectors' = vectors \cup {caller[c].id}
  /\ IF caller[c].at = "embed" THEN Return(c)
     ELSE caller' = [caller EXCEPT ![c].at = "heal", ![c].known = @ \cup {caller[c].id}]
  /\ UNCHANGED <<records, ghosts, calls>>

\* search: the hits are reinforced and written back one by one, the best first.
Search(c, hits) ==
  /\ Enter(c) /\ hits # {}
  /\ Begin(c, [Idle EXCEPT !.at = "reinforce", !.left = Copied(hits)])
  /\ UNCHANGED <<records, vectors, ghosts>>

Reinforce(c) ==
  /\ caller[c].at = "reinforce"
  /\ \E i \in DOMAIN caller[c].left :
       /\ Save(i, [caller[c].left[i] EXCEPT !.uses = IF @ < MaxUses THEN @ + 1 ELSE @])
       /\ Done(c, i)
  /\ UNCHANGED <<vectors, ghosts, calls>>

Forget(c, i) ==
  /\ Enter(c) /\ i \in There
  /\ Delete(i)
  /\ byHand' = byHand \cup {i}
  /\ gone' = IF Held(i) THEN gone ELSE gone \cup {i}
  /\ UNCHANGED <<caller, merged, twice>>

Archive(c, i) ==
  /\ Enter(c) /\ i \in There
  /\ Begin(c, [Idle EXCEPT !.at = "archive", !.left = Copied({i})])
  /\ UNCHANGED <<records, vectors, ghosts>>

SaveArchived(c) ==
  /\ caller[c].at = "archive"
  /\ \E i \in DOMAIN caller[c].left :
       /\ Save(i, [caller[c].left[i] EXCEPT !.archived = TRUE])
       /\ byHand' = byHand \cup {i}
  /\ Return(c)
  /\ UNCHANGED <<vectors, merged, gone, twice, calls>>

-----------------------------------------------------------------------------
\* consolidate(apply): every live record, the newest first, as many as are scanned.
Scanned == {i \in Live : Cardinality({j \in Live : j > i}) < MaxScan}
Consolidate(c, prune) ==
  /\ Enter(c)
  /\ Begin(c, [Idle EXCEPT !.at = "heal", !.left = Copied(Scanned), !.prune = prune,
                           !.heal = Scanned \ vectors, !.known = Scanned \cap vectors])
  /\ twice' = (twice \/ \E d \in Caller \ {c} : caller[d].at \in {"heal", "vector", "scan", "prune"})
  /\ UNCHANGED <<records, vectors, merged, byHand, gone>>

\* reindex: a vector for every record that has none.
Reindex(c) ==
  /\ Enter(c)
  /\ Begin(c, [Idle EXCEPT !.at = "heal", !.heal = There \ vectors])
  /\ UNCHANGED <<records, vectors, ghosts>>

\* _vectors_for: a record that has gone meanwhile gets no vector.
Heal(c) ==
  /\ caller[c].at = "heal"
  /\ \/ /\ caller[c].heal = {}
        /\ caller' = [caller EXCEPT ![c].at = "scan"]
     \/ \E i \in caller[c].heal :
          caller' = [caller EXCEPT ![c].heal = @ \ {i}, ![c].id = i, ![c].at = IF i \in There THEN "vector" ELSE "heal"]
  /\ UNCHANGED <<records, vectors, ghosts, calls>>

Twins(i, j) == <<i, j>> \in Alike \/ <<j, i>> \in Alike

\* One turn of the loop.  Survivors are in the order of the scan, and the first
\* that is near counts.  A loser is saved as archived; if it was a survivor, the
\* winner takes its place.
Compare(c) ==
  /\ caller[c].at = "scan" /\ DOMAIN caller[c].left # {}
  /\ LET me == caller[c]
         i == Newest(DOMAIN me.left)
         twins == {s \in DOMAIN me.survivors : {s, i} \subseteq me.known /\ Twins(s, i)}
         twin == Newest(twins)
         loses == me.survivors[twin].uses >= me.left[i].uses
     IN  \/ /\ twins = {}
            /\ caller' = [caller EXCEPT ![c].left = Without(@, i), ![c].survivors = With(@, i, me.left[i])]
            /\ UNCHANGED <<records, merged>>
         \/ /\ twins # {} /\ loses
            /\ Save(i, [me.left[i] EXCEPT !.archived = TRUE])
            /\ merged' = merged \cup {<<i, twin>>}
            /\ caller' = [caller EXCEPT ![c].left = Without(@, i)]
         \/ /\ twins # {} /\ ~loses
            /\ Save(twin, [me.survivors[twin] EXCEPT !.archived = TRUE])
            /\ merged' = merged \cup {<<twin, i>>}
            /\ caller' = [caller EXCEPT ![c].left = Without(@, i),
                                        ![c].survivors = With(Without(@, twin), i, me.left[i])]
  /\ UNCHANGED <<vectors, byHand, gone, twice, calls>>

Prunable_Any == There                                 \* mutant: what is not archived is pruned too
Prunable == There \ Live

\* Then, with prune, archived records beyond the retention are deleted, the
\* oldest first - any may be that old.
EndScan(c) ==
  /\ caller[c].at = "scan" /\ DOMAIN caller[c].left = {}
  /\ \E old \in SUBSET Prunable :
       caller' = [caller EXCEPT ![c] = IF caller[c].prune /\ old # {} THEN [Idle EXCEPT !.at = "prune", !.left = Copied(old)]
                                       ELSE Idle]
  /\ UNCHANGED <<records, vectors, ghosts, calls>>

Prune(c) ==
  /\ caller[c].at = "prune"
  /\ \E i \in DOMAIN caller[c].left :
       /\ \A j \in DOMAIN caller[c].left : i <= j
       /\ Delete(i)
       /\ Done(c, i)
  /\ UNCHANGED <<ghosts, calls>>

Init == /\ records = NoCopies /\ vectors = {}
        /\ caller = [c \in Caller |-> Idle]
        /\ merged = {} /\ byHand = {} /\ gone = {} /\ twice = FALSE /\ calls = 0

Next == \E c \in Caller :
          \/ \E ns \in Namespace : Write(c, ns)
          \/ \E hits \in SUBSET Live : Search(c, hits)
          \/ \E i \in Id : Forget(c, i) \/ Archive(c, i)
          \/ \E prune \in BOOLEAN : Consolidate(c, prune)
          \/ Reindex(c) \/ SaveVector(c) \/ Reinforce(c) \/ SaveArchived(c)
          \/ Heal(c) \/ Compare(c) \/ EndScan(c) \/ Prune(c)

Spec == Init /\ [][Next]_vars

-----------------------------------------------------------------------------
\* With a record, who won over it, and who won over the winner, and so on.
Closed(ids) == \A p \in merged : p[1] \in ids => p[2] \in ids

\* "duplicatas vão para archived": whatever was consolidated away, a record
\* that won over it, or over its winner, is still there and not archived -
\* through later consolidations, pruning, and searches that write old copies
\* back - unless somebody archived or forgot that one himself or two
\* consolidations overlapped (service.py, consolidate).
ConsolidationKeepsOne ==
  ~twice => \A p \in merged : \A ids \in SUBSET Id :
              p[1] \in ids /\ Closed(ids) => ids \cap (Live \cup byHand) # {}

\* "Esquece de verdade (registro + FTS + vetor)": a record that was forgotten
\* while nobody held a copy of it does not come back, nor does its vector
\* (service.py, forget).
ForgetIsClean == gone \cap (There \cup vectors) = {}

\* The same of every record that was forgotten, copies or not.
ForgetIsFinal == (\A c \in Caller : caller[c].at = "idle") =>
                   \A i \in byHand : i \notin There \/ records[i].archived

\* "isolada por namespace" (docs/PHASE5_MEMORY_SYSTEM.md): a consolidation leaves
\* the namespace of the loser a memory of its own.
NamespaceKeepsItsMemory ==
  \A p \in merged : p[1] \in There /\ p[2] \in There /\ p[2] \in Live => records[p[1]].ns = records[p[2]].ns
=============================================================================
