------------------------------- MODULE Secrets ------------------------------
(***************************************************************************)
(* The vault (security/vault.py), its master key (security/keystore.py)    *)
(* and the rotation of the key (EnterpriseRuntime.rotate_master_key): the  *)
(* new key is written over the old one, then every secret is ciphered      *)
(* again, one row at a time.  Keys are numbers; a row can be read by who   *)
(* has the key it was ciphered with.                                       *)
(***************************************************************************)
EXTENDS Integers, FiniteSets

CONSTANTS
  Caller, Name,
  MaxKeys, MaxPuts, MaxDeletes, MaxMishaps, MaxOverlaps

VARIABLES
  env,                 \* EGR_MASTER_KEY: a key, or 0
  keyFile,             \* .egr/master.key: a key, or 0
  secrets,             \* table secrets
  history,             \* table master_keys
  caller,              \* each caller: its operation and what it has read
  written,             \* ghost: what was last put under the name; 0 when it was deleted
  keys, puts, deletes, mishaps, overlaps

vars == <<env, keyFile, secrets, history, caller, written, keys, puts, deletes, mishaps, overlaps>>
bounds == <<keys, puts, deletes, mishaps, overlaps>>

Key == 0..MaxKeys
Row == [id : 0..MaxPuts, key : Key, value : 0..MaxPuts, version : 0..MaxPuts]
NoRow == [id |-> 0, key |-> 0, value |-> 0, version |-> 0]
Snapshot == [Name -> Row]
Idle == [at |-> "idle", name |-> CHOOSE n \in Name : TRUE, key |-> 0, previous |-> 0, row |-> NoRow,
         snapshot |-> [n \in Name |-> NoRow], todo |-> {}]

TypeOK ==
  /\ env \in Key /\ keyFile \in Key /\ history \subseteq Key
  /\ secrets \in Snapshot /\ written \in [Name -> 0..MaxPuts]
  /\ caller \in [Caller -> [at : {"idle", "put", "key", "list", "recipher", "record"}, name : Name, key : Key,
                            previous : Key, row : Row, snapshot : Snapshot, todo : SUBSET Name]]
  /\ keys \in Key /\ puts \in 0..MaxPuts /\ deletes \in 0..MaxDeletes
  /\ mishaps \in 0..MaxMishaps /\ overlaps \in 0..MaxOverlaps

-----------------------------------------------------------------------------
\* MasterKeyStore.load: the environment comes first.
Load == IF env # 0 THEN env ELSE keyFile

Rotating(c) == caller[c].at \in {"key", "list", "recipher", "record"}
\* A call begins.  A rotation and another call are an overlap.
Enter(c, rotation) ==
  /\ caller[c].at = "idle"
  /\ overlaps' = overlaps + (IF \E d \in Caller \ {c} : Rotating(d) \/ (rotation /\ caller[d].at # "idle") THEN 1 ELSE 0)
  /\ overlaps' <= MaxOverlaps
Return(c) == caller' = [caller EXCEPT ![c] = Idle]

\* create: without `force` the key there is stays; with it the key of the file
\* is written over, and nothing is ciphered again: a mishap.  (The key and its
\* record are saved in one step here.)
InitKey(c, force) ==
  /\ Enter(c, FALSE) /\ keys < MaxKeys
  /\ IF Load # 0 /\ ~force
     THEN /\ history' = history \cup {Load} /\ UNCHANGED <<keyFile, keys, mishaps>>
     ELSE /\ keys' = keys + 1 /\ keyFile' = keys + 1 /\ history' = history \cup {keys + 1}
          /\ mishaps' = mishaps + (IF Load # 0 THEN 1 ELSE 0) /\ mishaps' <= MaxMishaps
  /\ UNCHANGED <<env, secrets, caller, written, puts, deletes>>

\* put ciphers with the key it loads, and reads the row it will replace.
Put(c, n) ==
  /\ Enter(c, FALSE) /\ puts < MaxPuts /\ Load # 0
  /\ puts' = puts + 1
  /\ caller' = [caller EXCEPT ![c] = [Idle EXCEPT !.at = "put", !.name = n,
                  !.row = [id |-> IF secrets[n] = NoRow THEN puts + 1 ELSE secrets[n].id,
                           key |-> Load, value |-> puts + 1, version |-> secrets[n].version + 1]]]
  /\ UNCHANGED <<env, keyFile, secrets, history, written, keys, deletes, mishaps>>

\* The row is written by its id; a name has one row, or the insert fails.
Upsert(n, row) == secrets[n] = NoRow \/ secrets[n].id = row.id

SavePut(c) ==
  /\ caller[c].at = "put"
  /\ LET n == caller[c].name
     IN  IF Upsert(n, caller[c].row)
         THEN /\ secrets' = [secrets EXCEPT ![n] = caller[c].row]
              /\ written' = [written EXCEPT ![n] = caller[c].row.value]
         ELSE UNCHANGED <<secrets, written>>
  /\ Return(c)
  /\ UNCHANGED <<env, keyFile, history, bounds>>

Delete(c, n) ==
  /\ Enter(c, FALSE) /\ deletes < MaxDeletes /\ secrets[n] # NoRow
  /\ deletes' = deletes + 1
  /\ secrets' = [secrets EXCEPT ![n] = NoRow] /\ written' = [written EXCEPT ![n] = 0]
  /\ UNCHANGED <<env, keyFile, history, caller, keys, puts, mishaps>>

-----------------------------------------------------------------------------
(* rotate_master_key: load the key, write a new one, list the rows, cipher *)
(* each, and record the new key.                                           *)
Rotate(c, force) ==
  /\ Enter(c, TRUE) /\ keys < MaxKeys
  /\ env = 0 \/ force
  /\ keys' = keys + 1
  /\ caller' = [caller EXCEPT ![c] = [Idle EXCEPT !.at = "key", !.previous = Load, !.key = keys + 1]]
  /\ UNCHANGED <<env, keyFile, secrets, history, written, puts, deletes, mishaps>>

WriteKey(c) ==
  /\ caller[c].at = "key"
  /\ keyFile' = caller[c].key
  /\ caller' = [caller EXCEPT ![c].at = "list"]
  /\ UNCHANGED <<env, secrets, history, written, bounds>>

ListRecords(c) ==
  /\ caller[c].at = "list"
  /\ LET todo == {n \in Name : secrets[n] # NoRow}
     IN  caller' = [caller EXCEPT ![c].snapshot = secrets, ![c].todo = todo,
                                  ![c].at = IF todo = {} \/ caller[c].previous = 0 THEN "record" ELSE "recipher"]
  /\ UNCHANGED <<env, keyFile, secrets, history, written, bounds>>

Reciphered_KeyOnly(row, key) == row             \* mutant: the new envelope is not saved
Reciphered(row, key) == [row EXCEPT !.key = key]

\* What the previous key does not open raises, and the rest stays as it is.
Recipher(c) ==
  /\ caller[c].at = "recipher"
  /\ \E n \in caller[c].todo :
       LET row == caller[c].snapshot[n]
       IN  IF row.key # caller[c].previous \/ ~Upsert(n, row)
           THEN Return(c) /\ UNCHANGED secrets
           ELSE /\ secrets' = [secrets EXCEPT ![n] = Reciphered(row, caller[c].key)]
                /\ caller' = [caller EXCEPT ![c].todo = @ \ {n},
                                            ![c].at = IF caller[c].todo = {n} THEN "record" ELSE "recipher"]
  /\ UNCHANGED <<env, keyFile, history, written, bounds>>

RecordKey(c) ==
  /\ caller[c].at = "record"
  /\ history' = history \cup {caller[c].key}
  /\ Return(c)
  /\ UNCHANGED <<env, keyFile, secrets, written, bounds>>

Crash(c) ==
  /\ caller[c].at # "idle" /\ mishaps < MaxMishaps
  /\ mishaps' = mishaps + 1
  /\ Return(c)
  /\ UNCHANGED <<env, keyFile, secrets, history, written, keys, puts, deletes, overlaps>>

\* Key 1, if it is there, came with the environment.
Init == /\ env \in {0, 1} /\ keyFile = 0 /\ history = {} /\ keys = env
        /\ secrets = [n \in Name |-> NoRow] /\ written = [n \in Name |-> 0]
        /\ caller = [c \in Caller |-> Idle]
        /\ puts = 0 /\ deletes = 0 /\ mishaps = 0 /\ overlaps = 0

Next == \E c \in Caller :
          \/ \E force \in BOOLEAN : InitKey(c, force) \/ Rotate(c, force)
          \/ \E n \in Name : Put(c, n) \/ Delete(c, n)
          \/ SavePut(c)
          \/ WriteKey(c) \/ ListRecords(c) \/ Recipher(c) \/ RecordKey(c)
          \/ Crash(c)

Spec == Init /\ [][Next]_vars

-----------------------------------------------------------------------------
AtRest == \A c \in Caller : caller[c].at = "idle"

\* No rotation brings an old value back, or a deleted one, wherever it stops and
\* whatever key there is, unless another call runs into it.  And where there
\* was no mishap - no call died in the middle, no key was thrown away by
\* `init --force` - and the key is not of the environment, at rest each secret
\* opens with the key that is loaded, which is in the history (vault.py,
\* runtime.py rotate_master_key).  That a rotation that dies loses secrets
\* is what the code does (RotationKeepsSecrets is about another such loss).
SecretsAreReadable ==
  /\ overlaps = 0 => \A n \in Name : secrets[n].value = written[n]
  /\ AtRest /\ overlaps = 0 /\ mishaps = 0 /\ env = 0 =>
       \A n \in Name : secrets[n] # NoRow => secrets[n].key = Load /\ secrets[n].key \in history

\* "Rotação gera uma nova chave e recifra todos os segredos" (keystore.py):
\* also when the key came with the environment and the rotation was forced,
\* every secret opens with a key that still exists.
RotationKeepsSecrets ==
  AtRest /\ overlaps = 0 /\ mishaps = 0 =>
    \A n \in Name : secrets[n] # NoRow => secrets[n].key \in {env, keyFile}
=============================================================================
