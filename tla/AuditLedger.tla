----------------------------- MODULE AuditLedger ----------------------------
(***************************************************************************)
(* The audit ledger (audit/ledger.py): threads record events in a table    *)
(* that several processes may have open.  `record` reads the last hash and *)
(* inserts the next row in two accesses to the database, under a lock that *)
(* lives in the memory of one process.                                     *)
(***************************************************************************)
EXTENDS Integers, Sequences

CONSTANTS
  Thread, Process,
  ProcessOf,           \* [Thread -> Process]
  NoThread,            \* the holder of a free lock
  Body,                \* what an event says: type, actor, payload ...
  MaxEvents,           \* bound: calls of record
  MaxCrashes,          \* bound: processes that die
  MaxTampers           \* bound: rows rewritten behind the ledger's back

ASSUME LedgerAssumption ==
  /\ ProcessOf \in [Thread -> Process]
  /\ NoThread \notin Thread
  /\ {MaxEvents, MaxCrashes, MaxTampers} \subseteq Nat

VARIABLES
  events,              \* the rows of table events, by seq
  lock,                \* AuditLedger._lock, one in each process
  pc, body, previous,  \* each thread inside record: where, and its locals
  recorded,            \* ghost: the bodies inserted by record
  calls, crashes, tampers

vars == <<events, lock, pc, body, previous, recorded, calls, crashes, tampers>>

Digest == Seq(Body)
GENESIS == <<>>

TypeOK ==
  /\ events \in Seq([body : Body, prev : Digest, hash : Digest])
  /\ lock \in [Process -> Thread \cup {NoThread}]
  /\ pc \in [Thread -> {"idle", "acquire", "read", "insert", "return"}]
  /\ body \in [Thread -> Body]
  /\ previous \in [Thread -> Digest]
  /\ recorded \in Seq(Body)
  /\ calls \in Nat /\ crashes \in Nat /\ tampers \in Nat

-----------------------------------------------------------------------------
\* A digest stands for everything chained into it: no collisions.
chain_hash_Once(prev, b) == IF prev = GENESIS THEN <<b>> ELSE prev  \* mutant: the payload is hashed in the first row only
chain_hash(prev, b) == Append(prev, b)

LastHash_None == IF events = <<>> THEN NoThread ELSE events[Len(events)].hash   \* mutant: no `or GENESIS`
LastHash == IF events = <<>> THEN GENESIS ELSE events[Len(events)].hash

\* `verify` walks the rows from GENESIS: a row is broken unless it names
\* the hash of the row before it and its own hash is theirs.
Before(rows, i) == IF i = 1 THEN GENESIS ELSE rows[i - 1].hash

Broken == {i \in DOMAIN events :
             \/ chain_hash(Before(events, i), events[i].body) # events[i].hash
             \/ events[i].prev # Before(events, i)}

Goto(t, l) == pc' = [pc EXCEPT ![t] = l]

-----------------------------------------------------------------------------
\* Someone calls record.
Call(t) ==
  /\ pc[t] = "idle"
  /\ calls < MaxEvents
  /\ calls' = calls + 1
  /\ \E b \in Body : body' = [body EXCEPT ![t] = b]
  /\ Goto(t, "acquire")
  /\ UNCHANGED <<events, lock, previous, recorded, crashes, tampers>>

Acquire_Free(t) ==                     \* mutant: no lock
  /\ pc[t] = "acquire"
  /\ lock' = [lock EXCEPT ![ProcessOf[t]] = t]
  /\ Goto(t, "read")
  /\ UNCHANGED <<events, body, previous, recorded, calls, crashes, tampers>>

\* with self._lock
Acquire(t) ==
  /\ pc[t] = "acquire"
  /\ lock[ProcessOf[t]] = NoThread
  /\ lock' = [lock EXCEPT ![ProcessOf[t]] = t]
  /\ Goto(t, "read")
  /\ UNCHANGED <<events, body, previous, recorded, calls, crashes, tampers>>

ReadLast(t) ==
  /\ pc[t] = "read"
  /\ previous' = [previous EXCEPT ![t] = LastHash]
  /\ Goto(t, "insert")
  /\ UNCHANGED <<events, lock, body, recorded, calls, crashes, tampers>>

\* One transaction: the row is in the table, chained to what was read.
Insert(t) ==
  /\ pc[t] = "insert"
  /\ events' = Append(events, [body |-> body[t], prev |-> previous[t],
                               hash |-> chain_hash(previous[t], body[t])])
  /\ recorded' = Append(recorded, body[t])
  /\ Goto(t, "return")
  /\ UNCHANGED <<lock, body, previous, calls, crashes, tampers>>

\* The transaction fails and is rolled back; the exception leaves record.
InsertFails(t) ==
  /\ pc[t] = "insert"
  /\ Goto(t, "return")
  /\ UNCHANGED <<events, lock, body, previous, recorded, calls, crashes, tampers>>

\* The seq is read back and the lock released.
Return(t) ==
  /\ pc[t] = "return"
  /\ lock' = [lock EXCEPT ![ProcessOf[t]] = NoThread]
  /\ Goto(t, "idle")
  /\ UNCHANGED <<events, body, previous, recorded, calls, crashes, tampers>>

\* A process dies: its threads and its lock with it.
Crash(p) ==
  /\ \E t \in Thread : ProcessOf[t] = p /\ pc[t] # "idle"
  /\ crashes < MaxCrashes
  /\ crashes' = crashes + 1
  /\ pc' = [t \in Thread |-> IF ProcessOf[t] = p THEN "idle" ELSE pc[t]]
  /\ lock' = [lock EXCEPT ![p] = NoThread]
  /\ UNCHANGED <<events, body, previous, recorded, calls, tampers>>

\* A row is rewritten in the database file, not through the ledger.
Tamper ==
  /\ tampers < MaxTampers
  /\ tampers' = tampers + 1
  /\ \E i \in DOMAIN events, b \in Body : events' = [events EXCEPT ![i].body = b]
  /\ UNCHANGED <<lock, pc, body, previous, recorded, calls, crashes>>

Init ==
  /\ events = <<>>
  /\ lock = [p \in Process |-> NoThread]
  /\ pc = [t \in Thread |-> "idle"]
  /\ body \in [Thread -> Body]
  /\ previous = [t \in Thread |-> GENESIS]
  /\ recorded = <<>>
  /\ calls = 0 /\ crashes = 0 /\ tampers = 0

Record(t) == Acquire(t) \/ ReadLast(t) \/ Insert(t) \/ InsertFails(t) \/ Return(t)

\* Nobody is recording and the bound on calls is used up.
Quiescent ==
  /\ calls = MaxEvents
  /\ \A t \in Thread : pc[t] = "idle"
  /\ UNCHANGED vars

Next ==
  \/ \E t \in Thread : Call(t) \/ Record(t)
  \/ \E p \in Process : Crash(p)
  \/ Tamper
  \/ Quiescent

Spec == Init /\ [][Next]_vars

-----------------------------------------------------------------------------
\* "`record` e atomico" (class AuditLedger): the reading of the last hash
\* and the insertion of the next are one step.
Atomic == INSTANCE AtomicLedger WITH events <- events, recorded <- recorded
RecordIsAtomic == Atomic!Spec

\* "tampering with any historical record breaks the chain and is detectable"
\* (audit/ledger.py): verify reports the rows that no longer say what was
\* recorded, all of them and only them.
VerifyIsExact == Broken = {i \in DOMAIN events : events[i].body # recorded[i]}

\* What makes it inductive, when all threads are of one process.
OneProcess == \A t, u \in Thread : ProcessOf[t] = ProcessOf[u]

Inside(t) == pc[t] \in {"read", "insert", "return"}

LockHeld == \A t \in Thread : Inside(t) => lock[ProcessOf[t]] = t

Fresh == \A t \in Thread : pc[t] = "insert" => previous[t] = LastHash

Chained ==
  /\ Len(recorded) = Len(events)
  /\ \A i \in DOMAIN events : /\ events[i].prev = Before(events, i)
                              /\ events[i].hash = chain_hash(Before(events, i), recorded[i])

LedgerInv == LockHeld /\ Fresh /\ Chained
=============================================================================
