----------------------------- MODULE DbTriggers -----------------------------
(***************************************************************************)
(* Database triggers (storage/triggers.py): a trigger of SQLite writes an  *)
(* event into a queue, in the transaction of the change that fired it, and *)
(* `drain` publishes what is in the queue.  A trigger is two things, a row *)
(* of db_triggers and the trigger inside SQLite, written one after the     *)
(* other by install and by the boot of every process.                      *)
(***************************************************************************)
EXTENDS Integers, Sequences, FiniteSets, FiniteSetsExt, Functions

CONSTANTS
  Caller,              \* processes that drain, install, uninstall or boot
  DbTrigger,
  Limit,               \* drain(limit)
  MaxChanges, MaxCalls, MaxCrashes

VARIABLES
  rows,                \* table db_triggers
  installed,           \* the triggers SQLite has
  queue,               \* table db_events: an event [trigger, processed] under the number of its
                       \* change, so that the order of numbers is that of created_at and rowid
  published,           \* the numbers published on the event bus (and so in the ledger), oldest first
  caller,              \* each caller: where it is, and what it still has to do
  raised,              \* ghost: how many events there have been
  dropped,             \* ghost: events an uninstall took out of the queue
  shared,              \* ghost: two callers have been at work at once
  calls, crashes

vars == <<rows, installed, queue, published, caller, raised, dropped, shared, calls, crashes>>
ghosts == <<raised, dropped>>
bounds == <<shared, calls, crashes>>

DbAssumption == IsFiniteSet(DbTrigger) /\ {Limit, MaxChanges} \subseteq Nat \ {0} /\ {MaxCalls, MaxCrashes} \subseteq Nat

Event == [trigger : DbTrigger, processed : BOOLEAN]

Idle == [at |-> "idle", todo |-> {}]

Draining == {"publish", "mark", "audit"}
Placing == {"create", "save", "drop", "clear", "delete"}

TypeOK ==
  /\ rows \subseteq DbTrigger /\ installed \subseteq DbTrigger
  /\ queue \in UNION {[ids -> Event] : ids \in SUBSET (1..MaxChanges)} /\ published \in Seq(1..MaxChanges)
  /\ DOMAIN caller = Caller
  /\ \A c \in Caller :
       \/ caller[c] = Idle
       \/ caller[c].at \in Draining /\ caller[c].todo # {} /\ caller[c].todo \subseteq 1..MaxChanges
       \/ caller[c].at \in Placing /\ caller[c].todo # {} /\ caller[c].todo \subseteq DbTrigger
  /\ raised \in 0..MaxChanges /\ dropped \subseteq 1..MaxChanges
  /\ shared \in BOOLEAN
  /\ calls \in 0..MaxCalls /\ crashes \in 0..MaxCrashes

-----------------------------------------------------------------------------
(* A change of a watched row fires a trigger: the event is in the queue as *)
(* soon as the change is committed.                                        *)
Change == /\ raised < MaxChanges
          /\ \E t \in installed :
               queue' = [id \in DOMAIN queue \cup {raised + 1} |->
                           IF id = raised + 1 THEN [trigger |-> t, processed |-> FALSE] ELSE queue[id]]
          /\ raised' = raised + 1
          /\ UNCHANGED <<rows, installed, published, caller, dropped, bounds>>

Waiting == {id \in DOMAIN queue : ~queue[id].processed}

\* DatabaseEventRepository.pending: ORDER BY created_at, rowid LIMIT limit
Pending_Newest == {id \in Waiting : Cardinality({e \in Waiting : e > id}) < Limit}   \* mutant: ORDER BY rowid DESC, as list does
Pending == {id \in Waiting : Cardinality({e \in Waiting : e < id}) < Limit}

\* What a caller is at: the first of the events, one of the triggers.
EventOf(c) == Min(caller[c].todo)
TriggerOf(c) == CHOOSE t \in caller[c].todo : TRUE

Step(c, at, todo) == caller' = [caller EXCEPT ![c] = [at |-> at, todo |-> todo]]

\* On to the next of the list, where there is one.
Further(c, done, at) == LET rest == caller[c].todo \ {done} IN Step(c, IF rest = {} THEN "idle" ELSE at, rest)

Enter(c) == /\ caller[c].at = "idle" /\ calls < MaxCalls
            /\ calls' = calls + 1
            /\ shared' = (shared \/ \E d \in Caller \ {c} : caller[d].at # "idle")
            /\ UNCHANGED crashes

-----------------------------------------------------------------------------
(* drain: a copy of the queue, then three commits for each event of it.    *)

Drain(c) == /\ Enter(c)
            /\ Pending # {}
            /\ Step(c, "publish", Pending)
            /\ UNCHANGED <<rows, installed, queue, published, ghosts>>

\* events.publish records the event and calls the subscribers, which may
\* start workflows and so change rows: Change does not wait for the drain.
Publish(c) == /\ caller[c].at = "publish"
              /\ published' = Append(published, EventOf(c))
              /\ Step(c, "mark", caller[c].todo)
              /\ UNCHANGED <<rows, installed, queue, ghosts, bounds>>

Mark(c) ==
  /\ caller[c].at = "mark"
  /\ queue' = [id \in DOMAIN queue |-> [queue[id] EXCEPT !.processed = @ \/ id = EventOf(c)]]
  /\ Step(c, "audit", caller[c].todo)
  /\ UNCHANGED <<rows, installed, published, ghosts, bounds>>

\* DB_TRIGGER_FIRED is recorded, and the next event taken.
Fired(c) == /\ caller[c].at = "audit"
            /\ Further(c, EventOf(c), "publish")
            /\ UNCHANGED <<rows, installed, queue, published, ghosts, bounds>>

-----------------------------------------------------------------------------
(* install, uninstall, and the boot that installs every row again.         *)

Install(c) == /\ Enter(c)
              /\ \E t \in DbTrigger \ rows : Step(c, "create", {t})
              /\ UNCHANGED <<rows, installed, queue, published, ghosts>>

Boot(c) == /\ Enter(c) /\ rows # {}
           /\ Step(c, "create", rows)
           /\ UNCHANGED <<rows, installed, queue, published, ghosts>>

CreateTrigger(c) == /\ caller[c].at = "create"
                    /\ installed' = installed \cup {TriggerOf(c)}
                    /\ Step(c, "save", caller[c].todo)
                    /\ UNCHANGED <<rows, queue, published, ghosts, bounds>>

SaveTrigger(c) == /\ caller[c].at = "save"
                  /\ rows' = rows \cup {TriggerOf(c)}
                  /\ Further(c, TriggerOf(c), "create")
                  /\ UNCHANGED <<installed, queue, published, ghosts, bounds>>

Uninstall(c) == /\ Enter(c)
                /\ \E t \in rows : Step(c, "drop", {t})
                /\ UNCHANGED <<rows, installed, queue, published, ghosts>>

DropTrigger_Never(c) == /\ caller[c].at = "drop"         \* mutant: only the row is deleted
                        /\ Step(c, "clear", caller[c].todo)
                        /\ UNCHANGED <<rows, installed, queue, published, ghosts, bounds>>
DropTrigger(c) == /\ caller[c].at = "drop"
                  /\ installed' = installed \ {TriggerOf(c)}
                  /\ Step(c, "clear", caller[c].todo)
                  /\ UNCHANGED <<rows, queue, published, ghosts, bounds>>

Clearable_All(e, t) == ~e.processed                       \* mutant: the pending events of every trigger
Clearable(e, t) == e.trigger = t /\ ~e.processed

ClearEvents(c) ==
  /\ caller[c].at = "clear"
  /\ queue' = [id \in {id \in DOMAIN queue : ~Clearable(queue[id], TriggerOf(c))} |-> queue[id]]
  /\ dropped' = dropped \cup {id \in Waiting : queue[id].trigger = TriggerOf(c)}
  /\ Step(c, "delete", caller[c].todo)
  /\ UNCHANGED <<rows, installed, published, raised, bounds>>

DeleteRow(c) == /\ caller[c].at = "delete"
                /\ rows' = rows \ {TriggerOf(c)}
                /\ Step(c, "idle", {})
                /\ UNCHANGED <<installed, queue, published, ghosts, bounds>>

Crash(c) == /\ caller[c].at # "idle" /\ crashes < MaxCrashes
            /\ crashes' = crashes + 1
            /\ Step(c, "idle", {})
            /\ UNCHANGED <<rows, installed, queue, published, ghosts, shared, calls>>

Init == /\ rows = {} /\ installed = {} /\ queue = <<>> /\ published = <<>>
        /\ caller = [c \in Caller |-> Idle]
        /\ raised = 0 /\ dropped = {} /\ shared = FALSE /\ calls = 0 /\ crashes = 0

Next == \/ Change
        \/ \E c \in Caller : \/ Drain(c) \/ Publish(c) \/ Mark(c) \/ Fired(c)
                             \/ Install(c) \/ Boot(c) \/ CreateTrigger(c) \/ SaveTrigger(c)
                             \/ Uninstall(c) \/ DropTrigger(c) \/ ClearEvents(c) \/ DeleteRow(c)
                             \/ Crash(c)

Spec == Init /\ [][Next]_vars

-----------------------------------------------------------------------------
\* Whatever dies or overlaps, an event is published, or still in the queue to
\* be, or its trigger was uninstalled: no event is lost.
NothingIsLost == \A id \in 1..raised : id \in Range(published) \/ id \in Waiting \/ id \in dropped

\* While calls do not overlap, events are published in the order of the
\* changes ("na ordem"), and again only when a process died.
PublishedInOrder ==
  ~shared => /\ \A i, j \in DOMAIN published : i < j => published[i] <= published[j]
             /\ Len(published) <= Cardinality(Range(published)) + crashes

\* Between calls, while none overlapped, the triggers SQLite has are those of
\* the table, but for one with each process that died: what is uninstalled no
\* longer fires, what the table shows does, and a boot makes nothing worse.
TableIsTrue ==
  ~shared /\ (\A c \in Caller : caller[c].at = "idle") =>
    Cardinality(installed \ rows) + Cardinality(rows \ installed) <= crashes
=============================================================================
