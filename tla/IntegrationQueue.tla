-------------------------- MODULE IntegrationQueue --------------------------
(***************************************************************************)
(* The outgoing queue of calls to other systems (integrations/service.py   *)
(* enqueue, drain and cancel; IntegrationJobRepository).  A worker is      *)
(* anything that drains: the QueueWorker process, the API's endpoint or    *)
(* `egr integration drain`.  It reads the jobs that are due and works on   *)
(* its copies of them; a row is written back only after its call.          *)
(*                                                                         *)
(* Time is what a job still has to wait: 0 when next_attempt is absent or  *)
(* past.                                                                   *)
(***************************************************************************)
EXTENDS Integers, Sequences, FiniteSets

CONSTANTS
  Worker, Human,
  Key, NoKey,          \* idempotency keys of one connector; NoKey: none given
  MaxAttempts,         \* job.max_attempts
  Batch,               \* integrations.queue.batch
  Base, Cap,           \* backoff_seconds, max_backoff_seconds
  MaxJobs,             \* bound: rows in the table
  MaxCalls,            \* bound: calls of enqueue and of cancel
  MaxCrashes,          \* bound: workers that die inside drain
  MaxLost              \* bound: answers lost, of each job

ASSUME QueueAssumption ==
  /\ NoKey \notin Key
  /\ {MaxAttempts, Batch, Base, Cap} \subseteq Nat \ {0}
  /\ {MaxJobs, MaxCalls, MaxCrashes, MaxLost} \subseteq Nat

VARIABLES
  jobs,                \* the rows of integration_jobs, by created_at
  worker,              \* each drain: where it is and its copies of the jobs
  human,               \* each cancel: the job it read and its copy
  shared,              \* ghost: jobs that two drains had in hand at once
  called,              \* ghost: how often each job was called, ...
  accepted,            \* ghost: ... the other system did what it asks, ...
  lost,                \* ghost: ... and did it without our learning so
  calls, crashes

vars == <<jobs, worker, human, shared, called, accepted, lost, calls, crashes>>
ghosts == <<shared, called, accepted, lost>>

-----------------------------------------------------------------------------
\* domain/enums.py JobStatus; "running" is never saved.
JobStatus == {"pending", "running", "done", "failed", "cancelled"}
Ended == {"done", "failed", "cancelled"}

Id == 1..MaxJobs
Job == [key : Key \cup {NoKey}, status : JobStatus, attempts : Nat, wait : Int]

\* A drain: the jobs it has read and not finished with, and its copies.
Drain == [pc : {"idle", "call", "save"}, batch : SUBSET Id, copy : [Id -> Job]]

TypeOK ==
  /\ jobs \in Seq(Job) /\ Len(jobs) <= MaxJobs
  /\ worker \in [Worker -> Drain]
  /\ human \in [Human -> [id : Id \cup {0}, job : Job]]
  /\ shared \subseteq Id
  /\ called \in [Id -> Nat] /\ accepted \in [Id -> Nat] /\ lost \in [Id -> Nat]
  /\ calls \in Nat /\ crashes \in Nat

NewJob(k) == [key |-> k, status |-> "pending", attempts |-> 0, wait |-> 0]

NoJob == NewJob(NoKey)         \* stands where no copy is
NoDrain == [pc |-> "idle", batch |-> {}, copy |-> [id \in Id |-> NoJob]]
NoCancel == [id |-> 0, job |-> NoJob]

Count(f, id) == [f EXCEPT ![id] = @ + 1]

\* wait_seconds: the wait doubles with each failure, up to the cap.
WaitSeconds(attempts) ==
  LET grown == Base * 2 ^ (IF attempts > 1 THEN attempts - 1 ELSE 0)
  IN IF grown < Cap THEN grown ELSE Cap

-----------------------------------------------------------------------------
\* The row with this key, if any: the unique index on (integration, key).
WithKey_Never(k) == {}                     \* mutant: the key is not looked at
WithKey(k) == {id \in DOMAIN jobs : k # NoKey /\ jobs[id].key = k}

\* A key seen before answers with the job that bears it, however it ended.
Enqueue(k) ==
  /\ calls < MaxCalls /\ calls' = calls + 1
  /\ \/ /\ WithKey(k) = {}
        /\ Len(jobs) < MaxJobs
        /\ jobs' = Append(jobs, NewJob(k))
     \/ /\ WithKey(k) # {}
        /\ UNCHANGED jobs
  /\ UNCHANGED <<worker, human, ghosts, crashes>>

\* IntegrationJobRepository.due: the oldest jobs among those to try now.
Due_Once == {id \in DOMAIN jobs : jobs[id].status = "pending" /\ jobs[id].attempts = 0}
                               \* mutant: only next_attempt IS NULL
Due == {id \in DOMAIN jobs : jobs[id].status \in {"pending", "running"} /\ jobs[id].wait = 0}

Oldest == {id \in Due : Cardinality({d \in Due : d < id}) < Batch}

StartDrain(w) ==
  /\ worker[w].pc = "idle"
  /\ Due # {}
  /\ worker' = [worker EXCEPT ![w] =
       [pc |-> "call", batch |-> Oldest,
        copy |-> [id \in Id |-> IF id \in Oldest THEN jobs[id] ELSE NoJob]]]
  /\ shared' = shared \cup {id \in Oldest : \E v \in Worker \ {w} : id \in worker[v].batch}
  /\ UNCHANGED <<jobs, human, called, accepted, lost, calls, crashes>>

\* A round of QueueWorker that finds nothing due.
IdleRound(w) ==
  /\ worker[w].pc = "idle"
  /\ Due = {}
  /\ UNCHANGED vars

\* The batch is worked off in the order of created_at.
First(w, id) == id \in worker[w].batch /\ \A d \in worker[w].batch : id <= d

\* What the copy becomes once the call has answered.
Succeeded_Ok(job) == [job EXCEPT !.status = "ok", !.attempts = @ + 1, !.wait = 0]   \* mutant: not a JobStatus
Succeeded(job) == [job EXCEPT !.status = "done", !.attempts = @ + 1, !.wait = 0]
Exhausted_Early(attempts) == attempts >= MaxAttempts - 1   \* mutant: off by one
Exhausted(attempts) == attempts >= MaxAttempts
Failed_Uncounted(job) ==       \* mutant: the attempt is not counted
  [job EXCEPT !.status = "pending", !.wait = WaitSeconds(job.attempts + 1)]
Failed(job) ==
  LET n == job.attempts + 1 IN
  IF Exhausted(n) THEN [job EXCEPT !.status = "failed", !.attempts = n, !.wait = 0]
                  ELSE [job EXCEPT !.status = "pending", !.attempts = n, !.wait = WaitSeconds(n)]

Becomes(w, id, job) ==
  worker' = [worker EXCEPT ![w].pc = "save", ![w].copy[id] = job]

AttemptUnsure(w, id) ==        \* mutant: no answer is taken for success
  /\ worker[w].pc = "call" /\ First(w, id)
  /\ called' = Count(called, id)
  /\ Becomes(w, id, Succeeded(worker[w].copy[id]))
  /\ UNCHANGED <<jobs, human, shared, accepted, lost, calls, crashes>>

\* ConnectorService.call on a copy: the answer is ok; or it is not (refused
\* by policy, no such connector, an error over there); or the other system
\* did what was asked and the answer never came (a timeout, a connection cut
\* on the way back), which the transport reports as any other error.
Attempt(w, id) ==
  /\ worker[w].pc = "call" /\ First(w, id)
  /\ called' = Count(called, id)
  /\ \/ /\ Becomes(w, id, Succeeded(worker[w].copy[id]))
        /\ accepted' = Count(accepted, id)
        /\ UNCHANGED lost
     \/ /\ Becomes(w, id, Failed(worker[w].copy[id]))
        /\ UNCHANGED <<accepted, lost>>
     \/ /\ lost[id] < MaxLost
        /\ Becomes(w, id, Failed(worker[w].copy[id]))
        /\ accepted' = Count(accepted, id)
        /\ lost' = Count(lost, id)
  /\ UNCHANGED <<jobs, human, shared, calls, crashes>>

\* The copy is dropped; after the last one the drain returns.
DropCopy(w, id) ==
  worker' = [worker EXCEPT ![w].pc = IF worker[w].batch = {id} THEN "idle" ELSE "call",
                           ![w].batch = @ \ {id},
                           ![w].copy[id] = NoJob]

SaveJob_Skip(w, id) ==         \* mutant: a success is not saved
  /\ worker[w].pc = "save" /\ First(w, id)
  /\ jobs' = IF worker[w].copy[id].status = "done" THEN jobs
             ELSE [jobs EXCEPT ![id] = worker[w].copy[id]]
  /\ DropCopy(w, id)
  /\ UNCHANGED <<human, ghosts, calls, crashes>>

\* The whole row is written, whatever it says by now.
SaveJob(w, id) ==
  /\ worker[w].pc = "save" /\ First(w, id)
  /\ jobs' = [jobs EXCEPT ![id] = worker[w].copy[id]]
  /\ DropCopy(w, id)
  /\ UNCHANGED <<human, ghosts, calls, crashes>>

\* cancel reads the row, unless it is done, ...
CancelRead(h) ==
  /\ human[h].id = 0
  /\ calls < MaxCalls /\ calls' = calls + 1
  /\ \E id \in DOMAIN jobs :
       /\ jobs[id].status # "done"
       /\ human' = [human EXCEPT ![h] = [id |-> id, job |-> jobs[id]]]
  /\ UNCHANGED <<jobs, worker, ghosts, crashes>>

\* ... and writes it back as cancelled.
CancelSave(h) ==
  /\ human[h].id # 0
  /\ jobs' = [jobs EXCEPT ![human[h].id] =
                [human[h].job EXCEPT !.status = "cancelled", !.wait = 0]]
  /\ human' = [human EXCEPT ![h] = NoCancel]
  /\ UNCHANGED <<worker, ghosts, calls, crashes>>

\* Time passes for the jobs that wait.
Tick ==
  /\ \E id \in DOMAIN jobs : jobs[id].wait > 0
  /\ jobs' = [id \in DOMAIN jobs |->
                [jobs[id] EXCEPT !.wait = IF @ > 0 THEN @ - 1 ELSE 0]]
  /\ UNCHANGED <<worker, human, ghosts, calls, crashes>>

\* The worker's process dies: its copies and its count of attempts are gone.
Crash(w) ==
  /\ worker[w].pc # "idle"
  /\ crashes < MaxCrashes /\ crashes' = crashes + 1
  /\ worker' = [worker EXCEPT ![w] = NoDrain]
  /\ UNCHANGED <<jobs, human, ghosts, calls>>

Init ==
  /\ jobs = <<>>
  /\ worker = [w \in Worker |-> NoDrain]
  /\ human = [h \in Human |-> NoCancel]
  /\ shared = {}
  /\ called = [id \in Id |-> 0] /\ accepted = [id \in Id |-> 0] /\ lost = [id \in Id |-> 0]
  /\ calls = 0 /\ crashes = 0

Work(w) == StartDrain(w) \/ \E id \in worker[w].batch : Attempt(w, id) \/ SaveJob(w, id)

Next ==
  \/ \E k \in Key \cup {NoKey} : Enqueue(k)
  \/ \E w \in Worker : Work(w) \/ IdleRound(w) \/ Crash(w)
  \/ \E h \in Human : CancelRead(h) \/ CancelSave(h)
  \/ Tick

Spec == Init /\ [][Next]_vars

\* QueueWorker.run drains again and again, and time passes.
FairSpec == Spec /\ \A w \in Worker : WF_vars(Work(w)) /\ WF_vars(Tick)

-----------------------------------------------------------------------------
(***************************************************************************)
(* Whatever the workers and however they die.                              *)
(***************************************************************************)

\* "Esgotou: failed" (docs/PHASE12_VERTICAL_PACKS.md): a job is given up
\* only after max_attempts real calls.
GivenUpAfterAttempts ==
  \A id \in DOMAIN jobs : jobs[id].status = "failed" => called[id] >= MaxAttempts

\* A row says done only of a call the other system accepted.
DoneWasAccepted == \A id \in DOMAIN jobs : jobs[id].status = "done" => accepted[id] > 0

\* One promise, one job: a key never makes a second row.
OneJobPerKey ==
  \A i, j \in DOMAIN jobs : jobs[i].key # NoKey /\ jobs[i].key = jobs[j].key => i = j

\* What makes the first two inductive: no copy of a job counts more
\* attempts than were made, and a copy that says done was accepted.
Real(id, job) ==
  /\ job.attempts <= called[id]
  /\ job.status = "failed" => job.attempts >= MaxAttempts
  /\ job.status = "done" => accepted[id] > 0

CopiesAreReal ==
  /\ \A id \in DOMAIN jobs : Real(id, jobs[id])
  /\ \A w \in Worker : \A id \in worker[w].batch :
       id \in DOMAIN jobs /\ Real(id, worker[w].copy[id])
  /\ \A h \in Human : human[h].id # 0 =>
       human[h].id \in DOMAIN jobs /\ Real(human[h].id, human[h].job)

\* A job that no two drains had in hand at once is called at most
\* max_attempts times, and once more for each crash (the attempt is counted
\* in memory and saved only after the call).
CallsAreBounded == \A id \in Id \ shared : called[id] <= MaxAttempts + crashes

\* What the other system did of such a job is not asked of it again, unless
\* we never learnt of it: a crash, or the way back, lost the answer.
AcceptedOnceAlone == \A id \in Id \ shared : accepted[id] <= 1 + crashes + lost[id]

\* integrations/service.py enqueue and drain: done is only what was accepted,
\* and an idempotency key has one job.
JobsAreHonest == DoneWasAccepted /\ OneJobPerKey

\* drain: a job that drains did not share is called as often as it may, plus
\* once per crash, and done over there once, plus once per crash and per
\* answer that was lost.
CalledOnce == CallsAreBounded /\ AcceptedOnceAlone

\* Every promise is kept or given up: done, failed or cancelled.
EveryJobEnds ==
  \A id \in Id : id \in DOMAIN jobs ~> id \in DOMAIN jobs /\ jobs[id].status \in Ended
=============================================================================
