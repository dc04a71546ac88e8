----------------------- MODULE IntegrationQueueProofs -----------------------
(***************************************************************************)
(* The outgoing queue with any number of workers, cancels and crashes: a   *)
(* job is given up only after max_attempts calls, and one that is done was *)
(* accepted, although workers and humans write stale copies over each      *)
(* other's rows.                                                           *)
(***************************************************************************)
EXTENDS IntegrationQueue, TLAPS

\* What the code does to a job keeps it a job.
LEMMA JobsStayJobs ==
  ASSUME NEW job \in Job
  PROVE  Succeeded(job) \in Job /\ Failed(job) \in Job
<1>1. \A n \in Nat : WaitSeconds(n) \in Int
  <2> SUFFICES ASSUME NEW n \in Nat PROVE WaitSeconds(n) \in Int
    OBVIOUS
  <2> DEFINE e == IF n > 1 THEN n - 1 ELSE 0
  <2>1. e \in Nat
    OBVIOUS
  <2>2. 2 ^ e \in Int
    BY <2>1
  <2> HIDE DEF e
  <2>3. Base * 2 ^ e \in Int /\ Cap \in Int
    BY <2>2, QueueAssumption
  <2> QED
    BY <2>3 DEF WaitSeconds, e
<1>2. ASSUME NEW st \in JobStatus, NEW n \in Nat, NEW wt \in Int
      PROVE  [job EXCEPT !.status = st, !.attempts = n, !.wait = wt] \in Job
  BY DEF Job
<1>3. job.attempts + 1 \in Nat
  BY DEF Job
<1>4. WaitSeconds(job.attempts + 1) \in Int
  BY <1>1, <1>3
<1>5. "pending" \in JobStatus /\ "done" \in JobStatus /\ "failed" \in JobStatus /\ 0 \in Int
  BY DEF JobStatus
<1>6. Succeeded(job) \in Job
  <2>1. [job EXCEPT !.status = "done", !.attempts = job.attempts + 1, !.wait = 0] \in Job
    BY <1>2, <1>3, <1>5
  <2> QED
    BY <2>1, Zenon DEF Succeeded
<1>7. Failed(job) \in Job
  <2>1. [job EXCEPT !.status = "failed", !.attempts = job.attempts + 1, !.wait = 0] \in Job
    BY <1>2, <1>3, <1>5
  <2>2. [job EXCEPT !.status = "pending", !.attempts = job.attempts + 1,
                    !.wait = WaitSeconds(job.attempts + 1)] \in Job
    BY <1>2, <1>3, <1>4, <1>5
  <2> QED
    BY <2>1, <2>2, Zenon DEF Failed
<1> QED
  BY <1>6, <1>7

\* Writing a copy back over its row keeps the table a table.
LEMMA RowWritten ==
  ASSUME TypeOK, NEW id \in DOMAIN jobs, NEW job \in Job
  PROVE  LET new == [jobs EXCEPT ![id] = job]
         IN /\ new \in Seq(Job) /\ Len(new) = Len(jobs) /\ DOMAIN new = DOMAIN jobs
            /\ new[id] = job
            /\ \A d \in DOMAIN jobs : d # id => new[d] = jobs[d]
  BY DEF TypeOK

LEMMA RowsAreIds == TypeOK => DOMAIN jobs \subseteq Id
  BY QueueAssumption DEF TypeOK, Id
-----------------------------------------------------------------------------
\* Every variable keeps its type, and every copy is of a row of the table.
Inv == TypeOK /\ CopiesAreReal

LEMMA InitInv == Init => Inv
<1> SUFFICES ASSUME Init PROVE Inv
  OBVIOUS
<1>1. NoJob \in Job
  BY DEF NoJob, NewJob, Job, JobStatus
<1>2. NoDrain \in Drain
  BY <1>1 DEF NoDrain, Drain
<1>3. TypeOK
  BY <1>1, <1>2, QueueAssumption DEF Init, TypeOK, NoCancel, Id
<1>4. CopiesAreReal
  BY DEF Init, CopiesAreReal, NoDrain, NoCancel
<1> QED
  BY <1>3, <1>4 DEF Inv

LEMMA EnqueueInv == ASSUME Inv, NEW k \in Key \cup {NoKey}, Enqueue(k) PROVE Inv'
<1> USE DEF Inv
<1>1. NewJob(k) \in Job
  BY DEF NewJob, Job, JobStatus
<1>2. CASE UNCHANGED jobs
  <2>1. UNCHANGED <<worker, human, shared, called, accepted, lost, crashes>> /\ calls' \in Nat
    BY DEF Enqueue, ghosts, TypeOK
  <2>2. TypeOK'
    BY <1>2, <2>1 DEF TypeOK
  <2> QED
    BY <1>2, <2>1, <2>2 DEF CopiesAreReal, Real
<1>3. CASE /\ Len(jobs) < MaxJobs
           /\ jobs' = Append(jobs, NewJob(k))
  <2>1. jobs \in Seq(Job)
    BY DEF TypeOK
  <2>2. /\ jobs' \in Seq(Job) /\ Len(jobs') = Len(jobs) + 1
        /\ DOMAIN jobs' = DOMAIN jobs \cup {Len(jobs) + 1}
        /\ jobs'[Len(jobs) + 1] = NewJob(k)
        /\ \A d \in DOMAIN jobs : jobs'[d] = jobs[d]
    BY <1>1, <1>3, <2>1
  <2>3. Len(jobs) + 1 \in Id
    BY <1>3, <2>1, QueueAssumption DEF Id
  <2>4. TypeOK'
    <3>1. Len(jobs') <= MaxJobs
      BY <1>3, <2>1, <2>2, QueueAssumption
    <3>2. UNCHANGED <<worker, human, shared, called, accepted, lost, crashes>> /\ calls' \in Nat
      BY DEF Enqueue, ghosts, TypeOK
    <3> QED
      BY <2>2, <3>1, <3>2 DEF TypeOK
  <2>5. Real(Len(jobs) + 1, NewJob(k))
    <3>1. called[Len(jobs) + 1] \in Nat
      BY <2>3 DEF TypeOK
    <3> QED
      BY <3>1 DEF Real, NewJob
  <2>6. UNCHANGED <<worker, human, called, accepted, lost>>
    BY DEF Enqueue, ghosts
  <2>7. ASSUME NEW d \in DOMAIN jobs' PROVE Real(d, jobs[d])'
    BY <2>2, <2>5, <2>6, <2>7 DEF CopiesAreReal, Real
  <2> QED
    <3>1. \A w \in Worker : \A id \in worker'[w].batch :
            id \in DOMAIN jobs' /\ Real(id, worker[w].copy[id])'
      BY <2>2, <2>6 DEF CopiesAreReal, Real
    <3>2. \A h \in Human : human'[h].id # 0 =>
            human'[h].id \in DOMAIN jobs' /\ Real(human[h].id, human[h].job)'
      BY <2>2, <2>6 DEF CopiesAreReal, Real
    <3> QED
      BY <2>4, <2>7, <3>1, <3>2 DEF CopiesAreReal
<1> QED
  BY <1>2, <1>3 DEF Enqueue

\* Changing only what one worker holds keeps the invariant, when what it
\* holds is real.
LEMMA WorkerStep ==
  ASSUME Inv, NEW w \in Worker, NEW d \in Drain,
         worker' = [worker EXCEPT ![w] = d],
         UNCHANGED <<jobs, human, called, accepted, lost, calls>>,
         shared' \subseteq Id, crashes' \in Nat,
         \A id \in d.batch : id \in DOMAIN jobs /\ Real(id, d.copy[id])
  PROVE  Inv'
<1>1. TypeOK'
  BY DEF Inv, TypeOK
<1>2. \A v \in Worker : worker'[v] = IF v = w THEN d ELSE worker[v]
  BY DEF Inv, TypeOK
<1>3. \A v \in Worker : \A id \in worker'[v].batch :
        id \in DOMAIN jobs' /\ Real(id, worker'[v].copy[id])
  BY <1>2 DEF Inv, CopiesAreReal
<1> QED
  BY <1>1, <1>3 DEF Inv, CopiesAreReal, Real

LEMMA StartDrainInv == ASSUME Inv, NEW w \in Worker, StartDrain(w) PROVE Inv'
<1> DEFINE d == [pc |-> "call", batch |-> Oldest,
                 copy |-> [id \in Id |-> IF id \in Oldest THEN jobs[id] ELSE NoJob]]
<1>1. Oldest \subseteq DOMAIN jobs /\ Oldest \subseteq Id
  BY RowsAreIds DEF Oldest, Due, Inv
<1>2. NoJob \in Job /\ \A id \in Oldest : jobs[id] \in Job
  <2>1. NoJob \in Job
    BY DEF NoJob, NewJob, Job, JobStatus
  <2>2. jobs \in Seq(Job)
    BY DEF Inv, TypeOK
  <2> QED
    BY <1>1, <2>1, <2>2
<1>3. d \in Drain
  BY <1>1, <1>2 DEF Drain
<1>4. \A id \in d.batch : id \in DOMAIN jobs /\ Real(id, d.copy[id])
  BY <1>1 DEF Inv, CopiesAreReal
<1>5. /\ worker' = [worker EXCEPT ![w] = d]
      /\ UNCHANGED <<jobs, human, called, accepted, lost, calls>>
      /\ shared' \subseteq Id /\ crashes' \in Nat
  BY <1>1 DEF StartDrain, Inv, TypeOK
<1> HIDE DEF d
<1> QED
  BY <1>3, <1>4, <1>5, WorkerStep

LEMMA CrashInv == ASSUME Inv, NEW w \in Worker, Crash(w) PROVE Inv'
<1>1. NoDrain \in Drain /\ NoDrain.batch = {}
  BY DEF NoDrain, Drain, NoJob, NewJob, Job, JobStatus
<1>2. /\ worker' = [worker EXCEPT ![w] = NoDrain]
      /\ UNCHANGED <<jobs, human, called, accepted, lost, calls>>
      /\ shared' \subseteq Id /\ crashes' \in Nat
  BY DEF Crash, ghosts, Inv, TypeOK
<1> QED
  BY <1>1, <1>2, WorkerStep

LEMMA AttemptInv ==
  ASSUME Inv, NEW w \in Worker, NEW id \in worker[w].batch, Attempt(w, id)
  PROVE  Inv'
<1> USE DEF Inv
<1> DEFINE old == worker[w].copy[id]
<1>1. id \in Id /\ id \in DOMAIN jobs /\ old \in Job /\ Real(id, old)
  BY DEF CopiesAreReal, TypeOK, Drain
<1>2. PICK new \in {Succeeded(old), Failed(old)} :
        /\ worker' = [worker EXCEPT ![w].pc = "save", ![w].copy[id] = new]
        /\ accepted' \in {accepted, Count(accepted, id)} /\ lost' \in {lost, Count(lost, id)}
        /\ new.status = "done" => accepted' = Count(accepted, id)
  <2>1. CASE Becomes(w, id, Succeeded(old)) /\ accepted' = Count(accepted, id) /\ UNCHANGED lost
    <3>1. Succeeded(old).status = "done"
      BY <1>1 DEF Succeeded, Job
    <3> QED
      BY <2>1, <3>1 DEF Becomes
  <2>2. CASE /\ Becomes(w, id, Failed(old))
             /\ \/ UNCHANGED <<accepted, lost>>
                \/ accepted' = Count(accepted, id) /\ lost' = Count(lost, id)
    <3>1. Failed(old).status # "done"
      BY <1>1 DEF Failed, Job
    <3> QED
      BY <2>2, <3>1 DEF Becomes
  <2> QED
    BY <2>1, <2>2 DEF Attempt
<1>3. new \in Job
  BY <1>1, <1>2, JobsStayJobs
<1>4. called' = Count(called, id) /\ UNCHANGED <<jobs, human, shared, calls, crashes>>
  BY DEF Attempt
<1>5. /\ called' \in [Id -> Nat] /\ accepted' \in [Id -> Nat] /\ lost' \in [Id -> Nat]
      /\ \A i \in Id : called'[i] >= called[i] /\ accepted'[i] >= accepted[i]
      /\ called'[id] = called[id] + 1
      /\ new.status = "done" => accepted'[id] > 0
  <2>1. called \in [Id -> Nat] /\ accepted \in [Id -> Nat] /\ lost \in [Id -> Nat]
    BY DEF TypeOK
  <2>2. ASSUME NEW f \in [Id -> Nat]
        PROVE  /\ Count(f, id) \in [Id -> Nat] /\ Count(f, id)[id] = f[id] + 1
               /\ \A i \in Id : Count(f, id)[i] >= f[i]
    BY <1>1, <2>2 DEF Count
  <2>3. called' \in [Id -> Nat] /\ called'[id] = called[id] + 1 /\ \A i \in Id : called'[i] >= called[i]
    BY <1>4, <2>1, <2>2
  <2>4. accepted' \in [Id -> Nat] /\ \A i \in Id : accepted'[i] >= accepted[i]
    BY <1>2, <2>1, <2>2
  <2>5. lost' \in [Id -> Nat]
    BY <1>2, <2>1, <2>2
  <2>6. new.status = "done" => accepted'[id] > 0
    <3>1. accepted[id] \in Nat
      BY <1>1, <2>1
    <3>2. new.status = "done" => accepted'[id] = accepted[id] + 1
      BY <1>2, <2>1, <2>2
    <3> QED
      BY <3>1, <3>2
  <2> QED
    BY <2>3, <2>4, <2>5, <2>6
<1>6. \A v \in Worker : v # w => worker'[v] = worker[v]
  BY <1>2 DEF TypeOK
<1>7. worker'[w] = [pc |-> "save", batch |-> worker[w].batch,
                    copy |-> [worker[w].copy EXCEPT ![id] = new]]
  <2>1. worker[w] \in Drain /\ worker'[w] = [worker[w] EXCEPT !.pc = "save", !.copy[id] = new]
    BY <1>2 DEF TypeOK
  <2> QED
    BY <2>1 DEF Drain
<1>8. worker[w].copy \in [Id -> Job] /\ worker[w].batch \subseteq Id
  BY DEF TypeOK, Drain
<1>9. TypeOK'
  <2>1. worker'[w] \in Drain
    BY <1>3, <1>7, <1>8 DEF Drain
  <2>2. worker' \in [Worker -> Drain]
    BY <1>2, <1>6, <2>1 DEF TypeOK
  <2> QED
    BY <1>4, <1>5, <2>2 DEF TypeOK
<1>10. Real(id, new)'
  <2>1. new.attempts = old.attempts + 1
    BY <1>1, <1>2 DEF Succeeded, Failed, Job
  <2>2. new.status = "failed" => new.attempts >= MaxAttempts
    BY <1>1, <1>2 DEF Succeeded, Failed, Exhausted, Job
  <2>3. old.attempts <= called[id] /\ called[id] \in Nat /\ old.attempts \in Nat
    BY <1>1 DEF Real, TypeOK, Job
  <2> QED
    BY <1>5, <2>1, <2>2, <2>3 DEF Real
<1>11. ASSUME NEW d \in Id, NEW job \in Job, Real(d, job) PROVE Real(d, job)'
  <2>1. called[d] \in Nat /\ called'[d] \in Nat /\ accepted[d] \in Nat /\ accepted'[d] \in Nat
    BY <1>5 DEF TypeOK
  <2> QED
    BY <1>5, <1>11, <2>1 DEF Real, Job
<1>12. ASSUME NEW d \in DOMAIN jobs' PROVE Real(d, jobs[d])'
  <2>1. d \in Id /\ jobs[d] \in Job /\ Real(d, jobs[d]) /\ jobs' = jobs
    BY <1>4, RowsAreIds DEF TypeOK, CopiesAreReal
  <2> QED
    BY <1>11, <2>1 DEF Real
<1>13. ASSUME NEW v \in Worker, NEW d \in worker'[v].batch
       PROVE  d \in DOMAIN jobs' /\ Real(d, worker[v].copy[d])'
  <2>1. d \in worker[v].batch
    BY <1>6, <1>7, <1>13
  <2>2. d \in Id /\ d \in DOMAIN jobs' /\ worker[v].copy[d] \in Job /\ Real(d, worker[v].copy[d])
    BY <1>4, <2>1 DEF TypeOK, Drain, CopiesAreReal
  <2>3. worker'[v].copy[d] = IF v = w /\ d = id THEN new ELSE worker[v].copy[d]
    BY <1>6, <1>7, <1>8, <2>2
  <2> QED
    BY <1>10, <1>11, <2>2, <2>3 DEF Real
<1>14. ASSUME NEW h \in Human, human'[h].id # 0
       PROVE  human'[h].id \in DOMAIN jobs' /\ Real(human[h].id, human[h].job)'
  <2>1. human[h].id \in DOMAIN jobs /\ human[h].id \in Id /\ human[h].job \in Job
        /\ Real(human[h].id, human[h].job) /\ human' = human /\ jobs' = jobs
    BY <1>4, <1>14, RowsAreIds DEF CopiesAreReal, TypeOK
  <2> QED
    BY <1>11, <2>1 DEF Real
<1> QED
  BY <1>9, <1>12, <1>13, <1>14 DEF CopiesAreReal

\* A row is overwritten by a real copy of itself, and time passes: the
\* table keeps its ids, so what the others hold stays real.
LEMMA TableStep ==
  ASSUME Inv, jobs' \in Seq(Job), Len(jobs') = Len(jobs), DOMAIN jobs' = DOMAIN jobs,
         \A id \in DOMAIN jobs : Real(id, jobs'[id]),
         worker' \in [Worker -> Drain], human' \in [Human -> [id : Id \cup {0}, job : Job]],
         UNCHANGED <<shared, called, accepted, lost, calls, crashes>>,
         \A w \in Worker : \A id \in worker'[w].batch :
           id \in worker[w].batch /\ worker'[w].copy[id] = worker[w].copy[id],
         \A h \in Human : human'[h] = human[h] \/ human'[h].id = 0
  PROVE  Inv'
<1>1. TypeOK'
  BY DEF Inv, TypeOK
<1>2. \A id \in DOMAIN jobs' : Real(id, jobs[id])'
  BY DEF Real
<1>3. \A w \in Worker : \A id \in worker'[w].batch :
        id \in DOMAIN jobs' /\ Real(id, worker[w].copy[id])'
  BY DEF Inv, CopiesAreReal, Real
<1>4. \A h \in Human : human'[h].id # 0 =>
        human'[h].id \in DOMAIN jobs' /\ Real(human[h].id, human[h].job)'
  BY DEF Inv, CopiesAreReal, Real
<1> QED
  BY <1>1, <1>2, <1>3, <1>4 DEF Inv, CopiesAreReal

LEMMA SaveJobInv ==
  ASSUME Inv, NEW w \in Worker, NEW id \in worker[w].batch, SaveJob(w, id)
  PROVE  Inv'
<1>1. /\ worker[w] \in Drain /\ id \in DOMAIN jobs /\ worker[w].copy[id] \in Job
      /\ Real(id, worker[w].copy[id])
  BY DEF Inv, TypeOK, Drain, CopiesAreReal
<1>2. jobs' = [jobs EXCEPT ![id] = worker[w].copy[id]]
      /\ UNCHANGED <<human, shared, called, accepted, lost, calls, crashes>>
  BY DEF SaveJob, ghosts
<1>3. /\ jobs' \in Seq(Job) /\ Len(jobs') = Len(jobs) /\ DOMAIN jobs' = DOMAIN jobs
      /\ jobs'[id] = worker[w].copy[id]
      /\ \A d \in DOMAIN jobs : d # id => jobs'[d] = jobs[d]
  BY <1>1, <1>2, RowWritten DEF Inv
<1>4. \A d \in DOMAIN jobs : Real(d, jobs'[d])
  BY <1>1, <1>3 DEF Inv, CopiesAreReal
<1>5. NoJob \in Job
  BY DEF NoJob, NewJob, Job, JobStatus
<1>6. /\ worker'[w] \in Drain
      /\ \A d \in worker'[w].batch : d \in worker[w].batch
                                   /\ worker'[w].copy[d] = worker[w].copy[d]
  <2>1. worker'[w] = [pc |-> IF worker[w].batch = {id} THEN "idle" ELSE "call",
                      batch |-> worker[w].batch \ {id},
                      copy |-> [worker[w].copy EXCEPT ![id] = NoJob]]
    BY <1>1 DEF SaveJob, DropCopy, Inv, TypeOK, Drain
  <2>2. worker[w].copy \in [Id -> Job] /\ worker[w].batch \subseteq Id
    BY <1>1 DEF Drain
  <2>3. [worker[w].copy EXCEPT ![id] = NoJob] \in [Id -> Job]
    BY <1>5, <2>2
  <2>4. worker'[w] \in Drain
    BY <2>1, <2>2, <2>3 DEF Drain
  <2>5. \A d \in worker'[w].batch : d \in worker[w].batch
                                   /\ worker'[w].copy[d] = worker[w].copy[d]
    BY <2>1, <2>2
  <2> QED
    BY <2>4, <2>5
<1>7. \A v \in Worker : v # w => worker'[v] = worker[v]
  BY DEF SaveJob, DropCopy, Inv, TypeOK
<1>8. worker' \in [Worker -> Drain]
  <2>1. worker' = [v \in Worker |-> worker'[v]]
    <3>1. worker \in [Worker -> Drain]
      BY DEF Inv, TypeOK
    <3>2. DropCopy(w, id)
      BY DEF SaveJob
    <3> QED
      BY <3>1, <3>2 DEF DropCopy
  <2>2. \A v \in Worker : worker'[v] \in Drain
    BY <1>6, <1>7 DEF Inv, TypeOK
  <2> QED
    BY <2>1, <2>2
<1>9. \A v \in Worker : \A d \in worker'[v].batch :
        d \in worker[v].batch /\ worker'[v].copy[d] = worker[v].copy[d]
  BY <1>6, <1>7
<1>10. human' \in [Human -> [id : Id \cup {0}, job : Job]]
  BY <1>2 DEF Inv, TypeOK
<1> QED
  BY <1>2, <1>3, <1>4, <1>8, <1>9, <1>10, TableStep

LEMMA CancelReadInv == ASSUME Inv, NEW h \in Human, CancelRead(h) PROVE Inv'
<1>1. PICK id \in DOMAIN jobs : human' = [human EXCEPT ![h] = [id |-> id, job |-> jobs[id]]]
  BY DEF CancelRead
<1>2. UNCHANGED <<jobs, worker, shared, called, accepted, lost, crashes>> /\ calls' \in Nat
  BY DEF CancelRead, ghosts, Inv, TypeOK
<1>3. id \in Id /\ jobs[id] \in Job
  <2>1. jobs \in Seq(Job)
    BY DEF Inv, TypeOK
  <2> QED
    BY <2>1, RowsAreIds DEF Inv
<1>4. TypeOK'
  BY <1>1, <1>2, <1>3 DEF Inv, TypeOK
<1>5. \A g \in Human : human'[g] = IF g = h THEN [id |-> id, job |-> jobs[id]] ELSE human[g]
  BY <1>1 DEF Inv, TypeOK
<1> QED
  BY <1>2, <1>4, <1>5 DEF Inv, CopiesAreReal, Real

LEMMA CancelSaveInv == ASSUME Inv, NEW h \in Human, CancelSave(h) PROVE Inv'
<1> DEFINE id == human[h].id
           new == [human[h].job EXCEPT !.status = "cancelled", !.wait = 0]
<1>1. id \in DOMAIN jobs /\ human[h].job \in Job /\ Real(id, human[h].job)
  BY DEF CancelSave, Inv, TypeOK, CopiesAreReal
<1>2. new \in Job /\ Real(id, new)
  <2>1. "cancelled" \in JobStatus /\ "cancelled" # "failed" /\ "cancelled" # "done" /\ 0 \in Int
    BY DEF JobStatus
  <2>2. new \in Job
    BY <1>1, <2>1 DEF Job
  <2>3. new.attempts = human[h].job.attempts /\ new.status = "cancelled"
    BY <1>1 DEF Job
  <2> QED
    BY <1>1, <2>1, <2>2, <2>3 DEF Real
<1>3. jobs' = [jobs EXCEPT ![id] = new]
      /\ UNCHANGED <<worker, shared, called, accepted, lost, calls, crashes>>
  BY DEF CancelSave, ghosts
<1> HIDE DEF new
<1>4. /\ jobs' \in Seq(Job) /\ Len(jobs') = Len(jobs) /\ DOMAIN jobs' = DOMAIN jobs
      /\ jobs'[id] = new
      /\ \A d \in DOMAIN jobs : d # id => jobs'[d] = jobs[d]
  BY <1>1, <1>2, <1>3, RowWritten DEF Inv
<1>5. \A d \in DOMAIN jobs : Real(d, jobs'[d])
  BY <1>2, <1>4 DEF Inv, CopiesAreReal
<1>6. NoCancel \in [id : Id \cup {0}, job : Job] /\ NoCancel.id = 0
  BY DEF NoCancel, NoJob, NewJob, Job, JobStatus
<1>7. /\ human' \in [Human -> [id : Id \cup {0}, job : Job]]
      /\ \A g \in Human : human'[g] = human[g] \/ human'[g].id = 0
  BY <1>6 DEF CancelSave, Inv, TypeOK
<1>8. worker' \in [Worker -> Drain]
      /\ \A v \in Worker : \A d \in worker'[v].batch :
           d \in worker[v].batch /\ worker'[v].copy[d] = worker[v].copy[d]
  BY <1>3 DEF Inv, TypeOK
<1> QED
  BY <1>3, <1>4, <1>5, <1>7, <1>8, TableStep

LEMMA TickInv == ASSUME Inv, Tick PROVE Inv'
<1> DEFINE Waited(job) == [job EXCEPT !.wait = IF @ > 0 THEN @ - 1 ELSE 0]
<1>1. jobs \in Seq(Job) /\ jobs' = [id \in DOMAIN jobs |-> Waited(jobs[id])]
      /\ UNCHANGED <<worker, human, shared, called, accepted, lost, calls, crashes>>
  BY DEF Tick, ghosts, Inv, TypeOK
<1>2. ASSUME NEW job \in Job PROVE Waited(job) \in Job
  BY DEF Job
<1>3. ASSUME NEW id \in DOMAIN jobs PROVE Real(id, Waited(jobs[id]))
  <2>1. jobs[id] \in Job /\ Real(id, jobs[id])
    BY <1>1 DEF Inv, CopiesAreReal
  <2> QED
    BY <2>1 DEF Real, Job
<1> HIDE DEF Waited
<1>4. \A id \in DOMAIN jobs : Waited(jobs[id]) \in Job
  BY <1>1, <1>2
<1>5. jobs' \in Seq(Job) /\ Len(jobs') = Len(jobs) /\ DOMAIN jobs' = DOMAIN jobs
  BY <1>1, <1>4
<1>6. \A id \in DOMAIN jobs : Real(id, jobs'[id])
  BY <1>1, <1>3
<1>7. worker' \in [Worker -> Drain] /\ human' \in [Human -> [id : Id \cup {0}, job : Job]]
  BY <1>1 DEF Inv, TypeOK
<1> QED
  BY <1>1, <1>5, <1>6, <1>7, TableStep
-----------------------------------------------------------------------------
LEMMA NextInv == Inv /\ [Next]_vars => Inv'
<1> SUFFICES ASSUME Inv, [Next]_vars PROVE Inv'
  OBVIOUS
<1>1. ASSUME NEW w \in Worker, Work(w) PROVE Inv'
  BY <1>1, StartDrainInv, AttemptInv, SaveJobInv DEF Work
<1>2. CASE UNCHANGED vars
  BY <1>2 DEF vars, Inv, TypeOK, CopiesAreReal, Real
<1> QED
  BY <1>1, <1>2, EnqueueInv, CrashInv, CancelReadInv, CancelSaveInv, TickInv
  DEF Next, IdleRound

LEMMA QueueInvariant == Spec => []Inv
  BY InitInv, NextInv, PTL DEF Spec

\* Every variable of the queue keeps its type, and no copy of a job, in a
\* worker's or a human's hands, claims more than what happened.
THEOREM QueueTypes == Spec => [](TypeOK /\ CopiesAreReal)
  BY QueueInvariant, PTL DEF Inv

\* Whoever drains, cancels or dies: a job is failed only after max_attempts
\* calls of it, and done only if the other system accepted one.
THEOREM NoFalseEnd == Spec => [](GivenUpAfterAttempts /\ DoneWasAccepted)
<1>1. Inv => GivenUpAfterAttempts /\ DoneWasAccepted
  <2> SUFFICES ASSUME Inv, NEW id \in DOMAIN jobs
               PROVE  /\ jobs[id].status = "failed" => called[id] >= MaxAttempts
                      /\ jobs[id].status = "done" => accepted[id] > 0
    BY DEF GivenUpAfterAttempts, DoneWasAccepted
  <2>1. jobs[id] \in Job /\ id \in Id /\ called[id] \in Nat /\ Real(id, jobs[id])
    BY RowsAreIds DEF Inv, TypeOK, CopiesAreReal
  <2> QED
    BY <2>1, QueueAssumption DEF Real, Job
<1> QED
  BY <1>1, QueueInvariant, PTL
-----------------------------------------------------------------------------
(***************************************************************************)
(* A job that no two drains had in hand at once is called and accepted as  *)
(* often as it may be, and a key has one job.                              *)
(***************************************************************************)

\* A copy keeps the key of its row.
KeysInv ==
  /\ OneJobPerKey
  /\ \A w \in Worker : \A id \in worker[w].batch : worker[w].copy[id].key = jobs[id].key
  /\ \A h \in Human : human[h].id # 0 => human[h].job.key = jobs[human[h].id].key

\* A row or a copy that may be tried again counts the calls made of it: all
\* but one for each crash, and one when the answer is still to be saved.
Open(job) == job.status \in {"pending", "running"}
Tried(w, id) == worker[w].pc = "save" /\ First(w, id)
Unsaved(id) == IF \E w \in Worker : Tried(w, id) THEN 1 ELSE 0

Accounted(id, job, n) ==
  Open(job) => /\ job.attempts < MaxAttempts
               /\ called[id] <= job.attempts + crashes + n /\ accepted[id] <= crashes + n + lost[id]

HeldInv(w, id) ==
  /\ Accounted(id, worker[w].copy[id], 0)
  /\ ~Tried(w, id) => Open(worker[w].copy[id])
  /\ \A v \in Worker : id \in worker[v].batch => v = w

SingleInv(id) ==
  /\ called[id] <= MaxAttempts + crashes /\ accepted[id] <= 1 + crashes + lost[id]
  /\ id \notin DOMAIN jobs => called[id] = 0 /\ accepted[id] = 0
  /\ id \in DOMAIN jobs => Accounted(id, jobs[id], Unsaved(id))
  /\ \A w \in Worker : id \in worker[w].batch => HeldInv(w, id)

SinglesInv == \A id \in Id \ shared : SingleInv(id)

\* What the types say of a row, a copy and the counts.
LEMMA Numbers ==
  ASSUME Inv
  PROVE  /\ DOMAIN jobs \subseteq Id /\ Id \subseteq Nat /\ jobs \in Seq(Job)
         /\ \A id \in DOMAIN jobs : jobs[id] \in Job /\ jobs[id].attempts \in Nat
         /\ \A w \in Worker : /\ worker[w] \in Drain /\ worker[w].batch \subseteq Id
                             /\ worker[w].batch \subseteq DOMAIN jobs
                             /\ \A id \in Id : worker[w].copy[id] \in Job /\ worker[w].copy[id].attempts \in Nat
         /\ \A h \in Human : human[h].id # 0 => human[h].id \in DOMAIN jobs /\ human[h].job \in Job
         /\ \A id \in Id : called[id] \in Nat /\ accepted[id] \in Nat /\ lost[id] \in Nat
         /\ crashes \in Nat /\ MaxAttempts \in Nat \ {0}
<1>1. TypeOK /\ CopiesAreReal
  BY DEF Inv
<1>2. DOMAIN jobs \subseteq Id /\ Id \subseteq Nat /\ jobs \in Seq(Job)
  BY <1>1, RowsAreIds, QueueAssumption DEF TypeOK, Id
<1>3. \A id \in DOMAIN jobs : jobs[id] \in Job
  BY <1>2
<1>4. ASSUME NEW w \in Worker
      PROVE  /\ worker[w] \in Drain /\ worker[w].batch \subseteq Id /\ worker[w].batch \subseteq DOMAIN jobs
             /\ \A id \in Id : worker[w].copy[id] \in Job /\ worker[w].copy[id].attempts \in Nat
  <2>1. worker[w] \in Drain /\ worker[w].batch \subseteq DOMAIN jobs
    BY <1>1 DEF TypeOK, CopiesAreReal
  <2>2. worker[w].copy \in [Id -> Job] /\ worker[w].batch \subseteq Id
    BY <2>1 DEF Drain
  <2>3. \A job \in Job : job.attempts \in Nat
    BY DEF Job
  <2> QED
    BY <2>1, <2>2, <2>3
<1>5. \A id \in DOMAIN jobs : jobs[id].attempts \in Nat
  BY <1>3 DEF Job
<1>6. \A h \in Human : human[h].id # 0 => human[h].id \in DOMAIN jobs /\ human[h].job \in Job
  BY <1>1 DEF TypeOK, CopiesAreReal
<1>7. /\ \A id \in Id : called[id] \in Nat /\ accepted[id] \in Nat /\ lost[id] \in Nat
      /\ crashes \in Nat /\ MaxAttempts \in Nat \ {0}
  BY <1>1, QueueAssumption DEF TypeOK
<1> QED
  BY <1>2, <1>3, <1>4, <1>5, <1>6, <1>7

\* What each step of a drain does to its copies.
LEMMA AttemptFrame ==
  ASSUME Inv, NEW w \in Worker, NEW id \in worker[w].batch, Attempt(w, id)
  PROVE  LET old == worker[w].copy[id]
             new == worker'[w].copy[id] IN
         /\ new \in {Succeeded(old), Failed(old)}
         /\ worker[w].pc = "call" /\ First(w, id)
         /\ worker'[w].pc = "save" /\ worker'[w].batch = worker[w].batch
         /\ \A d \in Id \ {id} : worker'[w].copy[d] = worker[w].copy[d]
         /\ \A v \in Worker \ {w} : worker'[v] = worker[v]
         /\ \A d \in Id : called'[d] = called[d] + (IF d = id THEN 1 ELSE 0)
         /\ \A d \in Id \ {id} : accepted'[d] = accepted[d] /\ lost'[d] = lost[d]
         /\ \A d \in Id : /\ lost'[d] \in Nat /\ accepted'[d] \in Nat
                         /\ accepted'[d] + lost[d] = accepted[d] + lost'[d] + (IF d = id /\ new.status = "done" THEN 1 ELSE 0)
         /\ UNCHANGED <<jobs, human, shared, crashes>>
<1> DEFINE old == worker[w].copy[id]
<1>1. id \in Id /\ old \in Job /\ worker[w] \in Drain
  BY Numbers
<1>2. Succeeded(old).status = "done" /\ Failed(old).status # "done"
  BY <1>1 DEF Succeeded, Failed, Job
<1>3. PICK new \in {Succeeded(old), Failed(old)} :
        /\ Becomes(w, id, new)
        /\ \/ new.status = "done" /\ accepted' = Count(accepted, id) /\ UNCHANGED lost
           \/ new.status # "done" /\ UNCHANGED <<accepted, lost>>
           \/ new.status # "done" /\ accepted' = Count(accepted, id) /\ lost' = Count(lost, id)
  BY <1>2 DEF Attempt
<1>4. /\ worker'[w] = [worker[w] EXCEPT !.pc = "save", !.copy[id] = new]
      /\ \A v \in Worker \ {w} : worker'[v] = worker[v]
  BY <1>3 DEF Becomes, Inv, TypeOK
<1>5. /\ worker'[w].pc = "save" /\ worker'[w].batch = worker[w].batch
      /\ worker'[w].copy = [worker[w].copy EXCEPT ![id] = new]
  BY <1>1, <1>4 DEF Drain
<1>6. worker'[w].copy[id] = new /\ \A d \in Id \ {id} : worker'[w].copy[d] = worker[w].copy[d]
  BY <1>1, <1>5 DEF Drain
<1>7. \A d \in Id : called'[d] = called[d] + (IF d = id THEN 1 ELSE 0)
  BY <1>1 DEF Attempt, Count, Inv, TypeOK
<1>8. /\ accepted \in [Id -> Nat] /\ lost \in [Id -> Nat]
      /\ accepted' \in {accepted, Count(accepted, id)} /\ lost' \in {lost, Count(lost, id)}
  BY <1>3 DEF Inv, TypeOK
<1>9. ASSUME NEW d \in Id
      PROVE  /\ d # id => accepted'[d] = accepted[d] /\ lost'[d] = lost[d]
             /\ lost'[d] \in Nat /\ accepted'[d] \in Nat
             /\ accepted'[d] + lost[d] = accepted[d] + lost'[d] + (IF d = id /\ new.status = "done" THEN 1 ELSE 0)
  <2>1. accepted[d] \in Nat /\ lost[d] \in Nat
    BY <1>8
  <2>2. /\ Count(accepted, id)[d] = accepted[d] + (IF d = id THEN 1 ELSE 0)
        /\ Count(lost, id)[d] = lost[d] + (IF d = id THEN 1 ELSE 0)
    BY <1>1, <1>8 DEF Count
  <2> QED
    BY <1>3, <2>1, <2>2
<1> QED
  BY <1>3, <1>4, <1>5, <1>6, <1>7, <1>9 DEF Attempt

LEMMA SaveJobFrame ==
  ASSUME Inv, NEW w \in Worker, NEW id \in worker[w].batch, SaveJob(w, id)
  PROVE  /\ worker[w].pc = "save" /\ First(w, id)
         /\ jobs'[id] = worker[w].copy[id] /\ DOMAIN jobs' = DOMAIN jobs
         /\ \A d \in DOMAIN jobs \ {id} : jobs'[d] = jobs[d]
         /\ worker'[w].pc # "save" /\ worker'[w].batch = worker[w].batch \ {id}
         /\ \A d \in Id \ {id} : worker'[w].copy[d] = worker[w].copy[d]
         /\ \A v \in Worker \ {w} : worker'[v] = worker[v]
         /\ UNCHANGED <<human, shared, called, accepted, lost, crashes>>
<1>1. id \in Id /\ id \in DOMAIN jobs /\ worker[w].copy[id] \in Job /\ worker[w] \in Drain
  BY Numbers
<1>2. /\ jobs'[id] = worker[w].copy[id] /\ DOMAIN jobs' = DOMAIN jobs
      /\ \A d \in DOMAIN jobs \ {id} : jobs'[d] = jobs[d]
  BY <1>1, RowWritten DEF SaveJob, Inv
<1>3. worker'[w] = [pc |-> IF worker[w].batch = {id} THEN "idle" ELSE "call",
                    batch |-> worker[w].batch \ {id},
                    copy |-> [worker[w].copy EXCEPT ![id] = NoJob]]
  BY <1>1 DEF SaveJob, DropCopy, Inv, TypeOK, Drain
<1>4. \A d \in Id \ {id} : worker'[w].copy[d] = worker[w].copy[d]
  BY <1>1, <1>3 DEF Drain
<1>5. \A v \in Worker \ {w} : worker'[v] = worker[v]
  BY DEF SaveJob, DropCopy, Inv, TypeOK
<1> QED
  BY <1>2, <1>3, <1>4, <1>5 DEF SaveJob, ghosts

LEMMA StartDrainFrame ==
  ASSUME Inv, NEW w \in Worker, StartDrain(w)
  PROVE  /\ worker[w].pc = "idle" /\ worker'[w].pc = "call" /\ worker'[w].batch = Oldest
         /\ \A d \in Oldest : d \in DOMAIN jobs /\ Open(jobs[d]) /\ worker'[w].copy[d] = jobs[d]
         /\ \A v \in Worker \ {w} : worker'[v] = worker[v]
         /\ shared' = shared \cup {id \in Oldest : \E v \in Worker \ {w} : id \in worker[v].batch}
         /\ UNCHANGED <<jobs, human, called, accepted, lost, crashes>>
<1>1. Oldest \subseteq Id /\ \A d \in Oldest : d \in DOMAIN jobs /\ Open(jobs[d])
  BY Numbers DEF Oldest, Due, Open
<1> QED
  BY <1>1 DEF StartDrain, Inv, TypeOK

LEMMA CrashFrame ==
  ASSUME Inv, NEW w \in Worker, Crash(w)
  PROVE  /\ worker'[w].pc = "idle" /\ worker'[w].batch = {} /\ \A v \in Worker \ {w} : worker'[v] = worker[v]
         /\ crashes' = crashes + 1 /\ UNCHANGED <<jobs, human, shared, called, accepted, lost>>
BY DEF Crash, NoDrain, ghosts, Inv, TypeOK

\* A cancel writes a job that is no longer open, with the key of its row.
LEMMA CancelSaveFrame ==
  ASSUME Inv, NEW h \in Human, CancelSave(h)
  PROVE  /\ human[h].id \in DOMAIN jobs /\ DOMAIN jobs' = DOMAIN jobs
         /\ jobs'[human[h].id].status = "cancelled" /\ jobs'[human[h].id].key = human[h].job.key
         /\ \A d \in DOMAIN jobs \ {human[h].id} : jobs'[d] = jobs[d]
         /\ human'[h].id = 0 /\ \A g \in Human \ {h} : human'[g] = human[g]
         /\ UNCHANGED <<worker, shared, called, accepted, lost, crashes>>
<1> DEFINE new == [human[h].job EXCEPT !.status = "cancelled", !.wait = 0]
<1>1. human[h].id \in DOMAIN jobs /\ human[h].job \in Job
  BY Numbers DEF CancelSave
<1>2. new \in Job /\ new.status = "cancelled" /\ new.key = human[h].job.key
  <2>1. "cancelled" \in JobStatus /\ 0 \in Int
    BY DEF JobStatus
  <2> QED
    BY <1>1, <2>1 DEF Job
<1>3. jobs' = [jobs EXCEPT ![human[h].id] = new]
  BY DEF CancelSave
<1> HIDE DEF new
<1>4. /\ DOMAIN jobs' = DOMAIN jobs /\ jobs'[human[h].id] = new
      /\ \A d \in DOMAIN jobs \ {human[h].id} : jobs'[d] = jobs[d]
  BY <1>1, <1>2, <1>3, RowWritten DEF Inv
<1>5. human'[h].id = 0 /\ \A g \in Human \ {h} : human'[g] = human[g]
  BY DEF CancelSave, NoCancel, Inv, TypeOK
<1> QED
  BY <1>1, <1>2, <1>4, <1>5 DEF CancelSave, ghosts

LEMMA TickFrame ==
  ASSUME Inv, Tick
  PROVE  /\ DOMAIN jobs' = DOMAIN jobs
         /\ \A d \in DOMAIN jobs : /\ jobs'[d].status = jobs[d].status /\ jobs'[d].key = jobs[d].key
                                  /\ jobs'[d].attempts = jobs[d].attempts
         /\ UNCHANGED <<worker, human, shared, called, accepted, lost, crashes>>
BY Numbers DEF Tick, ghosts, Job

LEMMA EnqueueFrame ==
  ASSUME Inv, NEW k \in Key \cup {NoKey}, Enqueue(k)
  PROVE  /\ \/ UNCHANGED jobs
            \/ /\ WithKey(k) = {} /\ DOMAIN jobs' = DOMAIN jobs \cup {Len(jobs) + 1}
               /\ Len(jobs) + 1 \notin DOMAIN jobs /\ Len(jobs) + 1 \in Id
               /\ jobs'[Len(jobs) + 1] = NewJob(k) /\ \A d \in DOMAIN jobs : jobs'[d] = jobs[d]
         /\ UNCHANGED <<worker, human, shared, called, accepted, lost, crashes>>
<1>1. CASE WithKey(k) = {} /\ Len(jobs) < MaxJobs /\ jobs' = Append(jobs, NewJob(k))
  BY <1>1, Numbers, QueueAssumption DEF Enqueue, ghosts, Id
<1> QED
  BY <1>1 DEF Enqueue, ghosts

-----------------------------------------------------------------------------
\* Rows keep their keys and copies the keys of their rows.
LEMMA KeysKept ==
  ASSUME Inv, KeysInv,
         \A d \in DOMAIN jobs : d \in DOMAIN jobs' /\ jobs'[d].key = jobs[d].key,
         \A i, j \in DOMAIN jobs' : jobs'[i].key # NoKey /\ jobs'[i].key = jobs'[j].key => i = j,
         \A w \in Worker : \A d \in worker'[w].batch : d \in DOMAIN jobs /\ worker'[w].copy[d].key = jobs[d].key,
         \A h \in Human : human'[h].id # 0 =>
           human'[h].id \in DOMAIN jobs /\ human'[h].job.key = jobs[human'[h].id].key
  PROVE  KeysInv'
BY DEF KeysInv, OneJobPerKey

LEMMA KeysStep == Inv /\ KeysInv /\ [Next]_vars => KeysInv'
<1> SUFFICES ASSUME Inv, KeysInv, [Next]_vars PROVE KeysInv'
  OBVIOUS
<1>0. /\ \A i, j \in DOMAIN jobs : jobs[i].key # NoKey /\ jobs[i].key = jobs[j].key => i = j
      /\ \A w \in Worker : \A d \in worker[w].batch : /\ d \in DOMAIN jobs /\ d \in Id
                                                    /\ worker[w].copy[d].key = jobs[d].key
      /\ \A h \in Human : human[h].id # 0 => human[h].id \in DOMAIN jobs /\ human[h].job.key = jobs[human[h].id].key
  BY Numbers DEF KeysInv, OneJobPerKey
<1>1. ASSUME NEW k \in Key \cup {NoKey}, Enqueue(k) PROVE KeysInv'
  <2>1. UNCHANGED <<worker, human>>
    BY <1>1, EnqueueFrame
  <2>2. CASE UNCHANGED jobs
    BY <1>0, <2>1, <2>2, KeysKept
  <2>3. CASE ~UNCHANGED jobs
    <3> DEFINE n == Len(jobs) + 1
    <3>1. /\ WithKey(k) = {} /\ DOMAIN jobs' = DOMAIN jobs \cup {n}
          /\ jobs'[n] = NewJob(k) /\ \A d \in DOMAIN jobs : jobs'[d] = jobs[d]
      BY <1>1, <2>3, EnqueueFrame
    <3> HIDE DEF n
    <3>2. jobs'[n].key = k /\ \A d \in DOMAIN jobs : k # NoKey => jobs'[d].key # k
      BY <3>1 DEF NewJob, WithKey
    <3>3. \A i, j \in DOMAIN jobs' : jobs'[i].key # NoKey /\ jobs'[i].key = jobs'[j].key => i = j
      BY <1>0, <3>1, <3>2
    <3> QED
      BY <1>0, <2>1, <3>1, <3>3, KeysKept
  <2> QED
    BY <2>2, <2>3
<1>2. ASSUME NEW w \in Worker, StartDrain(w) PROVE KeysInv'
  <2>1. /\ UNCHANGED <<jobs, human>>
        /\ \A v \in Worker : \A d \in worker'[v].batch : d \in DOMAIN jobs /\ worker'[v].copy[d].key = jobs[d].key
    BY <1>0, <1>2, StartDrainFrame
  <2> QED
    BY <1>0, <2>1, KeysKept
<1>3. ASSUME NEW w \in Worker, NEW id \in worker[w].batch, Attempt(w, id) PROVE KeysInv'
  <2>1. worker[w].copy[id] \in Job
    BY <1>0, Numbers
  <2>2. Succeeded(worker[w].copy[id]).key = worker[w].copy[id].key /\ Failed(worker[w].copy[id]).key = worker[w].copy[id].key
    BY <2>1 DEF Succeeded, Failed, Job
  <2>3. /\ UNCHANGED <<jobs, human>>
        /\ \A v \in Worker : \A d \in worker'[v].batch : d \in DOMAIN jobs /\ worker'[v].copy[d].key = jobs[d].key
    BY <1>0, <1>3, <2>2, AttemptFrame
  <2> QED
    BY <1>0, <2>3, KeysKept
<1>4. ASSUME NEW w \in Worker, NEW id \in worker[w].batch, SaveJob(w, id) PROVE KeysInv'
  <2>1. /\ UNCHANGED human /\ DOMAIN jobs' = DOMAIN jobs /\ \A d \in DOMAIN jobs : jobs'[d].key = jobs[d].key
        /\ \A v \in Worker : \A d \in worker'[v].batch : d \in DOMAIN jobs /\ worker'[v].copy[d].key = jobs[d].key
    BY <1>0, <1>4, SaveJobFrame
  <2> QED
    BY <1>0, <2>1, KeysKept
<1>5. ASSUME NEW w \in Worker, Crash(w) PROVE KeysInv'
  <2>1. /\ UNCHANGED <<jobs, human>>
        /\ \A v \in Worker : \A d \in worker'[v].batch : d \in DOMAIN jobs /\ worker'[v].copy[d].key = jobs[d].key
    BY <1>0, <1>5, CrashFrame
  <2> QED
    BY <1>0, <2>1, KeysKept
<1>6. ASSUME NEW h \in Human, CancelRead(h) PROVE KeysInv'
  <2>1. /\ UNCHANGED <<jobs, worker>>
        /\ \A g \in Human : human'[g].id # 0 => human'[g].id \in DOMAIN jobs /\ human'[g].job.key = jobs[human'[g].id].key
    BY <1>0, <1>6 DEF CancelRead, Inv, TypeOK
  <2> QED
    BY <1>0, <2>1, KeysKept
<1>7. ASSUME NEW h \in Human, CancelSave(h) PROVE KeysInv'
  <2>1. /\ UNCHANGED worker /\ DOMAIN jobs' = DOMAIN jobs /\ \A d \in DOMAIN jobs : jobs'[d].key = jobs[d].key
        /\ \A g \in Human : human'[g].id # 0 => human'[g] = human[g]
    <3>1. human[h].id # 0 /\ human[h].job.key = jobs[human[h].id].key
      BY <1>0, <1>7 DEF CancelSave
    <3> QED
      BY <1>7, <3>1, CancelSaveFrame
  <2> QED
    BY <1>0, <2>1, KeysKept
<1>8. CASE Tick
  BY <1>0, <1>8, TickFrame, KeysKept
<1>9. CASE UNCHANGED vars
  BY <1>9 DEF vars, KeysInv, OneJobPerKey
<1> QED
  BY <1>1, <1>2, <1>3, <1>4, <1>5, <1>6, <1>7, <1>8, <1>9 DEF Next, Work, IdleRound

\* Done is only what was accepted, and an idempotency key has one job.
THEOREM HonestJobs == Spec => []JobsAreHonest
<1>1. Init => KeysInv
  BY DEF Init, KeysInv, OneJobPerKey, NoDrain, NoCancel
<1>2. DoneWasAccepted /\ KeysInv => JobsAreHonest
  BY DEF JobsAreHonest, KeysInv
<1> QED
  BY <1>1, <1>2, KeysStep, QueueInvariant, NoFalseEnd, PTL DEF Spec

-----------------------------------------------------------------------------
\* Calls: of a batch the first is tried, and it is one.
LEMMA FirstIsOne ==
  ASSUME Inv, NEW w \in Worker, NEW i \in Id, NEW j \in Id, First(w, i), First(w, j)
  PROVE  i = j
BY Numbers DEF First

LEMMA UnsavedIsCount == \A id : Unsaved(id) \in {0, 1}
BY DEF Unsaved

\* A step that moves no drain, counts nothing and opens no job again.
LEMMA QuietSingles ==
  ASSUME Inv, SinglesInv, UNCHANGED <<worker, shared, called, accepted, lost, crashes>>,
         \A d \in DOMAIN jobs : d \in DOMAIN jobs',
         \A d \in DOMAIN jobs' : Open(jobs'[d]) =>
           IF d \in DOMAIN jobs THEN Open(jobs[d]) /\ jobs'[d].attempts = jobs[d].attempts
                               ELSE jobs'[d].attempts = 0
  PROVE  SinglesInv'
<1> SUFFICES ASSUME NEW id \in Id \ shared PROVE SingleInv(id)'
  BY DEF SinglesInv
<1>1. SingleInv(id)
  BY DEF SinglesInv
<1>2. UNCHANGED Unsaved(id)
  BY DEF Unsaved, Tried, First
<1>3. ASSUME NEW w \in Worker, id \in worker'[w].batch PROVE HeldInv(w, id)'
  BY <1>1, <1>3 DEF SingleInv, HeldInv, Accounted, Tried, First
<1>4. ASSUME id \in DOMAIN jobs' PROVE Accounted(id, jobs[id], Unsaved(id))'
  BY <1>1, <1>2, <1>4, UnsavedIsCount, Numbers DEF SingleInv, Accounted
<1> QED
  BY <1>1, <1>3, <1>4 DEF SingleInv

LEMMA StartDrainSingles ==
  ASSUME Inv, SinglesInv, NEW w \in Worker, StartDrain(w)
  PROVE  SinglesInv'
<1> SUFFICES ASSUME NEW id \in Id \ shared' PROVE SingleInv(id)'
  BY DEF SinglesInv
<1>1. id \notin shared /\ SingleInv(id)
  BY StartDrainFrame DEF SinglesInv
<1>2. UNCHANGED <<jobs, called, accepted, lost, crashes>> /\ \A v \in Worker \ {w} : worker'[v] = worker[v]
  BY StartDrainFrame
<1>3. ~Tried(w, id) /\ ~Tried(w, id)'
  BY StartDrainFrame DEF Tried
<1>4. \A v \in Worker \ {w} : Tried(v, id)' <=> Tried(v, id)
  BY <1>2 DEF Tried, First
<1>5. UNCHANGED Unsaved(id)
  BY <1>3, <1>4 DEF Unsaved
<1>6. ASSUME id \in Oldest
      PROVE  (\A v \in Worker \ {w} : id \notin worker[v].batch) /\ Unsaved(id) = 0 /\ id \in DOMAIN jobs
             /\ Open(jobs[id]) /\ worker'[w].copy[id] = jobs[id]
  <2>1. \A v \in Worker \ {w} : id \notin worker[v].batch
    BY <1>6, StartDrainFrame
  <2>2. \A v \in Worker : ~Tried(v, id)
    BY <1>3, <2>1 DEF Tried, First
  <2> QED
    BY <1>6, <2>1, <2>2, StartDrainFrame DEF Unsaved
<1>7. ASSUME NEW v \in Worker, id \in worker'[v].batch PROVE HeldInv(v, id)'
  <2>1. CASE v = w
    <3>1. id \in Oldest
      BY <1>7, <2>1, StartDrainFrame
    <3>2. Accounted(id, jobs[id], 0)
      BY <1>1, <1>6, <3>1 DEF SingleInv
    <3>3. Accounted(id, worker[w].copy[id], 0)' /\ Open(worker'[w].copy[id])
      BY <1>2, <1>6, <3>1, <3>2 DEF Accounted
    <3>4. \A u \in Worker : id \in worker'[u].batch => u = w
      BY <1>2, <1>6, <3>1
    <3> QED
      BY <2>1, <3>3, <3>4 DEF HeldInv, Open
  <2>2. CASE v # w
    <3>1. id \in worker[v].batch /\ HeldInv(v, id) /\ worker'[v] = worker[v]
      BY <1>1, <1>2, <1>7, <2>2 DEF SingleInv
    <3>2. id \notin Oldest
      BY <1>6, <2>2, <3>1
    <3>3. \A u \in Worker : id \in worker'[u].batch => u = v
      BY <1>2, <3>1, <3>2, StartDrainFrame DEF HeldInv
    <3>4. Accounted(id, worker[v].copy[id], 0)' /\ (~Tried(v, id)' => Open(worker[v].copy[id])')
      BY <1>2, <1>4, <2>2, <3>1 DEF HeldInv, Accounted, Open
    <3> QED
      BY <3>3, <3>4 DEF HeldInv
  <2> QED
    BY <2>1, <2>2
<1>8. id \in DOMAIN jobs' => Accounted(id, jobs[id], Unsaved(id))'
  BY <1>1, <1>2, <1>5 DEF SingleInv, Accounted, Open
<1> QED
  BY <1>1, <1>2, <1>7, <1>8 DEF SingleInv

LEMMA AttemptSingles ==
  ASSUME Inv, SinglesInv, NEW w \in Worker, NEW id \in worker[w].batch, Attempt(w, id)
  PROVE  SinglesInv'
<1> DEFINE old == worker[w].copy[id]
           new == worker'[w].copy[id]
<1>0. /\ worker[w].pc = "call" /\ First(w, id) /\ worker'[w].pc = "save" /\ worker'[w].batch = worker[w].batch
      /\ UNCHANGED <<jobs, shared, crashes>> /\ \A v \in Worker \ {w} : worker'[v] = worker[v]
      /\ \A d \in Id \ {id} : worker'[w].copy[d] = worker[w].copy[d]
      /\ id \in Id /\ id \in DOMAIN jobs /\ old \in Job /\ old.attempts \in Nat
  BY AttemptFrame, Numbers
<1>1. First(w, id)' /\ \A d : First(w, d)' <=> First(w, d)
  BY <1>0 DEF First
<1>2. \A d \in Id : Tried(w, d)' <=> d = id
  BY <1>0, <1>1, FirstIsOne DEF Tried
<1>3. \A d \in Id : ~Tried(w, d)
  BY <1>0 DEF Tried
<1>4. \A v \in Worker \ {w} : \A d \in Id : Tried(v, d)' <=> Tried(v, d)
  BY <1>0 DEF Tried, First
<1>5. ASSUME NEW d \in Id \ shared, d # id PROVE SingleInv(d)'
  <2>1. SingleInv(d) /\ called'[d] = called[d] /\ accepted'[d] = accepted[d] /\ lost'[d] = lost[d]
    BY <1>5, AttemptFrame, Numbers DEF SinglesInv
  <2>2. UNCHANGED Unsaved(d)
    BY <1>2, <1>3, <1>4, <1>5 DEF Unsaved
  <2>3. ASSUME NEW v \in Worker, d \in worker'[v].batch PROVE HeldInv(v, d)'
    <3>1. /\ \A u \in Worker : worker'[u].batch = worker[u].batch
          /\ worker'[v].copy[d] = worker[v].copy[d] /\ (Tried(v, d)' <=> Tried(v, d))
      BY <1>0, <1>2, <1>3, <1>4, <1>5
    <3>2. HeldInv(v, d)
      BY <2>1, <2>3, <3>1 DEF SingleInv
    <3> QED
      BY <1>0, <2>1, <3>1, <3>2 DEF HeldInv, Accounted, Open
  <2>4. d \in DOMAIN jobs' => Accounted(d, jobs[d], Unsaved(d))'
    BY <1>0, <2>1, <2>2 DEF SingleInv, Accounted, Open
  <2> QED
    BY <1>0, <2>1, <2>3, <2>4 DEF SingleInv
<1>6. ASSUME id \notin shared PROVE SingleInv(id)'
  <2>1. SingleInv(id) /\ HeldInv(w, id)
    BY <1>0, <1>6 DEF SinglesInv, SingleInv
  <2>2. /\ Open(old) /\ old.attempts < MaxAttempts
        /\ called[id] <= old.attempts + crashes /\ accepted[id] <= crashes + lost[id]
    BY <1>0, <1>3, <2>1, Numbers DEF HeldInv, Accounted
  <2>3. /\ called'[id] = called[id] + 1
        /\ accepted'[id] + lost[id] = accepted[id] + lost'[id] + (IF new.status = "done" THEN 1 ELSE 0)
        /\ lost[id] \in Nat /\ lost'[id] \in Nat /\ accepted'[id] \in Nat
        /\ called[id] \in Nat /\ accepted[id] \in Nat /\ crashes \in Nat /\ MaxAttempts \in Nat
    BY <1>0, AttemptFrame, Numbers
  <2>4. called'[id] <= MaxAttempts + crashes /\ accepted'[id] <= 1 + crashes + lost'[id]
    BY <1>0, <2>2, <2>3
  <2>5. /\ Open(new) => new.attempts < MaxAttempts /\ new.status # "done"
        /\ new.attempts = old.attempts + 1
    <3>1. new \in {Succeeded(old), Failed(old)}
      BY AttemptFrame
    <3>2. Succeeded(old).attempts = old.attempts + 1 /\ ~Open(Succeeded(old))
      BY <1>0 DEF Succeeded, Open, Job
    <3>3. /\ Failed(old).attempts = old.attempts + 1 /\ Failed(old).status # "done"
          /\ Open(Failed(old)) => ~(old.attempts + 1 >= MaxAttempts)
      BY <1>0 DEF Failed, Exhausted, Open, Job
    <3> QED
      BY <1>0, <2>3, <3>1, <3>2, <3>3
  <2>6. Accounted(id, worker[w].copy[id], 0)'
    BY <1>0, <2>2, <2>3, <2>5 DEF Accounted, Open
  <2>7. \A v \in Worker : id \in worker'[v].batch => v = w
    BY <1>0, <2>1 DEF HeldInv
  <2>8. Unsaved(id)' = 1
    BY <1>0, <1>2 DEF Unsaved
  <2>9. Unsaved(id) = 0
    <3>1. \A v \in Worker : ~Tried(v, id)
      BY <1>3, <1>0, <2>1 DEF Tried, First, HeldInv
    <3> QED
      BY <3>1 DEF Unsaved
  <2>10. Accounted(id, jobs[id], 1)'
    <3>1. id \in DOMAIN jobs /\ jobs[id].attempts \in Nat /\ UNCHANGED <<jobs, crashes>>
      BY <1>0, Numbers
    <3>2. Accounted(id, jobs[id], 0)
      BY <2>1, <2>9, <3>1 DEF SingleInv
    <3>3. Open(jobs[id]) => /\ jobs[id].attempts < MaxAttempts
                            /\ called'[id] <= jobs[id].attempts + crashes + 1 /\ accepted'[id] <= crashes + 1 + lost'[id]
      BY <2>3, <3>1, <3>2 DEF Accounted
    <3> QED
      BY <3>1, <3>3 DEF Accounted, Open
  <2>11. \A v \in Worker : id \in worker'[v].batch => HeldInv(v, id)'
    BY <1>0, <1>2, <2>6, <2>7 DEF HeldInv
  <2> QED
    BY <1>0, <2>4, <2>8, <2>10, <2>11 DEF SingleInv, Accounted
<1> QED
  BY <1>0, <1>5, <1>6 DEF SinglesInv

LEMMA SaveJobSingles ==
  ASSUME Inv, SinglesInv, NEW w \in Worker, NEW id \in worker[w].batch, SaveJob(w, id)
  PROVE  SinglesInv'
<1>0. /\ worker[w].pc = "save" /\ First(w, id) /\ worker'[w].pc # "save"
      /\ worker'[w].batch = worker[w].batch \ {id} /\ DOMAIN jobs' = DOMAIN jobs
      /\ jobs'[id] = worker[w].copy[id] /\ \A d \in DOMAIN jobs \ {id} : jobs'[d] = jobs[d]
      /\ UNCHANGED <<shared, called, accepted, lost, crashes>> /\ \A v \in Worker \ {w} : worker'[v] = worker[v]
      /\ \A d \in Id \ {id} : worker'[w].copy[d] = worker[w].copy[d]
      /\ id \in Id /\ id \in DOMAIN jobs
  BY SaveJobFrame, Numbers
<1>1. \A d \in Id : (Tried(w, d) <=> d = id) /\ ~Tried(w, d)'
  BY <1>0, FirstIsOne DEF Tried
<1>2. \A v \in Worker \ {w} : \A d \in Id : Tried(v, d)' <=> Tried(v, d)
  BY <1>0 DEF Tried, First
<1>3. ASSUME NEW d \in Id \ shared, d # id PROVE SingleInv(d)'
  <2>1. SingleInv(d)
    BY <1>3 DEF SinglesInv
  <2>2. UNCHANGED Unsaved(d)
    BY <1>1, <1>2, <1>3 DEF Unsaved
  <2>3. ASSUME NEW v \in Worker, d \in worker'[v].batch PROVE HeldInv(v, d)'
    <3>1. /\ \A u \in Worker : d \in worker'[u].batch => d \in worker[u].batch
          /\ worker'[v].copy[d] = worker[v].copy[d] /\ (Tried(v, d)' <=> Tried(v, d))
      BY <1>0, <1>1, <1>2, <1>3
    <3>2. HeldInv(v, d)
      BY <2>1, <2>3, <3>1 DEF SingleInv
    <3> QED
      BY <1>0, <3>1, <3>2 DEF HeldInv, Accounted, Open
  <2>4. d \in DOMAIN jobs' => Accounted(d, jobs[d], Unsaved(d))'
    BY <1>0, <1>3, <2>1, <2>2 DEF SingleInv, Accounted, Open
  <2> QED
    BY <1>0, <2>1, <2>3, <2>4 DEF SingleInv
<1>4. ASSUME id \notin shared PROVE SingleInv(id)'
  <2>1. SingleInv(id) /\ HeldInv(w, id)
    BY <1>0, <1>4 DEF SinglesInv, SingleInv
  <2>2. \A v \in Worker : id \notin worker'[v].batch
    BY <1>0, <2>1 DEF HeldInv
  <2>3. Unsaved(id)' = 0
    BY <2>2 DEF Unsaved, Tried, First
  <2>4. Accounted(id, jobs[id], 0)'
    BY <1>0, <2>1 DEF HeldInv, Accounted, Open
  <2> QED
    BY <1>0, <2>1, <2>2, <2>3, <2>4 DEF SingleInv, Accounted
<1> QED
  BY <1>0, <1>3, <1>4 DEF SinglesInv

LEMMA CrashSingles ==
  ASSUME Inv, SinglesInv, NEW w \in Worker, Crash(w)
  PROVE  SinglesInv'
<1>0. /\ worker'[w].pc = "idle" /\ worker'[w].batch = {} /\ \A v \in Worker \ {w} : worker'[v] = worker[v]
      /\ crashes' = crashes + 1 /\ crashes \in Nat /\ UNCHANGED <<jobs, shared, called, accepted, lost>>
  BY CrashFrame, Numbers
<1> SUFFICES ASSUME NEW id \in Id \ shared PROVE SingleInv(id)'
  BY <1>0 DEF SinglesInv
<1>1. SingleInv(id) /\ called[id] \in Nat /\ accepted[id] \in Nat /\ lost[id] \in Nat /\ MaxAttempts \in Nat
  BY Numbers DEF SinglesInv
<1>2. Unsaved(id) <= 1 /\ Unsaved(id) \in Nat /\ Unsaved(id)' \in Nat
  BY DEF Unsaved
<1>3. ASSUME NEW v \in Worker, id \in worker'[v].batch PROVE HeldInv(v, id)'
  <2>1. v # w /\ HeldInv(v, id) /\ worker'[v] = worker[v] /\ worker[v].copy[id].attempts \in Nat
    BY <1>0, <1>1, <1>3, Numbers DEF SingleInv
  <2>2. \A u \in Worker : id \in worker'[u].batch => u = v
    BY <1>0, <2>1 DEF HeldInv
  <2>3. Accounted(id, worker[v].copy[id], 0)'
    BY <1>0, <1>1, <2>1 DEF HeldInv, Accounted, Open
  <2> QED
    BY <2>1, <2>2, <2>3 DEF HeldInv, Tried, First, Open
<1>4. ASSUME id \in DOMAIN jobs' PROVE Accounted(id, jobs[id], Unsaved(id))'
  <2>1. Accounted(id, jobs[id], Unsaved(id)) /\ jobs[id].attempts \in Nat
    BY <1>0, <1>1, <1>4, Numbers DEF SingleInv
  <2> QED
    BY <1>0, <1>1, <1>2, <2>1 DEF Accounted, Open
<1> QED
  BY <1>0, <1>1, <1>3, <1>4 DEF SingleInv

LEMMA SinglesStep == Inv /\ SinglesInv /\ [Next]_vars => SinglesInv'
<1> SUFFICES ASSUME Inv, SinglesInv, [Next]_vars PROVE SinglesInv'
  OBVIOUS
<1>1. ASSUME NEW k \in Key \cup {NoKey}, Enqueue(k) PROVE SinglesInv'
  <2>1. NewJob(k).attempts = 0
    BY DEF NewJob
  <2> QED
    BY <1>1, <2>1, EnqueueFrame, QuietSingles
<1>2. ASSUME NEW h \in Human, CancelRead(h) PROVE SinglesInv'
  <2>1. UNCHANGED <<jobs, worker, shared, called, accepted, lost, crashes>>
    BY <1>2 DEF CancelRead, ghosts
  <2> QED
    BY <2>1, QuietSingles
<1>3. ASSUME NEW h \in Human, CancelSave(h) PROVE SinglesInv'
  <2>1. \A d \in DOMAIN jobs' : Open(jobs'[d]) => d \in DOMAIN jobs /\ jobs'[d] = jobs[d]
    BY <1>3, CancelSaveFrame DEF Open
  <2> QED
    BY <1>3, <2>1, CancelSaveFrame, QuietSingles
<1>4. CASE Tick
  <2>1. \A d \in DOMAIN jobs' : Open(jobs'[d]) => d \in DOMAIN jobs /\ Open(jobs[d]) /\ jobs'[d].attempts = jobs[d].attempts
    BY <1>4, TickFrame DEF Open
  <2> QED
    BY <1>4, <2>1, TickFrame, QuietSingles
<1>5. CASE UNCHANGED vars
  <2>1. UNCHANGED <<jobs, worker, shared, called, accepted, lost, crashes>>
    BY <1>5 DEF vars
  <2> QED
    BY <2>1, QuietSingles
<1> QED
  BY <1>1, <1>2, <1>3, <1>4, <1>5, StartDrainSingles, AttemptSingles, SaveJobSingles, CrashSingles
  DEF Next, Work, IdleRound

\* A job drains did not share is called as often as it may, plus once per
\* crash, and done over there once, plus once per crash and lost answer.
THEOREM JobsAreCalledOnce == Spec => []CalledOnce
<1>1. Init => SinglesInv
  <2> SUFFICES ASSUME Init, NEW id \in Id PROVE SingleInv(id)
    BY DEF SinglesInv
  <2> QED
    BY QueueAssumption DEF Init, SingleInv, NoDrain
<1>2. SinglesInv => CalledOnce
  BY DEF SinglesInv, SingleInv, CalledOnce, CallsAreBounded, AcceptedOnceAlone
<1> QED
  BY <1>1, <1>2, SinglesStep, QueueInvariant, PTL DEF Spec
=============================================================================
