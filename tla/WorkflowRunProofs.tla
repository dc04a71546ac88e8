-------------------------- MODULE WorkflowRunProofs -------------------------
(***************************************************************************)
(* What holds of a run for any workflow, and any number of steps and of    *)
(* callers that overlap, cancel, resume and die: no step is worked on      *)
(* before those it depends on are done, the row tells the truth about its  *)
(* tasks, a run that ended well left nothing behind, and no step is tried  *)
(* or done more often than it may be.                                      *)
(***************************************************************************)
EXTENDS WorkflowRun, FiniteSetTheorems, TLAPS

-----------------------------------------------------------------------------
(* Types *)

LEMMA RunTypes ==
  /\ NewRun \in Run /\ NoRun \in Run /\ NoThread \in Thread /\ NoThreads \in [Step -> Thread]
  /\ Idle \in CallerState
BY DEF NewRun, NoRun, NoThread, NoThreads, Idle, Run, RunStatus, StepRunStatus, TaskStatus, Thread, CallerState, PC

\* A task that is made, comes to something, or is cancelled.
LEMMA TaskTypes ==
  /\ \A s \in Step : /\ NewTask(s) \in Task /\ NewTask(s).step = s
                     /\ NewTask(s).status = "open" /\ NewTask(s).result = "open"
  /\ \A task \in Task, o \in Result : /\ CameTo(task, o) \in Task /\ CameTo(task, o).step = task.step
                                      /\ CameTo(task, o).status = o /\ CameTo(task, o).result = o
  /\ \A task \in Task : LET new == [task EXCEPT !.status = "cancelled"] IN
       /\ new \in Task /\ new.step = task.step /\ new.status = "cancelled" /\ new.result = task.result
BY DEF NewTask, CameTo, Task, TaskStatus, Result

\* The tasks when one of them changes.
LEMMA TaskChanged ==
  ASSUME NEW ts \in Seq(Task), NEW us, NEW t, NEW new \in Task, us = [ts EXCEPT ![t] = new]
  PROVE  /\ us \in Seq(Task) /\ DOMAIN us = DOMAIN ts /\ (t \in DOMAIN ts => us[t] = new)
         /\ \A u \in DOMAIN ts \ {t} : us[u] = ts[u]
<1>1. us = [u \in DOMAIN ts |-> IF u = t THEN new ELSE ts[u]]
  OBVIOUS
<1>2. \A u \in DOMAIN ts : ts[u] \in Task
  OBVIOUS
<1>3. [u \in DOMAIN ts |-> IF u = t THEN new ELSE ts[u]] \in Seq(Task)
  BY <1>2
<1> QED
  BY <1>1, <1>3

\* The copies a caller makes of a run are runs.
LEMMA CopyTypes ==
  ASSUME NEW r \in Run
  PROVE  /\ Reopened(r) \in Run
         /\ \A status \in RunStatus : [r EXCEPT !.status = status] \in Run
         /\ \A level : SkipBlocked(r, level) \in Run
         /\ \A s : \A status \in StepRunStatus : Marked(r, s, status) \in Run
         /\ \A s : \A t \in Nat : [r EXCEPT !.task[s] = t] \in Run
         /\ EndStatus(r) \in RunStatus
<1>1. r \in [status : RunStatus, steps : [Step -> StepRunStatus], task : [Step -> Nat]]
  BY DEF Run
<1>2. Reopened(r) \in Run
  BY <1>1 DEF Reopened, Run, StepRunStatus
<1>3. \A level : SkipBlocked(r, level) \in Run
  BY <1>1 DEF SkipBlocked, Run, StepRunStatus
<1>4. \A s : \A status \in StepRunStatus : Marked(r, s, status) \in Run
  BY <1>1 DEF Marked, Run
<1>5. \A s : \A t \in Nat : [r EXCEPT !.task[s] = t] \in Run
  BY <1>1 DEF Run
<1>6. /\ \A status \in RunStatus : [r EXCEPT !.status = status] \in Run
      /\ EndStatus(r) \in RunStatus
  BY <1>1 DEF Run, EndStatus, RunStatus
<1> QED
  BY <1>2, <1>3, <1>4, <1>5, <1>6

\* Where a caller goes, the others stay.
LEMMA MoveTypes ==
  ASSUME TypeOK, NEW c \in Caller, NEW k \in CallerState, caller' = [caller EXCEPT ![c] = k]
  PROVE  /\ caller' \in [Caller -> CallerState]
         /\ caller'[c] = k /\ \A d \in Caller \ {c} : caller'[d] = caller[d]
BY DEF TypeOK

\* What caller c looks like when the thread of s is at th and the run at r.
Stood(k, s, r, th) == [k EXCEPT !.run = r, !.thread = [k.thread EXCEPT ![s] = th]]

LEMMA StandTypes ==
  ASSUME TypeOK, NEW c \in Caller, NEW s \in Step, NEW r \in Run, NEW th \in Thread, Stand(c, s, r, th)
  PROVE  /\ caller' \in [Caller -> CallerState]
         /\ Stood(caller[c], s, r, th) \in CallerState
         /\ caller' = [caller EXCEPT ![c] = Stood(caller[c], s, r, th)]
         /\ caller'[c] = Stood(caller[c], s, r, th)
         /\ \A d \in Caller \ {c} : caller'[d] = caller[d]
<1> DEFINE k == caller[c]
<1>1. k \in [pc : PC, run : Run, resolved : SUBSET Step, thread : [Step -> Thread], task : Nat]
  BY DEF TypeOK, CallerState
<1>2. Stood(k, s, r, th) \in CallerState
  BY <1>1 DEF Stood, CallerState
<1>3. caller' = [caller EXCEPT ![c] = Stood(k, s, r, th)]
  BY <1>1 DEF Stand, Stood, TypeOK
<1> HIDE DEF k
<1> QED
  BY <1>2, <1>3, MoveTypes DEF k

\* What changes when one thread takes a step.
LEMMA Standing ==
  ASSUME TypeOK, NEW c \in Caller, NEW s \in Step, NEW r \in Run, NEW th \in Thread, Stand(c, s, r, th)
  PROVE  /\ caller'[c].pc = caller[c].pc /\ caller'[c].resolved = caller[c].resolved
         /\ caller'[c].run = r /\ caller'[c].thread[s] = th
         /\ \A x \in Step \ {s} : caller'[c].thread[x] = caller[c].thread[x]
         /\ \A d \in Caller \ {c} : caller'[d] = caller[d]
<1>1. PICK k \in CallerState : k = caller[c]
  BY DEF TypeOK
<1>2. /\ caller'[c] = Stood(k, s, r, th) /\ \A d \in Caller \ {c} : caller'[d] = caller[d]
  BY <1>1, StandTypes
<1>3. k \in [pc : PC, run : Run, resolved : SUBSET Step, thread : [Step -> Thread], task : Nat]
  BY DEF CallerState
<1>4. /\ Stood(k, s, r, th).pc = k.pc /\ Stood(k, s, r, th).resolved = k.resolved
      /\ Stood(k, s, r, th).run = r /\ Stood(k, s, r, th).thread[s] = th
      /\ \A x \in Step \ {s} : Stood(k, s, r, th).thread[x] = k.thread[x]
  BY <1>3 DEF Stood
<1> QED
  BY <1>1, <1>2, <1>4

LEMMA InitTypes == Init => TypeOK
<1> SUFFICES ASSUME Init
             PROVE  TypeOK
  OBVIOUS
<1>1. wf \in Workflows /\ run \in Run /\ tasks \in Seq(Task) /\ calls \in Nat /\ crashes \in Nat
  BY RunTypes DEF Init
<1>2. caller \in [Caller -> CallerState]
  BY RunTypes DEF Init
<1>3. overlapped \in BOOLEAN
  BY DEF Init
<1> QED
  BY <1>1, <1>2, <1>3 DEF TypeOK

LEMMA CallTypes ==
  ASSUME TypeOK, NEW c \in Caller
  PROVE  /\ (Start(c) \/ Resume(c) \/ Cancel(c) \/ ResumeSave(c) \/ CancelSave(c) \/ Crash(c)) => TypeOK'
         /\ (\E s \in Step : CancelTask(c, s)) \/ CancelTaskSave(c) => TypeOK'
<1>1. caller[c] \in CallerState /\ caller[c].run \in Run /\ run \in Run
  BY DEF TypeOK, CallerState
<1>2. ASSUME NEW pc \in PC, NEW r \in Run, NewCall(c, pc, r), run' \in Run
      PROVE  TypeOK'
  <2>1. [Idle EXCEPT !.pc = pc, !.run = r] \in CallerState
    BY RunTypes DEF CallerState
  <2> QED
    BY <1>2, <2>1, MoveTypes DEF NewCall, TypeOK
<1>3. CASE Start(c)
  BY <1>2, <1>3, RunTypes DEF Start, Save, PC
<1>4. CASE Resume(c)
  BY <1>1, <1>2, <1>4, CopyTypes DEF Resume, PC
<1>5. CASE Cancel(c)
  BY <1>1, <1>2, <1>5 DEF Cancel, PC
<1>6. CASE ResumeSave(c)
  <2>1. [caller[c] EXCEPT !.pc = "begin"] \in CallerState
    BY <1>1 DEF CallerState, PC
  <2>2. caller' = [caller EXCEPT ![c] = [caller[c] EXCEPT !.pc = "begin"]]
    BY <1>6 DEF ResumeSave
  <2> QED
    BY <1>1, <1>6, <2>1, <2>2, MoveTypes DEF ResumeSave, Save, TypeOK
<1>7. CASE CancelSave(c)
  <2>1. caller' \in [Caller -> CallerState]
    BY <1>7, MoveTypes, RunTypes DEF CancelSave, Return
  <2>2. run' \in Run
    BY <1>1, <1>7 DEF CancelSave, Save, Run, RunStatus, StepRunStatus
  <2> QED
    BY <1>7, <2>1, <2>2 DEF CancelSave, TypeOK
<1>8. CASE Crash(c)
  BY <1>8, MoveTypes, RunTypes DEF Crash, Return, TypeOK
<1>9. ASSUME NEW s \in Step, CancelTask(c, s)
      PROVE  TypeOK'
  <2>1. PICK t \in Nat : caller' = [caller EXCEPT ![c].resolved = @ \cup {s}, ![c].task = t]
    <3> DEFINE t == caller[c].run.task[s]
               u == IF tasks[t].status \in {"open", "requires_approval"} THEN t ELSE 0
    <3>1. t \in Nat
      BY <1>1 DEF Run
    <3>2. caller' = [caller EXCEPT ![c].resolved = @ \cup {s}, ![c].task = u]
      BY <1>9 DEF CancelTask
    <3> HIDE DEF t
    <3>3. u \in Nat
      BY <3>1
    <3> QED
      BY <3>2, <3>3
  <2>2. PICK k \in CallerState : k = [caller[c] EXCEPT !.resolved = @ \cup {s}, !.task = t]
    BY <1>1 DEF CallerState
  <2>3. caller' = [caller EXCEPT ![c] = k]
    BY <2>1, <2>2
  <2> QED
    BY <1>9, <2>3, MoveTypes DEF CancelTask, TypeOK
<1>10. CASE CancelTaskSave(c)
  <2>1. PICK k \in CallerState : k = [caller[c] EXCEPT !.task = 0]
    BY <1>1 DEF CallerState
  <2>2. caller' = [caller EXCEPT ![c] = k]
    BY <1>10, <2>1 DEF CancelTaskSave
  <2>3. tasks \in Seq(Task)
    BY DEF TypeOK
  <2>4. CASE caller[c].task \in DOMAIN tasks
    <3>1. [tasks[caller[c].task] EXCEPT !.status = "cancelled"] \in Task
      BY <2>3, <2>4, TaskTypes
    <3>2. tasks' = [tasks EXCEPT ![caller[c].task] = [tasks[caller[c].task] EXCEPT !.status = "cancelled"]]
      BY <1>10 DEF CancelTaskSave
    <3>3. tasks' \in Seq(Task)
      BY <2>3, <3>1, <3>2, TaskChanged
    <3> QED
      BY <1>10, <2>2, <3>3, MoveTypes DEF CancelTaskSave, TypeOK
  <2>5. CASE caller[c].task \notin DOMAIN tasks
    <3>1. tasks' = tasks
      BY <1>10, <2>3, <2>5 DEF CancelTaskSave
    <3> QED
      BY <1>10, <2>2, <3>1, MoveTypes DEF CancelTaskSave, TypeOK
  <2> QED
    BY <2>4, <2>5
<1> QED
  BY <1>3, <1>4, <1>5, <1>6, <1>7, <1>8, <1>9, <1>10

\* Calls that walk through the levels.
LEMMA LevelTypes ==
  ASSUME TypeOK, NEW c \in Caller
  PROVE  (Begin(c) \/ EnterLevel(c) \/ PauseRun(c) \/ FailRun(c) \/ NextLevel(c) \/ FinishRun(c)) => TypeOK'
<1> DEFINE k == caller[c]
<1>1. k \in CallerState /\ k.run \in Run /\ run \in Run /\ k.resolved \in SUBSET Step /\ k.thread \in [Step -> Thread]
  BY DEF TypeOK, CallerState
<1>2. CASE Begin(c)
  <2> DEFINE r == [k.run EXCEPT !.status = "running"]
             new == [k EXCEPT !.pc = "enter", !.run = r, !.resolved = {}]
  <2>1. r \in Run
    BY <1>1, CopyTypes DEF RunStatus
  <2>2. new \in CallerState
    BY <1>1, <2>1 DEF CallerState, PC
  <2>3. caller' = [caller EXCEPT ![c] = new]
    BY <1>2 DEF Begin
  <2> QED
    BY <1>2, <2>1, <2>2, <2>3, MoveTypes DEF Begin, Save, TypeOK
<1>3. CASE EnterLevel(c)
  <2> DEFINE level == Level(k.resolved)
             r == SkipBlocked(k.run, level)
             pending == PendingIn(r, level)
             thread == [s \in Step |-> IF s \in pending THEN [NoThread EXCEPT !.pc = "queued", !.at = s] ELSE NoThread]
             new == [k EXCEPT !.run = r, !.pc = IF pending = {} THEN "enter" ELSE "level",
                              !.resolved = IF pending = {} THEN @ \cup level ELSE @, !.thread = thread]
  <2>1. r \in Run
    BY <1>1, CopyTypes
  <2>2. thread \in [Step -> Thread]
    BY DEF NoThread, Thread, StepRunStatus
  <2>3. level \in SUBSET Step
    BY DEF Level
  <2>4. caller' = [caller EXCEPT ![c] = new]
    BY <1>3 DEF EnterLevel
  <2> HIDE DEF thread, level, r, pending
  <2>5. new \in CallerState
    BY <1>1, <2>1, <2>2, <2>3 DEF CallerState, PC
  <2>6. run' \in Run
    BY <1>1, <1>3, <2>1 DEF EnterLevel, r, level
  <2> QED
    BY <1>3, <2>4, <2>5, <2>6, MoveTypes DEF EnterLevel, TypeOK
<1>4. CASE PauseRun(c) \/ FailRun(c) \/ FinishRun(c)
  <2>1. \A status \in RunStatus : [k.run EXCEPT !.status = status] \in Run
    BY <1>1, CopyTypes
  <2>2. EndStatus(k.run) \in RunStatus /\ "waiting" \in RunStatus /\ "failed" \in RunStatus
    BY <1>1, CopyTypes DEF RunStatus
  <2>3. run' \in Run
    BY <1>4, <2>1, <2>2 DEF PauseRun, FailRun, FinishRun, Save
  <2>4. caller' \in [Caller -> CallerState]
    BY <1>4, MoveTypes, RunTypes DEF PauseRun, FailRun, FinishRun, Return
  <2> QED
    BY <1>4, <2>3, <2>4 DEF PauseRun, FailRun, FinishRun, TypeOK
<1>5. CASE NextLevel(c)
  <2> DEFINE new == [k EXCEPT !.pc = "enter", !.resolved = @ \cup Level(@), !.thread = NoThreads]
  <2>1. new \in CallerState
    BY <1>1, RunTypes DEF CallerState, PC, Level
  <2>2. caller' = [caller EXCEPT ![c] = new]
    BY <1>5 DEF NextLevel
  <2> QED
    BY <1>5, <2>1, <2>2, MoveTypes DEF NextLevel, TypeOK
<1> QED
  BY <1>2, <1>3, <1>4, <1>5

\* The threads of a level, each of them at a step while it works.
LEMMA WorkTypes ==
  ASSUME TypeOK, NEW c \in Caller, NEW s \in Step, Work(c, s),
         caller[c].thread[s].pc \notin {"none", "done"} => caller[c].thread[s].at \in Step
  PROVE  TypeOK'
<1> DEFINE k == caller[c]
           th == k.thread[s]
<1>1. k \in CallerState /\ k.run \in Run /\ th \in Thread
  BY DEF TypeOK, CallerState
<1>2. th \in [pc : {"none", "queued", "start", "create", "run", "settle", "done"},
               at : Step \cup {NoStep}, attempt : Nat, task : Nat, outcome : StepRunStatus \cup TaskStatus]
  BY <1>1 DEF Thread
<1>3. ASSUME NEW r \in Run, NEW new \in Thread, Stand(c, s, r, new), run' \in Run, tasks' \in Seq(Task),
             UNCHANGED <<wf, calls, crashes, overlapped>>
      PROVE  TypeOK'
  BY <1>3, StandTypes DEF TypeOK
<1>4. ASSUME NEW r \in Run
      PROVE  [NoThread EXCEPT !.pc = "done", !.outcome = r.steps[s]] \in Thread
  BY <1>4 DEF NoThread, Thread, Run
<1>5. \A status \in StepRunStatus : Marked(k.run, th.at, status) \in Run
  BY <1>1, CopyTypes
<1>6. {"running", "skipped", "completed", "failed", "waiting"} \subseteq StepRunStatus
  BY DEF StepRunStatus
<1>7. CASE StartStep(c, s)
  <2>1. [th EXCEPT !.pc = "create", !.attempt = 1] \in Thread
    BY <1>2 DEF Thread
  <2>2. run \in Run /\ tasks \in Seq(Task)
    BY DEF TypeOK
  <2>3. Marked(k.run, th.at, "running") \in Run /\ Marked(k.run, th.at, "skipped") \in Run
    BY <1>5, <1>6
  <2> QED
    BY <1>3, <1>4, <1>7, <2>1, <2>2, <2>3 DEF StartStep, EndThread, Save
<1>8. CASE CreateTask(c, s)
  <2> DEFINE r == [k.run EXCEPT !.task[th.at] = Len(tasks) + 1]
  <2>1. Len(tasks) + 1 \in Nat /\ run \in Run
    BY DEF TypeOK
  <2>2. r \in Run
    BY <1>1, <2>1, CopyTypes
  <2>3. [th EXCEPT !.pc = "run", !.task = Len(tasks) + 1] \in Thread
    BY <1>2, <2>1 DEF Thread
  <2>4. th.at \in Step
    BY <1>8 DEF CreateTask, At
  <2>5. NewTask(th.at) \in Task
    BY <2>4, TaskTypes
  <2>6. tasks' \in Seq(Task)
    BY <1>8, <2>5 DEF CreateTask, TypeOK
  <2> QED
    BY <1>3, <1>8, <2>2, <2>3, <2>6 DEF CreateTask, Save
<1>9. CASE RunTask(c, s)
  <2>1. PICK o \in {"completed", "failed", "requires_approval"} :
          /\ tasks' = [tasks EXCEPT ![th.task] = CameTo(@, o)]
          /\ Stand(c, s, k.run, [th EXCEPT !.pc = "settle", !.outcome = o])
    BY <1>9 DEF RunTask
  <2>2. [th EXCEPT !.pc = "settle", !.outcome = o] \in Thread
    BY <1>2 DEF Thread, TaskStatus
  <2>3. tasks' \in Seq(Task)
    <3>1. \A t \in DOMAIN tasks : tasks[t] \in Task
      BY DEF TypeOK
    <3>2. \A task \in Task : CameTo(task, o) \in Task
      BY TaskTypes DEF Result
    <3>3. tasks' = [t \in DOMAIN tasks |-> IF t = th.task THEN CameTo(tasks[t], o) ELSE tasks[t]]
      BY <2>1
    <3> QED
      BY <3>1, <3>2, <3>3 DEF TypeOK
  <2> QED
    BY <1>1, <1>3, <1>9, <2>1, <2>2, <2>3 DEF RunTask, TypeOK
<1>10. CASE StepEnds(c, s)
  <2>1. PICK status \in {"completed", "waiting"} :
          /\ Save(Marked(k.run, th.at, status))
          /\ EndThread(c, s, Marked(k.run, th.at, status))
          /\ UNCHANGED <<wf, tasks, calls, crashes, overlapped>>
    BY <1>10 DEF StepEnds, Settle
  <2>2. Marked(k.run, th.at, status) \in Run
    BY <1>5, <1>6
  <2> QED
    BY <1>3, <1>4, <2>1, <2>2 DEF EndThread, Save, TypeOK
<1>11. CASE RetryStep(c, s)
  <2>1. th.attempt + 1 \in Nat
    BY <1>2
  <2>2. [th EXCEPT !.pc = "create", !.attempt = @ + 1] \in Thread
    BY <1>2, <2>1 DEF Thread
  <2>3. Marked(k.run, th.at, "running") \in Run
    BY <1>5, <1>6
  <2> QED
    BY <1>3, <1>11, <2>2, <2>3 DEF RetryStep, Settle, Save, TypeOK
<1>12. CASE StepFails(c, s)
  <2> DEFINE comp == Compensator(th.at)
             r == Marked(k.run, th.at, "failed")
  <2>1. r \in Run
    BY <1>5, <1>6
  <2>2. ASSUME comp # NoStep
        PROVE  [NoThread EXCEPT !.pc = "start", !.at = comp] \in Thread
    <3>1. th.at \in Step
      BY <1>12 DEF StepFails, Settle, At
    <3>2. wf \in Workflow
      BY WorkflowAssumption DEF TypeOK
    <3>3. comp \in Step
      BY <2>2, <3>1, <3>2 DEF Compensator, Workflow
    <3> QED
      BY <3>3 DEF NoThread, Thread, StepRunStatus
  <2> QED
    BY <1>3, <1>4, <1>12, <2>1, <2>2 DEF StepFails, EndThread, Settle, Save, TypeOK
<1> QED
  BY <1>7, <1>8, <1>9, <1>10, <1>11, <1>12 DEF Work

-----------------------------------------------------------------------------
(* The inductive invariant.  What it says of a copy of the run, and of the *)
(* threads of a caller, it says of values: a row, the tasks, the workflow. *)

CompensatorIn(w, s) == IF w.on_error[s] = "compensate" THEN w.compensate_with[s] ELSE NoStep
Own(w) == Step \ {CompensatorIn(w, s) : s \in Step}
DoneIn(ts, s) == {t \in DOMAIN ts : ts[t].step = s /\ ts[t].result = "completed"}

\* A copy tells the truth about the tasks it names.
Truthful(r, ts, w) ==
  \A s \in Own(w) :
    /\ r.steps[s] = "completed" => r.task[s] \in DOMAIN ts /\ ts[r.task[s]].result = "completed"
    /\ r.steps[s] = "failed" => r.task[s] \in DOMAIN ts /\ ts[r.task[s]].result = "failed"
    /\ r.steps[s] = "waiting" => r.task[s] \in DOMAIN ts /\ ts[r.task[s]].result # "open"

\* What is marked completed has been done, a compensator too, once or another time.
Done(r, ts) == \A s \in Step : r.steps[s] = "completed" => DoneIn(ts, s) # {}

\* Steps are cancelled with their run, and are skipped for a reason.
Whole(r) == r.status # "cancelled" => \A s \in Step : r.steps[s] # "cancelled"
Skips(r, w) ==
  \A s \in Own(w) : r.steps[s] = "skipped" =>
    s \in w.optional \/ \E d \in w.deps[s] : d \notin Own(w) \/ r.steps[d] \in {"failed", "skipped"}

CopyInv(r, ts, w) == Truthful(r, ts, w) /\ Done(r, ts) /\ Whole(r) /\ Skips(r, w)

\* A thread works for step s, or undoes it.
Moving == {"queued", "start", "create", "run", "settle"}
LevelIn(w, resolved) == {s \in Step \ resolved : w.deps[s] \subseteq resolved}

Place(s, th, r, w) ==
  /\ th.pc \in Moving => th.at = s \/ th.at \in Step \ Own(w)
  /\ th.pc = "start" => th.at \notin Own(w)
  /\ th.pc \in Moving /\ th.at # s /\ s \in Own(w) => r.steps[s] = "failed"
  /\ th.pc \in {"create", "run", "settle"} /\ th.at = s /\ s \in Own(w) => r.steps[s] = "running"
  /\ th.pc = "queued" => th.at = s /\ (s \in Own(w) => r.steps[s] \notin Terminal)
  /\ th.pc = "done" /\ s \in Own(w) =>
       th.outcome = r.steps[s] /\ r.steps[s] \in {"completed", "failed", "skipped", "waiting"}

\* Its task is its own, and what it knows of it is so.
AtTask(th, r, ts, w) ==
  th.pc \in {"run", "settle"} =>
    /\ th.task \in DOMAIN ts /\ ts[th.task].step = th.at
    /\ th.at \in Own(w) => r.task[th.at] = th.task
    /\ th.pc = "run" => ts[th.task].result = "open"
    /\ th.pc = "settle" =>
         /\ th.outcome \in {"completed", "failed", "requires_approval"}
         /\ th.outcome \in {"completed", "failed"} => ts[th.task].result = th.outcome
         /\ th.outcome = "requires_approval" => ts[th.task].result # "open"

\* The steps its own depends on are done.
Grounded(s, th, ts, w) ==
  th.pc \in Moving => \A d \in w.deps[s] : DoneIn(ts, d) # {}

ThreadInv(s, th, r, ts, w) ==
  /\ th.pc \in Moving => th.at \in Step
  /\ Place(s, th, r, w) /\ AtTask(th, r, ts, w) /\ Grounded(s, th, ts, w)

\* The levels before are done with, and of this one what no thread works on.
Passed(k, w) ==
  /\ k.pc \in {"enter", "level"} => \A s \in Own(w) \cap k.resolved : k.run.steps[s] \in Terminal
  /\ k.pc = "level" =>
       \A s \in Step : IF k.thread[s].pc = "none"
                       THEN s \in Own(w) \cap LevelIn(w, k.resolved) => k.run.steps[s] \in Terminal
                       ELSE s \in LevelIn(w, k.resolved)

Status(k) ==
  /\ k.pc \in {"resume", "begin"} => k.run.status \notin Finished
  /\ k.pc \in {"enter", "level"} => k.run.status = "running"
  /\ k.pc # "level" => k.thread = NoThreads

CallerInv(k, ts, w) ==
  /\ CopyInv(k.run, ts, w) /\ Status(k) /\ Passed(k, w)
  /\ \A s \in Step : ThreadInv(s, k.thread[s], k.run, ts, w)

\* No two threads run one task.
Runs(k, s) == k.thread[s].pc = "run"
Apart ==
  \A c, d \in Caller, s, x \in Step :
    Runs(caller[c], s) /\ Runs(caller[d], x) /\ caller[c].thread[s].task = caller[d].thread[x].task => c = d /\ s = x

\* DependenciesFirst and EndIsEarned, said of values.
DependenciesIn(ts, w) ==
  \A t \in DOMAIN ts : ts[t].step \in Own(w) =>
    \A d \in w.deps[ts[t].step] : \E u \in DoneIn(ts, d) : u < t

EndOf(r, w) ==
  r.status \in {"completed", "partial"} =>
    \A s \in Own(w) :
      /\ r.steps[s] \in Terminal \ {"cancelled"}
      /\ r.status = "completed" =>
           \/ r.steps[s] = "completed"
           \/ /\ r.steps[s] = "skipped"
              /\ s \in w.optional \/ \E d \in w.deps[s] : d \notin Own(w) \/ r.steps[d] = "skipped"

IInv ==
  /\ TypeOK /\ CopyInv(run, tasks, wf) /\ Apart
  /\ \A c \in Caller : CallerInv(caller[c], tasks, wf)
  /\ DependenciesIn(tasks, wf) /\ EndOf(run, wf)

\* A task's row says what its work came to, or that it was cancelled.
Written(ts) == \A t \in DOMAIN ts : ts[t].status \in {ts[t].result, "cancelled"}

-----------------------------------------------------------------------------
(* What is kept *)

\* A task never leaves its step, and what has ended or come to an approval
\* does not begin again.
Keeps(ts, us) ==
  /\ DOMAIN ts \subseteq DOMAIN us
  /\ \A t \in DOMAIN ts :
       /\ us[t].step = ts[t].step
       /\ ts[t].result \in {"completed", "failed"} => us[t].result = ts[t].result
       /\ ts[t].result # "open" => us[t].result # "open"

LEMMA DoneStays ==
  ASSUME NEW ts, NEW us, Keeps(ts, us)
  PROVE  \A s : DoneIn(ts, s) \subseteq DoneIn(us, s)
BY DEF Keeps, DoneIn

LEMMA CopyStays ==
  ASSUME NEW r, NEW ts, NEW us, NEW w, Keeps(ts, us), CopyInv(r, ts, w)
  PROVE  CopyInv(r, us, w)
<1>1. Truthful(r, us, w)
  BY DEF CopyInv, Truthful, Keeps
<1>2. Done(r, us)
  BY DoneStays DEF CopyInv, Done
<1> QED
  BY <1>1, <1>2 DEF CopyInv

\* The threads of a caller stay as they are, when what they run is let alone.
LEMMA CallerStays ==
  ASSUME NEW k, NEW ts, NEW us, NEW w, Keeps(ts, us), CallerInv(k, ts, w),
         \A s \in Step : Runs(k, s) => us[k.thread[s].task].result = "open"
  PROVE  CallerInv(k, us, w)
<1>1. CopyInv(k.run, us, w)
  BY CopyStays DEF CallerInv
<1>2. ASSUME NEW s \in Step
      PROVE  ThreadInv(s, k.thread[s], k.run, us, w)
  <2> DEFINE th == k.thread[s]
  <2>1. ThreadInv(s, th, k.run, ts, w) /\ (Runs(k, s) => us[th.task].result = "open")
    BY DEF CallerInv
  <2>2. Grounded(s, th, us, w)
    BY <2>1, DoneStays DEF ThreadInv, Grounded
  <2>3. AtTask(th, k.run, us, w)
    BY <2>1 DEF ThreadInv, AtTask, Keeps, Runs
  <2> QED
    BY <2>1, <2>2, <2>3 DEF ThreadInv
<1> QED
  BY <1>1, <1>2 DEF CallerInv

LEMMA DependenciesStay ==
  ASSUME NEW ts, NEW us, NEW w, Keeps(ts, us), DOMAIN us = DOMAIN ts, DependenciesIn(ts, w)
  PROVE  DependenciesIn(us, w)
<1> SUFFICES ASSUME NEW t \in DOMAIN us, us[t].step \in Own(w), NEW d \in w.deps[us[t].step]
             PROVE  \E u \in DoneIn(us, d) : u < t
  BY DEF DependenciesIn
<1>1. us[t].step = ts[t].step /\ t \in DOMAIN ts
  BY DEF Keeps
<1>2. PICK u \in DoneIn(ts, d) : u < t
  BY <1>1 DEF DependenciesIn
<1> QED
  BY <1>2, DoneStays

\* Every caller is still in order, the one that moves and the others; what the
\* others run is let alone, and nobody runs what the one that moves comes to run.
LEMMA StepInv ==
  ASSUME IInv, TypeOK', UNCHANGED wf, Keeps(tasks, tasks'),
         NEW c \in Caller, NEW k \in CallerState, caller' = [caller EXCEPT ![c] = k],
         CopyInv(run', tasks', wf), EndOf(run', wf), DependenciesIn(tasks', wf),
         CallerInv(k, tasks', wf),
         \A d \in Caller \ {c}, s \in Step :
           Runs(caller[d], s) => tasks'[caller[d].thread[s].task].result = "open",
         \A s \in Step : Runs(k, s) =>
           \/ Runs(caller[c], s) /\ k.thread[s].task = caller[c].thread[s].task
           \/ k.thread[s].task \notin DOMAIN tasks,
         \A s, x \in Step : Runs(k, s) /\ Runs(k, x) /\ k.thread[s].task = k.thread[x].task => s = x
  PROVE  IInv'
<1>1. caller'[c] = k /\ \A d \in Caller \ {c} : caller'[d] = caller[d]
  BY MoveTypes DEF IInv
<1>2. \A d \in Caller : CallerInv(caller'[d], tasks', wf')
  <2> SUFFICES ASSUME NEW d \in Caller \ {c}
               PROVE  CallerInv(caller[d], tasks', wf)
    BY <1>1
  <2>1. CallerInv(caller[d], tasks, wf)
    BY DEF IInv
  <2> QED
    BY <2>1, CallerStays
<1>3. Apart'
  <2> SUFFICES ASSUME NEW d \in Caller, NEW e \in Caller, NEW s \in Step, NEW x \in Step,
                      Runs(caller'[d], s), Runs(caller'[e], x),
                      caller'[d].thread[s].task = caller'[e].thread[x].task
               PROVE  d = e /\ s = x
    BY DEF Apart, Runs
  <2>1. \A f \in Caller, y \in Step : Runs(caller[f], y) => caller[f].thread[y].task \in DOMAIN tasks
    BY DEF IInv, CallerInv, ThreadInv, AtTask, Runs
  <2>2. CASE d = c /\ e = c
    BY <1>1, <2>2
  <2>3. CASE d # c /\ e # c
    BY <1>1, <2>3 DEF IInv, Apart
  <2>4. CASE d = c /\ e # c
    BY <1>1, <2>1, <2>4 DEF IInv, Apart
  <2>5. CASE d # c /\ e = c
    BY <1>1, <2>1, <2>5 DEF IInv, Apart
  <2> QED
    BY <2>2, <2>3, <2>4, <2>5
<1> QED
  BY <1>2, <1>3 DEF IInv

-----------------------------------------------------------------------------
(* Calls *)

LEMMA NewCopies ==
  ASSUME NEW ts, NEW w
  PROVE  CopyInv(NewRun, ts, w) /\ CopyInv(NoRun, ts, w) /\ CallerInv(Idle, ts, w)
<1>1. /\ NewRun.status = "pending" /\ NoRun.status = "absent"
      /\ \A s \in Step : NewRun.steps[s] = "pending" /\ NoRun.steps[s] = "pending"
  BY DEF NewRun, NoRun
<1>2. CopyInv(NewRun, ts, w) /\ CopyInv(NoRun, ts, w)
  BY <1>1 DEF CopyInv, Truthful, Done, Whole, Skips, Own
<1>3. Idle.pc = "idle" /\ Idle.run = NoRun /\ Idle.thread = NoThreads
  BY DEF Idle
<1>4. \A s \in Step : NoThreads[s].pc = "none"
  BY DEF NoThreads, NoThread
<1>5. \A s \in Step : ThreadInv(s, NoThreads[s], NoRun, ts, w)
  BY <1>4 DEF ThreadInv, Place, AtTask, Grounded, Moving
<1> QED
  BY <1>2, <1>3, <1>5 DEF CallerInv, Status, Passed

\* A caller with no threads is in order when its copy is.
LEMMA Threadless ==
  ASSUME NEW k, NEW ts, NEW w, k.thread = NoThreads, CopyInv(k.run, ts, w), Status(k), Passed(k, w)
  PROVE  CallerInv(k, ts, w) /\ \A s \in Step : ~Runs(k, s)
<1>1. \A s \in Step : NoThreads[s].pc = "none"
  BY DEF NoThreads, NoThread
<1>2. \A s \in Step : ThreadInv(s, NoThreads[s], k.run, ts, w)
  BY <1>1 DEF ThreadInv, Place, AtTask, Grounded, Moving
<1> QED
  BY <1>1, <1>2 DEF CallerInv, Runs

LEMMA ReopenedInv ==
  ASSUME NEW r \in Run, NEW ts, NEW w \in Workflow, CopyInv(r, ts, w)
  PROVE  CopyInv(Reopened(r), ts, w)
<1> DEFINE q == Reopened(r)
<1>1. /\ q.status = r.status /\ q.task = r.task
      /\ \A s \in Step : q.steps[s] = IF r.steps[s] \in {"waiting", "running"} THEN "pending" ELSE r.steps[s]
  BY DEF Reopened, Run
<1>2. Own(w) \subseteq Step /\ \A s \in Own(w) : w.deps[s] \subseteq Step
  BY DEF Own, Workflow
<1> HIDE DEF q
<1>3. Truthful(q, ts, w) /\ Done(q, ts) /\ Whole(q)
  BY <1>1, <1>2 DEF CopyInv, Truthful, Done, Whole
<1>4. Skips(q, w)
  BY <1>1, <1>2 DEF CopyInv, Skips
<1> QED
  BY <1>3, <1>4 DEF CopyInv, q

LEMMA StatusInv ==
  ASSUME NEW r \in Run, NEW ts, NEW w, CopyInv(r, ts, w), NEW status,
         status = "cancelled" \/ r.status # "cancelled"
  PROVE  CopyInv([r EXCEPT !.status = status], ts, w)
BY DEF CopyInv, Truthful, Done, Whole, Skips, Run

\* Steps that leave the tasks alone, of a caller that has no threads then.
LEMMA QuietInv ==
  ASSUME IInv, TypeOK', UNCHANGED <<wf, tasks>>,
         NEW c \in Caller, NEW k \in CallerState, caller' = [caller EXCEPT ![c] = k],
         CopyInv(run', tasks, wf), EndOf(run', wf),
         CallerInv(k, tasks, wf), \A s \in Step : ~Runs(k, s)
  PROVE  IInv'
<1>1. Keeps(tasks, tasks')
  BY DEF Keeps
<1>2. \A d \in Caller, s \in Step :
        Runs(caller[d], s) => tasks[caller[d].thread[s].task].result = "open"
  BY DEF IInv, CallerInv, ThreadInv, AtTask, Runs
<1>3. DependenciesIn(tasks, wf)
  BY DEF IInv
<1>4. /\ CopyInv(run', tasks', wf) /\ DependenciesIn(tasks', wf) /\ CallerInv(k, tasks', wf)
      /\ \A d \in Caller \ {c}, s \in Step :
           Runs(caller[d], s) => tasks'[caller[d].thread[s].task].result = "open"
  BY <1>2, <1>3
<1> QED
  BY <1>1, <1>4, StepInv

LEMMA CallInv ==
  ASSUME IInv, NEW c \in Caller
  PROVE  (Start(c) \/ Resume(c) \/ Cancel(c) \/ ResumeSave(c) \/ Crash(c)) => IInv'
<1> DEFINE k == caller[c]
<1>1. /\ TypeOK /\ k \in CallerState /\ k.run \in Run /\ run \in Run /\ wf \in Workflow
      /\ CallerInv(k, tasks, wf) /\ CopyInv(run, tasks, wf) /\ EndOf(run, wf)
  BY WorkflowAssumption DEF IInv, TypeOK, CallerState
<1>2. ASSUME NEW pc \in {"begin", "resume", "cancel"}, NEW r \in Run, NewCall(c, pc, r), CopyInv(r, tasks, wf),
             pc # "cancel" => r.status \notin Finished,
             TypeOK', CopyInv(run', tasks, wf), EndOf(run', wf)
      PROVE  IInv'
  <2> DEFINE new == [Idle EXCEPT !.pc = pc, !.run = r]
  <2>1. new \in CallerState /\ new.pc = pc /\ new.run = r /\ new.thread = NoThreads
    BY RunTypes DEF CallerState, Idle, PC
  <2>2. caller' = [caller EXCEPT ![c] = new] /\ UNCHANGED <<wf, tasks>>
    BY <1>2 DEF NewCall
  <2> HIDE DEF new
  <2>3. CallerInv(new, tasks, wf) /\ \A s \in Step : ~Runs(new, s)
    BY <1>2, <2>1, Threadless DEF Status, Passed
  <2> QED
    BY <1>2, <2>1, <2>2, <2>3, QuietInv
<1>3. CASE Start(c)
  <2>1. NewRun \in Run /\ CopyInv(NewRun, tasks, wf) /\ NewRun.status \notin Finished /\ EndOf(NewRun, wf)
    BY RunTypes, NewCopies DEF NewRun, Finished, EndOf
  <2> QED
    BY <1>1, <1>2, <1>3, <2>1, CallTypes DEF Start, Save
<1>4. CASE Resume(c)
  <2>1. Reopened(run) \in Run /\ Reopened(run).status = run.status
    BY <1>1, CopyTypes DEF Reopened, Run
  <2> QED
    BY <1>1, <1>2, <1>4, <2>1, ReopenedInv, CallTypes DEF Resume
<1>5. CASE Cancel(c)
  BY <1>1, <1>2, <1>5, CallTypes DEF Cancel
<1>6. CASE ResumeSave(c)
  <2> DEFINE new == [k EXCEPT !.pc = "begin"]
  <2>1. new \in CallerState /\ new.pc = "begin" /\ new.run = k.run /\ new.thread = k.thread
    BY <1>1 DEF CallerState, PC
  <2>2. caller' = [caller EXCEPT ![c] = new] /\ run' = k.run /\ UNCHANGED <<wf, tasks>> /\ TypeOK'
    BY <1>1, <1>6, CallTypes DEF ResumeSave, Save
  <2>3. k.run.status \notin Finished /\ k.thread = NoThreads /\ CopyInv(k.run, tasks, wf)
    BY <1>1, <1>6 DEF ResumeSave, CallerInv, Status
  <2>4. EndOf(k.run, wf)
    BY <2>3 DEF EndOf, Finished
  <2> HIDE DEF new, k
  <2>5. CallerInv(new, tasks, wf) /\ \A s \in Step : ~Runs(new, s)
    BY <2>1, <2>3, Threadless DEF Status, Passed
  <2> QED
    BY <2>1, <2>2, <2>3, <2>4, <2>5, QuietInv
<1>7. CASE Crash(c)
  <2>1. caller' = [caller EXCEPT ![c] = Idle] /\ UNCHANGED <<wf, tasks, run>> /\ TypeOK'
    BY <1>1, <1>7, CallTypes DEF Crash, Return
  <2>2. Idle \in CallerState /\ CallerInv(Idle, tasks, wf) /\ \A s \in Step : ~Runs(Idle, s)
    BY RunTypes, NewCopies DEF Runs, Idle, NoThreads, NoThread
  <2> QED
    BY <1>1, <2>1, <2>2, QuietInv
<1> QED
  BY <1>3, <1>4, <1>5, <1>6, <1>7

\* cancel walks through the tasks of its copy, ...
LEMMA CancelTaskInv ==
  ASSUME IInv, NEW c \in Caller, NEW s \in Step, CancelTask(c, s)
  PROVE  IInv'
<1> DEFINE k == caller[c]
<1>1. /\ TypeOK /\ k \in CallerState /\ CallerInv(k, tasks, wf) /\ CopyInv(run, tasks, wf) /\ EndOf(run, wf)
  BY DEF IInv, TypeOK
<1>2. k.pc = "cancel" /\ UNCHANGED <<wf, run, tasks>> /\ TypeOK'
  BY <1>1, CallTypes DEF CancelTask
<1>3. PICK t : caller' = [caller EXCEPT ![c].resolved = @ \cup {s}, ![c].task = t]
  BY DEF CancelTask
<1>4. PICK new : new = [k EXCEPT !.resolved = @ \cup {s}, !.task = t]
  OBVIOUS
<1>5. caller' = [caller EXCEPT ![c] = new]
  BY <1>3, <1>4
<1>6. new \in CallerState
  BY <1>1, <1>2, <1>5 DEF TypeOK
<1>7. new.pc = k.pc /\ new.run = k.run /\ new.thread = k.thread
  BY <1>1, <1>4 DEF CallerState
<1>8. k.thread = NoThreads /\ CopyInv(k.run, tasks, wf)
  BY <1>1, <1>2 DEF CallerInv, Status
<1> HIDE DEF k
<1>9. CallerInv(new, tasks, wf) /\ \A x \in Step : ~Runs(new, x)
  BY <1>2, <1>7, <1>8, Threadless DEF Status, Passed
<1> QED
  BY <1>1, <1>2, <1>5, <1>6, <1>9, QuietInv

\* ... and what the work on a task came to is none of its business.
LEMMA CancelledTask ==
  ASSUME TypeOK, NEW c \in Caller, CancelTaskSave(c)
  PROVE  /\ DOMAIN tasks' = DOMAIN tasks
         /\ \A t \in DOMAIN tasks : /\ tasks'[t].step = tasks[t].step /\ tasks'[t].result = tasks[t].result
                                    /\ tasks'[t].status = IF t = caller[c].task THEN "cancelled" ELSE tasks[t].status
<1>1. DOMAIN tasks' = DOMAIN tasks
  BY DEF CancelTaskSave
<1> SUFFICES ASSUME NEW t \in DOMAIN tasks
             PROVE  /\ tasks'[t].step = tasks[t].step /\ tasks'[t].result = tasks[t].result
                    /\ tasks'[t].status = IF t = caller[c].task THEN "cancelled" ELSE tasks[t].status
  BY <1>1
<1>2. tasks[t] \in Task
  BY DEF TypeOK
<1>3. CASE t = caller[c].task
  <2>1. tasks'[t] = [tasks[t] EXCEPT !.status = "cancelled"]
    BY <1>3 DEF CancelTaskSave
  <2> QED
    BY <1>2, <1>3, <2>1, TaskTypes
<1>4. CASE t # caller[c].task
  <2>1. tasks'[t] = tasks[t]
    BY <1>4 DEF CancelTaskSave
  <2> QED
    BY <1>4, <2>1
<1> QED
  BY <1>3, <1>4

LEMMA CancelTaskSaveInv ==
  ASSUME IInv, NEW c \in Caller, CancelTaskSave(c)
  PROVE  IInv'
<1> DEFINE k == caller[c]
<1>1. /\ TypeOK /\ k \in CallerState /\ CallerInv(k, tasks, wf) /\ CopyInv(run, tasks, wf) /\ EndOf(run, wf)
      /\ DependenciesIn(tasks, wf)
  BY DEF IInv, TypeOK
<1>2. k.pc = "cancel" /\ UNCHANGED <<wf, run>> /\ TypeOK'
  BY <1>1, CallTypes DEF CancelTaskSave
<1>3. DOMAIN tasks' = DOMAIN tasks
      /\ \A t \in DOMAIN tasks : tasks'[t].step = tasks[t].step /\ tasks'[t].result = tasks[t].result
  BY <1>1, CancelledTask
<1>4. Keeps(tasks, tasks')
  BY <1>3 DEF Keeps
<1>5. PICK new : new = [k EXCEPT !.task = 0]
  OBVIOUS
<1>6. caller' = [caller EXCEPT ![c] = new]
  BY <1>5 DEF CancelTaskSave
<1>7. new \in CallerState
  BY <1>1, <1>2, <1>6 DEF TypeOK
<1>8. new.pc = k.pc /\ new.run = k.run /\ new.thread = k.thread
  BY <1>1, <1>5 DEF CallerState
<1>9. k.thread = NoThreads /\ CopyInv(k.run, tasks', wf) /\ CopyInv(run, tasks', wf)
  BY <1>1, <1>2, <1>4, CopyStays DEF CallerInv, Status
<1> HIDE DEF k
<1>10. CallerInv(new, tasks', wf) /\ \A x \in Step : ~Runs(new, x)
  BY <1>2, <1>8, <1>9, Threadless DEF Status, Passed
<1>11. DependenciesIn(tasks', wf)
  BY <1>1, <1>3, <1>4, DependenciesStay
<1>12. \A d \in Caller, x \in Step : Runs(caller[d], x) => tasks'[caller[d].thread[x].task].result = "open"
  <2>1. \A d \in Caller, x \in Step :
          Runs(caller[d], x) => /\ caller[d].thread[x].task \in DOMAIN tasks
                                /\ tasks[caller[d].thread[x].task].result = "open"
    BY DEF IInv, CallerInv, ThreadInv, AtTask, Runs
  <2> QED
    BY <1>3, <2>1
<1> QED
  BY <1>1, <1>2, <1>4, <1>6, <1>7, <1>9, <1>10, <1>11, <1>12, StepInv

\* It ends by writing its copy.
LEMMA CancelInv ==
  ASSUME IInv, NEW c \in Caller, CancelSave(c)
  PROVE  IInv'
<1> DEFINE k == caller[c]
           r == k.run
           q == [r EXCEPT !.status = "cancelled",
                          !.steps = [s \in Step |-> IF r.steps[s] \in Terminal THEN r.steps[s] ELSE "cancelled"]]
<1>1. /\ TypeOK /\ k \in CallerState /\ r \in Run /\ wf \in Workflow
      /\ CopyInv(r, tasks, wf)
  BY WorkflowAssumption DEF IInv, TypeOK, CallerState, CallerInv
<1>2. TypeOK' /\ UNCHANGED <<wf, tasks>> /\ run' = q /\ caller' = [caller EXCEPT ![c] = Idle]
  BY <1>1, CallTypes DEF CancelSave, Save, Return
<1>7. /\ q.status = "cancelled" /\ q.task = r.task
      /\ \A s \in Step : q.steps[s] = IF r.steps[s] \in Terminal THEN r.steps[s] ELSE "cancelled"
  BY <1>1 DEF Run
<1> HIDE DEF q
<1>8. CopyInv(q, tasks, wf)
  <2>1. Own(wf) \subseteq Step /\ \A s \in Own(wf) : wf.deps[s] \subseteq Step
    BY <1>1 DEF Own, Workflow
  <2>2. Truthful(q, tasks, wf) /\ Done(q, tasks) /\ Whole(q)
    BY <1>1, <1>7, <2>1 DEF CopyInv, Truthful, Done, Whole, Terminal
  <2>3. Skips(q, wf)
    BY <1>1, <1>7, <2>1 DEF CopyInv, Skips, Terminal
  <2> QED
    BY <2>2, <2>3 DEF CopyInv
<1>9. EndOf(q, wf)
  BY <1>7 DEF EndOf
<1>10. Idle \in CallerState /\ CallerInv(Idle, tasks, wf) /\ \A s \in Step : ~Runs(Idle, s)
  BY RunTypes, NewCopies DEF Runs, Idle, NoThreads, NoThread
<1> QED
  BY <1>2, <1>8, <1>9, <1>10, QuietInv

-----------------------------------------------------------------------------
(* Levels *)

\* Facts about a caller that walks through the levels, and its copy.
LEMMA WalkFacts ==
  ASSUME IInv, NEW c \in Caller
  PROVE  LET k == caller[c] IN
         /\ TypeOK /\ wf \in Workflow /\ k \in CallerState /\ k.run \in Run /\ run \in Run
         /\ k.resolved \subseteq Step /\ k.thread \in [Step -> Thread]
         /\ CallerInv(k, tasks, wf) /\ CopyInv(k.run, tasks, wf) /\ Status(k) /\ Passed(k, wf)
         /\ CopyInv(run, tasks, wf) /\ EndOf(run, wf)
         /\ Own(wf) \subseteq Step /\ \A s \in Step : wf.deps[s] \subseteq Step
         /\ \A resolved : Level(resolved) = LevelIn(wf, resolved)
BY WorkflowAssumption DEF IInv, TypeOK, CallerState, CallerInv, Own, Workflow, Level, LevelIn

LEMMA BeginInv ==
  ASSUME IInv, NEW c \in Caller, Begin(c)
  PROVE  IInv'
<1> DEFINE k == caller[c]
           r == [k.run EXCEPT !.status = "running"]
           new == [k EXCEPT !.pc = "enter", !.run = r, !.resolved = {}]
<1>1. k.pc = "begin" /\ run' = r /\ caller' = [caller EXCEPT ![c] = new] /\ UNCHANGED <<wf, tasks>>
  BY DEF Begin, Save
<1>2. /\ TypeOK /\ k \in CallerState /\ k.run \in Run /\ CopyInv(k.run, tasks, wf) /\ Status(k)
  BY WalkFacts
<1>3. TypeOK'
  BY <1>2, LevelTypes
<1>4. k.run.status # "cancelled" /\ k.thread = NoThreads
  BY <1>1, <1>2 DEF Status, Finished
<1>5. r \in Run /\ r.status = "running" /\ CopyInv(r, tasks, wf)
  <2>1. r \in Run
    BY <1>2, CopyTypes DEF RunStatus
  <2>2. r.status = "running"
    BY <1>2 DEF Run
  <2>3. CopyInv(r, tasks, wf)
    BY <1>2, <1>4, StatusInv
  <2> QED
    BY <2>1, <2>2, <2>3
<1>6. /\ new \in CallerState /\ new.pc = "enter" /\ new.run = r /\ new.resolved = {} /\ new.thread = NoThreads
  BY <1>2, <1>4, <1>5 DEF CallerState, PC
<1> HIDE DEF r, new, k
<1>7. CallerInv(new, tasks, wf) /\ \A s \in Step : ~Runs(new, s)
  BY <1>5, <1>6, Threadless DEF Status, Passed
<1>8. EndOf(r, wf)
  BY <1>5 DEF EndOf
<1> QED
  BY <1>1, <1>3, <1>5, <1>6, <1>7, <1>8, QuietInv

LEMMA NextLevelInv ==
  ASSUME IInv, NEW c \in Caller, NextLevel(c)
  PROVE  IInv'
<1> DEFINE k == caller[c]
           new == [k EXCEPT !.pc = "enter", !.resolved = @ \cup Level(@), !.thread = NoThreads]
<1>1. /\ k.pc = "level" /\ caller' = [caller EXCEPT ![c] = new] /\ UNCHANGED <<wf, run, tasks>>
      /\ \A s \in Step : k.thread[s].pc \in {"none", "done"}
      /\ \A s \in Step : k.thread[s].pc = "done" => k.thread[s].outcome # "waiting"
  BY DEF NextLevel, LevelEnded, Outcomes, Threads
<1>2. /\ TypeOK /\ k \in CallerState /\ CopyInv(k.run, tasks, wf) /\ CallerInv(k, tasks, wf)
      /\ CopyInv(run, tasks, wf) /\ EndOf(run, wf) /\ Own(wf) \subseteq Step
      /\ Level(k.resolved) = LevelIn(wf, k.resolved) /\ Passed(k, wf) /\ Status(k)
  BY WalkFacts
<1>3. TypeOK'
  BY <1>2, LevelTypes
<1>4. /\ new \in CallerState /\ new.pc = "enter" /\ new.run = k.run /\ new.thread = NoThreads
      /\ new.resolved = k.resolved \cup LevelIn(wf, k.resolved)
  BY <1>2, RunTypes DEF CallerState, PC, Level
<1> HIDE DEF new
<1>5. ASSUME NEW s \in Own(wf), s \in new.resolved
      PROVE  k.run.steps[s] \in Terminal
  <2>1. CASE s \in k.resolved
    BY <1>1, <1>2, <2>1 DEF Passed
  <2>2. CASE s \in LevelIn(wf, k.resolved) /\ k.thread[s].pc = "none"
    BY <1>1, <1>2, <2>2 DEF Passed
  <2>3. CASE k.thread[s].pc = "done"
    BY <1>1, <1>2, <2>3 DEF CallerInv, ThreadInv, Place, Terminal
  <2> QED
    BY <1>1, <1>2, <1>4, <1>5, <2>1, <2>2, <2>3
<1>6. Status(new) /\ Passed(new, wf)
  BY <1>1, <1>2, <1>4, <1>5 DEF Status, Passed
<1>7. CallerInv(new, tasks, wf) /\ \A s \in Step : ~Runs(new, s)
  BY <1>2, <1>4, <1>6, Threadless
<1> HIDE DEF k
<1> QED
  BY <1>1, <1>2, <1>3, <1>4, <1>7, QuietInv

\* The run ends, or waits.
LEMMA EndingInv ==
  ASSUME IInv, NEW c \in Caller, PauseRun(c) \/ FailRun(c) \/ FinishRun(c)
  PROVE  IInv'
<1> DEFINE k == caller[c]
<1>1. PICK status \in {"waiting", "failed", "partial", "completed"} : run' = [k.run EXCEPT !.status = status]
  BY DEF PauseRun, FailRun, FinishRun, Save, EndStatus
<1>2. k.pc \in {"enter", "level"} /\ caller' = [caller EXCEPT ![c] = Idle] /\ UNCHANGED <<wf, tasks>>
  BY DEF PauseRun, FailRun, FinishRun, Return, LevelEnded
<1>3. /\ TypeOK /\ k.run \in Run /\ CopyInv(k.run, tasks, wf) /\ Status(k) /\ Passed(k, wf)
      /\ Own(wf) \subseteq Step /\ \A s \in Step : wf.deps[s] \subseteq Step
      /\ k.resolved \subseteq Step /\ wf \in Workflow
  BY WalkFacts
<1>4. TypeOK'
  BY <1>3, LevelTypes
<1>5. k.run.status = "running"
  BY <1>2, <1>3 DEF Status
<1>6. CopyInv(run', tasks, wf)
  BY <1>1, <1>3, <1>5, StatusInv
<1>7. EndOf(run', wf)
  <2>1. run'.status = status /\ run'.steps = k.run.steps
    BY <1>1, <1>3 DEF Run
  <2>2. CASE status \in {"waiting", "failed"}
    BY <2>1, <2>2 DEF EndOf
  <2>3. CASE status \notin {"waiting", "failed"}
    <3>1. status = EndStatus(k.run) /\ Level(k.resolved) = {} /\ k.pc = "enter"
      <4>1. FinishRun(c)
        BY <1>3, <2>1, <2>3 DEF PauseRun, FailRun, Save, Run
      <4> QED
        BY <1>3, <2>1, <4>1 DEF FinishRun, Save, Run
    <3>2. k.resolved = Step
      <4> SUFFICES ASSUME Step \ k.resolved # {}
                   PROVE  FALSE
        BY <1>3
      <4> DEFINE rest == Step \ k.resolved
      <4>1. rest \in (SUBSET Step) \ {{}}
        OBVIOUS
      <4>2. \A some \in (SUBSET Step) \ {{}} : \E s \in some : wf.deps[s] \cap some = {}
        BY <1>3, WorkflowAssumption DEF TypeOK
      <4> HIDE DEF rest
      <4>3. PICK s \in rest : wf.deps[s] \cap rest = {}
        BY <4>1, <4>2
      <4> USE DEF rest
      <4>4. s \in Level(k.resolved)
        BY <1>3, <4>3 DEF Level
      <4> QED
        BY <3>1, <4>4
    <3>3. \A s \in Own(wf) : k.run.steps[s] \in Terminal \ {"cancelled"}
      BY <1>3, <1>5, <3>1, <3>2 DEF Passed, CopyInv, Whole
    <3>4. ASSUME status = "completed"
          PROVE  \A s \in Step : k.run.steps[s] # "failed"
      BY <3>1, <3>4 DEF EndStatus
    <3>5. Skips(k.run, wf)
      BY <1>3 DEF CopyInv
    <3>6. ASSUME NEW s \in Own(wf), status = "completed", k.run.steps[s] = "skipped"
          PROVE  s \in wf.optional \/ \E d \in wf.deps[s] : d \notin Own(wf) \/ k.run.steps[d] = "skipped"
      BY <1>3, <3>4, <3>5, <3>6 DEF Skips
    <3> QED
      BY <1>3, <2>1, <3>3, <3>4, <3>6 DEF EndOf, Terminal
  <2> QED
    BY <2>2, <2>3
<1>8. Idle \in CallerState /\ CallerInv(Idle, tasks, wf) /\ \A s \in Step : ~Runs(Idle, s)
  BY RunTypes, NewCopies DEF Runs, Idle, NoThreads, NoThread
<1> HIDE DEF k
<1> QED
  BY <1>2, <1>4, <1>6, <1>7, <1>8, QuietInv

\* The steps of a level that are not blocked are behind steps that are done.
LEMMA EnterLevelInv ==
  ASSUME IInv, NEW c \in Caller, EnterLevel(c)
  PROVE  IInv'
<1> DEFINE k == caller[c]
           level == Level(k.resolved)
           r == SkipBlocked(k.run, level)
           pending == PendingIn(r, level)
           thread == [s \in Step |-> IF s \in pending THEN [NoThread EXCEPT !.pc = "queued", !.at = s] ELSE NoThread]
           new == [k EXCEPT !.run = r, !.pc = IF pending = {} THEN "enter" ELSE "level",
                            !.resolved = IF pending = {} THEN @ \cup level ELSE @, !.thread = thread]
<1>1. /\ k.pc = "enter" /\ run' \in {run, r} /\ caller' = [caller EXCEPT ![c] = new] /\ UNCHANGED <<wf, tasks>>
  BY DEF EnterLevel
<1>2. /\ TypeOK /\ wf \in Workflow /\ k \in CallerState /\ k.run \in Run /\ k.resolved \subseteq Step
      /\ CopyInv(k.run, tasks, wf) /\ Status(k) /\ Passed(k, wf)
      /\ CopyInv(run, tasks, wf) /\ EndOf(run, wf)
      /\ Own(wf) \subseteq Step /\ \A s \in Step : wf.deps[s] \subseteq Step
      /\ level = LevelIn(wf, k.resolved)
  BY WalkFacts
<1>3. TypeOK'
  BY <1>2, LevelTypes
<1>4. k.run.status = "running" /\ \A s \in Step : k.run.steps[s] # "cancelled"
  BY <1>1, <1>2 DEF Status, CopyInv, Whole
<1>5. /\ r \in Run /\ r.status = "running" /\ r.task = k.run.task
      /\ \A s \in Step : r.steps[s] = IF s \in level /\ k.run.steps[s] \notin Terminal /\ Blocked(k.run, s)
                                      THEN "skipped" ELSE k.run.steps[s]
  <2>1. r \in Run
    BY <1>2, CopyTypes
  <2>2. r.status = k.run.status /\ r.task = k.run.task
    BY <1>2 DEF SkipBlocked, Run
  <2>3. r.steps = [s \in Step |-> IF s \in level /\ k.run.steps[s] \notin Terminal /\ Blocked(k.run, s)
                                  THEN "skipped" ELSE k.run.steps[s]]
    BY <1>2 DEF SkipBlocked, Run
  <2> QED
    BY <1>4, <2>1, <2>2, <2>3
<1>6. /\ level \subseteq Step \ k.resolved /\ \A s \in level : wf.deps[s] \subseteq k.resolved
      /\ pending = {s \in level : r.steps[s] \notin Terminal}
  BY DEF Level, PendingIn
<1>7. /\ thread \in [Step -> Thread]
      /\ \A s \in Step : IF s \in pending THEN thread[s].pc = "queued" /\ thread[s].at = s ELSE thread[s].pc = "none"
      /\ pending = {} => thread = NoThreads
  BY DEF NoThread, NoThreads, Thread, StepRunStatus
<1> HIDE DEF thread, level, r, pending
<1>8. /\ new \in CallerState /\ new.run = r /\ new.thread = thread
      /\ new.pc = (IF pending = {} THEN "enter" ELSE "level")
      /\ new.resolved = (IF pending = {} THEN k.resolved \cup level ELSE k.resolved)
  BY <1>2, <1>5, <1>6, <1>7 DEF CallerState, PC
<1> HIDE DEF new, k
<1>9. CopyInv(r, tasks, wf)
  <2>1. Truthful(r, tasks, wf) /\ Done(r, tasks) /\ Whole(r)
    BY <1>2, <1>4, <1>5 DEF CopyInv, Truthful, Done, Whole
  <2>2. ASSUME NEW s \in Own(wf), r.steps[s] = "skipped", s \notin wf.optional
        PROVE  \E d \in wf.deps[s] : d \notin Own(wf) \/ r.steps[d] \in {"failed", "skipped"}
    <3>1. CASE k.run.steps[s] = "skipped"
      <4>1. PICK d \in wf.deps[s] : d \notin Own(wf) \/ k.run.steps[d] \in {"failed", "skipped"}
        BY <1>2, <2>2, <3>1 DEF CopyInv, Skips
      <4> QED
        BY <1>2, <1>5, <4>1 DEF Terminal
    <3>2. CASE k.run.steps[s] # "skipped"
      <4>1. s \in level /\ Blocked(k.run, s)
        BY <1>2, <1>5, <2>2, <3>2
      <4>2. PICK d \in wf.deps[s] : k.run.steps[d] # "completed" /\ d \in k.resolved
        BY <1>6, <4>1 DEF Blocked
      <4>3. CASE d \in Own(wf)
        <5>1. k.run.steps[d] \in Terminal
          BY <1>1, <1>2, <4>2, <4>3 DEF Passed
        <5>2. k.run.steps[d] \in {"failed", "skipped"}
          BY <1>2, <1>4, <4>2, <4>3, <5>1 DEF Terminal
        <5> QED
          BY <1>2, <1>5, <4>3, <5>1, <5>2
      <4> QED
        BY <4>2, <4>3
    <3> QED
      BY <3>1, <3>2
  <2> QED
    BY <2>1, <2>2 DEF CopyInv, Skips
<1>10. CopyInv(run', tasks, wf) /\ EndOf(run', wf)
  <2>1. EndOf(r, wf)
    BY <1>5 DEF EndOf
  <2> QED
    BY <1>1, <1>2, <1>9, <2>1
<1>11. ASSUME NEW s \in Step
       PROVE  ThreadInv(s, thread[s], r, tasks, wf)
  <2>1. CASE s \notin pending
    BY <1>7, <2>1 DEF ThreadInv, Place, AtTask, Grounded, Moving
  <2>2. CASE s \in pending
    <3>1. s \in level /\ r.steps[s] \notin Terminal /\ ~Blocked(k.run, s)
      BY <1>5, <1>6, <2>2 DEF Terminal
    <3>2. \A d \in wf.deps[s] : DoneIn(tasks, d) # {}
      BY <1>2, <3>1 DEF Blocked, CopyInv, Done
    <3> QED
      BY <1>7, <2>2, <3>1, <3>2 DEF ThreadInv, Place, AtTask, Grounded, Moving
  <2> QED
    BY <2>1, <2>2
<1>12. Passed(new, wf)
  <2>1. \A s \in Own(wf) \cap k.resolved : r.steps[s] \in Terminal
    BY <1>1, <1>2, <1>5 DEF Passed
  <2>2. CASE pending = {}
    BY <1>6, <1>8, <2>1, <2>2 DEF Passed
  <2>3. CASE pending # {}
    BY <1>2, <1>6, <1>7, <1>8, <2>1, <2>3 DEF Passed
  <2> QED
    BY <2>2, <2>3
<1>13. CallerInv(new, tasks, wf) /\ \A s \in Step : ~Runs(new, s)
  BY <1>5, <1>7, <1>8, <1>9, <1>11, <1>12 DEF CallerInv, Status, Runs
<1> QED
  BY <1>1, <1>3, <1>8, <1>10, <1>13, QuietInv

-----------------------------------------------------------------------------
(* Steps *)

\* A step of one thread: its own step, if that is not a compensator, is all it
\* touches of what the other threads of the level, and the levels before, go by.
LEMMA ThreadStep ==
  ASSUME IInv, TypeOK', UNCHANGED wf, Keeps(tasks, tasks'),
         NEW c \in Caller, NEW s \in Step, caller[c].pc = "level", caller[c].thread[s].pc \in Moving,
         NEW r \in Run, NEW new \in Thread, Stand(c, s, r, new), run' \in {run, r},
         r.status = caller[c].run.status,
         \A x \in Own(wf) \ {s} : r.steps[x] = caller[c].run.steps[x] /\ r.task[x] = caller[c].run.task[x],
         CopyInv(r, tasks', wf), DependenciesIn(tasks', wf),
         new.pc # "none", ThreadInv(s, new, r, tasks', wf),
         new.pc = "run" => new.task \notin DOMAIN tasks,
         \A d \in Caller, x \in Step : (d # c \/ x # s) /\ Runs(caller[d], x) =>
           tasks'[caller[d].thread[x].task].result = "open"
  PROVE  IInv'
<1> DEFINE k == caller[c]
           q == Stood(k, s, r, new)
<1>1. /\ TypeOK /\ wf \in Workflow /\ k \in CallerState /\ k.run \in Run /\ k.thread \in [Step -> Thread]
      /\ CallerInv(k, tasks, wf) /\ CopyInv(run, tasks, wf) /\ EndOf(run, wf)
      /\ Status(k) /\ Passed(k, wf) /\ Own(wf) \subseteq Step
  BY WalkFacts
<1>2. q \in CallerState /\ caller' = [caller EXCEPT ![c] = q]
  BY <1>1, StandTypes
<1>3. /\ q.pc = "level" /\ q.run = r /\ q.resolved = k.resolved
      /\ q.thread[s] = new /\ \A x \in Step \ {s} : q.thread[x] = k.thread[x]
  BY <1>1 DEF Stood, CallerState
<1> HIDE DEF q
<1>4. ASSUME NEW x \in Step \ {s}
      PROVE  ThreadInv(x, k.thread[x], r, tasks', wf)
  <2> DEFINE th == k.thread[x]
  <2>1. ThreadInv(x, th, k.run, tasks, wf)
    BY <1>1 DEF CallerInv
  <2>2. Grounded(x, th, tasks', wf)
    BY <2>1, DoneStays DEF ThreadInv, Grounded
  <2>3. Place(x, th, r, wf)
    BY <2>1 DEF ThreadInv, Place
  <2>4. th.pc = "run" => tasks'[th.task].result = "open"
    BY DEF Runs
  <2> HIDE DEF k
  <2>5. AtTask(th, r, tasks', wf)
    <3> HIDE DEF th
    <3>1. CASE th.pc \in {"run", "settle"}
      <4>1. th.task \in DOMAIN tasks' /\ tasks'[th.task].step = th.at
        BY <2>1, <3>1 DEF ThreadInv, AtTask, Keeps
      <4>2. th.at \in Own(wf) => r.task[th.at] = th.task
        BY <1>1, <2>1, <3>1 DEF ThreadInv, AtTask, Place, Moving, k
      <4>3. th.pc = "settle" =>
              /\ th.outcome \in {"completed", "failed", "requires_approval"}
              /\ th.outcome \in {"completed", "failed"} => tasks'[th.task].result = th.outcome
              /\ th.outcome = "requires_approval" => tasks'[th.task].result # "open"
        BY <2>1, <3>1 DEF ThreadInv, AtTask, Keeps
      <4> QED
        BY <2>4, <4>1, <4>2, <4>3 DEF AtTask
    <3> QED
      BY <3>1 DEF AtTask
  <2> QED
    BY <2>1, <2>2, <2>3, <2>5 DEF ThreadInv
<1>5. \A x \in Step : ThreadInv(x, q.thread[x], q.run, tasks', wf)
  BY <1>3, <1>4
<1>6. s \in LevelIn(wf, k.resolved) /\ s \notin k.resolved
  BY <1>1 DEF Passed, Moving, LevelIn
<1>7. Passed(q, wf)
  <2>1. \A x \in Own(wf) \cap k.resolved : r.steps[x] \in Terminal
    BY <1>1, <1>6 DEF Passed
  <2>2. ASSUME NEW x \in Step
        PROVE  IF q.thread[x].pc = "none" THEN x \in Own(wf) \cap LevelIn(wf, k.resolved) => r.steps[x] \in Terminal
                                          ELSE x \in LevelIn(wf, k.resolved)
    <3>1. CASE x = s
      BY <1>3, <1>6, <3>1
    <3>2. CASE x # s
      BY <1>1, <1>3, <3>2 DEF Passed
    <3> QED
      BY <3>1, <3>2
  <2> QED
    BY <1>3, <2>1, <2>2 DEF Passed
<1>8. r.status = "running"
  BY <1>1 DEF Status
<1>9. CallerInv(q, tasks', wf)
  BY <1>3, <1>5, <1>7, <1>8 DEF CallerInv, Status
<1>10. CopyInv(run', tasks', wf) /\ EndOf(run', wf)
  <2>1. CopyInv(run, tasks', wf)
    BY <1>1, CopyStays
  <2>2. EndOf(r, wf)
    BY <1>8 DEF EndOf
  <2> QED
    BY <1>1, <2>1, <2>2
<1>11. /\ \A x \in Step : Runs(q, x) =>
            \/ Runs(k, x) /\ q.thread[x].task = k.thread[x].task
            \/ q.thread[x].task \notin DOMAIN tasks
       /\ \A x, y \in Step : Runs(q, x) /\ Runs(q, y) /\ q.thread[x].task = q.thread[y].task => x = y
  <2>1. \A x \in Step \ {s} : Runs(q, x) => Runs(k, x) /\ q.thread[x].task = k.thread[x].task /\ k.thread[x].task \in DOMAIN tasks
    <3> SUFFICES ASSUME NEW x \in Step \ {s}, Runs(q, x)
                 PROVE  Runs(k, x) /\ q.thread[x].task = k.thread[x].task /\ k.thread[x].task \in DOMAIN tasks
      OBVIOUS
    <3>1. q.thread[x] = k.thread[x]
      BY <1>3
    <3>2. AtTask(k.thread[x], k.run, tasks, wf)
      BY <1>1 DEF CallerInv, ThreadInv
    <3>3. k.thread[x].pc = "run"
      BY <3>1 DEF Runs
    <3> QED
      BY <3>1, <3>2, <3>3 DEF AtTask, Runs
  <2>2. Runs(q, s) => q.thread[s].task \notin DOMAIN tasks
    BY <1>3 DEF Runs
  <2>3. \A x, y \in Step : Runs(k, x) /\ Runs(k, y) /\ k.thread[x].task = k.thread[y].task => x = y
    BY DEF IInv, Apart
  <2> QED
    BY <2>1, <2>2, <2>3
<1>12. \A d \in Caller \ {c}, x \in Step :
         Runs(caller[d], x) => tasks'[caller[d].thread[x].task].result = "open"
  OBVIOUS
<1>13. DependenciesIn(tasks', wf)
  OBVIOUS
<1> QED
  BY <1>2, <1>9, <1>10, <1>11, <1>12, <1>13, StepInv

\* Marking a step leaves the copy in order when the mark is earned.
LEMMA MarkedInv ==
  ASSUME NEW r \in Run, NEW ts, NEW w \in Workflow, CopyInv(r, ts, w), NEW at \in Step,
         NEW status \in StepRunStatus \ {"cancelled"},
         status = "completed" => DoneIn(ts, at) # {},
         at \in Own(w) =>
           /\ r.steps[at] \in {"failed", "skipped"} => status \in {"failed", "skipped"}
           /\ status = "completed" => r.task[at] \in DOMAIN ts /\ ts[r.task[at]].result = "completed"
           /\ status = "failed" => r.task[at] \in DOMAIN ts /\ ts[r.task[at]].result = "failed"
           /\ status = "waiting" => r.task[at] \in DOMAIN ts /\ ts[r.task[at]].result # "open"
           /\ status = "skipped" => at \in w.optional
  PROVE  CopyInv(Marked(r, at, status), ts, w)
<1> DEFINE q == Marked(r, at, status)
<1>1. /\ q.status = r.status /\ q.task = r.task
      /\ \A s \in Step : q.steps[s] = IF s = at THEN status ELSE r.steps[s]
  BY DEF Marked, Run
<1>2. Own(w) \subseteq Step /\ \A s \in Own(w) : w.deps[s] \subseteq Step
  BY DEF Own, Workflow
<1> HIDE DEF q
<1>3. Truthful(q, ts, w)
  BY <1>1, <1>2 DEF CopyInv, Truthful
<1>4. Done(q, ts) /\ Whole(q)
  BY <1>1 DEF CopyInv, Done, Whole
<1>5. Skips(q, w)
  <2> SUFFICES ASSUME NEW s \in Own(w), q.steps[s] = "skipped", s \notin w.optional
               PROVE  \E d \in w.deps[s] : d \notin Own(w) \/ q.steps[d] \in {"failed", "skipped"}
    BY DEF Skips
  <2>1. s # at /\ r.steps[s] = "skipped"
    BY <1>1, <1>2
  <2>2. PICK d \in w.deps[s] : d \notin Own(w) \/ r.steps[d] \in {"failed", "skipped"}
    BY <2>1 DEF CopyInv, Skips
  <2>3. d \in Own(w) => q.steps[d] \in {"failed", "skipped"}
    BY <1>1, <1>2, <2>2
  <2> QED
    BY <2>3
<1> QED
  BY <1>3, <1>4, <1>5 DEF CopyInv, q

\* What a thread knows of its task and of its step.
LEMMA ThreadFacts ==
  ASSUME IInv, NEW c \in Caller, NEW s \in Step
  PROVE  LET k == caller[c]
             th == k.thread[s]
         IN
         /\ TypeOK /\ wf \in Workflow /\ k \in CallerState /\ k.run \in Run /\ th \in Thread
         /\ CopyInv(k.run, tasks, wf) /\ DependenciesIn(tasks, wf) /\ tasks \in Seq(Task)
         /\ ThreadInv(s, th, k.run, tasks, wf)
         /\ \A d \in Caller, x \in Step :
              Runs(caller[d], x) => /\ caller[d].thread[x].task \in DOMAIN tasks
                                    /\ tasks[caller[d].thread[x].task].result = "open"
<1>1. /\ TypeOK /\ DependenciesIn(tasks, wf)
      /\ \A d \in Caller : CallerInv(caller[d], tasks, wf)
  BY DEF IInv
<1>2. /\ wf \in Workflow /\ tasks \in Seq(Task) /\ caller[c] \in CallerState
  BY <1>1, WorkflowAssumption DEF TypeOK
<1>3. caller[c].run \in Run /\ caller[c].thread[s] \in Thread
  BY <1>2 DEF CallerState
<1>4. CopyInv(caller[c].run, tasks, wf) /\ ThreadInv(s, caller[c].thread[s], caller[c].run, tasks, wf)
  BY <1>1 DEF CallerInv
<1>5. ASSUME NEW d \in Caller, NEW x \in Step, Runs(caller[d], x)
      PROVE  /\ caller[d].thread[x].task \in DOMAIN tasks
             /\ tasks[caller[d].thread[x].task].result = "open"
  <2>1. AtTask(caller[d].thread[x], caller[d].run, tasks, wf)
    BY <1>1 DEF CallerInv, ThreadInv
  <2> QED
    BY <1>5, <2>1 DEF AtTask, Runs
<1> QED
  BY <1>1, <1>2, <1>3, <1>4, <1>5

\* Steps that leave the tasks alone.
LEMMA MarkStep ==
  ASSUME IInv, TypeOK', UNCHANGED <<wf, tasks>>,
         NEW c \in Caller, NEW s \in Step, caller[c].pc = "level", caller[c].thread[s].pc \in Moving,
         NEW status \in StepRunStatus \ {"cancelled"},
         NEW new \in Thread, Stand(c, s, Marked(caller[c].run, caller[c].thread[s].at, status), new),
         run' \in {run, Marked(caller[c].run, caller[c].thread[s].at, status)},
         CopyInv(Marked(caller[c].run, caller[c].thread[s].at, status), tasks, wf),
         new.pc \notin {"none", "run"},
         ThreadInv(s, new, Marked(caller[c].run, caller[c].thread[s].at, status), tasks, wf)
  PROVE  IInv'
<1> DEFINE k == caller[c]
           th == k.thread[s]
           r == Marked(k.run, th.at, status)
<1>1. /\ k.run \in Run /\ th.at \in Step /\ (th.at = s \/ th.at \notin Own(wf)) /\ DependenciesIn(tasks, wf)
      /\ \A d \in Caller, x \in Step :
           Runs(caller[d], x) => tasks[caller[d].thread[x].task].result = "open"
  <2>1. k.run \in Run /\ ThreadInv(s, th, k.run, tasks, wf) /\ DependenciesIn(tasks, wf)
    BY ThreadFacts
  <2>2. th.at \in Step /\ (th.at = s \/ th.at \notin Own(wf))
    BY <2>1 DEF ThreadInv, Place
  <2>3. \A d \in Caller, x \in Step :
          Runs(caller[d], x) => tasks[caller[d].thread[x].task].result = "open"
    BY ThreadFacts
  <2> QED
    BY <2>1, <2>2, <2>3
<1>2. r \in Run /\ r.status = k.run.status /\ r.task = k.run.task
  BY <1>1, CopyTypes DEF Marked, Run
<1>3. \A x \in Own(wf) \ {s} : r.steps[x] = k.run.steps[x]
  <2>1. \A x \in Own(wf) \ {s} : x # th.at
    BY <1>1
  <2>2. r.steps = [k.run.steps EXCEPT ![th.at] = status] /\ k.run.steps \in [Step -> StepRunStatus]
    BY <1>1 DEF Marked, Run
  <2> HIDE DEF r
  <2> QED
    BY <2>1, <2>2
<1>4. Keeps(tasks, tasks')
  BY DEF Keeps
<1> HIDE DEF r
<1>5. Stand(c, s, r, new) /\ run' \in {run, r} /\ CopyInv(r, tasks, wf) /\ ThreadInv(s, new, r, tasks, wf)
  BY DEF r
<1> HIDE DEF k, th
<1> QED
  BY <1>1, <1>2, <1>3, <1>4, <1>5, ThreadStep DEF k

\* The thread that ends tells what its step has come to.
LEMMA EndMark ==
  ASSUME IInv, TypeOK', UNCHANGED <<wf, tasks>>,
         NEW c \in Caller, NEW s \in Step, caller[c].pc = "level", caller[c].thread[s].pc \in Moving,
         NEW status \in {"completed", "failed", "skipped", "waiting"},
         EndThread(c, s, Marked(caller[c].run, caller[c].thread[s].at, status)),
         run' \in {run, Marked(caller[c].run, caller[c].thread[s].at, status)},
         CopyInv(Marked(caller[c].run, caller[c].thread[s].at, status), tasks, wf)
  PROVE  IInv'
<1> DEFINE k == caller[c]
           th == k.thread[s]
           r == Marked(k.run, th.at, status)
           new == [NoThread EXCEPT !.pc = "done", !.outcome = r.steps[s]]
<1>1. /\ k.run \in Run /\ th.at \in Step /\ (th.at = s \/ th.at \notin Own(wf))
      /\ th.at # s /\ s \in Own(wf) => k.run.steps[s] = "failed"
  BY ThreadFacts DEF ThreadInv, Place
<1>2. r \in Run /\ r.steps[s] = IF s = th.at THEN status ELSE k.run.steps[s]
  <2>1. status \in StepRunStatus
    BY DEF StepRunStatus
  <2>2. r \in Run
    BY <1>1, <2>1, CopyTypes
  <2> QED
    BY <1>1, <2>2 DEF Marked, Run
<1> HIDE DEF r
<1>3. new \in Thread /\ new.pc = "done" /\ new.outcome = r.steps[s]
  BY <1>2 DEF NoThread, Thread, Run
<1>4. ThreadInv(s, new, r, tasks, wf)
  BY <1>1, <1>2, <1>3 DEF ThreadInv, Place, AtTask, Grounded, Moving
<1>5. Stand(c, s, r, new)
  BY DEF EndThread, r
<1>6. status \in StepRunStatus \ {"cancelled"}
  BY DEF StepRunStatus
<1> HIDE DEF new
<1> QED
  BY <1>3, <1>4, <1>5, <1>6, MarkStep DEF r

LEMMA StartStepInv ==
  ASSUME IInv, NEW c \in Caller, NEW s \in Step, StartStep(c, s)
  PROVE  IInv'
<1> DEFINE k == caller[c]
           th == k.thread[s]
<1>1. /\ TypeOK /\ wf \in Workflow /\ k.run \in Run /\ th \in Thread /\ CopyInv(k.run, tasks, wf)
      /\ ThreadInv(s, th, k.run, tasks, wf)
  BY ThreadFacts
<1>2. /\ k.pc = "level" /\ th.pc \in {"start", "queued"} /\ UNCHANGED <<wf, tasks>>
  BY DEF StartStep, HasThread, At
<1>3. TypeOK'
  BY <1>1, WorkTypes DEF Work, ThreadInv, Moving, Thread
<1>4. /\ th.at \in Step /\ (th.at \in Own(wf) => th.at = s /\ k.run.steps[s] \notin Terminal)
      /\ th.at # s /\ s \in Own(wf) => k.run.steps[s] = "failed"
  BY <1>1, <1>2 DEF ThreadInv, Place, Moving
<1>5. CopyInv(Marked(k.run, th.at, "running"), tasks, wf)
  BY <1>1, <1>4, MarkedInv DEF StepRunStatus, Terminal
<1>6. CASE /\ Stand(c, s, Marked(k.run, th.at, "running"), [th EXCEPT !.pc = "create", !.attempt = 1])
           /\ UNCHANGED run
  <2> DEFINE new == [th EXCEPT !.pc = "create", !.attempt = 1]
             r == Marked(k.run, th.at, "running")
  <2>1. new \in Thread /\ new.pc = "create" /\ new.at = th.at
    BY <1>1 DEF Thread
  <2>2. r.steps[s] = IF s = th.at THEN "running" ELSE k.run.steps[s]
    BY <1>1, <1>4 DEF Marked, Run
  <2>3. Grounded(s, new, tasks, wf)
    BY <1>1, <1>2, <2>1 DEF ThreadInv, Grounded, Moving
  <2> HIDE DEF new, r
  <2>4. ThreadInv(s, new, r, tasks, wf)
    BY <1>1, <1>4, <2>1, <2>2, <2>3 DEF ThreadInv, Place, AtTask, Moving
  <2> QED
    BY <1>2, <1>3, <1>5, <1>6, <2>1, <2>4, MarkStep DEF Moving, StepRunStatus, new, r
<1>7. CASE /\ th.at \in wf.optional
           /\ EndThread(c, s, Marked(k.run, th.at, "skipped"))
           /\ Save(Marked(k.run, th.at, "skipped"))
  <2>1. CopyInv(Marked(k.run, th.at, "skipped"), tasks, wf)
    BY <1>1, <1>4, <1>7, MarkedInv DEF StepRunStatus, Terminal
  <2> QED
    BY <1>2, <1>3, <1>7, <2>1, EndMark DEF Save, Moving
<1> QED
  BY <1>6, <1>7 DEF StartStep

\* The end of its task earns the step its mark.
LEMMA SettledMark ==
  ASSUME IInv, NEW c \in Caller, NEW s \in Step, caller[c].thread[s].pc = "settle",
         NEW status \in {"completed", "waiting", "running", "failed"},
         \/ status = "running"
         \/ status \in {"completed", "failed"} /\ caller[c].thread[s].outcome = status
         \/ status = "waiting" /\ caller[c].thread[s].outcome = "requires_approval"
  PROVE  CopyInv(Marked(caller[c].run, caller[c].thread[s].at, status), tasks, wf)
<1> DEFINE k == caller[c]
           th == k.thread[s]
<1>1. /\ wf \in Workflow /\ k.run \in Run /\ CopyInv(k.run, tasks, wf) /\ ThreadInv(s, th, k.run, tasks, wf)
  BY ThreadFacts
<1>2. /\ th.at \in Step /\ (th.at \in Own(wf) => th.at = s /\ k.run.steps[s] = "running")
      /\ th.task \in DOMAIN tasks /\ tasks[th.task].step = th.at
      /\ th.at \in Own(wf) => k.run.task[th.at] = th.task
      /\ th.outcome \in {"completed", "failed"} => tasks[th.task].result = th.outcome
      /\ th.outcome = "requires_approval" => tasks[th.task].result # "open"
  BY <1>1 DEF ThreadInv, Place, AtTask, Moving
<1>3. status = "completed" => DoneIn(tasks, th.at) # {}
  BY <1>2 DEF DoneIn
<1>4. status \in StepRunStatus \ {"cancelled"}
  BY DEF StepRunStatus
<1> QED
  BY <1>1, <1>2, <1>3, <1>4, MarkedInv

LEMMA SettleInv ==
  ASSUME IInv, NEW c \in Caller, NEW s \in Step, StepEnds(c, s) \/ RetryStep(c, s) \/ StepFails(c, s)
  PROVE  IInv'
<1> DEFINE k == caller[c]
           th == k.thread[s]
           r(status) == Marked(k.run, th.at, status)
<1>1. /\ TypeOK /\ wf \in Workflow /\ k.run \in Run /\ th \in Thread /\ ThreadInv(s, th, k.run, tasks, wf)
  BY ThreadFacts
<1>2. k.pc = "level" /\ th.pc = "settle" /\ UNCHANGED <<wf, tasks>>
  BY DEF StepEnds, RetryStep, StepFails, Settle, At
<1>3. TypeOK'
  BY <1>1, <1>2, WorkTypes DEF Work, ThreadInv, Moving
<1>4. /\ th.at \in Step /\ (th.at \in Own(wf) => th.at = s)
      /\ th.at # s /\ s \in Own(wf) => k.run.steps[s] = "failed"
      /\ \A d \in wf.deps[s] : DoneIn(tasks, d) # {}
  BY <1>1, <1>2 DEF ThreadInv, Place, Grounded, Moving
<1>5. \A status \in {"running", "failed"} : r(status).steps[s] = IF s = th.at THEN status ELSE k.run.steps[s]
  BY <1>1, <1>4 DEF Marked, Run
<1>6. CASE StepEnds(c, s)
  <2>1. PICK o \in {<<"completed", "completed">>, <<"requires_approval", "waiting">>} :
          Settle(c, s, o[1], o[2]) /\ EndThread(c, s, r(o[2]))
    BY <1>6 DEF StepEnds
  <2>2. /\ run' = r(o[2]) /\ th.outcome = o[1]
        /\ o[2] \in {"completed", "waiting"}
        /\ o[1] = IF o[2] = "completed" THEN "completed" ELSE "requires_approval"
    BY <2>1 DEF Settle, Save
  <2>3. CopyInv(r(o[2]), tasks, wf)
    BY <1>2, <2>2, SettledMark
  <2> QED
    BY <1>2, <1>3, <2>1, <2>2, <2>3, EndMark DEF Moving
<1>7. CASE RetryStep(c, s)
  <2> DEFINE new == [th EXCEPT !.pc = "create", !.attempt = @ + 1]
  <2>1. Stand(c, s, r("running"), new) /\ run' = r("running")
    BY <1>7 DEF RetryStep, Settle, Save
  <2>2. new \in Thread /\ new.pc = "create" /\ new.at = th.at
    <3>1. th.attempt + 1 \in Nat
      BY <1>1 DEF Thread
    <3> QED
      BY <1>1, <3>1 DEF Thread
  <2>3. CopyInv(r("running"), tasks, wf)
    BY <1>2, SettledMark
  <2> HIDE DEF new, r
  <2>4. ThreadInv(s, new, r("running"), tasks, wf)
    BY <1>4, <1>5, <2>2 DEF ThreadInv, Place, AtTask, Grounded, Moving
  <2> QED
    BY <1>2, <1>3, <2>1, <2>2, <2>3, <2>4, MarkStep DEF Moving, StepRunStatus, r
<1>8. CASE StepFails(c, s)
  <2> DEFINE comp == Compensator(th.at)
             new == [NoThread EXCEPT !.pc = "start", !.at = comp]
  <2>1. run' = r("failed") /\ th.outcome = "failed"
    BY <1>8 DEF StepFails, Settle, Save
  <2>2. CopyInv(r("failed"), tasks, wf)
    BY <1>2, <2>1, SettledMark
  <2>3. CASE comp = NoStep
    <3>1. EndThread(c, s, r("failed"))
      BY <1>8, <2>3 DEF StepFails
    <3> QED
      BY <1>2, <1>3, <2>1, <2>2, <3>1, EndMark DEF Moving
  <2>4. CASE comp # NoStep
    <3>1. Stand(c, s, r("failed"), new)
      BY <1>8, <2>4 DEF StepFails
    <3>2. comp \in Step \ Own(wf)
      BY <1>1, <1>4, <2>4 DEF Compensator, CompensatorIn, Own, Workflow
    <3>3. new \in Thread /\ new.pc = "start" /\ new.at = comp
      BY <3>2 DEF NoThread, Thread, StepRunStatus
    <3> HIDE DEF new, r, comp
    <3>4. ThreadInv(s, new, r("failed"), tasks, wf)
      BY <1>4, <1>5, <3>2, <3>3 DEF ThreadInv, Place, AtTask, Grounded, Moving
    <3> QED
      BY <1>2, <1>3, <2>1, <2>2, <3>1, <3>3, <3>4, MarkStep DEF Moving, StepRunStatus, r
  <2> QED
    BY <2>3, <2>4
<1> QED
  BY <1>6, <1>7, <1>8

\* A sequence that one more element is added to.
LEMMA Appended ==
  ASSUME NEW S, NEW q \in Seq(S), NEW e \in S, NEW n, n = Len(q) + 1
  PROVE  /\ n \in Nat /\ n \notin DOMAIN q /\ DOMAIN Append(q, e) = DOMAIN q \cup {n} /\ Append(q, e)[n] = e
         /\ \A t \in DOMAIN q : Append(q, e)[t] = q[t] /\ t < n
<1>1. Len(q) \in Nat /\ DOMAIN q = 1..Len(q)
  OBVIOUS
<1>2. Append(q, e) \in Seq(S) /\ Len(Append(q, e)) = n
  OBVIOUS
<1>3. DOMAIN Append(q, e) = 1..n
  BY <1>2
<1>4. Append(q, e)[n] = e
  OBVIOUS
<1>5. \A t \in 1..Len(q) : Append(q, e)[t] = q[t]
  OBVIOUS
<1>6. /\ n \in Nat /\ n \notin 1..Len(q) /\ 1..n = 1..Len(q) \cup {n}
      /\ \A t \in 1..Len(q) : t < n
  BY <1>1
<1> QED
  BY <1>1, <1>3, <1>4, <1>5, <1>6

\* A task is made for a step whose dependencies are done.
LEMMA CreateTaskInv ==
  ASSUME IInv, NEW c \in Caller, NEW s \in Step, CreateTask(c, s)
  PROVE  IInv'
<1> DEFINE k == caller[c]
           th == k.thread[s]
           n == Len(tasks) + 1
           r == [k.run EXCEPT !.task[th.at] = n]
           new == [th EXCEPT !.pc = "run", !.task = n]
<1>1. /\ TypeOK /\ wf \in Workflow /\ k.run \in Run /\ th \in Thread /\ tasks \in Seq(Task)
      /\ CopyInv(k.run, tasks, wf) /\ DependenciesIn(tasks, wf) /\ ThreadInv(s, th, k.run, tasks, wf)
      /\ \A d \in Caller, x \in Step :
           Runs(caller[d], x) => /\ caller[d].thread[x].task \in DOMAIN tasks
                                 /\ tasks[caller[d].thread[x].task].result = "open"
  BY ThreadFacts
<1>2. /\ k.pc = "level" /\ th.pc = "create" /\ UNCHANGED wf /\ run' = r /\ Stand(c, s, r, new)
      /\ tasks' = Append(tasks, NewTask(th.at))
  BY DEF CreateTask, At, Save
<1>3. TypeOK'
  BY <1>1, <1>2, WorkTypes DEF Work, ThreadInv, Moving
<1>4. /\ th.at \in Step /\ (th.at \in Own(wf) => th.at = s /\ k.run.steps[s] = "running")
      /\ th.at # s /\ s \in Own(wf) => k.run.steps[s] = "failed"
      /\ \A d \in wf.deps[s] : DoneIn(tasks, d) # {}
  BY <1>1, <1>2 DEF ThreadInv, Place, Grounded, Moving
<1>5. /\ n \in Nat /\ n \notin DOMAIN tasks /\ DOMAIN tasks' = DOMAIN tasks \cup {n}
      /\ tasks'[n] = NewTask(th.at)
      /\ \A t \in DOMAIN tasks : tasks'[t] = tasks[t] /\ t < n
  <2> DEFINE e == NewTask(th.at)
  <2>1. e \in Task
    BY <1>4, TaskTypes
  <2>2. tasks \in Seq(Task) /\ tasks' = Append(tasks, e)
    BY <1>1, <1>2
  <2> HIDE DEF e
  <2>3. n = Len(tasks) + 1
    OBVIOUS
  <2> HIDE DEF n
  <2>4. /\ n \in Nat /\ n \notin DOMAIN tasks /\ DOMAIN tasks' = DOMAIN tasks \cup {n} /\ tasks'[n] = e
        /\ \A t \in DOMAIN tasks : tasks'[t] = tasks[t] /\ t < n
    BY <2>1, <2>2, <2>3, Appended
  <2> QED
    BY <2>4 DEF e
<1>6. Keeps(tasks, tasks')
  BY <1>5 DEF Keeps
<1>7. /\ r \in Run /\ r.status = k.run.status /\ r.steps = k.run.steps
      /\ \A x \in Step : r.task[x] = IF x = th.at THEN n ELSE k.run.task[x]
  <2>1. r \in Run
    BY <1>1, <1>5, CopyTypes
  <2> QED
    BY <1>1, <2>1 DEF Run
<1>8. new \in Thread /\ new.pc = "run" /\ new.at = th.at /\ new.task = n
  BY <1>1, <1>5 DEF Thread
<1> HIDE DEF r, new, n
<1>9. CopyInv(r, tasks', wf)
  <2>1. CopyInv(k.run, tasks', wf)
    BY <1>1, <1>6, CopyStays
  <2>2. Own(wf) \subseteq Step
    BY DEF Own
  <2>3. Truthful(r, tasks', wf)
    BY <1>4, <1>7, <2>1, <2>2 DEF CopyInv, Truthful
  <2>4. Done(r, tasks') /\ Whole(r) /\ Skips(r, wf)
    BY <1>7, <2>1 DEF CopyInv, Done, Whole, Skips
  <2> QED
    BY <2>3, <2>4 DEF CopyInv
<1>10. DependenciesIn(tasks', wf)
  <2> SUFFICES ASSUME NEW t \in DOMAIN tasks', tasks'[t].step \in Own(wf), NEW d \in wf.deps[tasks'[t].step]
               PROVE  \E u \in DoneIn(tasks', d) : u < t
    BY DEF DependenciesIn
  <2>1. CASE t \in DOMAIN tasks
    <3>1. PICK u \in DoneIn(tasks, d) : u < t
      BY <1>1, <1>5, <2>1 DEF DependenciesIn
    <3> QED
      BY <1>6, <3>1, DoneStays
  <2>2. CASE t = n
    <3>1. PICK u \in DoneIn(tasks, d) : TRUE
      BY <1>4, <1>5, <2>2, TaskTypes
    <3>2. u < n
      BY <1>5, <3>1 DEF DoneIn
    <3> QED
      BY <1>6, <2>2, <3>1, <3>2, DoneStays
  <2> QED
    BY <1>5, <2>1, <2>2
<1>11. ThreadInv(s, new, r, tasks', wf)
  <2>1. Grounded(s, new, tasks', wf)
    BY <1>4, <1>6, DoneStays DEF Grounded
  <2>2. Place(s, new, r, wf)
    BY <1>4, <1>7, <1>8 DEF Place, Moving
  <2>3. AtTask(new, r, tasks', wf)
    <3>1. tasks'[n].step = th.at /\ tasks'[n].result = "open"
      BY <1>4, <1>5, TaskTypes
    <3> QED
      BY <1>4, <1>5, <1>7, <1>8, <3>1 DEF AtTask
  <2> QED
    BY <1>4, <1>8, <2>1, <2>2, <2>3 DEF ThreadInv
<1>12. /\ \A x \in Own(wf) \ {s} : r.steps[x] = k.run.steps[x] /\ r.task[x] = k.run.task[x]
       /\ \A d \in Caller, x \in Step : Runs(caller[d], x) =>
            tasks'[caller[d].thread[x].task].result = "open"
  BY <1>1, <1>4, <1>5, <1>7 DEF Own
<1> QED
  BY <1>2, <1>3, <1>5, <1>6, <1>7, <1>8, <1>9, <1>10, <1>11, <1>12, ThreadStep DEF Moving

\* A task that runs is run by one thread.
LEMMA RunTaskInv ==
  ASSUME IInv, NEW c \in Caller, NEW s \in Step, RunTask(c, s)
  PROVE  IInv'
<1> DEFINE k == caller[c]
           th == k.thread[s]
<1>1. /\ TypeOK /\ wf \in Workflow /\ k.run \in Run /\ th \in Thread /\ tasks \in Seq(Task)
      /\ CopyInv(k.run, tasks, wf) /\ DependenciesIn(tasks, wf) /\ ThreadInv(s, th, k.run, tasks, wf)
      /\ \A d \in Caller, x \in Step :
           Runs(caller[d], x) => /\ caller[d].thread[x].task \in DOMAIN tasks
                                 /\ tasks[caller[d].thread[x].task].result = "open"
  BY ThreadFacts
<1>2. k.pc = "level" /\ th.pc = "run" /\ UNCHANGED <<wf, run>>
  BY DEF RunTask, At
<1>3. PICK o \in {"completed", "failed", "requires_approval"} :
        /\ tasks' = [tasks EXCEPT ![th.task] = CameTo(@, o)]
        /\ Stand(c, s, k.run, [th EXCEPT !.pc = "settle", !.outcome = o])
  BY DEF RunTask
<1>4. TypeOK'
  BY <1>1, <1>2, WorkTypes DEF Work, ThreadInv, Moving
<1> DEFINE new == [th EXCEPT !.pc = "settle", !.outcome = o]
<1>5. /\ th.at \in Step /\ (th.at \in Own(wf) => th.at = s /\ k.run.steps[s] = "running" /\ k.run.task[s] = th.task)
      /\ th.at # s /\ s \in Own(wf) => k.run.steps[s] = "failed"
      /\ \A d \in wf.deps[s] : DoneIn(tasks, d) # {}
      /\ th.task \in DOMAIN tasks /\ tasks[th.task].step = th.at /\ tasks[th.task].result = "open"
  BY <1>1, <1>2 DEF ThreadInv, Place, Grounded, AtTask, Moving
<1>6. /\ DOMAIN tasks' = DOMAIN tasks
      /\ tasks'[th.task].step = th.at /\ tasks'[th.task].result = o
      /\ \A t \in DOMAIN tasks \ {th.task} : tasks'[t] = tasks[t]
  <2>1. tasks[th.task] \in Task
    BY <1>1, <1>5
  <2>2. CameTo(tasks[th.task], o).step = th.at /\ CameTo(tasks[th.task], o).result = o
    BY <1>5, <2>1, TaskTypes DEF Result
  <2> QED
    BY <1>3, <1>5, <2>2
<1>7. Keeps(tasks, tasks')
  BY <1>5, <1>6 DEF Keeps
<1>8. new \in Thread /\ new.pc = "settle" /\ new.at = th.at /\ new.task = th.task /\ new.outcome = o
  BY <1>1 DEF Thread, TaskStatus
<1> HIDE DEF new
<1>9. CopyInv(k.run, tasks', wf) /\ DependenciesIn(tasks', wf)
  BY <1>1, <1>6, <1>7, CopyStays, DependenciesStay
<1>10. ThreadInv(s, new, k.run, tasks', wf)
  <2>1. Grounded(s, new, tasks', wf)
    BY <1>5, <1>7, DoneStays DEF Grounded
  <2>2. Place(s, new, k.run, wf)
    BY <1>5, <1>8 DEF Place, Moving
  <2>3. AtTask(new, k.run, tasks', wf)
    BY <1>5, <1>6, <1>8 DEF AtTask
  <2> QED
    BY <1>5, <1>8, <2>1, <2>2, <2>3 DEF ThreadInv
<1>11. \A d \in Caller, x \in Step : (d # c \/ x # s) /\ Runs(caller[d], x) =>
         tasks'[caller[d].thread[x].task].result = "open"
  <2>1. Runs(k, s)
    BY <1>2 DEF Runs
  <2>2. \A d \in Caller, x \in Step : (d # c \/ x # s) /\ Runs(caller[d], x) =>
          caller[d].thread[x].task # th.task
    BY <2>1 DEF IInv, Apart
  <2> QED
    BY <1>1, <1>6, <2>2
<1>12. Stand(c, s, k.run, new)
  BY <1>3 DEF new
<1> HIDE DEF th
<1> QED
  <2>1. k.pc = "level" /\ k.thread[s].pc \in Moving /\ UNCHANGED wf /\ run' \in {run, k.run}
    BY <1>2 DEF Moving, th
  <2>2. k.run \in Run /\ new \in Thread /\ new.pc # "none" /\ new.pc # "run"
    BY <1>1, <1>8
  <2> QED
    BY <1>4, <1>7, <1>9, <1>10, <1>11, <1>12, <2>1, <2>2, ThreadStep

\* A human decides what no thread runs.
LEMMA DecideInv == IInv /\ Written(tasks) /\ Decide => IInv'
<1> SUFFICES ASSUME IInv, Written(tasks), Decide
             PROVE  IInv'
  OBVIOUS
<1>1. PICK t \in DOMAIN tasks, o \in {"completed", "failed"} :
        tasks[t].status = "requires_approval" /\ tasks' = [tasks EXCEPT ![t] = CameTo(@, o)]
  BY DEF Decide
<1>2. UNCHANGED <<wf, run, caller, calls, crashes, overlapped>>
  BY DEF Decide
<1>3. /\ TypeOK /\ tasks \in Seq(Task) /\ CopyInv(run, tasks, wf) /\ EndOf(run, wf) /\ DependenciesIn(tasks, wf)
      /\ \A c \in Caller : CallerInv(caller[c], tasks, wf)
  BY DEF IInv, TypeOK
<1>4. \A u \in DOMAIN tasks : tasks[u] \in Task
  BY <1>3
<1>5. \A task \in Task : CameTo(task, o) \in Task /\ CameTo(task, o).step = task.step /\ CameTo(task, o).result = o
  BY TaskTypes DEF Result
<1>6. tasks' = [u \in DOMAIN tasks |-> IF u = t THEN CameTo(tasks[u], o) ELSE tasks[u]]
  BY <1>1
<1>7. tasks' \in Seq(Task)
  BY <1>3, <1>4, <1>5, <1>6
<1>8. /\ DOMAIN tasks' = DOMAIN tasks /\ tasks'[t].step = tasks[t].step /\ tasks'[t].result = o
      /\ \A u \in DOMAIN tasks \ {t} : tasks'[u] = tasks[u]
  BY <1>4, <1>5, <1>6
<1>14. tasks[t].result = "requires_approval"
  BY <1>1 DEF Written
<1>9. Keeps(tasks, tasks')
  BY <1>1, <1>8, <1>14 DEF Keeps
<1>10. \A c \in Caller : CallerInv(caller[c], tasks', wf)
  <2> SUFFICES ASSUME NEW c \in Caller
               PROVE  CallerInv(caller[c], tasks', wf)
    OBVIOUS
  <2>1. \A s \in Step : Runs(caller[c], s) => tasks'[caller[c].thread[s].task].result = "open"
    BY <1>3, <1>8, <1>14 DEF CallerInv, ThreadInv, AtTask, Runs
  <2> QED
    BY <1>3, <1>9, <2>1, CallerStays
<1>11. TypeOK'
  BY <1>2, <1>3, <1>7 DEF TypeOK
<1>12. CopyInv(run, tasks', wf) /\ DependenciesIn(tasks', wf)
  BY <1>3, <1>8, <1>9, CopyStays, DependenciesStay
<1>13. Apart'
  BY <1>2 DEF IInv, Apart, Runs
<1> QED
  BY <1>2, <1>3, <1>10, <1>11, <1>12, <1>13 DEF IInv

-----------------------------------------------------------------------------
(* The invariant holds, and says what the run promises *)

LEMMA InitInv == Init => IInv
<1> SUFFICES ASSUME Init
             PROVE  IInv
  OBVIOUS
<1>1. TypeOK
  BY InitTypes
<1>2. run = NoRun /\ tasks = <<>> /\ \A c \in Caller : caller[c] = Idle
  BY DEF Init
<1>3. CopyInv(run, tasks, wf) /\ \A c \in Caller : CallerInv(caller[c], tasks, wf)
  BY <1>2, NewCopies
<1>4. Apart
  BY <1>2 DEF Apart, Runs, Idle, NoThreads, NoThread
<1>5. DependenciesIn(tasks, wf) /\ EndOf(run, wf)
  BY <1>2 DEF DependenciesIn, EndOf, NoRun, NewRun
<1> QED
  BY <1>1, <1>3, <1>4, <1>5 DEF IInv

\* One task comes to something, the others stay.
LEMMA TaskCameTo ==
  ASSUME TypeOK, NEW t \in DOMAIN tasks, NEW o \in Result, tasks' = [tasks EXCEPT ![t] = CameTo(@, o)]
  PROVE  /\ DOMAIN tasks' = DOMAIN tasks /\ tasks'[t].step = tasks[t].step
         /\ tasks'[t].status = o /\ tasks'[t].result = o
         /\ \A u \in DOMAIN tasks \ {t} : tasks'[u] = tasks[u]
<1>1. tasks[t] \in Task
  BY DEF TypeOK
<1> QED
  BY <1>1, TaskTypes

\* While it walks through the tasks, a call of cancel keeps its copy.
LEMMA Cancelling ==
  ASSUME TypeOK, NEW c \in Caller, (\E s \in Step : CancelTask(c, s)) \/ CancelTaskSave(c)
  PROVE  /\ caller[c].pc = "cancel" /\ caller'[c].pc = "cancel"
         /\ caller'[c].run = caller[c].run /\ caller'[c].thread = caller[c].thread
         /\ \A d \in Caller \ {c} : caller'[d] = caller[d]
         /\ UNCHANGED <<wf, run, calls, crashes, overlapped>>
         /\ DOMAIN tasks' = DOMAIN tasks
         /\ \A t \in DOMAIN tasks : /\ tasks'[t].step = tasks[t].step /\ tasks'[t].result = tasks[t].result
                                    /\ tasks'[t].status \in {tasks[t].status, "cancelled"}
<1>1. caller[c] \in CallerState
  BY DEF TypeOK
<1>2. CASE \E s \in Step : CancelTask(c, s)
  <2>1. PICK resolved, t : caller' = [caller EXCEPT ![c].resolved = resolved, ![c].task = t]
    BY <1>2 DEF CancelTask
  <2>2. PICK k : k = [caller[c] EXCEPT !.resolved = resolved, !.task = t]
    OBVIOUS
  <2>3. k.pc = caller[c].pc /\ k.run = caller[c].run /\ k.thread = caller[c].thread
    BY <1>1, <2>2 DEF CallerState
  <2>4. caller'[c] = k /\ \A d \in Caller \ {c} : caller'[d] = caller[d]
    BY <2>1, <2>2 DEF TypeOK
  <2>5. caller[c].pc = "cancel" /\ UNCHANGED <<wf, run, tasks, calls, crashes, overlapped>>
    BY <1>2 DEF CancelTask
  <2> QED
    BY <2>3, <2>4, <2>5
<1>3. CASE CancelTaskSave(c)
  <2>1. PICK k : k = [caller[c] EXCEPT !.task = 0]
    OBVIOUS
  <2>2. k.pc = caller[c].pc /\ k.run = caller[c].run /\ k.thread = caller[c].thread
    BY <1>1, <2>1 DEF CallerState
  <2>3. caller'[c] = k /\ \A d \in Caller \ {c} : caller'[d] = caller[d]
    BY <1>3, <2>1 DEF CancelTaskSave, TypeOK
  <2>4. caller[c].pc = "cancel" /\ UNCHANGED <<wf, run, calls, crashes, overlapped>>
    BY <1>3 DEF CancelTaskSave
  <2> QED
    BY <1>3, <2>2, <2>3, <2>4, CancelledTask
<1> QED
  BY <1>2, <1>3

LEMMA WrittenNext == TypeOK /\ Written(tasks) /\ [Next]_vars => Written(tasks)'
<1> SUFFICES ASSUME TypeOK, Written(tasks), [Next]_vars
             PROVE  Written(tasks')
  OBVIOUS
<1>1. \A t \in DOMAIN tasks : tasks[t] \in Task
  BY DEF TypeOK
<1>2. ASSUME UNCHANGED tasks
      PROVE  Written(tasks')
  BY <1>2
<1>3. ASSUME NEW t, NEW o \in Result, tasks' = [tasks EXCEPT ![t] = CameTo(@, o)]
      PROVE  Written(tasks')
  BY <1>1, <1>3, TaskTypes DEF Written
<1>4. ASSUME NEW c \in Caller, CancelTaskSave(c)
      PROVE  Written(tasks')
  BY <1>4, CancelledTask DEF Written
<1>5. ASSUME NEW c \in Caller, NEW s \in Step, CreateTask(c, s)
      PROVE  Written(tasks')
  <2>1. PICK e : tasks' = Append(tasks, e) /\ e.status = e.result
    BY <1>5 DEF CreateTask, NewTask
  <2>2. tasks \in Seq(Task)
    BY DEF TypeOK
  <2>3. /\ DOMAIN tasks' = DOMAIN tasks \cup {Len(tasks) + 1} /\ tasks'[Len(tasks) + 1] = e
        /\ \A t \in DOMAIN tasks : tasks'[t] = tasks[t]
    BY <2>1, <2>2
  <2> QED
    BY <2>1, <2>3 DEF Written
<1>6. ASSUME NEW c \in Caller, NEW s \in Step, RunTask(c, s)
      PROVE  Written(tasks')
  <2>1. PICK o \in Result : tasks' = [tasks EXCEPT ![caller[c].thread[s].task] = CameTo(@, o)]
    BY <1>6 DEF RunTask, Result
  <2> QED
    BY <1>3, <2>1
<1>7. CASE Decide
  <2>1. PICK t \in DOMAIN tasks, o \in Result : tasks' = [tasks EXCEPT ![t] = CameTo(@, o)]
    BY <1>7 DEF Decide, Result
  <2> QED
    BY <1>3, <2>1
<1>8. ASSUME NEW c \in Caller, NEW s \in Step, StartStep(c, s) \/ StepEnds(c, s) \/ RetryStep(c, s) \/ StepFails(c, s)
      PROVE  UNCHANGED tasks
  BY <1>8 DEF StartStep, StepEnds, RetryStep, StepFails, Settle
<1>9. ASSUME NEW c \in Caller,
             \/ Start(c) \/ Resume(c) \/ Cancel(c) \/ ResumeSave(c) \/ Crash(c) \/ CancelSave(c)
             \/ \E s \in Step : CancelTask(c, s)
      PROVE  UNCHANGED tasks
  BY <1>9 DEF Start, Resume, Cancel, NewCall, ResumeSave, Crash, CancelSave, CancelTask
<1>10. ASSUME NEW c \in Caller, Begin(c) \/ EnterLevel(c) \/ PauseRun(c) \/ FailRun(c) \/ NextLevel(c) \/ FinishRun(c)
       PROVE  UNCHANGED tasks
  BY <1>10 DEF Begin, EnterLevel, PauseRun, FailRun, NextLevel, FinishRun
<1>11. ASSUME NEW c \in Caller, NEW s \in Step, Work(c, s)
       PROVE  Written(tasks')
  BY <1>2, <1>5, <1>6, <1>8, <1>11 DEF Work
<1>12. CASE UNCHANGED vars
  BY <1>2, <1>12 DEF vars
<1>13. ASSUME NEW c \in Caller, Execute(c)
       PROVE  Written(tasks')
  BY <1>2, <1>4, <1>9, <1>10, <1>11, <1>13 DEF Execute
<1> QED
  BY <1>2, <1>7, <1>9, <1>12, <1>13 DEF Next, Quiescent

LEMMA NextInv == IInv /\ Written(tasks) /\ [Next]_vars => IInv'
<1> SUFFICES ASSUME IInv, Written(tasks), [Next]_vars
             PROVE  IInv'
  OBVIOUS
<1>1. ASSUME NEW c \in Caller, Start(c) \/ Resume(c) \/ Cancel(c) \/ ResumeSave(c) \/ Crash(c)
      PROVE  IInv'
  BY <1>1, CallInv
<1>2. ASSUME NEW c \in Caller, (\E s \in Step : CancelTask(c, s)) \/ CancelTaskSave(c) \/ CancelSave(c)
      PROVE  IInv'
  BY <1>2, CancelTaskInv, CancelTaskSaveInv, CancelInv
<1>3. ASSUME NEW c \in Caller, Begin(c) \/ EnterLevel(c) \/ PauseRun(c) \/ FailRun(c) \/ NextLevel(c) \/ FinishRun(c)
      PROVE  IInv'
  BY <1>3, BeginInv, EnterLevelInv, EndingInv, NextLevelInv
<1>4. ASSUME NEW c \in Caller, NEW s \in Step, Work(c, s)
      PROVE  IInv'
  BY <1>4, StartStepInv, CreateTaskInv, RunTaskInv, SettleInv DEF Work
<1>5. CASE Decide
  BY <1>5, DecideInv
<1>6. CASE UNCHANGED vars
  BY <1>6 DEF vars, IInv, TypeOK, Apart, Runs
<1> QED
  BY <1>1, <1>2, <1>3, <1>4, <1>5, <1>6 DEF Next, Execute, Quiescent

LEMMA Invariant == Spec => [](IInv /\ Written(tasks))
<1>1. Init => IInv /\ Written(tasks)
  BY InitInv DEF Init, Written
<1>2. IInv /\ Written(tasks) /\ [Next]_vars => (IInv /\ Written(tasks))'
  BY NextInv, WrittenNext DEF IInv
<1> QED
  BY <1>1, <1>2, PTL DEF Spec

\* What the invariant says of the tasks and of the row is what the workflow promises.
LEMMA Promises == IInv => TypeOK /\ DependenciesFirst /\ EndIsEarned
<1> SUFFICES ASSUME IInv
             PROVE  TypeOK /\ DependenciesFirst /\ EndIsEarned
  OBVIOUS
<1>1. TypeOK /\ CopyInv(run, tasks, wf) /\ DependenciesIn(tasks, wf) /\ EndOf(run, wf)
  BY DEF IInv
<1>2. Own(wf) = Step \ Compensators
  BY DEF Own, Compensators, Compensator, CompensatorIn
<1>3. \A t \in DOMAIN tasks : tasks[t].step \in Step
  <2>1. \A t \in DOMAIN tasks : tasks[t] \in Task
    BY <1>1 DEF TypeOK
  <2> QED
    BY <2>1 DEF Task
<1>4. \A s : Completed(s) = DoneIn(tasks, s)
  BY DEF Completed, TasksOf, DoneIn
<1>5. DependenciesFirst
  BY <1>1, <1>2, <1>3, <1>4 DEF DependenciesFirst, DependenciesIn
<1>7. \A s \in Step : wf.deps[s] \subseteq Step
  BY <1>1, WorkflowAssumption DEF TypeOK, Workflow
<1>8. EndIsEarned
  BY <1>1, <1>2, <1>7 DEF EndIsEarned, EndOf
<1> QED
  BY <1>1, <1>5, <1>8

-----------------------------------------------------------------------------
(* The task's own row.  While calls do not overlap, what has ended is not  *)
(* cancelled: cancel saw it, and nobody went on with it since.             *)

Ended == {"completed", "failed"}

\* What a copy shows as ended, or a thread has seen end, the tasks show too.
Wrote(r, ts, w) == \A s \in Own(w) : r.steps[s] \in Ended => ts[r.task[s]].status = r.steps[s]
Settled(k, ts) ==
  \A s \in Step : k.thread[s].pc = "settle" /\ k.thread[s].outcome \in Ended =>
                    ts[k.thread[s].task].status = k.thread[s].outcome

\* A call of cancel has the row as it is, and is about to cancel no task that ended.
Cancels(k, r, w) ==
  k.pc = "cancel" =>
    k.run = r /\ (k.task # 0 => \A s \in Own(w) : r.task[s] = k.task => r.steps[s] \notin Ended)

AloneCaller(k, r, ts, w) == k.pc # "idle" => Wrote(k.run, ts, w) /\ Settled(k, ts) /\ Cancels(k, r, w)

AloneInv ==
  ~overlapped =>
    /\ \A c, d \in Caller : caller[c].pc # "idle" /\ caller[d].pc # "idle" => c = d
    /\ Wrote(run, tasks, wf) /\ \A c \in Caller : AloneCaller(caller[c], run, tasks, wf)

\* A copy q that shows nothing ended that r does not.
Shows(q, r, w) == \A s \in Own(w) : q.steps[s] \in Ended => q.steps[s] = r.steps[s] /\ q.task[s] = r.task[s]

LEMMA WroteShows ==
  ASSUME NEW q, NEW r, NEW ts, NEW w, Wrote(r, ts, w), Shows(q, r, w)
  PROVE  Wrote(q, ts, w)
BY DEF Wrote, Shows

\* The one caller at work goes on.
LEMMA AloneStep ==
  ASSUME AloneInv, NEW c \in Caller, caller[c].pc # "idle", \A d \in Caller \ {c} : caller'[d] = caller[d],
         UNCHANGED <<wf, overlapped>>,
         ~overlapped => Wrote(run', tasks', wf) /\ AloneCaller(caller'[c], run', tasks', wf)
  PROVE  AloneInv'
<1> SUFFICES ASSUME ~overlapped
             PROVE  /\ \A d, e \in Caller : caller'[d].pc # "idle" /\ caller'[e].pc # "idle" => d = e
                    /\ Wrote(run', tasks', wf) /\ \A d \in Caller : AloneCaller(caller'[d], run', tasks', wf)
  BY DEF AloneInv
<1>1. \A d \in Caller \ {c} : caller'[d].pc = "idle"
  BY DEF AloneInv
<1> QED
  BY <1>1 DEF AloneCaller

\* The same of steps that touch no task, and after which no thread has seen one end.
LEMMA AloneWalk ==
  ASSUME AloneInv, NEW c \in Caller, caller[c].pc # "idle", \A d \in Caller \ {c} : caller'[d] = caller[d],
         UNCHANGED <<wf, overlapped, tasks>>,
         run' = run \/ Shows(run', caller[c].run, wf),
         \/ caller'[c].pc = "idle"
         \/ /\ caller'[c].pc # "cancel" /\ Shows(caller'[c].run, caller[c].run, wf)
            /\ \A s \in Step : caller'[c].thread[s].pc # "settle"
  PROVE  AloneInv'
<1>1. ASSUME ~overlapped
      PROVE  Wrote(run', tasks', wf) /\ AloneCaller(caller'[c], run', tasks', wf)
  <2>1. Wrote(run, tasks, wf) /\ Wrote(caller[c].run, tasks, wf)
    BY <1>1 DEF AloneInv, AloneCaller
  <2>2. Wrote(run', tasks, wf)
    BY <2>1, WroteShows
  <2>3. AloneCaller(caller'[c], run', tasks, wf)
    BY <2>1, WroteShows DEF AloneCaller, Settled, Cancels
  <2> QED
    BY <2>2, <2>3
<1> QED
  BY <1>1, AloneStep

\* The copy is saved, or changed by what no step has come to.
LEMMA AloneWalks ==
  ASSUME IInv, AloneInv, NEW c \in Caller,
         ResumeSave(c) \/ CancelSave(c) \/ Begin(c) \/ EnterLevel(c)
         \/ PauseRun(c) \/ FailRun(c) \/ NextLevel(c) \/ FinishRun(c) \/ Crash(c)
  PROVE  AloneInv'
<1> DEFINE k == caller[c]
<1>1. /\ TypeOK /\ k \in CallerState /\ k.run \in Run /\ Own(wf) \subseteq Step
      /\ k.pc # "level" => k.thread = NoThreads
  BY DEF IInv, TypeOK, CallerState, CallerInv, Status, Own
<1>2. \A s \in Step : NoThreads[s].pc = "none" /\ NoThread.pc = "none"
  BY DEF NoThreads, NoThread
<1>3. Idle.pc = "idle"
  BY DEF Idle
<1>4. \A status : Shows([k.run EXCEPT !.status = status], k.run, wf)
  BY <1>1 DEF Shows, Run
<1>5. Shows(k.run, k.run, wf)
  BY DEF Shows
<1>6. CASE ResumeSave(c)
  <2>1. PICK new : new = [k EXCEPT !.pc = "begin"]
    OBVIOUS
  <2>2. new.pc = "begin" /\ new.run = k.run /\ new.thread = k.thread
    BY <1>1, <2>1 DEF CallerState
  <2>3. /\ k.pc = "resume" /\ run' = k.run /\ caller'[c] = new /\ \A d \in Caller \ {c} : caller'[d] = caller[d]
        /\ UNCHANGED <<wf, overlapped, tasks>>
    BY <1>1, <1>6, <2>1 DEF ResumeSave, Save, TypeOK
  <2>4. \A s \in Step : caller'[c].thread[s].pc # "settle"
    BY <1>1, <1>2, <2>2, <2>3
  <2> QED
    BY <1>5, <2>2, <2>3, <2>4, AloneWalk
<1>7. CASE CancelSave(c)
  <2> DEFINE q == [k.run EXCEPT !.status = "cancelled",
                     !.steps = [s \in Step |-> IF k.run.steps[s] \in Terminal THEN k.run.steps[s] ELSE "cancelled"]]
  <2>1. Shows(q, k.run, wf)
    BY <1>1 DEF Shows, Run, Ended
  <2>2. run' = q /\ UNCHANGED <<wf, overlapped, tasks>> /\ k.pc = "cancel"
    BY <1>7 DEF CancelSave, Save
  <2>3. caller'[c].pc = "idle" /\ \A d \in Caller \ {c} : caller'[d] = caller[d]
    BY <1>1, <1>3, <1>7 DEF CancelSave, Return, TypeOK
  <2> HIDE DEF q
  <2> QED
    BY <2>1, <2>2, <2>3, AloneWalk
<1>8. CASE Begin(c)
  <2>1. PICK r : r = [k.run EXCEPT !.status = "running"]
    OBVIOUS
  <2>2. PICK new : new = [k EXCEPT !.pc = "enter", !.run = r, !.resolved = {}]
    OBVIOUS
  <2>3. new.pc = "enter" /\ new.run = r /\ new.thread = k.thread
    BY <1>1, <2>2 DEF CallerState
  <2>4. /\ k.pc = "begin" /\ run' = r /\ caller'[c] = new /\ \A d \in Caller \ {c} : caller'[d] = caller[d]
        /\ UNCHANGED <<wf, overlapped, tasks>>
    BY <1>1, <1>8, <2>1, <2>2 DEF Begin, Save, TypeOK
  <2>5. \A s \in Step : caller'[c].thread[s].pc # "settle"
    BY <1>1, <1>2, <2>3, <2>4
  <2> QED
    BY <1>4, <2>1, <2>3, <2>4, <2>5, AloneWalk
<1>9. CASE EnterLevel(c)
  <2> DEFINE level == Level(k.resolved)
             r == SkipBlocked(k.run, level)
             pending == PendingIn(r, level)
             thread == [s \in Step |-> IF s \in pending THEN [NoThread EXCEPT !.pc = "queued", !.at = s] ELSE NoThread]
             new == [k EXCEPT !.run = r, !.pc = IF pending = {} THEN "enter" ELSE "level",
                              !.resolved = IF pending = {} THEN @ \cup level ELSE @, !.thread = thread]
  <2>1. k.pc = "enter" /\ run' \in {run, r} /\ caller' = [caller EXCEPT ![c] = new] /\ UNCHANGED <<wf, overlapped, tasks>>
    BY <1>9 DEF EnterLevel
  <2>2. Shows(r, k.run, wf)
    BY <1>1 DEF Shows, SkipBlocked, Run, Ended
  <2>3. \A s \in Step : thread[s].pc # "settle"
    BY DEF NoThread
  <2> HIDE DEF r, thread, pending, level
  <2>4. new.run = r /\ new.pc \in {"enter", "level"} /\ new.thread = thread
    BY <1>1 DEF CallerState
  <2> HIDE DEF new
  <2>5. caller'[c] = new /\ \A d \in Caller \ {c} : caller'[d] = caller[d]
    BY <1>1, <2>1 DEF TypeOK
  <2> HIDE DEF k
  <2> QED
    BY <2>1, <2>2, <2>3, <2>4, <2>5, AloneWalk DEF k
<1>10. CASE PauseRun(c) \/ FailRun(c) \/ FinishRun(c)
  <2>1. PICK status : run' = [k.run EXCEPT !.status = status]
    BY <1>10 DEF PauseRun, FailRun, FinishRun, Save
  <2>2. k.pc # "idle" /\ UNCHANGED <<wf, overlapped, tasks>>
    BY <1>10 DEF PauseRun, FailRun, FinishRun, LevelEnded
  <2>3. caller'[c].pc = "idle" /\ \A d \in Caller \ {c} : caller'[d] = caller[d]
    BY <1>1, <1>3, <1>10 DEF PauseRun, FailRun, FinishRun, Return, TypeOK
  <2> QED
    BY <1>4, <2>1, <2>2, <2>3, AloneWalk
<1>11. CASE NextLevel(c)
  <2>1. PICK resolved : caller' = [caller EXCEPT ![c].pc = "enter", ![c].resolved = resolved, ![c].thread = NoThreads]
    BY <1>11 DEF NextLevel
  <2>2. PICK new : new = [k EXCEPT !.pc = "enter", !.resolved = resolved, !.thread = NoThreads]
    OBVIOUS
  <2>3. new.pc = "enter" /\ new.run = k.run /\ new.thread = NoThreads
    BY <1>1, <2>2 DEF CallerState
  <2>4. caller'[c] = new /\ \A d \in Caller \ {c} : caller'[d] = caller[d]
    BY <1>1, <2>1, <2>2 DEF TypeOK
  <2>5. k.pc = "level" /\ UNCHANGED <<wf, overlapped, tasks, run>>
    BY <1>11 DEF NextLevel, LevelEnded
  <2>6. \A s \in Step : caller'[c].thread[s].pc # "settle"
    BY <1>2, <2>3, <2>4
  <2> QED
    BY <1>5, <2>3, <2>4, <2>5, <2>6, AloneWalk
<1>12. CASE Crash(c)
  <2>1. k.pc # "idle" /\ UNCHANGED <<wf, overlapped, tasks, run>>
    BY <1>12 DEF Crash
  <2>2. caller'[c].pc = "idle" /\ \A d \in Caller \ {c} : caller'[d] = caller[d]
    BY <1>1, <1>3, <1>12 DEF Crash, Return, TypeOK
  <2> QED
    BY <2>1, <2>2, AloneWalk
<1> QED
  BY <1>6, <1>7, <1>8, <1>9, <1>10, <1>11, <1>12

\* A call that begins is the only one, or has met another.
LEMMA AloneBegins ==
  ASSUME TypeOK, AloneInv, NEW c \in Caller, NEW pc \in {"begin", "resume", "cancel"}, NEW r, NewCall(c, pc, r),
         run' = run \/ Shows(run', run, wf), Shows(r, run, wf), pc = "cancel" => r = run'
  PROVE  AloneInv'
<1>1. /\ UNCHANGED <<wf, tasks>> /\ overlapped' = (overlapped \/ \E d \in Caller : caller[d].pc # "idle")
      /\ \A d \in Caller \ {c} : caller'[d] = caller[d]
      /\ caller'[c] = [Idle EXCEPT !.pc = pc, !.run = r]
  BY DEF NewCall, TypeOK
<1>2. /\ caller'[c].pc = pc /\ caller'[c].run = r /\ caller'[c].task = 0
      /\ \A s \in Step : caller'[c].thread[s].pc = "none"
  BY <1>1 DEF Idle, NoThreads, NoThread
<1> SUFFICES ASSUME ~overlapped'
             PROVE  /\ \A d, e \in Caller : caller'[d].pc # "idle" /\ caller'[e].pc # "idle" => d = e
                    /\ Wrote(run', tasks, wf) /\ \A d \in Caller : AloneCaller(caller'[d], run', tasks, wf)
  BY <1>1 DEF AloneInv
<1>3. ~overlapped /\ \A d \in Caller \ {c} : caller'[d].pc = "idle"
  BY <1>1
<1>4. Wrote(run, tasks, wf)
  BY <1>3 DEF AloneInv
<1>5. Wrote(run', tasks, wf) /\ Wrote(r, tasks, wf)
  BY <1>4, WroteShows
<1>6. AloneCaller(caller'[c], run', tasks, wf)
  BY <1>2, <1>5 DEF AloneCaller, Settled, Cancels
<1> QED
  BY <1>3, <1>5, <1>6 DEF AloneCaller

LEMMA AloneCalls ==
  ASSUME IInv, AloneInv, NEW c \in Caller, Start(c) \/ Resume(c) \/ Cancel(c)
  PROVE  AloneInv'
<1>1. TypeOK /\ run \in Run /\ Own(wf) \subseteq Step
  BY DEF IInv, TypeOK, Own
<1>2. Shows(NewRun, run, wf) /\ Shows(run, run, wf) /\ Shows(Reopened(run), run, wf)
  <2>1. \A s \in Own(wf) : NewRun.steps[s] = "pending"
    BY <1>1 DEF NewRun
  <2>2. \A s \in Own(wf) : /\ Reopened(run).task[s] = run.task[s]
                             /\ Reopened(run).steps[s] \in {"pending", run.steps[s]}
    BY <1>1 DEF Reopened, Run
  <2> QED
    BY <2>1, <2>2 DEF Shows, Ended
<1> QED
  BY <1>1, <1>2, AloneBegins DEF Start, Resume, Cancel, Save

\* cancel looks at a task before it cancels it.
LEMMA AloneCancels ==
  ASSUME IInv, AloneInv, NEW c \in Caller, (\E s \in Step : CancelTask(c, s)) \/ CancelTaskSave(c)
  PROVE  AloneInv'
<1> DEFINE k == caller[c]
           new == caller'[c]
<1>1. /\ TypeOK /\ k \in CallerState /\ Truthful(run, tasks, wf) /\ (k.pc # "level" => k.thread = NoThreads)
      /\ \A s \in Step : NoThreads[s].pc = "none"
  BY DEF IInv, TypeOK, CallerInv, Status, CopyInv, NoThreads, NoThread
<1>2. /\ k.pc = "cancel" /\ new.pc = "cancel" /\ new.run = k.run /\ new.thread = k.thread
      /\ \A d \in Caller \ {c} : caller'[d] = caller[d]
      /\ UNCHANGED <<wf, run, overlapped>>
  BY <1>1, Cancelling
<1>3. \A s \in Step : new.thread[s].pc # "settle"
  BY <1>1, <1>2
<1>4. ASSUME ~overlapped
      PROVE  Wrote(run, tasks', wf) /\ Cancels(new, run, wf)
  <2>1. Wrote(run, tasks, wf) /\ k.run = run /\ Cancels(k, run, wf)
    BY <1>2, <1>4 DEF AloneInv, AloneCaller, Cancels
  <2>2. CASE CancelTaskSave(c)
    <3>1. k.task # 0 /\ new.task = 0
      <4>1. PICK n : n = [k EXCEPT !.task = 0]
        OBVIOUS
      <4>2. n.task = 0
        BY <1>1, <4>1 DEF CallerState
      <4> QED
        BY <1>1, <2>2, <4>1, <4>2 DEF CancelTaskSave, TypeOK
    <3>2. \A s \in Own(wf) : run.steps[s] \in Ended => run.task[s] \in DOMAIN tasks /\ run.task[s] # k.task
      BY <1>1, <1>2, <2>1, <3>1 DEF Truthful, Cancels, Ended
    <3>3. \A t \in DOMAIN tasks : t # k.task => tasks'[t].status = tasks[t].status
      BY <1>1, <2>2, CancelledTask
    <3> QED
      BY <1>2, <2>1, <3>1, <3>2, <3>3 DEF Wrote, Cancels
  <2>3. ASSUME NEW s \in Step, CancelTask(c, s)
        PROVE  Wrote(run, tasks', wf) /\ Cancels(new, run, wf)
    <3>1. PICK live \in BOOLEAN :
            live <=> tasks[k.run.task[s]].status \in {"open", "requires_approval"}
      OBVIOUS
    <3>2. PICK t : t = IF live THEN k.run.task[s] ELSE 0
      OBVIOUS
    <3>3. caller' = [caller EXCEPT ![c].resolved = @ \cup {s}, ![c].task = t] /\ UNCHANGED tasks
      BY <2>3, <3>1, <3>2 DEF CancelTask
    <3>4. PICK n : n = [k EXCEPT !.resolved = @ \cup {s}, !.task = t]
      OBVIOUS
    <3>5. n.task = t
      BY <1>1, <3>4 DEF CallerState
    <3>6. new.task = t
      BY <1>1, <3>3, <3>4, <3>5 DEF TypeOK
    <3>7. t # 0 => tasks[t].status \notin Ended
      BY <3>1, <3>2 DEF Ended
    <3>8. t # 0 => \A x \in Own(wf) : run.task[x] = t => run.steps[x] \notin Ended
      BY <2>1, <3>7 DEF Wrote
    <3> QED
      BY <1>2, <2>1, <3>3, <3>6, <3>8 DEF Cancels
  <2> QED
    BY <2>2, <2>3
<1>5. ASSUME ~overlapped
      PROVE  AloneCaller(new, run, tasks', wf)
  <2>1. k.run = run
    BY <1>2, <1>5 DEF AloneInv, AloneCaller, Cancels
  <2> QED
    BY <1>2, <1>3, <1>4, <1>5, <2>1 DEF AloneCaller, Settled
<1> QED
  BY <1>2, <1>4, <1>5, AloneStep

\* A thread takes a step.
LEMMA AloneThread ==
  ASSUME IInv, AloneInv, NEW c \in Caller, NEW s \in Step, caller[c].pc = "level", UNCHANGED <<wf, overlapped>>,
         NEW r \in Run, NEW new \in Thread, Stand(c, s, r, new), run' \in {run, r},
         ~overlapped =>
           /\ Wrote(run, tasks', wf) /\ Wrote(r, tasks', wf)
           /\ new.pc = "settle" /\ new.outcome \in Ended => tasks'[new.task].status = new.outcome
           /\ \A x \in Step \ {s} : LET th == caller[c].thread[x] IN
                th.pc = "settle" /\ th.outcome \in Ended => tasks'[th.task].status = th.outcome
  PROVE  AloneInv'
<1>1. /\ caller'[c].pc = "level" /\ caller'[c].run = r /\ caller'[c].thread[s] = new
      /\ \A x \in Step \ {s} : caller'[c].thread[x] = caller[c].thread[x]
      /\ \A d \in Caller \ {c} : caller'[d] = caller[d]
  BY Standing DEF IInv
<1>2. ASSUME ~overlapped
      PROVE  Settled(caller'[c], tasks')
  BY <1>1, <1>2 DEF Settled
<1>3. ASSUME ~overlapped
      PROVE  Wrote(run', tasks', wf) /\ AloneCaller(caller'[c], run', tasks', wf)
  BY <1>1, <1>2, <1>3 DEF AloneCaller, Cancels
<1> QED
  BY <1>1, <1>3, AloneStep

LEMMA AloneWork ==
  ASSUME IInv, AloneInv, NEW c \in Caller, NEW s \in Step, Work(c, s)
  PROVE  AloneInv'
<1>1. PICK k \in CallerState, th \in Thread : k = caller[c] /\ th = k.thread[s]
  BY ThreadFacts
<1>2. /\ TypeOK /\ k.run \in Run /\ ThreadInv(s, th, k.run, tasks, wf) /\ tasks \in Seq(Task)
      /\ Len(tasks) + 1 \in Nat /\ Own(wf) \subseteq Step
      /\ Truthful(run, tasks, wf) /\ Truthful(k.run, tasks, wf)
      /\ \A x \in Step : AtTask(k.thread[x], k.run, tasks, wf)
  BY <1>1, ThreadFacts DEF IInv, CallerInv, CopyInv, ThreadInv, Own
<1>3. /\ k.pc = "level" /\ th.pc \in Moving /\ th.at \in Step /\ UNCHANGED <<wf, overlapped>>
  <2>1. k.pc = "level" /\ th.pc \in Moving /\ UNCHANGED <<wf, overlapped>>
    BY <1>1 DEF Work, StartStep, HasThread, CreateTask, RunTask, StepEnds, RetryStep, StepFails, Settle, At, Moving
  <2> QED
    BY <1>2, <2>1 DEF ThreadInv
<1>4. ASSUME ~overlapped
      PROVE  /\ Wrote(run, tasks, wf) /\ Wrote(k.run, tasks, wf)
             /\ \A x \in Step : k.thread[x].pc = "settle" /\ k.thread[x].outcome \in Ended =>
                                 tasks[k.thread[x].task].status = k.thread[x].outcome
  BY <1>1, <1>3, <1>4 DEF AloneInv, AloneCaller, Settled
\* Where the tasks stay, the step is marked as its task is.
<1>5. ASSUME NEW status \in StepRunStatus, NEW new \in Thread, new.pc # "settle", UNCHANGED tasks,
             Stand(c, s, Marked(k.run, th.at, status), new), run' \in {run, Marked(k.run, th.at, status)},
             status \in Ended => th.pc = "settle" /\ th.outcome = status
      PROVE  AloneInv'
  <2>1. PICK r \in Run : r = Marked(k.run, th.at, status)
    BY <1>2, CopyTypes
  <2>2. /\ r.task = k.run.task /\ r.steps[th.at] = status
        /\ \A x \in Step \ {th.at} : r.steps[x] = k.run.steps[x]
    BY <1>2, <1>3, <2>1 DEF Marked, Run
  <2>3. ASSUME ~overlapped
        PROVE  Wrote(r, tasks, wf)
    <3>1. status \in Ended /\ th.at \in Own(wf) => tasks[r.task[th.at]].status = status
      <4>1. th.pc = "settle" /\ th.at \in Own(wf) => r.task[th.at] = th.task
        BY <1>2, <2>2 DEF ThreadInv, AtTask
      <4>2. th.pc = "settle" /\ th.outcome \in Ended => tasks[th.task].status = th.outcome
        BY <1>1, <1>4, <2>3
      <4>3. status \in Ended => th.pc = "settle" /\ th.outcome = status
        BY <1>5
      <4> QED
        BY <4>1, <4>2, <4>3
    <3> QED
      BY <1>2, <1>4, <2>2, <2>3, <3>1 DEF Wrote
  <2> QED
    BY <1>1, <1>3, <1>4, <1>5, <2>1, <2>3, AloneThread
<1>6. ASSUME NEW status \in StepRunStatus, EndThread(c, s, Marked(k.run, th.at, status)), UNCHANGED tasks,
             run' \in {run, Marked(k.run, th.at, status)},
             status \in Ended => th.pc = "settle" /\ th.outcome = status
      PROVE  AloneInv'
  <2>1. PICK o \in StepRunStatus : o = Marked(k.run, th.at, status).steps[s]
    <3>1. Marked(k.run, th.at, status) \in Run
      BY <1>2, CopyTypes
    <3> QED
      BY <3>1 DEF Run
  <2>2. PICK new \in Thread : new = [NoThread EXCEPT !.pc = "done", !.outcome = o]
    BY DEF NoThread, Thread
  <2>3. new.pc = "done"
    BY <2>2 DEF NoThread
  <2> QED
    BY <1>5, <1>6, <2>1, <2>2, <2>3 DEF EndThread
<1>7. /\ {"running", "skipped", "completed", "failed", "waiting"} \subseteq StepRunStatus
      /\ {"running", "skipped", "waiting"} \cap Ended = {}
  BY DEF StepRunStatus, Ended
<1>8. CASE StartStep(c, s)
  <2>1. PICK new \in Thread : new = [th EXCEPT !.pc = "create", !.attempt = 1]
    BY DEF Thread
  <2>2. new.pc = "create"
    BY <2>1 DEF Thread
  <2>3. UNCHANGED tasks
    BY <1>8 DEF StartStep
  <2> QED
    BY <1>1, <1>5, <1>6, <1>7, <1>8, <2>1, <2>2, <2>3 DEF StartStep, Save
<1>9. CASE CreateTask(c, s)
  <2>1. PICK r \in Run : r = [k.run EXCEPT !.task[th.at] = Len(tasks) + 1]
    BY <1>2, CopyTypes
  <2>2. PICK new \in Thread : new = [th EXCEPT !.pc = "run", !.task = Len(tasks) + 1]
    BY <1>2 DEF Thread
  <2>8. new.pc = "run"
    BY <2>2 DEF Thread
  <2>3. th.pc = "create" /\ run' = r /\ Stand(c, s, r, new) /\ tasks' = Append(tasks, NewTask(th.at))
    BY <1>1, <1>9, <2>1, <2>2 DEF CreateTask, At, Save
  <2>4. \A t \in DOMAIN tasks : tasks'[t] = tasks[t]
    BY <1>2, <2>3
  <2>5. r.steps = k.run.steps /\ \A x \in Step \ {th.at} : r.task[x] = k.run.task[x]
    BY <1>2, <2>1 DEF Run
  <2>6. th.at \in Own(wf) => k.run.steps[th.at] \notin Ended
    BY <1>2, <2>3 DEF ThreadInv, Place, Moving, Ended
  <2>7. ASSUME ~overlapped
        PROVE  /\ Wrote(run, tasks', wf) /\ Wrote(r, tasks', wf)
               /\ \A x \in Step : k.thread[x].pc = "settle" /\ k.thread[x].outcome \in Ended =>
                                   tasks'[k.thread[x].task].status = k.thread[x].outcome
    <3>1. Wrote(run, tasks', wf)
      BY <1>2, <1>4, <2>4, <2>7 DEF Wrote, Truthful, Ended
    <3>2. Wrote(r, tasks', wf)
      BY <1>2, <1>4, <2>4, <2>5, <2>6, <2>7 DEF Wrote, Truthful, Ended
    <3>3. \A x \in Step : k.thread[x].pc = "settle" => k.thread[x].task \in DOMAIN tasks
      BY <1>2 DEF AtTask
    <3> QED
      BY <1>4, <2>4, <2>7, <3>1, <3>2, <3>3
  <2> QED
    BY <1>1, <1>3, <2>3, <2>7, <2>8, AloneThread
<1>10. CASE RunTask(c, s)
  <2>1. PICK o \in {"completed", "failed", "requires_approval"} :
          /\ tasks' = [tasks EXCEPT ![th.task] = CameTo(@, o)]
          /\ Stand(c, s, k.run, [th EXCEPT !.pc = "settle", !.outcome = o])
    BY <1>1, <1>10 DEF RunTask
  <2>2. PICK new \in Thread : new = [th EXCEPT !.pc = "settle", !.outcome = o]
    BY DEF Thread, TaskStatus
  <2>3. new.task = th.task /\ new.outcome = o
    BY <2>2 DEF Thread
  <2>4. th.pc = "run" /\ run' = run /\ th.task \in DOMAIN tasks /\ tasks[th.task].result = "open"
    BY <1>1, <1>2, <1>10 DEF RunTask, At, ThreadInv, AtTask
  <2>5. tasks'[th.task].status = o /\ \A t \in DOMAIN tasks \ {th.task} : tasks'[t] = tasks[t]
    BY <1>2, <2>1, <2>4, TaskCameTo DEF Result
  <2>6. ASSUME ~overlapped
        PROVE  /\ Wrote(run, tasks', wf) /\ Wrote(k.run, tasks', wf)
               /\ \A x \in Step : k.thread[x].pc = "settle" /\ k.thread[x].outcome \in Ended =>
                                   tasks'[k.thread[x].task].status = k.thread[x].outcome
    <3>1. Wrote(run, tasks', wf)
      BY <1>2, <1>4, <2>4, <2>5, <2>6 DEF Wrote, Truthful, Ended
    <3>2. Wrote(k.run, tasks', wf)
      BY <1>2, <1>4, <2>4, <2>5, <2>6 DEF Wrote, Truthful, Ended
    <3>3. \A x \in Step : k.thread[x].pc = "settle" /\ k.thread[x].outcome \in Ended =>
                           k.thread[x].task \in DOMAIN tasks /\ k.thread[x].task # th.task
      BY <1>2, <2>4 DEF AtTask, Ended
    <3> QED
      BY <1>4, <2>5, <2>6, <3>1, <3>2, <3>3
  <2>7. Stand(c, s, k.run, new) /\ run' \in {run, k.run} /\ k.run \in Run
    BY <1>2, <2>1, <2>2, <2>4
  <2> QED
    BY <1>1, <1>3, <2>3, <2>5, <2>6, <2>7, AloneThread
<1>11. CASE StepEnds(c, s)
  <2>1. PICK o \in {<<"completed", "completed">>, <<"requires_approval", "waiting">>} :
          Settle(c, s, o[1], o[2]) /\ EndThread(c, s, Marked(k.run, th.at, o[2]))
    BY <1>1, <1>11 DEF StepEnds
  <2>2. /\ o[2] \in StepRunStatus /\ UNCHANGED tasks /\ run' = Marked(k.run, th.at, o[2])
        /\ o[2] \in Ended => th.pc = "settle" /\ th.outcome = o[2]
    BY <1>1, <1>7, <2>1 DEF Settle, At, Save
  <2> QED
    BY <1>6, <2>1, <2>2
<1>12. CASE RetryStep(c, s)
  <2>1. PICK new \in Thread : new = [th EXCEPT !.pc = "create", !.attempt = th.attempt + 1]
    <3>1. th.attempt + 1 \in Nat
      BY DEF Thread
    <3> QED
      BY <3>1 DEF Thread
  <2>3. new.pc = "create"
    BY <2>1 DEF Thread
  <2>2. UNCHANGED tasks /\ run' = Marked(k.run, th.at, "running") /\ Stand(c, s, Marked(k.run, th.at, "running"), new)
    BY <1>1, <1>12, <2>1 DEF RetryStep, Settle, Save
  <2> QED
    BY <1>5, <1>7, <2>1, <2>2, <2>3
<1>13. CASE StepFails(c, s)
  <2>1. /\ th.pc = "settle" /\ th.outcome = "failed" /\ UNCHANGED tasks /\ run' = Marked(k.run, th.at, "failed")
        /\ IF Compensator(th.at) = NoStep
           THEN EndThread(c, s, Marked(k.run, th.at, "failed"))
           ELSE Stand(c, s, Marked(k.run, th.at, "failed"), [NoThread EXCEPT !.pc = "start", !.at = Compensator(th.at)])
    BY <1>1, <1>13 DEF StepFails, Settle, At, Save
  <2>2. CASE Compensator(th.at) = NoStep
    BY <1>6, <1>7, <2>1, <2>2
  <2>3. CASE Compensator(th.at) # NoStep
    <3>1. wf \in Workflow
      BY ThreadFacts
    <3>2. Compensator(th.at) \in Step
      BY <1>3, <2>3, <3>1 DEF Compensator, Workflow
    <3>3. PICK comp \in Step : comp = Compensator(th.at)
      BY <3>2
    <3>4. PICK new \in Thread : new = [NoThread EXCEPT !.pc = "start", !.at = comp]
      BY RunTypes DEF Thread
    <3>5. new.pc = "start"
      BY <3>4 DEF NoThread
    <3> QED
      BY <1>5, <1>7, <2>1, <2>3, <3>3, <3>4, <3>5
  <2> QED
    BY <2>2, <2>3
<1> QED
  BY <1>8, <1>9, <1>10, <1>11, <1>12, <1>13 DEF Work

\* A task that a human decides has not ended.
LEMMA AloneDecide ==
  ASSUME IInv, AloneInv, Decide
  PROVE  AloneInv'
<1>1. PICK t \in DOMAIN tasks, o \in Result :
        tasks[t].status = "requires_approval" /\ tasks' = [tasks EXCEPT ![t] = CameTo(@, o)]
  BY DEF Decide, Result
<1>2. UNCHANGED <<wf, run, caller, overlapped>> /\ TypeOK
  BY DEF Decide, IInv
<1>3. \A u \in DOMAIN tasks \ {t} : tasks'[u] = tasks[u]
  BY <1>1, <1>2, TaskCameTo
<1>4. ASSUME NEW r, Truthful(r, tasks, wf), Wrote(r, tasks, wf)
      PROVE  Wrote(r, tasks', wf)
  BY <1>1, <1>3, <1>4 DEF Truthful, Wrote, Ended
<1>5. /\ Truthful(run, tasks, wf)
      /\ \A c \in Caller : /\ Truthful(caller[c].run, tasks, wf)
                            /\ \A s \in Step : AtTask(caller[c].thread[s], caller[c].run, tasks, wf)
  BY DEF IInv, CallerInv, CopyInv, ThreadInv
<1>6. ASSUME NEW c \in Caller, Settled(caller[c], tasks)
      PROVE  Settled(caller[c], tasks')
  <2>1. \A s \in Step : caller[c].thread[s].pc = "settle" => caller[c].thread[s].task \in DOMAIN tasks
    BY <1>5 DEF AtTask
  <2> QED
    BY <1>1, <1>3, <1>6, <2>1 DEF Settled, Ended
<1>7. ASSUME ~overlapped
      PROVE  Wrote(run, tasks', wf) /\ \A c \in Caller : AloneCaller(caller[c], run, tasks', wf)
  BY <1>4, <1>5, <1>6, <1>7 DEF AloneInv, AloneCaller
<1> QED
  BY <1>2, <1>7 DEF AloneInv

LEMMA AloneNext == IInv /\ AloneInv /\ [Next]_vars => AloneInv'
<1> SUFFICES ASSUME IInv, AloneInv, [Next]_vars
             PROVE  AloneInv'
  OBVIOUS
<1>1. CASE UNCHANGED vars
  BY <1>1 DEF vars, AloneInv, AloneCaller, Wrote, Settled, Cancels
<1> QED
  BY <1>1, AloneWalks, AloneCalls, AloneCancels, AloneWork, AloneDecide DEF Next, Execute, Quiescent

LEMMA AloneInit == Init => AloneInv
<1> SUFFICES ASSUME Init
             PROVE  AloneInv
  OBVIOUS
<1>1. \A c \in Caller : caller[c].pc = "idle"
  BY DEF Init, Idle
<1>2. \A s \in Step : run.steps[s] = "pending"
  BY DEF Init, NoRun, NewRun
<1> QED
  BY <1>1, <1>2 DEF AloneInv, AloneCaller, Wrote, Own, Ended

\* The row and the tasks it names agree.
LEMMA RowShows == IInv /\ Written(tasks) /\ AloneInv => RowIsTrue
<1> SUFFICES ASSUME IInv, Written(tasks), AloneInv
             PROVE  RowIsTrue
  OBVIOUS
<1>1. TypeOK /\ Truthful(run, tasks, wf)
  BY DEF IInv, CopyInv
<1>2. Own(wf) = Step \ Compensators
  BY DEF Own, Compensators, Compensator, CompensatorIn
<1>3. ASSUME NEW s \in Own(wf)
      PROVE  /\ run.steps[s] \in Ended =>
                  /\ tasks[run.task[s]].result = run.steps[s]
                  /\ \/ tasks[run.task[s]].status = run.steps[s]
                     \/ overlapped /\ tasks[run.task[s]].status = "cancelled"
             /\ run.steps[s] = "waiting" => tasks[run.task[s]].result # "open"
  <2>1. run.steps[s] \in Ended => run.task[s] \in DOMAIN tasks /\ tasks[run.task[s]].result = run.steps[s]
    BY <1>1 DEF Truthful, Ended
  <2>2. run.steps[s] = "waiting" => tasks[run.task[s]].result # "open"
    BY <1>1 DEF Truthful
  <2>3. run.steps[s] \in Ended => tasks[run.task[s]].status \in {run.steps[s], "cancelled"}
    BY <2>1 DEF Written
  <2>4. ~overlapped /\ run.steps[s] \in Ended => tasks[run.task[s]].status = run.steps[s]
    BY DEF AloneInv, Wrote
  <2>5. overlapped \in BOOLEAN
    BY <1>1 DEF TypeOK
  <2> QED
    BY <2>1, <2>2, <2>3, <2>4, <2>5
<1> QED
  BY <1>1, <1>2, <1>3 DEF RowIsTrue, Ended

-----------------------------------------------------------------------------
(* Tries are counted.  Each task is one attempt, in one thread, of one     *)
(* call: there is a way to say of which, so that no two tasks of a step    *)
(* are of the same, and the numbers of calls, of the threads that may come *)
(* to the step and of its attempts bound how many it has.                  *)

\* Compensators are not undone by others.
NoChains ==
  \A w \in Workflows : \A s, x \in Step : CompensatorIn(w, s) = x => CompensatorIn(w, x) = NoStep

Try == [call : Nat, thread : Step, attempt : Nat]

\* A thread is at its step or at its compensator, within the attempts of it.
ThreadTries(x, th, w) ==
  /\ th.pc \in Moving => th.at \in Step /\ (th.at = x \/ th.at = CompensatorIn(w, x))
  /\ th.pc = "queued" => th.at = x
  /\ th.pc = "start" => th.at # x
  /\ th.pc \in {"create", "run", "settle"} => th.attempt \in 1..w.attempts[th.at]

\* The attempts a thread has made at the step it is at.
Made(th) == CASE th.pc = "create" -> th.attempt - 1
              [] th.pc \in {"run", "settle"} -> th.attempt
              [] OTHER -> 0

\* A try e of a call, at step y, lies behind it: in a level that it has passed,
\* or in a thread of the level it is at.
BehindThread(x, th, e, y) ==
  /\ th.pc \notin {"none", "queued"}
  /\ th.pc \in {"start", "create", "run", "settle"} =>
       /\ th.at = x => y = x
       /\ th.at = y => e.attempt <= Made(th)
Behind(k, e, y) ==
  \/ k.pc \in {"enter", "level"} /\ e.thread \in k.resolved
  \/ k.pc = "level" /\ BehindThread(e.thread, k.thread[e.thread], e, y)

\* n numbers the calls in progress, g says of each task which try it is.
Numbers(n) ==
  /\ \A c \in Caller : caller[c].pc # "idle" => n[c] \in 1..calls
  /\ \A c, d \in Caller : caller[c].pc # "idle" /\ caller[d].pc # "idle" /\ n[c] = n[d] => c = d

Tries(g) ==
  /\ \A t \in DOMAIN tasks :
       /\ g[t].call \in 1..calls /\ g[t].attempt \in 1..wf.attempts[tasks[t].step]
       /\ tasks[t].step = g[t].thread \/ tasks[t].step = CompensatorIn(wf, g[t].thread)
  /\ \A t, u \in DOMAIN tasks : tasks[t].step = tasks[u].step /\ g[t] = g[u] => t = u

Accounts(g, n) ==
  \A c \in Caller, t \in DOMAIN tasks :
    caller[c].pc # "idle" /\ g[t].call = n[c] => Behind(caller[c], g[t], tasks[t].step)

TriesInv ==
  /\ \A c \in Caller, x \in Step : caller[c].pc = "level" => ThreadTries(x, caller[c].thread[x], wf)
  /\ \E g \in [DOMAIN tasks -> Try], n \in [Caller -> Nat] : Numbers(n) /\ Tries(g) /\ Accounts(g, n)

\* Calls that go on, or end, and make no task.
LEMMA TriesStay ==
  ASSUME TypeOK, TriesInv, UNCHANGED <<wf, calls>>,
         DOMAIN tasks' = DOMAIN tasks, \A t \in DOMAIN tasks : tasks'[t].step = tasks[t].step,
         \A c \in Caller :
           \/ caller'[c] = caller[c]
           \/ caller'[c].pc = "idle"
           \/ /\ caller[c].pc # "idle"
              /\ \A x \in Step : caller'[c].pc = "level" => ThreadTries(x, caller'[c].thread[x], wf)
              /\ \A e \in Try, y \in Step : e.attempt >= 1 /\ Behind(caller[c], e, y) => Behind(caller'[c], e, y)
  PROVE  TriesInv'
<1>1. PICK g \in [DOMAIN tasks -> Try], n \in [Caller -> Nat] : Numbers(n) /\ Tries(g) /\ Accounts(g, n)
  BY DEF TriesInv
<1>2. \A t \in DOMAIN tasks : g[t] \in Try /\ tasks[t].step \in Step /\ g[t].attempt >= 1
  <2>1. \A t \in DOMAIN tasks : tasks[t] \in Task
    BY DEF TypeOK
  <2>2. \A w \in Workflows, s \in Step : w.attempts[s] \in Nat
    BY WorkflowAssumption DEF Workflow
  <2> QED
    BY <1>1, <2>1, <2>2 DEF Tries, Task, TypeOK
<1>3. Numbers(n)'
  BY <1>1 DEF Numbers
<1>4. Tries(g)'
  BY <1>1 DEF Tries
<1>5. Accounts(g, n)'
  <2> SUFFICES ASSUME NEW c \in Caller, NEW t \in DOMAIN tasks, caller'[c].pc # "idle", g[t].call = n[c]
               PROVE  Behind(caller'[c], g[t], tasks[t].step)
    BY DEF Accounts
  <2>1. caller[c].pc # "idle"
    OBVIOUS
  <2>2. Behind(caller[c], g[t], tasks[t].step)
    BY <1>1, <2>1 DEF Accounts
  <2> QED
    BY <1>2, <2>2
<1>6. \A c \in Caller, x \in Step : caller'[c].pc = "level" => ThreadTries(x, caller'[c].thread[x], wf)
  BY DEF TriesInv
<1> QED
  BY <1>1, <1>3, <1>4, <1>5, <1>6 DEF TriesInv

\* The same of one call that goes on by itself.
LEMMA TriesAlone ==
  ASSUME TypeOK, TriesInv, UNCHANGED <<wf, calls, tasks>>,
         NEW c \in Caller, caller[c].pc # "idle", \A d \in Caller \ {c} : caller'[d] = caller[d],
         \A x \in Step : caller'[c].pc = "level" => ThreadTries(x, caller'[c].thread[x], wf),
         \A e \in Try, y \in Step : Behind(caller[c], e, y) => Behind(caller'[c], e, y)
  PROVE  TriesInv'
<1>1. ASSUME NEW d \in Caller
      PROVE  \/ caller'[d] = caller[d]
             \/ caller'[d].pc = "idle"
             \/ /\ caller[d].pc # "idle"
                /\ \A x \in Step : caller'[d].pc = "level" => ThreadTries(x, caller'[d].thread[x], wf)
                /\ \A e \in Try, y \in Step : e.attempt >= 1 /\ Behind(caller[d], e, y) => Behind(caller'[d], e, y)
  <2>1. CASE d = c
    BY <2>1
  <2>2. CASE d # c
    BY <2>2
  <2> QED
    BY <2>1, <2>2
<1>2. DOMAIN tasks' = DOMAIN tasks /\ \A t \in DOMAIN tasks : tasks'[t].step = tasks[t].step
  OBVIOUS
<1> QED
  BY <1>1, <1>2, TriesStay

\* A call that begins has made no try.
LEMMA TriesBegin ==
  ASSUME TypeOK, TriesInv, NEW c \in Caller, NEW pc \in {"begin", "resume", "cancel"}, NEW r, NewCall(c, pc, r)
  PROVE  TriesInv'
<1>1. PICK g \in [DOMAIN tasks -> Try], n \in [Caller -> Nat] : Numbers(n) /\ Tries(g) /\ Accounts(g, n)
  BY DEF TriesInv
<1>2. /\ UNCHANGED <<wf, tasks>> /\ calls \in Nat /\ calls' = calls + 1 /\ caller[c].pc = "idle"
      /\ caller'[c].pc = pc /\ \A d \in Caller \ {c} : caller'[d] = caller[d]
  BY DEF NewCall, TypeOK, Idle
<1>3. PICK m \in [Caller -> Nat] : m = [n EXCEPT ![c] = calls + 1]
  <2>1. [n EXCEPT ![c] = calls + 1] \in [Caller -> Nat]
    BY <1>2
  <2> QED
    BY <2>1
<1>4. m[c] = calls + 1 /\ \A d \in Caller \ {c} : m[d] = n[d]
  BY <1>3
<1>5. Numbers(m)'
  BY <1>1, <1>2, <1>4 DEF Numbers
<1>6. Tries(g)'
  BY <1>1, <1>2 DEF Tries
<1>7. Accounts(g, m)'
  <2>1. \A t \in DOMAIN tasks : g[t].call # m[c]
    BY <1>1, <1>2, <1>4 DEF Tries
  <2> QED
    BY <1>1, <1>2, <1>4, <2>1 DEF Accounts
<1>8. \A d \in Caller, x \in Step : caller'[d].pc = "level" => ThreadTries(x, caller'[d].thread[x], wf)
  BY <1>2 DEF TriesInv
<1> QED
  BY <1>1, <1>2, <1>3, <1>5, <1>6, <1>7, <1>8 DEF TriesInv

\* The task a thread creates is a try of its own: the next attempt it makes.
LEMMA TriesCreate ==
  ASSUME IInv, TriesInv, NEW c \in Caller, NEW s \in Step, CreateTask(c, s)
  PROVE  TriesInv'
<1>1. PICK g \in [DOMAIN tasks -> Try], n \in [Caller -> Nat] : Numbers(n) /\ Tries(g) /\ Accounts(g, n)
  BY DEF TriesInv
<1>2. PICK k \in CallerState, th \in Thread : k = caller[c] /\ th = k.thread[s]
  BY ThreadFacts
<1>3. /\ k.pc = "level" /\ th.pc = "create" /\ ThreadTries(s, th, wf) /\ s \notin k.resolved
      /\ wf \in Workflow /\ tasks \in Seq(Task) /\ Len(tasks) + 1 \in Nat /\ calls \in Nat /\ TypeOK
  <2>1. k.pc = "level" /\ th.pc = "create"
    BY <1>2 DEF CreateTask, At
  <2>2. s \in LevelIn(wf, k.resolved)
    BY <1>2, <2>1 DEF IInv, CallerInv, Passed
  <2> QED
    BY <1>2, <2>1, <2>2, ThreadFacts DEF TriesInv, LevelIn, TypeOK
<1>4. PICK new \in Thread : /\ new = [th EXCEPT !.pc = "run", !.task = Len(tasks) + 1]
                            /\ Stand(c, s, [k.run EXCEPT !.task[th.at] = Len(tasks) + 1], new)
  <2>1. [th EXCEPT !.pc = "run", !.task = Len(tasks) + 1] \in Thread
    BY <1>3 DEF Thread
  <2> QED
    BY <1>2, <2>1 DEF CreateTask
<1>5. [k.run EXCEPT !.task[th.at] = Len(tasks) + 1] \in Run
  BY <1>2, <1>3, CopyTypes DEF CallerState
<1>6. /\ caller'[c].pc = "level" /\ caller'[c].resolved = k.resolved /\ caller'[c].thread[s] = new
      /\ \A x \in Step \ {s} : caller'[c].thread[x] = k.thread[x]
      /\ \A d \in Caller \ {c} : caller'[d] = caller[d]
  BY <1>2, <1>3, <1>4, <1>5, Standing
<1>7. /\ new.pc = "run" /\ new.at = th.at /\ new.attempt = th.attempt
      /\ th.at \in Step /\ th.attempt \in Nat
  BY <1>3, <1>4 DEF ThreadTries, Thread, Moving
<1>8. /\ UNCHANGED <<wf, calls>> /\ DOMAIN tasks' = DOMAIN tasks \cup {Len(tasks) + 1}
      /\ Len(tasks) + 1 \notin DOMAIN tasks /\ tasks'[Len(tasks) + 1].step = th.at
      /\ \A t \in DOMAIN tasks : tasks'[t] = tasks[t]
  <2>1. PICK e : e = NewTask(th.at) /\ e.step = th.at
    BY <1>7, TaskTypes
  <2>2. UNCHANGED <<wf, calls>> /\ tasks' = Append(tasks, e)
    BY <1>2, <2>1 DEF CreateTask
  <2> QED
    BY <1>3, <2>1, <2>2
<1>9. \A t \in DOMAIN tasks : g[t] \in Try /\ tasks[t].step \in Step
  <2>1. \A t \in DOMAIN tasks : tasks[t] \in Task
    BY <1>3
  <2> QED
    BY <2>1 DEF Task
<1> DEFINE e == [call |-> n[c], thread |-> s, attempt |-> th.attempt]
<1>10. PICK h \in [DOMAIN tasks' -> Try] : h[Len(tasks) + 1] = e /\ \A t \in DOMAIN tasks : h[t] = g[t]
  <2>1. e \in Try
    BY <1>1, <1>7 DEF Try
  <2> DEFINE f == [t \in DOMAIN tasks' |-> IF t = Len(tasks) + 1 THEN e ELSE g[t]]
  <2>2. f \in [DOMAIN tasks' -> Try]
    BY <1>8, <1>9, <2>1
  <2> QED
    BY <1>8, <2>2
<1>11. e.call = n[c] /\ e.thread = s /\ e.attempt = th.attempt
  OBVIOUS
<1> HIDE DEF e
<1>12. Numbers(n)'
  <2>1. \A d \in Caller : caller'[d].pc = caller[d].pc
    BY <1>2, <1>3, <1>6
  <2> QED
    BY <1>1, <1>8, <2>1 DEF Numbers
<1>13. \A t \in DOMAIN tasks : tasks[t].step = th.at => g[t] # e
  <2> SUFFICES ASSUME NEW t \in DOMAIN tasks, tasks[t].step = th.at, g[t] = e
               PROVE  FALSE
    OBVIOUS
  <2>1. Behind(k, e, th.at)
    BY <1>1, <1>2, <1>3, <1>11 DEF Accounts
  <2>2. th.attempt <= Made(th)
    BY <1>3, <1>11, <1>2, <2>1 DEF Behind, BehindThread
  <2> QED
    BY <1>3, <1>7, <2>2 DEF Made
<1>14. Tries(h)'
  <2>1. e.call \in 1..calls /\ e.attempt \in 1..wf.attempts[th.at] /\ (th.at = s \/ th.at = CompensatorIn(wf, s))
    BY <1>1, <1>2, <1>3, <1>11 DEF Numbers, ThreadTries, Moving
  <2>2. ASSUME NEW t \in DOMAIN tasks'
        PROVE  /\ h[t].call \in 1..calls' /\ h[t].attempt \in 1..wf'.attempts[tasks'[t].step]
               /\ tasks'[t].step = h[t].thread \/ tasks'[t].step = CompensatorIn(wf', h[t].thread)
    <3>1. CASE t \in DOMAIN tasks
      BY <1>1, <1>8, <1>10, <3>1 DEF Tries
    <3>2. CASE t = Len(tasks) + 1
      BY <1>8, <1>10, <1>11, <2>1, <3>2
    <3> QED
      BY <1>8, <3>1, <3>2
  <2>3. ASSUME NEW t \in DOMAIN tasks', NEW u \in DOMAIN tasks',
               tasks'[t].step = tasks'[u].step, h[t] = h[u]
        PROVE  t = u
    <3>1. CASE t \in DOMAIN tasks /\ u \in DOMAIN tasks
      BY <1>1, <1>8, <1>10, <2>3, <3>1 DEF Tries
    <3>2. CASE t \notin DOMAIN tasks \/ u \notin DOMAIN tasks
      BY <1>8, <1>10, <1>13, <2>3, <3>2
    <3> QED
      BY <3>1, <3>2
  <2> QED
    BY <2>2, <2>3 DEF Tries
<1>15. \A d \in Try, y \in Step : Behind(k, d, y) => Behind(caller'[c], d, y)
  <2> SUFFICES ASSUME NEW d \in Try, NEW y \in Step, Behind(k, d, y), k.pc = "level",
                      BehindThread(d.thread, k.thread[d.thread], d, y)
               PROVE  BehindThread(d.thread, caller'[c].thread[d.thread], d, y)
    BY <1>3, <1>6 DEF Behind
  <2>1. d.thread \in Step /\ d.attempt \in Nat
    BY DEF Try
  <2>2. CASE d.thread # s
    BY <1>6, <2>1, <2>2
  <2>3. CASE d.thread = s
    <3>1. Made(th) = th.attempt - 1 /\ Made(new) = th.attempt
      BY <1>3, <1>7 DEF Made
    <3>2. BehindThread(s, th, d, y)
      BY <1>2, <2>3
    <3>3. BehindThread(s, new, d, y)
      BY <1>3, <1>7, <2>1, <3>1, <3>2 DEF BehindThread
    <3> QED
      BY <1>6, <2>3, <3>3
  <2> QED
    BY <2>2, <2>3
<1>16. Behind(caller'[c], e, th.at)
  <2>1. th.at = s \/ th.at # s
    OBVIOUS
  <2> QED
    BY <1>6, <1>7, <1>11 DEF Behind, BehindThread, Made
<1>17. Accounts(h, n)'
  <2> SUFFICES ASSUME NEW d \in Caller, NEW t \in DOMAIN tasks', caller'[d].pc # "idle", h[t].call = n[d]
               PROVE  Behind(caller'[d], h[t], tasks'[t].step)
    BY DEF Accounts
  <2>1. CASE t = Len(tasks) + 1
    <3>1. d = c
      BY <1>1, <1>2, <1>3, <1>6, <1>10, <1>11, <2>1 DEF Numbers
    <3> QED
      BY <1>8, <1>10, <1>16, <2>1, <3>1
  <2>2. CASE t # Len(tasks) + 1
    <3>1. t \in DOMAIN tasks /\ h[t] = g[t] /\ tasks'[t] = tasks[t]
      BY <1>8, <1>10, <2>2
    <3>2. caller[d].pc # "idle"
      BY <1>2, <1>3, <1>6
    <3>3. Behind(caller[d], g[t], tasks[t].step)
      BY <1>1, <3>1, <3>2 DEF Accounts
    <3> QED
      BY <1>2, <1>6, <1>9, <1>15, <3>1, <3>3
  <2> QED
    BY <2>1, <2>2
<1>18. \A d \in Caller, x \in Step : caller'[d].pc = "level" => ThreadTries(x, caller'[d].thread[x], wf')
  <2>1. ThreadTries(s, new, wf)
    BY <1>3, <1>7 DEF ThreadTries, Moving
  <2> SUFFICES ASSUME NEW d \in Caller, NEW x \in Step, caller'[d].pc = "level"
               PROVE  ThreadTries(x, caller'[d].thread[x], wf)
    BY <1>8
  <2>2. caller[d].pc = "level"
    BY <1>2, <1>3, <1>6
  <2>3. ThreadTries(x, caller[d].thread[x], wf)
    BY <2>2 DEF TriesInv
  <2>4. CASE d = c /\ x = s
    BY <1>6, <2>1, <2>4
  <2>5. CASE ~(d = c /\ x = s)
    <3>1. caller'[d].thread[x] = caller[d].thread[x]
      BY <1>2, <1>6, <2>5
    <3> QED
      BY <2>3, <3>1
  <2> QED
    BY <2>4, <2>5
<1> QED
  BY <1>1, <1>10, <1>12, <1>14, <1>17, <1>18 DEF TriesInv

\* A thread that makes no task leaves the tries it has made behind it.
LEMMA TriesThread ==
  ASSUME IInv, TriesInv, UNCHANGED <<wf, calls>>,
         DOMAIN tasks' = DOMAIN tasks, \A t \in DOMAIN tasks : tasks'[t].step = tasks[t].step,
         NEW c \in Caller, NEW s \in Step, caller[c].pc = "level",
         NEW r \in Run, NEW new \in Thread, Stand(c, s, r, new), ThreadTries(s, new, wf),
         \A e \in Try, y \in Step :
           e.attempt >= 1 /\ BehindThread(s, caller[c].thread[s], e, y) => BehindThread(s, new, e, y)
  PROVE  TriesInv'
<1>1. TypeOK
  BY DEF IInv
<1>2. /\ caller'[c].pc = "level" /\ caller'[c].resolved = caller[c].resolved /\ caller'[c].thread[s] = new
      /\ \A x \in Step \ {s} : caller'[c].thread[x] = caller[c].thread[x]
      /\ \A d \in Caller \ {c} : caller'[d] = caller[d]
  BY <1>1, Standing
<1>3. \A x \in Step : ThreadTries(x, caller'[c].thread[x], wf)
  BY <1>2 DEF TriesInv
<1>4. \A e \in Try, y \in Step : e.attempt >= 1 /\ Behind(caller[c], e, y) => Behind(caller'[c], e, y)
  <2> SUFFICES ASSUME NEW e \in Try, NEW y \in Step, e.attempt >= 1, Behind(caller[c], e, y)
               PROVE  Behind(caller'[c], e, y)
    OBVIOUS
  <2>1. CASE e.thread = s
    BY <1>2, <2>1 DEF Behind
  <2>2. CASE e.thread # s
    BY <1>2, <2>2 DEF Behind, Try
  <2> QED
    BY <2>1, <2>2
<1> QED
  BY <1>1, <1>2, <1>3, <1>4, TriesStay

LEMMA TriesWork ==
  ASSUME NoChains, IInv, TriesInv, TypeOK', NEW c \in Caller, NEW s \in Step, Work(c, s)
  PROVE  TriesInv'
<1>1. PICK k \in CallerState, th \in Thread : k = caller[c] /\ th = k.thread[s]
  BY ThreadFacts
<1>2. /\ TypeOK /\ wf \in Workflows /\ wf \in Workflow /\ k.run \in Run /\ th.attempt \in Nat
      /\ tasks \in Seq(Task)
      /\ k.pc = "level" => ThreadTries(s, th, wf)
  BY <1>1, ThreadFacts DEF TriesInv, IInv, TypeOK, CallerState, Thread
<1>3. ASSUME NEW new \in Thread, NEW r \in Run, Stand(c, s, r, new), new.pc = "done", k.pc = "level", UNCHANGED <<wf, calls, tasks>>
      PROVE  TriesInv'
  <2>1. ThreadTries(s, new, wf) /\ \A e, y : BehindThread(s, new, e, y)
    BY <1>3 DEF ThreadTries, BehindThread, Moving
  <2> QED
    BY <1>1, <1>3, <2>1, TriesThread
<1>4. ASSUME NEW r \in Run, EndThread(c, s, r), k.pc = "level", UNCHANGED <<wf, calls, tasks>>
      PROVE  TriesInv'
  <2>1. [NoThread EXCEPT !.pc = "done", !.outcome = r.steps[s]] \in Thread
    BY <1>4 DEF NoThread, Thread, Run
  <2>2. [NoThread EXCEPT !.pc = "done", !.outcome = r.steps[s]].pc = "done"
    BY DEF NoThread
  <2> QED
    BY <1>3, <1>4, <2>1, <2>2 DEF EndThread
<1>5. \A status \in StepRunStatus : \A at : Marked(k.run, at, status) \in Run
  BY <1>2, CopyTypes
<1>6. CASE StartStep(c, s)
  <2>1. /\ k.pc = "level" /\ th.pc \in {"start", "queued"} /\ th.at \in Step /\ UNCHANGED <<wf, calls, tasks>>
        /\ th.at = s \/ th.at = CompensatorIn(wf, s)
        /\ th.pc = "start" => th.at # s
    BY <1>1, <1>2, <1>6 DEF StartStep, HasThread, At, ThreadTries, Moving
  <2>2. CASE EndThread(c, s, Marked(k.run, th.at, "skipped"))
    BY <1>4, <1>5, <2>1, <2>2 DEF StepRunStatus
  <2>3. CASE Stand(c, s, Marked(k.run, th.at, "running"), [th EXCEPT !.pc = "create", !.attempt = 1])
    <3>1. PICK new \in Thread : new = [th EXCEPT !.pc = "create", !.attempt = 1]
      BY DEF Thread
    <3>2. new.pc = "create" /\ new.attempt = 1 /\ new.at = th.at
      BY <3>1 DEF Thread
    <3>3. wf.attempts[th.at] \in Nat \ {0}
      BY <1>2, <2>1 DEF Workflow
    <3>4. ThreadTries(s, new, wf)
      BY <2>1, <3>2, <3>3 DEF ThreadTries, Moving
    <3>5. ASSUME NEW e \in Try, NEW y \in Step, e.attempt >= 1, BehindThread(s, th, e, y)
          PROVE  BehindThread(s, new, e, y)
      <4>1. th.pc = "start" /\ Made(th) = 0 /\ e.attempt \in Nat
        BY <2>1, <3>5 DEF BehindThread, Made, Try
      <4>2. th.at # s /\ th.at # y
        BY <2>1, <3>5, <4>1 DEF BehindThread
      <4> QED
        BY <3>2, <4>2 DEF BehindThread
    <3>6. Marked(k.run, th.at, "running") \in Run
      BY <1>5 DEF StepRunStatus
    <3> QED
      BY <1>1, <2>1, <2>3, <3>1, <3>4, <3>5, <3>6, TriesThread
  <2> QED
    BY <1>1, <1>6, <2>2, <2>3 DEF StartStep
<1>7. CASE CreateTask(c, s)
  BY <1>7, TriesCreate
<1>8. CASE RunTask(c, s)
  <2>1. PICK o \in {"completed", "failed", "requires_approval"} :
          /\ tasks' = [tasks EXCEPT ![th.task] = CameTo(@, o)]
          /\ Stand(c, s, k.run, [th EXCEPT !.pc = "settle", !.outcome = o])
    BY <1>1, <1>8 DEF RunTask
  <2>2. k.pc = "level" /\ th.pc = "run" /\ UNCHANGED <<wf, calls>> /\ ThreadTries(s, th, wf)
    BY <1>1, <1>2, <1>8 DEF RunTask, At
  <2>3. DOMAIN tasks' = DOMAIN tasks /\ \A t \in DOMAIN tasks : tasks'[t].step = tasks[t].step
    <3>1. th.task \in DOMAIN tasks
      BY <1>1, <2>2 DEF IInv, CallerInv, ThreadInv, AtTask
    <3> QED
      BY <1>2, <2>1, <3>1, TaskCameTo DEF Result
  <2>4. PICK new \in Thread : new = [th EXCEPT !.pc = "settle", !.outcome = o]
    BY DEF Thread, TaskStatus
  <2>5. new.pc = "settle" /\ new.at = th.at /\ new.attempt = th.attempt
    BY <2>4 DEF Thread
  <2>6. ThreadTries(s, new, wf) /\ \A e \in Try, y \in Step : BehindThread(s, th, e, y) => BehindThread(s, new, e, y)
    BY <2>2, <2>5 DEF ThreadTries, BehindThread, Made, Moving
  <2> QED
    BY <1>1, <1>2, <2>1, <2>2, <2>3, <2>4, <2>6, TriesThread
<1>9. CASE StepEnds(c, s)
  <2>1. PICK o \in {<<"completed", "completed">>, <<"requires_approval", "waiting">>} :
          Settle(c, s, o[1], o[2]) /\ EndThread(c, s, Marked(k.run, th.at, o[2]))
    BY <1>1, <1>9 DEF StepEnds
  <2>2. o[2] \in StepRunStatus
    BY DEF StepRunStatus
  <2> QED
    BY <1>1, <1>4, <1>5, <2>1, <2>2 DEF Settle, At
<1>10. CASE RetryStep(c, s)
  <2>1. /\ k.pc = "level" /\ th.pc = "settle" /\ UNCHANGED <<wf, calls, tasks>> /\ ThreadTries(s, th, wf)
        /\ th.attempt < wf.attempts[th.at]
        /\ Stand(c, s, Marked(k.run, th.at, "running"), [th EXCEPT !.pc = "create", !.attempt = th.attempt + 1])
    BY <1>1, <1>2, <1>10 DEF RetryStep, Settle, At
  <2>2. PICK new \in Thread : new = [th EXCEPT !.pc = "create", !.attempt = th.attempt + 1]
    <3>1. th.attempt + 1 \in Nat
      BY <1>2
    <3> QED
      BY <3>1 DEF Thread
  <2>3. new.pc = "create" /\ new.at = th.at /\ new.attempt = th.attempt + 1
    BY <2>2 DEF Thread
  <2>4. wf.attempts[th.at] \in Nat
    BY <1>2, <2>1 DEF Workflow, ThreadTries, Moving
  <2>5. ThreadTries(s, new, wf) /\ \A e \in Try, y \in Step : BehindThread(s, th, e, y) => BehindThread(s, new, e, y)
    BY <1>2, <2>1, <2>3, <2>4 DEF ThreadTries, BehindThread, Made, Moving
  <2>6. Marked(k.run, th.at, "running") \in Run
    BY <1>5 DEF StepRunStatus
  <2> QED
    BY <1>1, <2>1, <2>2, <2>5, <2>6, TriesThread
<1>11. CASE StepFails(c, s)
  <2>1. /\ k.pc = "level" /\ th.pc = "settle" /\ UNCHANGED <<wf, calls, tasks>> /\ ThreadTries(s, th, wf)
        /\ IF Compensator(th.at) = NoStep
           THEN EndThread(c, s, Marked(k.run, th.at, "failed"))
           ELSE Stand(c, s, Marked(k.run, th.at, "failed"), [NoThread EXCEPT !.pc = "start", !.at = Compensator(th.at)])
    BY <1>1, <1>2, <1>11 DEF StepFails, Settle, At
  <2>2. Marked(k.run, th.at, "failed") \in Run
    BY <1>5 DEF StepRunStatus
  <2>3. CASE Compensator(th.at) = NoStep
    BY <1>4, <2>1, <2>2, <2>3
  <2>4. CASE Compensator(th.at) # NoStep
    <3>1. th.at \in Step /\ (th.at = s \/ th.at = CompensatorIn(wf, s)) /\ Compensator(th.at) = CompensatorIn(wf, th.at)
      BY <2>1 DEF ThreadTries, Moving, Compensator, CompensatorIn
    <3>2. th.at = s
      BY <1>2, <2>4, <3>1 DEF NoChains
    <3>3. PICK comp \in Step : comp = CompensatorIn(wf, s) /\ comp # s
      <4>1. CompensatorIn(wf, s) \in Step
        BY <1>2, <2>4, <3>1, <3>2 DEF CompensatorIn, Workflow
      <4>2. CompensatorIn(wf, s) # s
        BY <1>2, <2>4, <3>1, <3>2 DEF NoChains
      <4> QED
        BY <4>1, <4>2
    <3>4. PICK new \in Thread : new = [NoThread EXCEPT !.pc = "start", !.at = comp]
      BY RunTypes DEF Thread
    <3>5. new.pc = "start" /\ new.at = comp
      BY <3>4 DEF NoThread
    <3>6. ThreadTries(s, new, wf) /\ \A e \in Try, y \in Step : BehindThread(s, th, e, y) => BehindThread(s, new, e, y)
      BY <2>1, <3>2, <3>3, <3>5 DEF ThreadTries, BehindThread, Moving
    <3> QED
      BY <1>1, <2>1, <2>2, <2>4, <3>1, <3>2, <3>3, <3>4, <3>6, TriesThread
  <2> QED
    BY <2>3, <2>4
<1> QED
  BY <1>6, <1>7, <1>8, <1>9, <1>10, <1>11 DEF Work

LEMMA TriesNext == ASSUME NoChains, IInv, Written(tasks), TriesInv, [Next]_vars PROVE TriesInv'
<1>1. TypeOK /\ TypeOK'
  <2>1. IInv'
    BY NextInv
  <2> QED
    BY <2>1 DEF IInv
<1>2. \A c \in Caller : /\ caller[c] \in CallerState /\ DOMAIN tasks = DOMAIN tasks /\ tasks \in Seq(Task)
                        /\ caller[c].pc # "level" => caller[c].thread = NoThreads
  BY <1>1 DEF IInv, TypeOK, CallerInv, Status
<1>3. ASSUME NEW c \in Caller, Start(c) \/ Resume(c) \/ Cancel(c)
      PROVE  TriesInv'
  BY <1>1, <1>3, TriesBegin DEF Start, Resume, Cancel
<1>4. ASSUME NEW c \in Caller, caller'[c].pc = "idle", \A d \in Caller \ {c} : caller'[d] = caller[d], UNCHANGED <<wf, calls>>,
             DOMAIN tasks' = DOMAIN tasks, \A t \in DOMAIN tasks : tasks'[t].step = tasks[t].step
      PROVE  TriesInv'
  BY <1>1, <1>4, TriesStay
<1>5. \A c \in Caller : Return(c) => caller'[c].pc = "idle" /\ \A d \in Caller \ {c} : caller'[d] = caller[d]
  BY <1>1 DEF Return, Idle, TypeOK
<1>6. ASSUME NEW c \in Caller, PauseRun(c) \/ FailRun(c) \/ FinishRun(c) \/ Crash(c)
      PROVE  TriesInv'
  BY <1>4, <1>5, <1>6 DEF PauseRun, FailRun, FinishRun, Crash
<1>7. ASSUME NEW c \in Caller, CancelSave(c)
      PROVE  TriesInv'
  BY <1>4, <1>5, <1>7 DEF CancelSave
<1>14. ASSUME NEW c \in Caller, (\E s \in Step : CancelTask(c, s)) \/ CancelTaskSave(c)
       PROVE  TriesInv'
  <2>1. \A e, y : ~Behind(caller[c], e, y)
    BY <1>1, <1>14, Cancelling DEF Behind
  <2>2. \A d \in Caller :
          \/ caller'[d] = caller[d]
          \/ /\ caller[d].pc # "idle" /\ caller'[d].pc # "level"
             /\ \A e, y : ~Behind(caller[d], e, y)
    BY <1>1, <1>14, <2>1, Cancelling
  <2> QED
    BY <1>1, <1>14, <2>2, Cancelling, TriesStay
<1>8. ASSUME NEW c \in Caller, ResumeSave(c) \/ Begin(c)
      PROVE  TriesInv'
  <2>1. /\ caller[c].pc \in {"resume", "begin"} /\ caller'[c].pc \in {"begin", "enter"}
        /\ \A d \in Caller \ {c} : caller'[d] = caller[d]
        /\ UNCHANGED <<wf, calls, tasks>>
    BY <1>1, <1>8 DEF ResumeSave, Begin, TypeOK, CallerState
  <2>2. \A e, y : ~Behind(caller[c], e, y)
    BY <2>1 DEF Behind
  <2> QED
    BY <1>1, <2>1, <2>2, TriesAlone
<1>9. ASSUME NEW c \in Caller, EnterLevel(c)
      PROVE  TriesInv'
  <2>1. /\ caller[c].pc = "enter" /\ caller'[c].pc \in {"enter", "level"}
        /\ caller[c].resolved \subseteq caller'[c].resolved
        /\ \A s \in Step : caller'[c].thread[s] = NoThread \/ caller'[c].thread[s] = [NoThread EXCEPT !.pc = "queued", !.at = s]
        /\ \A d \in Caller \ {c} : caller'[d] = caller[d]
        /\ UNCHANGED <<wf, calls, tasks>>
    BY <1>1, <1>9 DEF EnterLevel, TypeOK, CallerState
  <2>2. ASSUME NEW s \in Step
        PROVE  ThreadTries(s, caller'[c].thread[s], wf)
    <3>1. \A th : th = NoThread => th.pc = "none"
      BY DEF NoThread
    <3>2. \A th : th = [NoThread EXCEPT !.pc = "queued", !.at = s] => th.pc = "queued" /\ th.at = s
      BY DEF NoThread
    <3>3. \A th : th.pc = "none" \/ (th.pc = "queued" /\ th.at = s) => ThreadTries(s, th, wf)
      BY DEF ThreadTries, Moving
    <3> QED
      BY <2>1, <3>1, <3>2, <3>3
  <2>3. \A e, y : Behind(caller[c], e, y) => Behind(caller'[c], e, y)
    BY <2>1 DEF Behind
  <2> QED
    BY <1>1, <2>1, <2>2, <2>3, TriesAlone
<1>10. ASSUME NEW c \in Caller, NextLevel(c)
      PROVE  TriesInv'
  <2>1. /\ caller[c].pc = "level" /\ caller'[c].pc = "enter"
        /\ caller'[c].resolved = caller[c].resolved \cup Level(caller[c].resolved)
        /\ \A d \in Caller \ {c} : caller'[d] = caller[d]
        /\ UNCHANGED <<wf, calls, tasks>>
    BY <1>1, <1>10 DEF NextLevel, LevelEnded, TypeOK, CallerState
  <2>2. \A s \in Step : caller[c].thread[s].pc # "none" => s \in Level(caller[c].resolved)
    BY <2>1 DEF IInv, CallerInv, Passed, Level, LevelIn
  <2>3. \A e \in Try : \A y : Behind(caller[c], e, y) => Behind(caller'[c], e, y)
    BY <2>1, <2>2 DEF Behind, BehindThread, Try
  <2> QED
    BY <1>1, <2>1, <2>3, TriesAlone
<1>11. ASSUME NEW c \in Caller, NEW s \in Step, Work(c, s)
      PROVE  TriesInv'
  BY <1>1, <1>11, TriesWork
<1>12. CASE Decide
  <2>1. PICK u \in DOMAIN tasks, o \in Result : tasks' = [tasks EXCEPT ![u] = CameTo(@, o)]
    BY <1>12 DEF Decide, Result
  <2>3. DOMAIN tasks' = DOMAIN tasks /\ \A t \in DOMAIN tasks : tasks'[t].step = tasks[t].step
    BY <1>1, <2>1, TaskCameTo
  <2>4. UNCHANGED <<wf, calls, caller>>
    BY <1>12 DEF Decide
  <2> QED
    BY <1>1, <2>3, <2>4, TriesStay
<1>13. CASE UNCHANGED vars
  BY <1>1, <1>13, TriesStay DEF vars
<1> QED
  BY <1>3, <1>6, <1>7, <1>8, <1>9, <1>10, <1>11, <1>12, <1>13, <1>14 DEF Next, Execute, Quiescent

LEMMA TriesInit == ASSUME Init PROVE TriesInv
<1>1. [c \in Caller |-> 0] \in [Caller -> Nat] /\ tasks \in [DOMAIN tasks -> Try]
  BY DEF Init
<1>2. \A c \in Caller : caller[c].pc = "idle"
  BY DEF Init, Idle
<1>3. DOMAIN tasks = {}
  BY DEF Init
<1>4. Numbers([c \in Caller |-> 0]) /\ Tries(tasks) /\ Accounts(tasks, [c \in Caller |-> 0])
  BY <1>2, <1>3 DEF Numbers, Tries, Accounts
<1> QED
  BY <1>1, <1>2, <1>4 DEF TriesInv

\* Tries are told apart by their call, their thread and their attempt: there are
\* no more of a step than there are of these.
LEMMA TriesLimit == ASSUME TypeOK, TriesInv PROVE RetriesAreLimited
<1>1. PICK g \in [DOMAIN tasks -> Try], n \in [Caller -> Nat] : Numbers(n) /\ Tries(g) /\ Accounts(g, n)
  BY DEF TriesInv
<1>2. SUFFICES ASSUME NEW s \in Step
               PROVE  Cardinality(TasksOf(s)) <= calls * wf.attempts[s] * (1 + Cardinality({x \in Step : Compensator(x) = s}))
  BY DEF RetriesAreLimited
<1> DEFINE undone == {x \in Step : Compensator(x) = s}
           threads == undone \cup {s}
           room == ((1..calls) \X threads) \X (1..wf.attempts[s])
           f == [t \in TasksOf(s) |-> <<<<g[t].call, g[t].thread>>, g[t].attempt>>]
<1>3. calls \in Nat /\ wf.attempts[s] \in Nat /\ wf \in Workflow
  BY WorkflowAssumption DEF TypeOK, Workflow
<1>4. /\ IsFiniteSet(undone) /\ Cardinality(undone) \in Nat
      /\ IsFiniteSet(threads) /\ Cardinality(threads) \in Nat /\ Cardinality(threads) <= Cardinality(undone) + 1
  <2>1. IsFiniteSet(undone)
    BY WorkflowAssumption, FS_Subset
  <2>2. Cardinality(undone) \in Nat
    BY <2>1, FS_CardinalityType
  <2>3. IsFiniteSet(threads) /\ Cardinality(threads) <= Cardinality(undone) + 1
    <3> HIDE DEF undone
    <3>1. IsFiniteSet(undone \cup {s})
          /\ Cardinality(undone \cup {s}) \in {Cardinality(undone), Cardinality(undone) + 1}
      BY <2>1, FS_AddElement
    <3> QED
      BY <2>2, <3>1
  <2> QED
    BY <2>1, <2>2, <2>3, FS_CardinalityType
<1>5. IsFiniteSet(room) /\ Cardinality(room) = (calls * Cardinality(threads)) * wf.attempts[s]
  <2>1. IsFiniteSet(1..calls) /\ Cardinality(1..calls) = calls /\ IsFiniteSet(1..wf.attempts[s]) /\ Cardinality(1..wf.attempts[s]) = wf.attempts[s]
    <3>1. ASSUME NEW m \in Nat PROVE IsFiniteSet(1..m) /\ Cardinality(1..m) = m
      BY FS_Interval
    <3> QED
      BY <1>3, <3>1
  <2> HIDE DEF threads
  <2>2. IsFiniteSet((1..calls) \X threads) /\ Cardinality((1..calls) \X threads) = calls * Cardinality(threads)
    <3>1. IsFiniteSet((1..calls) \X threads)
          /\ Cardinality((1..calls) \X threads) = Cardinality(1..calls) * Cardinality(threads)
      BY <1>4, <2>1, FS_Product
    <3> QED
      BY <2>1, <3>1
  <2>3. PICK m \in Nat : m = wf.attempts[s]
    BY <1>3
  <2>4. \A p : IsFiniteSet(p) => IsFiniteSet(p \X (1..m)) /\ Cardinality(p \X (1..m)) = Cardinality(p) * Cardinality(1..m)
    BY <2>1, <2>3, FS_Product
  <2> QED
    BY <2>1, <2>2, <2>3, <2>4
<1>6. f \in Injection(TasksOf(s), room)
  <2>1. ASSUME NEW t \in TasksOf(s) PROVE f[t] \in room
    <3>1. t \in DOMAIN tasks /\ tasks[t].step = s
      BY DEF TasksOf
    <3>2. g[t].call \in 1..calls /\ g[t].attempt \in 1..wf.attempts[s] /\ g[t].thread \in Step
      BY <1>1, <3>1 DEF Tries, Try
    <3>3. g[t].thread \in threads
      BY <1>1, <3>1, <3>2 DEF Tries, Compensator, CompensatorIn
    <3> QED
      BY <3>2, <3>3
  <2>2. ASSUME NEW t \in TasksOf(s), NEW u \in TasksOf(s), f[t] = f[u] PROVE t = u
    <3>1. t \in DOMAIN tasks /\ u \in DOMAIN tasks /\ tasks[t].step = tasks[u].step
      BY DEF TasksOf
    <3>2. g[t].call = g[u].call /\ g[t].thread = g[u].thread /\ g[t].attempt = g[u].attempt
      BY <2>2
    <3>3. g[t] = g[u]
      BY <3>1, <3>2 DEF Try
    <3> QED
      BY <1>1, <3>1, <3>3 DEF Tries
  <2> QED
    BY <2>1, <2>2 DEF Injection, IsInjective
<1>7. Cardinality(TasksOf(s)) <= Cardinality(room)
  <2> HIDE DEF f, room
  <2> QED
    BY <1>5, <1>6, FS_Injection
<1>8. ASSUME NEW i \in Nat, NEW j \in Nat, NEW k \in Nat, NEW l \in Nat, k <= l + 1
      PROVE  (i * k) * j <= i * j * (1 + l)
  <2>1. i * j \in Nat /\ (i * k) * j = (i * j) * k
    OBVIOUS
  <2>2. ASSUME NEW m \in Nat PROVE m * k <= m * (1 + l)
    BY <1>8
  <2> QED
    BY <2>1, <2>2
<1>9. Cardinality(room) <= calls * wf.attempts[s] * (1 + Cardinality(undone))
  <2> HIDE DEF threads, undone, room
  <2> QED
    BY <1>3, <1>4, <1>5, <1>8
<1>10. Cardinality(TasksOf(s)) \in Nat /\ Cardinality(room) \in Nat
  <2> HIDE DEF f, room
  <2>1. IsFiniteSet(TasksOf(s))
    BY <1>5, <1>6, FS_Injection
  <2> QED
    BY <1>5, <2>1, FS_CardinalityType
<1> QED
  <2>1. calls * wf.attempts[s] * (1 + Cardinality(undone)) \in Nat
    <3> HIDE DEF undone
    <3> QED
      BY <1>3, <1>4
  <2>2. ASSUME NEW i \in Nat, NEW j \in Nat, NEW k \in Nat, i <= j, j <= k PROVE i <= k
    BY <2>2
  <2> HIDE DEF f, room, threads
  <2> QED
    BY <1>7, <1>9, <1>10, <2>1, <2>2

-----------------------------------------------------------------------------
(* A step is done once.  While no calls overlap and none dies, the copy of *)
(* the caller at work, or one of its threads, remembers what was done; and *)
(* the row does when nobody is at work.                                    *)

Covers(k, s) ==
  \/ k.run.steps[s] = "completed"
  \/ k.thread[s].pc = "settle" /\ k.thread[s].at = s /\ k.thread[s].outcome = "completed"

Remembered(s) ==
  DoneIn(tasks, s) # {} =>
    /\ \A c \in Caller : caller[c].pc # "idle" => Covers(caller[c], s)
    /\ (\A c \in Caller : caller[c].pc = "idle") => run.steps[s] = "completed"

\* Before the run there is nothing, and no copy of nothing.
Begun ==
  /\ run.status = "absent" => tasks = <<>> /\ \A c \in Caller : caller[c].pc = "idle"
  /\ \A c \in Caller : caller[c].pc # "idle" => caller[c].run.status # "absent"

\* Only steps that may need an approval come to wait for one.
Asked(ts, w) == \A t \in DOMAIN ts : ts[t].status = "requires_approval" => ts[t].step \in w.gated

Single == ~overlapped => \A c, d \in Caller : caller[c].pc # "idle" /\ caller[d].pc # "idle" => c = d

OnceInv ==
  /\ Begun /\ Asked(tasks, wf) /\ Single
  /\ ~overlapped /\ crashes = 0 =>
       \A s \in Own(wf) \ wf.gated : Remembered(s) /\ \A t, u \in DoneIn(tasks, s) : t = u

\* What a step of a thread does: it marks at most the step it is at, and when
\* a task is completed the thread knows, then the copy.
Goes(s, th, r, new, ts, us) ==
  \/ /\ \A x \in Step : DoneIn(us, x) \subseteq DoneIn(ts, x)
     /\ th.pc = "settle" /\ th.outcome = "completed" => r.steps[th.at] = "completed"
  \/ /\ th.pc = "run" /\ new.pc = "settle" /\ new.at = th.at /\ new.outcome = "completed"
     /\ \A x \in Step : DoneIn(us, x) \subseteq DoneIn(ts, x) \cup (IF x = th.at THEN {th.task} ELSE {})

LEMMA WorkGoes ==
  ASSUME IInv, Asked(tasks, wf), NEW c \in Caller, NEW s \in Step, Work(c, s)
  PROVE  /\ \E r \in Run, new \in Thread :
              /\ Stand(c, s, r, new) /\ run' \in {run, r} /\ r.status = caller[c].run.status
              /\ \A x \in Step : x # caller[c].thread[s].at => r.steps[x] = caller[c].run.steps[x]
              /\ Goes(s, caller[c].thread[s], r, new, tasks, tasks')
         /\ caller[c].pc = "level" /\ caller[c].thread[s].pc \in Moving
         /\ UNCHANGED <<wf, calls, crashes, overlapped>> /\ Asked(tasks', wf)
<1>1. PICK k \in CallerState, th \in Thread : k = caller[c] /\ th = k.thread[s]
  BY ThreadFacts
<1>2. /\ k.run \in Run /\ ThreadInv(s, th, k.run, tasks, wf) /\ tasks \in Seq(Task) /\ Len(tasks) + 1 \in Nat
  BY <1>1, ThreadFacts
<1>3. /\ k.pc = "level" /\ th.pc \in Moving /\ th.at \in Step /\ UNCHANGED <<wf, calls, crashes, overlapped>>
  <2>1. k.pc = "level" /\ th.pc \in Moving /\ UNCHANGED <<wf, calls, crashes, overlapped>>
    BY <1>1 DEF Work, StartStep, HasThread, CreateTask, RunTask, StepEnds, RetryStep, StepFails, Settle, At, Moving
  <2> QED
    BY <1>2, <2>1 DEF ThreadInv
<1>4. ASSUME NEW status \in StepRunStatus
      PROVE  /\ Marked(k.run, th.at, status) \in Run /\ Marked(k.run, th.at, status).status = k.run.status
             /\ Marked(k.run, th.at, status).steps[th.at] = status
             /\ \A x \in Step : x # th.at => Marked(k.run, th.at, status).steps[x] = k.run.steps[x]
  <2>1. Marked(k.run, th.at, status) \in Run
    BY <1>2, CopyTypes
  <2> QED
    BY <1>2, <1>3, <2>1 DEF Marked, Run
<1>5. ASSUME NEW status \in StepRunStatus, NEW new \in Thread, Stand(c, s, Marked(k.run, th.at, status), new),
             run' \in {run, Marked(k.run, th.at, status)}, UNCHANGED tasks,
             th.pc = "settle" /\ th.outcome = "completed" => status = "completed"
      PROVE  /\ \E r \in Run, n \in Thread :
                  /\ Stand(c, s, r, n) /\ run' \in {run, r} /\ r.status = k.run.status
                  /\ \A x \in Step : x # th.at => r.steps[x] = k.run.steps[x]
                  /\ Goes(s, th, r, n, tasks, tasks')
             /\ Asked(tasks', wf)
  BY <1>4, <1>5 DEF Goes
<1>6. ASSUME NEW status \in StepRunStatus, EndThread(c, s, Marked(k.run, th.at, status)),
             run' \in {run, Marked(k.run, th.at, status)}, UNCHANGED tasks,
             th.pc = "settle" /\ th.outcome = "completed" => status = "completed"
      PROVE  /\ \E r \in Run, n \in Thread :
                  /\ Stand(c, s, r, n) /\ run' \in {run, r} /\ r.status = k.run.status
                  /\ \A x \in Step : x # th.at => r.steps[x] = k.run.steps[x]
                  /\ Goes(s, th, r, n, tasks, tasks')
             /\ Asked(tasks', wf)
  <2>1. [NoThread EXCEPT !.pc = "done", !.outcome = Marked(k.run, th.at, status).steps[s]] \in Thread
    <3>1. PICK o \in StepRunStatus : o = Marked(k.run, th.at, status).steps[s]
      BY <1>4 DEF Run
    <3>2. [NoThread EXCEPT !.pc = "done", !.outcome = o] \in Thread
      BY DEF NoThread, Thread
    <3> QED
      BY <3>1, <3>2
  <2> QED
    BY <1>5, <1>6, <2>1 DEF EndThread
<1>7. {"running", "skipped", "completed", "failed", "waiting"} \subseteq StepRunStatus
  BY DEF StepRunStatus
<1>8. CASE StartStep(c, s)
  <2>1. th.pc \in {"start", "queued"} /\ UNCHANGED tasks
    BY <1>1, <1>8 DEF StartStep, HasThread, At
  <2>2. [th EXCEPT !.pc = "create", !.attempt = 1] \in Thread
    BY DEF Thread
  <2>3. CASE EndThread(c, s, Marked(k.run, th.at, "skipped")) /\ run' = Marked(k.run, th.at, "skipped")
    BY <1>1, <1>3, <1>6, <1>7, <2>1, <2>3
  <2>4. CASE /\ Stand(c, s, Marked(k.run, th.at, "running"), [th EXCEPT !.pc = "create", !.attempt = 1])
             /\ run' = run
    BY <1>1, <1>3, <1>5, <1>7, <2>1, <2>2, <2>4
  <2> QED
    BY <1>1, <1>8, <2>3, <2>4 DEF StartStep, Save
<1>9. CASE CreateTask(c, s)
  <2> DEFINE r == [k.run EXCEPT !.task[th.at] = Len(tasks) + 1]
             new == [th EXCEPT !.pc = "run", !.task = Len(tasks) + 1]
  <2>1. /\ th.pc = "create" /\ run' = r /\ Stand(c, s, r, new)
        /\ tasks' = Append(tasks, NewTask(th.at))
    BY <1>1, <1>9 DEF CreateTask, At, Save
  <2>2. r \in Run /\ r.status = k.run.status /\ r.steps = k.run.steps
    <3>1. r \in Run
      BY <1>2, CopyTypes
    <3> QED
      BY <1>2, <3>1 DEF Run
  <2>3. new \in Thread
    BY <1>2 DEF Thread
  <2>4. /\ DOMAIN tasks' = DOMAIN tasks \cup {Len(tasks) + 1}
        /\ tasks'[Len(tasks) + 1].result = "open" /\ tasks'[Len(tasks) + 1].status = "open"
        /\ \A t \in DOMAIN tasks : tasks'[t] = tasks[t]
    <3>1. PICK e : e = NewTask(th.at) /\ e.result = "open" /\ e.status = "open"
      BY <1>3, TaskTypes
    <3>2. /\ DOMAIN tasks' = DOMAIN tasks \cup {Len(tasks) + 1} /\ tasks'[Len(tasks) + 1] = e
          /\ \A t \in DOMAIN tasks : tasks'[t] = tasks[t]
      BY <1>2, <2>1, <3>1
    <3> QED
      BY <3>1, <3>2
  <2> HIDE DEF r, new
  <2>5. (\A x \in Step : DoneIn(tasks', x) \subseteq DoneIn(tasks, x)) /\ Asked(tasks', wf)
    BY <2>4 DEF DoneIn, Asked
  <2> QED
    BY <1>1, <1>3, <2>1, <2>2, <2>3, <2>5 DEF Goes
<1>10. CASE RunTask(c, s)
  <2>1. PICK o \in {"completed", "failed", "requires_approval"} :
          /\ o = "requires_approval" => th.at \in wf.gated
          /\ tasks' = [tasks EXCEPT ![th.task] = CameTo(@, o)]
          /\ Stand(c, s, k.run, [th EXCEPT !.pc = "settle", !.outcome = o])
    BY <1>1, <1>10 DEF RunTask
  <2>2. th.pc = "run" /\ run' = run /\ th.task \in DOMAIN tasks /\ tasks[th.task].step = th.at
    BY <1>1, <1>2, <1>10 DEF RunTask, At, ThreadInv, AtTask
  <2>3. PICK new \in Thread : new = [th EXCEPT !.pc = "settle", !.outcome = o]
    BY DEF Thread, TaskStatus
  <2>4. new.pc = "settle" /\ new.at = th.at /\ new.outcome = o
    BY <2>3 DEF Thread
  <2>5. /\ DOMAIN tasks' = DOMAIN tasks
        /\ tasks'[th.task].step = th.at /\ tasks'[th.task].result = o /\ tasks'[th.task].status = o
        /\ \A t \in DOMAIN tasks \ {th.task} : tasks'[t] = tasks[t]
    BY <2>1, <2>2, TaskCameTo DEF Result, IInv
  <2>6. Asked(tasks', wf)
    BY <2>1, <2>5 DEF Asked
  <2>7. \A x \in Step : DoneIn(tasks', x) \subseteq
          DoneIn(tasks, x) \cup (IF x = th.at /\ o = "completed" THEN {th.task} ELSE {})
    BY <2>5 DEF DoneIn
  <2>8. Goes(s, th, k.run, new, tasks, tasks')
    BY <2>2, <2>4, <2>7 DEF Goes
  <2> QED
    BY <1>1, <1>2, <1>3, <2>1, <2>2, <2>3, <2>6, <2>8
<1>11. CASE StepEnds(c, s)
  <2>1. PICK o \in {<<"completed", "completed">>, <<"requires_approval", "waiting">>} :
          Settle(c, s, o[1], o[2]) /\ EndThread(c, s, Marked(k.run, th.at, o[2]))
    BY <1>1, <1>11 DEF StepEnds
  <2>2. /\ o[2] \in StepRunStatus /\ UNCHANGED tasks /\ run' = Marked(k.run, th.at, o[2])
        /\ th.outcome = "completed" => o[2] = "completed"
    BY <1>1, <1>7, <2>1 DEF Settle, Save
  <2> QED
    BY <1>1, <1>3, <1>6, <2>1, <2>2
<1>12. CASE RetryStep(c, s)
  <2>1. /\ th.pc = "settle" /\ th.outcome = "failed" /\ UNCHANGED tasks /\ run' = Marked(k.run, th.at, "running")
        /\ Stand(c, s, Marked(k.run, th.at, "running"), [th EXCEPT !.pc = "create", !.attempt = th.attempt + 1])
    BY <1>1, <1>12 DEF RetryStep, Settle, At, Save
  <2>2. [th EXCEPT !.pc = "create", !.attempt = th.attempt + 1] \in Thread
    <3>1. th.attempt + 1 \in Nat
      BY DEF Thread
    <3> QED
      BY <3>1 DEF Thread
  <2> QED
    BY <1>1, <1>3, <1>5, <1>7, <2>1, <2>2
<1>13. CASE StepFails(c, s)
  <2>1. /\ th.pc = "settle" /\ th.outcome = "failed" /\ UNCHANGED tasks /\ run' = Marked(k.run, th.at, "failed")
        /\ IF Compensator(th.at) = NoStep
           THEN EndThread(c, s, Marked(k.run, th.at, "failed"))
           ELSE Stand(c, s, Marked(k.run, th.at, "failed"), [NoThread EXCEPT !.pc = "start", !.at = Compensator(th.at)])
    BY <1>1, <1>13 DEF StepFails, Settle, At, Save
  <2>2. ASSUME Compensator(th.at) # NoStep
        PROVE  [NoThread EXCEPT !.pc = "start", !.at = Compensator(th.at)] \in Thread
    <3>1. wf \in Workflow
      BY ThreadFacts
    <3>2. Compensator(th.at) \in Step
      BY <1>3, <2>2, <3>1 DEF Compensator, Workflow
    <3> QED
      BY <3>2 DEF NoThread, Thread, StepRunStatus
  <2> QED
    BY <1>1, <1>3, <1>5, <1>6, <1>7, <2>1, <2>2
<1> QED
  BY <1>8, <1>9, <1>10, <1>11, <1>12, <1>13 DEF Work

\* What was done stays covered, and what is not covered is done but once.
LEMMA WorkCovers ==
  ASSUME IInv, NEW c \in Caller, NEW s \in Step, NEW r \in Run, NEW new \in Thread, Stand(c, s, r, new),
         caller[c].thread[s].pc \in Moving,
         \A y \in Step : y # caller[c].thread[s].at => r.steps[y] = caller[c].run.steps[y],
         Goes(s, caller[c].thread[s], r, new, tasks, tasks'),
         NEW x \in Own(wf)
  PROVE  \/ DoneIn(tasks', x) \subseteq DoneIn(tasks, x) /\ (Covers(caller[c], x) => Covers(caller'[c], x))
         \/ /\ ~Covers(caller[c], x) /\ Covers(caller'[c], x)
            /\ \E t : DoneIn(tasks', x) \subseteq DoneIn(tasks, x) \cup {t}
<1>1. PICK k \in CallerState, th \in Thread : k = caller[c] /\ th = k.thread[s]
  BY ThreadFacts
<1>2. ThreadInv(s, th, k.run, tasks, wf) /\ TypeOK /\ x \in Step
  BY <1>1, ThreadFacts DEF Own
<1>3. /\ caller'[c].run = r /\ caller'[c].thread[s] = new
      /\ \A y \in Step \ {s} : caller'[c].thread[y] = k.thread[y]
  BY <1>1, <1>2, Standing
<1>4. /\ th.at \in Step /\ (th.at = s \/ th.at \notin Own(wf))
      /\ th.at # s /\ s \in Own(wf) => k.run.steps[s] = "failed"
      /\ th.at = s /\ s \in Own(wf) => k.run.steps[s] # "completed"
  BY <1>1, <1>2 DEF ThreadInv, Place, Moving, Terminal
<1>5. CASE x # th.at
  <2>1. DoneIn(tasks', x) \subseteq DoneIn(tasks, x)
    BY <1>1, <1>2, <1>5 DEF Goes
  <2>2. r.steps[x] = k.run.steps[x]
    BY <1>1, <1>2, <1>5
  <2>3. CASE x # s
    BY <1>1, <1>2, <1>3, <2>1, <2>2, <2>3 DEF Covers
  <2>4. CASE x = s
    BY <1>1, <1>4, <1>5, <2>1, <2>4 DEF Covers
  <2> QED
    BY <2>3, <2>4
<1>6. CASE x = th.at
  <2>1. s = x /\ k.run.steps[x] # "completed"
    BY <1>4, <1>6
  <2>2. CASE /\ \A y \in Step : DoneIn(tasks', y) \subseteq DoneIn(tasks, y)
             /\ th.pc = "settle" /\ th.outcome = "completed" => r.steps[th.at] = "completed"
    BY <1>1, <1>2, <1>3, <1>6, <2>1, <2>2 DEF Covers
  <2>3. CASE /\ th.pc = "run" /\ new.pc = "settle" /\ new.at = th.at /\ new.outcome = "completed"
             /\ \A y \in Step : DoneIn(tasks', y) \subseteq DoneIn(tasks, y) \cup (IF y = th.at THEN {th.task} ELSE {})
    <3>1. ~Covers(k, x)
      BY <1>1, <2>1, <2>3 DEF Covers
    <3>2. Covers(caller'[c], x)
      BY <1>3, <1>6, <2>1, <2>3 DEF Covers
    <3>3. DoneIn(tasks', x) \subseteq DoneIn(tasks, x) \cup {th.task}
      BY <1>2, <1>6, <2>3
    <3> QED
      BY <1>1, <3>1, <3>2, <3>3
  <2> QED
    BY <1>1, <2>2, <2>3 DEF Goes
<1> QED
  BY <1>5, <1>6

\* The calls at work, when there are no two.
Sequential == ~overlapped /\ crashes = 0
OnceIn(s) == Remembered(s) /\ \A t, u \in DoneIn(tasks, s) : t = u

LEMMA OnceWork ==
  ASSUME IInv, OnceInv, NEW c \in Caller, NEW s \in Step, Work(c, s)
  PROVE  OnceInv'
<1>1. PICK r \in Run, new \in Thread :
        /\ Stand(c, s, r, new) /\ run' \in {run, r} /\ r.status = caller[c].run.status
        /\ \A x \in Step : x # caller[c].thread[s].at => r.steps[x] = caller[c].run.steps[x]
        /\ Goes(s, caller[c].thread[s], r, new, tasks, tasks')
  BY WorkGoes DEF OnceInv
<1>2. /\ caller[c].pc = "level" /\ caller[c].thread[s].pc \in Moving
      /\ UNCHANGED <<wf, calls, crashes, overlapped>> /\ Asked(tasks', wf) /\ TypeOK
  BY WorkGoes DEF OnceInv, IInv
<1>3. /\ caller'[c].pc = "level" /\ caller'[c].run = r
      /\ \A d \in Caller \ {c} : caller'[d] = caller[d]
  BY <1>1, <1>2, Standing
<1>4. Begun' /\ Single'
  BY <1>1, <1>2, <1>3 DEF OnceInv, Begun, Single
<1>5. ASSUME ~overlapped, crashes = 0, NEW x \in Own(wf) \ wf.gated
      PROVE  Remembered(x)' /\ \A t, u \in DoneIn(tasks', x) : t = u
  <2>1. Remembered(x) /\ \A t, u \in DoneIn(tasks, x) : t = u
    BY <1>5 DEF OnceInv
  <2>2. \A d \in Caller \ {c} : caller'[d].pc = "idle"
    BY <1>2, <1>3, <1>5 DEF OnceInv, Single
  <2>3. DoneIn(tasks, x) # {} => Covers(caller[c], x)
    BY <1>2, <2>1 DEF Remembered
  <2>4. CASE DoneIn(tasks', x) \subseteq DoneIn(tasks, x) /\ (Covers(caller[c], x) => Covers(caller'[c], x))
    BY <1>3, <2>1, <2>2, <2>3, <2>4 DEF Remembered
  <2>5. CASE /\ ~Covers(caller[c], x) /\ Covers(caller'[c], x)
             /\ \E t : DoneIn(tasks', x) \subseteq DoneIn(tasks, x) \cup {t}
    BY <1>3, <2>2, <2>3, <2>5 DEF Remembered
  <2> QED
    BY <1>1, <1>2, <1>5, <2>4, <2>5, WorkCovers
<1> QED
  BY <1>2, <1>4, <1>5 DEF OnceInv

\* Steps that leave the tasks as they are, or cancelled; the call goes on, with a copy that remembers as much, or ends and writes it.
LEMMA OnceMoves ==
  ASSUME IInv, OnceInv, UNCHANGED <<wf, crashes, overlapped>>,
         NEW c \in Caller, caller[c].pc # "idle", \A d \in Caller \ {c} : caller'[d] = caller[d],
         DOMAIN tasks' = DOMAIN tasks,
         \A t \in DOMAIN tasks : /\ tasks'[t].step = tasks[t].step /\ tasks'[t].result = tasks[t].result
                                  /\ tasks'[t].status \in {tasks[t].status, "cancelled"},
         run'.status # "absent",
         caller'[c].pc # "idle" => caller'[c].run.status # "absent",
         \A x \in Step : Covers(caller[c], x) =>
           IF caller'[c].pc = "idle" THEN run'.steps[x] = "completed" ELSE Covers(caller'[c], x)
  PROVE  OnceInv'
<1>1. Begun'
  BY DEF OnceInv, Begun
<1>2. Asked(tasks', wf)
  BY DEF OnceInv, Asked
<1>3. Single'
  BY DEF OnceInv, Single
<1>4. ASSUME ~overlapped', crashes = 0, NEW x \in Own(wf) \ wf.gated
      PROVE  Remembered(x)' /\ \A t, u \in DoneIn(tasks', x) : t = u
  <2>1. x \in Step /\ Remembered(x) /\ \A t, u \in DoneIn(tasks, x) : t = u
    BY <1>4 DEF OnceInv, Own
  <2>2. \A d \in Caller \ {c} : caller[d].pc = "idle"
    BY <1>4 DEF OnceInv, Single
  <2>3. DoneIn(tasks', x) \subseteq DoneIn(tasks, x)
    BY DEF DoneIn
  <2>4. DoneIn(tasks, x) # {} => Covers(caller[c], x)
    BY <2>1 DEF Remembered
  <2> QED
    BY <2>1, <2>2, <2>3, <2>4 DEF Remembered
<1> QED
  BY <1>1, <1>2, <1>3, <1>4 DEF OnceInv

\* A call that begins takes what the row says was done.
LEMMA OnceBegins ==
  ASSUME IInv, OnceInv, NEW c \in Caller, NEW pc \in {"begin", "resume", "cancel"}, NEW r, NewCall(c, pc, r),
         r.status # "absent", run'.status # "absent",
         tasks = <<>> \/ \A x \in Step : run.steps[x] = "completed" => r.steps[x] = "completed"
  PROVE  OnceInv'
<1>1. /\ UNCHANGED <<wf, tasks, crashes>> /\ caller[c].pc = "idle"
      /\ caller'[c].pc = pc /\ caller'[c].run = r /\ \A d \in Caller \ {c} : caller'[d] = caller[d]
      /\ overlapped' = (overlapped \/ \E d \in Caller : caller[d].pc # "idle")
  BY DEF NewCall, IInv, TypeOK, Idle
<1>2. Begun' /\ Asked(tasks', wf)
  BY <1>1 DEF OnceInv, Begun
<1>3. ~overlapped' => ~overlapped /\ \A d \in Caller : caller[d].pc = "idle"
  BY <1>1
<1>4. Single'
  BY <1>1, <1>3 DEF Single
<1>5. ASSUME ~overlapped', crashes = 0, NEW x \in Own(wf) \ wf.gated
      PROVE  Remembered(x)' /\ \A t, u \in DoneIn(tasks', x) : t = u
  <2>1. x \in Step /\ Remembered(x) /\ \A t, u \in DoneIn(tasks, x) : t = u
    BY <1>3, <1>5 DEF OnceInv, Own
  <2>2. DoneIn(tasks, x) # {} => r.steps[x] = "completed"
    BY <1>3, <1>5, <2>1 DEF Remembered, DoneIn
  <2>3. DoneIn(tasks, x) # {} => Covers(caller'[c], x)
    BY <1>1, <2>2 DEF Covers
  <2> QED
    BY <1>1, <1>3, <1>5, <2>1, <2>3 DEF Remembered
<1> QED
  BY <1>1, <1>2, <1>4, <1>5 DEF OnceInv

LEMMA OnceNext == ASSUME IInv, OnceInv, [Next]_vars PROVE OnceInv'
<1>1. TypeOK /\ run \in Run /\ \A s \in Step : NoThreads[s].pc = "none"
  BY DEF IInv, TypeOK, NoThreads, NoThread
<1>2. ASSUME NEW c \in Caller
      PROVE  /\ caller[c] \in CallerState /\ caller[c].run \in Run
             /\ caller[c].pc # "level" => caller[c].thread = NoThreads
             /\ caller[c].pc \in {"enter", "level"} => caller[c].run.status = "running"
             /\ caller[c].pc # "idle" => caller[c].run.status # "absent"
  BY <1>1 DEF IInv, TypeOK, CallerState, CallerInv, Status, OnceInv, Begun
<1>3. ASSUME NEW c \in Caller, Start(c)
      PROVE  OnceInv'
  <2>1. NewRun.status = "pending" /\ tasks = <<>> /\ run' = NewRun
    BY <1>3 DEF OnceInv, Begun, Start, Save, NewRun
  <2> QED
    BY <1>3, <2>1, OnceBegins DEF Start
<1>4. ASSUME NEW c \in Caller, Resume(c)
      PROVE  OnceInv'
  <2>1. Reopened(run).status = run.status /\ \A x \in Step : run.steps[x] = "completed" => Reopened(run).steps[x] = "completed"
    BY <1>1 DEF Reopened, Run
  <2> QED
    BY <1>4, <2>1, OnceBegins DEF Resume
<1>5. ASSUME NEW c \in Caller, Cancel(c)
      PROVE  OnceInv'
  BY <1>5, OnceBegins DEF Cancel
<1>6. ASSUME NEW c \in Caller, NEW q \in Run, run' = q, q.status # "absent", caller' = [caller EXCEPT ![c] = Idle],
             caller[c].pc # "idle", UNCHANGED <<wf, crashes, overlapped>>,
             UNCHANGED tasks,
             \A x \in Step : caller[c].run.steps[x] = "completed" => q.steps[x] = "completed",
             \A x \in Step : caller[c].thread[x].pc # "settle"
      PROVE  OnceInv'
  <2>1. caller'[c].pc = "idle" /\ \A d \in Caller \ {c} : caller'[d] = caller[d]
    BY <1>1, <1>6 DEF TypeOK, Idle
  <2>2. \A x \in Step : Covers(caller[c], x) => run'.steps[x] = "completed"
    BY <1>6 DEF Covers
  <2> QED
    BY <1>6, <2>1, <2>2, OnceMoves
<1>7. ASSUME NEW c \in Caller, CancelSave(c)
      PROVE  OnceInv'
  <2> DEFINE r == caller[c].run
             q == [r EXCEPT !.status = "cancelled",
                            !.steps = [s \in Step |-> IF r.steps[s] \in Terminal THEN r.steps[s] ELSE "cancelled"]]
  <2>1. /\ q \in Run /\ q.status = "cancelled"
        /\ \A x \in Step : r.steps[x] = "completed" => q.steps[x] = "completed"
    BY <1>2 DEF Run, RunStatus, StepRunStatus, Terminal
  <2>2. run' = q /\ caller' = [caller EXCEPT ![c] = Idle] /\ caller[c].pc = "cancel" /\ UNCHANGED <<wf, crashes, overlapped>>
    BY <1>7 DEF CancelSave, Save, Return
  <2>3. UNCHANGED tasks
    BY <1>7 DEF CancelSave
  <2>4. \A x \in Step : caller[c].thread[x].pc # "settle"
    BY <1>1, <1>2, <2>2
  <2> HIDE DEF q
  <2> QED
    BY <1>6, <2>1, <2>2, <2>3, <2>4
<1>8. ASSUME NEW c \in Caller, PauseRun(c) \/ FailRun(c) \/ FinishRun(c)
      PROVE  OnceInv'
  <2>1. PICK status \in RunStatus \ {"absent"} : run' = [caller[c].run EXCEPT !.status = status]
    BY <1>8 DEF PauseRun, FailRun, FinishRun, Save, EndStatus, RunStatus
  <2>2. /\ run' \in Run /\ run'.status = status /\ run'.steps = caller[c].run.steps
    <3>1. run' \in Run
      BY <1>2, <2>1, CopyTypes
    <3> QED
      BY <1>2, <2>1, <3>1 DEF Run
  <2>3. /\ caller' = [caller EXCEPT ![c] = Idle] /\ caller[c].pc # "idle" /\ UNCHANGED <<wf, tasks, crashes, overlapped>>
        /\ \A x \in Step : caller[c].thread[x].pc # "settle"
    <3>1. CASE PauseRun(c) \/ FailRun(c)
      BY <3>1 DEF PauseRun, FailRun, Return, LevelEnded, Threads
    <3>2. CASE FinishRun(c)
      BY <1>1, <1>2, <3>2 DEF FinishRun, Return
    <3> QED
      BY <1>8, <3>1, <3>2
  <2>4. PICK q \in Run : q = run'
    BY <2>2
  <2> QED
    BY <1>6, <2>2, <2>3, <2>4
<1>9. ASSUME NEW c \in Caller, NEW k \in CallerState, caller' = [caller EXCEPT ![c] = k], caller[c].pc # "idle",
             k.pc # "idle", k.run.status # "absent", UNCHANGED <<wf, tasks, crashes, overlapped>>,
             run'.status # "absent", \A x \in Step : Covers(caller[c], x) => Covers(k, x)
      PROVE  OnceInv'
  <2>1. caller'[c] = k /\ \A d \in Caller \ {c} : caller'[d] = caller[d]
    BY <1>1, <1>9, MoveTypes
  <2>2. DOMAIN tasks' = DOMAIN tasks /\ \A t \in DOMAIN tasks : tasks'[t] = tasks[t]
    BY <1>9
  <2> QED
    BY <1>9, <2>1, <2>2, OnceMoves
<1>10. ASSUME NEW c \in Caller, ResumeSave(c)
       PROVE  OnceInv'
  <2>1. PICK k \in CallerState : k = [caller[c] EXCEPT !.pc = "begin"]
    BY <1>2 DEF CallerState, PC
  <2>2. k.pc = "begin" /\ k.run = caller[c].run /\ k.thread = caller[c].thread
    BY <1>2, <2>1 DEF CallerState
  <2>3. caller' = [caller EXCEPT ![c] = k] /\ caller[c].pc = "resume" /\ run' = caller[c].run /\ UNCHANGED <<wf, tasks, crashes, overlapped>>
    BY <1>10, <2>1 DEF ResumeSave, Save
  <2>4. \A x \in Step : Covers(caller[c], x) => Covers(k, x)
    BY <2>2 DEF Covers
  <2>5. run'.status # "absent" /\ k.run.status # "absent"
    BY <1>2, <2>2, <2>3
  <2> QED
    BY <1>9, <2>2, <2>3, <2>4, <2>5
<1>11. ASSUME NEW c \in Caller, Begin(c)
       PROVE  OnceInv'
  <2>1. PICK r \in Run : r = [caller[c].run EXCEPT !.status = "running"]
    BY <1>2, CopyTypes DEF RunStatus
  <2>2. r.status = "running" /\ r.steps = caller[c].run.steps
    BY <1>2, <2>1 DEF Run
  <2>3. PICK k \in CallerState : k = [caller[c] EXCEPT !.pc = "enter", !.run = r, !.resolved = {}]
    BY <1>2 DEF CallerState, PC
  <2>4. k.pc = "enter" /\ k.run = r /\ k.thread = caller[c].thread
    BY <1>2, <2>3 DEF CallerState
  <2>5. caller' = [caller EXCEPT ![c] = k] /\ caller[c].pc = "begin" /\ run' = r /\ UNCHANGED <<wf, tasks, crashes, overlapped>>
    BY <1>11, <2>1, <2>3 DEF Begin, Save
  <2> QED
    BY <1>9, <2>2, <2>4, <2>5 DEF Covers
<1>12. ASSUME NEW c \in Caller, EnterLevel(c)
       PROVE  OnceInv'
  <2> DEFINE k == caller[c]
             level == Level(k.resolved)
             r == SkipBlocked(k.run, level)
             pending == PendingIn(r, level)
             thread == [s \in Step |-> IF s \in pending THEN [NoThread EXCEPT !.pc = "queued", !.at = s] ELSE NoThread]
             new == [k EXCEPT !.run = r, !.pc = IF pending = {} THEN "enter" ELSE "level",
                              !.resolved = IF pending = {} THEN @ \cup level ELSE @, !.thread = thread]
  <2>1. /\ k.pc = "enter" /\ run' \in {run, r} /\ caller' = [caller EXCEPT ![c] = new] /\ UNCHANGED <<wf, tasks, crashes, overlapped>>
    BY <1>12 DEF EnterLevel
  <2>2. k \in CallerState /\ k.run \in Run /\ k.thread = NoThreads /\ k.run.status = "running" /\ level \subseteq Step
    BY <1>2, <2>1 DEF Level
  <2>3. r \in Run /\ r.status = "running" /\ \A x \in Step : k.run.steps[x] = "completed" => r.steps[x] = "completed"
    <3>1. r \in Run
      BY <2>2, CopyTypes
    <3> QED
      BY <2>2, <3>1 DEF SkipBlocked, Run, Terminal
  <2>4. thread \in [Step -> Thread]
    BY DEF NoThread, Thread, StepRunStatus
  <2> HIDE DEF r, thread, pending, level
  <2>5. new \in CallerState /\ new.run = r /\ new.pc # "idle"
    BY <2>2, <2>3, <2>4 DEF CallerState, PC
  <2>6. run.status # "absent"
    BY <2>1 DEF OnceInv, Begun
  <2>7. \A x \in Step : Covers(k, x) => Covers(new, x)
    BY <1>1, <2>2, <2>3, <2>5 DEF Covers
  <2> HIDE DEF new
  <2> QED
    BY <1>9, <2>1, <2>3, <2>5, <2>6, <2>7
<1>13. ASSUME NEW c \in Caller, NextLevel(c)
       PROVE  OnceInv'
  <2>1. PICK k \in CallerState : k = [caller[c] EXCEPT !.pc = "enter", !.resolved = @ \cup Level(@), !.thread = NoThreads]
    BY <1>2, RunTypes DEF CallerState, PC, Level
  <2>2. k.pc = "enter" /\ k.run = caller[c].run
    BY <1>2, <2>1 DEF CallerState
  <2>3. /\ caller' = [caller EXCEPT ![c] = k] /\ caller[c].pc = "level" /\ UNCHANGED <<wf, run, tasks, crashes, overlapped>>
        /\ \A x \in Step : caller[c].thread[x].pc # "settle"
    BY <1>13, <2>1 DEF NextLevel, LevelEnded, Threads
  <2>4. run.status # "absent"
    BY <2>3 DEF OnceInv, Begun
  <2> QED
    BY <1>2, <1>9, <2>2, <2>3, <2>4 DEF Covers
<1>14. ASSUME NEW c \in Caller, NEW s \in Step, Work(c, s)
       PROVE  OnceInv'
  BY <1>14, OnceWork
<1>15. ASSUME NEW c \in Caller, Crash(c)
       PROVE  OnceInv'
  <2>1. /\ caller'[c].pc = "idle" /\ \A d \in Caller \ {c} : caller'[d] = caller[d]
        /\ caller[c].pc # "idle" /\ UNCHANGED <<wf, run, tasks, overlapped>> /\ crashes' # 0
    BY <1>1, <1>15 DEF Crash, Return, Idle, TypeOK
  <2> QED
    BY <2>1 DEF OnceInv, Begun, Asked, Single
<1>16. CASE Decide
  <2>1. PICK t \in DOMAIN tasks, o \in {"completed", "failed"} :
          tasks[t].status = "requires_approval" /\ tasks' = [tasks EXCEPT ![t] = CameTo(@, o)]
    BY <1>16 DEF Decide
  <2>3. /\ DOMAIN tasks' = DOMAIN tasks /\ tasks'[t].step = tasks[t].step /\ tasks'[t].result = o
        /\ tasks'[t].status = o /\ \A u \in DOMAIN tasks \ {t} : tasks'[u] = tasks[u]
    BY <1>1, <2>1, TaskCameTo DEF Result
  <2>4. UNCHANGED <<wf, run, caller, crashes, overlapped>> /\ tasks[t].step \in wf.gated /\ tasks # <<>>
    BY <1>16, <2>1 DEF Decide, OnceInv, Asked
  <2>5. Begun' /\ Asked(tasks', wf) /\ Single'
    BY <2>3, <2>4 DEF OnceInv, Begun, Asked, Single
  <2>6. \A x : x \notin wf.gated => DoneIn(tasks', x) = DoneIn(tasks, x)
    BY <2>3, <2>4 DEF DoneIn
  <2>7. ASSUME ~overlapped, crashes = 0, NEW x \in Own(wf) \ wf.gated
        PROVE  Remembered(x)' /\ \A u, v \in DoneIn(tasks', x) : u = v
    <3>1. Remembered(x) /\ \A u, v \in DoneIn(tasks, x) : u = v
      BY <2>7 DEF OnceInv
    <3> QED
      BY <2>4, <2>6, <3>1 DEF Remembered
  <2> QED
    BY <2>4, <2>5, <2>7 DEF OnceInv
<1>17. CASE UNCHANGED vars
  BY <1>17 DEF vars, OnceInv, Begun, Asked, Single, Remembered
<1>18. ASSUME NEW c \in Caller, (\E s \in Step : CancelTask(c, s)) \/ CancelTaskSave(c)
       PROVE  OnceInv'
  <2>1. run.status # "absent" /\ caller[c].run.status # "absent"
    BY <1>1, <1>18, Cancelling DEF OnceInv, Begun
  <2>2. \A x \in Step : Covers(caller[c], x) => Covers(caller'[c], x)
    BY <1>1, <1>18, Cancelling DEF Covers
  <2> QED
    BY <1>1, <1>18, <2>1, <2>2, Cancelling, OnceMoves
<1> QED
  BY <1>3, <1>4, <1>5, <1>7, <1>8, <1>10, <1>11, <1>12, <1>13, <1>14, <1>15, <1>16, <1>17, <1>18 DEF Next, Execute, Quiescent

LEMMA OnceInit == Init => OnceInv
BY DEF Init, OnceInv, Begun, Asked, Single, Remembered, DoneIn, NoRun, NewRun, Idle

LEMMA OnceLimit == ASSUME TypeOK, OnceInv PROVE DoneOnce
<1> SUFFICES ASSUME ~overlapped, crashes = 0, NEW s \in Step \ (wf.gated \cup Compensators)
             PROVE  Cardinality(Completed(s)) <= 1
  BY DEF DoneOnce
<1>1. Completed(s) = DoneIn(tasks, s) /\ s \in Own(wf) \ wf.gated
  BY DEF Completed, TasksOf, DoneIn, Own, Compensators, Compensator, CompensatorIn
<1>2. \A t, u \in Completed(s) : t = u
  BY <1>1 DEF OnceInv
<1>3. CASE Completed(s) = {}
  BY <1>3, FS_EmptySet
<1>4. ASSUME NEW t \in Completed(s)
      PROVE  Cardinality(Completed(s)) <= 1
  <2>1. Completed(s) = {t}
    BY <1>2
  <2>2. Cardinality({t}) = 1
    BY FS_Singleton
  <2> QED
    BY <2>1, <2>2
<1> QED
  BY <1>3, <1>4

-----------------------------------------------------------------------------
(* Theorems *)

\* The row, the copies and the threads are always of their types: a thread that
\* works is at a step, its own or the compensator of the one that failed.
THEOREM RunTypeCorrect == Spec => []TypeOK
BY Invariant, Promises, PTL

\* Whatever callers overlap, cancel, resume and die, a step has a task only when
\* each step it depends on has one that was completed before (_skip_blocked).
THEOREM DependenciesAreFirst == Spec => []DependenciesFirst
BY Invariant, Promises, PTL

\* A copy that is written over the row, however stale, names tasks whose work came
\* to what it says of their steps; and their own rows say so, unless a call of
\* cancel that met another wrote over them (cancel, workflow_engine.py:216-222).
THEOREM RowsAreTrue == Spec => []RowIsTrue
<1>1. IInv /\ AloneInv /\ [Next]_vars => AloneInv'
  BY AloneNext
<1>2. Init => AloneInv
  BY AloneInit
<1> QED
  BY Invariant, RowShows, <1>1, <1>2, PTL DEF Spec

\* A run that ended well left nothing behind: the loop over the levels (_levels,
\* execute) passed every step, because no steps depend on one another in a circle.
THEOREM EndsAreEarned == Spec => []EndIsEarned
BY Invariant, Promises, PTL

\* A step is done once (resume, _run_step): while no calls overlap and none dies,
\* what was done is remembered by the copy at work and by the row it is saved to.
THEOREM StepsAreDoneOnce == Spec => []DoneOnce
<1>1. Init => OnceInv
  BY OnceInit
<1>2. IInv /\ OnceInv /\ [Next]_vars => OnceInv'
  BY OnceNext
<1>3. IInv /\ OnceInv => DoneOnce
  BY OnceLimit DEF IInv
<1> QED
  BY Invariant, <1>1, <1>2, <1>3, PTL DEF Spec

\* Tries are counted (_run_step, _compensate): a step that ended well is not done
\* again, and calls, retries and compensators do not multiply, however callers
\* overlap and die.  A compensator with one of its own would be tried again for
\* each failure before it, and in a circle of them without end.
THEOREM TriesCounted ==
  ASSUME NoChains
  PROVE  Spec => []TriesAreCounted
<1>1. Init => TriesInv
  BY TriesInit
<1>2. IInv /\ Written(tasks) /\ TriesInv /\ [Next]_vars => TriesInv'
  BY TriesNext
<1>3. IInv /\ TriesInv => RetriesAreLimited
  BY TriesLimit DEF IInv
<1>4. Spec => []RetriesAreLimited
  BY Invariant, <1>1, <1>2, <1>3, PTL DEF Spec
<1>5. DoneOnce /\ RetriesAreLimited => TriesAreCounted
  BY DEF TriesAreCounted
<1> QED
  BY StepsAreDoneOnce, <1>4, <1>5, PTL
=============================================================================
