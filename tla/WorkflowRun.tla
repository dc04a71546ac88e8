----------------------------- MODULE WorkflowRun -----------------------------
(***************************************************************************)
(* One run of a workflow (runtime/workflow_engine.py): a graph of steps    *)
(* executed level by level, each step by tasks of the agent engine.  A     *)
(* caller (a thread of the server, a CLI process, the scheduler) starts,   *)
(* resumes or cancels the run on its own copy of it, shared only with the  *)
(* threads that work on the steps of a level, and every save writes the    *)
(* whole copy over the row.                                                *)
(*                                                                         *)
(* A task is one step of this module: TaskEngine tells what goes on in it. *)
(* Steps of a level are taken in any order (the code takes them by id).    *)
(***************************************************************************)
EXTENDS Integers, Sequences, FiniteSets

CONSTANTS
  Caller, Step,
  NoStep,              \* "no compensate_with"
  Workflows,           \* the declarations a run may be of
  MaxCalls,            \* bound: starts, resumes and cancels
  MaxCrashes           \* bound: callers that die

Policy == {"fail", "continue", "compensate"}

\* What validate lets through; `width` is max_parallel, or 1 when not
\* parallel; the tasks of `gated` steps may need an approval; `optional`
\* steps have a condition.
Workflow == [deps : [Step -> SUBSET Step], attempts : [Step -> Nat \ {0}],
             on_error : [Step -> Policy], compensate_with : [Step -> Step \cup {NoStep}],
             gated : SUBSET Step, optional : SUBSET Step, width : Nat \ {0}]

ASSUME WorkflowAssumption ==
  /\ IsFiniteSet(Step) /\ NoStep \notin Step
  /\ Workflows \subseteq Workflow
  \* no cycle (levels): of any steps, one depends on none of the others
  /\ \A w \in Workflows, some \in (SUBSET Step) \ {{}} : \E s \in some : w.deps[s] \cap some = {}
  /\ {MaxCalls, MaxCrashes} \subseteq Nat

VARIABLES
  wf,                  \* the workflow
  run,                 \* the row of table workflow_runs
  caller,              \* each caller's place, copy of the run and threads
  tasks,               \* the tasks of this run, oldest first
  calls, crashes,
  overlapped           \* have two callers ever been at work at once?

vars == <<wf, run, caller, tasks, calls, crashes, overlapped>>

-----------------------------------------------------------------------------
RunStatus == {"absent", "pending", "running", "waiting",
              "completed", "partial", "failed", "cancelled"}
Finished == {"completed", "partial", "failed", "cancelled"}

StepRunStatus == {"pending", "running", "waiting",
                  "completed", "failed", "skipped", "cancelled"}
Terminal == {"completed", "failed", "skipped", "cancelled"}

Run == [status : RunStatus, steps : [Step -> StepRunStatus], task : [Step -> Nat]]

TaskStatus == {"open", "requires_approval", "completed", "failed", "cancelled"}
Result == {"open", "requires_approval", "completed", "failed"}

\* `result` is a ghost: what the work on the task came to, whatever a cancel
\* wrote over its status since.
Task == [step : Step, status : TaskStatus, result : Result]
NewTask(s) == [step |-> s, status |-> "open", result |-> "open"]
CameTo(task, o) == [task EXCEPT !.status = o, !.result = o]

\* A thread works at one step at a time: its own, then its compensator.
Thread == [pc : {"none", "queued", "start", "create", "run", "settle", "done"},
           at : Step \cup {NoStep}, attempt : Nat, task : Nat,
           outcome : StepRunStatus \cup TaskStatus]

\* `resolved` are the steps of the levels behind, for a cancel those it has
\* dealt with; `task` is the task it is about to cancel, or 0.
PC == {"idle", "resume", "begin", "enter", "level", "cancel"}
CallerState == [pc : PC, run : Run, resolved : SUBSET Step, thread : [Step -> Thread], task : Nat]

NewRun == [status |-> "pending", steps |-> [s \in Step |-> "pending"], task |-> [s \in Step |-> 0]]
NoRun == [NewRun EXCEPT !.status = "absent"]
NoThread == [pc |-> "none", at |-> NoStep, attempt |-> 0, task |-> 0,
             outcome |-> "pending"]
NoThreads == [s \in Step |-> NoThread]
Idle == [pc |-> "idle", run |-> NoRun, resolved |-> {}, thread |-> NoThreads, task |-> 0]

TypeOK ==
  /\ wf \in Workflows
  /\ run \in Run
  /\ caller \in [Caller -> CallerState]
  /\ tasks \in Seq(Task)
  /\ calls \in Nat /\ crashes \in Nat /\ overlapped \in BOOLEAN

-----------------------------------------------------------------------------
\* Kahn's algorithm: behind the steps of the levels before, the next level.
Level(resolved) == {s \in Step \ resolved : wf.deps[s] \subseteq resolved}

\* _skip_blocked: a step behind one that was not completed is not run.
Blocked_Failed(r, s) == \E d \in wf.deps[s] : r.steps[d] = "failed"   \* mutant: only failures block
Blocked(r, s) == \E d \in wf.deps[s] : r.steps[d] # "completed"

SkipBlocked(r, level) ==
  [r EXCEPT !.steps = [s \in Step |->
     IF s \in level /\ r.steps[s] \notin Terminal /\ Blocked(r, s) THEN "skipped" ELSE r.steps[s]]]

PendingIn_All(r, level) ==     \* mutant: a level is run again as a whole
  IF level \subseteq {s \in level : r.steps[s] \in Terminal} THEN {} ELSE level
PendingIn(r, level) == {s \in level : r.steps[s] \notin Terminal}

\* resume: what waited is to be done again.
Reopened(r) ==
  [r EXCEPT !.steps = [s \in Step |->
     IF r.steps[s] \in {"waiting", "running"} THEN "pending" ELSE r.steps[s]]]

\* _finish
EndStatus_Completed(r) == "completed"   \* mutant: tolerated failures are not counted
EndStatus(r) == IF \E s \in Step : r.steps[s] = "failed" THEN "partial" ELSE "completed"

Save(r) == run' = r
Return(c) == caller' = [caller EXCEPT ![c] = Idle]

-----------------------------------------------------------------------------
(***************************************************************************)
(* Calls.                                                                  *)
(***************************************************************************)
NewCall(c, pc, r) ==
  /\ caller[c].pc = "idle"
  /\ calls < MaxCalls /\ calls' = calls + 1
  /\ caller' = [caller EXCEPT ![c] = [Idle EXCEPT !.pc = pc, !.run = r]]
  /\ overlapped' = (overlapped \/ \E d \in Caller : caller[d].pc # "idle")
  /\ UNCHANGED <<wf, tasks, crashes>>

Start(c) ==
  /\ run.status = "absent"
  /\ NewCall(c, "begin", NewRun)
  /\ Save(NewRun)

\* A finished run is returned as it is.
Resume(c) ==
  /\ run.status \notin Finished \cup {"absent"}
  /\ NewCall(c, "resume", Reopened(run))
  /\ UNCHANGED run

ResumeSave(c) ==
  /\ caller[c].pc = "resume"
  /\ Save(caller[c].run)
  /\ caller' = [caller EXCEPT ![c].pc = "begin"]
  /\ UNCHANGED <<wf, tasks, calls, crashes, overlapped>>

\* cancel reads the run, whatever its status, ...
Cancel(c) ==
  /\ run.status # "absent"
  /\ NewCall(c, "cancel", run)
  /\ UNCHANGED run

\* ... looks at the task of each step, and has those that have not ended
\* cancelled, ...
CancelTask_Any(c, s) ==        \* mutant: is_terminal is not asked
  LET t == caller[c].run.task[s] IN
  /\ caller[c].pc = "cancel" /\ caller[c].task = 0
  /\ s \notin caller[c].resolved /\ t # 0
  /\ caller' = [caller EXCEPT ![c].resolved = @ \cup {s}, ![c].task = t]
  /\ UNCHANGED <<wf, run, tasks, calls, crashes, overlapped>>

CancelTask(c, s) ==
  LET t == caller[c].run.task[s]
      live == tasks[t].status \in {"open", "requires_approval"}
  IN
  /\ caller[c].pc = "cancel" /\ caller[c].task = 0
  /\ s \notin caller[c].resolved /\ t # 0
  /\ caller' = [caller EXCEPT ![c].resolved = @ \cup {s}, ![c].task = IF live THEN t ELSE 0]
  /\ UNCHANGED <<wf, run, tasks, calls, crashes, overlapped>>

\* ... (task_engine.cancel reads the task once more and writes it as
\* cancelled, whatever it has come to since) ...
CancelTaskSave(c) ==
  /\ caller[c].pc = "cancel" /\ caller[c].task # 0
  /\ tasks' = [tasks EXCEPT ![caller[c].task].status = "cancelled"]
  /\ caller' = [caller EXCEPT ![c].task = 0]
  /\ UNCHANGED <<wf, run, calls, crashes, overlapped>>

\* ... and at last saves its copy of the run.
CancelSave(c) ==
  LET r == caller[c].run IN
  /\ caller[c].pc = "cancel" /\ caller[c].task = 0
  /\ \A s \in Step \ caller[c].resolved : r.task[s] = 0
  /\ Save([r EXCEPT !.status = "cancelled",
                    !.steps = [s \in Step |->
                       IF r.steps[s] \in Terminal THEN r.steps[s] ELSE "cancelled"]])
  /\ Return(c)
  /\ UNCHANGED <<wf, tasks, calls, crashes, overlapped>>

-----------------------------------------------------------------------------
(***************************************************************************)
(* execute: level by level.                                                *)
(***************************************************************************)
Begin(c) ==
  LET r == [caller[c].run EXCEPT !.status = "running"] IN
  /\ caller[c].pc = "begin"
  /\ Save(r)
  /\ caller' = [caller EXCEPT ![c].pc = "enter", ![c].run = r, ![c].resolved = {}]
  /\ UNCHANGED <<wf, tasks, calls, crashes, overlapped>>

\* Blocked steps are skipped; a level with nothing left to do is passed.
EnterLevel(c) ==
  LET level == Level(caller[c].resolved)
      r == SkipBlocked(caller[c].run, level)
      pending == PendingIn(r, level)
  IN
  /\ caller[c].pc = "enter" /\ level # {}
  /\ run' = IF r = caller[c].run THEN run ELSE r
  /\ caller' = [caller EXCEPT
       ![c].run = r,
       ![c].pc = IF pending = {} THEN "enter" ELSE "level",
       ![c].resolved = IF pending = {} THEN @ \cup level ELSE @,
       ![c].thread = [s \in Step |-> IF s \in pending
                                     THEN [NoThread EXCEPT !.pc = "queued", !.at = s] ELSE NoThread]]
  /\ UNCHANGED <<wf, tasks, calls, crashes, overlapped>>

Threads(c) == {s \in Step : caller[c].thread[s].pc # "none"}
Outcomes(c) == {caller[c].thread[s].outcome : s \in Threads(c)}

\* Failures the run does not tolerate.
Blocking(c) == {s \in Threads(c) : /\ caller[c].thread[s].outcome = "failed"
                                   /\ wf.on_error[s] = "fail"}

LevelEnded(c) == caller[c].pc = "level" /\ \A s \in Threads(c) : caller[c].thread[s].pc = "done"

\* A step that waits for a human pauses the run.
PauseRun(c) ==
  /\ LevelEnded(c)
  /\ "waiting" \in Outcomes(c)
  /\ Save([caller[c].run EXCEPT !.status = "waiting"])
  /\ Return(c)
  /\ UNCHANGED <<wf, tasks, calls, crashes, overlapped>>

\* A failure that is not tolerated ends it, if no step of the level waits.
FailRun(c) ==
  /\ LevelEnded(c)
  /\ "waiting" \notin Outcomes(c) /\ Blocking(c) # {}
  /\ Save([caller[c].run EXCEPT !.status = "failed"])
  /\ Return(c)
  /\ UNCHANGED <<wf, tasks, calls, crashes, overlapped>>

NextLevel(c) ==
  /\ LevelEnded(c)
  /\ "waiting" \notin Outcomes(c) /\ Blocking(c) = {}
  /\ caller' = [caller EXCEPT ![c].pc = "enter", ![c].resolved = @ \cup Level(@), ![c].thread = NoThreads]
  /\ UNCHANGED <<wf, run, tasks, calls, crashes, overlapped>>

FinishRun(c) ==
  /\ caller[c].pc = "enter" /\ Level(caller[c].resolved) = {}
  /\ Save([caller[c].run EXCEPT !.status = EndStatus(caller[c].run)])
  /\ Return(c)
  /\ UNCHANGED <<wf, tasks, calls, crashes, overlapped>>

-----------------------------------------------------------------------------
(***************************************************************************)
(* _run_step, in the thread of caller c for step s.                        *)
(***************************************************************************)
At(c, s, pc) == caller[c].pc = "level" /\ caller[c].thread[s].pc = pc

Active(c) == {s \in Step : caller[c].thread[s].pc \in {"start", "create", "run", "settle"}}

\* The thread of s is at th, the run at r.
Stand(c, s, r, th) == caller' = [caller EXCEPT ![c].run = r, ![c].thread[s] = th]

Marked(r, s, status) == [r EXCEPT !.steps[s] = status]

\* _run_step returns to the level the status its step has by now.
EndThread(c, s, r) == Stand(c, s, r, [NoThread EXCEPT !.pc = "done", !.outcome = r.steps[s]])

\* A pool of width threads takes the steps of the level; a compensator runs
\* in the thread of the step it undoes.
HasThread(c, s) == \/ At(c, s, "start")
                   \/ At(c, s, "queued") /\ Cardinality(Active(c)) < wf.width

\* The copy says running; the row will with the next save.  A condition
\* that does not hold skips the step.
StartStep(c, s) ==
  LET th == caller[c].thread[s]
      r == caller[c].run
  IN
  /\ HasThread(c, s)
  /\ \/ /\ Stand(c, s, Marked(r, th.at, "running"), [th EXCEPT !.pc = "create", !.attempt = 1])
        /\ UNCHANGED run
     \/ /\ th.at \in wf.optional
        /\ EndThread(c, s, Marked(r, th.at, "skipped"))
        /\ Save(Marked(r, th.at, "skipped"))
  /\ UNCHANGED <<wf, tasks, calls, crashes, overlapped>>

\* Each attempt is a task of its own.
CreateTask_First(c, s) ==      \* mutant: the step keeps the task of its first attempt
  LET th == caller[c].thread[s]
      r == [caller[c].run EXCEPT !.task[th.at] = IF @ = 0 THEN Len(tasks) + 1 ELSE @]
  IN
  /\ At(c, s, "create")
  /\ tasks' = Append(tasks, NewTask(th.at))
  /\ Save(r)
  /\ Stand(c, s, r, [th EXCEPT !.pc = "run", !.task = Len(tasks) + 1])
  /\ UNCHANGED <<wf, calls, crashes, overlapped>>

CreateTask(c, s) ==
  LET th == caller[c].thread[s]
      r == [caller[c].run EXCEPT !.task[th.at] = Len(tasks) + 1]
  IN
  /\ At(c, s, "create")
  /\ tasks' = Append(tasks, NewTask(th.at))
  /\ Save(r)
  /\ Stand(c, s, r, [th EXCEPT !.pc = "run", !.task = Len(tasks) + 1])
  /\ UNCHANGED <<wf, calls, crashes, overlapped>>

\* AgentEngine.run, to its end or to an approval.
RunTask(c, s) ==
  LET th == caller[c].thread[s] IN
  /\ At(c, s, "run")
  /\ \E o \in {"completed", "failed", "requires_approval"} :
       /\ o = "requires_approval" => th.at \in wf.gated
       /\ tasks' = [tasks EXCEPT ![th.task] = CameTo(@, o)]
       /\ Stand(c, s, caller[c].run, [th EXCEPT !.pc = "settle", !.outcome = o])
  /\ UNCHANGED <<wf, run, calls, crashes, overlapped>>

\* The task's end is collected, and the step marked with its status.
Settle(c, s, outcome, status) ==
  LET th == caller[c].thread[s] IN
  /\ At(c, s, "settle") /\ th.outcome = outcome
  /\ Save(Marked(caller[c].run, th.at, status))
  /\ UNCHANGED <<wf, tasks, calls, crashes, overlapped>>

StepEnds_TaskStatus(c, s) ==   \* mutant: the step takes its task's status as it is
  \E o \in {"completed", "requires_approval"} :
    /\ Settle(c, s, o, o)
    /\ EndThread(c, s, Marked(caller[c].run, caller[c].thread[s].at, o))
StepEnds(c, s) ==
  \E o \in {<<"completed", "completed">>, <<"requires_approval", "waiting">>} :
    /\ Settle(c, s, o[1], o[2])
    /\ EndThread(c, s, Marked(caller[c].run, caller[c].thread[s].at, o[2]))

RetryStep_Uncounted(c, s) ==   \* mutant: the attempt is not counted
  LET th == caller[c].thread[s] IN
  /\ Settle(c, s, "failed", "running")
  /\ th.attempt < wf.attempts[th.at]
  /\ Stand(c, s, Marked(caller[c].run, th.at, "running"), [th EXCEPT !.pc = "create"])
RetryStep(c, s) ==
  LET th == caller[c].thread[s] IN
  /\ Settle(c, s, "failed", "running")
  /\ th.attempt < wf.attempts[th.at]
  /\ Stand(c, s, Marked(caller[c].run, th.at, "running"),
           [th EXCEPT !.pc = "create", !.attempt = @ + 1])

Compensator(s) == IF wf.on_error[s] = "compensate" THEN wf.compensate_with[s] ELSE NoStep

\* Out of attempts: failed, and undone by the compensator, if one is declared.
StepFails(c, s) ==
  LET th == caller[c].thread[s]
      r == Marked(caller[c].run, th.at, "failed")
      comp == Compensator(th.at)
  IN
  /\ Settle(c, s, "failed", "failed")
  /\ th.attempt >= wf.attempts[th.at]
  /\ IF comp = NoStep THEN EndThread(c, s, r)
                      ELSE Stand(c, s, r, [NoThread EXCEPT !.pc = "start", !.at = comp])

-----------------------------------------------------------------------------
\* A human decides the approval a task waits for: it goes on to its end,
\* outside the run.
Decide ==
  /\ \E t \in DOMAIN tasks, o \in {"completed", "failed"} :
       /\ tasks[t].status = "requires_approval"
       /\ tasks' = [tasks EXCEPT ![t] = CameTo(@, o)]
  /\ UNCHANGED <<wf, run, caller, calls, crashes, overlapped>>

\* The caller's process dies; the row stays as last saved.
Crash(c) ==
  /\ caller[c].pc # "idle"
  /\ crashes < MaxCrashes /\ crashes' = crashes + 1
  /\ Return(c)
  /\ UNCHANGED <<wf, run, tasks, calls, overlapped>>

Quiescent ==
  /\ calls = MaxCalls \/ run.status \in Finished
  /\ \A c \in Caller : caller[c].pc = "idle"
  /\ UNCHANGED vars

Init ==
  /\ wf \in Workflows
  /\ run = NoRun
  /\ caller = [c \in Caller |-> Idle]
  /\ tasks = <<>>
  /\ calls = 0 /\ crashes = 0 /\ overlapped = FALSE

Work(c, s) == \/ StartStep(c, s) \/ CreateTask(c, s)
              \/ RunTask(c, s) \/ StepEnds(c, s) \/ RetryStep(c, s) \/ StepFails(c, s)

Execute(c) ==
  \/ ResumeSave(c)
  \/ (\E s \in Step : CancelTask(c, s)) \/ CancelTaskSave(c) \/ CancelSave(c)
  \/ Begin(c) \/ EnterLevel(c)
  \/ PauseRun(c) \/ FailRun(c) \/ NextLevel(c) \/ FinishRun(c)
  \/ \E s \in Step : Work(c, s)

Next ==
  \/ \E c \in Caller : Start(c) \/ Resume(c) \/ Cancel(c) \/ Execute(c) \/ Crash(c)
  \/ Decide
  \/ Quiescent

Spec == Init /\ [][Next]_vars

-----------------------------------------------------------------------------
(***************************************************************************)
(* What a run promises.  A compensator is a step like another, done in its *)
(* own level too, and again for each failure: most is said of the others.  *)
(***************************************************************************)
Compensators == {Compensator(s) : s \in Step}
TasksOf(s) == {t \in DOMAIN tasks : tasks[t].step = s}
Completed(s) == {t \in TasksOf(s) : tasks[t].result = "completed"}

\* No work is done in the dark (_skip_blocked): whatever callers overlap or
\* die, a step has a task only when each step it depends on has one that was
\* completed before.
DependenciesFirst ==
  \A t \in DOMAIN tasks : tasks[t].step \notin Compensators =>
    \A d \in wf.deps[tasks[t].step] : \E u \in Completed(d) : u < t

\* Retries do not multiply (max_attempts, the loop of _run_step): each call
\* gives a step its attempts once, and a compensator its attempts once more
\* for each step it undoes.
RetriesAreLimited ==
  \A s \in Step : Cardinality(TasksOf(s)) <=
    calls * wf.attempts[s] * (1 + Cardinality({x \in Step : Compensator(x) = s}))

\* The row tells the truth about the task it names, for callers that cancel,
\* resume and die as they like: the work on the task of a step shown completed
\* or failed came to that, on that of one shown waiting to an approval; and the
\* task's own row says completed or failed too, unless a call of cancel that
\* met another wrote cancelled over it (cancel looks at a task before it cancels it).
RowIsTrue ==
  /\ TypeOK
  /\ \A s \in Step \ Compensators :
       LET task == tasks[run.task[s]] IN
       /\ run.steps[s] \in {"completed", "failed"} =>
            /\ task.result = run.steps[s]
            /\ task.status = run.steps[s] \/ (overlapped /\ task.status = "cancelled")
       /\ run.steps[s] = "waiting" => task.result # "open"

\* A run that ended well left nothing behind (execute, _finish): every step
\* ended; in a completed run each was done, or skipped by its condition or
\* behind a skipped one (or a compensator), and none failed.
EndIsEarned ==
  run.status \in {"completed", "partial"} =>
    \A s \in Step \ Compensators :
      /\ run.steps[s] \in Terminal \ {"cancelled"}
      /\ run.status = "completed" =>
           \/ run.steps[s] = "completed"
           \/ /\ run.steps[s] = "skipped"
              /\ s \in wf.optional \/ \E d \in wf.deps[s] : d \in Compensators \/ run.steps[d] = "skipped"

\* A step is done once: calls that do not overlap or die complete one task of
\* a step that never waits, however often the others of its level pause the
\* run and it is resumed.
DoneOnce ==
  ~overlapped /\ crashes = 0 =>
    \A s \in Step \ (wf.gated \cup Compensators) : Cardinality(Completed(s)) <= 1

\* Tries are counted (_run_step, resume): a step that ended well is not done
\* again, and one that fails is tried as often as it may be.
TriesAreCounted == DoneOnce /\ RetriesAreLimited

\* Resuming goes on from where the run stopped (docs/PHASE6_ORCHESTRATION.md:67)
\* for steps that wait too: what a human approved is not done once more.
StepDoneOnce ==
  ~overlapped /\ crashes = 0 =>
    \A s \in Step \ Compensators : Cardinality(Completed(s)) <= 1

\* A failure nobody tolerates stops the run (docs/PHASE6_ORCHESTRATION.md:64):
\* it does not go on and end as one that ran to its end.
FailureStopsRun ==
  \A s \in Step \ Compensators :
    run.steps[s] = "failed" /\ wf.on_error[s] = "fail" => run.status # "partial"
=============================================================================
