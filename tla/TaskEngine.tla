----------------------------- MODULE TaskEngine -----------------------------
(***************************************************************************)
(* One task of the runtime and every call that can touch it: the agent     *)
(* engine that runs its plan (runtime/agent_engine.py), the task engine    *)
(* (runtime/task_engine.py) and the human decisions on its approvals       *)
(* (EnterpriseRuntime.approve / deny in runtime/runtime.py).               *)
(*                                                                         *)
(* A caller is a thread of the API server or a CLI process.  Each works on *)
(* a private copy of the task, read from the database when the call        *)
(* starts, and every save writes the whole row back: the last writer wins. *)
(* A step of this module is what happens between two accesses to the       *)
(* database, or between one and a call of a tool; a crash may fall between *)
(* any two of them.                                                        *)
(***************************************************************************)
EXTENDS Integers, Sequences, FiniteSets

CONSTANTS
  Caller,          \* threads and processes that call the runtime
  Step,            \* identifiers of plan steps; a step's tool goes with it
  NoStep,          \* stands for the absent context key "pending_step"
  Plans,           \* plans the model may propose
  MaxSteps,        \* runtime.max_steps
  Policies,        \* answers of the policy engine, [Step -> Decision]
  AutoApprove,     \* auto_approve_in_development, in a development task
  Redecide,        \* may an operator decide an approval already decided?
  MaxCalls,        \* bound: calls made to the runtime
  MaxCrashes,      \* bound: callers that die in the middle of a call
  MaxReloads       \* bound: changes of the policies

Decision == {"allow", "deny", "approval"}

ASSUME StepAssumption ==
  /\ NoStep \notin Step
  /\ Plans \subseteq Seq(Step)
  /\ Policies \subseteq [Step -> Decision]

ASSUME BoundAssumption ==
  /\ AutoApprove \in BOOLEAN
  /\ Redecide \in BOOLEAN
  /\ {MaxSteps, MaxCalls, MaxCrashes, MaxReloads} \subseteq Nat

VARIABLES
  task,            \* the row of table tasks
  approvals,       \* the rows of table approvals, oldest first
  caller,          \* each caller's program counter and private copy
  policy,          \* what the policy engine answers for each step
  calls, crashes, reloads,   \* how much of each bound is used
  effects,         \* ghost: the tool executions, in the order they happened
  decisions        \* ghost: the human decisions saved so far

vars == <<task, approvals, caller, policy, calls, crashes, reloads, effects, decisions>>

bounds == <<calls, crashes, reloads>>

-----------------------------------------------------------------------------
\* domain/enums.py TaskStatus ("waiting" is set only by workflow runs);
\* "absent" is the row before it is inserted.
Status == {"absent", "pending", "running", "requires_approval", "completed", "failed", "cancelled"}

StepRecord == [step : Step,
               decision : {"allow", "deny", "approved", "denied_by_human"},
               ok : BOOLEAN]

Task == [status : Status,
         planned : BOOLEAN,             \* context has a "plan"
         plan : Seq(Step),
         cursor : Nat,
         pendingApproval : Nat,         \* 0: the key is absent
         pendingStep : Step \cup {NoStep},
         steps : Seq(StepRecord)]

Approval == [status : {"pending", "approved", "denied"}, step : Step]

PC == {"idle", "begin", "plan", "loop", "pause", "record", "load_approved", "resume",
       "record_approved", "load_denied", "record_denied", "cancel"}

CallerState == [pc : PC, task : Task, call : Nat, approval : Nat]

Effect == [pos : Nat, step : Step, call : Nat, approval : Nat, gated : BOOLEAN]

NoTask == [status |-> "absent", planned |-> FALSE, plan |-> <<>>, cursor |-> 0,
           pendingApproval |-> 0, pendingStep |-> NoStep, steps |-> <<>>]

Idle == [pc |-> "idle", task |-> NoTask, call |-> 0, approval |-> 0]

TypeOK ==
  /\ task \in Task
  /\ approvals \in Seq(Approval)
  /\ caller \in [Caller -> CallerState]
  /\ policy \in [Step -> Decision]
  /\ calls \in Nat /\ crashes \in Nat /\ reloads \in Nat
  /\ effects \in Seq(Effect)
  /\ decisions \subseteq [call : Nat, approval : Nat, verdict : {"approved", "denied"}]

-----------------------------------------------------------------------------
\* Does the policy engine leave this step to a human?  In development the
\* engine may answer for the human (_auto_approve).
NeedsApproval(s) == policy[s] = "approval" /\ ~AutoApprove

\* The loop executes a step at once when the policy engine allows it.
MayExecute_Ungated(s) == policy[s] # "deny"   \* mutant: needs_approval is not looked at
MayExecute(s) == policy[s] # "deny" /\ ~NeedsApproval(s)

\* approvals.pending_for_task
Pending == {a \in DOMAIN approvals : approvals[a].status = "pending"}

\* The step the engine is at: plan.steps[cursor], which is 0-based.
HasNext(t) == t.cursor < Len(t.plan)
NextStep(t) == t.plan[t.cursor + 1]

\* The positions of the plan whose id is s; the engine takes the first.
Positions(t, s) == {i \in 1..Len(t.plan) : t.plan[i] = s}
IsFirst(t, s, i) == i \in Positions(t, s) /\ \A j \in Positions(t, s) : i <= j

Record_Stays(t, s, decision, ok) ==   \* mutant: the cursor is not advanced
  [t EXCEPT !.steps = Append(@, [step |-> s, decision |-> decision, ok |-> ok])]

Record(t, s, decision, ok) ==
  [t EXCEPT !.steps = Append(@, [step |-> s, decision |-> decision, ok |-> ok]),
            !.cursor = @ + 1]

ClearPending(t) == [t EXCEPT !.pendingApproval = 0, !.pendingStep = NoStep]

\* What deny does to the task: the waiting step is recorded as refused and
\* passed.  The cursor moves even when no step was waiting.
HumanRefusal_Always(t) == Record(t, t.pendingStep, "denied_by_human", FALSE)   \* mutant: no test for a waiting step
HumanRefusal_AsApproved(t) ==                  \* mutant: the record says "approved"
  IF t.pendingStep # NoStep THEN Record(t, t.pendingStep, "approved", FALSE)
                            ELSE [t EXCEPT !.cursor = @ + 1]
HumanRefusal_Stays(t) ==                       \* mutant: the cursor is not advanced
  Record_Stays(t, t.pendingStep, "denied_by_human", FALSE)
HumanRefusal(t) ==
  IF t.pendingStep # NoStep THEN Record(t, t.pendingStep, "denied_by_human", FALSE)
                            ELSE [t EXCEPT !.cursor = @ + 1]

\* _finish: a task fails only when it has step records and none is ok.
FinalStatus(t) ==
  IF t.steps # <<>> /\ \A i \in DOMAIN t.steps : ~t.steps[i].ok THEN "failed" ELSE "completed"

Goto(c, pc, t) == caller' = [caller EXCEPT ![c].pc = pc, ![c].task = t]
Return(c) == caller' = [caller EXCEPT ![c] = Idle]

-----------------------------------------------------------------------------
(***************************************************************************)
(* Calls.  Each is numbered; the number is a ghost that tells whose work   *)
(* an effect is.                                                           *)
(***************************************************************************)
NewCall(c, pc, t, a) ==
  /\ caller[c].pc = "idle"
  /\ calls < MaxCalls
  /\ calls' = calls + 1
  /\ caller' = [caller EXCEPT ![c] = [pc |-> pc, task |-> t, call |-> calls + 1, approval |-> a]]
  /\ UNCHANGED <<policy, crashes, reloads, effects>>

\* TaskEngine.submit: create saves the pending task, run starts.
Submit(c) ==
  /\ task.status = "absent"
  /\ task' = [NoTask EXCEPT !.status = "pending"]
  /\ NewCall(c, "begin", [NoTask EXCEPT !.status = "pending"], 0)
  /\ UNCHANGED <<approvals, decisions>>

\* The part of approve and deny up to the save of the approval.  Neither
\* looks at the status the approval already has.
Decide(c, a, verdict, pc) ==
  /\ NewCall(c, pc, NoTask, a)
  /\ approvals' = [approvals EXCEPT ![a].status = verdict]
  /\ decisions' = decisions \cup {[call |-> calls + 1, approval |-> a, verdict |-> verdict]}
  /\ UNCHANGED task

Decidable == IF Redecide THEN DOMAIN approvals ELSE Pending

Approve(c) == \E a \in Decidable : Decide(c, a, "approved", "load_approved")

Deny(c) == \E a \in Decidable : Decide(c, a, "denied", "load_denied")

\* TaskEngine.resume: approve the oldest pending approval, or just run.
Resume(c) ==
  /\ task.status # "absent"
  /\ IF Pending = {}
     THEN /\ NewCall(c, "begin", task, 0)
          /\ UNCHANGED <<task, approvals, decisions>>
     ELSE \E a \in Pending : /\ \A b \in Pending : a <= b
                             /\ Decide(c, a, "approved", "load_approved")

\* `egr task run`: the engine runs the task, whatever its status.
RunAgain(c) ==
  /\ task.status # "absent"
  /\ NewCall(c, "begin", task, 0)
  /\ UNCHANGED <<task, approvals, decisions>>

\* TaskEngine.cancel reads the row, whatever its status ...
Cancel(c) ==
  /\ task.status # "absent"
  /\ NewCall(c, "cancel", task, 0)
  /\ UNCHANGED <<task, approvals, decisions>>

\* ... and writes it back; approvals are left as they are.
CancelSave(c) ==
  /\ caller[c].pc = "cancel"
  /\ task' = [caller[c].task EXCEPT !.status = "cancelled"]
  /\ Return(c)
  /\ UNCHANGED <<approvals, policy, bounds, effects, decisions>>
-----------------------------------------------------------------------------
(***************************************************************************)
(* AgentEngine.run.                                                        *)
(***************************************************************************)

\* The status in the row is not looked at: it becomes RUNNING.
Begin(c) ==
  /\ caller[c].pc = "begin"
  /\ LET t == [caller[c].task EXCEPT !.status = "running"]
     IN task' = t /\ Goto(c, "plan", t)
  /\ UNCHANGED <<approvals, policy, bounds, effects, decisions>>

Truncate(p) == IF Len(p) > MaxSteps THEN SubSeq(p, 1, MaxSteps) ELSE p

\* A plan is made once and kept in the context; a later run reuses it.
UsePlan(c) ==
  /\ caller[c].pc = "plan"
  /\ caller[c].task.planned
  /\ Goto(c, "loop", caller[c].task)
  /\ UNCHANGED <<task, approvals, policy, bounds, effects, decisions>>

MakePlan(c) ==
  /\ caller[c].pc = "plan"
  /\ ~caller[c].task.planned
  /\ \E p \in Plans :
       LET t == [caller[c].task EXCEPT !.planned = TRUE, !.plan = Truncate(p)]
       IN task' = t /\ Goto(c, "loop", t)
  /\ UNCHANGED <<approvals, policy, bounds, effects, decisions>>

\* BudgetExceeded or AuthorizationError while planning: _fail.
PlanFails(c) ==
  /\ caller[c].pc = "plan"
  /\ ~caller[c].task.planned
  /\ task' = [caller[c].task EXCEPT !.status = "failed"]
  /\ Return(c)
  /\ UNCHANGED <<approvals, policy, bounds, effects, decisions>>

\* _request_approval reuses a pending approval of the same step id.
Reusable_Never(s) == {}                        \* mutant: always asks anew
Reusable(s) == {a \in Pending : approvals[a].step = s}

PauseFor(c, a) == caller' = [caller EXCEPT ![c].pc = "pause", ![c].approval = a]

RequestApproval(c) ==
  LET s == NextStep(caller[c].task) IN
  /\ caller[c].pc = "loop"
  /\ HasNext(caller[c].task)
  /\ NeedsApproval(s)
  /\ \/ /\ Reusable(s) = {}
        /\ approvals' = Append(approvals, [status |-> "pending", step |-> s])
        /\ PauseFor(c, Len(approvals) + 1)
     \/ /\ UNCHANGED approvals
        /\ \E a \in Reusable(s) :
             /\ \A b \in Reusable(s) : a <= b
             /\ PauseFor(c, a)
  /\ UNCHANGED <<task, policy, bounds, effects, decisions>>

\* The approval is in the database; now the task stops and waits for it.
Pause(c) ==
  LET t == caller[c].task IN
  /\ caller[c].pc = "pause"
  /\ task' = [t EXCEPT !.status = "requires_approval",
                       !.pendingApproval = caller[c].approval,
                       !.pendingStep = NextStep(t)]
  /\ Return(c)
  /\ UNCHANGED <<approvals, policy, bounds, effects, decisions>>

DenyByPolicy_Stays(c) ==               \* mutant: the denied step is not passed
  /\ caller[c].pc = "loop"
  /\ HasNext(caller[c].task)
  /\ policy[NextStep(caller[c].task)] = "deny"
  /\ task' = caller[c].task
  /\ Goto(c, "loop", caller[c].task)
  /\ UNCHANGED <<approvals, policy, bounds, effects, decisions>>

\* The policy denies the step: recorded, never executed.
DenyByPolicy(c) ==
  LET t == Record(caller[c].task, NextStep(caller[c].task), "deny", FALSE) IN
  /\ caller[c].pc = "loop"
  /\ HasNext(caller[c].task)
  /\ policy[NextStep(caller[c].task)] = "deny"
  /\ task' = t
  /\ Goto(c, "loop", t)
  /\ UNCHANGED <<approvals, policy, bounds, effects, decisions>>

\* The tool acts on the world before anything is saved about it.
Execute(c) ==
  LET t == caller[c].task
      s == NextStep(t)
  IN
  /\ caller[c].pc = "loop"
  /\ HasNext(t)
  /\ MayExecute(s)
  /\ effects' = Append(effects, [pos |-> t.cursor + 1, step |-> s, call |-> caller[c].call,
                                 approval |-> 0, gated |-> NeedsApproval(s)])
  /\ \E ok \in BOOLEAN : Goto(c, "record", ClearPending(Record(t, s, "allow", ok)))
  /\ UNCHANGED <<task, approvals, policy, bounds, decisions>>

RecordStep(c) ==
  /\ caller[c].pc = "record"
  /\ task' = caller[c].task
  /\ Goto(c, "loop", caller[c].task)
  /\ UNCHANGED <<approvals, policy, bounds, effects, decisions>>

Finish(c) ==
  /\ caller[c].pc = "loop"
  /\ ~HasNext(caller[c].task)
  /\ task' = [caller[c].task EXCEPT !.status = FinalStatus(caller[c].task)]
  /\ Return(c)
  /\ UNCHANGED <<approvals, policy, bounds, effects, decisions>>
-----------------------------------------------------------------------------
(***************************************************************************)
(* AgentEngine.resume_after_approval: what approve does with the task.     *)
(***************************************************************************)

\* The task is read only after the decision is saved.
LoadApproved(c) ==
  /\ caller[c].pc = "load_approved"
  /\ Goto(c, "resume", task)
  /\ UNCHANGED <<task, approvals, policy, bounds, effects, decisions>>

\* No step of the plan has the pending id: plain run.
ResumeNothing(c) ==
  LET t == caller[c].task IN
  /\ caller[c].pc = "resume"
  /\ Positions(t, t.pendingStep) = {}
  /\ Goto(c, "begin", t)
  /\ UNCHANGED <<task, approvals, policy, bounds, effects, decisions>>

\* The policy changed its mind meanwhile.  The pending keys stay behind.
ResumeDenied(c) ==
  LET t == caller[c].task
      s == t.pendingStep
      u == Record(t, s, "deny", FALSE)
  IN
  /\ caller[c].pc = "resume"
  /\ Positions(t, s) # {}
  /\ policy[s] = "deny"
  /\ task' = u
  /\ Goto(c, "begin", u)
  /\ UNCHANGED <<approvals, policy, bounds, effects, decisions>>

\* The step executed is the task's pending step; the approval's own step is
\* not compared with it.
ExecuteApproved(c) ==
  LET t == caller[c].task
      s == t.pendingStep
  IN
  /\ caller[c].pc = "resume"
  /\ \E i \in Positions(t, s), ok \in BOOLEAN :
       /\ IsFirst(t, s, i)
       /\ policy[s] # "deny"
       /\ effects' = Append(effects, [pos |-> i, step |-> s, call |-> caller[c].call,
                                      approval |-> caller[c].approval, gated |-> NeedsApproval(s)])
       /\ Goto(c, "record_approved",
               [ClearPending(Record(t, s, "approved", ok)) EXCEPT !.status = "running"])
  /\ UNCHANGED <<task, approvals, policy, bounds, decisions>>

RecordApproved_Carries(c) ==           \* mutant: the approval is used for the next step too
  LET t == caller[c].task IN
  /\ caller[c].pc = "record_approved"
  /\ task' = t
  /\ IF HasNext(t) THEN Goto(c, "resume", [t EXCEPT !.pendingStep = NextStep(t)])
                   ELSE Goto(c, "begin", t)
  /\ UNCHANGED <<approvals, policy, bounds, effects, decisions>>

RecordApproved(c) ==
  /\ caller[c].pc = "record_approved"
  /\ task' = caller[c].task
  /\ Goto(c, "begin", caller[c].task)
  /\ UNCHANGED <<approvals, policy, bounds, effects, decisions>>

\* The rest of deny.
LoadDenied(c) ==
  /\ caller[c].pc = "load_denied"
  /\ Goto(c, "record_denied", [ClearPending(HumanRefusal(task)) EXCEPT !.status = "running"])
  /\ UNCHANGED <<task, approvals, policy, bounds, effects, decisions>>

RecordDenied(c) ==
  /\ caller[c].pc = "record_denied"
  /\ task' = caller[c].task
  /\ Goto(c, "begin", caller[c].task)
  /\ UNCHANGED <<approvals, policy, bounds, effects, decisions>>
-----------------------------------------------------------------------------
(***************************************************************************)
(* The environment.                                                        *)
(***************************************************************************)

\* The caller's process dies; what it had not saved is gone.
Crash(c) ==
  /\ caller[c].pc # "idle"
  /\ crashes < MaxCrashes
  /\ crashes' = crashes + 1
  /\ Return(c)
  /\ UNCHANGED <<task, approvals, policy, calls, reloads, effects, decisions>>

\* An operator edits the policies.
Reload ==
  /\ reloads < MaxReloads
  /\ reloads' = reloads + 1
  /\ \E p \in Policies \ {policy} : policy' = p
  /\ UNCHANGED <<task, approvals, caller, calls, crashes, effects, decisions>>

\* Nobody is calling and nobody may call any more (the bound is used up).
Quiescent ==
  /\ calls = MaxCalls
  /\ \A c \in Caller : caller[c].pc = "idle"
  /\ UNCHANGED vars

Init ==
  /\ task = NoTask
  /\ approvals = <<>>
  /\ caller = [c \in Caller |-> Idle]
  /\ policy \in Policies
  /\ calls = 0 /\ crashes = 0 /\ reloads = 0
  /\ effects = <<>>
  /\ decisions = {}

Call(c) == Submit(c) \/ Approve(c) \/ Deny(c) \/ Resume(c) \/ RunAgain(c) \/ Cancel(c)

Run(c) ==
  \/ Begin(c) \/ UsePlan(c) \/ MakePlan(c) \/ PlanFails(c)
  \/ RequestApproval(c) \/ Pause(c) \/ DenyByPolicy(c)
  \/ Execute(c) \/ RecordStep(c) \/ Finish(c)

Apply(c) ==
  \/ LoadApproved(c) \/ ResumeNothing(c) \/ ResumeDenied(c)
  \/ ExecuteApproved(c) \/ RecordApproved(c)
  \/ LoadDenied(c) \/ RecordDenied(c) \/ CancelSave(c)

Next ==
  \/ \E c \in Caller : Call(c) \/ Run(c) \/ Apply(c) \/ Crash(c)
  \/ Reload
  \/ Quiescent

Spec == Init /\ [][Next]_vars

\* A call in progress goes on: the thread is scheduled.  Nobody is obliged
\* to call, to crash or to edit a policy.
FairSpec == Spec /\ \A c \in Caller : WF_vars(Run(c) \/ Apply(c))
-----------------------------------------------------------------------------
(***************************************************************************)
(* Properties for any number of callers, any decisions and any crashes.    *)
(***************************************************************************)

\* Nothing gated happens without a human (domain/approval.py): a step the
\* policy leaves to a human runs only inside a call to approve, and one
\* decision pays for at most one such execution.
GatedEffectsAreDecided ==
  \A i \in DOMAIN effects : effects[i].gated =>
    /\ [call |-> effects[i].call, approval |-> effects[i].approval, verdict |-> "approved"]
         \in decisions
    /\ \A j \in DOMAIN effects :
         effects[j].gated /\ effects[j].call = effects[i].call => j = i

\* What makes it inductive: calls in progress have numbers of their own,
\* effects bear numbers already given out, and a caller about to run the
\* step of an approved decision holds that decision and has not used it.
CallsAreNumbered ==
  /\ \A c \in Caller : caller[c].pc # "idle" => caller[c].call \in 1..calls
  /\ \A c, d \in Caller : /\ caller[c].pc # "idle" /\ caller[d].pc # "idle"
                          /\ caller[c].call = caller[d].call
                          => c = d
  /\ \A i \in DOMAIN effects : effects[i].call \in 1..calls

Approving(c) == caller[c].pc \in {"load_approved", "resume"}

ApproversHoldDecisions ==
  \A c \in Caller : Approving(c) =>
    /\ [call |-> caller[c].call, approval |-> caller[c].approval, verdict |-> "approved"]
         \in decisions
    /\ \A i \in DOMAIN effects : effects[i].gated => effects[i].call # caller[c].call

GatedInv == CallsAreNumbered /\ ApproversHoldDecisions /\ GatedEffectsAreDecided

\* The records of the task never claim work that was not done: a step has
\* no more "allow" and "approved" records than executions, however the
\* callers overwrite each other's saves.
Claimed(s) == {i \in DOMAIN task.steps : /\ task.steps[i].step = s
                                        /\ task.steps[i].decision \in {"allow", "approved"}}
Done(s) == {i \in DOMAIN effects : effects[i].step = s}

RecordsAreReal == \A s \in Step : Cardinality(Claimed(s)) <= Cardinality(Done(s))

\* The caller comes back: every call ends, by itself or by a crash.
CallsReturn == \A c \in Caller : caller[c].pc # "idle" ~> caller[c].pc = "idle"

\* A caller that is about to pause is at a step of its plan.
PausesAtAStep == \A c \in Caller : caller[c].pc = "pause" => HasNext(caller[c].task)

(***************************************************************************)
(* Properties of a task that one caller at a time works on, whose          *)
(* approvals are each decided once.                                        *)
(***************************************************************************)

\* "A execucao continua exatamente de onde parou" (docs/ARCHITECTURE.md):
\* the records are those of the first cursor steps of the plan, in order,
\* no step passed over and none twice.  (A caller that dies between saving
\* the approval and pausing leaves an approval no step waits for; to deny
\* it passes over a step without a record.)
RecordsFollowPlan == crashes = 0 =>
  /\ task.cursor = Len(task.steps)
  /\ \A i \in DOMAIN task.steps : i <= Len(task.plan) /\ task.steps[i].step = task.plan[i]

\* What a human is asked is what the task will do next: there is at most
\* one pending approval, and it is for the step at the cursor.
PendingIsNext ==
  \A a \in Pending : /\ HasNext(task)
                     /\ approvals[a].step = NextStep(task)
                     /\ \A b \in Pending : a = b

\* The step a human approved is the one that runs.
ApprovalCoversEffect ==
  \A i \in DOMAIN effects : effects[i].gated =>
    approvals[effects[i].approval].step = effects[i].step

\* The plan is executed in its order, and a step again only because a crash
\* lost the record of it.
EffectsFollowPlan ==
  /\ \A i, j \in DOMAIN effects : i < j => effects[i].pos <= effects[j].pos
  /\ Len(effects) - Cardinality({effects[i].pos : i \in DOMAIN effects}) <= crashes

\* runtime/agent_engine.py run and resume_after_approval: one caller at a time,
\* the records and the effects are those of the plan in its order, and what is
\* asked is what comes next - crashes may repeat an effect, never skip a step.
RunFollowsPlan == RecordsFollowPlan /\ EffectsFollowPlan /\ PendingIsNext
=============================================================================
