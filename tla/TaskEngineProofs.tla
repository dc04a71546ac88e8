-------------------------- MODULE TaskEngineProofs --------------------------
(***************************************************************************)
(* What holds of TaskEngine for every set of callers, every set of plans   *)
(* and policies, and every value of the bounds.                            *)
(***************************************************************************)
EXTENDS TaskEngine, SequenceTheorems, FiniteSetTheorems, TLAPS

(***************************************************************************)
(* Typing.                                                                 *)
(***************************************************************************)

\* A step record appended to a typed task leaves it typed.
LEMMA RecordType ==
  ASSUME NEW t \in Task, NEW s \in Step, NEW ok \in BOOLEAN,
         NEW d \in {"allow", "deny", "approved", "denied_by_human"}
  PROVE  Record(t, s, d, ok) \in Task
<1> DEFINE r == [step |-> s, decision |-> d, ok |-> ok]
<1>1. r \in StepRecord
  BY DEF StepRecord
<1>2. t.steps \in Seq(StepRecord) /\ t.cursor \in Nat
  BY DEF Task
<1>3. Append(t.steps, r) \in Seq(StepRecord) /\ t.cursor + 1 \in Nat
  BY <1>1, <1>2
<1>4. [t EXCEPT !.steps = Append(t.steps, r), !.cursor = t.cursor + 1] \in Task
  <2> HIDE DEF r
  <2> QED
    BY <1>3 DEF Task
<1> QED
  BY <1>4 DEF Record

\* Forgetting the pending approval keeps the type.
LEMMA ClearPendingType ==
  ASSUME NEW t \in Task
  PROVE  ClearPending(t) \in Task
BY DEF ClearPending, Task

\* So does any of the statuses.
LEMMA StatusType ==
  ASSUME NEW t \in Task, NEW st \in Status
  PROVE  [t EXCEPT !.status = st] \in Task
BY DEF Task

\* The step at the cursor is a step.
LEMMA NextStepType ==
  ASSUME NEW t \in Task, HasNext(t)
  PROVE  NextStep(t) \in Step
BY DEF HasNext, NextStep, Task

\* The plan kept is a sequence of steps of the plan proposed.
LEMMA TruncateType ==
  ASSUME NEW p \in Plans
  PROVE  Truncate(p) \in Seq(Step)
<1>1. p \in Seq(Step)
  BY StepAssumption
<1>2. MaxSteps \in Nat
  BY BoundAssumption
<1>3. CASE Len(p) > MaxSteps
  <2>1. \A i \in 1..MaxSteps : p[i] \in Step
    BY <1>1, <1>2, <1>3
  <2>2. SubSeq(p, 1, MaxSteps) \in Seq(Step)
    BY <1>1, <1>2, <1>3, <2>1
  <2> QED
    BY <1>3, <2>2 DEF Truncate
<1>4. CASE ~(Len(p) > MaxSteps)
  BY <1>1, <1>4 DEF Truncate
<1> QED
  BY <1>3, <1>4

\* deny leaves a typed task typed, whether or not a step was waiting.
LEMMA HumanRefusalType ==
  ASSUME NEW t \in Task
  PROVE  HumanRefusal(t) \in Task
<1>1. CASE t.pendingStep # NoStep
  <2>1. t.pendingStep \in Step
    BY <1>1 DEF Task
  <2> QED
    BY <1>1, <2>1, RecordType DEF HumanRefusal
<1>2. CASE t.pendingStep = NoStep
  BY <1>2 DEF HumanRefusal, Task
<1> QED
  BY <1>1, <1>2

\* The task before it exists, and the caller that is doing nothing.
LEMMA NoTaskType == NoTask \in Task
BY DEF NoTask, Task, Status

\* A caller outside any call.
LEMMA IdleType == Idle \in CallerState
BY NoTaskType DEF Idle, CallerState, PC

(***************************************************************************)
(* Each action keeps TypeOK.                                               *)
(***************************************************************************)

\* A call puts a typed task in the hands of its caller.
LEMMA NewCallType ==
  ASSUME TypeOK, NEW c \in Caller, NEW pc \in PC, NEW t \in Task, NEW a \in Nat,
         NewCall(c, pc, t, a)
  PROVE  /\ caller' \in [Caller -> CallerState]
         /\ calls' \in Nat /\ crashes' \in Nat /\ reloads' \in Nat
         /\ policy' \in [Step -> Decision]
         /\ effects' \in Seq(Effect)
<1>1. [pc |-> pc, task |-> t, call |-> calls + 1, approval |-> a] \in CallerState
  BY DEF TypeOK, CallerState
<1>2. caller' \in [Caller -> CallerState]
  BY <1>1 DEF TypeOK, NewCall
<1> QED
  BY <1>2 DEF TypeOK, NewCall

\* So does a step to another point of the call.
LEMMA GotoType ==
  ASSUME TypeOK, NEW c \in Caller, NEW pc \in PC, NEW t \in Task, Goto(c, pc, t)
  PROVE  caller' \in [Caller -> CallerState]
BY DEF TypeOK, Goto, CallerState

\* And a return.
LEMMA ReturnType ==
  ASSUME TypeOK, NEW c \in Caller, Return(c)
  PROVE  caller' \in [Caller -> CallerState]
BY IdleType DEF TypeOK, Return

\* And a step towards the pause.
LEMMA PauseForType ==
  ASSUME TypeOK, NEW c \in Caller, NEW a \in Nat, PauseFor(c, a)
  PROVE  caller' \in [Caller -> CallerState]
BY DEF TypeOK, PauseFor, CallerState, PC

\* A saved decision is typed.
LEMMA DecideType ==
  ASSUME TypeOK, NEW c \in Caller, NEW a \in DOMAIN approvals,
         NEW verdict \in {"approved", "denied"}, NEW pc \in PC,
         Decide(c, a, verdict, pc)
  PROVE  TypeOK'
<1>1. a \in Nat /\ approvals[a] \in Approval
  BY DEF TypeOK
<1>2. [approvals[a] EXCEPT !.status = verdict] \in Approval
  BY <1>1 DEF Approval
<1>3. approvals' \in Seq(Approval)
  <2>1. approvals' = [approvals EXCEPT ![a] = [approvals[a] EXCEPT !.status = verdict]]
    BY DEF Decide
  <2> QED
    BY <1>2, <2>1, ExceptSeq DEF TypeOK
<1>4. NewCall(c, pc, NoTask, a)
  BY DEF Decide
<1>5. decisions' \subseteq [call : Nat, approval : Nat, verdict : {"approved", "denied"}]
  BY <1>1 DEF Decide, TypeOK
<1> QED
  BY <1>1, <1>3, <1>4, <1>5, NewCallType, NoTaskType DEF Decide, TypeOK

\* The calls keep the types.
LEMMA CallType ==
  ASSUME TypeOK, NEW c \in Caller, Call(c)
  PROVE  TypeOK'
<1>1. ASSUME Submit(c) PROVE TypeOK'
  <2>1. [NoTask EXCEPT !.status = "pending"] \in Task
    BY NoTaskType, StatusType DEF Status
  <2> QED
    BY <1>1, <2>1, NewCallType DEF Submit, TypeOK, PC
<1>2. ASSUME Approve(c) PROVE TypeOK'
  BY <1>2, DecideType DEF Approve, Decidable, Pending, PC
<1>3. ASSUME Deny(c) PROVE TypeOK'
  BY <1>3, DecideType DEF Deny, Decidable, Pending, PC
<1>4. ASSUME Resume(c) PROVE TypeOK'
  <2>1. CASE Pending = {}
    BY <1>4, <2>1, NewCallType DEF Resume, TypeOK, PC
  <2>2. CASE Pending # {}
    BY <1>4, <2>2, DecideType DEF Resume, Pending, PC
  <2> QED
    BY <2>1, <2>2
<1>5. ASSUME RunAgain(c) PROVE TypeOK'
  BY <1>5, NewCallType DEF RunAgain, TypeOK, PC
<1>6. ASSUME Cancel(c) PROVE TypeOK'
  BY <1>6, NewCallType DEF Cancel, TypeOK, PC
<1> QED
  BY <1>1, <1>2, <1>3, <1>4, <1>5, <1>6 DEF Call

\* The engine's loop keeps the types.
LEMMA RunType ==
  ASSUME TypeOK, PausesAtAStep, NEW c \in Caller, Run(c)
  PROVE  TypeOK'
<1> DEFINE t == caller[c].task
<1>t. t \in Task /\ caller[c].call \in Nat /\ caller[c].approval \in Nat
  BY DEF TypeOK, CallerState
<1> HIDE DEF t
<1>1. ASSUME Begin(c) PROVE TypeOK'
  <2>1. [t EXCEPT !.status = "running"] \in Task
    BY <1>t, StatusType DEF Status
  <2> QED
    BY <1>1, <2>1, GotoType DEF Begin, TypeOK, PC, bounds, t
<1>2. ASSUME UsePlan(c) PROVE TypeOK'
  BY <1>2, <1>t, GotoType DEF UsePlan, TypeOK, PC, bounds, t
<1>3. ASSUME MakePlan(c) PROVE TypeOK'
  <2>1. PICK p \in Plans :
          /\ task' = [t EXCEPT !.planned = TRUE, !.plan = Truncate(p)]
          /\ Goto(c, "loop", [t EXCEPT !.planned = TRUE, !.plan = Truncate(p)])
    BY <1>3 DEF MakePlan, t
  <2>2. [t EXCEPT !.planned = TRUE, !.plan = Truncate(p)] \in Task
    BY <1>t, TruncateType DEF Task
  <2> QED
    BY <1>3, <2>1, <2>2, GotoType DEF MakePlan, TypeOK, PC, bounds
<1>4. ASSUME PlanFails(c) PROVE TypeOK'
  BY <1>4, <1>t, StatusType, ReturnType DEF PlanFails, TypeOK, Status, bounds, t
<1>5. ASSUME RequestApproval(c) PROVE TypeOK'
  <2>1. NextStep(t) \in Step
    BY <1>5, <1>t, NextStepType DEF RequestApproval, t
  <2>2. CASE /\ approvals' = Append(approvals, [status |-> "pending", step |-> NextStep(t)])
             /\ PauseFor(c, Len(approvals) + 1)
    <3>1. [status |-> "pending", step |-> NextStep(t)] \in Approval
      BY <2>1 DEF Approval
    <3>2. approvals' \in Seq(Approval) /\ Len(approvals) + 1 \in Nat
      BY <2>2, <3>1 DEF TypeOK
    <3> QED
      BY <1>5, <2>2, <3>2, PauseForType DEF RequestApproval, TypeOK, bounds
  <2>3. ASSUME NEW a \in Reusable(NextStep(t)), UNCHANGED approvals, PauseFor(c, a)
        PROVE  TypeOK'
    <3>1. a \in Nat
      BY DEF Reusable, Pending, TypeOK
    <3> QED
      BY <1>5, <2>3, <3>1, PauseForType DEF RequestApproval, TypeOK, bounds
  <2> QED
    BY <1>5, <2>2, <2>3 DEF RequestApproval, t
<1>6. ASSUME Pause(c) PROVE TypeOK'
  <2>1. NextStep(t) \in Step
    BY <1>6, <1>t, NextStepType DEF Pause, PausesAtAStep, t
  <2>2. [t EXCEPT !.status = "requires_approval", !.pendingApproval = caller[c].approval,
                  !.pendingStep = NextStep(t)] \in Task
    BY <1>t, <2>1 DEF Task, Status
  <2> QED
    BY <1>6, <2>2, ReturnType DEF Pause, TypeOK, bounds, t
<1>7. ASSUME DenyByPolicy(c) PROVE TypeOK'
  <2>1. NextStep(t) \in Step
    BY <1>7, <1>t, NextStepType DEF DenyByPolicy, t
  <2>2. Record(t, NextStep(t), "deny", FALSE) \in Task
    BY <1>t, <2>1, RecordType
  <2> QED
    BY <1>7, <2>2, GotoType DEF DenyByPolicy, TypeOK, PC, bounds, t
<1>8. ASSUME Execute(c) PROVE TypeOK'
  <2>1. NextStep(t) \in Step
    BY <1>8, <1>t, NextStepType DEF Execute, t
  <2>2. [pos |-> t.cursor + 1, step |-> NextStep(t), call |-> caller[c].call,
         approval |-> 0, gated |-> NeedsApproval(NextStep(t))] \in Effect
    BY <1>t, <2>1, BoundAssumption DEF Effect, Task, NeedsApproval
  <2>3. effects' \in Seq(Effect)
    BY <1>8, <2>2 DEF Execute, TypeOK, t
  <2>4. PICK ok \in BOOLEAN :
          Goto(c, "record", ClearPending(Record(t, NextStep(t), "allow", ok)))
    BY <1>8 DEF Execute, t
  <2>5. ClearPending(Record(t, NextStep(t), "allow", ok)) \in Task
    BY <1>t, <2>1, RecordType, ClearPendingType
  <2> QED
    BY <1>8, <2>3, <2>4, <2>5, GotoType DEF Execute, TypeOK, PC, bounds
<1>9. ASSUME RecordStep(c) PROVE TypeOK'
  BY <1>9, <1>t, GotoType DEF RecordStep, TypeOK, PC, bounds, t
<1>10. ASSUME Finish(c) PROVE TypeOK'
  <2>1. FinalStatus(t) \in Status
    BY DEF FinalStatus, Status
  <2> QED
    BY <1>10, <1>t, <2>1, StatusType, ReturnType DEF Finish, TypeOK, bounds, t
<1> QED
  BY <1>1, <1>2, <1>3, <1>4, <1>5, <1>6, <1>7, <1>8, <1>9, <1>10 DEF Run

\* So does what a decision or a cancellation does with the task.
LEMMA ApplyType ==
  ASSUME TypeOK, NEW c \in Caller, Apply(c)
  PROVE  TypeOK'
<1> DEFINE t == caller[c].task
<1>t. t \in Task /\ caller[c].call \in Nat /\ caller[c].approval \in Nat
  BY DEF TypeOK, CallerState
<1> HIDE DEF t
<1>1. ASSUME LoadApproved(c) PROVE TypeOK'
  BY <1>1, GotoType DEF LoadApproved, TypeOK, PC, bounds
<1>2. ASSUME ResumeNothing(c) PROVE TypeOK'
  BY <1>2, <1>t, GotoType DEF ResumeNothing, TypeOK, PC, bounds, t
<1>3. ASSUME ResumeDenied(c) PROVE TypeOK'
  <2>1. t.pendingStep \in Step
    BY <1>3, <1>t DEF ResumeDenied, Positions, Task, t
  <2>2. Record(t, t.pendingStep, "deny", FALSE) \in Task
    BY <1>t, <2>1, RecordType
  <2> QED
    BY <1>3, <2>2, GotoType DEF ResumeDenied, TypeOK, PC, bounds, t
<1>4. ASSUME ExecuteApproved(c) PROVE TypeOK'
  <2>1. PICK i \in Positions(t, t.pendingStep), ok \in BOOLEAN :
          /\ effects' = Append(effects, [pos |-> i, step |-> t.pendingStep, call |-> caller[c].call,
                                         approval |-> caller[c].approval,
                                         gated |-> NeedsApproval(t.pendingStep)])
          /\ Goto(c, "record_approved",
                  [ClearPending(Record(t, t.pendingStep, "approved", ok))
                     EXCEPT !.status = "running"])
    BY <1>4 DEF ExecuteApproved, t
  <2>2. i \in Nat /\ t.pendingStep \in Step
    BY <1>t DEF Positions, Task
  <2>3. [pos |-> i, step |-> t.pendingStep, call |-> caller[c].call,
         approval |-> caller[c].approval, gated |-> NeedsApproval(t.pendingStep)] \in Effect
    BY <1>t, <2>2, BoundAssumption DEF Effect, NeedsApproval
  <2>4. effects' \in Seq(Effect)
    BY <2>1, <2>3 DEF TypeOK
  <2>5. [ClearPending(Record(t, t.pendingStep, "approved", ok)) EXCEPT !.status = "running"]
          \in Task
    BY <1>t, <2>2, RecordType, ClearPendingType, StatusType DEF Status
  <2> QED
    BY <1>4, <2>1, <2>4, <2>5, GotoType DEF ExecuteApproved, TypeOK, PC, bounds
<1>5. ASSUME RecordApproved(c) PROVE TypeOK'
  BY <1>5, <1>t, GotoType DEF RecordApproved, TypeOK, PC, bounds, t
<1>6. ASSUME LoadDenied(c) PROVE TypeOK'
  <2>1. [ClearPending(HumanRefusal(task)) EXCEPT !.status = "running"] \in Task
    BY HumanRefusalType, ClearPendingType, StatusType DEF TypeOK, Status
  <2> QED
    BY <1>6, <2>1, GotoType DEF LoadDenied, TypeOK, PC, bounds
<1>7. ASSUME RecordDenied(c) PROVE TypeOK'
  BY <1>7, <1>t, GotoType DEF RecordDenied, TypeOK, PC, bounds, t
<1>8. ASSUME CancelSave(c) PROVE TypeOK'
  BY <1>8, <1>t, StatusType, ReturnType DEF CancelSave, TypeOK, Status, bounds, t
<1> QED
  BY <1>1, <1>2, <1>3, <1>4, <1>5, <1>6, <1>7, <1>8 DEF Apply

(***************************************************************************)
(* What a step does to the callers: nothing to any but its own.            *)
(***************************************************************************)
LEMMA GotoFrame ==
  ASSUME TypeOK, NEW c \in Caller, NEW pc, NEW t, Goto(c, pc, t)
  PROVE  /\ \A d \in Caller \ {c} : caller'[d] = caller[d]
         /\ caller'[c].pc = pc /\ caller'[c].task = t
         /\ caller'[c].call = caller[c].call /\ caller'[c].approval = caller[c].approval
BY DEF TypeOK, Goto, CallerState

\* A call that returns leaves its caller idle.
LEMMA ReturnFrame ==
  ASSUME TypeOK, NEW c \in Caller, Return(c)
  PROVE  /\ \A d \in Caller \ {c} : caller'[d] = caller[d]
         /\ caller'[c].pc = "idle"
BY DEF TypeOK, Return, Idle

\* A new call has a number of its own, and was made by an idle caller.
LEMMA NewCallFrame ==
  ASSUME TypeOK, NEW c \in Caller, NEW pc, NEW t, NEW a, NewCall(c, pc, t, a)
  PROVE  /\ \A d \in Caller \ {c} : caller'[d] = caller[d]
         /\ caller'[c].pc = pc /\ caller'[c].call = calls + 1 /\ caller'[c].approval = a
         /\ calls' = calls + 1 /\ effects' = effects
BY DEF TypeOK, NewCall

\* Where a step of the engine's loop, other than towards the pause, leads.
LEMMA RunMoves ==
  ASSUME NEW c \in Caller, Run(c), ~RequestApproval(c)
  PROVE  Return(c) \/ \E t : \E pc \in {"plan", "loop", "record"} : Goto(c, pc, t)
<1>1. ASSUME Begin(c) PROVE \E t : Goto(c, "plan", t)
  BY <1>1 DEF Begin
<1>2. ASSUME UsePlan(c) \/ MakePlan(c) PROVE \E t : Goto(c, "loop", t)
  BY <1>2 DEF UsePlan, MakePlan
<1>3. ASSUME PlanFails(c) \/ Pause(c) \/ Finish(c) PROVE Return(c)
  BY <1>3 DEF PlanFails, Pause, Finish
<1>4. ASSUME DenyByPolicy(c) \/ RecordStep(c) PROVE \E t : Goto(c, "loop", t)
  BY <1>4 DEF DenyByPolicy, RecordStep
<1>5. ASSUME Execute(c) PROVE \E t : Goto(c, "record", t)
  BY <1>5 DEF Execute
<1> QED
  BY <1>1, <1>2, <1>3, <1>4, <1>5 DEF Run

\* Where a step that applies a decision, or a cancellation, leads.
LEMMA ApplyMoves ==
  ASSUME NEW c \in Caller, Apply(c)
  PROVE  \/ Return(c)
         \/ LoadApproved(c)
         \/ \E t : \E pc \in {"begin", "record_approved", "record_denied"} : Goto(c, pc, t)
<1>1. ASSUME ResumeNothing(c) \/ ResumeDenied(c) \/ RecordApproved(c) \/ RecordDenied(c)
      PROVE  \E t : Goto(c, "begin", t)
  BY <1>1 DEF ResumeNothing, ResumeDenied, RecordApproved, RecordDenied
<1>2. ASSUME ExecuteApproved(c) PROVE \E t : Goto(c, "record_approved", t)
  BY <1>2 DEF ExecuteApproved
<1>3. ASSUME LoadDenied(c) PROVE \E t : Goto(c, "record_denied", t)
  BY <1>3 DEF LoadDenied
<1>4. ASSUME CancelSave(c) PROVE Return(c)
  BY <1>4 DEF CancelSave
<1> QED
  BY <1>1, <1>2, <1>3, <1>4 DEF Apply

\* Nobody but the loop, at a step of the plan, sends a caller to the pause.
LEMMA PauseStep ==
  ASSUME TypeOK, PausesAtAStep, NEW c \in Caller, Call(c) \/ Run(c) \/ Apply(c) \/ Crash(c)
  PROVE  PausesAtAStep'
<1>1. CASE RequestApproval(c)
  <2>1. PICK a : PauseFor(c, a)
    BY <1>1 DEF RequestApproval
  <2>2. caller'[c].task = caller[c].task /\ \A d \in Caller \ {c} : caller'[d] = caller[d]
    BY <2>1 DEF PauseFor, TypeOK, CallerState
  <2> QED
    BY <1>1, <2>2 DEF RequestApproval, PausesAtAStep
<1>2. CASE ~RequestApproval(c)
  <2>1. /\ \A d \in Caller \ {c} : caller'[d] = caller[d]
        /\ caller'[c].pc # "pause"
    <3>1. CASE Call(c)
      BY <3>1, NewCallFrame DEF Call, Submit, Approve, Deny, Resume, RunAgain, Cancel, Decide
    <3>2. CASE Run(c)
      BY <1>2, <3>2, RunMoves, GotoFrame, ReturnFrame
    <3>3. CASE Apply(c)
      BY <3>3, ApplyMoves, GotoFrame, ReturnFrame DEF LoadApproved
    <3>4. CASE Crash(c)
      BY <3>4, ReturnFrame DEF Crash
    <3> QED
      BY <3>1, <3>2, <3>3, <3>4
  <2> QED
    BY <2>1 DEF PausesAtAStep
<1> QED
  BY <1>1, <1>2

\* The state of every behaviour is typed: the row, the approvals, the copies
\* the callers work on and the two ghosts.
THEOREM TypeCorrect == Spec => [](TypeOK /\ PausesAtAStep)
<1>1. Init => TypeOK /\ PausesAtAStep
  <2> SUFFICES ASSUME Init PROVE TypeOK /\ PausesAtAStep
    OBVIOUS
  <2>1. policy \in [Step -> Decision]
    BY StepAssumption DEF Init
  <2> QED
    BY <2>1, NoTaskType, IdleType DEF Init, TypeOK, PausesAtAStep, Idle
<1>2. TypeOK /\ PausesAtAStep /\ [Next]_vars => (TypeOK /\ PausesAtAStep)'
  <2> SUFFICES ASSUME TypeOK, PausesAtAStep, [Next]_vars PROVE TypeOK' /\ PausesAtAStep'
    OBVIOUS
  <2>1. ASSUME NEW c \in Caller, Call(c) \/ Run(c) \/ Apply(c) PROVE TypeOK' /\ PausesAtAStep'
    BY <2>1, CallType, RunType, ApplyType, PauseStep
  <2>2. ASSUME NEW c \in Caller, Crash(c) PROVE TypeOK' /\ PausesAtAStep'
    <3>1. TypeOK'
      BY <2>2, ReturnType DEF Crash, TypeOK
    <3> QED
      BY <2>2, <3>1, PauseStep
  <2>3. CASE Reload
    <3>1. policy' \in [Step -> Decision]
      BY <2>3, StepAssumption DEF Reload
    <3> QED
      BY <2>3, <3>1 DEF Reload, TypeOK, PausesAtAStep
  <2>4. CASE UNCHANGED vars
    BY <2>4 DEF vars, TypeOK, PausesAtAStep
  <2> QED
    BY <2>1, <2>2, <2>3, <2>4 DEF Next, Quiescent
<1> QED
  BY <1>1, <1>2, PTL DEF Spec

(***************************************************************************)
(* No gated step without a human.                                          *)
(***************************************************************************)

\* Most steps change neither ghost: the caller returns, stays away from the
\* execution of an approved step, or moves on towards it.
Quiet(c) ==
  /\ UNCHANGED <<effects, decisions, calls>>
  /\ caller[c].pc # "idle"
  /\ \A d \in Caller \ {c} : caller'[d] = caller[d]
  /\ \/ caller'[c].pc = "idle"
     \/ /\ caller'[c].call = caller[c].call
        /\ ~Approving(c)'
     \/ /\ caller'[c].call = caller[c].call /\ caller'[c].approval = caller[c].approval
        /\ Approving(c)

\* Every step of a call but the two executions is quiet.
LEMMA QuietSteps ==
  ASSUME TypeOK, NEW c \in Caller, Run(c) \/ Apply(c) \/ Crash(c), ~Execute(c), ~ExecuteApproved(c)
  PROVE  Quiet(c)
<1>1. CASE RequestApproval(c)
  <2>1. PICK a : PauseFor(c, a)
    BY <1>1 DEF RequestApproval
  <2>2. /\ \A d \in Caller \ {c} : caller'[d] = caller[d]
        /\ caller'[c].pc = "pause" /\ caller'[c].call = caller[c].call
    BY <2>1 DEF PauseFor, TypeOK, CallerState
  <2> QED
    BY <1>1, <2>2 DEF RequestApproval, Quiet, Approving, bounds
<1>2. CASE LoadApproved(c)
  BY <1>2, GotoFrame DEF LoadApproved, Quiet, Approving, bounds
<1>3. CASE Run(c) /\ ~RequestApproval(c)
  <2>1. UNCHANGED <<effects, decisions, calls>> /\ caller[c].pc # "idle"
    BY <1>3 DEF Run, Begin, UsePlan, MakePlan, PlanFails, Pause, DenyByPolicy, RecordStep,
                Finish, bounds
  <2> QED
    BY <1>3, <2>1, RunMoves, GotoFrame, ReturnFrame DEF Quiet, Approving
<1>4. CASE Apply(c) /\ ~LoadApproved(c)
  <2>1. UNCHANGED <<effects, decisions, calls>> /\ caller[c].pc # "idle"
    BY <1>4 DEF Apply, ResumeNothing, ResumeDenied, RecordApproved, LoadDenied, RecordDenied,
                CancelSave, bounds
  <2> QED
    BY <1>4, <2>1, ApplyMoves, GotoFrame, ReturnFrame DEF Quiet, Approving
<1>5. CASE Crash(c)
  BY <1>5, ReturnFrame DEF Crash, Quiet
<1> QED
  BY <1>1, <1>2, <1>3, <1>4, <1>5

\* A quiet step keeps the invariant.
LEMMA QuietInv ==
  ASSUME TypeOK, GatedInv, NEW c \in Caller, Quiet(c)
  PROVE  GatedInv'
<1>1. CallsAreNumbered'
  BY DEF GatedInv, CallsAreNumbered, Quiet
<1>2. ApproversHoldDecisions'
  BY DEF GatedInv, ApproversHoldDecisions, Quiet, Approving
<1>3. GatedEffectsAreDecided'
  BY DEF GatedInv, GatedEffectsAreDecided, Quiet
<1> QED
  BY <1>1, <1>2, <1>3 DEF GatedInv

\* The loop executes only what needs no human.
LEMMA ExecuteInv ==
  ASSUME TypeOK, GatedInv, NEW c \in Caller, Execute(c), TypeOK'
  PROVE  GatedInv'
<1>1. PICK f : effects' = Append(effects, f) /\ f.call = caller[c].call /\ f.gated = FALSE
  BY DEF Execute, MayExecute
<1>2. /\ DOMAIN effects' = 1..(Len(effects) + 1) /\ DOMAIN effects = 1..Len(effects)
      /\ Len(effects) \in Nat
      /\ effects'[Len(effects) + 1] = f
      /\ \A i \in DOMAIN effects : effects'[i] = effects[i]
  BY <1>1 DEF TypeOK
<1>3. PICK t : Goto(c, "record", t)
  BY DEF Execute
<1>4. /\ \A d \in Caller \ {c} : caller'[d] = caller[d]
      /\ caller'[c].pc = "record" /\ caller'[c].call = caller[c].call
      /\ UNCHANGED <<decisions, calls>> /\ caller[c].pc # "idle"
  BY <1>3, GotoFrame DEF Execute, bounds
<1>5. CallsAreNumbered'
  BY <1>1, <1>2, <1>4 DEF GatedInv, CallsAreNumbered
<1>6. ApproversHoldDecisions'
  <2>1. \A d \in Caller : Approving(d)' => d # c /\ Approving(d)
    BY <1>4 DEF Approving
  <2> QED
    BY <1>1, <1>2, <1>4, <2>1 DEF GatedInv, ApproversHoldDecisions
<1>7. GatedEffectsAreDecided'
  BY <1>1, <1>2, <1>4 DEF GatedInv, GatedEffectsAreDecided
<1> QED
  BY <1>5, <1>6, <1>7 DEF GatedInv

\* The step of an approved decision uses up the decision.
LEMMA ExecuteApprovedInv ==
  ASSUME TypeOK, GatedInv, NEW c \in Caller, ExecuteApproved(c), TypeOK'
  PROVE  GatedInv'
<1>1. PICK f : effects' = Append(effects, f) /\ f.call = caller[c].call
                                            /\ f.approval = caller[c].approval
  BY DEF ExecuteApproved
<1>2. /\ DOMAIN effects' = 1..(Len(effects) + 1) /\ DOMAIN effects = 1..Len(effects)
      /\ Len(effects) \in Nat
      /\ effects'[Len(effects) + 1] = f
      /\ \A i \in DOMAIN effects : effects'[i] = effects[i]
  BY <1>1 DEF TypeOK
<1>3. PICK t : Goto(c, "record_approved", t)
  BY DEF ExecuteApproved
<1>4. /\ \A d \in Caller \ {c} : caller'[d] = caller[d]
      /\ caller'[c].pc = "record_approved" /\ caller'[c].call = caller[c].call
      /\ UNCHANGED <<decisions, calls>> /\ caller[c].pc = "resume"
  BY <1>3, GotoFrame DEF ExecuteApproved, bounds
<1>5. CallsAreNumbered'
  BY <1>1, <1>2, <1>4 DEF GatedInv, CallsAreNumbered
<1>6. ApproversHoldDecisions'
  <2>1. \A d \in Caller : Approving(d)' => d # c /\ Approving(d)
    BY <1>4 DEF Approving
  <2>2. \A d \in Caller : d # c /\ Approving(d) => caller[d].call # caller[c].call
    BY <1>4 DEF GatedInv, CallsAreNumbered, Approving
  <2> QED
    BY <1>1, <1>2, <1>4, <2>1, <2>2 DEF GatedInv, ApproversHoldDecisions
<1>7. GatedEffectsAreDecided'
  <2>1. /\ [call |-> f.call, approval |-> f.approval, verdict |-> "approved"] \in decisions
        /\ \A i \in DOMAIN effects : effects[i].gated => effects[i].call # f.call
    BY <1>1, <1>4 DEF GatedInv, ApproversHoldDecisions, Approving
  <2> QED
    BY <1>1, <1>2, <1>4, <2>1 DEF GatedInv, GatedEffectsAreDecided
<1> QED
  BY <1>5, <1>6, <1>7 DEF GatedInv

\* A new call has a number nobody has used.
LEMMA CallInv ==
  ASSUME TypeOK, GatedInv, NEW c \in Caller, Call(c)
  PROVE  GatedInv'
<1>1. /\ \A d \in Caller \ {c} : caller'[d] = caller[d]
      /\ caller'[c].call = calls + 1 /\ calls' = calls + 1 /\ effects' = effects
      /\ decisions \subseteq decisions'
  BY NewCallFrame DEF Call, Submit, Approve, Deny, Resume, RunAgain, Cancel, Decide
<1>2. Approving(c)' => [call |-> calls + 1, approval |-> caller'[c].approval,
                        verdict |-> "approved"] \in decisions'
  BY NewCallFrame DEF Call, Submit, Approve, Deny, Resume, RunAgain, Cancel, Decide, Approving
<1>3. calls \in Nat
  BY DEF TypeOK
<1>4. CallsAreNumbered'
  BY <1>1, <1>3 DEF GatedInv, CallsAreNumbered
<1>5. ApproversHoldDecisions'
  <2> SUFFICES ASSUME NEW d \in Caller, Approving(d)'
               PROVE  /\ [call |-> caller'[d].call, approval |-> caller'[d].approval,
                           verdict |-> "approved"] \in decisions'
                      /\ \A i \in DOMAIN effects' :
                           effects'[i].gated => effects'[i].call # caller'[d].call
    BY DEF ApproversHoldDecisions
  <2>1. CASE d = c
    <3>1. \A i \in DOMAIN effects : effects[i].call # calls + 1
      BY <1>3 DEF GatedInv, CallsAreNumbered
    <3> QED
      BY <1>1, <1>2, <2>1, <3>1
  <2>2. CASE d # c
    <3>1. caller'[d] = caller[d]
      BY <1>1, <2>2
    <3>2. Approving(d)
      BY <3>1 DEF Approving
    <3> QED
      BY <1>1, <3>1, <3>2 DEF GatedInv, ApproversHoldDecisions
  <2> QED
    BY <2>1, <2>2
<1>6. GatedEffectsAreDecided'
  BY <1>1 DEF GatedInv, GatedEffectsAreDecided
<1> QED
  BY <1>4, <1>5, <1>6 DEF GatedInv

\* Whatever the callers do to each other, however often an approval is
\* decided and wherever a crash falls, a step the policy leaves to a human
\* runs only inside a call of approve, and each such call runs one at most.
THEOREM NoGatedEffectWithoutDecision == Spec => []GatedEffectsAreDecided
<1>1. Init => GatedInv
  BY DEF Init, GatedInv, CallsAreNumbered, ApproversHoldDecisions, GatedEffectsAreDecided,
         Approving, Idle
<1>2. TypeOK /\ PausesAtAStep /\ TypeOK' /\ GatedInv /\ [Next]_vars => GatedInv'
  <2> SUFFICES ASSUME TypeOK, TypeOK', GatedInv, [Next]_vars PROVE GatedInv'
    OBVIOUS
  <2>1. ASSUME NEW c \in Caller, Call(c) PROVE GatedInv'
    BY <2>1, CallInv
  <2>2. ASSUME NEW c \in Caller, Run(c) \/ Apply(c) \/ Crash(c) PROVE GatedInv'
    BY <2>2, QuietSteps, QuietInv, ExecuteInv, ExecuteApprovedInv
  <2>3. CASE Reload
    BY <2>3 DEF Reload, GatedInv, CallsAreNumbered, ApproversHoldDecisions, Approving,
                GatedEffectsAreDecided
  <2>4. CASE UNCHANGED vars
    BY <2>4 DEF vars, GatedInv, CallsAreNumbered, ApproversHoldDecisions, Approving,
                GatedEffectsAreDecided
  <2> QED
    BY <2>1, <2>2, <2>3, <2>4 DEF Next, Quiescent
<1>3. GatedInv => GatedEffectsAreDecided
  BY DEF GatedInv
<1> QED
  BY <1>1, <1>2, <1>3, TypeCorrect, PTL DEF Spec

(***************************************************************************)
(* No record of work that was not done.                                    *)
(***************************************************************************)
ClaimsIn(t, s) == {i \in DOMAIN t.steps : t.steps[i].step = s /\ t.steps[i].decision \in {"allow", "approved"}}
DoneIn(fx, s) == {i \in DOMAIN fx : fx[i].step = s}

RealIn(t, fx) == \A s \in Step : Cardinality(ClaimsIn(t, s)) <= Cardinality(DoneIn(fx, s))

\* What makes it inductive: a copy in some caller's hands is as real as the row,
\* for it will be written over the row.
RealInv ==
  /\ RealIn(task, effects)
  /\ \A c \in Caller : caller[c].pc # "idle" => RealIn(caller[c].task, effects)

LEMMA CountsAreNumbers ==
  /\ \A t \in Task : \A s : IsFiniteSet(ClaimsIn(t, s)) /\ Cardinality(ClaimsIn(t, s)) \in Nat
  /\ \A fx \in Seq(Effect) : \A s : IsFiniteSet(DoneIn(fx, s)) /\ Cardinality(DoneIn(fx, s)) \in Nat
<1>1. ASSUME NEW n \in Nat, NEW S \in SUBSET (1..n)
      PROVE  IsFiniteSet(S) /\ Cardinality(S) \in Nat
  <2>1. IsFiniteSet(1..n)
    BY FS_Interval
  <2>2. IsFiniteSet(S)
    BY <2>1, FS_Subset
  <2> QED
    BY <2>2, FS_CardinalityType
<1>2. ASSUME NEW t \in Task, NEW s
      PROVE  ClaimsIn(t, s) \in SUBSET (1..Len(t.steps)) /\ Len(t.steps) \in Nat
  BY DEF ClaimsIn, Task
<1>3. ASSUME NEW fx \in Seq(Effect), NEW s
      PROVE  DoneIn(fx, s) \in SUBSET (1..Len(fx)) /\ Len(fx) \in Nat
  BY DEF DoneIn
<1> QED
  BY <1>1, <1>2, <1>3

\* A task no step was recorded in claims nothing.
LEMMA NothingClaimed ==
  ASSUME NEW t, t.steps = <<>>, NEW fx \in Seq(Effect)
  PROVE  RealIn(t, fx)
<1>1. \A s : Cardinality(ClaimsIn(t, s)) = 0
  BY FS_EmptySet DEF ClaimsIn
<1> QED
  BY <1>1, CountsAreNumbers DEF RealIn

\* An execution is one more for its step.
LEMMA OneMoreDone ==
  ASSUME NEW fx \in Seq(Effect), NEW f \in Effect, NEW s
  PROVE  Cardinality(DoneIn(Append(fx, f), s)) = Cardinality(DoneIn(fx, s)) + (IF f.step = s THEN 1 ELSE 0)
<1> DEFINE n == Len(fx) + 1
<1>1. /\ n \notin DOMAIN fx /\ DOMAIN Append(fx, f) = DOMAIN fx \cup {n}
      /\ Append(fx, f)[n] = f /\ \A i \in DOMAIN fx : Append(fx, f)[i] = fx[i]
  OBVIOUS
<1>2. DoneIn(Append(fx, f), s) = IF f.step = s THEN DoneIn(fx, s) \cup {n} ELSE DoneIn(fx, s)
  BY <1>1 DEF DoneIn
<1>3. n \notin DoneIn(fx, s)
  BY <1>1 DEF DoneIn
<1>4. IsFiniteSet(DoneIn(fx, s)) /\ Cardinality(DoneIn(fx, s)) \in Nat
  BY CountsAreNumbers
<1>5. Cardinality(DoneIn(fx, s) \cup {n}) = Cardinality(DoneIn(fx, s)) + 1
  BY <1>3, <1>4, FS_AddElement
<1> HIDE DEF n
<1> QED
  BY <1>2, <1>4, <1>5

\* A record is at most one more for its step, and for no other.
LEMMA OneMoreClaimed ==
  ASSUME NEW t \in Task, NEW x, NEW d, NEW ok \in BOOLEAN, NEW s
  PROVE  Cardinality(ClaimsIn(Record(t, x, d, ok), s)) =
           Cardinality(ClaimsIn(t, s)) + (IF x = s /\ d \in {"allow", "approved"} THEN 1 ELSE 0)
<1> DEFINE r == [step |-> x, decision |-> d, ok |-> ok]
           n == Len(t.steps) + 1
           u == Record(t, x, d, ok)
<1>1. t.steps \in Seq(StepRecord)
  BY DEF Task
<1>2. u.steps = Append(t.steps, r)
  BY DEF Record, Task
<1>3. /\ n \notin DOMAIN t.steps /\ DOMAIN u.steps = DOMAIN t.steps \cup {n}
      /\ u.steps[n] = r /\ \A i \in DOMAIN t.steps : u.steps[i] = t.steps[i]
  BY <1>1, <1>2
<1> HIDE DEF u
<1>4. ClaimsIn(u, s) = IF x = s /\ d \in {"allow", "approved"} THEN ClaimsIn(t, s) \cup {n} ELSE ClaimsIn(t, s)
  BY <1>3 DEF ClaimsIn
<1>5. n \notin ClaimsIn(t, s)
  BY <1>3 DEF ClaimsIn
<1>6. IsFiniteSet(ClaimsIn(t, s)) /\ Cardinality(ClaimsIn(t, s)) \in Nat
  BY CountsAreNumbers
<1>7. Cardinality(ClaimsIn(t, s) \cup {n}) = Cardinality(ClaimsIn(t, s)) + 1
  BY <1>5, <1>6, FS_AddElement
<1> HIDE DEF n
<1> QED
  BY <1>4, <1>6, <1>7 DEF u

\* A record of what was not executed claims nothing.
LEMMA RefusalIsReal ==
  ASSUME NEW t \in Task, NEW x, NEW d \in {"deny", "denied_by_human"}, NEW ok \in BOOLEAN, NEW fx, RealIn(t, fx)
  PROVE  RealIn(Record(t, x, d, ok), fx)
<1>1. ASSUME NEW s \in Step
      PROVE  Cardinality(ClaimsIn(Record(t, x, d, ok), s)) <= Cardinality(DoneIn(fx, s))
  <2>1. Cardinality(ClaimsIn(Record(t, x, d, ok), s)) =
          Cardinality(ClaimsIn(t, s)) + (IF x = s /\ d \in {"allow", "approved"} THEN 1 ELSE 0)
    BY OneMoreClaimed
  <2>2. Cardinality(ClaimsIn(t, s)) \in Nat
    BY CountsAreNumbers
  <2>3. Cardinality(ClaimsIn(t, s)) <= Cardinality(DoneIn(fx, s))
    BY <1>1 DEF RealIn
  <2>4. Cardinality(ClaimsIn(Record(t, x, d, ok), s)) = Cardinality(ClaimsIn(t, s))
    BY <2>1, <2>2
  <2> QED
    BY <2>3, <2>4
<1> QED
  BY <1>1 DEF RealIn

\* A record is made with the execution it is of.
LEMMA RecordIsReal ==
  ASSUME NEW t \in Task, NEW f \in Effect, NEW d \in {"allow", "approved"}, NEW ok \in BOOLEAN,
         NEW fx \in Seq(Effect), RealIn(t, fx)
  PROVE  RealIn(Record(t, f.step, d, ok), Append(fx, f))
<1> SUFFICES ASSUME NEW s \in Step
             PROVE  Cardinality(ClaimsIn(Record(t, f.step, d, ok), s)) <= Cardinality(DoneIn(Append(fx, f), s))
  BY DEF RealIn
<1>1. Cardinality(ClaimsIn(Record(t, f.step, d, ok), s)) =
        Cardinality(ClaimsIn(t, s)) + (IF f.step = s THEN 1 ELSE 0)
  BY OneMoreClaimed
<1> QED
  BY <1>1, OneMoreDone, CountsAreNumbers DEF RealIn

\* More executions leave real what was real.
LEMMA StaysReal ==
  ASSUME NEW t \in Task, NEW fx \in Seq(Effect), NEW f \in Effect, RealIn(t, fx)
  PROVE  RealIn(t, Append(fx, f))
BY OneMoreDone, CountsAreNumbers DEF RealIn

\* Only the steps that were recorded matter.
LEMMA SameClaims ==
  ASSUME NEW t, NEW u, u.steps = t.steps, NEW fx, RealIn(t, fx)
  PROVE  RealIn(u, fx)
BY DEF RealIn, ClaimsIn

\* A caller moves on with a copy that is real.
LEMMA RealStep ==
  ASSUME TypeOK, RealInv, NEW c \in Caller, UNCHANGED effects,
         RealIn(task', effects),
         \/ Return(c)
         \/ \E pc, t : Goto(c, pc, t) /\ RealIn(t, effects)
  PROVE  RealInv'
<1>1. CASE Return(c)
  BY <1>1, ReturnFrame DEF RealInv
<1>2. ASSUME NEW pc, NEW t, Goto(c, pc, t), RealIn(t, effects)
      PROVE  RealInv'
  BY <1>2, GotoFrame DEF RealInv
<1> QED
  BY <1>1, <1>2

LEMMA CallReal ==
  ASSUME TypeOK, RealInv, NEW c \in Caller, Call(c)
  PROVE  RealInv'
<1>1. /\ effects \in Seq(Effect) /\ RealIn(task, effects)
      /\ \A d \in Caller : caller[d].pc # "idle" => RealIn(caller[d].task, effects)
  BY DEF TypeOK, RealInv
<1>2. ASSUME NEW pc, NEW u, NEW a, NewCall(c, pc, u, a), RealIn(u, effects), RealIn(task', effects)
      PROVE  RealInv'
  <2>1. caller'[c].task = u /\ effects' = effects /\ \A d \in Caller \ {c} : caller'[d] = caller[d]
    BY <1>2 DEF NewCall, TypeOK
  <2> QED
    BY <1>1, <1>2, <2>1 DEF RealInv
<1>3. NoTask.steps = <<>> /\ [NoTask EXCEPT !.status = "pending"].steps = <<>>
  BY DEF NoTask
<1>4. RealIn(NoTask, effects) /\ RealIn([NoTask EXCEPT !.status = "pending"], effects)
  BY <1>1, <1>3, NothingClaimed
<1>5. CASE Submit(c)
  BY <1>2, <1>4, <1>5 DEF Submit
<1>6. ASSUME NEW a, NEW verdict, NEW pc, Decide(c, a, verdict, pc)
      PROVE  RealInv'
  BY <1>1, <1>2, <1>4, <1>6 DEF Decide
<1>7. CASE RunAgain(c) \/ Cancel(c) \/ (Resume(c) /\ Pending = {})
  BY <1>1, <1>2, <1>7 DEF RunAgain, Cancel, Resume
<1>8. CASE Approve(c) \/ Deny(c) \/ (Resume(c) /\ Pending # {})
  BY <1>6, <1>8 DEF Approve, Deny, Resume
<1> QED
  BY <1>5, <1>7, <1>8 DEF Call

\* The tool acts, and the copy tells of it: one execution, one record.
LEMMA ExecutedReal ==
  ASSUME TypeOK, RealInv, NEW c \in Caller, NEW f \in Effect, NEW u,
         effects' = Append(effects, f), RealIn(u, effects'), UNCHANGED task,
         NEW pc, Goto(c, pc, u)
  PROVE  RealInv'
<1>1. effects \in Seq(Effect) /\ task \in Task /\ \A d \in Caller : caller[d].task \in Task
  BY DEF TypeOK, CallerState
<1>2. RealIn(task', effects')
  BY <1>1, StaysReal DEF RealInv
<1>3. \A d \in Caller \ {c} : caller[d].pc # "idle" => RealIn(caller[d].task, effects')
  BY <1>1, StaysReal DEF RealInv
<1> QED
  BY <1>2, <1>3, GotoFrame DEF RealInv

LEMMA RunReal ==
  ASSUME TypeOK, PausesAtAStep, RealInv, NEW c \in Caller, Run(c)
  PROVE  RealInv'
<1> DEFINE t == caller[c].task
<1>1. /\ t \in Task /\ caller[c].call \in Nat /\ caller[c].approval \in Nat /\ effects \in Seq(Effect)
      /\ RealIn(task, effects)
  BY DEF TypeOK, CallerState, RealInv
<1>2. caller[c].pc # "idle" => RealIn(t, effects)
  BY DEF RealInv
<1> HIDE DEF t
<1>3. ASSUME Begin(c) PROVE RealInv'
  <2>1. [t EXCEPT !.status = "running"].steps = t.steps
    BY <1>1 DEF Task
  <2>2. RealIn([t EXCEPT !.status = "running"], effects)
    BY <1>2, <1>3, <2>1, SameClaims DEF Begin
  <2> QED
    BY <1>3, <2>2, RealStep DEF Begin, t
<1>4. ASSUME UsePlan(c) PROVE RealInv'
  BY <1>1, <1>2, <1>4, RealStep DEF UsePlan, t
<1>5. ASSUME MakePlan(c) PROVE RealInv'
  <2>1. PICK p \in Plans : LET u == [t EXCEPT !.planned = TRUE, !.plan = Truncate(p)] IN task' = u /\ Goto(c, "loop", u)
    BY <1>5 DEF MakePlan, t
  <2> DEFINE u == [t EXCEPT !.planned = TRUE, !.plan = Truncate(p)]
  <2>2. u.steps = t.steps
    BY <1>1 DEF Task
  <2> HIDE DEF u
  <2>3. RealIn(u, effects)
    BY <1>2, <1>5, <2>2, SameClaims DEF MakePlan
  <2> QED
    BY <1>5, <2>1, <2>3, RealStep DEF MakePlan, u
<1>6. ASSUME PlanFails(c) PROVE RealInv'
  <2>1. [t EXCEPT !.status = "failed"].steps = t.steps
    BY <1>1 DEF Task
  <2>2. RealIn([t EXCEPT !.status = "failed"], effects)
    BY <1>2, <1>6, <2>1, SameClaims DEF PlanFails
  <2> QED
    BY <1>6, <2>2, RealStep DEF PlanFails, t
<1>7. ASSUME RequestApproval(c) PROVE RealInv'
  <2>1. PICK a : PauseFor(c, a)
    BY <1>7 DEF RequestApproval
  <2>2. caller'[c].task = caller[c].task /\ \A d \in Caller \ {c} : caller'[d] = caller[d]
    BY <2>1 DEF PauseFor, TypeOK, CallerState
  <2> QED
    BY <1>1, <1>2, <1>7, <2>2 DEF RequestApproval, RealInv, t
<1>8. ASSUME Pause(c) PROVE RealInv'
  <2>1. task'.steps = t.steps
    BY <1>1, <1>8 DEF Pause, Task, t
  <2>2. RealIn(task', effects)
    BY <1>2, <1>8, <2>1, SameClaims DEF Pause
  <2> QED
    BY <1>8, <2>2, RealStep DEF Pause
<1>9. ASSUME DenyByPolicy(c) PROVE RealInv'
  <2>1. PICK no \in BOOLEAN : LET u == Record(t, NextStep(t), "deny", no) IN task' = u /\ Goto(c, "loop", u)
    BY <1>9 DEF DenyByPolicy, t
  <2>2. RealIn(Record(t, NextStep(t), "deny", no), effects)
    BY <1>1, <1>2, <1>9, RefusalIsReal DEF DenyByPolicy
  <2> QED
    BY <1>9, <2>1, <2>2, RealStep DEF DenyByPolicy
<1>10. ASSUME Execute(c) PROVE RealInv'
  <2> DEFINE f == [pos |-> t.cursor + 1, step |-> NextStep(t), call |-> caller[c].call,
                   approval |-> 0, gated |-> NeedsApproval(NextStep(t))]
  <2>1. PICK ok \in BOOLEAN :
          effects' = Append(effects, f) /\ Goto(c, "record", ClearPending(Record(t, NextStep(t), "allow", ok)))
    BY <1>10 DEF Execute, t
  <2>2. f \in Effect /\ f.step = NextStep(t)
    <3>1. NextStep(t) \in Step
      BY <1>1, <1>10, NextStepType DEF Execute, t
    <3>2. t.cursor + 1 \in Nat /\ caller[c].call \in Nat
      BY <1>1 DEF Task
    <3>3. NeedsApproval(NextStep(t)) \in BOOLEAN
      BY BoundAssumption DEF NeedsApproval
    <3> QED
      BY <3>1, <3>2, <3>3 DEF Effect
  <2> HIDE DEF f
  <2>3. RealIn(Record(t, NextStep(t), "allow", ok), effects')
    BY <1>1, <1>2, <1>10, <2>1, <2>2, RecordIsReal DEF Execute
  <2>4. Record(t, NextStep(t), "allow", ok) \in Task
    BY <1>1, <1>10, RecordType, NextStepType DEF Execute, t
  <2>5. RealIn(ClearPending(Record(t, NextStep(t), "allow", ok)), effects')
    BY <2>3, <2>4, SameClaims DEF ClearPending, Task
  <2> QED
    BY <1>10, <2>1, <2>2, <2>5, ExecutedReal DEF Execute
<1>11. ASSUME RecordStep(c) PROVE RealInv'
  BY <1>1, <1>2, <1>11, RealStep DEF RecordStep, t
<1>12. ASSUME Finish(c) PROVE RealInv'
  <2>1. task'.steps = t.steps
    BY <1>1, <1>12 DEF Finish, Task, t
  <2>2. RealIn(task', effects)
    BY <1>2, <1>12, <2>1, SameClaims DEF Finish
  <2> QED
    BY <1>12, <2>2, RealStep DEF Finish
<1> QED
  BY <1>3, <1>4, <1>5, <1>6, <1>7, <1>8, <1>9, <1>10, <1>11, <1>12 DEF Run

LEMMA ApplyReal ==
  ASSUME TypeOK, RealInv, NEW c \in Caller, Apply(c)
  PROVE  RealInv'
<1> DEFINE t == caller[c].task
<1>1. /\ t \in Task /\ caller[c].call \in Nat /\ caller[c].approval \in Nat /\ effects \in Seq(Effect)
      /\ task \in Task /\ RealIn(task, effects)
  BY DEF TypeOK, CallerState, RealInv
<1>2. caller[c].pc # "idle" => RealIn(t, effects)
  BY DEF RealInv
<1> HIDE DEF t
<1>3. ASSUME LoadApproved(c) PROVE RealInv'
  BY <1>1, <1>3, RealStep DEF LoadApproved
<1>4. ASSUME ResumeNothing(c) PROVE RealInv'
  BY <1>1, <1>2, <1>4, RealStep DEF ResumeNothing, t
<1>5. ASSUME ResumeDenied(c) PROVE RealInv'
  <2>1. PICK no \in BOOLEAN : LET u == Record(t, t.pendingStep, "deny", no) IN task' = u /\ Goto(c, "begin", u)
    BY <1>5 DEF ResumeDenied, t
  <2>2. RealIn(Record(t, t.pendingStep, "deny", no), effects)
    BY <1>1, <1>2, <1>5, RefusalIsReal DEF ResumeDenied
  <2> QED
    BY <1>5, <2>1, <2>2, RealStep DEF ResumeDenied
<1>6. ASSUME ExecuteApproved(c) PROVE RealInv'
  <2>1. PICK i \in Positions(t, t.pendingStep), ok \in BOOLEAN :
          /\ effects' = Append(effects, [pos |-> i, step |-> t.pendingStep, call |-> caller[c].call,
                                         approval |-> caller[c].approval, gated |-> NeedsApproval(t.pendingStep)])
          /\ Goto(c, "record_approved",
                  [ClearPending(Record(t, t.pendingStep, "approved", ok)) EXCEPT !.status = "running"])
    BY <1>6 DEF ExecuteApproved, t
  <2> DEFINE f == [pos |-> i, step |-> t.pendingStep, call |-> caller[c].call,
                   approval |-> caller[c].approval, gated |-> NeedsApproval(t.pendingStep)]
             r == Record(t, t.pendingStep, "approved", ok)
  <2>2. i \in Nat /\ t.pendingStep \in Step
    BY <1>1 DEF Positions, Task
  <2>3. f \in Effect /\ f.step = t.pendingStep
    BY <1>1, <2>2, BoundAssumption DEF Effect, NeedsApproval
  <2>4. effects' = Append(effects, f)
    BY <2>1
  <2> HIDE DEF f
  <2>5. RealIn(r, effects')
    BY <1>1, <1>2, <1>6, <2>3, <2>4, RecordIsReal DEF ExecuteApproved
  <2>6. r \in Task
    BY <1>1, <2>2, RecordType
  <2> HIDE DEF r
  <2>7. [ClearPending(r) EXCEPT !.status = "running"].steps = r.steps
    BY <2>6 DEF ClearPending, Task
  <2>8. RealIn([ClearPending(r) EXCEPT !.status = "running"], effects')
    BY <2>5, <2>7, SameClaims
  <2> QED
    BY <1>6, <2>1, <2>3, <2>4, <2>8, ExecutedReal DEF ExecuteApproved, r
<1>7. ASSUME RecordApproved(c) PROVE RealInv'
  BY <1>1, <1>2, <1>7, RealStep DEF RecordApproved, t
<1>8. ASSUME LoadDenied(c) PROVE RealInv'
  <2> DEFINE r == HumanRefusal(task)
  <2>1. RealIn(r, effects)
    <3>1. CASE task.pendingStep # NoStep
      <4>1. PICK no \in BOOLEAN : r = Record(task, task.pendingStep, "denied_by_human", no)
        BY <3>1 DEF HumanRefusal
      <4> QED
        BY <1>1, <4>1, RefusalIsReal
    <3>2. CASE task.pendingStep = NoStep
      <4>1. r.steps = task.steps
        BY <1>1, <3>2 DEF HumanRefusal, Task
      <4> QED
        BY <1>1, <4>1, SameClaims
    <3> QED
      BY <3>1, <3>2
  <2>2. r \in Task
    BY <1>1, HumanRefusalType
  <2> HIDE DEF r
  <2>3. [ClearPending(r) EXCEPT !.status = "running"].steps = r.steps
    BY <2>2 DEF ClearPending, Task
  <2>4. RealIn([ClearPending(r) EXCEPT !.status = "running"], effects)
    BY <2>1, <2>3, SameClaims
  <2> QED
    BY <1>1, <1>8, <2>4, RealStep DEF LoadDenied, r
<1>9. ASSUME RecordDenied(c) PROVE RealInv'
  BY <1>1, <1>2, <1>9, RealStep DEF RecordDenied, t
<1>10. ASSUME CancelSave(c) PROVE RealInv'
  <2>1. task'.steps = t.steps
    BY <1>1, <1>10 DEF CancelSave, Task, t
  <2>2. RealIn(task', effects)
    BY <1>2, <1>10, <2>1, SameClaims DEF CancelSave
  <2> QED
    BY <1>10, <2>2, RealStep DEF CancelSave
<1> QED
  BY <1>3, <1>4, <1>5, <1>6, <1>7, <1>8, <1>9, <1>10 DEF Apply

\* The last writer wins, and may take records away; it never adds one of work
\* that no tool did (StepRecord, AgentEngine.run and resume_after_approval).
THEOREM RecordsAreOfWorkDone == Spec => []RecordsAreReal
<1>1. Init => RealInv
  <2> SUFFICES ASSUME Init PROVE RealInv
    OBVIOUS
  <2>1. NoTask.steps = <<>> /\ effects \in Seq(Effect)
    BY DEF Init, NoTask
  <2>2. RealIn(NoTask, effects)
    BY <2>1, NothingClaimed
  <2> QED
    BY <2>2 DEF Init, RealInv, Idle
<1>2. TypeOK /\ PausesAtAStep /\ RealInv /\ [Next]_vars => RealInv'
  <2> SUFFICES ASSUME TypeOK, PausesAtAStep, RealInv, [Next]_vars PROVE RealInv'
    OBVIOUS
  <2>1. ASSUME NEW c \in Caller, Call(c) \/ Run(c) \/ Apply(c) PROVE RealInv'
    BY <2>1, CallReal, RunReal, ApplyReal
  <2>2. ASSUME NEW c \in Caller, Crash(c) PROVE RealInv'
    BY <2>2, RealStep DEF Crash, RealInv
  <2>3. CASE Reload \/ UNCHANGED vars
    BY <2>3 DEF Reload, vars, RealInv
  <2> QED
    BY <2>1, <2>2, <2>3 DEF Next, Quiescent
<1>3. RealInv => RecordsAreReal
  BY DEF RealInv, RealIn, RecordsAreReal, ClaimsIn, DoneIn, Claimed, Done
<1> QED
  BY <1>1, <1>2, <1>3, TypeCorrect, PTL DEF Spec

(***************************************************************************)
(* What holds of a task that one caller at a time works on, whose          *)
(* approvals are each decided once, under policies that stay: for every    *)
(* plan, every number of calls and every crash, a human's approval covers  *)
(* the step that runs, and the run follows its plan.                       *)
(***************************************************************************)

\* No less will do: an approval stays pending when the policy stops asking, the
\* step that waits is found again by its id (README.md, section 5).
Alone == (\A c, d \in Caller : c = d) /\ ~Redecide /\ MaxReloads = 0
StepsAreDistinct == \A p \in Plans : \A i, j \in DOMAIN p : p[i] = p[j] => i = j

-----------------------------------------------------------------------------
(* The inductive invariant, said of values: a task, approvals, a policy. *)

PendingIn(aps) == {a \in DOMAIN aps : aps[a].status = "pending"}
GatedBy(pol, s) == pol[s] = "approval" /\ ~AutoApprove

\* The step a task waits with is the one at its cursor.
TaskInv(t, pol) ==
  /\ t.status = "absent" => t = NoTask
  /\ ~t.planned => t.plan = <<>>
  /\ t.pendingStep # NoStep => HasNext(t) /\ NextStep(t) = t.pendingStep /\ GatedBy(pol, t.pendingStep)

Recorded(t) ==
  /\ t.cursor = Len(t.steps)
  /\ \A i \in DOMAIN t.steps : i <= Len(t.plan) /\ t.steps[i].step = t.plan[i]

\* One question at most is open, and it is about the step at the cursor.
AskedInv(aps, t, pol) ==
  \A a \in PendingIn(aps) : /\ HasNext(t) /\ aps[a].step = NextStep(t) /\ GatedBy(pol, NextStep(t))
                            /\ \A b \in PendingIn(aps) : a = b

CoversIn(fx, aps) ==
  \A i \in DOMAIN fx : fx[i].gated => fx[i].approval \in DOMAIN aps /\ aps[fx[i].approval].step = fx[i].step

\* The caller's copy is the row, or what the row is about to become.
Reading == {"begin", "plan", "loop", "pause", "resume", "cancel"}
Answered == {"record", "record_approved", "load_approved", "resume", "load_denied", "record_denied"}

Refused(t) == [ClearPending(HumanRefusal(t)) EXCEPT !.status = "running"]
Executed(t, ok) == ClearPending(Record(t, NextStep(t), "allow", ok))
Resumed(t, ok) == [ClearPending(Record(t, t.pendingStep, "approved", ok)) EXCEPT !.status = "running"]

HoldsInv(k, t, aps, pol) ==
  /\ k.pc # "idle" => t.status # "absent"
  /\ k.pc \in Reading => k.task = t
  /\ k.pc = "pause" => HasNext(t) /\ GatedBy(pol, NextStep(t))
  /\ k.pc \in Answered => PendingIn(aps) = {}
  /\ k.pc = "record" => HasNext(t) /\ \E ok \in BOOLEAN : k.task = Executed(t, ok)
  /\ k.pc = "record_approved" => t.pendingStep # NoStep /\ \E ok \in BOOLEAN : k.task = Resumed(t, ok)
  /\ k.pc = "record_denied" => k.task = Refused(t)
  /\ k.pc \in {"load_approved", "resume"} =>
       k.approval \in DOMAIN aps /\ (t.pendingStep # NoStep => aps[k.approval].step = t.pendingStep)

\* Without a crash, a question is open only while the task waits with its step.
WaitsInv(k, t, aps) ==
  /\ k.pc # "pause" => PendingIn(aps) = {} \/ t.pendingStep # NoStep
  /\ k.pc \in {"load_denied", "record_denied"} => t.pendingStep # NoStep

AloneInv ==
  /\ TypeOK /\ PausesAtAStep
  /\ TaskInv(task, policy) /\ AskedInv(approvals, task, policy) /\ CoversIn(effects, approvals)
  /\ \A c \in Caller : HoldsInv(caller[c], task, approvals, policy)
  /\ crashes = 0 => Recorded(task) /\ \A c \in Caller : WaitsInv(caller[c], task, approvals)

-----------------------------------------------------------------------------
(* Records *)

\* Recording the step at the cursor follows the plan.
LEMMA RecordFollows ==
  ASSUME NEW t \in Task, HasNext(t), NEW d \in {"allow", "deny", "approved", "denied_by_human"},
         NEW ok \in BOOLEAN, Recorded(t)
  PROVE  Recorded(Record(t, NextStep(t), d, ok))
<1> DEFINE r == [step |-> NextStep(t), decision |-> d, ok |-> ok]
           u == Record(t, NextStep(t), d, ok)
           n == Len(t.steps) + 1
<1>1. t.steps \in Seq(StepRecord) /\ t.plan \in Seq(Step) /\ t.cursor = Len(t.steps) /\ n <= Len(t.plan)
  BY DEF Task, HasNext, Recorded
<1>2. u.steps = Append(t.steps, r) /\ u.plan = t.plan /\ u.cursor = n
  BY <1>1 DEF Record, Task
<1>3. /\ Len(u.steps) = n /\ DOMAIN u.steps = DOMAIN t.steps \cup {n}
      /\ u.steps[n].step = t.plan[n] /\ \A i \in DOMAIN t.steps : u.steps[i] = t.steps[i]
  BY <1>1, <1>2 DEF NextStep
<1> HIDE DEF u
<1> QED
  BY <1>1, <1>2, <1>3 DEF Recorded, u

\* Only the plan, the cursor and the steps matter.
LEMMA SameRecords ==
  ASSUME NEW t, NEW u, u.steps = t.steps, u.plan = t.plan, u.cursor = t.cursor, Recorded(t)
  PROVE  Recorded(u)
BY DEF Recorded

\* What Record and ClearPending leave.
LEMMA RecordFields ==
  ASSUME NEW t \in Task, NEW s \in Step, NEW d \in {"allow", "deny", "approved", "denied_by_human"}, NEW ok \in BOOLEAN
  PROVE  LET u == Record(t, s, d, ok) IN
         /\ u \in Task /\ u.status = t.status /\ u.planned = t.planned /\ u.plan = t.plan
         /\ u.cursor = t.cursor + 1 /\ u.pendingStep = t.pendingStep
         /\ u.steps = Append(t.steps, [step |-> s, decision |-> d, ok |-> ok])
<1> DEFINE r == [step |-> s, decision |-> d, ok |-> ok]
<1>1. Record(t, s, d, ok) \in Task
  BY RecordType
<1>2. Record(t, s, d, ok) = [t EXCEPT !.steps = Append(@, r), !.cursor = @ + 1]
  BY DEF Record
<1> HIDE DEF r
<1>3. LET u == [t EXCEPT !.steps = Append(@, r), !.cursor = @ + 1] IN
      /\ u.status = t.status /\ u.planned = t.planned /\ u.plan = t.plan
      /\ u.cursor = t.cursor + 1 /\ u.pendingStep = t.pendingStep /\ u.steps = Append(t.steps, r)
  BY DEF Task
<1> QED
  BY <1>1, <1>2, <1>3 DEF r

LEMMA ClearFields ==
  ASSUME NEW t \in Task
  PROVE  /\ LET u == ClearPending(t) IN
            /\ u \in Task /\ u.status = t.status /\ u.planned = t.planned /\ u.plan = t.plan
            /\ u.cursor = t.cursor /\ u.pendingStep = NoStep /\ u.steps = t.steps
         /\ \A st \in Status : LET u == [t EXCEPT !.status = st] IN
            /\ u \in Task /\ u.status = st /\ u.planned = t.planned /\ u.plan = t.plan
            /\ u.cursor = t.cursor /\ u.pendingStep = t.pendingStep /\ u.steps = t.steps
BY DEF ClearPending, Task

\* A task that has passed its step asks for nothing.
Passes(t, u) ==
  /\ u \in Task /\ u.status # "absent" /\ u.planned = t.planned /\ u.plan = t.plan
  /\ u.cursor = t.cursor + 1 /\ u.pendingStep = NoStep

LEMMA PassesTask ==
  ASSUME NEW t, NEW u, Passes(t, u), NEW pol, TaskInv(t, pol)
  PROVE  TaskInv(u, pol)
BY DEF Passes, TaskInv

LEMMA CopiesPass ==
  ASSUME NEW t \in Task, t.status # "absent", NEW ok \in BOOLEAN
  PROVE  /\ HasNext(t) => Passes(t, Executed(t, ok)) /\ (Recorded(t) => Recorded(Executed(t, ok)))
         /\ t.pendingStep \in Step => Passes(t, Resumed(t, ok))
         /\ t.pendingStep \in Step /\ HasNext(t) /\ NextStep(t) = t.pendingStep /\ Recorded(t) => Recorded(Resumed(t, ok))
<1>1. ASSUME HasNext(t)
      PROVE  Passes(t, Executed(t, ok)) /\ (Recorded(t) => Recorded(Executed(t, ok)))
  <2> DEFINE u == Record(t, NextStep(t), "allow", ok)
  <2>1. NextStep(t) \in Step
    BY <1>1, NextStepType
  <2>2. u \in Task /\ u.status = t.status /\ u.planned = t.planned /\ u.plan = t.plan /\ u.cursor = t.cursor + 1
    BY <2>1, RecordFields
  <2>3. Recorded(t) => Recorded(u)
    BY <1>1, RecordFollows
  <2> DEFINE v == ClearPending(u)
  <2> HIDE DEF u
  <2>4. /\ v \in Task /\ v.status = u.status /\ v.planned = u.planned /\ v.plan = u.plan /\ v.cursor = u.cursor
        /\ v.pendingStep = NoStep /\ v.steps = u.steps
    BY <2>2, ClearFields
  <2>5. v = Executed(t, ok)
    BY DEF Executed, u
  <2> HIDE DEF v
  <2>6. Passes(t, v)
    BY <2>2, <2>4 DEF Passes
  <2>7. Recorded(t) => Recorded(v)
    BY <2>3, <2>4, SameRecords
  <2> QED
    BY <2>5, <2>6, <2>7
<1>2. ASSUME t.pendingStep \in Step
      PROVE  /\ Passes(t, Resumed(t, ok))
             /\ HasNext(t) /\ NextStep(t) = t.pendingStep /\ Recorded(t) => Recorded(Resumed(t, ok))
  <2> DEFINE u == Record(t, t.pendingStep, "approved", ok)
             v == ClearPending(u)
  <2>1. u \in Task /\ u.planned = t.planned /\ u.plan = t.plan /\ u.cursor = t.cursor + 1
    BY <1>2, RecordFields
  <2>2. HasNext(t) /\ NextStep(t) = t.pendingStep /\ Recorded(t) => Recorded(u)
    BY RecordFollows
  <2> HIDE DEF u
  <2>3. /\ v \in Task /\ v.planned = u.planned /\ v.plan = u.plan /\ v.cursor = u.cursor
        /\ v.pendingStep = NoStep /\ v.steps = u.steps
    BY <2>1, ClearFields
  <2> HIDE DEF v
  <2> DEFINE w == [v EXCEPT !.status = "running"]
  <2>4. /\ w \in Task /\ w.status = "running" /\ w.planned = v.planned /\ w.plan = v.plan
        /\ w.cursor = v.cursor /\ w.pendingStep = v.pendingStep /\ w.steps = v.steps
    BY <2>3, ClearFields DEF Status
  <2>5. w = Resumed(t, ok)
    BY DEF Resumed, u, v
  <2> HIDE DEF w
  <2>6. Passes(t, w)
    BY <2>1, <2>3, <2>4 DEF Passes
  <2>7. Recorded(u) => Recorded(w)
    BY <2>3, <2>4, SameRecords
  <2> QED
    BY <2>2, <2>5, <2>6, <2>7
<1> QED
  BY <1>1, <1>2

LEMMA RefusedPasses ==
  ASSUME NEW t \in Task
  PROVE  /\ Passes(t, Refused(t))
         /\ t.pendingStep \in Step /\ HasNext(t) /\ NextStep(t) = t.pendingStep /\ Recorded(t) => Recorded(Refused(t))
<1> DEFINE u == HumanRefusal(t)
           v == ClearPending(u)
<1>1. /\ u \in Task /\ u.planned = t.planned /\ u.plan = t.plan /\ u.cursor = t.cursor + 1
      /\ t.pendingStep \in Step /\ HasNext(t) /\ NextStep(t) = t.pendingStep /\ Recorded(t) => Recorded(u)
  <2>1. CASE t.pendingStep # NoStep
    <3>1. t.pendingStep \in Step
      BY <2>1 DEF Task
    <3>2. PICK no \in BOOLEAN : u = Record(t, t.pendingStep, "denied_by_human", no)
      BY <2>1 DEF HumanRefusal
    <3> HIDE DEF u
    <3> QED
      BY <3>1, <3>2, RecordFields, RecordFollows
  <2>2. CASE t.pendingStep = NoStep
    BY <2>2, StepAssumption DEF HumanRefusal, Task
  <2> QED
    BY <2>1, <2>2
<1> HIDE DEF u
<1>2. /\ v \in Task /\ v.planned = u.planned /\ v.plan = u.plan /\ v.cursor = u.cursor
      /\ v.pendingStep = NoStep /\ v.steps = u.steps
  BY <1>1, ClearFields
<1> HIDE DEF v
<1> DEFINE w == [v EXCEPT !.status = "running"]
<1>3. /\ w \in Task /\ w.status = "running" /\ w.planned = v.planned /\ w.plan = v.plan
      /\ w.cursor = v.cursor /\ w.pendingStep = v.pendingStep /\ w.steps = v.steps
  BY <1>2, ClearFields DEF Status
<1>4. w = Refused(t)
  BY DEF Refused, u, v
<1> HIDE DEF w
<1>5. Passes(t, w)
  BY <1>1, <1>2, <1>3 DEF Passes
<1>6. Recorded(u) => Recorded(w)
  BY <1>2, <1>3, SameRecords
<1> QED
  BY <1>1, <1>4, <1>5, <1>6

\* The same task, of another status.
Alike(t, u) ==
  /\ u.status # "absent" /\ u.planned = t.planned /\ u.plan = t.plan /\ u.cursor = t.cursor
  /\ u.steps = t.steps /\ u.pendingStep = t.pendingStep

LEMMA AlikeInv ==
  ASSUME NEW t, NEW u, Alike(t, u), NEW pol, NEW aps
  PROVE  /\ TaskInv(t, pol) => TaskInv(u, pol)
         /\ AskedInv(aps, t, pol) => AskedInv(aps, u, pol)
         /\ Recorded(t) => Recorded(u)
         /\ HasNext(u) = HasNext(t) /\ NextStep(u) = NextStep(t)
BY DEF Alike, TaskInv, AskedInv, Recorded, HasNext, NextStep

LEMMA StatusAlike ==
  ASSUME NEW t \in Task, NEW st \in Status \ {"absent"}
  PROVE  Alike(t, [t EXCEPT !.status = st])
BY ClearFields DEF Alike

-----------------------------------------------------------------------------
(* Steps *)

\* What is known of the caller that moves, when there is no other.
LEMMA Facts ==
  ASSUME Alone, AloneInv, NEW c \in Caller
  PROVE  LET k == caller[c] IN
         /\ \A d \in Caller : d = c
         /\ TypeOK /\ PausesAtAStep /\ task \in Task /\ k.task \in Task /\ k.call \in Nat /\ k.approval \in Nat
         /\ approvals \in Seq(Approval) /\ effects \in Seq(Effect)
         /\ TaskInv(task, policy) /\ AskedInv(approvals, task, policy) /\ CoversIn(effects, approvals)
         /\ HoldsInv(k, task, approvals, policy)
         /\ crashes = 0 => Recorded(task) /\ WaitsInv(k, task, approvals)
         /\ task.pendingStep # NoStep => task.pendingStep \in Step /\ task.pendingStep = NextStep(task)
BY DEF Alone, AloneInv, TypeOK, CallerState, TaskInv, Task

LEMMA AloneStep ==
  ASSUME Alone, AloneInv, NEW c \in Caller, TypeOK', PausesAtAStep',
         TaskInv(task', policy'), AskedInv(approvals', task', policy'), CoversIn(effects', approvals'),
         HoldsInv(caller'[c], task', approvals', policy'),
         crashes' = 0 => Recorded(task') /\ WaitsInv(caller'[c], task', approvals')
  PROVE  AloneInv'
BY Facts DEF AloneInv

\* A step keeps the types.
LEMMA StepTypes ==
  ASSUME AloneInv, [Next]_vars
  PROVE  TypeOK' /\ PausesAtAStep'
<1>1. ASSUME NEW c \in Caller, Call(c) \/ Run(c) \/ Apply(c) PROVE TypeOK' /\ PausesAtAStep'
  BY <1>1, CallType, RunType, ApplyType, PauseStep DEF AloneInv
<1>2. ASSUME NEW c \in Caller, Crash(c) PROVE TypeOK' /\ PausesAtAStep'
  <2>1. TypeOK'
    BY <1>2, ReturnType DEF AloneInv, Crash, TypeOK
  <2> QED
    BY <1>2, <2>1, PauseStep DEF AloneInv
<1>3. CASE Reload
  <2>1. policy' \in [Step -> Decision]
    BY <1>3, StepAssumption DEF Reload
  <2> QED
    BY <1>3, <2>1 DEF Reload, AloneInv, TypeOK, PausesAtAStep
<1>4. CASE UNCHANGED vars
  BY <1>4 DEF vars, AloneInv, TypeOK, PausesAtAStep
<1> QED
  BY <1>1, <1>2, <1>3, <1>4 DEF Next, Quiescent

\* A decision answers the one question there is.
LEMMA DecideAlone ==
  ASSUME Alone, AloneInv, NEW c \in Caller, NEW a \in Pending, NEW verdict \in {"approved", "denied"},
         NEW pc \in {"load_approved", "load_denied"}, Decide(c, a, verdict, pc), TypeOK', PausesAtAStep'
  PROVE  AloneInv'
<1>1. /\ a \in PendingIn(approvals) /\ a \in DOMAIN approvals
  BY DEF Pending, PendingIn
<1>2. /\ HasNext(task) /\ approvals[a].step = NextStep(task) /\ \A b \in PendingIn(approvals) : b = a
  BY <1>1, Facts DEF AskedInv
<1>3. \A b \in DOMAIN approvals : approvals[b] \in Approval
  BY Facts
<1>4. approvals' = [b \in DOMAIN approvals |-> IF b = a THEN [approvals[b] EXCEPT !.status = verdict] ELSE approvals[b]]
  BY DEF Decide
<1>5. /\ DOMAIN approvals' = DOMAIN approvals
      /\ \A b \in DOMAIN approvals : approvals'[b].step = approvals[b].step
      /\ approvals'[a].status = verdict
      /\ \A b \in DOMAIN approvals \ {a} : approvals'[b] = approvals[b]
  BY <1>1, <1>3, <1>4 DEF Approval
<1>6. PendingIn(approvals') = {}
  BY <1>2, <1>5 DEF PendingIn
<1>7. task.status # "absent"
  BY <1>2, Facts DEF TaskInv, HasNext, NoTask
<1>8. /\ UNCHANGED <<task, effects, policy, crashes>> /\ caller[c].pc = "idle"
      /\ caller'[c].pc = pc /\ caller'[c].approval = a
  <2>1. NewCall(c, pc, NoTask, a) /\ UNCHANGED task
    BY DEF Decide
  <2>2. caller[c].pc = "idle" /\ UNCHANGED <<effects, policy, crashes>>
    BY <2>1 DEF NewCall
  <2>3. TypeOK
    BY Facts
  <2>4. caller'[c].pc = pc /\ caller'[c].approval = a
    BY <2>1, <2>3, NewCallFrame
  <2> QED
    BY <2>1, <2>2, <2>4
<1>9. HoldsInv(caller'[c], task', approvals', policy')
  BY <1>1, <1>2, <1>5, <1>6, <1>7, <1>8, Facts DEF HoldsInv, Reading
<1>10. crashes' = 0 => Recorded(task') /\ WaitsInv(caller'[c], task', approvals')
  BY <1>1, <1>6, <1>8, Facts DEF WaitsInv
<1>11. CoversIn(effects', approvals') /\ AskedInv(approvals', task', policy')
  BY <1>5, <1>6, <1>8, Facts DEF CoversIn, AskedInv
<1> QED
  BY <1>8, <1>9, <1>10, <1>11, AloneStep, Facts

LEMMA CallAlone ==
  ASSUME Alone, AloneInv, NEW c \in Caller, Call(c), TypeOK', PausesAtAStep'
  PROVE  AloneInv'
<1>1. CASE Approve(c) \/ Deny(c) \/ (Resume(c) /\ Pending # {})
  BY <1>1, DecideAlone DEF Approve, Deny, Resume, Decidable, Alone
<1>2. CASE RunAgain(c) \/ Cancel(c) \/ (Resume(c) /\ Pending = {})
  <2>1. PICK pc \in {"begin", "cancel"} : NewCall(c, pc, task, 0)
    BY <1>2 DEF RunAgain, Cancel, Resume
  <2>2. /\ UNCHANGED <<task, approvals, effects, policy, crashes>> /\ task.status # "absent" /\ caller[c].pc = "idle"
        /\ caller'[c].pc = pc /\ caller'[c].task = task
    BY <1>2, <2>1, Facts DEF RunAgain, Cancel, Resume, NewCall, TypeOK
  <2>3. HoldsInv(caller'[c], task, approvals, policy)
    BY <2>2 DEF HoldsInv, Answered
  <2>4. crashes = 0 => Recorded(task) /\ WaitsInv(caller'[c], task, approvals)
    BY <2>2, Facts DEF WaitsInv
  <2> QED
    BY <2>2, <2>3, <2>4, AloneStep, Facts
<1>3. CASE Submit(c)
  <2> DEFINE u == [NoTask EXCEPT !.status = "pending"]
  <2>1. /\ UNCHANGED <<approvals, effects, policy, crashes>> /\ task' = u
        /\ caller'[c].pc = "begin" /\ caller'[c].task = u
    BY <1>3, Facts DEF Submit, NewCall, TypeOK
  <2>2. task = NoTask
    BY <1>3, Facts DEF Submit, TaskInv
  <2>3. Alike(NoTask, u)
    BY NoTaskType, StatusAlike DEF Status
  <2> HIDE DEF u
  <2>4. TaskInv(u, policy) /\ AskedInv(approvals, u, policy) /\ (crashes = 0 => Recorded(u))
    BY <2>2, <2>3, AlikeInv, Facts
  <2>5. PendingIn(approvals) = {}
    BY <2>2, Facts DEF AskedInv, HasNext, NoTask
  <2>6. HoldsInv(caller'[c], u, approvals, policy)
    BY <2>1, <2>3 DEF HoldsInv, Alike, Answered
  <2>7. WaitsInv(caller'[c], u, approvals)
    BY <2>1, <2>5 DEF WaitsInv
  <2> QED
    BY <2>1, <2>4, <2>6, <2>7, AloneStep, Facts
<1> QED
  BY <1>1, <1>2, <1>3 DEF Call

\* The row keeps its records and its question; the caller goes on with it or returns.
LEMMA AlikeStep ==
  ASSUME Alone, AloneInv, NEW c \in Caller, TypeOK', PausesAtAStep',
         UNCHANGED <<approvals, policy, effects, crashes>>, Alike(task, task'), caller[c].pc # "pause",
         \/ caller'[c].pc = "idle"
         \/ caller'[c].pc \in {"begin", "plan", "loop"} /\ caller'[c].task = task'
  PROVE  AloneInv'
<1>1. TaskInv(task', policy') /\ AskedInv(approvals', task', policy') /\ (crashes' = 0 => Recorded(task'))
  BY Facts, AlikeInv
<1>2. HoldsInv(caller'[c], task', approvals', policy')
  BY DEF HoldsInv, Reading, Answered, Alike
<1>3. crashes' = 0 => WaitsInv(caller'[c], task', approvals')
  BY Facts DEF WaitsInv, Alike
<1> QED
  BY <1>1, <1>2, <1>3, AloneStep, Facts

\* The row passes its step with no question open.
LEMMA PassStep ==
  ASSUME Alone, AloneInv, NEW c \in Caller, TypeOK', PausesAtAStep',
         UNCHANGED <<approvals, policy, effects, crashes>>, Passes(task, task'), PendingIn(approvals) = {},
         crashes = 0 => Recorded(task'),
         caller'[c].pc \in {"begin", "loop"}, caller'[c].task = task'
  PROVE  AloneInv'
<1>1. TaskInv(task', policy') /\ AskedInv(approvals', task', policy')
  BY Facts, PassesTask DEF AskedInv
<1>2. HoldsInv(caller'[c], task', approvals', policy')
  BY DEF HoldsInv, Answered, Passes
<1>3. WaitsInv(caller'[c], task', approvals')
  BY DEF WaitsInv
<1> QED
  BY <1>1, <1>2, <1>3, AloneStep, Facts

LEMMA RunAlone ==
  ASSUME Alone, AloneInv, NEW c \in Caller, Run(c), TypeOK', PausesAtAStep'
  PROVE  AloneInv'
<1> DEFINE t == task
           at(pcs) == caller[c].pc \in pcs
<1>0. /\ TypeOK /\ t \in Task /\ HoldsInv(caller[c], t, approvals, policy)
      /\ TaskInv(t, policy) /\ AskedInv(approvals, t, policy)
      /\ at(Reading) => caller[c].task = t /\ t.status # "absent"
  BY Facts DEF HoldsInv, Reading
<1>1. CASE Begin(c) \/ PlanFails(c) \/ Finish(c)
  <2>1. PICK st \in Status \ {"absent"} : task' = [t EXCEPT !.status = st]
    BY <1>0, <1>1 DEF Begin, PlanFails, Finish, Reading, FinalStatus, Status
  <2>2. /\ UNCHANGED <<approvals, policy, effects, crashes>> /\ caller[c].pc # "pause"
        /\ caller'[c].pc = "idle" \/ (caller'[c].pc = "plan" /\ caller'[c].task = task')
    <3>1. CASE Begin(c)
      <4>1. /\ UNCHANGED <<approvals, policy, effects, crashes>> /\ caller[c].pc = "begin"
        BY <3>1 DEF Begin, bounds
      <4>2. PICK u : task' = u /\ Goto(c, "plan", u)
        BY <3>1 DEF Begin
      <4>3. caller'[c].pc = "plan" /\ caller'[c].task = u
        BY <1>0, <4>2, GotoFrame
      <4> QED
        BY <4>1, <4>2, <4>3
    <3>2. CASE PlanFails(c) \/ Finish(c)
      BY <1>0, <3>2, ReturnFrame DEF PlanFails, Finish, bounds
    <3> QED
      BY <1>1, <3>1, <3>2
  <2> QED
    BY <1>0, <2>1, <2>2, StatusAlike, AlikeStep
<1>2. CASE UsePlan(c)
  <2>1. /\ UNCHANGED <<task, approvals, policy, effects, crashes>> /\ caller[c].pc = "plan"
        /\ caller'[c].pc = "loop" /\ caller'[c].task = task
    BY <1>0, <1>2, GotoFrame DEF UsePlan, bounds, Reading
  <2> QED
    BY <1>0, <2>1, AlikeStep DEF Alike, Reading
<1>3. CASE MakePlan(c)
  <2>1. PICK p \in Plans : /\ task' = [t EXCEPT !.planned = TRUE, !.plan = Truncate(p)]
                           /\ Goto(c, "loop", task')
    BY <1>0, <1>3 DEF MakePlan, Reading
  <2>2. /\ UNCHANGED <<approvals, policy, effects, crashes>> /\ caller[c].pc = "plan" /\ ~t.planned
        /\ caller'[c].pc = "loop" /\ caller'[c].task = task'
    BY <1>0, <1>3, <2>1, GotoFrame DEF MakePlan, bounds, Reading
  <2>3. /\ task'.status = t.status /\ task'.planned = TRUE /\ task'.plan = Truncate(p)
        /\ task'.cursor = t.cursor /\ task'.pendingStep = t.pendingStep /\ task'.steps = t.steps
    BY <1>0, <2>1 DEF Task
  <2>4. t.plan = <<>> /\ t.cursor \in Nat /\ ~HasNext(t)
    BY <1>0, <2>2 DEF TaskInv, HasNext, Task
  <2>5. PendingIn(approvals) = {} /\ t.pendingStep = NoStep
    BY <1>0, <2>4 DEF AskedInv, TaskInv
  <2>6. TaskInv(task', policy)
    BY <1>0, <2>2, <2>3, <2>5 DEF TaskInv, Reading
  <2>7. ASSUME crashes = 0 PROVE Recorded(task')
    <3>1. Recorded(t) /\ t.steps \in Seq(StepRecord)
      BY <2>7, Facts DEF Task
    <3>2. t.steps = <<>>
      BY <2>4, <3>1 DEF Recorded
    <3> QED
      BY <2>3, <3>1, <3>2 DEF Recorded
  <2>8. HoldsInv(caller'[c], task', approvals, policy) /\ WaitsInv(caller'[c], task', approvals)
    BY <1>0, <2>2, <2>3, <2>5 DEF HoldsInv, WaitsInv, Answered, Reading
  <2>9. AskedInv(approvals, task', policy)
    BY <2>5 DEF AskedInv
  <2> QED
    BY <2>2, <2>6, <2>7, <2>8, <2>9, AloneStep, Facts
<1>4. CASE RequestApproval(c)
  <2> DEFINE s == NextStep(t)
  <2>1. /\ UNCHANGED <<task, policy, effects, crashes>> /\ caller[c].task = t /\ t.status # "absent"
        /\ HasNext(t) /\ GatedBy(policy, s) /\ caller[c].pc = "loop"
    BY <1>0, <1>4 DEF RequestApproval, Reading, NeedsApproval, GatedBy, bounds
  <2>2. PICK a : PauseFor(c, a)
    BY <1>4 DEF RequestApproval
  <2>3. caller'[c].pc = "pause" /\ caller'[c].task = t
    BY <1>0, <2>1, <2>2 DEF PauseFor, TypeOK, CallerState
  <2>4. HoldsInv(caller'[c], t, approvals', policy) /\ WaitsInv(caller'[c], t, approvals')
    BY <2>1, <2>3 DEF HoldsInv, WaitsInv, Answered
  <2>5. AskedInv(approvals', t, policy) /\ CoversIn(effects, approvals')
    <3>1. CASE UNCHANGED approvals
      BY <3>1, Facts
    <3>2. CASE Reusable(s) = {} /\ approvals' = Append(approvals, [status |-> "pending", step |-> s])
      <4>1. PendingIn(approvals) = {}
        BY <1>0, <3>2 DEF AskedInv, Reusable, Pending, PendingIn
      <4> DEFINE n == Len(approvals) + 1
      <4>2. /\ DOMAIN approvals' = DOMAIN approvals \cup {n}
            /\ approvals'[n] = [status |-> "pending", step |-> s]
            /\ \A b \in DOMAIN approvals : approvals'[b] = approvals[b]
        BY <3>2, Facts
      <4> HIDE DEF n
      <4>3. \A b \in PendingIn(approvals') : b = n
        BY <4>1, <4>2 DEF PendingIn
      <4> QED
        BY <2>1, <4>2, <4>3, Facts DEF AskedInv, CoversIn
    <3> QED
      BY <1>4, <2>1, <3>1, <3>2 DEF RequestApproval
  <2> QED
    BY <2>1, <2>4, <2>5, AloneStep, Facts
<1>5. CASE Pause(c)
  <2>1. /\ UNCHANGED <<approvals, policy, effects, crashes>> /\ caller'[c].pc = "idle"
        /\ HasNext(t) /\ GatedBy(policy, NextStep(t))
        /\ task' = [t EXCEPT !.status = "requires_approval", !.pendingApproval = caller[c].approval,
                             !.pendingStep = NextStep(t)]
    BY <1>0, <1>5, ReturnFrame DEF Pause, bounds, Reading, HoldsInv
  <2>2. NextStep(t) \in Step
    BY <1>0, <2>1, NextStepType
  <2>3. /\ task'.status = "requires_approval" /\ task'.planned = t.planned /\ task'.plan = t.plan
        /\ task'.cursor = t.cursor /\ task'.pendingStep = NextStep(t) /\ task'.steps = t.steps
    BY <1>0, <2>1 DEF Task
  <2>4. TaskInv(task', policy) /\ AskedInv(approvals, task', policy) /\ (Recorded(t) => Recorded(task'))
    BY <1>0, <2>1, <2>3 DEF TaskInv, AskedInv, HasNext, NextStep, Recorded
  <2>5. HoldsInv(caller'[c], task', approvals, policy) /\ WaitsInv(caller'[c], task', approvals)
    BY <2>1, <2>2, <2>3, StepAssumption DEF HoldsInv, WaitsInv, Reading, Answered
  <2> QED
    BY <2>1, <2>4, <2>5, AloneStep, Facts
<1>6. CASE DenyByPolicy(c)
  <2>1. PICK no \in BOOLEAN : task' = Record(t, NextStep(t), "deny", no)
    BY <1>0, <1>6 DEF DenyByPolicy, Reading
  <2>2. /\ UNCHANGED <<approvals, policy, effects, crashes>> /\ HasNext(t) /\ policy[NextStep(t)] = "deny"
        /\ t.status # "absent" /\ caller'[c].pc = "loop" /\ caller'[c].task = task'
    <3>1. /\ UNCHANGED <<approvals, policy, effects, crashes>> /\ caller[c].pc = "loop"
          /\ HasNext(caller[c].task) /\ policy[NextStep(caller[c].task)] = "deny" /\ Goto(c, "loop", task')
      BY <1>6 DEF DenyByPolicy, bounds
    <3>2. caller[c].task = t /\ t.status # "absent"
      BY <1>0, <3>1 DEF Reading
    <3>3. caller'[c].pc = "loop" /\ caller'[c].task = task'
      BY <1>0, <3>1, GotoFrame
    <3> QED
      BY <3>1, <3>2, <3>3
  <2>3. PendingIn(approvals) = {} /\ t.pendingStep = NoStep
    BY <1>0, <2>2 DEF AskedInv, TaskInv, GatedBy
  <2>4. Passes(t, task')
    <3>1. NextStep(t) \in Step
      BY <1>0, <2>2, NextStepType
    <3>2. /\ task' \in Task /\ task'.status = t.status /\ task'.planned = t.planned /\ task'.plan = t.plan
          /\ task'.cursor = t.cursor + 1 /\ task'.pendingStep = t.pendingStep
      BY <1>0, <2>1, <3>1, RecordFields
    <3> QED
      BY <2>2, <2>3, <3>2 DEF Passes
  <2>5. crashes = 0 => Recorded(task')
    BY <1>0, <2>1, <2>2, RecordFollows, Facts
  <2> QED
    BY <2>2, <2>3, <2>4, <2>5, PassStep
<1>7. CASE Execute(c)
  <2>1. PICK ok \in BOOLEAN : Goto(c, "record", Executed(t, ok))
    BY <1>0, <1>7 DEF Execute, Reading, Executed
  <2>2. PICK f : effects' = Append(effects, f) /\ f.gated = FALSE
    BY <1>7 DEF Execute, MayExecute
  <2>3. /\ UNCHANGED <<task, approvals, policy, crashes>> /\ HasNext(t) /\ ~GatedBy(policy, NextStep(t))
        /\ t.status # "absent" /\ caller'[c].pc = "record" /\ caller'[c].task = Executed(t, ok)
    BY <1>0, <1>7, <2>1, GotoFrame DEF Execute, bounds, Reading, MayExecute, NeedsApproval, GatedBy
  <2>4. PendingIn(approvals) = {}
    BY <1>0, <2>3 DEF AskedInv
  <2>5. HoldsInv(caller'[c], t, approvals, policy) /\ WaitsInv(caller'[c], t, approvals)
    BY <2>3, <2>4 DEF HoldsInv, WaitsInv, Reading
  <2>6. CoversIn(effects', approvals)
    <3>1. /\ DOMAIN effects' = DOMAIN effects \cup {Len(effects) + 1} /\ effects'[Len(effects) + 1] = f
          /\ \A i \in DOMAIN effects : effects'[i] = effects[i]
      BY <2>2, Facts
    <3> QED
      BY <2>2, <3>1, Facts DEF CoversIn
  <2> QED
    BY <2>3, <2>5, <2>6, AloneStep, Facts
<1>8. CASE RecordStep(c)
  <2>1. PICK ok \in BOOLEAN : HasNext(t) /\ caller[c].task = Executed(t, ok)
    BY <1>0, <1>8 DEF RecordStep, HoldsInv
  <2>2. /\ UNCHANGED <<approvals, policy, effects, crashes>> /\ task' = Executed(t, ok)
        /\ caller'[c].pc = "loop" /\ caller'[c].task = task' /\ caller[c].pc = "record"
    BY <1>0, <1>8, <2>1, GotoFrame DEF RecordStep, bounds
  <2>3. PendingIn(approvals) = {} /\ t.status # "absent"
    BY <1>0, <2>2 DEF HoldsInv, Answered
  <2>4. Passes(t, task') /\ (crashes = 0 => Recorded(task'))
    BY <1>0, <2>1, <2>2, <2>3, CopiesPass, Facts
  <2> QED
    BY <2>2, <2>3, <2>4, PassStep
<1> QED
  BY <1>1, <1>2, <1>3, <1>4, <1>5, <1>6, <1>7, <1>8 DEF Run

LEMMA ApplyAlone ==
  ASSUME Alone, AloneInv, NEW c \in Caller, Apply(c), TypeOK', PausesAtAStep'
  PROVE  AloneInv'
<1> DEFINE t == task
<1>0. /\ TypeOK /\ t \in Task /\ HoldsInv(caller[c], t, approvals, policy)
      /\ TaskInv(t, policy) /\ AskedInv(approvals, t, policy)
      /\ caller[c].pc # "idle" => t.status # "absent"
      /\ caller[c].pc \in Reading => caller[c].task = t
      /\ caller[c].pc \in Answered => PendingIn(approvals) = {}
      /\ t.pendingStep # NoStep => t.pendingStep \in Step /\ HasNext(t) /\ NextStep(t) = t.pendingStep
  BY Facts DEF HoldsInv, TaskInv
<1>1. CASE LoadApproved(c)
  <2>1. /\ UNCHANGED <<task, approvals, policy, effects, crashes>> /\ caller[c].pc = "load_approved"
        /\ caller'[c].pc = "resume" /\ caller'[c].task = t /\ caller'[c].approval = caller[c].approval
    BY <1>0, <1>1, GotoFrame DEF LoadApproved, bounds
  <2>2. HoldsInv(caller'[c], t, approvals, policy)
    BY <1>0, <2>1 DEF HoldsInv, Answered
  <2>3. WaitsInv(caller'[c], t, approvals)
    BY <1>0, <2>1 DEF WaitsInv, Answered
  <2> QED
    BY <2>1, <2>2, <2>3, AloneStep, Facts
<1>2. CASE ResumeNothing(c)
  <2>1. /\ UNCHANGED <<task, approvals, policy, effects, crashes>> /\ caller[c].pc = "resume"
        /\ caller'[c].pc = "begin" /\ caller'[c].task = t
    BY <1>0, <1>2, GotoFrame DEF ResumeNothing, bounds, Reading
  <2> QED
    BY <1>0, <2>1, AlikeStep DEF Alike
<1>3. CASE CancelSave(c)
  <2>1. /\ UNCHANGED <<approvals, policy, effects, crashes>> /\ caller[c].pc = "cancel"
        /\ caller'[c].pc = "idle" /\ task' = [t EXCEPT !.status = "cancelled"]
    BY <1>0, <1>3, ReturnFrame DEF CancelSave, bounds, Reading
  <2>2. Alike(t, task')
    BY <1>0, <2>1, StatusAlike DEF Status
  <2> QED
    BY <2>1, <2>2, AlikeStep
<1>4. ASSUME caller[c].pc = "resume", Positions(t, t.pendingStep) # {}
      PROVE  t.pendingStep # NoStep /\ policy[t.pendingStep] # "deny"
  <2>1. t.pendingStep \in Step
    BY <1>0, <1>4 DEF Positions, Task
  <2> QED
    BY <1>0, <2>1, StepAssumption DEF TaskInv, GatedBy
<1>5. CASE ResumeDenied(c)
  BY <1>0, <1>4, <1>5 DEF ResumeDenied, Reading
<1>6. CASE ExecuteApproved(c)
  <2>1. PICK ok \in BOOLEAN : Goto(c, "record_approved", Resumed(t, ok))
    BY <1>0, <1>6 DEF ExecuteApproved, Reading, Resumed
  <2>2. PICK f : effects' = Append(effects, f) /\ f.approval = caller[c].approval /\ f.step = t.pendingStep
    BY <1>0, <1>6 DEF ExecuteApproved, Reading
  <2>3. /\ UNCHANGED <<task, approvals, policy, crashes>> /\ caller[c].pc = "resume"
        /\ Positions(t, t.pendingStep) # {}
        /\ caller'[c].pc = "record_approved" /\ caller'[c].task = Resumed(t, ok)
    BY <1>0, <1>6, <2>1, GotoFrame DEF ExecuteApproved, bounds, Reading
  <2>4. t.pendingStep # NoStep
    BY <1>4, <2>3
  <2>5. HoldsInv(caller'[c], t, approvals, policy)
    BY <1>0, <2>3, <2>4 DEF HoldsInv, Answered, Reading
  <2>6. WaitsInv(caller'[c], t, approvals)
    BY <1>0, <2>3 DEF WaitsInv, Answered
  <2>7. CoversIn(effects', approvals)
    <3>1. /\ DOMAIN effects' = DOMAIN effects \cup {Len(effects) + 1} /\ effects'[Len(effects) + 1] = f
          /\ \A i \in DOMAIN effects : effects'[i] = effects[i]
      BY <2>2, Facts
    <3>2. f.approval \in DOMAIN approvals /\ approvals[f.approval].step = f.step
      BY <1>0, <2>2, <2>3, <2>4 DEF HoldsInv
    <3> QED
      BY <3>1, <3>2, Facts DEF CoversIn
  <2> QED
    BY <2>3, <2>5, <2>6, <2>7, AloneStep, Facts
<1>7. CASE RecordApproved(c)
  <2>1. PICK ok \in BOOLEAN : t.pendingStep # NoStep /\ caller[c].task = Resumed(t, ok)
    BY <1>0, <1>7 DEF RecordApproved, HoldsInv
  <2>2. /\ UNCHANGED <<approvals, policy, effects, crashes>> /\ task' = Resumed(t, ok)
        /\ caller'[c].pc = "begin" /\ caller'[c].task = task' /\ caller[c].pc = "record_approved"
    BY <1>0, <1>7, <2>1, GotoFrame DEF RecordApproved, bounds
  <2>3. Passes(t, task') /\ (crashes = 0 => Recorded(task'))
    BY <1>0, <2>1, <2>2, CopiesPass, Facts
  <2> QED
    BY <1>0, <2>2, <2>3, PassStep DEF Answered
<1>8. CASE LoadDenied(c)
  <2>1. /\ UNCHANGED <<task, approvals, policy, effects, crashes>> /\ caller[c].pc = "load_denied"
        /\ caller'[c].pc = "record_denied" /\ caller'[c].task = Refused(t)
    BY <1>0, <1>8, GotoFrame DEF LoadDenied, bounds, Refused
  <2>2. HoldsInv(caller'[c], t, approvals, policy)
    BY <1>0, <2>1 DEF HoldsInv, Answered, Reading
  <2>3. crashes = 0 => WaitsInv(caller'[c], t, approvals)
    BY <1>0, <2>1, Facts DEF WaitsInv, Answered
  <2> QED
    BY <2>1, <2>2, <2>3, AloneStep, Facts
<1>9. CASE RecordDenied(c)
  <2>1. /\ UNCHANGED <<approvals, policy, effects, crashes>> /\ task' = Refused(t)
        /\ caller'[c].pc = "begin" /\ caller'[c].task = task' /\ caller[c].pc = "record_denied"
    BY <1>0, <1>9, GotoFrame DEF RecordDenied, bounds, HoldsInv
  <2>2. crashes = 0 => t.pendingStep # NoStep /\ Recorded(t)
    BY <2>1, Facts DEF WaitsInv
  <2>3. Passes(t, task') /\ (crashes = 0 => Recorded(task'))
    BY <1>0, <2>1, <2>2, RefusedPasses
  <2> QED
    BY <1>0, <2>1, <2>3, PassStep DEF Answered
<1> QED
  BY <1>1, <1>2, <1>3, <1>5, <1>6, <1>7, <1>8, <1>9 DEF Apply

LEMMA CrashAlone ==
  ASSUME Alone, AloneInv, NEW c \in Caller, Crash(c), TypeOK', PausesAtAStep'
  PROVE  AloneInv'
<1>1. /\ UNCHANGED <<task, approvals, policy, effects>> /\ caller'[c].pc = "idle" /\ crashes' = crashes + 1
  BY Facts, ReturnFrame DEF Crash
<1>2. crashes' # 0
  BY <1>1, Facts DEF TypeOK
<1>3. HoldsInv(caller'[c], task', approvals', policy')
  BY <1>1 DEF HoldsInv, Reading, Answered
<1> QED
  BY <1>1, <1>2, <1>3, AloneStep, Facts

\* The invariant is inductive.
LEMMA AloneHolds == ASSUME Alone PROVE Spec => []AloneInv
<1>1. Init => AloneInv
  <2> SUFFICES ASSUME Init PROVE AloneInv
    OBVIOUS
  <2>1. TypeOK /\ PausesAtAStep
    <3>1. policy \in [Step -> Decision]
      BY StepAssumption DEF Init
    <3> QED
      BY <3>1, NoTaskType, IdleType DEF Init, TypeOK, PausesAtAStep, Idle
  <2>2. /\ task = NoTask /\ approvals = <<>> /\ effects = <<>> /\ \A c \in Caller : caller[c].pc = "idle"
    BY DEF Init, Idle
  <2>3. PendingIn(approvals) = {}
    BY <2>2 DEF PendingIn
  <2>4. TaskInv(task, policy) /\ Recorded(task) /\ AskedInv(approvals, task, policy) /\ CoversIn(effects, approvals)
    BY <2>2, <2>3 DEF TaskInv, Recorded, AskedInv, CoversIn, NoTask
  <2>5. \A c \in Caller : HoldsInv(caller[c], task, approvals, policy) /\ WaitsInv(caller[c], task, approvals)
    BY <2>2, <2>3 DEF HoldsInv, WaitsInv, Reading, Answered
  <2> QED
    BY <2>1, <2>4, <2>5 DEF AloneInv
<1>2. AloneInv /\ [Next]_vars => AloneInv'
  <2> SUFFICES ASSUME AloneInv, [Next]_vars PROVE AloneInv'
    OBVIOUS
  <2>1. TypeOK' /\ PausesAtAStep'
    BY StepTypes
  <2>2. ASSUME NEW c \in Caller, Call(c) \/ Run(c) \/ Apply(c) \/ Crash(c) PROVE AloneInv'
    BY <2>1, <2>2, CallAlone, RunAlone, ApplyAlone, CrashAlone
  <2>3. CASE Reload
    BY <2>3 DEF Reload, Alone, AloneInv, TypeOK
  <2>4. CASE UNCHANGED vars
    BY <2>1, <2>4 DEF vars, AloneInv
  <2> QED
    BY <2>2, <2>3, <2>4 DEF Next, Quiescent
<1> QED
  BY <1>1, <1>2, PTL DEF Spec

-----------------------------------------------------------------------------
(* The effects: in the order of the plan, and again only after a crash. *)

Saving == {"record", "record_approved"}
PosIn(fx) == {fx[i].pos : i \in DOMAIN fx}
Again(fx) == Len(fx) - Cardinality(PosIn(fx))
DistinctIn(p) == \A i, j \in DOMAIN p : p[i] = p[j] => i = j

\* An effect at the cursor that nobody is about to save was lost in a crash.
Lost(t, fx, pcs) == IF pcs \cap Saving # {} \/ t.cursor + 1 \notin PosIn(fx) THEN 0 ELSE 1

OrderedIn(t, fx, pcs, n) ==
  /\ \A i, j \in DOMAIN fx : i < j => fx[i].pos <= fx[j].pos
  /\ \A i \in DOMAIN fx : fx[i].pos <= t.cursor + 1
  /\ Again(fx) + Lost(t, fx, pcs) <= n

OrderInv == DistinctIn(task.plan) /\ OrderedIn(task, effects, {caller[c].pc : c \in Caller}, crashes)

\* How a caller's step moves the task and the effects.
Stays(c) == /\ UNCHANGED <<effects, crashes>> /\ {caller[c].pc, caller'[c].pc} \cap Saving = {}
            /\ task'.cursor = task.cursor
            /\ task'.plan = task.plan \/ \E p \in Plans : task'.plan = Truncate(p)
Moves(c) == /\ UNCHANGED <<effects, crashes>> /\ caller'[c].pc \notin Saving
            /\ task'.cursor = task.cursor + 1 /\ task'.plan = task.plan
Acts(c) == /\ UNCHANGED <<task, crashes>> /\ caller[c].pc \notin Saving /\ caller'[c].pc \in Saving
           /\ HasNext(task)
           /\ \E f \in Effect : /\ effects' = Append(effects, f) /\ f.pos \in DOMAIN task.plan
                               /\ task.plan[f.pos] = NextStep(task)

LEMMA CallStays ==
  ASSUME Alone, AloneInv, NEW c \in Caller, Call(c)
  PROVE  Stays(c)
<1>1. PICK pc \in {"begin", "cancel", "load_approved", "load_denied"} : \E t, a : NewCall(c, pc, t, a)
  BY DEF Call, Submit, Approve, Deny, Resume, RunAgain, Cancel, Decide
<1>2. PICK t, a : NewCall(c, pc, t, a)
  BY <1>1
<1>3. UNCHANGED <<effects, crashes>> /\ caller[c].pc = "idle" /\ caller'[c].pc = pc
  BY <1>2, NewCallFrame, Facts DEF NewCall
<1>4. task'.cursor = task.cursor /\ task'.plan = task.plan
  <2>1. CASE Submit(c)
    BY <2>1, Facts DEF Submit, TaskInv, NoTask
  <2>2. CASE ~Submit(c)
    BY <2>2 DEF Call, Approve, Deny, Resume, RunAgain, Cancel, Decide
  <2> QED
    BY <2>1, <2>2
<1> QED
  BY <1>3, <1>4 DEF Stays, Saving

LEMMA RunMovesAlone ==
  ASSUME Alone, AloneInv, NEW c \in Caller, Run(c)
  PROVE  Stays(c) \/ Moves(c) \/ Acts(c)
<1> DEFINE t == task
<1>0. /\ TypeOK /\ t \in Task /\ HoldsInv(caller[c], t, approvals, policy)
      /\ caller[c].pc \in Reading => caller[c].task = t /\ t.status # "absent"
      /\ caller[c].call \in Nat
  BY Facts DEF HoldsInv, Reading
<1>1. CASE Begin(c) \/ UsePlan(c) \/ MakePlan(c) \/ PlanFails(c) \/ Finish(c) \/ Pause(c)
  <2>1. /\ UNCHANGED <<effects, crashes>> /\ caller[c].pc \in Reading
        /\ Return(c) \/ \E u : Goto(c, "plan", u) \/ Goto(c, "loop", u)
    BY <1>1 DEF Begin, UsePlan, MakePlan, PlanFails, Finish, Pause, bounds, Reading
  <2>2. caller'[c].pc \in {"idle", "plan", "loop"}
    BY <1>0, <2>1, GotoFrame, ReturnFrame
  <2>3. /\ task'.cursor = t.cursor
        /\ task'.plan = t.plan \/ \E p \in Plans : task'.plan = Truncate(p)
    <3>1. caller[c].task = t /\ t \in Task
      BY <1>0, <2>1
    <3>2. \A st : LET u == [t EXCEPT !.status = st] IN u.cursor = t.cursor /\ u.plan = t.plan
      BY <3>1 DEF Task
    <3>3. CASE Begin(c) \/ PlanFails(c) \/ Finish(c)
      <4>1. PICK st : task' = [t EXCEPT !.status = st]
        BY <3>1, <3>3 DEF Begin, PlanFails, Finish
      <4> QED
        BY <3>2, <4>1
    <3>4. CASE UsePlan(c)
      BY <3>4 DEF UsePlan
    <3>5. CASE MakePlan(c)
      <4>1. PICK p \in Plans : task' = [t EXCEPT !.planned = TRUE, !.plan = Truncate(p)]
        BY <3>1, <3>5 DEF MakePlan
      <4> QED
        BY <3>1, <4>1 DEF Task
    <3>6. CASE Pause(c)
      <4>1. task' = [t EXCEPT !.status = "requires_approval", !.pendingApproval = caller[c].approval,
                              !.pendingStep = NextStep(t)]
        BY <3>1, <3>6 DEF Pause
      <4> QED
        BY <3>1, <4>1 DEF Task
    <3> QED
      BY <1>1, <3>3, <3>4, <3>5, <3>6
  <2> QED
    BY <2>1, <2>2, <2>3 DEF Stays, Saving, Reading
<1>2. CASE RequestApproval(c)
  <2>1. PICK a : PauseFor(c, a)
    BY <1>2 DEF RequestApproval
  <2>2. caller'[c].pc = "pause"
    BY <1>0, <2>1 DEF PauseFor, TypeOK, CallerState
  <2> QED
    BY <1>2, <2>2 DEF RequestApproval, Stays, Saving, bounds
<1>3. CASE DenyByPolicy(c)
  <2>1. PICK no \in BOOLEAN : task' = Record(t, NextStep(t), "deny", no)
    BY <1>0, <1>3 DEF DenyByPolicy, Reading
  <2>2. UNCHANGED <<effects, crashes>> /\ HasNext(t) /\ caller'[c].pc = "loop"
    BY <1>0, <1>3, GotoFrame DEF DenyByPolicy, bounds, Reading
  <2>3. task'.cursor = t.cursor + 1 /\ task'.plan = t.plan
    BY <1>0, <2>1, <2>2, RecordFields, NextStepType
  <2> QED
    BY <2>2, <2>3 DEF Moves, Saving
<1>4. CASE Execute(c)
  <2>1. /\ UNCHANGED <<task, crashes>> /\ caller[c].pc = "loop" /\ caller'[c].pc = "record" /\ HasNext(t)
    BY <1>0, <1>4, GotoFrame DEF Execute, bounds, Reading
  <2>2. PICK g \in BOOLEAN :
          effects' = Append(effects, [pos |-> t.cursor + 1, step |-> NextStep(t), call |-> caller[c].call,
                                      approval |-> 0, gated |-> g])
    BY <1>0, <1>4 DEF Execute, Reading, NeedsApproval
  <2>3. NextStep(t) \in Step /\ t.cursor + 1 \in Nat /\ t.cursor + 1 \in DOMAIN t.plan
    BY <1>0, <2>1, NextStepType DEF HasNext, Task
  <2>4. [pos |-> t.cursor + 1, step |-> NextStep(t), call |-> caller[c].call, approval |-> 0, gated |-> g] \in Effect
    BY <1>0, <2>3 DEF Effect
  <2> QED
    BY <2>1, <2>2, <2>3, <2>4 DEF Acts, Saving, NextStep
<1>5. CASE RecordStep(c)
  <2>1. PICK ok \in BOOLEAN : HasNext(t) /\ caller[c].task = Executed(t, ok)
    BY <1>0, <1>5 DEF RecordStep, HoldsInv
  <2>2. UNCHANGED <<effects, crashes>> /\ task' = Executed(t, ok) /\ caller'[c].pc = "loop" /\ t.status # "absent"
    BY <1>0, <1>5, <2>1, GotoFrame DEF RecordStep, bounds, HoldsInv
  <2>3. Passes(t, task')
    BY <1>0, <2>1, <2>2, CopiesPass
  <2> QED
    BY <2>2, <2>3 DEF Moves, Saving, Passes
<1> QED
  BY <1>1, <1>2, <1>3, <1>4, <1>5 DEF Run

LEMMA ApplyMovesAlone ==
  ASSUME Alone, AloneInv, NEW c \in Caller, Apply(c)
  PROVE  Stays(c) \/ Moves(c) \/ Acts(c)
<1> DEFINE t == task
<1>0. /\ TypeOK /\ t \in Task /\ HoldsInv(caller[c], t, approvals, policy)
      /\ caller[c].pc # "idle" => t.status # "absent"
      /\ caller[c].pc \in Reading => caller[c].task = t
      /\ caller[c].call \in Nat /\ caller[c].approval \in Nat
      /\ t.pendingStep # NoStep => t.pendingStep \in Step /\ HasNext(t) /\ NextStep(t) = t.pendingStep
                                  /\ GatedBy(policy, t.pendingStep)
  BY Facts DEF HoldsInv, TaskInv
<1>1. CASE LoadApproved(c) \/ LoadDenied(c) \/ ResumeNothing(c)
  <2>1. PICK pc \in {"resume", "record_denied", "begin"} : \E u : Goto(c, pc, u)
    BY <1>1 DEF LoadApproved, LoadDenied, ResumeNothing
  <2>2. UNCHANGED <<task, effects, crashes>> /\ caller[c].pc \notin Saving /\ caller'[c].pc = pc
    BY <1>0, <1>1, <2>1, GotoFrame DEF LoadApproved, LoadDenied, ResumeNothing, bounds, Saving
  <2> QED
    BY <2>2 DEF Stays, Saving
<1>2. CASE CancelSave(c)
  <2>1. /\ UNCHANGED <<effects, crashes>> /\ caller[c].pc = "cancel" /\ caller'[c].pc = "idle"
        /\ task' = [t EXCEPT !.status = "cancelled"]
    BY <1>0, <1>2, ReturnFrame DEF CancelSave, bounds, Reading
  <2>2. task'.cursor = t.cursor /\ task'.plan = t.plan
    BY <1>0, <2>1 DEF Task
  <2> QED
    BY <2>1, <2>2 DEF Stays, Saving
<1>3. ASSUME caller[c].pc = "resume", Positions(t, t.pendingStep) # {}
      PROVE  t.pendingStep # NoStep
  BY <1>0, <1>3, StepAssumption DEF Positions, Task
<1>4. CASE ResumeDenied(c)
  BY <1>0, <1>3, <1>4 DEF ResumeDenied, Reading, GatedBy
<1>5. CASE ExecuteApproved(c)
  <2>1. /\ UNCHANGED <<task, crashes>> /\ caller[c].pc = "resume" /\ caller'[c].pc = "record_approved"
        /\ Positions(t, t.pendingStep) # {}
    BY <1>0, <1>5, GotoFrame DEF ExecuteApproved, bounds, Reading
  <2>2. PICK i \in Positions(t, t.pendingStep), g \in BOOLEAN :
          effects' = Append(effects, [pos |-> i, step |-> t.pendingStep, call |-> caller[c].call,
                                      approval |-> caller[c].approval, gated |-> g])
    BY <1>0, <1>5 DEF ExecuteApproved, Reading, NeedsApproval
  <2>3. t.pendingStep \in Step /\ HasNext(t) /\ i \in DOMAIN t.plan /\ i \in Nat /\ t.plan[i] = NextStep(t)
    BY <1>0, <1>3, <2>1, <2>2 DEF Positions, Task
  <2>4. [pos |-> i, step |-> t.pendingStep, call |-> caller[c].call,
         approval |-> caller[c].approval, gated |-> g] \in Effect
    BY <1>0, <2>3 DEF Effect
  <2> QED
    BY <2>1, <2>2, <2>3, <2>4 DEF Acts, Saving
<1>6. CASE RecordApproved(c)
  <2>1. PICK ok \in BOOLEAN : t.pendingStep # NoStep /\ caller[c].task = Resumed(t, ok)
    BY <1>0, <1>6 DEF RecordApproved, HoldsInv
  <2>2. UNCHANGED <<effects, crashes>> /\ task' = Resumed(t, ok) /\ caller'[c].pc = "begin" /\ t.status # "absent"
    BY <1>0, <1>6, <2>1, GotoFrame DEF RecordApproved, bounds
  <2>3. Passes(t, task')
    BY <1>0, <2>1, <2>2, CopiesPass
  <2> QED
    BY <2>2, <2>3 DEF Moves, Saving, Passes
<1>7. CASE RecordDenied(c)
  <2>1. UNCHANGED <<effects, crashes>> /\ task' = Refused(t) /\ caller'[c].pc = "begin"
    BY <1>0, <1>7, GotoFrame DEF RecordDenied, bounds, HoldsInv
  <2>2. Passes(t, task')
    BY <1>0, <2>1, RefusedPasses
  <2> QED
    BY <2>1, <2>2 DEF Moves, Saving, Passes
<1> QED
  BY <1>1, <1>2, <1>4, <1>5, <1>6, <1>7 DEF Apply

\* A plan cut short is still distinct.
LEMMA TruncateDistinct ==
  ASSUME StepsAreDistinct, NEW p \in Plans
  PROVE  DistinctIn(Truncate(p))
<1>1. p \in Seq(Step) /\ MaxSteps \in Nat /\ DistinctIn(p)
  BY StepAssumption, BoundAssumption DEF StepsAreDistinct, DistinctIn
<1>2. CASE Len(p) > MaxSteps
  <2> DEFINE q == SubSeq(p, 1, MaxSteps)
  <2>1. DOMAIN q = 1..MaxSteps /\ \A i \in 1..MaxSteps : i \in DOMAIN p /\ q[i] = p[i]
    BY <1>1, <1>2
  <2>2. Truncate(p) = q
    BY <1>2 DEF Truncate
  <2> QED
    BY <1>1, <2>1, <2>2 DEF DistinctIn
<1> QED
  BY <1>1, <1>2 DEF Truncate

\* The positions are as many as a number says.
LEMMA PositionsAreFinite ==
  ASSUME NEW fx \in Seq(Effect)
  PROVE  IsFiniteSet(PosIn(fx)) /\ Cardinality(PosIn(fx)) \in Nat /\ Again(fx) \in Int
<1> DEFINE h == [i \in DOMAIN fx |-> fx[i].pos]
<1>1. IsFiniteSet(DOMAIN fx)
  BY FS_Interval
<1>2. h \in Surjection(DOMAIN fx, PosIn(fx))
  BY DEF Surjection, PosIn
<1>3. IsFiniteSet(PosIn(fx))
  BY <1>1, <1>2, FS_Surjection
<1> QED
  BY <1>3, FS_CardinalityType DEF Again

\* One more effect is one more position, or one more repetition.
LEMMA OneMorePosition ==
  ASSUME NEW fx \in Seq(Effect), NEW f \in Effect
  PROVE  /\ PosIn(Append(fx, f)) = PosIn(fx) \cup {f.pos}
         /\ Again(Append(fx, f)) = Again(fx) + (IF f.pos \in PosIn(fx) THEN 1 ELSE 0)
<1> DEFINE gx == Append(fx, f)
           n == Len(fx) + 1
<1>1. /\ Len(gx) = n /\ DOMAIN gx = DOMAIN fx \cup {n} /\ gx[n] = f /\ \A i \in DOMAIN fx : gx[i] = fx[i]
      /\ Len(fx) \in Nat
  OBVIOUS
<1> HIDE DEF gx, n
<1>2. PosIn(gx) = PosIn(fx) \cup {f.pos}
  BY <1>1 DEF PosIn
<1>3. IsFiniteSet(PosIn(fx)) /\ Cardinality(PosIn(fx)) \in Nat
  BY PositionsAreFinite
<1>4. Cardinality(PosIn(fx) \cup {f.pos}) =
        IF f.pos \in PosIn(fx) THEN Cardinality(PosIn(fx)) ELSE Cardinality(PosIn(fx)) + 1
  BY <1>3, FS_AddElement
<1>5. Again(gx) = Again(fx) + (IF f.pos \in PosIn(fx) THEN 1 ELSE 0)
  BY <1>1, <1>2, <1>3, <1>4 DEF Again, n
<1> QED
  BY <1>2, <1>5 DEF gx

LEMMA OrderStep ==
  ASSUME Alone, StepsAreDistinct, AloneInv, OrderInv, NEW c \in Caller, Stays(c) \/ Moves(c) \/ Acts(c)
  PROVE  OrderInv'
<1>s. /\ {caller[d].pc : d \in Caller} = {caller[c].pc}
      /\ {caller'[d].pc : d \in Caller} = {caller'[c].pc}
  <2>1. \A d \in Caller : d = c
    BY Facts
  <2> QED
    BY <2>1
<1>0. /\ effects \in Seq(Effect) /\ task \in Task /\ crashes \in Nat /\ Again(effects) \in Int
      /\ DistinctIn(task.plan) /\ OrderedIn(task, effects, {caller[c].pc}, crashes)
      /\ \A i \in DOMAIN effects : effects[i].pos \in Nat
      /\ task.cursor \in Nat
  <2>1. effects \in Seq(Effect) /\ \A i \in DOMAIN effects : effects[i] \in Effect
    BY Facts
  <2>2. Again(effects) \in Int
    BY <2>1, PositionsAreFinite
  <2> QED
    BY <1>s, <2>1, <2>2, Facts DEF OrderInv, TypeOK, Effect, Task
<1> SUFFICES DistinctIn(task'.plan) /\ OrderedIn(task', effects', {caller'[c].pc}, crashes')
  BY <1>s DEF OrderInv
<1>1. CASE Stays(c)
  <2>1. DistinctIn(task'.plan)
    BY <1>0, <1>1, TruncateDistinct DEF Stays
  <2>2. OrderedIn(task', effects', {caller'[c].pc}, crashes')
    BY <1>0, <1>1 DEF Stays, OrderedIn, Lost
  <2> QED
    BY <2>1, <2>2
<1>2. CASE Moves(c)
  <2>1. task'.cursor + 1 \notin PosIn(effects)
    BY <1>0, <1>2 DEF Moves, OrderedIn, PosIn
  <2>2. OrderedIn(task', effects', {caller'[c].pc}, crashes')
    BY <1>0, <1>2, <2>1 DEF Moves, OrderedIn, Lost
  <2> QED
    BY <1>0, <1>2, <2>2 DEF Moves
<1>3. CASE Acts(c)
  <2>1. PICK f \in Effect : /\ effects' = Append(effects, f) /\ f.pos \in DOMAIN task.plan
                            /\ task.plan[f.pos] = NextStep(task)
    BY <1>3 DEF Acts
  <2>2. task.cursor + 1 \in DOMAIN task.plan
    BY <1>0, <1>3 DEF Acts, HasNext, Task
  <2>3. f.pos = task.cursor + 1
    BY <1>0, <2>1, <2>2 DEF DistinctIn, NextStep
  <2>4. /\ DOMAIN effects' = DOMAIN effects \cup {Len(effects) + 1} /\ effects'[Len(effects) + 1] = f
        /\ \A i \in DOMAIN effects : effects'[i] = effects[i] /\ i < Len(effects) + 1
    BY <1>0, <2>1
  <2>5. /\ \A i, j \in DOMAIN effects' : i < j => effects'[i].pos <= effects'[j].pos
        /\ \A i \in DOMAIN effects' : effects'[i].pos <= task.cursor + 1
    BY <1>0, <2>3, <2>4 DEF OrderedIn
  <2>6. Again(effects') = Again(effects) + (IF task.cursor + 1 \in PosIn(effects) THEN 1 ELSE 0)
    BY <1>0, <2>1, <2>3, OneMorePosition
  <2>7. Again(effects') + 0 <= crashes
    BY <1>0, <1>3, <2>6 DEF OrderedIn, Lost, Acts
  <2>8. OrderedIn(task', effects', {caller'[c].pc}, crashes')
    BY <1>3, <2>5, <2>7 DEF OrderedIn, Lost, Acts
  <2> QED
    BY <1>0, <1>3, <2>8 DEF Acts
<1> QED
  BY <1>1, <1>2, <1>3

LEMMA CrashOrder ==
  ASSUME Alone, AloneInv, OrderInv, NEW c \in Caller, Crash(c)
  PROVE  OrderInv'
<1>1. UNCHANGED <<task, effects>> /\ crashes' = crashes + 1 /\ crashes \in Nat /\ Again(effects) \in Int
  BY Facts, PositionsAreFinite DEF Crash, TypeOK
<1>2. \A s, r : OrderedIn(task, effects, s, crashes) => OrderedIn(task, effects, r, crashes + 1)
  BY <1>1 DEF OrderedIn, Lost
<1> QED
  BY <1>1, <1>2, Facts DEF OrderInv

-----------------------------------------------------------------------------
(* Theorems *)

\* The step a human approved is the one that runs: approve executes the
\* step of the approval it was given (resume_after_approval).
THEOREM ApprovalsCoverEffects == ASSUME Alone PROVE Spec => []ApprovalCoversEffect
<1>1. AloneInv => ApprovalCoversEffect
  BY DEF AloneInv, CoversIn, ApprovalCoversEffect
<1> QED
  BY <1>1, AloneHolds, PTL

\* The run follows its plan: without a crash the records are those of the
\* first cursor steps; with crashes too, what a human is asked is what comes
\* next, and the effects are in the plan's order, one again only for a crash.
THEOREM RunsFollowTheirPlan == ASSUME Alone, StepsAreDistinct PROVE Spec => []RunFollowsPlan
<1>1. Init => OrderInv
  <2> SUFFICES ASSUME Init PROVE OrderInv
    OBVIOUS
  <2>1. task = NoTask /\ effects = <<>> /\ crashes = 0
    BY DEF Init
  <2>2. PosIn(effects) = {} /\ Again(effects) = 0
    BY <2>1, FS_EmptySet DEF PosIn, Again
  <2>3. DistinctIn(task.plan)
    BY <2>1 DEF NoTask, DistinctIn
  <2>4. \A b : OrderedIn(task, effects, b, crashes)
    BY <2>1, <2>2 DEF OrderedIn, Lost
  <2> QED
    BY <2>3, <2>4 DEF OrderInv
<1>2. AloneInv /\ OrderInv /\ [Next]_vars => OrderInv'
  <2> SUFFICES ASSUME AloneInv, OrderInv, [Next]_vars PROVE OrderInv'
    OBVIOUS
  <2>1. ASSUME NEW c \in Caller, Call(c) \/ Run(c) \/ Apply(c) PROVE OrderInv'
    BY <2>1, CallStays, RunMovesAlone, ApplyMovesAlone, OrderStep
  <2>2. ASSUME NEW c \in Caller, Crash(c) PROVE OrderInv'
    BY <2>2, CrashOrder
  <2>3. CASE Reload
    BY <2>3 DEF Reload, Alone, AloneInv, TypeOK
  <2>4. CASE UNCHANGED vars
    BY <2>4 DEF vars, OrderInv
  <2> QED
    BY <2>1, <2>2, <2>3, <2>4 DEF Next, Quiescent
<1>3. AloneInv => RecordsFollowPlan /\ PendingIsNext
  BY DEF AloneInv, Recorded, RecordsFollowPlan, AskedInv, PendingIsNext, Pending, PendingIn
<1>4. AloneInv /\ OrderInv => EffectsFollowPlan
  <2> SUFFICES ASSUME AloneInv, OrderInv PROVE EffectsFollowPlan
    OBVIOUS
  <2>1. PICK b : OrderedIn(task, effects, b, crashes)
    BY DEF OrderInv
  <2>2. Again(effects) \in Int /\ crashes \in Nat
    BY PositionsAreFinite DEF AloneInv, TypeOK
  <2> QED
    BY <2>1, <2>2 DEF OrderedIn, Lost, Again, PosIn, EffectsFollowPlan
<1> QED
  <2>1. Init /\ [][Next]_vars => [](AloneInv /\ OrderInv)
    BY <1>1, <1>2, AloneHolds, PTL DEF Spec
  <2>2. AloneInv /\ OrderInv => RunFollowsPlan
    BY <1>3, <1>4 DEF RunFollowsPlan
  <2> QED
    BY <2>1, <2>2, PTL DEF Spec
=============================================================================
