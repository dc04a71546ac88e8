----------------------------- MODULE Supervision ----------------------------
(***************************************************************************)
(* Tasks that hand work on: task.delegate (tools/builtins/delegate.py)     *)
(* creates a child, runs it inside the parent's own step and reviews the   *)
(* delivery; the coordinator (orchestration/coordination.py) passes a task *)
(* to another agent.  What one task does by itself is TaskEngine's; here a *)
(* task is its row, the plan it follows and the call stack it is run on.   *)
(***************************************************************************)
EXTENDS Integers, Sequences, FiniteSets

CONSTANTS
  Caller, Agent,
  MAX_DELEGATE_DEPTH, MAX_ROUNDS_CAP,
  MaxHandoffs,         \* coordination.max_handoffs
  MaxSteps,            \* of a plan
  MaxRoots, MaxTasks, MaxByHand, MaxMishaps, MaxOverlaps    \* bounds

VARIABLES
  tasks,               \* table tasks, oldest first
  open,                \* table approvals: the pending ones
  stack,               \* each caller: the runs it is in the middle of, innermost last
  delivered,           \* ghost: children whose delivery was returned to the parent
  handed,              \* ghost: how often a handoff of the task has returned
  byHand, mishaps, overlaps

vars == <<tasks, open, stack, delivered, handed, byHand, mishaps, overlaps>>
bounds == <<byHand, mishaps, overlaps>>

NoAgent == "none"
Id == 1..MaxTasks
Status == {"pending", "running", "requires_approval", "completed", "failed"}
Row == [parent : 0..MaxTasks, call : Nat, depth : Nat, status : Status, agent : Agent,
        planner : Agent \cup {NoAgent},    \* who made context["plan"]
        left : 0..MaxSteps,                \* the steps of the plan beyond the cursor
        handoffs : Nat]
Frame == [task : Id, row : Row, agent : Agent,
          at : {"begin", "plan", "loop", "create", "deepen", "child", "review", "decided", "handoff"},
          child : 0..MaxTasks, to : Agent, deep : Nat, rounds : 0..MAX_ROUNDS_CAP, limit : 0..MAX_ROUNDS_CAP]

TypeOK ==
  /\ tasks \in Seq(Row) /\ Len(tasks) <= MaxTasks
  /\ open \subseteq [task : Id, kind : {"step", "review"}]
  /\ stack \in [Caller -> Seq(Frame)]
  /\ delivered \subseteq Id
  /\ handed \in [Id -> Nat]
  /\ byHand \in 0..MaxByHand /\ mishaps \in 0..MaxMishaps /\ overlaps \in 0..MaxOverlaps

-----------------------------------------------------------------------------
NewTask(parent, call, a) == [parent |-> parent, call |-> call, depth |-> 0, status |-> "pending", agent |-> a,
                             planner |-> NoAgent, left |-> 0, handoffs |-> 0]
NewFrame(t, row, at) == [task |-> t, row |-> row, agent |-> row.agent, at |-> at,
                         child |-> 0, to |-> row.agent, deep |-> 0, rounds |-> 0, limit |-> 0]

Idle(c) == stack[c] = <<>>
Top(c) == stack[c][Len(stack[c])]
At(c, at) == ~Idle(c) /\ Top(c).at = at
Put(c, frame) == stack' = [stack EXCEPT ![c][Len(stack[c])] = frame]
Pop(c) == stack' = [stack EXCEPT ![c] = SubSeq(@, 1, Len(@) - 1)]
Save(t, row) == tasks' = [tasks EXCEPT ![t] = row]

InUse(t) == \E c \in Caller : \E i \in DOMAIN stack[c] : t \in {stack[c][i].task, stack[c][i].child}
Overlap(t) == /\ overlaps' = overlaps + (IF InUse(t) THEN 1 ELSE 0)
              /\ overlaps' <= MaxOverlaps

-----------------------------------------------------------------------------
(* AgentEngine.run, as far as it concerns others than the task.            *)
Submit(c) ==
  /\ Idle(c) /\ Len(tasks) < MaxTasks
  /\ Cardinality({t \in DOMAIN tasks : tasks[t].parent = 0}) < MaxRoots
  /\ \E a \in Agent :
       /\ tasks' = Append(tasks, NewTask(0, 0, a))
       /\ stack' = [stack EXCEPT ![c] = <<NewFrame(Len(tasks) + 1, NewTask(0, 0, a), "begin")>>]
  /\ UNCHANGED <<open, delivered, handed, bounds>>

\* `egr task run` of any task; what is done of its plan stays done.
RunByHand(c) ==
  /\ Idle(c) /\ byHand < MaxByHand
  /\ byHand' = byHand + 1
  /\ \E t \in DOMAIN tasks : /\ Overlap(t)
                             /\ stack' = [stack EXCEPT ![c] = <<NewFrame(t, tasks[t], "begin")>>]
  /\ UNCHANGED <<tasks, open, delivered, handed, mishaps>>

Begin(c) ==
  /\ At(c, "begin")
  /\ LET row == [Top(c).row EXCEPT !.status = "running"]
     IN  Save(Top(c).task, row) /\ Put(c, [Top(c) EXCEPT !.row = row, !.at = "plan"])
  /\ UNCHANGED <<open, delivered, handed, bounds>>

\* The plan that is there is used, whoever made it.
Plan(c) ==
  /\ At(c, "plan")
  /\ LET f == Top(c)
     IN  \E n \in 0..MaxSteps :
           LET row == IF f.row.planner # NoAgent THEN f.row
                      ELSE [f.row EXCEPT !.planner = f.agent, !.left = n]
           IN  /\ f.row.planner # NoAgent => n = 0
               /\ Save(f.task, row) /\ Put(c, [f EXCEPT !.row = row, !.at = "loop"])
  /\ UNCHANGED <<open, delivered, handed, bounds>>

Stepped(f) == [f EXCEPT !.row.left = @ - 1, !.at = "loop", !.child = 0]
\* A step is recorded, and the engine's copy of the row saved.
RecordStep(c) == Save(Top(c).task, Stepped(Top(c)).row) /\ Put(c, Stepped(Top(c)))

OtherStep(c) ==
  /\ At(c, "loop") /\ Top(c).row.left > 0
  /\ RecordStep(c)
  /\ UNCHANGED <<open, delivered, handed, bounds>>

Pause(c) ==
  /\ At(c, "loop") /\ Top(c).row.left > 0
  /\ open' = open \cup {[task |-> Top(c).task, kind |-> "step"]}
  /\ Save(Top(c).task, [Top(c).row EXCEPT !.status = "requires_approval"])
  /\ Pop(c)
  /\ UNCHANGED <<delivered, handed, bounds>>

Finish(c) ==
  /\ At(c, "loop") /\ Top(c).row.left = 0
  /\ \E status \in {"completed", "failed"} : Save(Top(c).task, [Top(c).row EXCEPT !.status = status])
  /\ Pop(c)
  /\ UNCHANGED <<open, delivered, handed, bounds>>

-----------------------------------------------------------------------------
(* DelegateTool.execute, called by a step of the plan.                     *)
DelegateAtAnyDepth(c) ==                        \* mutant: one level too many
  /\ At(c, "loop") /\ Top(c).row.left > 0
  /\ tasks[Top(c).task].depth <= MAX_DELEGATE_DEPTH
  /\ \E to \in Agent, limit \in 0..MAX_ROUNDS_CAP :
       Put(c, [Top(c) EXCEPT !.at = "create", !.to = to, !.limit = limit, !.rounds = 0,
                             !.deep = tasks[Top(c).task].depth + 1])
  /\ UNCHANGED <<tasks, open, delivered, handed, bounds>>

Delegate(c) ==
  /\ At(c, "loop") /\ Top(c).row.left > 0
  /\ tasks[Top(c).task].depth < MAX_DELEGATE_DEPTH
  /\ \E to \in Agent, limit \in 0..MAX_ROUNDS_CAP :
       Put(c, [Top(c) EXCEPT !.at = "create", !.to = to, !.limit = limit, !.rounds = 0,
                             !.deep = tasks[Top(c).task].depth + 1])
  /\ UNCHANGED <<tasks, open, delivered, handed, bounds>>

\* create saves the child; its depth is in a second save.
CreateChild(c) ==
  /\ At(c, "create") /\ Len(tasks) < MaxTasks
  /\ tasks' = Append(tasks, NewTask(Top(c).task, Top(c).row.left, Top(c).to))
  /\ Put(c, [Top(c) EXCEPT !.at = "deepen", !.child = Len(tasks) + 1])
  /\ UNCHANGED <<open, delivered, handed, bounds>>

Deepen(c) ==
  /\ At(c, "deepen")
  /\ LET f == Top(c)
         row == [NewTask(f.task, f.row.left, f.to) EXCEPT !.depth = f.deep]
     IN  /\ Save(f.child, row)
         /\ stack' = [stack EXCEPT ![c] = Append([@ EXCEPT ![Len(@)].at = "child"], NewFrame(f.child, row, "begin"))]
  /\ UNCHANGED <<open, delivered, handed, bounds>>

\* The child's run has returned, and its row is read again.  When it waits
\* for a human or has not completed, that is the result of the call.
ChildEnds(c) ==
  /\ At(c, "child")
  /\ IF tasks[Top(c).child].status = "completed"
     THEN Put(c, [Top(c) EXCEPT !.at = "review"]) /\ UNCHANGED tasks
     ELSE RecordStep(c)
  /\ UNCHANGED <<open, delivered, handed, bounds>>

\* An unreadable verdict, or none, is on_unclear: accept or escalate.
MoreRounds_OneMore(f) == f.rounds <= f.limit    \* mutant: compares after counting
MoreRounds(f) == f.rounds < f.limit

Revise(c) ==
  /\ At(c, "review") /\ MoreRounds(Top(c))
  /\ Put(c, [Top(c) EXCEPT !.at = "create", !.rounds = IF @ < MAX_ROUNDS_CAP THEN @ + 1 ELSE @])
  /\ UNCHANGED <<tasks, open, delivered, handed, bounds>>

Deliver(c) == /\ delivered' = delivered \cup {Top(c).child}
              /\ RecordStep(c)
              /\ UNCHANGED <<handed, bounds>>

Accept(c) == At(c, "review") /\ Deliver(c) /\ UNCHANGED open

\* Also when a revision is asked for and no round is left.
Escalate(c) == /\ At(c, "review") /\ Deliver(c)
               /\ open' = open \cup {[task |-> Top(c).child, kind |-> "review"]}

-----------------------------------------------------------------------------
(* EnterpriseRuntime.approve and deny: the decision is saved, and the task *)
(* read after it.  The verdict on a delivery moves no task.                *)
Resumes_Any(approval) == TRUE                   \* mutant: a verdict is taken for a pause
Resumes(approval) == approval.kind = "step"

Decide(c) ==
  /\ Idle(c)
  /\ \E a \in open :
       /\ open' = open \ {a}
       /\ Overlap(a.task)
       /\ stack' = IF Resumes(a) THEN [stack EXCEPT ![c] = <<NewFrame(a.task, tasks[a.task], "decided")>>] ELSE stack
  /\ UNCHANGED <<tasks, delivered, handed, byHand, mishaps>>

\* The step that waited was executed, or refused, and the engine goes on.
Resume(c) ==
  /\ At(c, "decided")
  /\ LET row == [Top(c).row EXCEPT !.status = "running", !.left = IF @ > 0 THEN @ - 1 ELSE @]
     IN  Save(Top(c).task, row) /\ Put(c, [Top(c) EXCEPT !.row = row, !.at = "begin"])
  /\ UNCHANGED <<open, delivered, handed, bounds>>

-----------------------------------------------------------------------------
(* Coordinator.handoff: read and check, then write the row back.           *)
Terminal(row) == row.status \in {"completed", "failed"}

MayHandOff_Late(row, to) == ~Terminal(row) /\ row.agent # to /\ row.handoffs <= MaxHandoffs  \* mutant: off by one
MayHandOff(row, to) == ~Terminal(row) /\ row.agent # to /\ row.handoffs < MaxHandoffs

Handoff(c) ==
  /\ Idle(c)
  /\ \E t \in DOMAIN tasks, to \in Agent :
       /\ MayHandOff(tasks[t], to)
       /\ Overlap(t)
       /\ stack' = [stack EXCEPT ![c] = <<[NewFrame(t, tasks[t], "handoff") EXCEPT !.to = to]>>]
  /\ UNCHANGED <<tasks, open, delivered, handed, byHand, mishaps>>

\* The plan, the pending step and its approval stay as they are.
HandoffSave(c) ==
  /\ At(c, "handoff")
  /\ LET f == Top(c)
     IN  /\ Save(f.task, [f.row EXCEPT !.agent = f.to, !.handoffs = @ + 1,
                                       !.status = IF @ = "requires_approval" THEN "pending" ELSE @])
         /\ handed' = [handed EXCEPT ![f.task] = @ + 1]
  /\ Pop(c)
  /\ UNCHANGED <<open, delivered, bounds>>

-----------------------------------------------------------------------------
\* The process dies, with everything on its stack.
Crash(c) ==
  /\ ~Idle(c) /\ mishaps < MaxMishaps
  /\ mishaps' = mishaps + 1
  /\ stack' = [stack EXCEPT ![c] = <<>>]
  /\ UNCHANGED <<tasks, open, delivered, handed, byHand, overlaps>>

Init == /\ tasks = <<>> /\ open = {} /\ stack = [c \in Caller |-> <<>>]
        /\ delivered = {} /\ handed = [t \in Id |-> 0]
        /\ byHand = 0 /\ mishaps = 0 /\ overlaps = 0

Next == \E c \in Caller :
          \/ Submit(c) \/ RunByHand(c)
          \/ Begin(c) \/ Plan(c) \/ OtherStep(c) \/ Pause(c) \/ Finish(c)
          \/ Delegate(c) \/ CreateChild(c) \/ Deepen(c) \/ ChildEnds(c)
          \/ Revise(c) \/ Accept(c) \/ Escalate(c)
          \/ Decide(c) \/ Resume(c)
          \/ Handoff(c) \/ HandoffSave(c)
          \/ Crash(c)

Spec == Init /\ [][Next]_vars

-----------------------------------------------------------------------------
\* Delegation ends: no task is more than MAX_DELEGATE_DEPTH delegations away
\* from one a human asked for (unless somebody ran a child whose depth was not
\* saved yet), and one call creates at most one child more than the rounds it
\* may ask for (delegate.py, ADR-062).
DelegationIsBounded ==
  /\ overlaps = 0 /\ mishaps = 0 =>
       \E away \in [DOMAIN tasks -> 0..MAX_DELEGATE_DEPTH] :
         \A t \in DOMAIN tasks : tasks[t].parent # 0 => away[t] > away[tasks[t].parent]
  /\ overlaps = 0 /\ mishaps = 0 /\ byHand = 0 =>
       \A t \in DOMAIN tasks : tasks[t].parent # 0 =>
         Cardinality({u \in DOMAIN tasks : tasks[u].parent = tasks[t].parent /\ tasks[u].call = tasks[t].call})
           <= MAX_ROUNDS_CAP + 1

\* What was delivered stays as it was delivered: no verdict, late handoff or
\* decision makes a completed child run again (runtime.py approve, deny).
DeliveryStands ==
  overlaps = 0 /\ byHand = 0 => \A t \in delivered : tasks[t].status = "completed"

\* While nobody else works on the task, every handoff that returned is in its
\* history, and there are no more of them than the limit.
HandoffsAreCounted ==
  overlaps = 0 => \A t \in DOMAIN tasks : tasks[t].handoffs = handed[t] /\ handed[t] <= MaxHandoffs

\* "o agente novo replaneja: a espera antiga não vale mais" (coordination.py):
\* whoever executes a step follows a plan of his own.
NewAgentReplans == \A c \in Caller : At(c, "loop") => Top(c).row.planner = Top(c).agent
=============================================================================
