--------------------------- MODULE ChannelCommands ---------------------------
(***************************************************************************)
(* What the people of a channel ask for (gateway/service.py): tasks,       *)
(* decisions on approvals, by command or by button, their own attachments  *)
(* and files of the workspace.  That the sender is paired and within his   *)
(* rhythm is Messaging's; here he is known, and the principal the message  *)
(* was let in with is used until it is answered, while roles, areas,       *)
(* approvals and files change.                                             *)
(***************************************************************************)
EXTENDS Integers, Sequences, FiniteSets

CONSTANTS
  Caller, Sender, File,
  OutboundRoots,       \* the files below attachments.outbound_roots
  Area,                \* areas of agents, NoArea for an agent of none
  Required,            \* roles policies ask for
  Folk,                \* of each sender: the principals he may be
  MaxMessages, MaxChanges, MaxApprovals  \* bounds

VARIABLES
  config,              \* identity_required, and of the channel allow_decisions and allow_attachments
  people,              \* table principals: the one of each sender
  area,                \* the area of the agent that executes the tasks
  tasks,               \* the tasks of the channel, oldest first: whose they are and how they stand
  approvals,           \* table approvals, oldest first
  kept,                \* table gateway_attachments, oldest first: whose each is, and its task
  workspace,           \* the files: their size, or none
  screen,              \* the buttons each sender has in front of him: approvals
  caller,              \* each caller: the message it handles, and what it has read
  decided,             \* ghost: who decided, and what was known of him then
  told, left,          \* ghosts: attachments shown to whom; files sent, with the size they were checked with
  messages, changes

vars == <<config, people, area, tasks, approvals, kept, workspace, screen, caller, decided, told, left, messages, changes>>
ghosts == <<decided, told, left>>
bounds == <<messages, changes>>

ROLES == {"viewer", "operator", "approver", "auditor", "security_admin", "admin"}
ROLE_INHERITS == [admin |-> ROLES, security_admin |-> {"operator", "viewer"}, approver |-> {"operator", "viewer"},
                  auditor |-> {"viewer"}, operator |-> {"viewer"}, viewer |-> {}]
expand_roles(role) == {role} \cup ROLE_INHERITS[role]
Submits(person) == "operator" \in expand_roles(person.role)      \* task.submit
Decides(person) == "approver" \in expand_roles(person.role)      \* approval.decide
role_satisfies(role, required) == required \in expand_roles(role)

NoArea == ""
Person == [role : ROLES, areas : SUBSET (Area \ {NoArea}), active : BOOLEAN]
Commands == {"run", "aprovar", "recusar", "anexo", "arquivo"}
\* what a button may ask for, beyond what only shows something
INTERACTION_ACTIONS == {"aprovar", "recusar"}

Task == [by : Sender, status : {"completed", "failed", "requires_approval"}]
Approval == [task : Nat, status : {"pending", "approved", "denied"}, required : Required]
Somebody == CHOOSE s \in Sender : TRUE
NoFile == CHOOSE f \in File : TRUE
Idle == [at |-> "idle", s |-> Somebody, who |-> [role |-> "viewer", areas |-> {}, active |-> FALSE],
         command |-> "run", n |-> 0, file |-> NoFile, size |-> "none"]

TypeOK ==
  /\ config \in [identity_required : BOOLEAN, allow_decisions : BOOLEAN, allow_attachments : BOOLEAN]
  /\ people \in [Sender -> Person] /\ area \in Area
  /\ tasks \in Seq(Task) /\ approvals \in Seq(Approval)
  /\ \A a \in DOMAIN approvals : approvals[a].task \in DOMAIN tasks
  /\ kept \in Seq([of : Sender, task : 0..Len(tasks)])
  /\ workspace \in [File -> {"none", "small", "big"}]
  /\ screen \in [Sender -> SUBSET DOMAIN approvals]
  /\ caller \in [Caller -> [at : {"idle", "command", "choices", "authorize", "save", "resume", "send"}, s : Sender, who : Person,
                            command : Commands, n : Nat, file : File,
                            size : {"none", "small", "big"}]]
  /\ messages \in 0..MaxMessages /\ changes \in 0..MaxChanges

-----------------------------------------------------------------------------
Goto(c, at) == caller' = [caller EXCEPT ![c].at = at]
Return(c) == caller' = [caller EXCEPT ![c] = Idle]

\* handle_inbound: the principal of the sender is read, and is active.
Message(c, s, command, n, file) ==
  /\ caller[c].at = "idle" /\ messages < MaxMessages /\ people[s].active
  /\ messages' = messages + 1
  /\ caller' = [caller EXCEPT ![c] = [Idle EXCEPT !.at = "command", !.s = s, !.who = people[s],
                                                  !.command = command, !.n = n, !.file = file]]
  /\ UNCHANGED <<config, people, area, tasks, approvals, kept, workspace, screen, ghosts, changes>>

\* handle_interaction: a button is the command it stands for, whenever it is pressed.
Press(c, s) == \E a \in screen[s], action \in INTERACTION_ACTIONS : Message(c, s, action, a, NoFile)

-----------------------------------------------------------------------------
(* /run, and what is no command.                                           *)

Pending(t) == {a \in DOMAIN approvals : approvals[a].task = t /\ approvals[a].status = "pending"}

\* submit runs the task; it ends, or asks.  A file that came with the message is
\* kept before, and linked to the task afterwards.
Run(c) ==
  /\ caller[c].at = "command" /\ caller[c].command = "run"
  /\ \E file \in BOOLEAN :
       IF Submits(caller[c].who)
       THEN \E status \in {"completed", "failed", "requires_approval"}, required \in Required :
              /\ status = "requires_approval" => Len(approvals) < MaxApprovals
              /\ tasks' = Append(tasks, [by |-> caller[c].s, status |-> status])
              /\ approvals' = IF status = "requires_approval"
                              THEN Append(approvals, [task |-> Len(tasks'), status |-> "pending", required |-> required])
                              ELSE approvals
              /\ kept' = IF file THEN Append(kept, [of |-> caller[c].s, task |-> Len(tasks')]) ELSE kept
              /\ caller' = [caller EXCEPT ![c].at = "choices", ![c].n = Len(tasks')]
       ELSE /\ kept' = IF file THEN Append(kept, [of |-> caller[c].s, task |-> 0]) ELSE kept
            /\ Return(c)
            /\ UNCHANGED <<tasks, approvals>>
  /\ UNCHANGED <<config, people, area, workspace, screen, ghosts, bounds>>

\* _choices_for: buttons for what is pending by now.
Choices(c) ==
  /\ caller[c].at = "choices"
  /\ screen' = IF config.allow_decisions /\ config.allow_attachments /\ Decides(caller[c].who)
               THEN [screen EXCEPT ![caller[c].s] = @ \cup Pending(caller[c].n)]
               ELSE screen
  /\ Return(c)
  /\ UNCHANGED <<config, people, area, tasks, approvals, kept, workspace, ghosts, bounds>>

-----------------------------------------------------------------------------
(* /aprovar and /recusar.                                                  *)

\* What the channel asks for: of the principal the message came in with.
MayAsk_Channel(c) == config.allow_decisions      \* mutant: whoever may use the channel
MayAsk(c) == config.allow_decisions /\ Decides(caller[c].who)

Decide(c) ==
  /\ caller[c].at = "command" /\ caller[c].command \in {"aprovar", "recusar"}
  /\ IF MayAsk(c) /\ caller[c].n \in DOMAIN approvals THEN Goto(c, "authorize") ELSE Return(c)
  /\ UNCHANGED <<config, people, area, tasks, approvals, kept, workspace, screen, ghosts, bounds>>

in_area(person, a) == a = NoArea \/ person.areas = {} \/ person.role = "admin" \/ a \in person.areas

\* _authorize_decision: the principal is read again; one who is not active any
\* more is nobody, and nobody may decide as long as no identity is required.
Authorized_NoArea(person, required) ==    \* mutant: areas count only where an identity is required
  IF config.identity_required
  THEN person.active /\ in_area(person, area) /\ Decides(person) /\ role_satisfies(person.role, required)
  ELSE TRUE
Authorized_Asked(person, required) ==     \* mutant: the channel has asked for the permission
  /\ person.active => in_area(person, area)
  /\ config.identity_required => person.active
Authorized(person, required) ==
  /\ person.active => in_area(person, area)
  /\ config.identity_required => person.active /\ Decides(person) /\ role_satisfies(person.role, required)

Authorize(c) ==
  /\ caller[c].at = "authorize"
  /\ LET person == people[caller[c].s]
         required == approvals[caller[c].n].required
         record == [asked |-> caller[c].who, now |-> person, area |-> area, required |-> required]
     IN  IF Authorized(person, required)
         THEN Goto(c, "save") /\ decided' = decided \cup {record}
         ELSE Return(c) /\ UNCHANGED decided
  /\ UNCHANGED <<config, people, area, tasks, approvals, kept, workspace, screen, told, left, bounds>>

SaveDecision(c) ==
  /\ caller[c].at = "save"
  /\ approvals' = [approvals EXCEPT ![caller[c].n].status = IF caller[c].command = "aprovar" THEN "approved" ELSE "denied"]
  /\ Goto(c, "resume")
  /\ UNCHANGED <<config, people, area, tasks, kept, workspace, screen, ghosts, bounds>>

\* The task goes on (TaskEngine), and ends or asks again; what it raises is
\* answered with "não foi possível".
Resume(c) ==
  /\ caller[c].at = "resume"
  /\ LET t == approvals[caller[c].n].task
     IN  \E status \in {"completed", "failed", "requires_approval"}, required \in Required :
           /\ status = "requires_approval" => Len(approvals) < MaxApprovals
           /\ tasks' = [tasks EXCEPT ![t].status = status]
           /\ approvals' = IF status = "requires_approval"
                           THEN Append(approvals, [task |-> t, status |-> "pending", required |-> required])
                           ELSE approvals
  /\ Return(c)
  /\ UNCHANGED <<config, people, area, kept, workspace, screen, ghosts, bounds>>

-----------------------------------------------------------------------------
(* /anexo and /arquivo.                                                    *)

IsOwn_Channel(a, s) == TRUE               \* mutant: whoever knows the id
IsOwn(a, s) == kept[a].of = s

Attachment(c) ==
  /\ caller[c].at = "command" /\ caller[c].command = "anexo"
  /\ told' = IF caller[c].n \in DOMAIN kept /\ IsOwn(caller[c].n, caller[c].s)
             THEN told \cup {<<caller[c].n, caller[c].s>>} ELSE told
  /\ Return(c)
  /\ UNCHANGED <<config, people, area, tasks, approvals, kept, workspace, screen, decided, left, bounds>>

\* outbound: below a declared root, there, and not too big.
Outbound_Size(f) == workspace[f] = "small"          \* mutant: any file of the workspace
Outbound(f) == f \in OutboundRoots /\ workspace[f] = "small"

FileChecked(c) ==
  /\ caller[c].at = "command" /\ caller[c].command = "arquivo"
  /\ IF Outbound(caller[c].file)
     THEN caller' = [caller EXCEPT ![c].at = "send", ![c].size = workspace[caller[c].file]]
     ELSE Return(c)
  /\ UNCHANGED <<config, people, area, tasks, approvals, kept, workspace, screen, ghosts, bounds>>

\* deliver reads the file when it sends it; it may be another by then, or gone.
Deliver(c) ==
  /\ caller[c].at = "send"
  /\ LET f == caller[c].file
     IN  left' = IF workspace[f] = "none" THEN left
                 ELSE left \cup {[file |-> f, checked |-> caller[c].size, size |-> workspace[f]]}
  /\ Return(c)
  /\ UNCHANGED <<config, people, area, tasks, approvals, kept, workspace, screen, decided, told, bounds>>

-----------------------------------------------------------------------------
(* What happens meanwhile.                                                 *)

Change == changes < MaxChanges /\ changes' = changes + 1

\* set_roles, set_areas, set_status
ChangePerson ==
  /\ Change
  /\ \E s \in Sender : \E person \in Folk[s] \cup {[people[s] EXCEPT !.active = FALSE]} :
       person # people[s] /\ people' = [people EXCEPT ![s] = person]
  /\ UNCHANGED <<config, area, tasks, approvals, kept, workspace, screen, caller, ghosts, messages>>

\* register_agent: _task_area reads the agent as it is now.
ChangeArea ==
  /\ Change /\ area' \in Area \ {area}
  /\ UNCHANGED <<config, people, tasks, approvals, kept, workspace, screen, caller, ghosts, messages>>

\* Somebody decides at the console.
DecideElsewhere ==
  /\ Change
  /\ \E a \in DOMAIN approvals : /\ approvals[a].status = "pending"
                                 /\ approvals' = [approvals EXCEPT ![a].status = "denied"]
                                 /\ tasks' = [tasks EXCEPT ![approvals[a].task].status = "completed"]
  /\ UNCHANGED <<config, people, area, kept, workspace, screen, caller, ghosts, messages>>

\* Tasks write and remove files.
ChangeFile ==
  /\ Change
  /\ \E f \in File, size \in {"none", "small", "big"} : workspace[f] # size /\ workspace' = [workspace EXCEPT ![f] = size]
  /\ UNCHANGED <<config, people, area, tasks, approvals, kept, screen, caller, ghosts, messages>>

Init ==
  /\ config \in [identity_required : BOOLEAN, allow_decisions : BOOLEAN, allow_attachments : BOOLEAN]
  /\ people \in {f \in [Sender -> UNION {Folk[s] : s \in Sender}] : \A s \in Sender : f[s] \in Folk[s]}
  /\ area = NoArea
  /\ tasks = <<>> /\ approvals = <<>> /\ kept = <<>>
  /\ workspace = [f \in File |-> "small"]
  /\ screen = [s \in Sender |-> {}]
  /\ caller = [c \in Caller |-> Idle]
  /\ decided = {} /\ told = {} /\ left = {}
  /\ messages = 0 /\ changes = 0

Next == \/ \E c \in Caller :
             \/ \E s \in Sender :
                  \/ Message(c, s, "run", 0, NoFile) \/ Press(c, s)
                  \/ \E n \in 1..(Len(approvals) + 1), command \in {"aprovar", "recusar"} : Message(c, s, command, n, NoFile)
                  \/ \E n \in 1..(Len(kept) + 1) : Message(c, s, "anexo", n, NoFile)
                  \/ \E f \in File : Message(c, s, "arquivo", 0, f)
             \/ Run(c) \/ Choices(c)
             \/ Decide(c) \/ Authorize(c) \/ SaveDecision(c) \/ Resume(c)
             \/ Attachment(c) \/ FileChecked(c) \/ Deliver(c)
        \/ ChangePerson \/ ChangeArea \/ DecideElsewhere \/ ChangeFile

Spec == Init /\ [][Next]_vars

-----------------------------------------------------------------------------
\* Whatever was pressed or typed, and whatever changed since: a decision of the
\* channel was taken where the channel decides, by somebody who had come with
\* approval.decide and who, when he was asked who he is, reached the area of the
\* agent at work; where an identity is required he still had the permission, and
\* the role the policy wanted (service.py _decide, runtime.py _authorize_decision).
DecidedByThoseWhoMay ==
  \A d \in decided :
    /\ config.allow_decisions /\ Decides(d.asked)
    /\ d.now.active => d.area \in {NoArea} \cup d.now.areas \/ d.now.areas = {} \/ d.now.role = "admin"
    /\ config.identity_required => d.now.active /\ Decides(d.now) /\ role_satisfies(d.now.role, d.required)

\* Nobody is shown another's attachment, and what leaves the workspace is below
\* a declared root and was not too big when it was checked (_attachment, _file).
EachHisOwn ==
  /\ \A show \in told : kept[show[1]].of = show[2]
  /\ \A sent \in left : sent.file \in OutboundRoots /\ sent.checked = "small"
=============================================================================
