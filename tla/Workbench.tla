------------------------------ MODULE Workbench -----------------------------
(***************************************************************************)
(* Change proposals (dev/workbench.py, dev/validators.py, dev/loader.py):  *)
(* an agent or a human proposes an artifact, the runtime verifies it, code *)
(* is tried out, a human approves, and apply writes the file and loads it. *)
(* Every operation reads the row of its proposal, works on the copy and    *)
(* saves the copy.                                                         *)
(***************************************************************************)
EXTENDS Integers, FiniteSets

CONSTANTS
  Caller, Proposal, Path,
  Target,              \* [Proposal -> Path]: target_for; tools of a namespace share a file
  Tool,                \* the proposals that are code
  Sound,               \* the proposals the static analysis finds nothing in
  MaxCalls, MaxMishaps, MaxOverlaps

ASSUME WorkbenchAssumption ==
  /\ Proposal # {} /\ Proposal \cap {"nothing", "own", "unwritten"} = {}
  /\ Target \in [Proposal -> Path]
  /\ {MaxCalls, MaxMishaps, MaxOverlaps} \subseteq Nat

VARIABLES
  proposals,           \* table change_proposals
  file,                \* the workspace: what is at each target
  history,             \* .egr/dev/history: what the application of a proposal backed up
  registry,            \* the code loaded from each target
  caller,              \* each caller: its operation, where it is in it, and its copy of the row
  approvals,           \* ghost: the copies of rows that were approved
  refused,             \* ghost: proposals whose rejection returned
  replaced,            \* ghost: what the first application of a proposal found at its target
  calls, mishaps, overlaps

vars == <<proposals, file, history, registry, caller, approvals, refused, replaced, calls, mishaps, overlaps>>
disk == <<file, history, registry>>
ghosts == <<approvals, refused, replaced>>
bounds == <<calls, mishaps, overlaps>>

Status == {"draft", "validated", "tested", "failed", "approved", "applied", "rejected"}
VALIDATABLE == {"draft", "validated", "failed", "tested"}
Verdict == {"none", "ok", "bad"}                    \* of checks and of the last trial
Row == [status : Status, checks : Verdict, trial : Verdict]
NoRow == [status |-> "none", checks |-> "none", trial |-> "none"]
Content == Proposal \cup {"nothing", "own"}         \* "own": what somebody wrote by hand

Operation == {"propose", "validate", "trial", "approve", "reject", "apply"}
Idle == [op |-> "validate", at |-> "idle", of |-> CHOOSE p \in Proposal : TRUE, row |-> NoRow]

TypeOK ==
  /\ proposals \in [Proposal -> Row \cup {NoRow}]
  /\ file \in [Path -> Content] /\ registry \in [Path -> Content]
  /\ history \in [Proposal -> Content] /\ replaced \in [Proposal -> Content \cup {"unwritten"}]
  /\ caller \in [Caller -> [op : Operation, at : {"idle", "load", "save", "backup", "write", "reload"},
                            of : Proposal, row : Row \cup {NoRow}]]
  /\ approvals \subseteq Proposal \X Row /\ refused \subseteq Proposal
  /\ calls \in 0..MaxCalls /\ mishaps \in 0..MaxMishaps /\ overlaps \in 0..MaxOverlaps

-----------------------------------------------------------------------------
(* What each operation asks of the row it reads.                           *)
MayApprove_Untried(p, row) == row.status \in {"validated", "tested"}    \* mutant: tools need no trial
MayApprove(p, row) == /\ row.status \in {"validated", "tested"}
                      /\ p \in Tool => row.trial = "ok"

MayReject_Always(row) == TRUE                                           \* mutant: reject looks at nothing
MayReject(row) == row.status # "applied"

MayApply(row) == row.status = "approved"

Permitted(op, p, row) ==
  \/ op = "validate" /\ row.status \notin {"applied", "rejected"}
  \/ op = "trial" /\ p \in Tool /\ row.status \in VALIDATABLE
  \/ op = "approve" /\ MayApprove(p, row)
  \/ op = "reject" /\ MayReject(row)
  \/ op = "apply" /\ MayApply(row)

(* What each operation makes of its copy.  The checks look at the content, *)
(* and at agents and artifacts that come and go.                           *)
Validated(p, row) ==
  {[row EXCEPT !.checks = c, !.status = IF c = "ok" THEN "validated" ELSE "failed"] :
     c \in IF p \in Sound THEN {"ok", "bad"} ELSE {"bad"}}
Tried(row) == {[row EXCEPT !.trial = t, !.status = IF t = "ok" THEN "tested" ELSE "failed"] : t \in {"ok", "bad"}}

Outcomes(op, p, row) ==
  CASE op = "validate" -> Validated(p, row)
    [] op = "trial"    -> Tried(row)
    [] op = "approve"  -> {[row EXCEPT !.status = "approved"]}
    [] op = "reject"   -> {[row EXCEPT !.status = "rejected"]}
    [] op = "apply"    -> {[row EXCEPT !.status = "applied"]}

\* load_tool_dir reads every file again: what the analysis refuses is not
\* loaded, and what was loaded from that file before stays.
Loadable_Any(path) == file[path] \in Tool                               \* mutant: what is on disk is trusted
Loadable(path) == file[path] \in Tool \cap Sound
Loaded(before) == [path \in Path |-> IF Loadable(path) THEN file[path] ELSE before[path]]

-----------------------------------------------------------------------------
Go(c, at) == caller' = [caller EXCEPT ![c].at = at]

\* A call begins; it overlaps when another is in progress.
Enter(c) == /\ caller[c].at = "idle" /\ calls < MaxCalls
            /\ calls' = calls + 1
            /\ overlaps' = overlaps + (IF \E d \in Caller \ {c} : caller[d].at # "idle" THEN 1 ELSE 0)
            /\ overlaps' <= MaxOverlaps
            /\ UNCHANGED mishaps

\* propose saves a draft, and validates it as the call `validate` does.
Propose(c, p) ==
  /\ Enter(c) /\ proposals[p] = NoRow
  /\ proposals' = [proposals EXCEPT ![p] = [status |-> "draft", checks |-> "none", trial |-> "none"]]
  /\ caller' = [caller EXCEPT ![c] = [op |-> "validate", at |-> "load", of |-> p, row |-> NoRow]]
  /\ UNCHANGED <<disk, ghosts>>

Next_(op) == IF op = "apply" THEN "backup" ELSE "save"

Call(c, op, p) ==
  /\ Enter(c) /\ proposals[p] # NoRow /\ Permitted(op, p, proposals[p])
  /\ caller' = [caller EXCEPT ![c] = [op |-> op, at |-> Next_(op), of |-> p, row |-> proposals[p]]]
  /\ UNCHANGED <<proposals, disk, ghosts>>

\* validate reads the row that propose saved; it raises when that was decided meanwhile.
Load(c) ==
  /\ caller[c].at = "load"
  /\ LET p == caller[c].of
     IN  caller' = [caller EXCEPT ![c].row = proposals[p],
                                  ![c].at = IF Permitted("validate", p, proposals[p]) THEN "save" ELSE "idle"]
  /\ UNCHANGED <<proposals, disk, ghosts, bounds>>

Save(c) ==
  /\ caller[c].at = "save"
  /\ LET me == caller[c]
     IN  /\ \E row \in Outcomes(me.op, me.of, me.row) : proposals' = [proposals EXCEPT ![me.of] = row]
         /\ approvals' = IF me.op = "approve" THEN approvals \cup {<<me.of, me.row>>} ELSE approvals
         /\ refused' = IF me.op = "reject" THEN refused \cup {me.of} ELSE refused
  /\ Go(c, "idle")
  /\ UNCHANGED <<disk, replaced, bounds>>

-----------------------------------------------------------------------------
(* apply: back up, write, load, save.                                      *)
Backup(c) ==
  /\ caller[c].at = "backup"
  /\ LET p == caller[c].of
     IN  history' = IF file[Target[p]] = "nothing" THEN history ELSE [history EXCEPT ![p] = file[Target[p]]]
  /\ Go(c, "write")
  /\ UNCHANGED <<proposals, file, registry, ghosts, bounds>>

Write(c) ==
  /\ caller[c].at = "write"
  /\ LET p == caller[c].of
     IN  /\ file' = [file EXCEPT ![Target[p]] = p]
         /\ replaced' = IF replaced[p] = "unwritten" THEN [replaced EXCEPT ![p] = file[Target[p]]] ELSE replaced
  /\ Go(c, "reload")
  /\ UNCHANGED <<proposals, history, registry, approvals, refused, bounds>>

Reload(c) ==
  /\ caller[c].at = "reload"
  /\ registry' = IF caller[c].of \in Tool THEN Loaded(registry) ELSE registry
  /\ Go(c, "save")
  /\ UNCHANGED <<proposals, file, history, ghosts, bounds>>

\* Loading declarations may raise (a file that does not parse, a pack that cannot be written).
ReloadRaises(c) ==
  /\ caller[c].at = "reload" /\ caller[c].of \notin Tool /\ mishaps < MaxMishaps
  /\ mishaps' = mishaps + 1
  /\ Go(c, "idle")
  /\ UNCHANGED <<proposals, disk, ghosts, calls, overlaps>>

Crash(c) ==
  /\ caller[c].at # "idle" /\ mishaps < MaxMishaps
  /\ mishaps' = mishaps + 1
  /\ Go(c, "idle")
  /\ UNCHANGED <<proposals, disk, ghosts, calls, overlaps>>

\* The runtime starts again: nothing is loaded but what is on disk.
Restart == /\ \A c \in Caller : caller[c].at = "idle"
           /\ registry' = Loaded([path \in Path |-> "nothing"])
           /\ UNCHANGED <<proposals, file, history, caller, ghosts, bounds>>

Init == /\ proposals = [p \in Proposal |-> NoRow]
        /\ file \in [Path -> {"nothing", "own"}]
        /\ history = [p \in Proposal |-> "nothing"]
        /\ registry = [path \in Path |-> "nothing"]
        /\ caller = [c \in Caller |-> Idle]
        /\ approvals = {} /\ refused = {} /\ replaced = [p \in Proposal |-> "unwritten"]
        /\ calls = 0 /\ mishaps = 0 /\ overlaps = 0

Next == \/ \E c \in Caller :
             \/ \E p \in Proposal : Propose(c, p) \/ \E op \in Operation : Call(c, op, p)
             \/ Load(c) \/ Save(c)
             \/ Backup(c) \/ Write(c) \/ Reload(c) \/ ReloadRaises(c)
             \/ Crash(c)
        \/ Restart

Spec == Init /\ [][Next]_vars

-----------------------------------------------------------------------------
\* A human approved p, and looked at a row that had passed: code had run in
\* the sandbox, everything else had been verified (workbench.py approve).
Approved(p) == \E a \in approvals : a[1] = p /\ IF p \in Tool THEN a[2].trial = "ok" ELSE a[2].checks = "ok"

\* Whoever overlaps or dies, what an application writes was approved.
WrittenWasApproved == \A path \in Path : file[path] \in Proposal => Approved(file[path])

\* Code that is loaded passed the static analysis, also when a proposal that
\* had failed it was tried, approved and written (loader.py).
LoadedIsSound == \A path \in Path : registry[path] \in Sound \cup {"nothing"}

\* While calls do not overlap a rejected proposal stays rejected; and it has
\* left no trace in the workspace, unless an application of it was interrupted
\* between the file and the row.
RejectionStands ==
  overlaps = 0 => \A p \in refused : /\ proposals[p].status = "rejected"
                                    /\ mishaps = 0 => replaced[p] = "unwritten"

\* What the application of a proposal replaced is in the history, if calls do
\* not overlap and none is interrupted (an application that is repeated backs
\* up its own work, over what there was).
BackupIsPrevious ==
  overlaps = 0 /\ mishaps = 0 =>
    \A p \in Proposal : replaced[p] \notin {"unwritten", "nothing"} => history[p] = replaced[p]

\* dev/workbench.py: what is written was approved, what is loaded is sound, a
\* refusal stands, and a backup is what was there before.
ProposalsAreDecided == TypeOK /\ WrittenWasApproved /\ LoadedIsSound /\ RejectionStands /\ BackupIsPrevious
=============================================================================
