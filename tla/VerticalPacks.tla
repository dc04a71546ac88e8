---------------------------- MODULE VerticalPacks ---------------------------
(***************************************************************************)
(* Vertical packs (packs/service.py, packs/catalog.py): a pack is proposed *)
(* by its manifest, and applying the proposal writes its files one by one  *)
(* and records their digests.  An update travels as a plan made when it    *)
(* was proposed; what people edited since the installation is kept, unless *)
(* the update says otherwise.  One pack, its files and its proposals.      *)
(***************************************************************************)
EXTENDS Integers, FiniteSets

CONSTANTS
  Caller, Proposal, Path,
  Version,             \* a set of numbers
  Files,               \* [Version -> SUBSET Path]: plan(pack), but for the manifest
  MaxCalls, MaxEdits, MaxCrashes

VARIABLES
  manifest,            \* packs/<id>.yaml in the workspace: a version, or 0
  builtin,             \* the version the runtime comes with
  file,                \* the workspace: a version's content of the path, own, or nothing
  installed,           \* table packs: version, files and checksums; version 0 when there is none
  proposals,           \* table change_proposals
  caller,              \* each caller: where it is, its proposal (or record), and what it still has to do
  planned,             \* ghost: what was somebody's own when the update was planned
  lost,                \* ghost: own files that were written over or removed, and how
  dropped,             \* ghost: files an installed version had and the next one does not
  shared,              \* ghost: two callers were at work at once
  calls, edits, crashes

vars == <<manifest, builtin, file, installed, proposals, caller, planned, lost, dropped, shared, calls, edits, crashes>>

bounds == <<shared, calls, edits, crashes>>

nothing == 0
own == -1
Content == Version \cup {nothing, own}

\* metadata.pack_update; an installation has none.
NoPlan == [update |-> FALSE, conflict |-> {}, overwrite |-> FALSE]
Plan == [update : BOOLEAN, conflict : SUBSET Path, overwrite : BOOLEAN]
NoRow == [status |-> "none", version |-> nothing, plan |-> NoPlan]
Row == [status : {"none", "validated", "approved", "applied"}, version : Version \cup {nothing}, plan : Plan]
NotInstalled == [version |-> nothing, files |-> {}, sums |-> [f \in Path |-> nothing]]
Idle == [at |-> "idle", p |-> CHOOSE p \in Proposal : TRUE, row |-> NoRow, record |-> NotInstalled, todo |-> {}]

TypeOK ==
  /\ manifest \in Version \cup {nothing} /\ builtin \in Version
  /\ file \in [Path -> Content]
  /\ installed \in [version : Version \cup {nothing}, files : SUBSET Path, sums : [Path -> Version \cup {nothing}]]
  /\ proposals \in [Proposal -> Row]
  /\ caller \in [Caller -> [at : {"idle", "plan", "write", "record", "applied", "unlink", "delete"}, p : Proposal, row : Row,
                            record : [version : Version \cup {nothing}, files : SUBSET Path, sums : [Path -> Version \cup {nothing}]],
                            todo : SUBSET Path]]
  /\ planned \in [Proposal -> SUBSET Path]
  /\ lost \subseteq Path \X {"installed", "asked", "planned", "unplanned", "removed", "unrecorded"}
  /\ dropped \subseteq Path /\ shared \in BOOLEAN
  /\ calls \in 0..MaxCalls /\ edits \in 0..MaxEdits /\ crashes \in 0..MaxCrashes

-----------------------------------------------------------------------------
\* available_packs: the manifest in the workspace hides the one of the runtime.
Available == IF manifest = nothing THEN builtin ELSE manifest

\* update_plan: what exists, and is not what the record says, is in conflict.
Conflicts == {f \in Files[Available] : /\ file[f] # nothing
                                       /\ \/ installed.sums[f] = nothing
                                          \/ file[f] # installed.sums[f]}
Identical == /\ installed.version = Available
             /\ Conflicts = {} /\ \A f \in Files[Available] : file[f] # nothing

\* materialize, may_write
MayWrite_Unplanned(plan, f) == ~plan.update \/ plan.overwrite \/ file[f] \in Version \cup {nothing, own}  \* mutant: the plan is not honoured
MayWrite(plan, f) == \/ ~plan.update
                     \/ plan.overwrite /\ f \in plan.conflict
                     \/ ~(file[f] # nothing /\ f \in plan.conflict)

\* remove: a file that is not what was recorded is kept; without a record it is not.
MayUnlink_Any(record, f) == TRUE                        \* mutant: the digest is not compared
MayUnlink(record, f) == record.sums[f] = nothing \/ file[f] = record.sums[f]

Enter(c) == /\ caller[c].at = "idle" /\ calls < MaxCalls
            /\ calls' = calls + 1
            /\ shared' = (shared \/ \E d \in Caller \ {c} : caller[d].at # "idle")
            /\ UNCHANGED <<edits, crashes>>

Fresh(p) == proposals[p] = NoRow

-----------------------------------------------------------------------------
\* propose: the checks passed, and the proposal was verified as it was saved.
Propose(c, p) ==
  /\ Enter(c) /\ Fresh(p)
  /\ proposals' = [proposals EXCEPT ![p] = [status |-> "validated", version |-> Available, plan |-> NoPlan]]
  /\ UNCHANGED <<manifest, builtin, file, installed, caller, planned, lost, dropped>>

\* update: plan, propose, and save the plan with the proposal, in three steps.
Update(c, p) ==
  /\ Enter(c) /\ Fresh(p)
  /\ installed.version # nothing /\ ~Identical
  /\ \E overwrite \in BOOLEAN :
       LET row == [status |-> "validated", version |-> Available,
                   plan |-> [update |-> TRUE, conflict |-> Conflicts, overwrite |-> overwrite]]
       IN  /\ proposals' = [proposals EXCEPT ![p] = [row EXCEPT !.plan = NoPlan]]
           /\ caller' = [caller EXCEPT ![c] = [Idle EXCEPT !.at = "plan", !.p = p, !.row = row]]
  /\ planned' = [planned EXCEPT ![p] = {f \in Path : file[f] = own}]
  /\ UNCHANGED <<manifest, builtin, file, installed, lost, dropped>>

SavePlan(c) ==
  /\ caller[c].at = "plan"
  /\ proposals' = [proposals EXCEPT ![caller[c].p] = caller[c].row]
  /\ caller' = [caller EXCEPT ![c] = Idle]
  /\ UNCHANGED <<manifest, builtin, file, installed, planned, lost, dropped, bounds>>

Approve(c, p) ==
  /\ Enter(c) /\ proposals[p].status = "validated"
  /\ proposals' = [proposals EXCEPT ![p].status = "approved"]
  /\ UNCHANGED <<manifest, builtin, file, installed, caller, planned, lost, dropped>>

-----------------------------------------------------------------------------
\* Workbench.apply writes the manifest; materialize writes the files.
Apply(c, p) ==
  /\ Enter(c) /\ proposals[p].status = "approved"
  /\ manifest' = proposals[p].version
  /\ caller' = [caller EXCEPT ![c] = [Idle EXCEPT !.at = "write", !.p = p, !.row = proposals[p],
                                                  !.record.version = proposals[p].version,
                                                  !.todo = Files[proposals[p].version]]]
  /\ UNCHANGED <<builtin, file, installed, proposals, planned, lost, dropped>>

How(p, f, row) == IF ~row.plan.update THEN "installed"
                  ELSE IF row.plan.overwrite /\ f \in row.plan.conflict THEN "asked"
                  ELSE IF f \in planned[p] THEN "planned" ELSE "unplanned"

WriteFile(c) ==
  /\ caller[c].at = "write"
  /\ \E f \in caller[c].todo :
       LET me == caller[c]
           done == [me EXCEPT !.todo = @ \ {f}, !.at = IF me.todo = {f} THEN "record" ELSE "write"]
       IN  IF MayWrite(me.row.plan, f)
           THEN /\ file' = [file EXCEPT ![f] = me.row.version]
                /\ lost' = IF file[f] = own THEN lost \cup {<<f, How(me.p, f, me.row)>>} ELSE lost
                /\ caller' = [caller EXCEPT ![c] = [done EXCEPT !.record.files = @ \cup {f},
                                                                !.record.sums[f] = me.row.version]]
           ELSE caller' = [caller EXCEPT ![c] = done] /\ UNCHANGED <<file, lost>>
  /\ UNCHANGED <<manifest, builtin, installed, proposals, planned, dropped, bounds>>

\* What was preserved stays on record, with the digest it was recorded with.
Preserved(record) ==
  LET kept == IF installed.version = nothing THEN {} ELSE Files[record.version] \ record.files
  IN  [record EXCEPT !.files = @ \cup kept,
                     !.sums = [f \in Path |-> IF f \in kept THEN installed.sums[f] ELSE record.sums[f]]]

SaveRecord(c) ==
  /\ caller[c].at = "record"
  /\ installed' = Preserved(caller[c].record)
  /\ dropped' = (dropped \ caller[c].record.files) \cup (installed.files \ Files[caller[c].record.version])
  /\ caller' = [caller EXCEPT ![c].at = "applied"]
  /\ UNCHANGED <<manifest, builtin, file, proposals, planned, lost, bounds>>

SaveApplied(c) ==
  /\ caller[c].at = "applied"
  /\ proposals' = [proposals EXCEPT ![caller[c].p] = [caller[c].row EXCEPT !.status = "applied"]]
  /\ caller' = [caller EXCEPT ![c] = Idle]
  /\ UNCHANGED <<manifest, builtin, file, installed, planned, lost, dropped, bounds>>

-----------------------------------------------------------------------------
Remove(c) ==
  /\ Enter(c) /\ installed.version # nothing
  /\ caller' = [caller EXCEPT ![c] = [Idle EXCEPT !.at = IF installed.files = {} THEN "delete" ELSE "unlink",
                                                  !.record = installed, !.todo = installed.files]]
  /\ UNCHANGED <<manifest, builtin, file, installed, proposals, planned, lost, dropped>>

Unlink(c) ==
  /\ caller[c].at = "unlink"
  /\ \E f \in caller[c].todo :
       /\ IF file[f] # nothing /\ MayUnlink(caller[c].record, f)
          THEN /\ file' = [file EXCEPT ![f] = nothing]
               /\ lost' = IF file[f] = own
                          THEN lost \cup {<<f, IF caller[c].record.sums[f] = nothing THEN "unrecorded" ELSE "removed">>}
                          ELSE lost
          ELSE UNCHANGED <<file, lost>>
       /\ caller' = [caller EXCEPT ![c].todo = @ \ {f},
                                   ![c].at = IF caller[c].todo = {f} THEN "delete" ELSE "unlink"]
  /\ UNCHANGED <<manifest, builtin, installed, proposals, planned, dropped, bounds>>

\* The manifest goes with the files of its pack, and the record last of all.
DeleteRecord(c) ==
  /\ caller[c].at = "delete"
  /\ installed' = NotInstalled
  /\ manifest' = IF manifest = caller[c].record.version THEN nothing ELSE manifest
  /\ caller' = [caller EXCEPT ![c] = Idle]
  /\ UNCHANGED <<builtin, file, proposals, planned, lost, dropped, bounds>>

-----------------------------------------------------------------------------
\* People edit files, and put a newer manifest into the workspace.
Edit == /\ edits < MaxEdits /\ edits' = edits + 1
        /\ \/ /\ \E f \in Path : file[f] # own /\ file' = [file EXCEPT ![f] = own]
              /\ UNCHANGED manifest
           \/ /\ \E v \in Version : v > Available /\ manifest' = v
              /\ UNCHANGED file
        /\ UNCHANGED <<builtin, installed, proposals, caller, planned, lost, dropped, shared, calls, crashes>>

Crash(c) == /\ caller[c].at # "idle" /\ crashes < MaxCrashes
            /\ crashes' = crashes + 1
            /\ caller' = [caller EXCEPT ![c] = Idle]
            /\ UNCHANGED <<manifest, builtin, file, installed, proposals, planned, lost, dropped, shared, calls, edits>>

Init == /\ manifest = nothing /\ builtin \in Version
        /\ file = [f \in Path |-> nothing]
        /\ installed = NotInstalled
        /\ proposals = [p \in Proposal |-> NoRow]
        /\ caller = [c \in Caller |-> Idle]
        /\ planned = [p \in Proposal |-> {}] /\ lost = {} /\ dropped = {} /\ shared = FALSE
        /\ calls = 0 /\ edits = 0 /\ crashes = 0

Next == \/ \E c \in Caller :
             \/ \E p \in Proposal : Propose(c, p) \/ Update(c, p) \/ Approve(c, p) \/ Apply(c, p)
             \/ SavePlan(c) \/ WriteFile(c) \/ SaveRecord(c) \/ SaveApplied(c)
             \/ Remove(c) \/ Unlink(c) \/ DeleteRecord(c)
             \/ Crash(c)
        \/ Edit

Spec == Init /\ [][Next]_vars

-----------------------------------------------------------------------------
\* Whoever overlaps or dies, an update that does not ask for it never writes
\* over a file that was somebody's own when it was planned, and a removal never
\* deletes a file the pack had written and somebody edited since (ADR-045,
\* ADR-050).
EditsSurvive == \A l \in lost : l[2] \notin {"planned", "removed"}

\* What is on disk is on record: at rest, when no calls overlapped and none
\* died, a file that holds content of the pack is one the record names with that
\* content, so that the next update finds it and a removal leaves nothing behind
\* - but for files that a version had and the one applied after it does not.
DiskIsOnRecord ==
  ~shared /\ crashes = 0 /\ (\A c \in Caller : caller[c].at = "idle") =>
    \A f \in Path \ dropped : file[f] \in Version => f \in installed.files /\ installed.sums[f] = file[f]
=============================================================================
