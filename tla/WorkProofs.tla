------------------------------ MODULE WorkProofs ----------------------------
(***************************************************************************)
(* What holds of the work of agents, for any number of callers and any     *)
(* calls.  Change proposals: what is written was approved and what is      *)
(* loaded is sound, whoever overlaps or dies, and while no calls overlap   *)
(* a refusal stands and what an application replaced is in the history.    *)
(* Vertical packs: no plan and no removal costs somebody his edits, and    *)
(* while no calls overlap the record tells what is on the disk.            *)
(* Evaluations: a run that passed met every threshold, and a comparison    *)
(* gives the agent its provider back.                                      *)
(* Models: a budget is overrun only by what was under way.                 *)
(* Memory: of what is merged one lives, and what was forgotten is nowhere. *)
(* Rows: lists and searches agree with the documents.                      *)
(***************************************************************************)
EXTENDS MCWork, FiniteSetTheorems, WellFoundedInduction, TLAPS

-----------------------------------------------------------------------------
(* Types *)

\* What an operation makes of a row is a row.
LEMMA OutcomesAreRows ==
  ASSUME NEW op \in Operation, NEW p \in Proposal, NEW row \in Row, Permitted(op, p, row),
         NEW made \in Outcomes(op, p, row)
  PROVE  made \in Row
<1>1. CASE op = "validate"
  BY <1>1 DEF Outcomes, Validated, Row, Status, Verdict
<1>2. CASE op = "trial"
  BY <1>2 DEF Outcomes, Tried, Row, Status, Verdict
<1>3. CASE op \in {"approve", "reject", "apply"}
  BY <1>3 DEF Outcomes, Row, Status
<1> QED
  BY <1>1, <1>2, <1>3 DEF Permitted

\* What a call holds: it does what its operation does, there is a row where it
\* will read one, and when it is about to act the row it has read permits it.
Guarded(me) ==
  /\ me.at = "load" => me.op = "validate" /\ proposals[me.of] \in Row
  /\ me.at \in {"backup", "write", "reload"} => me.op = "apply"
  /\ me.at \notin {"idle", "load"} => me.row \in Row /\ Permitted(me.op, me.of, me.row)

TypeInv == TypeOK /\ \A c \in Caller : Guarded(caller[c])

\* A call begins.
LEMMA EnterTypes ==
  ASSUME TypeOK, NEW c \in Caller, Enter(c)
  PROVE  /\ calls' \in 0..MaxCalls /\ mishaps' \in 0..MaxMishaps /\ overlaps' \in 0..MaxOverlaps
         /\ overlaps <= overlaps' /\ mishaps' = mishaps
         /\ overlaps' = 0 => \A d \in Caller : caller[d].at = "idle"
BY WorkbenchAssumption DEF TypeOK, Enter

LEMMA TypesInit == ASSUME Init PROVE TypeInv
<1>1. (CHOOSE p \in Proposal : TRUE) \in Proposal
  BY WorkbenchAssumption
<1>2. Idle \in [op : Operation, at : {"idle", "load", "save", "backup", "write", "reload"},
                of : Proposal, row : Row \cup {NoRow}]
  BY <1>1 DEF Idle, Operation
<1>3. Guarded(Idle)
  BY DEF Guarded, Idle
<1> QED
  BY <1>2, <1>3, WorkbenchAssumption DEF Init, TypeInv, TypeOK, Content

LEMMA TypesStep == ASSUME TypeInv, [Next]_vars PROVE TypeInv'
<1> USE WorkbenchAssumption
<1> DEFINE At == {"idle", "load", "save", "backup", "write", "reload"}
<1>1. ASSUME NEW c \in Caller, NEW p \in Proposal, Propose(c, p)
      PROVE  TypeInv'
  <2>1. /\ caller'[c] = [op |-> "validate", at |-> "load", of |-> p, row |-> NoRow]
        /\ \A d \in Caller \ {c} : caller'[d] = caller[d]
    BY <1>1 DEF Propose, TypeInv, TypeOK
  <2>2. /\ proposals' \in [Proposal -> Row \cup {NoRow}] /\ proposals'[p] \in Row
        /\ \A q \in Proposal : proposals[q] \in Row => proposals'[q] \in Row
    BY <1>1 DEF Propose, TypeInv, TypeOK, Row, Status, Verdict
  <2>3. caller' \in [Caller -> [op : Operation, at : At, of : Proposal, row : Row \cup {NoRow}]]
    BY <1>1 DEF Propose, TypeInv, TypeOK, Operation
  <2>4. TypeOK'
    BY <1>1, <2>2, <2>3, EnterTypes DEF Propose, TypeInv, TypeOK, disk, ghosts
  <2>5. Guarded(caller[c])'
    BY <2>1, <2>2 DEF Guarded
  <2>6. ASSUME NEW d \in Caller \ {c} PROVE Guarded(caller[d])'
    BY <2>1, <2>2 DEF Guarded, TypeInv, TypeOK
  <2> QED
    BY <2>4, <2>5, <2>6 DEF TypeInv
<1>2. ASSUME NEW c \in Caller, NEW op \in Operation, NEW p \in Proposal, Call(c, op, p)
      PROVE  TypeInv'
  <2>1. /\ caller'[c] = [op |-> op, at |-> Next_(op), of |-> p, row |-> proposals[p]]
        /\ \A d \in Caller \ {c} : caller'[d] = caller[d]
    BY <1>2 DEF Call, TypeInv, TypeOK
  <2>2. proposals[p] \in Row /\ Permitted(op, p, proposals[p]) /\ proposals' = proposals
    BY <1>2 DEF Call, TypeInv, TypeOK
  <2>3. caller' \in [Caller -> [op : Operation, at : At, of : Proposal, row : Row \cup {NoRow}]]
    BY <1>2 DEF Call, TypeInv, TypeOK, Next_
  <2>4. TypeOK'
    BY <1>2, <2>3, EnterTypes DEF Call, TypeInv, TypeOK, disk, ghosts
  <2>5. Guarded(caller[c])'
    BY <2>1, <2>2 DEF Guarded, Next_
  <2> QED
    BY <2>1, <2>2, <2>4, <2>5 DEF TypeInv, Guarded
<1>3. ASSUME NEW c \in Caller, Load(c)
      PROVE  TypeInv'
  <2>1. PICK at \in {"save", "idle"} :
          /\ caller' = [caller EXCEPT ![c].row = proposals[caller[c].of], ![c].at = at]
          /\ at = "save" => Permitted("validate", caller[c].of, proposals[caller[c].of])
    BY <1>3 DEF Load
  <2>2. caller[c].op = "validate" /\ proposals[caller[c].of] \in Row /\ caller[c].of \in Proposal
    BY <1>3 DEF Load, TypeInv, TypeOK, Guarded
  <2>3. /\ caller'[c] = [caller[c] EXCEPT !.row = proposals[caller[c].of], !.at = at]
        /\ \A d \in Caller \ {c} : caller'[d] = caller[d]
    BY <2>1 DEF TypeInv, TypeOK
  <2>4. TypeOK'
    BY <1>3, <2>1, <2>2 DEF Load, TypeInv, TypeOK, disk, ghosts, bounds
  <2>5. /\ caller'[c].op = "validate" /\ caller'[c].at = at /\ caller'[c].of = caller[c].of
        /\ caller'[c].row = proposals[caller[c].of]
    BY <2>2, <2>3 DEF TypeInv, TypeOK
  <2>6. Guarded(caller[c])'
    BY <2>1, <2>2, <2>5 DEF Guarded
  <2> QED
    BY <1>3, <2>3, <2>4, <2>6 DEF TypeInv, Guarded, Load
<1>4. ASSUME NEW c \in Caller, Save(c)
      PROVE  TypeInv'
  <2>1. /\ caller[c].row \in Row /\ caller[c].of \in Proposal /\ caller[c].op \in Operation
        /\ Permitted(caller[c].op, caller[c].of, caller[c].row)
    BY <1>4 DEF Save, TypeInv, TypeOK, Guarded
  <2>2. PICK made \in Outcomes(caller[c].op, caller[c].of, caller[c].row) :
          proposals' = [proposals EXCEPT ![caller[c].of] = made]
    BY <1>4 DEF Save
  <2>3. made \in Row
    BY <2>1, <2>2, OutcomesAreRows
  <2>4. approvals' \subseteq Proposal \X Row /\ refused' \subseteq Proposal
    BY <1>4, <2>1 DEF Save, TypeInv, TypeOK
  <2>5. TypeOK'
    BY <1>4, <2>2, <2>3, <2>4 DEF Save, Go, TypeInv, TypeOK, disk, bounds
  <2>6. \A q \in Proposal : proposals[q] \in Row => proposals'[q] \in Row
    BY <2>2, <2>3 DEF TypeInv, TypeOK
  <2>7. caller'[c].at = "idle" /\ \A d \in Caller \ {c} : caller'[d] = caller[d]
    BY <1>4 DEF Save, Go, TypeInv, TypeOK
  <2> QED
    BY <2>5, <2>6, <2>7 DEF TypeInv, TypeOK, Guarded
<1>5. ASSUME NEW c \in Caller, Backup(c) \/ Write(c) \/ Reload(c)
      PROVE  TypeInv'
  <2>1. PICK at \in {"write", "reload", "save"} : Go(c, at)
    BY <1>5 DEF Backup, Write, Reload
  <2>2. /\ caller'[c] = [caller[c] EXCEPT !.at = at] /\ \A d \in Caller \ {c} : caller'[d] = caller[d]
        /\ caller[c].of \in Proposal /\ Target[caller[c].of] \in Path /\ proposals' = proposals
    BY <1>5, <2>1 DEF Go, TypeInv, TypeOK, Backup, Write, Reload
  <2>3. caller[c].op = "apply" /\ caller[c].row \in Row /\ Permitted("apply", caller[c].of, caller[c].row)
    BY <1>5 DEF Backup, Write, Reload, TypeInv, Guarded
  <2>4. Guarded(caller[c])'
    BY <2>1, <2>2, <2>3 DEF Guarded, TypeInv, TypeOK
  <2>5. /\ history' \in [Proposal -> Content] /\ file' \in [Path -> Content]
        /\ registry' \in [Path -> Content] /\ replaced' \in [Proposal -> Content \cup {"unwritten"}]
    <3>1. CASE Backup(c)
      BY <3>1, <2>2 DEF Backup, TypeInv, TypeOK, ghosts
    <3>2. CASE Write(c)
      BY <3>2, <2>2 DEF Write, TypeInv, TypeOK, Content
    <3>3. CASE Reload(c)
      BY <3>3, <2>2 DEF Reload, Loaded, TypeInv, TypeOK, ghosts
    <3> QED
      BY <1>5, <3>1, <3>2, <3>3
  <2>6. caller' \in [Caller -> [op : Operation, at : At, of : Proposal, row : Row \cup {NoRow}]]
    BY <2>1 DEF Go, TypeInv, TypeOK
  <2>7. UNCHANGED <<proposals, approvals, refused, bounds>>
    BY <1>5 DEF Backup, Write, Reload, ghosts
  <2>8. TypeOK'
    BY <2>5, <2>6, <2>7 DEF TypeInv, TypeOK, bounds
  <2> QED
    BY <2>2, <2>4, <2>8 DEF TypeInv, Guarded
<1>6. ASSUME NEW c \in Caller, ReloadRaises(c) \/ Crash(c)
      PROVE  TypeInv'
  <2>1. /\ caller' = [caller EXCEPT ![c].at = "idle"] /\ mishaps < MaxMishaps /\ mishaps' = mishaps + 1
        /\ UNCHANGED <<proposals, disk, ghosts, calls, overlaps>>
    BY <1>6 DEF ReloadRaises, Crash, Go
  <2>2. TypeOK'
    BY <2>1 DEF TypeInv, TypeOK, disk, ghosts
  <2>3. caller'[c].at = "idle" /\ \A d \in Caller \ {c} : caller'[d] = caller[d]
    BY <2>1 DEF TypeInv, TypeOK
  <2> QED
    BY <2>1, <2>2, <2>3 DEF TypeInv, Guarded
<1>7. CASE Restart
  <2>1. registry' \in [Path -> Content]
    BY <1>7 DEF Restart, Loaded, TypeInv, TypeOK, Content
  <2> QED
    BY <1>7, <2>1 DEF Restart, TypeInv, TypeOK, Guarded, ghosts, bounds
<1>8. CASE UNCHANGED vars
  BY <1>8 DEF TypeInv, TypeOK, Guarded, vars
<1> QED
  BY <1>1, <1>2, <1>3, <1>4, <1>5, <1>6, <1>7, <1>8 DEF Next

-----------------------------------------------------------------------------
(* Approval, and what is loaded *)

\* What a row says was earned: it is validated after checks that found
\* nothing, tested if it is code, approved or applied after an approval.
Earned(p, row) ==
  /\ row.status = "validated" => row.checks = "ok"
  /\ row.status = "tested" => p \in Tool
  /\ row.status \in {"approved", "applied"} => Approved(p)

\* Copies may be saved over any row, so they too are earned.
ApprovalInv ==
  /\ TypeInv
  /\ \A p \in Proposal : Earned(p, proposals[p])
  /\ \A c \in Caller : caller[c].at \notin {"idle", "load"} => Earned(caller[c].of, caller[c].row)
  /\ WrittenWasApproved
  /\ LoadedIsSound

\* No approval is taken back.
LEMMA ApprovalsStay ==
  ASSUME approvals \subseteq approvals', NEW p, NEW row, Earned(p, row)
  PROVE  Earned(p, row)'
BY DEF Earned, Approved

\* What an operation makes of a copy that was earned is earned, once its save
\* has noted the approval.
LEMMA OutcomesAreEarned ==
  ASSUME NEW c \in Caller, NEW op \in Operation, NEW p \in Proposal, NEW row \in Row,
         Permitted(op, p, row), Earned(p, row), NEW made \in Outcomes(op, p, row),
         approvals' = IF op = "approve" THEN approvals \cup {<<p, row>>} ELSE approvals
  PROVE  Earned(p, made)'
<1>1. CASE op = "validate"
  BY <1>1 DEF Outcomes, Validated, Row, Status, Verdict, Earned
<1>2. CASE op = "trial"
  BY <1>2 DEF Outcomes, Tried, Permitted, Row, Status, Verdict, Earned
<1>3. CASE op = "approve"
  <2>1. IF p \in Tool THEN row.trial = "ok" ELSE row.checks = "ok"
    BY <1>3 DEF Permitted, MayApprove, Earned
  <2>2. <<p, row>> \in approvals' /\ <<p, row>>[1] = p /\ <<p, row>>[2] = row
    BY <1>3
  <2>3. Approved(p)'
    BY <2>1, <2>2 DEF Approved
  <2>4. made.status = "approved"
    BY <1>3 DEF Outcomes, Row
  <2> QED
    BY <2>3, <2>4 DEF Earned
<1>4. CASE op = "reject"
  BY <1>4 DEF Outcomes, Row, Status, Earned
<1>5. CASE op = "apply"
  <2>1. Approved(p)'
    BY <1>5, approvals' = approvals DEF Permitted, MayApply, Earned, Approved
  <2>2. made.status = "applied"
    BY <1>5 DEF Outcomes, Row
  <2> QED
    BY <2>1, <2>2 DEF Earned
<1> QED
  BY <1>1, <1>2, <1>3, <1>4, <1>5 DEF Permitted

\* What is loaded was found sound, when a directory is read again.
LEMMA LoadedAreSound ==
  ASSUME NEW before, \A path \in Path : before[path] \in Sound \cup {"nothing"},
         registry' = Loaded(before)
  PROVE  LoadedIsSound'
BY DEF Loaded, Loadable, LoadedIsSound

LEMMA ApprovalInit == ASSUME Init PROVE ApprovalInv
<1>1. \A p \in Proposal : Earned(p, proposals[p])
  BY DEF Init, Earned, NoRow
<1>2. WrittenWasApproved /\ LoadedIsSound
  BY WorkbenchAssumption DEF Init, WrittenWasApproved, LoadedIsSound
<1> QED
  BY <1>1, <1>2, TypesInit DEF ApprovalInv, Init, Idle

LEMMA ApprovalStep == ASSUME ApprovalInv, [Next]_vars PROVE ApprovalInv'
<1>1. TypeInv'
  BY TypesStep DEF ApprovalInv
<1>2. ASSUME NEW c \in Caller, NEW p \in Proposal, Propose(c, p)
      PROVE  ApprovalInv'
  <2>1. /\ caller'[c].at = "load" /\ \A d \in Caller \ {c} : caller'[d] = caller[d]
        /\ \A q \in Proposal : proposals'[q] = proposals[q] \/ proposals'[q].status = "draft"
        /\ UNCHANGED <<file, registry, approvals>>
    BY <1>2 DEF Propose, ApprovalInv, TypeInv, TypeOK, disk, ghosts
  <2> QED
    BY <1>1, <2>1 DEF ApprovalInv, Earned, Approved, WrittenWasApproved, LoadedIsSound
<1>3. ASSUME NEW c \in Caller, NEW op \in Operation, NEW p \in Proposal, Call(c, op, p)
      PROVE  ApprovalInv'
  <2>1. /\ caller'[c].of = p /\ caller'[c].row = proposals[p]
        /\ \A d \in Caller \ {c} : caller'[d] = caller[d]
        /\ UNCHANGED <<proposals, file, registry, approvals>>
    BY <1>3 DEF Call, ApprovalInv, TypeInv, TypeOK, disk, ghosts
  <2> QED
    BY <1>1, <2>1 DEF ApprovalInv, Earned, Approved, WrittenWasApproved, LoadedIsSound
<1>4. ASSUME NEW c \in Caller, Load(c)
      PROVE  ApprovalInv'
  <2>1. /\ caller'[c].of = caller[c].of /\ caller[c].of \in Proposal
        /\ caller'[c].row = proposals[caller[c].of]
        /\ \A d \in Caller \ {c} : caller'[d] = caller[d]
        /\ UNCHANGED <<proposals, file, registry, approvals>>
    BY <1>4 DEF Load, ApprovalInv, TypeInv, TypeOK, disk, ghosts
  <2> QED
    BY <1>1, <2>1 DEF ApprovalInv, Earned, Approved, WrittenWasApproved, LoadedIsSound
<1>5. ASSUME NEW c \in Caller, Save(c)
      PROVE  ApprovalInv'
  <2>1. PICK op \in Operation, p \in Proposal, row \in Row :
          /\ caller[c].op = op /\ caller[c].of = p /\ caller[c].row = row
          /\ Permitted(op, p, row) /\ Earned(p, row)
    BY <1>5 DEF Save, ApprovalInv, TypeInv, TypeOK, Guarded
  <2>2. PICK made \in Outcomes(op, p, row) : proposals' = [proposals EXCEPT ![p] = made]
    BY <1>5, <2>1 DEF Save
  <2>3. approvals' = IF op = "approve" THEN approvals \cup {<<p, row>>} ELSE approvals
    BY <1>5, <2>1 DEF Save
  <2>4. Earned(p, made)'
    BY <2>1, <2>2, <2>3, OutcomesAreEarned
  <2>5. ASSUME NEW q \in Proposal PROVE Earned(q, proposals[q])'
    <3>1. CASE q = p
      BY <2>2, <2>4, <3>1 DEF ApprovalInv, TypeInv, TypeOK, Earned, Approved
    <3>2. CASE q # p
      BY <2>2, <2>3, <3>2 DEF ApprovalInv, TypeInv, TypeOK, Earned, Approved
    <3> QED
      BY <3>1, <3>2
  <2>6. /\ caller'[c].at = "idle" /\ \A d \in Caller \ {c} : caller'[d] = caller[d]
        /\ UNCHANGED <<file, registry>>
    BY <1>5 DEF Save, Go, ApprovalInv, TypeInv, TypeOK, disk
  <2> QED
    BY <1>1, <2>3, <2>5, <2>6 DEF ApprovalInv, Earned, Approved, WrittenWasApproved, LoadedIsSound
<1>6. ASSUME NEW c \in Caller, Backup(c) \/ Write(c) \/ Reload(c)
      PROVE  ApprovalInv'
  <2>1. /\ caller[c].of \in Proposal /\ caller[c].row.status = "approved"
        /\ Earned(caller[c].of, caller[c].row)
    BY <1>6 DEF Backup, Write, Reload, ApprovalInv, TypeInv, TypeOK, Guarded, Permitted, MayApply
  <2>2. /\ caller'[c].of = caller[c].of /\ caller'[c].row = caller[c].row
        /\ \A d \in Caller \ {c} : caller'[d] = caller[d]
        /\ UNCHANGED <<proposals, approvals>>
    BY <1>6 DEF Backup, Write, Reload, Go, ApprovalInv, TypeInv, TypeOK, ghosts
  <2>3. WrittenWasApproved'
    BY <1>6, <2>1, <2>2 DEF Backup, Write, Reload, ApprovalInv, TypeInv, TypeOK, WrittenWasApproved, Approved, Earned
  <2>4. LoadedIsSound'
    BY <1>6, LoadedAreSound DEF Backup, Write, Reload, ApprovalInv, LoadedIsSound
  <2> QED
    BY <1>1, <2>1, <2>2, <2>3, <2>4 DEF ApprovalInv, Earned, Approved
<1>7. ASSUME NEW c \in Caller, ReloadRaises(c) \/ Crash(c)
      PROVE  ApprovalInv'
  <2>1. /\ caller'[c].at = "idle" /\ \A d \in Caller \ {c} : caller'[d] = caller[d]
        /\ UNCHANGED <<proposals, file, registry, approvals>>
    BY <1>7 DEF ReloadRaises, Crash, Go, ApprovalInv, TypeInv, TypeOK, disk, ghosts
  <2> QED
    BY <1>1, <2>1 DEF ApprovalInv, Earned, Approved, WrittenWasApproved, LoadedIsSound
<1>8. CASE Restart
  <2>1. LoadedIsSound'
    BY <1>8, LoadedAreSound DEF Restart
  <2> QED
    BY <1>1, <1>8, <2>1 DEF Restart, ApprovalInv, Earned, Approved, WrittenWasApproved, ghosts
<1>9. CASE UNCHANGED vars
  BY <1>1, <1>9 DEF ApprovalInv, Earned, Approved, WrittenWasApproved, LoadedIsSound, vars
<1> QED
  BY <1>2, <1>3, <1>4, <1>5, <1>6, <1>7, <1>8, <1>9 DEF Next

-----------------------------------------------------------------------------
(* While calls do not overlap *)

Busy(c) == caller[c].at # "idle"

\* An application of p has written its file and not yet saved its row.
Writing(c, p) == caller[c].of = p /\ caller[c].op = "apply" /\ caller[c].at \in {"reload", "save"}

\* One call at most is in progress, and its copy is the row.
OneCall ==
  /\ \A c, d \in Caller : Busy(c) /\ Busy(d) => c = d
  /\ \A c \in Caller : caller[c].at \notin {"idle", "load"} => caller[c].row = proposals[caller[c].of]

\* What was written has been applied, or is about to be.
WrittenIsApplied ==
  \A p \in Proposal : replaced[p] # "unwritten" =>
    proposals[p].status = "applied" \/ \E c \in Caller : Writing(c, p)

\* What was at the target is in the history, also when it is about to be replaced.
BackedUp ==
  /\ \A p \in Proposal : replaced[p] \notin {"unwritten", "nothing"} => history[p] = replaced[p]
  /\ \A c \in Caller : caller[c].at = "write" =>
       LET found == file[Target[caller[c].of]] IN found # "nothing" => history[caller[c].of] = found

RefusalsStand == \A p \in refused : proposals[p].status = "rejected"

\* RejectionStands and BackupIsPrevious do not say why the file of a refused
\* proposal is untouched: what was written is applied, and stays so.
AloneInv ==
  overlaps = 0 => OneCall /\ RefusalsStand /\ (mishaps = 0 => WrittenIsApplied /\ BackedUp)

\* A row that was applied permits nothing that saves it again.
LEMMA AppliedIsFinal ==
  ASSUME NEW op \in Operation, NEW p \in Proposal, NEW row, row.status = "applied"
  PROVE  ~Permitted(op, p, row)
BY DEF Permitted, MayApprove, MayReject, MayApply, VALIDATABLE

\* A row that was refused permits only to be refused again.
LEMMA RefusedIsFinal ==
  ASSUME NEW op \in Operation, NEW p \in Proposal, NEW row \in Row, row.status = "rejected", Permitted(op, p, row),
         NEW made \in Outcomes(op, p, row)
  PROVE  made.status = "rejected"
<1>1. op = "reject"
  BY DEF Permitted, MayApprove, MayReject, MayApply, VALIDATABLE
<1> QED
  BY <1>1 DEF Outcomes, Row, Status

LEMMA AloneInit == ASSUME Init PROVE AloneInv
BY DEF Init, Idle, AloneInv, OneCall, Busy, RefusalsStand, WrittenIsApplied, BackedUp

LEMMA AloneStep == ASSUME TypeInv, AloneInv, [Next]_vars PROVE AloneInv'
<1> SUFFICES ASSUME overlaps' = 0
             PROVE  (OneCall /\ RefusalsStand /\ (mishaps = 0 => WrittenIsApplied /\ BackedUp))'
  BY DEF AloneInv
<1>1. ASSUME NEW c \in Caller, NEW p \in Proposal, Propose(c, p)
      PROVE  (OneCall /\ RefusalsStand /\ (mishaps = 0 => WrittenIsApplied /\ BackedUp))'
  <2>1. overlaps = 0 /\ mishaps' = mishaps /\ \A d \in Caller : caller[d].at = "idle"
    BY <1>1, EnterTypes DEF Propose, TypeInv, TypeOK
  <2>2. /\ caller'[c].at = "load" /\ \A d \in Caller \ {c} : caller'[d] = caller[d]
        /\ proposals[p] = NoRow /\ \A q \in Proposal \ {p} : proposals'[q] = proposals[q]
        /\ UNCHANGED <<file, history, refused, replaced>>
    BY <1>1 DEF Propose, TypeInv, TypeOK, disk, ghosts
  <2>3. OneCall'
    BY <2>1, <2>2 DEF OneCall, Busy
  <2>4. RefusalsStand'
    BY <2>1, <2>2 DEF AloneInv, RefusalsStand, NoRow, TypeInv, TypeOK
  <2>5. mishaps = 0 => WrittenIsApplied'
    BY <2>1, <2>2 DEF AloneInv, WrittenIsApplied, Writing, NoRow
  <2>6. mishaps = 0 => BackedUp'
    BY <2>1, <2>2 DEF AloneInv, BackedUp
  <2> QED
    BY <2>1, <2>3, <2>4, <2>5, <2>6
<1>2. ASSUME NEW c \in Caller, NEW op \in Operation, NEW p \in Proposal, Call(c, op, p)
      PROVE  (OneCall /\ RefusalsStand /\ (mishaps = 0 => WrittenIsApplied /\ BackedUp))'
  <2>1. overlaps = 0 /\ mishaps' = mishaps /\ \A d \in Caller : caller[d].at = "idle"
    BY <1>2, EnterTypes DEF Call, TypeInv, TypeOK
  <2>2. /\ caller'[c].of = p /\ caller'[c].row = proposals[p] /\ caller'[c].at \in {"backup", "save"}
        /\ \A d \in Caller \ {c} : caller'[d] = caller[d]
        /\ UNCHANGED <<proposals, file, history, refused, replaced>>
    BY <1>2 DEF Call, Next_, TypeInv, TypeOK, disk, ghosts
  <2>3. OneCall'
    BY <2>1, <2>2 DEF OneCall, Busy
  <2>4. mishaps = 0 => WrittenIsApplied'
    BY <2>1, <2>2 DEF AloneInv, WrittenIsApplied, Writing
  <2>5. mishaps = 0 => BackedUp'
    BY <2>1, <2>2 DEF AloneInv, BackedUp
  <2> QED
    BY <2>1, <2>2, <2>3, <2>4, <2>5 DEF AloneInv, RefusalsStand
<1>3. ASSUME NEW c \in Caller, Load(c)
      PROVE  (OneCall /\ RefusalsStand /\ (mishaps = 0 => WrittenIsApplied /\ BackedUp))'
  <2>1. /\ overlaps = 0 /\ mishaps' = mishaps /\ Busy(c) /\ caller[c].op = "validate"
        /\ caller'[c].of = caller[c].of /\ caller'[c].row = proposals[caller[c].of]
        /\ caller'[c].op = "validate" /\ caller'[c].at \in {"save", "idle"}
        /\ \A d \in Caller \ {c} : caller'[d] = caller[d]
        /\ UNCHANGED <<proposals, file, history, refused, replaced>>
    BY <1>3 DEF Load, Busy, TypeInv, TypeOK, Guarded, disk, ghosts, bounds
  <2>2. OneCall'
    BY <2>1 DEF AloneInv, OneCall, Busy
  <2>3. mishaps = 0 => WrittenIsApplied'
    BY <2>1 DEF AloneInv, WrittenIsApplied, Writing
  <2>4. mishaps = 0 => BackedUp'
    BY <2>1 DEF AloneInv, BackedUp
  <2> QED
    BY <2>1, <2>2, <2>3, <2>4 DEF AloneInv, RefusalsStand
<1>4. ASSUME NEW c \in Caller, Save(c)
      PROVE  (OneCall /\ RefusalsStand /\ (mishaps = 0 => WrittenIsApplied /\ BackedUp))'
  <2>1. overlaps = 0 /\ mishaps' = mishaps /\ Busy(c) /\ OneCall
    BY <1>4 DEF Save, bounds, Busy, AloneInv
  <2>2. PICK op \in Operation, p \in Proposal, row \in Row :
          /\ caller[c].op = op /\ caller[c].of = p /\ caller[c].row = row
          /\ Permitted(op, p, row) /\ proposals[p] = row
    BY <1>4, <2>1 DEF Save, TypeInv, TypeOK, Guarded, OneCall
  <2>3. PICK made \in Outcomes(op, p, row) : proposals' = [proposals EXCEPT ![p] = made]
    BY <1>4, <2>2 DEF Save
  <2>4. made \in Row /\ proposals'[p] = made /\ \A q \in Proposal \ {p} : proposals'[q] = proposals[q]
    BY <2>2, <2>3, OutcomesAreRows DEF TypeInv, TypeOK
  <2>5. /\ caller'[c].at = "idle" /\ \A d \in Caller \ {c} : caller'[d] = caller[d]
        /\ refused' = IF op = "reject" THEN refused \cup {p} ELSE refused
        /\ UNCHANGED <<file, history, replaced>>
    BY <1>4, <2>2 DEF Save, Go, TypeInv, TypeOK, disk
  <2>6. \A d \in Caller : caller'[d].at = "idle"
    BY <2>1, <2>5 DEF OneCall, Busy
  <2>7. OneCall'
    BY <2>6 DEF OneCall, Busy
  <2>8. RefusalsStand'
    <3>1. op = "reject" => made.status = "rejected"
      BY <2>2 DEF Outcomes, Row, Status
    <3>2. row.status = "rejected" => made.status = "rejected"
      BY <2>2, RefusedIsFinal
    <3> QED
      BY <2>1, <2>2, <2>4, <2>5, <3>1, <3>2 DEF AloneInv, RefusalsStand, TypeInv, TypeOK
  <2>9. ASSUME mishaps = 0 PROVE WrittenIsApplied'
    <3> SUFFICES ASSUME NEW q \in Proposal, replaced[q] # "unwritten"
                 PROVE  proposals'[q].status = "applied"
      BY <2>5 DEF WrittenIsApplied
    <3>1. proposals[q].status = "applied" \/ \E d \in Caller : Writing(d, q)
      BY <2>1, <2>9 DEF AloneInv, WrittenIsApplied
    <3>2. CASE proposals[q].status = "applied"
      BY <2>2, <2>4, <3>2, AppliedIsFinal
    <3>3. CASE \E d \in Caller : Writing(d, q)
      <4>1. Writing(c, q)
        BY <2>1, <3>3 DEF OneCall, Busy, Writing
      <4>2. op = "apply" /\ q = p
        BY <2>2, <4>1 DEF Writing
      <4> QED
        BY <2>4, <4>2 DEF Outcomes, Row, Status
    <3> QED
      BY <3>1, <3>2, <3>3
  <2>10. mishaps = 0 => BackedUp'
    BY <2>1, <2>5, <2>6 DEF AloneInv, BackedUp
  <2> QED
    BY <2>1, <2>7, <2>8, <2>9, <2>10
<1>5. ASSUME NEW c \in Caller, Backup(c) \/ Write(c) \/ Reload(c)
      PROVE  (OneCall /\ RefusalsStand /\ (mishaps = 0 => WrittenIsApplied /\ BackedUp))'
  <2>1. overlaps = 0 /\ mishaps' = mishaps /\ OneCall
    BY <1>5 DEF Backup, Write, Reload, bounds, AloneInv
  <2>2. PICK p \in Proposal :
          /\ caller[c].of = p /\ caller[c].op = "apply" /\ Busy(c)
          /\ proposals[p].status = "approved" /\ Target[p] \in Path
    BY <1>5, <2>1, WorkbenchAssumption
    DEF Backup, Write, Reload, Busy, TypeInv, TypeOK, Guarded, Permitted, MayApply, OneCall
  <2>3. PICK at \in {"write", "reload", "save"} :
          caller'[c] = [caller[c] EXCEPT !.at = at] /\ \A d \in Caller \ {c} : caller'[d] = caller[d]
    BY <1>5 DEF Backup, Write, Reload, Go, TypeInv, TypeOK
  <2>4. /\ caller'[c].of = p /\ caller'[c].op = "apply" /\ caller'[c].at = at
        /\ caller'[c].row = caller[c].row /\ proposals' = proposals /\ refused' = refused
    BY <1>5, <2>2, <2>3 DEF Backup, Write, Reload, ghosts, TypeInv, TypeOK
  <2>5. OneCall'
    <3>1. caller[c].at \in {"backup", "write", "reload"}
      BY <1>5 DEF Backup, Write, Reload
    <3>2. caller'[c].row = proposals'[caller'[c].of]
      BY <2>1, <2>2, <2>4, <3>1 DEF OneCall
    <3>3. \A d \in Caller \ {c} : caller'[d].at = "idle"
      BY <2>1, <2>2, <2>3 DEF OneCall, Busy
    <3> QED
      BY <3>2, <3>3 DEF OneCall, Busy
  <2>6. RefusalsStand'
    BY <2>1, <2>4 DEF AloneInv, RefusalsStand
  <2>7. \A d \in Caller \ {c} : caller[d].at = "idle" /\ caller'[d].at = "idle"
    BY <2>1, <2>2, <2>3 DEF OneCall, Busy
  <2>8. ASSUME mishaps = 0 PROVE (WrittenIsApplied /\ BackedUp)'
    <3>1. WrittenIsApplied /\ BackedUp
      BY <2>1, <2>8 DEF AloneInv
    <3>2. caller[c].at \in {"backup", "write"} => replaced[p] = "unwritten"
      BY <2>2, <2>7, <3>1 DEF WrittenIsApplied, Writing
    <3>3. CASE Backup(c)
      <4>1. /\ history' = IF file[Target[p]] = "nothing" THEN history ELSE [history EXCEPT ![p] = file[Target[p]]]
            /\ caller[c].at = "backup" /\ caller'[c].at = "write" /\ UNCHANGED <<file, replaced>>
        BY <2>2, <3>3 DEF Backup, Go, ghosts, TypeInv, TypeOK
      <4>2. WrittenIsApplied'
        BY <2>3, <2>4, <2>7, <3>1, <4>1 DEF WrittenIsApplied, Writing
      <4>3. BackedUp'
        BY <2>3, <2>4, <2>7, <3>1, <3>2, <4>1 DEF BackedUp, TypeInv, TypeOK
      <4> QED
        BY <4>2, <4>3
    <3>4. CASE Write(c)
      <4>1. /\ replaced' = [replaced EXCEPT ![p] = file[Target[p]]] /\ history' = history
            /\ caller[c].at = "write" /\ caller'[c].at = "reload"
        BY <2>2, <3>2, <3>4 DEF Write, Go, TypeInv, TypeOK
      <4>2. file[Target[p]] # "nothing" => history[p] = file[Target[p]]
        BY <2>2, <3>1, <4>1 DEF BackedUp
      <4>3. Writing(c, p)'
        BY <2>4, <4>1 DEF Writing
      <4>4. WrittenIsApplied'
        BY <2>4, <2>7, <3>1, <4>1, <4>3 DEF WrittenIsApplied, Writing, TypeInv, TypeOK
      <4>5. BackedUp'
        BY <2>7, <3>1, <4>1, <4>2 DEF BackedUp, TypeInv, TypeOK
      <4> QED
        BY <4>4, <4>5
    <3>5. CASE Reload(c)
      <4>1. /\ caller[c].at = "reload" /\ caller'[c].at = "save" /\ UNCHANGED <<file, history, replaced>>
        BY <3>5 DEF Reload, Go, ghosts, TypeInv, TypeOK
      <4>2. WrittenIsApplied'
        BY <2>2, <2>4, <2>7, <3>1, <4>1 DEF WrittenIsApplied, Writing
      <4>3. BackedUp'
        BY <2>7, <3>1, <4>1 DEF BackedUp
      <4> QED
        BY <4>2, <4>3
    <3> QED
      BY <1>5, <3>3, <3>4, <3>5
  <2> QED
    BY <2>1, <2>5, <2>6, <2>8
<1>6. ASSUME NEW c \in Caller, ReloadRaises(c) \/ Crash(c)
      PROVE  (OneCall /\ RefusalsStand /\ (mishaps = 0 => WrittenIsApplied /\ BackedUp))'
  <2>1. /\ overlaps = 0 /\ mishaps' # 0 /\ caller'[c].at = "idle"
        /\ \A d \in Caller \ {c} : caller'[d] = caller[d]
        /\ UNCHANGED <<proposals, refused>>
    BY <1>6 DEF ReloadRaises, Crash, Go, TypeInv, TypeOK, ghosts
  <2> QED
    BY <2>1 DEF AloneInv, OneCall, Busy, RefusalsStand
<1>7. CASE Restart
  BY <1>7 DEF Restart, AloneInv, OneCall, Busy, RefusalsStand, WrittenIsApplied, Writing, BackedUp, ghosts, bounds
<1>8. CASE UNCHANGED vars
  BY <1>8 DEF vars, AloneInv, OneCall, Busy, RefusalsStand, WrittenIsApplied, Writing, BackedUp
<1> QED
  BY <1>1, <1>2, <1>3, <1>4, <1>5, <1>6, <1>7, <1>8 DEF Next

-----------------------------------------------------------------------------
IInv == ApprovalInv /\ AloneInv

LEMMA ProposalInvariant == Spec => []IInv
<1>1. Init => IInv
  BY ApprovalInit, AloneInit DEF IInv
<1>2. IInv /\ [Next]_vars => IInv'
  BY ApprovalStep, AloneStep DEF IInv, ApprovalInv
<1> QED
  BY <1>1, <1>2, PTL DEF Spec

\* Whoever overlaps or dies, nothing is written that no human approved after
\* it had passed (code in the sandbox, the rest in the verification), and no
\* code is loaded that the analysis refuses.
THEOREM WritesAreApproved == Spec => [](WrittenWasApproved /\ LoadedIsSound)
<1>1. IInv => WrittenWasApproved /\ LoadedIsSound
  BY DEF IInv, ApprovalInv
<1> QED
  BY <1>1, ProposalInvariant, PTL

\* Proposals keep their types, what is written was approved and what is loaded
\* is sound; while calls do not overlap a refusal stands, and without
\* interruptions what an application replaced is in the history.
THEOREM ProposalsDecided == Spec => []ProposalsAreDecided
<1>1. ASSUME IInv PROVE ProposalsAreDecided
  <2>1. TypeOK /\ WrittenWasApproved /\ LoadedIsSound
    BY <1>1 DEF IInv, ApprovalInv, TypeInv
  <2>2. ASSUME overlaps = 0, NEW p \in refused
        PROVE  /\ proposals[p].status = "rejected"
               /\ mishaps = 0 => replaced[p] = "unwritten"
    <3>1. proposals[p].status = "rejected" /\ OneCall /\ p \in Proposal
      BY <1>1, <2>1, <2>2 DEF IInv, AloneInv, RefusalsStand, TypeOK
    <3>2. ASSUME mishaps = 0, replaced[p] # "unwritten" PROVE FALSE
      <4>1. PICK c \in Caller : Writing(c, p)
        BY <1>1, <2>2, <3>1, <3>2 DEF IInv, AloneInv, WrittenIsApplied
      <4>2. caller[c].row.status = "approved"
        BY <1>1, <4>1 DEF IInv, ApprovalInv, TypeInv, Guarded, Writing, Permitted, MayApply
      <4>3. caller[c].row = proposals[p]
        BY <3>1, <4>1 DEF OneCall, Writing
      <4> QED
        BY <3>1, <4>2, <4>3
    <3> QED
      BY <3>1, <3>2
  <2>3. BackupIsPrevious
    BY <1>1 DEF IInv, AloneInv, BackedUp, BackupIsPrevious
  <2> QED
    BY <2>1, <2>2, <2>3 DEF ProposalsAreDecided, RejectionStands
<1> QED
  BY <1>1, ProposalInvariant, PTL

-----------------------------------------------------------------------------
(* Vertical packs                                                          *)

\* Whoever holds a row of a proposal has one that was made, and of its version
\* it still has to write some of the files.
PackWorks(c) ==
  LET me == packager[c] IN
  /\ me.at \in {"plan", "write", "record", "applied"} =>
       /\ packProposals[me.p].status # "none"
       /\ me.row.status # "none" /\ me.row.version \in PackVersion
  /\ me.at \in {"write", "record"} =>
       /\ me.record.version = me.row.version /\ me.todo \cap me.record.files = {}
       /\ me.todo \subseteq PackFiles[me.row.version] /\ me.record.files \subseteq PackFiles[me.row.version]

PackTypes ==
  /\ V!TypeOK
  /\ \A p \in PackProposal : IF packProposals[p].status = "none" THEN packProposals[p] = V!NoRow
                             ELSE packProposals[p].version \in PackVersion
  /\ installed.version = V!nothing => installed.files = {}
  /\ \A c \in Caller : PackWorks(c)

\* An update that was planned has in conflict what was somebody's own.
Respects(row, p) == row.plan.update => planned[p] \cap PackFiles[row.version] \subseteq row.plan.conflict
PlansRespect ==
  /\ \A p \in PackProposal : packProposals[p].status # "none" => Respects(packProposals[p], p)
  /\ \A c \in Caller : packager[c].at \in {"plan", "write", "record", "applied"} => Respects(packager[c].row, packager[c].p)

\* While nobody overlaps, one caller is at work at most; until it has recorded
\* what it does, what it did is on the record it holds.
OnRecord(f) == packFile[f] \in PackVersion => f \in installed.files /\ installed.sums[f] = packFile[f]
Recording(c) ==
  LET me == packager[c] IN
  CASE me.at \in {"plan", "applied"} -> \A f \in PackPath \ dropped : OnRecord(f)
    [] me.at \in {"write", "record"} ->
         /\ \A f \in PackPath \ (dropped \cup me.record.files) : OnRecord(f)
         /\ \A f \in me.record.files : /\ me.record.sums[f] = me.row.version
                                       /\ packFile[f] \in PackVersion => packFile[f] = me.row.version
    [] me.at \in {"unlink", "delete"} ->
         /\ me.record = installed /\ (me.at = "delete" => me.todo = {})
         /\ \A f \in PackPath \ dropped : packFile[f] \in PackVersion => f \in me.todo /\ installed.sums[f] = packFile[f]
OneAtWork == \A c, d \in Caller : packager[c].at # "idle" /\ packager[d].at # "idle" => c = d
RecordInv ==
  ~shared /\ packCrashes = 0 =>
    /\ OneAtWork
    /\ \A c \in Caller : packager[c].at # "idle" => Recording(c)
    /\ (\A c \in Caller : packager[c].at = "idle") => \A f \in PackPath \ dropped : OnRecord(f)

PacksInv == PackTypes /\ V!EditsSurvive /\ PlansRespect /\ RecordInv

LEMMA PackNumbers ==
  /\ V!nothing = 0 /\ V!own = -1 /\ V!nothing \notin PackVersion /\ V!own \notin PackVersion
  /\ V!Available \in PackVersion \cup {manifest, builtin}
  /\ PackProposal # {}
BY PacksAssumption DEF V!nothing, V!own, V!Available

LEMMA PacksInitially == V!Init => PacksInv
<1> SUFFICES ASSUME V!Init PROVE PacksInv
  OBVIOUS
<1>1. (CHOOSE p \in PackProposal : TRUE) \in PackProposal
  BY PacksAssumption
<1>2. V!NotInstalled \in [version : PackVersion \cup {V!nothing}, files : SUBSET PackPath, sums : [PackPath -> PackVersion \cup {V!nothing}]]
  BY DEF V!NotInstalled
<1>3. V!NoRow \in V!Row
  BY DEF V!NoRow, V!Row, V!Plan, V!NoPlan
<1>4. V!Idle \in [at : {"idle", "plan", "write", "record", "applied", "unlink", "delete"}, p : PackProposal, row : V!Row,
                  record : [version : PackVersion \cup {V!nothing}, files : SUBSET PackPath, sums : [PackPath -> PackVersion \cup {V!nothing}]],
                  todo : SUBSET PackPath]
  BY <1>1, <1>2, <1>3 DEF V!Idle
<1>0. packCalls \in 0..MaxPackCalls /\ packEdits \in 0..MaxPackEdits /\ packCrashes \in 0..MaxPackCrashes
  BY PacksAssumption DEF V!Init
<1>5. V!TypeOK
  BY <1>0, <1>2, <1>3, <1>4 DEF V!Init, V!TypeOK, V!Content
<1>6. \A c \in Caller : packager[c].at = "idle"
  BY DEF V!Init, V!Idle
<1>7. PackTypes
  BY <1>5, <1>6 DEF PackTypes, PackWorks, V!Init, V!NotInstalled, V!NoRow
<1>8. PlansRespect /\ V!EditsSurvive
  BY <1>6 DEF PlansRespect, V!EditsSurvive, V!Init, V!NoRow
<1>9. \A f \in PackPath : OnRecord(f)
  BY PackNumbers DEF OnRecord, V!Init
<1>10. RecordInv
  BY <1>6, <1>9 DEF RecordInv, OneAtWork, Recording
<1> QED
  BY <1>5, <1>7, <1>8, <1>10 DEF PacksInv

PackRecord == [version : PackVersion \cup {V!nothing}, files : SUBSET PackPath, sums : [PackPath -> PackVersion \cup {V!nothing}]]
Packager == [at : {"idle", "plan", "write", "record", "applied", "unlink", "delete"}, p : PackProposal, row : V!Row,
             record : PackRecord, todo : SUBSET PackPath]

LEMMA PackIdle == V!Idle \in Packager /\ V!Idle.at = "idle" /\ V!NoRow \in V!Row /\ V!NotInstalled \in PackRecord
<1>1. (CHOOSE p \in PackProposal : TRUE) \in PackProposal
  BY PacksAssumption
<1>2. V!NotInstalled \in PackRecord
  BY DEF V!NotInstalled, PackRecord
<1>3. V!NoRow \in V!Row
  BY DEF V!NoRow, V!Row, V!Plan, V!NoPlan
<1> QED
  BY <1>1, <1>2, <1>3 DEF V!Idle, Packager

LEMMA PackEnter ==
  ASSUME V!TypeOK, NEW c \in Caller, V!Enter(c)
  PROVE  /\ packCalls' \in 0..MaxPackCalls /\ packEdits' \in 0..MaxPackEdits /\ packCrashes' \in 0..MaxPackCrashes
         /\ shared' \in BOOLEAN /\ packager[c].at = "idle" /\ packCrashes' = packCrashes
         /\ ~shared' => ~shared /\ \A d \in Caller : packager[d].at = "idle"
<1>1. packCalls' \in 0..MaxPackCalls
  BY PacksAssumption DEF V!TypeOK, V!Enter
<1>2. shared' \in BOOLEAN /\ (~shared' => ~shared /\ \A d \in Caller : packager[d].at = "idle")
  BY ZenonT(30) DEF V!TypeOK, V!Enter
<1>3. packEdits' \in 0..MaxPackEdits /\ packCrashes' \in 0..MaxPackCrashes /\ packager[c].at = "idle" /\ packCrashes' = packCrashes
  BY DEF V!TypeOK, V!Enter
<1> QED
  BY <1>1, <1>2, <1>3

\* A caller, a proposal and the record that change as they may leave all the rest.
PackRows ==
  /\ manifest' \in PackVersion \cup {V!nothing} /\ builtin' = builtin
  /\ packFile' \in [PackPath -> V!Content]
  /\ installed' \in PackRecord /\ (installed'.version = V!nothing => installed'.files = {})
  /\ packProposals' \in [PackProposal -> V!Row]
  /\ \A p \in PackProposal : \/ packProposals'[p] = packProposals[p]
                            \/ (packProposals'[p].status # "none" /\ packProposals'[p].version \in PackVersion)
PackMoves ==
  /\ packager' \in [Caller -> Packager]
  /\ \A c \in Caller : packager'[c] = packager[c] \/ PackWorks(c)'
PackGhosts ==
  /\ planned' \in [PackProposal -> SUBSET PackPath]
  /\ lost' \subseteq PackPath \X {"installed", "asked", "planned", "unplanned", "removed", "unrecorded"}
  /\ dropped' \subseteq PackPath
PackBounds ==
  shared' \in BOOLEAN /\ packCalls' \in 0..MaxPackCalls /\ packEdits' \in 0..MaxPackEdits /\ packCrashes' \in 0..MaxPackCrashes

LEMMA PackTypesKept ==
  ASSUME PackTypes, PackRows, PackMoves, PackGhosts, PackBounds
  PROVE  PackTypes'
<1> USE DEF PackRows, PackMoves, PackGhosts, PackBounds
<1>1. V!TypeOK'
  BY DEF PackTypes, V!TypeOK, PackRecord, Packager
<1>2. ASSUME NEW p \in PackProposal
      PROVE  (IF packProposals[p].status = "none" THEN packProposals[p] = V!NoRow
                             ELSE packProposals[p].version \in PackVersion)'
  <2>1. CASE packProposals'[p] = packProposals[p]
    BY <2>1 DEF PackTypes, V!NoRow, V!NoPlan, V!nothing
  <2>2. CASE packProposals'[p].status # "none" /\ packProposals'[p].version \in PackVersion
    BY <2>2
  <2> QED
    BY <2>1, <2>2
<1>3. ASSUME NEW c \in Caller PROVE PackWorks(c)'
  <2>1. CASE packager'[c] = packager[c]
    <3>1. packager[c].p \in PackProposal
      BY DEF PackTypes, V!TypeOK
    <3>2. packProposals[packager[c].p].status # "none" => packProposals'[packager[c].p].status # "none"
      BY <3>1
    <3> QED
      BY <2>1, <3>1, <3>2 DEF PackTypes, PackWorks
  <2> QED
    BY <2>1
<1> QED
  BY <1>1, <1>2, <1>3 DEF PackTypes, V!nothing

LEMMA PackTypesSteps == PackTypes /\ [V!Next]_V!vars => PackTypes'
<1> SUFFICES ASSUME PackTypes, [V!Next]_V!vars PROVE PackTypes'
  OBVIOUS
<1>0. /\ manifest \in PackVersion \cup {V!nothing} /\ builtin \in PackVersion
      /\ V!Available \in PackVersion
      /\ packFile \in [PackPath -> V!Content] /\ installed \in PackRecord
      /\ (installed.version = V!nothing => installed.files = {})
      /\ packProposals \in [PackProposal -> V!Row] /\ packager \in [Caller -> Packager]
      /\ planned \in [PackProposal -> SUBSET PackPath]
      /\ lost \subseteq PackPath \X {"installed", "asked", "planned", "unplanned", "removed", "unrecorded"}
      /\ dropped \subseteq PackPath /\ shared \in BOOLEAN
      /\ packCalls \in 0..MaxPackCalls /\ packEdits \in 0..MaxPackEdits /\ packCrashes \in 0..MaxPackCrashes
      /\ V!TypeOK
  BY DEF PackTypes, V!TypeOK, PackRecord, Packager, V!Available
<1>1. ASSUME NEW c \in Caller, NEW p \in PackProposal, V!Propose(c, p) PROVE PackTypes'
  <2>1. /\ packCalls' \in 0..MaxPackCalls /\ packEdits' \in 0..MaxPackEdits /\ packCrashes' \in 0..MaxPackCrashes /\ shared' \in BOOLEAN
    BY <1>0, <1>1, PackEnter DEF V!Propose
  <2>2. [status |-> "validated", version |-> V!Available, plan |-> V!NoPlan] \in V!Row
    BY <1>0 DEF V!Row, V!Plan, V!NoPlan
  <2> HIDE DEF V!NoPlan, V!Available
  <2>3. PackRows
    BY <1>0, <1>1, <2>2 DEF V!Propose, PackRows
  <2>4. PackMoves /\ PackGhosts /\ PackBounds
    BY <1>0, <1>1, <2>1 DEF V!Propose, PackMoves, PackGhosts, PackBounds
  <2> QED
    BY <2>3, <2>4, PackTypesKept
<1>2. ASSUME NEW c \in Caller, NEW p \in PackProposal, V!Update(c, p) PROVE PackTypes'
  <2>1. PackBounds
    BY <1>0, <1>2, PackEnter DEF V!Update, PackBounds
  <2>2. PICK overwrite \in BOOLEAN :
          LET row == [status |-> "validated", version |-> V!Available,
                      plan |-> [update |-> TRUE, conflict |-> V!Conflicts, overwrite |-> overwrite]]
          IN  /\ packProposals' = [packProposals EXCEPT ![p] = [row EXCEPT !.plan = V!NoPlan]]
              /\ packager' = [packager EXCEPT ![c] = [V!Idle EXCEPT !.at = "plan", !.p = p, !.row = row]]
    BY <1>2 DEF V!Update
  <2>3. V!Conflicts \subseteq PackPath
    BY <1>0, PacksAssumption DEF V!Conflicts
  <2> DEFINE row == [status |-> "validated", version |-> V!Available,
                     plan |-> [update |-> TRUE, conflict |-> V!Conflicts, overwrite |-> overwrite]]
  <2>4. row \in V!Row /\ [row EXCEPT !.plan = V!NoPlan] \in V!Row
    BY <1>0, <2>3 DEF V!Row, V!Plan, V!NoPlan
  <2>5. row.status # "none" /\ row.version \in PackVersion
        /\ [row EXCEPT !.plan = V!NoPlan].status # "none" /\ [row EXCEPT !.plan = V!NoPlan].version \in PackVersion
    BY <1>0
  <2> HIDE DEF row
  <2>6. PackRows
    BY <1>0, <1>2, <2>2, <2>4, <2>5 DEF V!Update, PackRows, row
  <2>7. PackGhosts
    BY <1>0, <1>2 DEF V!Update, PackGhosts
  <2>8. packager'[c] = [V!Idle EXCEPT !.at = "plan", !.p = p, !.row = row] /\ packager'[c] \in Packager
        /\ packProposals'[p].status # "none"
    BY <1>0, <2>2, <2>4, <2>5, PackIdle DEF row, Packager
  <2>9. PackWorks(c)'
    BY <2>5, <2>8, PackIdle DEF PackWorks, Packager
  <2>10. PackMoves
    BY <1>0, <2>2, <2>8, <2>9 DEF PackMoves
  <2> QED
    BY <2>1, <2>6, <2>7, <2>10, PackTypesKept
<1>3. ASSUME NEW c \in Caller, V!SavePlan(c) PROVE PackTypes'
  <2>1. packager[c] \in Packager /\ packager[c].row \in V!Row /\ packager[c].row.status # "none" /\ packager[c].row.version \in PackVersion
    BY <1>0, <1>3 DEF V!SavePlan, PackTypes, PackWorks, Packager
  <2>2. PackRows
    BY <1>0, <1>3, <2>1 DEF V!SavePlan, PackRows
  <2>3. packager'[c] = V!Idle /\ packager' \in [Caller -> Packager]
    BY <1>0, <1>3, PackIdle DEF V!SavePlan
  <2>4. PackWorks(c)'
    BY <2>3, PackIdle DEF PackWorks
  <2>5. PackMoves
    BY <1>0, <1>3, <2>3, <2>4 DEF PackMoves, V!SavePlan
  <2> QED
    BY <1>0, <1>3, <2>2, <2>5, PackTypesKept DEF V!SavePlan, V!bounds, PackGhosts, PackBounds
<1>4. ASSUME NEW c \in Caller, NEW p \in PackProposal, V!Approve(c, p) PROVE PackTypes'
  <2>1. PackBounds
    BY <1>0, <1>4, PackEnter DEF V!Approve, PackBounds
  <2>2. packProposals[p].version \in PackVersion /\ packProposals[p] \in V!Row
    BY <1>0, <1>4 DEF V!Approve, PackTypes
  <2>3. [packProposals[p] EXCEPT !.status = "approved"] \in V!Row
    BY <2>2 DEF V!Row
  <2>4. packProposals' = [packProposals EXCEPT ![p] = [packProposals[p] EXCEPT !.status = "approved"]]
    BY <1>4 DEF V!Approve
  <2>5. packProposals' \in [PackProposal -> V!Row]
    BY <1>0, <2>3, <2>4
  <2>6. packProposals'[p].status = "approved" /\ packProposals'[p].version \in PackVersion
    BY <1>0, <2>2, <2>4 DEF V!Row
  <2>7. PackRows
    BY <1>0, <1>4, <2>4, <2>5, <2>6 DEF V!Approve, PackRows
  <2> QED
    BY <1>0, <1>4, <2>1, <2>7, PackTypesKept DEF V!Approve, PackMoves, PackGhosts
<1>5. ASSUME NEW c \in Caller, NEW p \in PackProposal, V!Apply(c, p) PROVE PackTypes'
  <2>1. PackBounds
    BY <1>0, <1>5, PackEnter DEF V!Apply, PackBounds
  <2>2. packProposals[p].version \in PackVersion /\ packProposals[p] \in V!Row /\ packProposals[p].status # "none"
    BY <1>0, <1>5 DEF V!Apply, PackTypes
  <2>3. PackFiles[packProposals[p].version] \subseteq PackPath
    BY <2>2, PacksAssumption
  <2>4. PackRows
    BY <1>0, <1>5, <2>2 DEF V!Apply, PackRows
  <2> DEFINE me == [V!Idle EXCEPT !.at = "write", !.p = p, !.row = packProposals[p],
                                  !.record.version = packProposals[p].version,
                                  !.todo = PackFiles[packProposals[p].version]]
  <2>5. me \in Packager /\ me.at = "write" /\ me.p = p /\ me.row = packProposals[p] /\ me.todo = PackFiles[packProposals[p].version]
        /\ me.record.version = packProposals[p].version /\ me.record.files = {}
    <3>1. V!Idle \in Packager /\ V!Idle.record = V!NotInstalled /\ V!Idle.record \in PackRecord /\ V!Idle.record.files = {}
      BY PackIdle DEF V!Idle, V!NotInstalled
    <3>2. [V!Idle.record EXCEPT !.version = packProposals[p].version] \in PackRecord
      BY <2>2, <3>1 DEF PackRecord
    <3> QED
      BY <2>2, <2>3, <3>1, <3>2 DEF Packager, PackRecord
  <2>6. packager' = [packager EXCEPT ![c] = me]
    BY <1>5 DEF V!Apply
  <2> HIDE DEF me
  <2>7. packager'[c] = me /\ packager' \in [Caller -> Packager] /\ packProposals' = packProposals
    BY <1>0, <1>5, <2>5, <2>6 DEF V!Apply
  <2>8. PackWorks(c)'
    BY <2>2, <2>5, <2>7 DEF PackWorks
  <2>9. PackMoves
    BY <1>0, <2>6, <2>7, <2>8 DEF PackMoves
  <2> QED
    BY <1>0, <1>5, <2>1, <2>4, <2>9, PackTypesKept DEF V!Apply, PackGhosts
<1>6. ASSUME NEW c \in Caller, V!WriteFile(c) PROVE PackTypes'
  <2> DEFINE me == packager[c]
  <2>1. /\ me \in Packager /\ me.record \in PackRecord /\ me.row \in V!Row /\ me.todo \subseteq PackPath /\ me.p \in PackProposal
        /\ me.at = "write" /\ packProposals[me.p].status # "none" /\ me.row.status # "none" /\ me.row.version \in PackVersion
        /\ me.record.version = me.row.version /\ me.todo \cap me.record.files = {}
        /\ me.todo \subseteq PackFiles[me.row.version] /\ me.record.files \subseteq PackFiles[me.row.version]
    BY <1>0, <1>6 DEF V!WriteFile, PackTypes, PackWorks, Packager
  <2>2. PICK f \in me.todo :
          LET done == [me EXCEPT !.todo = @ \ {f}, !.at = IF me.todo = {f} THEN "record" ELSE "write"]
          IN  IF V!MayWrite(me.row.plan, f)
              THEN /\ packFile' = [packFile EXCEPT ![f] = me.row.version]
                   /\ lost' = IF packFile[f] = V!own THEN lost \cup {<<f, V!How(me.p, f, me.row)>>} ELSE lost
                   /\ packager' = [packager EXCEPT ![c] = [done EXCEPT !.record.files = @ \cup {f},
                                                                      !.record.sums[f] = me.row.version]]
              ELSE packager' = [packager EXCEPT ![c] = done] /\ packFile' = packFile /\ lost' = lost
    BY <1>6 DEF V!WriteFile
  <2> DEFINE done == [me EXCEPT !.todo = @ \ {f}, !.at = IF me.todo = {f} THEN "record" ELSE "write"]
             wrote == [done EXCEPT !.record.files = @ \cup {f}, !.record.sums[f] = me.row.version]
  <2>3. /\ done \in Packager /\ done.at \in {"write", "record"} /\ done.p = me.p /\ done.row = me.row
        /\ done.todo = me.todo \ {f} /\ done.record = me.record
    BY <2>1, <2>2 DEF Packager
  <2>4. /\ wrote \in Packager /\ wrote.at \in {"write", "record"} /\ wrote.p = me.p /\ wrote.row = me.row
        /\ wrote.todo = me.todo \ {f} /\ wrote.record.version = me.record.version /\ wrote.record.files = me.record.files \cup {f}
    <3>1. [[me.record EXCEPT !.files = @ \cup {f}] EXCEPT !.sums[f] = me.row.version] \in PackRecord
      BY <2>1, <2>2 DEF PackRecord
    <3> HIDE DEF me
    <3> QED
      BY <2>1, <2>2, <2>3, <3>1 DEF Packager, PackRecord
  <2>5. V!How(me.p, f, me.row) \in {"installed", "asked", "planned", "unplanned"}
    BY DEF V!How
  <2> HIDE DEF me, done, wrote
  <2>6. packager'[c] \in {done, wrote} /\ packager' \in [Caller -> Packager] /\ packProposals' = packProposals
        /\ \A d \in Caller : d # c => packager'[d] = packager[d]
    BY <1>0, <1>6, <2>2, <2>3, <2>4 DEF V!WriteFile, done, wrote
  <2>7. PackWorks(c)'
    BY <2>1, <2>2, <2>3, <2>4, <2>6 DEF PackWorks
  <2>8. PackMoves
    BY <2>6, <2>7 DEF PackMoves
  <2>9. packFile' \in [PackPath -> V!Content]
    BY <1>0, <2>1, <2>2 DEF V!Content
  <2>10. PackRows
    BY <1>0, <1>6, <2>9 DEF V!WriteFile, PackRows
  <2>11. lost' \subseteq PackPath \X {"installed", "asked", "planned", "unplanned", "removed", "unrecorded"}
    BY <1>0, <2>1, <2>2, <2>5
  <2> QED
    BY <1>0, <1>6, <2>8, <2>10, <2>11, PackTypesKept DEF V!WriteFile, V!bounds, PackGhosts, PackBounds
<1>7. ASSUME NEW c \in Caller, V!SaveRecord(c) PROVE PackTypes'
  <2> DEFINE me == packager[c]
  <2>1. /\ me \in Packager /\ me.record \in PackRecord /\ me.at = "record" /\ packProposals[me.p].status # "none"
        /\ me.row.status # "none" /\ me.row.version \in PackVersion /\ me.record.version = me.row.version
    BY <1>0, <1>7 DEF V!SaveRecord, PackTypes, PackWorks, Packager
  <2>2. PackFiles[me.record.version] \subseteq PackPath
    BY <2>1, PacksAssumption
  <2>3. V!Preserved(me.record) \in PackRecord /\ V!Preserved(me.record).version = me.record.version
    BY <1>0, <2>1, <2>2 DEF V!Preserved, PackRecord
  <2>4. installed' \in PackRecord /\ installed'.version # V!nothing
    BY <1>7, <2>1, <2>3, PackNumbers DEF V!SaveRecord
  <2>5. [me EXCEPT !.at = "applied"] \in Packager
    BY <2>1 DEF Packager
  <2>6. packager' = [packager EXCEPT ![c] = [me EXCEPT !.at = "applied"]] /\ packProposals' = packProposals
    BY <1>7 DEF V!SaveRecord
  <2>7. PackWorks(c)'
    <3>1. packager'[c] = [me EXCEPT !.at = "applied"]
      BY <1>0, <2>6
    <3> QED
      BY <2>1, <2>6, <3>1 DEF PackWorks, Packager
  <2> HIDE DEF me
  <2>8. PackMoves
    BY <1>0, <2>5, <2>6, <2>7 DEF PackMoves
  <2>9. dropped' \subseteq PackPath
    BY <1>0, <1>7 DEF V!SaveRecord, PackRecord
  <2>10. PackRows
    BY <1>0, <1>7, <2>4 DEF V!SaveRecord, PackRows
  <2> QED
    BY <1>0, <1>7, <2>8, <2>9, <2>10, PackTypesKept DEF V!SaveRecord, V!bounds, PackGhosts, PackBounds
<1>8. ASSUME NEW c \in Caller, V!SaveApplied(c) PROVE PackTypes'
  <2>1. packager[c] \in Packager /\ packager[c].p \in PackProposal /\ packager[c].row \in V!Row /\ packager[c].row.version \in PackVersion
    BY <1>0, <1>8 DEF V!SaveApplied, PackTypes, PackWorks, Packager
  <2>2. [packager[c].row EXCEPT !.status = "applied"] \in V!Row
    BY <2>1 DEF V!Row
  <2>3. [packager[c].row EXCEPT !.status = "applied"].status = "applied"
        /\ [packager[c].row EXCEPT !.status = "applied"].version \in PackVersion
    BY <2>1 DEF V!Row
  <2>4. PackRows
    BY <1>0, <1>8, <2>1, <2>2, <2>3 DEF V!SaveApplied, PackRows
  <2>5. packager'[c] = V!Idle /\ packager' \in [Caller -> Packager]
    BY <1>0, <1>8, PackIdle DEF V!SaveApplied
  <2>6. PackWorks(c)'
    BY <2>5, PackIdle DEF PackWorks
  <2>7. PackMoves
    BY <1>0, <1>8, <2>5, <2>6 DEF PackMoves, V!SaveApplied
  <2> QED
    BY <1>0, <1>8, <2>4, <2>7, PackTypesKept DEF V!SaveApplied, V!bounds, PackGhosts, PackBounds
<1>9. ASSUME NEW c \in Caller, V!Remove(c) PROVE PackTypes'
  <2>1. PackBounds
    BY <1>0, <1>9, PackEnter DEF V!Remove, PackBounds
  <2> DEFINE me == [V!Idle EXCEPT !.at = IF installed.files = {} THEN "delete" ELSE "unlink",
                                  !.record = installed, !.todo = installed.files]
  <2>2. me \in Packager /\ me.at \in {"delete", "unlink"}
    BY <1>0, PackIdle DEF Packager, PackRecord
  <2>3. packager' = [packager EXCEPT ![c] = me]
    BY <1>9 DEF V!Remove
  <2> HIDE DEF me
  <2>4. PackWorks(c)'
    BY <1>0, <2>2, <2>3 DEF PackWorks
  <2>5. PackMoves
    BY <1>0, <2>2, <2>3, <2>4 DEF PackMoves
  <2> QED
    BY <1>0, <1>9, <2>1, <2>5, PackTypesKept DEF V!Remove, PackGhosts, PackRows
<1>10. ASSUME NEW c \in Caller, V!Unlink(c) PROVE PackTypes'
  <2> DEFINE me == packager[c]
  <2>1. me \in Packager /\ me.todo \subseteq PackPath /\ me.at = "unlink"
    BY <1>0, <1>10 DEF V!Unlink, Packager
  <2>2. PICK f \in me.todo :
       /\ IF packFile[f] # V!nothing /\ V!MayUnlink(me.record, f)
          THEN /\ packFile' = [packFile EXCEPT ![f] = V!nothing]
               /\ lost' = IF packFile[f] = V!own
                          THEN lost \cup {<<f, IF me.record.sums[f] = V!nothing THEN "unrecorded" ELSE "removed">>}
                          ELSE lost
          ELSE packFile' = packFile /\ lost' = lost
       /\ packager' = [packager EXCEPT ![c].todo = @ \ {f}, ![c].at = IF me.todo = {f} THEN "delete" ELSE "unlink"]
    BY <1>10 DEF V!Unlink
  <2>3. packager'[c] = [me EXCEPT !.todo = @ \ {f}, !.at = IF me.todo = {f} THEN "delete" ELSE "unlink"]
        /\ \A d \in Caller : d # c => packager'[d] = packager[d]
    BY <1>0, <2>2
  <2>4. packager'[c] \in Packager /\ packager'[c].at \in {"delete", "unlink"}
    BY <2>1, <2>3 DEF Packager
  <2>5. packager' \in [Caller -> Packager]
    BY <1>0, <2>2, <2>3, <2>4
  <2>6. PackMoves
    BY <2>3, <2>4, <2>5 DEF PackMoves, PackWorks
  <2>7. packFile' \in [PackPath -> V!Content]
    BY <1>0, <2>2 DEF V!Content
  <2>8. lost' \subseteq PackPath \X {"installed", "asked", "planned", "unplanned", "removed", "unrecorded"}
    BY <1>0, <2>1, <2>2
  <2> HIDE DEF me
  <2>9. PackRows
    BY <1>0, <1>10, <2>7 DEF V!Unlink, PackRows
  <2> QED
    BY <1>0, <1>10, <2>6, <2>8, <2>9, PackTypesKept DEF V!Unlink, V!bounds, PackGhosts, PackBounds
<1>11. ASSUME NEW c \in Caller, V!DeleteRecord(c) PROVE PackTypes'
  <2>1. packager'[c] = V!Idle /\ packager' \in [Caller -> Packager]
    BY <1>0, <1>11, PackIdle DEF V!DeleteRecord
  <2>2. PackWorks(c)'
    BY <2>1, PackIdle DEF PackWorks
  <2>3. PackMoves
    BY <1>0, <1>11, <2>1, <2>2 DEF PackMoves, V!DeleteRecord
  <2>4. PackRows
    BY <1>0, <1>11, PackIdle DEF V!DeleteRecord, PackRows, V!NotInstalled
  <2> QED
    BY <1>0, <1>11, <2>3, <2>4, PackTypesKept DEF V!DeleteRecord, V!bounds, PackGhosts, PackBounds
<1>12. ASSUME V!Edit PROVE PackTypes'
  <2>1. packEdits' \in 0..MaxPackEdits
    BY <1>0, <1>12, PacksAssumption DEF V!Edit
  <2>2. PackRows
    BY <1>0, <1>12 DEF V!Edit, PackRows, V!Content
  <2> QED
    BY <1>0, <1>12, <2>1, <2>2, PackTypesKept DEF V!Edit, PackMoves, PackGhosts, PackBounds
<1>13. ASSUME NEW c \in Caller, V!Crash(c) PROVE PackTypes'
  <2>1. packager'[c] = V!Idle /\ packager' \in [Caller -> Packager]
    BY <1>0, <1>13, PackIdle DEF V!Crash
  <2>2. PackWorks(c)'
    BY <2>1, PackIdle DEF PackWorks
  <2>3. PackMoves
    BY <1>0, <1>13, <2>1, <2>2 DEF PackMoves, V!Crash
  <2>4. packCrashes' \in 0..MaxPackCrashes
    BY <1>0, <1>13, PacksAssumption DEF V!Crash
  <2> QED
    BY <1>0, <1>13, <2>3, <2>4, PackTypesKept DEF V!Crash, PackRows, PackGhosts, PackBounds
<1>14. CASE UNCHANGED V!vars
  BY <1>0, <1>14, PackTypesKept DEF V!vars, PackRows, PackMoves, PackGhosts, PackBounds
<1> QED
  BY <1>1, <1>2, <1>3, <1>4, <1>5, <1>6, <1>7, <1>8, <1>9, <1>10, <1>11, <1>12, <1>13, <1>14 DEF V!Next

\* No plan and no removal costs somebody his edits.
LEMMA PackEditsSteps ==
  PackTypes /\ PackTypes' /\ V!EditsSurvive /\ PlansRespect /\ [V!Next]_V!vars => V!EditsSurvive' /\ PlansRespect'
<1> SUFFICES ASSUME PackTypes, PackTypes', V!EditsSurvive, PlansRespect, [V!Next]_V!vars
             PROVE  V!EditsSurvive' /\ PlansRespect'
  OBVIOUS
<1> DEFINE Holds(c) == packager[c].at \in {"plan", "write", "record", "applied"}
<1>0. /\ packFile \in [PackPath -> V!Content] /\ installed \in PackRecord
      /\ packProposals \in [PackProposal -> V!Row] /\ packager \in [Caller -> Packager]
      /\ planned \in [PackProposal -> SUBSET PackPath] /\ V!Available \in PackVersion
      /\ \A c \in Caller : Holds(c) => packProposals[packager[c].p].status # "none" /\ packager[c].p \in PackProposal
      /\ \A p \in PackProposal : packProposals[p].status # "none" => Respects(packProposals[p], p)
      /\ \A c \in Caller : Holds(c) => Respects(packager[c].row, packager[c].p)
  BY DEF PackTypes, V!TypeOK, PackRecord, Packager, V!Available, PackWorks, PlansRespect
\* What was planned stays as it is, and whoever changes brings what respects it.
<1>a. ASSUME planned' = planned,
             \A p \in PackProposal : packProposals'[p] = packProposals[p] \/ Respects(packProposals'[p], p),
             \A c \in Caller : \/ packager'[c] = packager[c]
                              \/ packager'[c].at \in {"idle", "unlink", "delete"}
                              \/ Respects(packager'[c].row, packager'[c].p)
      PROVE  PlansRespect'
  BY <1>0, <1>a DEF PlansRespect, Respects
<1>1. ASSUME NEW c \in Caller, NEW p \in PackProposal, V!Propose(c, p) PROVE V!EditsSurvive' /\ PlansRespect'
  <2>1. packProposals'[p].plan = V!NoPlan /\ \A q \in PackProposal : q # p => packProposals'[q] = packProposals[q]
    BY <1>0, <1>1 DEF V!Propose
  <2>2. Respects(packProposals'[p], p)
    BY <2>1 DEF Respects, V!NoPlan
  <2> QED
    BY <1>1, <1>a, <2>1, <2>2 DEF V!Propose, V!EditsSurvive
<1>2. ASSUME NEW c \in Caller, NEW p \in PackProposal, V!Update(c, p) PROVE V!EditsSurvive' /\ PlansRespect'
  <2>1. PICK overwrite \in BOOLEAN :
          LET row == [status |-> "validated", version |-> V!Available,
                      plan |-> [update |-> TRUE, conflict |-> V!Conflicts, overwrite |-> overwrite]]
          IN  /\ packProposals' = [packProposals EXCEPT ![p] = [row EXCEPT !.plan = V!NoPlan]]
              /\ packager' = [packager EXCEPT ![c] = [V!Idle EXCEPT !.at = "plan", !.p = p, !.row = row]]
    BY <1>2 DEF V!Update
  <2>2. planned' = [planned EXCEPT ![p] = {f \in PackPath : packFile[f] = V!own}] /\ lost' = lost
    BY <1>2 DEF V!Update
  <2>3. {f \in PackPath : packFile[f] = V!own} \cap PackFiles[V!Available] \subseteq V!Conflicts
    <3> SUFFICES ASSUME NEW f \in PackPath, packFile[f] = V!own, f \in PackFiles[V!Available] PROVE f \in V!Conflicts
      OBVIOUS
    <3>1. installed.sums[f] \in PackVersion \cup {V!nothing}
      BY <1>0 DEF PackRecord
    <3> QED
      BY <3>1, PackNumbers DEF V!Conflicts
  <2>4. /\ packager'[c].row.version = V!Available /\ packager'[c].row.plan.conflict = V!Conflicts /\ packager'[c].p = p
        /\ packProposals'[p].plan = V!NoPlan
        /\ \A d \in Caller : d # c => packager'[d] = packager[d]
        /\ \A q \in PackProposal : q # p => packProposals'[q] = packProposals[q]
    BY <1>0, <2>1, PackIdle DEF Packager
  <2>5. packProposals[p].status = "none"
    BY <1>2 DEF V!Update, V!Fresh, V!NoRow
  <2>6. \A d \in Caller : d # c /\ Holds(d) => packager[d].p # p
    BY <1>0, <2>5
  <2>7. \A q \in PackProposal : q # p => planned'[q] = planned[q]
    BY <1>0, <2>2
  <2>8. Respects(packProposals[p], p)'
    BY <2>4 DEF Respects, V!NoPlan
  <2>9. Respects(packager[c].row, packager[c].p)'
    BY <1>0, <2>2, <2>3, <2>4 DEF Respects
  <2>10. \A d \in Caller : d # c /\ packager'[d].at \in {"plan", "write", "record", "applied"} => Respects(packager[d].row, packager[d].p)'
    BY <1>0, <2>4, <2>6, <2>7 DEF Respects
  <2>11. \A q \in PackProposal : packProposals'[q].status # "none" => Respects(packProposals[q], q)'
    BY <1>0, <2>4, <2>7, <2>8 DEF Respects
  <2> QED
    BY <2>2, <2>9, <2>10, <2>11 DEF PlansRespect, V!EditsSurvive
<1>3. ASSUME NEW c \in Caller, V!SavePlan(c) PROVE V!EditsSurvive' /\ PlansRespect'
  <2>1. /\ \A q \in PackProposal : packProposals'[q] = packProposals[q] \/ (q = packager[c].p /\ packProposals'[q] = packager[c].row)
        /\ \A d \in Caller : packager'[d] = packager[d] \/ packager'[d].at = "idle"
    BY <1>0, <1>3, PackIdle DEF V!SavePlan
  <2> QED
    BY <1>0, <1>3, <1>a, <2>1 DEF V!SavePlan, V!EditsSurvive
<1>4. ASSUME NEW c \in Caller, NEW p \in PackProposal, V!Approve(c, p) PROVE V!EditsSurvive' /\ PlansRespect'
  <2>1. /\ packProposals[p] \in V!Row /\ packProposals[p].status # "none"
        /\ packProposals' = [packProposals EXCEPT ![p] = [packProposals[p] EXCEPT !.status = "approved"]]
    BY <1>0, <1>4 DEF V!Approve
  <2>2. /\ packProposals'[p].plan = packProposals[p].plan /\ packProposals'[p].version = packProposals[p].version
        /\ \A q \in PackProposal : q # p => packProposals'[q] = packProposals[q]
    BY <1>0, <2>1 DEF V!Row
  <2>3. Respects(packProposals'[p], p)
    BY <1>0, <2>1, <2>2 DEF Respects
  <2> QED
    BY <1>4, <1>a, <2>2, <2>3 DEF V!Approve, V!EditsSurvive
<1>5. ASSUME NEW c \in Caller, NEW p \in PackProposal, V!Apply(c, p) PROVE V!EditsSurvive' /\ PlansRespect'
  <2>1. packager'[c].row = packProposals[p] /\ packager'[c].p = p /\ packProposals[p].status # "none"
        /\ \A d \in Caller : d # c => packager'[d] = packager[d]
    BY <1>0, <1>5, PackIdle DEF V!Apply, Packager
  <2>2. Respects(packager'[c].row, packager'[c].p)
    BY <1>0, <2>1
  <2>3. planned' = planned /\ packProposals' = packProposals /\ lost' = lost
    BY <1>5 DEF V!Apply
  <2> QED
    BY <1>a, <2>1, <2>2, <2>3 DEF V!EditsSurvive
<1>6. ASSUME NEW c \in Caller, V!WriteFile(c) PROVE V!EditsSurvive' /\ PlansRespect'
  <2> DEFINE me == packager[c]
  <2>1. /\ me \in Packager /\ me.record \in PackRecord /\ me.todo \subseteq PackFiles[me.row.version] /\ me.todo \subseteq PackPath
        /\ Respects(me.row, me.p) /\ me.row \in V!Row /\ me.row.plan \in V!Plan
    BY <1>0, <1>6 DEF V!WriteFile, PackTypes, PackWorks, Packager, V!Row
  <2>2. PICK f \in me.todo :
          LET done == [me EXCEPT !.todo = @ \ {f}, !.at = IF me.todo = {f} THEN "record" ELSE "write"]
          IN  IF V!MayWrite(me.row.plan, f)
              THEN /\ packFile' = [packFile EXCEPT ![f] = me.row.version]
                   /\ lost' = IF packFile[f] = V!own THEN lost \cup {<<f, V!How(me.p, f, me.row)>>} ELSE lost
                   /\ packager' = [packager EXCEPT ![c] = [done EXCEPT !.record.files = @ \cup {f},
                                                                      !.record.sums[f] = me.row.version]]
              ELSE packager' = [packager EXCEPT ![c] = done] /\ packFile' = packFile /\ lost' = lost
    BY <1>6 DEF V!WriteFile
  <2> DEFINE done == [me EXCEPT !.todo = @ \ {f}, !.at = IF me.todo = {f} THEN "record" ELSE "write"]
             wrote == [done EXCEPT !.record.files = @ \cup {f}, !.record.sums[f] = me.row.version]
  <2>9. done.row = me.row /\ done.p = me.p /\ wrote.row = me.row /\ wrote.p = me.p
    BY <2>1 DEF Packager
  <2> HIDE DEF wrote
  <2>10. packager' = [packager EXCEPT ![c] = done] \/ packager' = [packager EXCEPT ![c] = wrote]
    BY <2>2 DEF wrote
  <2> HIDE DEF done
  <2>3. packager'[c].row = me.row /\ packager'[c].p = me.p /\ \A d \in Caller : d # c => packager'[d] = packager[d]
    BY <1>0, <2>9, <2>10
  <2>4. planned' = planned /\ packProposals' = packProposals
    BY <1>6 DEF V!WriteFile
  <2>5. PlansRespect'
    BY <1>a, <2>1, <2>3, <2>4
  <2>6. V!MayWrite(me.row.plan, f) /\ packFile[f] = V!own => V!How(me.p, f, me.row) \notin {"planned", "removed"}
    <3> SUFFICES ASSUME V!MayWrite(me.row.plan, f), packFile[f] = V!own PROVE V!How(me.p, f, me.row) \notin {"planned", "removed"}
      OBVIOUS
    <3>1. packFile[f] # V!nothing
      BY PackNumbers
    <3>2. \/ ~me.row.plan.update
          \/ me.row.plan.overwrite /\ f \in me.row.plan.conflict
          \/ f \notin me.row.plan.conflict
      BY <3>1 DEF V!MayWrite
    <3>3. f \notin me.row.plan.conflict /\ me.row.plan.update => f \notin planned[me.p]
      BY <2>1, <2>2 DEF Respects
    <3>4. CASE ~me.row.plan.update
      BY <3>4 DEF V!How
    <3>5. CASE me.row.plan.update /\ me.row.plan.overwrite /\ f \in me.row.plan.conflict
      BY <3>5 DEF V!How
    <3>6. CASE me.row.plan.update /\ ~(me.row.plan.overwrite /\ f \in me.row.plan.conflict)
      BY <3>2, <3>3, <3>6 DEF V!How
    <3> QED
      BY <3>4, <3>5, <3>6
  <2>7. lost' = lost \/ \E how : lost' = lost \cup {<<f, how>>} /\ how \notin {"planned", "removed"}
    BY <2>2, <2>6
  <2>8. V!EditsSurvive'
    BY <2>7 DEF V!EditsSurvive
  <2> QED
    BY <2>5, <2>8
<1>7. ASSUME NEW c \in Caller, V!SaveRecord(c) PROVE V!EditsSurvive' /\ PlansRespect'
  <2>1. packager'[c] = [packager[c] EXCEPT !.at = "applied"] /\ packager[c].at = "record"
        /\ \A d \in Caller : d # c => packager'[d] = packager[d]
    BY <1>0, <1>7 DEF V!SaveRecord
  <2>2. Respects(packager'[c].row, packager'[c].p)
    BY <1>0, <2>1 DEF Packager
  <2> QED
    BY <1>7, <1>a, <2>1, <2>2 DEF V!SaveRecord, V!EditsSurvive
<1>8. ASSUME NEW c \in Caller, V!SaveApplied(c) PROVE V!EditsSurvive' /\ PlansRespect'
  <2>1. packager[c].row \in V!Row
    BY <1>0 DEF Packager
  <2>2. /\ \A q \in PackProposal : \/ packProposals'[q] = packProposals[q]
                                 \/ (/\ q = packager[c].p /\ packProposals'[q].plan = packager[c].row.plan
                                     /\ packProposals'[q].version = packager[c].row.version)
        /\ \A d \in Caller : packager'[d] = packager[d] \/ packager'[d].at = "idle"
    BY <1>0, <1>8, <2>1, PackIdle DEF V!SaveApplied, V!Row
  <2>3. Respects(packager[c].row, packager[c].p)
    BY <1>0, <1>8 DEF V!SaveApplied
  <2>4. \A q \in PackProposal : packProposals'[q] = packProposals[q] \/ Respects(packProposals'[q], q)
    BY <2>2, <2>3 DEF Respects
  <2> QED
    BY <1>8, <1>a, <2>2, <2>4 DEF V!SaveApplied, V!EditsSurvive
<1>9. ASSUME NEW c \in Caller, V!Remove(c) PROVE V!EditsSurvive' /\ PlansRespect'
  <2>1. packager'[c].at \in {"unlink", "delete"} /\ \A d \in Caller : d # c => packager'[d] = packager[d]
    BY <1>0, <1>9, PackIdle DEF V!Remove, Packager
  <2> QED
    BY <1>9, <1>a, <2>1 DEF V!Remove, V!EditsSurvive
<1>10. ASSUME NEW c \in Caller, V!Unlink(c) PROVE V!EditsSurvive' /\ PlansRespect'
  <2> DEFINE me == packager[c]
  <2>1. me \in Packager /\ me.todo \subseteq PackPath /\ me.record \in PackRecord
    BY <1>0 DEF Packager
  <2>2. PICK f \in me.todo :
       /\ IF packFile[f] # V!nothing /\ V!MayUnlink(me.record, f)
          THEN lost' = IF packFile[f] = V!own
                       THEN lost \cup {<<f, IF me.record.sums[f] = V!nothing THEN "unrecorded" ELSE "removed">>}
                       ELSE lost
          ELSE lost' = lost
       /\ packager' = [packager EXCEPT ![c].todo = @ \ {f}, ![c].at = IF me.todo = {f} THEN "delete" ELSE "unlink"]
    BY <1>10 DEF V!Unlink
  <2>3. packager'[c].at \in {"unlink", "delete"} /\ \A d \in Caller : d # c => packager'[d] = packager[d]
    BY <1>0, <2>1, <2>2 DEF Packager
  <2>4. me.record.sums[f] \in PackVersion \cup {V!nothing}
    BY <2>1, <2>2 DEF PackRecord
  <2>5. V!MayUnlink(me.record, f) /\ packFile[f] = V!own => me.record.sums[f] = V!nothing
    BY <2>4, PackNumbers DEF V!MayUnlink
  <2>6. lost' = lost \/ lost' = lost \cup {<<f, "unrecorded">>}
    BY <2>2, <2>5
  <2>7. V!EditsSurvive'
    BY <2>6 DEF V!EditsSurvive
  <2>8. planned' = planned /\ packProposals' = packProposals
    BY <1>10 DEF V!Unlink
  <2> QED
    BY <1>a, <2>3, <2>7, <2>8
<1>11. ASSUME NEW c \in Caller, V!DeleteRecord(c) PROVE V!EditsSurvive' /\ PlansRespect'
  <2>1. \A d \in Caller : packager'[d] = packager[d] \/ packager'[d].at = "idle"
    BY <1>0, <1>11, PackIdle DEF V!DeleteRecord
  <2> QED
    BY <1>11, <1>a, <2>1 DEF V!DeleteRecord, V!EditsSurvive
<1>12. ASSUME V!Edit PROVE V!EditsSurvive' /\ PlansRespect'
  BY <1>12, <1>a DEF V!Edit, V!EditsSurvive
<1>13. ASSUME NEW c \in Caller, V!Crash(c) PROVE V!EditsSurvive' /\ PlansRespect'
  <2>1. \A d \in Caller : packager'[d] = packager[d] \/ packager'[d].at = "idle"
    BY <1>0, <1>13, PackIdle DEF V!Crash
  <2> QED
    BY <1>13, <1>a, <2>1 DEF V!Crash, V!EditsSurvive
<1>14. CASE UNCHANGED V!vars
  BY <1>14, <1>a DEF V!vars, V!EditsSurvive
<1> QED
  BY <1>1, <1>2, <1>3, <1>4, <1>5, <1>6, <1>7, <1>8, <1>9, <1>10, <1>11, <1>12, <1>13, <1>14 DEF V!Next

\* What is on disk is on record while nobody overlaps.
LEMMA PackRecordSteps == PackTypes /\ PackTypes' /\ RecordInv /\ [V!Next]_V!vars => RecordInv'
<1> SUFFICES ASSUME PackTypes, PackTypes', RecordInv, [V!Next]_V!vars, ~shared', packCrashes' = 0
             PROVE  /\ OneAtWork'
                    /\ \A c \in Caller : packager'[c].at # "idle" => Recording(c)'
                    /\ (\A c \in Caller : packager'[c].at = "idle") => \A f \in PackPath \ dropped' : OnRecord(f)'
  BY DEF RecordInv
<1> DEFINE AllIdle == \A d \in Caller : packager[d].at = "idle"
           Faithful == \A f \in PackPath \ dropped : OnRecord(f)
           Goal == /\ OneAtWork'
                   /\ \A c \in Caller : packager'[c].at # "idle" => Recording(c)'
                   /\ (\A c \in Caller : packager'[c].at = "idle") => \A f \in PackPath \ dropped' : OnRecord(f)'
<1>0. /\ packFile \in [PackPath -> V!Content] /\ installed \in PackRecord
      /\ (installed.version = V!nothing => installed.files = {})
      /\ packager \in [Caller -> Packager] /\ dropped \subseteq PackPath
      /\ V!TypeOK
  BY DEF PackTypes, V!TypeOK, PackRecord, Packager
\* One caller moves and was the only one that did, or nobody was at work.
<1>a. ASSUME NEW c \in Caller, \A d \in Caller : d # c => packager'[d].at = "idle",
             packager'[c].at = "idle" => \A f \in PackPath \ dropped' : OnRecord(f)',
             packager'[c].at # "idle" => Recording(c)'
      PROVE  Goal
  BY <1>a DEF OneAtWork
\* A call that begins finds all as it should be.
<1>b. ASSUME NEW c \in Caller, V!Enter(c) PROVE AllIdle /\ Faithful
  <2>1. ~shared /\ AllIdle /\ packCrashes = 0
    BY <1>0, <1>b, PackEnter
  <2> QED
    BY <2>1 DEF RecordInv
\* One that goes on is alone.
<1>c. ASSUME NEW c \in Caller, packager[c].at # "idle", UNCHANGED V!bounds
      PROVE  Recording(c) /\ \A d \in Caller : d # c => packager[d].at = "idle"
  BY <1>c DEF RecordInv, OneAtWork, V!bounds
<1>d. ASSUME UNCHANGED <<packFile, installed, dropped>> PROVE \A f : OnRecord(f)' <=> OnRecord(f)
  BY <1>d DEF OnRecord
<1>e. V!Idle.at = "idle"
  BY PackIdle
<1>1. ASSUME NEW c \in Caller, NEW p \in PackProposal, V!Propose(c, p) \/ V!Approve(c, p) PROVE Goal
  <2>1. V!Enter(c) /\ packager' = packager /\ UNCHANGED <<packFile, installed, dropped>>
    BY <1>1 DEF V!Propose, V!Approve
  <2>2. AllIdle /\ Faithful
    BY <1>b, <2>1
  <2> QED
    BY <1>a, <1>d, <2>1, <2>2
<1>2. ASSUME NEW c \in Caller, NEW p \in PackProposal, V!Update(c, p) PROVE Goal
  <2>1. V!Enter(c) /\ UNCHANGED <<packFile, installed, dropped>>
    BY <1>2 DEF V!Update
  <2>2. AllIdle /\ Faithful
    BY <1>b, <2>1
  <2>3. packager'[c].at = "plan" /\ \A d \in Caller : d # c => packager'[d] = packager[d]
    BY <1>0, <1>2, PackIdle DEF V!Update, Packager
  <2>4. Recording(c)'
    BY <1>d, <2>1, <2>2, <2>3 DEF Recording
  <2> QED
    BY <1>a, <2>2, <2>3, <2>4
<1>3. ASSUME NEW c \in Caller, V!SavePlan(c) PROVE Goal
  <2>1. packager[c].at = "plan" /\ UNCHANGED V!bounds /\ UNCHANGED <<packFile, installed, dropped>>
    BY <1>3 DEF V!SavePlan
  <2>2. Recording(c) /\ \A d \in Caller : d # c => packager[d].at = "idle"
    BY <1>c, <2>1
  <2>3. Faithful
    BY <2>1, <2>2 DEF Recording
  <2>4. packager'[c].at = "idle" /\ \A d \in Caller : d # c => packager'[d] = packager[d]
    BY <1>0, <1>3, <1>e DEF V!SavePlan
  <2> QED
    BY <1>a, <1>d, <2>1, <2>2, <2>3, <2>4
<1>4. ASSUME NEW c \in Caller, NEW p \in PackProposal, V!Apply(c, p) PROVE Goal
  <2>1. V!Enter(c) /\ UNCHANGED <<packFile, installed, dropped>>
    BY <1>4 DEF V!Apply
  <2>2. AllIdle /\ Faithful
    BY <1>b, <2>1
  <2>3. V!Idle.record \in PackRecord /\ V!Idle.record.files = {}
    BY PackIdle DEF V!Idle, V!NotInstalled
  <2>4. packager'[c].at = "write" /\ packager'[c].record.files = {} /\ \A d \in Caller : d # c => packager'[d] = packager[d]
    BY <1>0, <1>4, <2>3, PackIdle DEF V!Apply, Packager, PackRecord
  <2>5. Recording(c)'
    BY <1>d, <2>1, <2>2, <2>4 DEF Recording
  <2> QED
    BY <1>a, <2>2, <2>4, <2>5
<1>5. ASSUME NEW c \in Caller, V!WriteFile(c) PROVE Goal
  <2> DEFINE me == packager[c]
  <2>1. me.at = "write" /\ UNCHANGED V!bounds /\ UNCHANGED <<installed, dropped>>
    BY <1>5 DEF V!WriteFile
  <2>2. Recording(c) /\ \A d \in Caller : d # c => packager[d].at = "idle"
    BY <1>c, <2>1
  <2>3. /\ me \in Packager /\ me.record \in PackRecord /\ me.row.version \in PackVersion /\ me.todo \cap me.record.files = {}
        /\ me.todo \subseteq PackPath
    BY <1>0, <2>1 DEF PackTypes, PackWorks, Packager
  <2>4. PICK f \in me.todo :
          LET done == [me EXCEPT !.todo = @ \ {f}, !.at = IF me.todo = {f} THEN "record" ELSE "write"]
          IN  IF V!MayWrite(me.row.plan, f)
              THEN /\ packFile' = [packFile EXCEPT ![f] = me.row.version]
                   /\ packager' = [packager EXCEPT ![c] = [done EXCEPT !.record.files = @ \cup {f},
                                                                      !.record.sums[f] = me.row.version]]
              ELSE packager' = [packager EXCEPT ![c] = done] /\ packFile' = packFile
    BY <1>5 DEF V!WriteFile
  <2>5. /\ \A g \in PackPath \ (dropped \cup me.record.files) : OnRecord(g)
        /\ \A g \in me.record.files : /\ me.record.sums[g] = me.row.version
                                      /\ packFile[g] \in PackVersion => packFile[g] = me.row.version
    BY <2>1, <2>2 DEF Recording
  <2> DEFINE done == [me EXCEPT !.todo = @ \ {f}, !.at = IF me.todo = {f} THEN "record" ELSE "write"]
             wrote == [done EXCEPT !.record.files = @ \cup {f}, !.record.sums[f] = me.row.version]
  <2>6. done.at \in {"write", "record"} /\ done.row = me.row /\ done.record = me.record
    BY <2>3 DEF Packager
  <2>7. wrote.at \in {"write", "record"} /\ wrote.row = me.row /\ wrote.record.files = me.record.files \cup {f}
        /\ wrote.record.sums = [me.record.sums EXCEPT ![f] = me.row.version]
    BY <2>3, <2>6 DEF Packager, PackRecord
  <2>8. me.record.sums \in [PackPath -> PackVersion \cup {V!nothing}]
    BY <2>3 DEF PackRecord
  <2> HIDE DEF me, done, wrote
  <2>9. CASE V!MayWrite(me.row.plan, f)
    <3>1. packFile' = [packFile EXCEPT ![f] = me.row.version] /\ packager' = [packager EXCEPT ![c] = wrote]
      BY <2>4, <2>9 DEF done, wrote
    <3>2. packager'[c] = wrote /\ \A d \in Caller : d # c => packager'[d] = packager[d]
      BY <1>0, <3>1
    <3>3. \A g \in PackPath : g # f => packFile'[g] = packFile[g]
      BY <1>0, <3>1
    <3>4. \A g \in PackPath \ (dropped \cup wrote.record.files) : OnRecord(g)'
      BY <2>1, <2>5, <2>7, <3>3 DEF OnRecord
    <3>5. me.record.files \subseteq PackPath
      BY <2>3 DEF PackRecord
    <3>6. \A g \in wrote.record.files : /\ wrote.record.sums[g] = wrote.row.version
                                        /\ packFile'[g] \in PackVersion => packFile'[g] = wrote.row.version
      <4>1. packFile'[f] = me.row.version /\ wrote.record.sums[f] = me.row.version
        BY <1>0, <2>3, <2>7, <2>8, <3>1
      <4>2. ASSUME NEW g \in me.record.files, g # f
            PROVE  /\ wrote.record.sums[g] = me.row.version
                   /\ packFile'[g] \in PackVersion => packFile'[g] = me.row.version
        <5>1. g \in PackPath /\ wrote.record.sums[g] = me.record.sums[g] /\ packFile'[g] = packFile[g]
          BY <2>7, <2>8, <3>3, <3>5, <4>2
        <5> QED
          BY <2>5, <4>2, <5>1
      <4> QED
        BY <2>7, <4>1, <4>2
    <3>7. Recording(c)'
      BY <2>1, <2>7, <3>2, <3>4, <3>6 DEF Recording
    <3> QED
      BY <1>a, <2>2, <2>7, <3>2, <3>7
  <2>10. CASE ~V!MayWrite(me.row.plan, f)
    <3>1. packFile' = packFile /\ packager' = [packager EXCEPT ![c] = done]
      BY <2>4, <2>10 DEF done
    <3>2. packager'[c] = done /\ \A d \in Caller : d # c => packager'[d] = packager[d]
      BY <1>0, <3>1
    <3>3. UNCHANGED <<packFile, installed, dropped>>
      BY <2>1, <3>1
    <3>4. Recording(c)'
      <4>1. packager'[c].at \in {"write", "record"} /\ packager'[c].record = me.record /\ packager'[c].row = me.row
        BY <2>6, <3>2
      <4>2. \A g : OnRecord(g)' <=> OnRecord(g)
        BY <1>d, <3>3
      <4> QED
        BY <2>5, <3>3, <4>1, <4>2 DEF Recording
    <3> QED
      BY <1>a, <2>2, <2>6, <3>2, <3>4
  <2> QED
    BY <2>9, <2>10
<1>6. ASSUME NEW c \in Caller, V!SaveRecord(c) PROVE Goal
  <2> DEFINE me == packager[c]
  <2>1. /\ me.at = "record" /\ UNCHANGED V!bounds /\ UNCHANGED packFile
        /\ installed' = V!Preserved(me.record)
        /\ dropped' = (dropped \ me.record.files) \cup (installed.files \ PackFiles[me.record.version])
    BY <1>6 DEF V!SaveRecord
  <2>2. Recording(c) /\ \A d \in Caller : d # c => packager[d].at = "idle"
    BY <1>c, <2>1
  <2>3. /\ me \in Packager /\ me.record \in PackRecord /\ me.row.version \in PackVersion
        /\ me.record.version = me.row.version /\ me.record.files \subseteq PackFiles[me.row.version]
    BY <1>0, <2>1 DEF PackTypes, PackWorks, Packager
  <2>4. packager'[c].at = "applied" /\ \A d \in Caller : d # c => packager'[d] = packager[d]
    BY <1>0, <1>6 DEF V!SaveRecord, Packager
  <2>5. /\ \A f \in PackPath \ (dropped \cup me.record.files) : OnRecord(f)
        /\ \A f \in me.record.files : /\ me.record.sums[f] = me.row.version
                                      /\ packFile[f] \in PackVersion => packFile[f] = me.row.version
    BY <2>1, <2>2 DEF Recording
  <2> DEFINE kept == IF installed.version = V!nothing THEN {} ELSE PackFiles[me.record.version] \ me.record.files
  <2>6. installed'.files = me.record.files \cup kept
        /\ installed'.sums = [f \in PackPath |-> IF f \in kept THEN installed.sums[f] ELSE me.record.sums[f]]
    BY <2>1, <2>3 DEF V!Preserved, PackRecord
  <2> HIDE DEF me
  <2>7. ASSUME NEW f \in PackPath \ dropped', packFile[f] \in PackVersion PROVE f \in installed'.files /\ installed'.sums[f] = packFile[f]
    <3>1. CASE f \in me.record.files
      BY <2>5, <2>6, <2>7, <3>1
    <3>2. CASE f \notin me.record.files
      <4>1. f \notin dropped /\ f \notin installed.files \ PackFiles[me.record.version]
        BY <2>1, <2>7, <3>2
      <4>2. f \in installed.files /\ installed.sums[f] = packFile[f]
        BY <2>5, <2>7, <3>2, <4>1 DEF OnRecord
      <4>3. f \in kept
        BY <1>0, <3>2, <4>1, <4>2
      <4> QED
        BY <2>6, <4>2, <4>3
    <3> QED
      BY <3>1, <3>2
  <2>8. Recording(c)'
    BY <2>1, <2>4, <2>7 DEF Recording, OnRecord
  <2> QED
    BY <1>a, <2>2, <2>4, <2>8
<1>7. ASSUME NEW c \in Caller, V!SaveApplied(c) PROVE Goal
  <2>1. packager[c].at = "applied" /\ UNCHANGED V!bounds /\ UNCHANGED <<packFile, installed, dropped>>
    BY <1>7 DEF V!SaveApplied
  <2>2. Recording(c) /\ \A d \in Caller : d # c => packager[d].at = "idle"
    BY <1>c, <2>1
  <2>3. Faithful
    BY <2>1, <2>2 DEF Recording
  <2>4. packager'[c].at = "idle" /\ \A d \in Caller : d # c => packager'[d] = packager[d]
    BY <1>0, <1>7, <1>e DEF V!SaveApplied
  <2> QED
    BY <1>a, <1>d, <2>1, <2>2, <2>3, <2>4
<1>8. ASSUME NEW c \in Caller, V!Remove(c) PROVE Goal
  <2>1. V!Enter(c) /\ UNCHANGED <<packFile, installed, dropped>>
    BY <1>8 DEF V!Remove
  <2>2. AllIdle /\ Faithful
    BY <1>b, <2>1
  <2>3. /\ packager'[c].at = IF installed.files = {} THEN "delete" ELSE "unlink"
        /\ packager'[c].record = installed /\ packager'[c].todo = installed.files
        /\ \A d \in Caller : d # c => packager'[d] = packager[d]
    BY <1>0, <1>8, PackIdle DEF V!Remove, Packager
  <2>4. Recording(c)'
    BY <2>1, <2>2, <2>3 DEF Recording, OnRecord
  <2> QED
    BY <1>a, <2>2, <2>3, <2>4
<1>9. ASSUME NEW c \in Caller, V!Unlink(c) PROVE Goal
  <2> DEFINE me == packager[c]
  <2>1. me.at = "unlink" /\ UNCHANGED V!bounds /\ UNCHANGED <<installed, dropped>>
    BY <1>9 DEF V!Unlink
  <2>2. Recording(c) /\ \A d \in Caller : d # c => packager[d].at = "idle"
    BY <1>c, <2>1
  <2>3. me \in Packager /\ me.todo \subseteq PackPath
    BY <1>0 DEF Packager
  <2>4. PICK f \in me.todo :
       /\ IF packFile[f] # V!nothing /\ V!MayUnlink(me.record, f)
          THEN packFile' = [packFile EXCEPT ![f] = V!nothing]
          ELSE packFile' = packFile
       /\ packager' = [packager EXCEPT ![c].todo = @ \ {f}, ![c].at = IF me.todo = {f} THEN "delete" ELSE "unlink"]
    BY <1>9 DEF V!Unlink
  <2>5. packager'[c] = [me EXCEPT !.todo = @ \ {f}, !.at = IF me.todo = {f} THEN "delete" ELSE "unlink"]
        /\ \A d \in Caller : d # c => packager'[d] = packager[d]
    BY <1>0, <2>4
  <2>6. packager'[c].at = (IF me.todo = {f} THEN "delete" ELSE "unlink") /\ packager'[c].todo = me.todo \ {f} /\ packager'[c].record = me.record
    BY <2>3, <2>5 DEF Packager
  <2>7. me.record = installed /\ \A g \in PackPath \ dropped : packFile[g] \in PackVersion => g \in me.todo /\ installed.sums[g] = packFile[g]
    BY <2>1, <2>2 DEF Recording
  <2> HIDE DEF me
  <2>8. \A g \in PackPath : g # f => packFile'[g] = packFile[g]
    BY <1>0, <2>4
  <2>9. f \in dropped \/ packFile'[f] \notin PackVersion
    <3>0. packFile'[f] = packFile[f] \/ packFile'[f] = V!nothing
      BY <1>0, <2>3, <2>4
    <3>1. SUFFICES ASSUME f \notin dropped, packFile[f] \in PackVersion PROVE packFile'[f] \notin PackVersion
      BY <3>0, PackNumbers
    <3>2. packFile[f] # V!nothing /\ V!MayUnlink(me.record, f)
      BY <2>3, <2>4, <2>7, <3>1, PackNumbers DEF V!MayUnlink
    <3>3. packFile' = [packFile EXCEPT ![f] = V!nothing]
      BY <2>4, <3>2
    <3> QED
      BY <1>0, <2>3, <2>4, <3>3, PackNumbers
  <2>10. \A g \in PackPath \ dropped' : packFile'[g] \in PackVersion => g \in packager'[c].todo /\ installed'.sums[g] = packFile'[g]
    BY <2>1, <2>6, <2>7, <2>8, <2>9
  <2>11. Recording(c)'
    BY <2>1, <2>6, <2>7, <2>10 DEF Recording
  <2>12. packager'[c].at # "idle"
    BY <2>6
  <2>13. \A d \in Caller : d # c => packager'[d].at = "idle"
    BY <2>2, <2>5
  <2> QED
    BY <1>a, <2>11, <2>12, <2>13
<1>10. ASSUME NEW c \in Caller, V!DeleteRecord(c) PROVE Goal
  <2>1. packager[c].at = "delete" /\ UNCHANGED V!bounds /\ UNCHANGED <<packFile, dropped>>
    BY <1>10 DEF V!DeleteRecord
  <2>2. Recording(c) /\ \A d \in Caller : d # c => packager[d].at = "idle"
    BY <1>c, <2>1
  <2>3. \A f \in PackPath \ dropped : packFile[f] \notin PackVersion
    BY <2>1, <2>2 DEF Recording
  <2>4. packager'[c].at = "idle" /\ \A d \in Caller : d # c => packager'[d] = packager[d]
    BY <1>0, <1>10, <1>e DEF V!DeleteRecord
  <2> QED
    BY <1>a, <2>1, <2>2, <2>3, <2>4 DEF OnRecord
<1>11. ASSUME V!Edit PROVE Goal
  <2>1. UNCHANGED <<installed, packager, dropped, shared, packCrashes>>
    BY <1>11 DEF V!Edit
  <2>2. \A f \in PackPath : packFile'[f] = packFile[f] \/ packFile'[f] = V!own
    BY <1>0, <1>11 DEF V!Edit
  <2>3. \A f \in PackPath : packFile'[f] \in PackVersion => packFile'[f] = packFile[f]
    BY <2>2, PackNumbers
  <2>4. \A f \in PackPath : OnRecord(f) => OnRecord(f)'
    BY <2>1, <2>3 DEF OnRecord
  <2>5. \A c \in Caller : packager[c].record.files \subseteq PackPath \/ packager[c].at \notin {"write", "record"}
    BY <1>0 DEF Packager, PackRecord
  <2>6. ASSUME NEW c \in Caller, packager[c].at # "idle", Recording(c) PROVE Recording(c)'
    <3>1. packager[c].at \in {"plan", "write", "record", "applied", "unlink", "delete"} /\ packager[c].record.files \subseteq PackPath
      BY <1>0, <2>6 DEF Packager, PackRecord
    <3>2. CASE packager[c].at \in {"plan", "applied"}
      BY <2>1, <2>4, <2>6, <3>2 DEF Recording
    <3>3. CASE packager[c].at \in {"write", "record"}
      BY <2>1, <2>3, <2>4, <2>6, <3>1, <3>3 DEF Recording
    <3>4. CASE packager[c].at \in {"unlink", "delete"}
      BY <2>1, <2>3, <2>6, <3>4 DEF Recording
    <3> QED
      BY <3>1, <3>2, <3>3, <3>4
  <2> QED
    BY <2>1, <2>4, <2>6 DEF RecordInv, OneAtWork
<1>12. ASSUME NEW c \in Caller, V!Crash(c) PROVE FALSE
  BY <1>0, <1>12, PacksAssumption DEF V!Crash, V!TypeOK
<1>13. CASE UNCHANGED V!vars
  <2>1. UNCHANGED <<packFile, installed, packager, dropped, shared, packCrashes>>
    BY <1>13 DEF V!vars
  <2>2. OneAtWork /\ (\A c \in Caller : packager[c].at # "idle" => Recording(c)) /\ (AllIdle => Faithful)
    BY <2>1 DEF RecordInv
  <2>3. \A f \in PackPath : OnRecord(f)' <=> OnRecord(f)
    BY <2>1 DEF OnRecord
  <2>4. \A c \in Caller : Recording(c)' <=> Recording(c)
    BY <2>1 DEF Recording, OnRecord
  <2>5. OneAtWork'
    BY <2>1, <2>2 DEF OneAtWork
  <2> QED
    BY <2>1, <2>2, <2>3, <2>4, <2>5
<1> QED
  BY <1>1, <1>2, <1>3, <1>4, <1>5, <1>6, <1>7, <1>8, <1>9, <1>10, <1>11, <1>12, <1>13 DEF V!Next

\* Whoever overlaps or dies, no plan and no removal costs somebody his edits;
\* and while nobody does, what a pack has on disk is on its record, but for
\* files that a version had and the next one does not (packs/service.py).
THEOREM PacksKept == V!Spec => []PacksKeepEdits
<1>1. PacksInv /\ [V!Next]_V!vars => PacksInv'
  BY PackTypesSteps, PackEditsSteps, PackRecordSteps DEF PacksInv
<1>2. PacksInv => PacksKeepEdits
  <2> SUFFICES ASSUME PacksInv PROVE V!DiskIsOnRecord /\ V!TypeOK /\ V!EditsSurvive
    BY DEF PacksKeepEdits
  <2>1. V!TypeOK /\ V!EditsSurvive
    BY DEF PacksInv, PackTypes
  <2>2. ASSUME ~shared, packCrashes = 0, \A c \in Caller : packager[c].at = "idle", NEW f \in PackPath \ dropped,
               packFile[f] \in PackVersion
        PROVE  f \in installed.files /\ installed.sums[f] = packFile[f]
    BY <2>2 DEF PacksInv, RecordInv, OnRecord
  <2> QED
    BY <2>1, <2>2 DEF V!DiskIsOnRecord
<1> QED
  BY PacksInitially, <1>1, <1>2, PTL DEF V!Spec

LEMMA LeastNumber ==
  ASSUME NEW set, set \subseteq Nat, set # {}
  PROVE  \E k \in set : \A j \in set : k <= j
<1>1. \E k \in set : \A j \in set : ~(<<j, k>> \in OpToRel(<, Nat))
  BY NatLessThanWellFounded, WFMin
<1>2. PICK k \in set : \A j \in set : ~(<<j, k>> \in OpToRel(<, Nat))
  BY <1>1
<1>3. ASSUME NEW j \in set
      PROVE  k <= j
  <2>1. j \in Nat /\ k \in Nat
    OBVIOUS
  <2>2. ~(<<j, k>> \in OpToRel(<, Nat))
    BY <1>2
  <2>3. ~(j < k)
    BY <2>1, <2>2 DEF OpToRel
  <2> QED
    BY <2>1, <2>3
<1> QED
  BY <1>3

-----------------------------------------------------------------------------
(* Evaluations                                                             *)

EvalResult == [ok : BOOLEAN, fatal : BOOLEAN, cost : Nat, time : Nat]
EvalOp == {"run", "judge", "compare"}
EvalRow == [cases : Seq(EvalResult), critical : BOOLEAN, status : E!Status, baseline : Nat, implicit : BOOLEAN,
            doubtful : BOOLEAN, used : SUBSET ModelProvider, op : EvalOp]
EvalWork == [pc : {"case", "verdict", "judge", "next", "restore"}, op : EvalOp, explicit : Nat, names : Seq(STRING),
             previous : ModelProvider, cases : Seq(EvalResult), used : SUBSET ModelProvider]

\* While there is a case to run it is one of the suite's; only a comparison goes through providers.
EvalFits(w) ==
  /\ w.pc = "case" => Len(w.cases) < Len(Suite)
  /\ w.pc = "verdict" => w.cases # <<>>
  /\ w.pc \in {"next", "restore"} => w.op = "compare"
  /\ w.pc = "judge" => w.op = "judge"

EvalTypes ==
  /\ runs \in Seq(EvalRow) /\ Len(runs) <= MaxEvaluations
  /\ \A n \in DOMAIN runs : runs[n].baseline < n /\ runs[n].cases # <<>>
  /\ provider \in ModelProvider /\ kind \in SuiteKind
  /\ evaluator \in [Caller -> EvalWork \cup {E!Idle}]
  /\ \A c \in E!Active : evaluator[c].explicit <= Len(runs) /\ EvalFits(evaluator[c])
  /\ judging \subseteq DOMAIN runs /\ crossed \in BOOLEAN

\* Whoever judges does so with a run of his own, whose judgement is awaited.
Judges(c) == evaluator[c].pc = "judge"
JudgeInv ==
  /\ \A c \in Caller : Judges(c) => evaluator[c].explicit \in judging
  /\ \A c, d \in Caller : Judges(c) /\ Judges(d) /\ evaluator[c].explicit = evaluator[d].explicit => c = d
  /\ \A n \in judging : runs[n].op = "judge"

\* A run kept to the thresholds, and what it took for its baseline by itself is past its judgement.
Kept(r, base) ==
  /\ r.status = "passed" =>
       /\ Cardinality(E!passed(r.cases)) >= MinPassed /\ ~r.critical /\ E!total_cost(r.cases) <= MaxRunCost
       /\ E!mostly_within(r.cases, MaxP95)
       /\ r.baseline # 0 => Cardinality(E!new_failures(r.cases, base)) <= MaxRegressions
  /\ r.status = "failed" /\ r.op # "judge" /\ r.baseline # 0 =>
       Cardinality(E!new_failures(r.cases, base)) <= MaxRegressions
GoodInv ==
  \A n \in DOMAIN runs :
    /\ Kept(runs[n], runs[runs[n].baseline].cases)
    /\ runs[n].implicit /\ runs[n].baseline # 0 /\ ~runs[n].doubtful =>
         runs[runs[n].baseline].status = "passed" /\ runs[n].baseline \notin judging

\* Unless callers crossed, whoever compares is alone and remembers the agent's
\* own provider, and whoever runs cases has used the present one for all of them.
Works(c) == evaluator[c].pc # "idle"
Compares(c) == Works(c) /\ evaluator[c].op = "compare"
UsedOne(w, p) == IF w.cases = <<>> THEN w.used = {} ELSE w.used = {p}
ComparesAlone ==
  /\ \A c, d \in Caller : Compares(c) /\ Works(d) => c = d
  /\ \A c \in Caller : Compares(c) => evaluator[c].previous = DeclaredProvider
  /\ (\A c \in Caller : ~Compares(c)) => provider = DeclaredProvider
CasesUsed == \A c \in Caller : evaluator[c].pc \in {"case", "verdict"} => UsedOne(evaluator[c], provider)
RowsUsed == \A n \in DOMAIN runs : /\ runs[n].op # "compare" => runs[n].used = {DeclaredProvider}
                                   /\ \E p \in ModelProvider : runs[n].used = {p}
ReturnInv ==
  /\ kind # "agent" => provider = DeclaredProvider
  /\ ~crossed => ComparesAlone /\ CasesUsed /\ RowsUsed

EvalInv == EvalTypes /\ JudgeInv /\ GoodInv /\ ReturnInv

\* What a case comes to.
LEMMA EvalResults ==
  ASSUME EvaluationAssumption, kind \in SuiteKind, NEW k \in DOMAIN Suite, NEW answer \in Answers[kind]
  PROVE  E!result(Suite[k], E!context(answer)) \in EvalResult
<1>1. answer \in [result : STRING, cost : Nat, time : Nat]
  BY EvaluationAssumption
<1> DEFINE c == E!context(answer)
<1>2. c.cost \in Nat /\ c.time \in Nat
  <2>1. answer.cost \in Nat /\ answer.time \in Nat
    BY <1>1
  <2> QED
    BY <2>1 DEF E!context
<1>3. c.fatal \in BOOLEAN
  BY DEF E!context
<1> HIDE DEF c
<1> DEFINE met == E!meets(Suite[k], c) /\ ~c.fatal
<1>4. met \in BOOLEAN
  OBVIOUS
<1>5. E!result(Suite[k], c) = [ok |-> met, fatal |-> c.fatal, cost |-> c.cost, time |-> c.time]
  BY DEF E!result
<1> HIDE DEF met
<1> DEFINE fatal == c.fatal
           cost == c.cost
           time == c.time
<1>6. fatal \in BOOLEAN /\ cost \in Nat /\ time \in Nat /\ E!result(Suite[k], c) = [ok |-> met, fatal |-> fatal, cost |-> cost, time |-> time]
  BY <1>2, <1>3, <1>5, Zenon
<1> HIDE DEF fatal, cost, time
<1>7. [ok |-> met, fatal |-> fatal, cost |-> cost, time |-> time] \in EvalResult
  BY <1>4, <1>6 DEF EvalResult
<1> QED
  BY <1>6, <1>7, Zenon DEF c

\* The sum of what cases cost is a number.
LEMMA EvalCost ==
  ASSUME NEW cases \in Seq(EvalResult)
  PROVE  E!total_cost(cases) \in Nat
<1> DEFINE Sums(n, f) == f = [k \in 0..n |-> IF k = 0 THEN 0 ELSE f[k - 1] + cases[k].cost]
           Good(n) == \E f : Sums(n, f) /\ \A k \in 0..n : f[k] \in Nat
           Without == {n \in 0..Len(cases) : ~Good(n)}
<1>1. ASSUME NEW k \in 1..Len(cases) PROVE cases[k].cost \in Nat
  <2>1. cases[k] \in EvalResult
    OBVIOUS
  <2> QED
    BY <2>1 DEF EvalResult
<1>2. Without = {}
  <2> SUFFICES ASSUME Without # {} PROVE FALSE
    OBVIOUS
  <2> HIDE DEF Good
  <2>0. Without \subseteq Nat
    OBVIOUS
  <2> HIDE DEF Without
  <2>1. PICK n \in Without : \A m \in Without : n <= m
    BY <2>0, LeastNumber
  <2> USE DEF Without, Good
  <2>2. n \in 0..Len(cases) /\ ~Good(n)
    BY <2>1
  <2>3. CASE n = 0
    <3> DEFINE f == [k \in 0..0 |-> 0]
    <3>1. Sums(0, f) /\ \A k \in 0..0 : f[k] \in Nat
      OBVIOUS
    <3>2. Good(0)
      BY <3>1
    <3> QED
      BY <2>2, <2>3, <3>2
  <2>4. CASE n # 0
    <3>0. n - 1 \in 0..Len(cases)
      BY <2>2, <2>4
    <3> HIDE DEF Good
    <3>1. Good(n - 1)
      BY <2>1, <2>2, <3>0
    <3> USE DEF Good
    <3>2. PICK g : Sums(n - 1, g) /\ \A k \in 0..n - 1 : g[k] \in Nat
      BY <3>1
    <3> DEFINE f == [k \in 0..n |-> IF k = n THEN g[n - 1] + cases[n].cost ELSE g[k]]
    <3>3. ASSUME NEW k \in 0..n PROVE f[k] = (IF k = 0 THEN 0 ELSE f[k - 1] + cases[k].cost) /\ f[k] \in Nat
      <4>1. CASE k = n
        <5>1. f[n - 1] = g[n - 1] /\ g[n - 1] \in Nat /\ cases[n].cost \in Nat
          BY <1>1, <2>2, <2>4, <3>2
        <5> QED
          BY <2>2, <2>4, <4>1, <5>1
      <4>2. CASE k # n
        <5>1. k \in 0..n - 1 /\ (k # 0 => k - 1 \in 0..n - 1 /\ k - 1 \in 0..n /\ k - 1 # n)
          BY <2>2, <4>2
        <5>2. g[k] = IF k = 0 THEN 0 ELSE g[k - 1] + cases[k].cost
          BY <3>2, <5>1
        <5>3. f[k] = g[k] /\ (k # 0 => f[k - 1] = g[k - 1])
          BY <4>2, <5>1
        <5> QED
          BY <3>2, <5>1, <5>2, <5>3
      <4> QED
        BY <4>1, <4>2
    <3>4. f = [k \in 0..n |-> f[k]]
      OBVIOUS
    <3> HIDE DEF f
    <3>5. f = [k \in 0..n |-> IF k = 0 THEN 0 ELSE f[k - 1] + cases[k].cost]
      BY <3>3, <3>4
    <3> QED
      BY <2>2, <3>3, <3>5
  <2> QED
    BY <2>3, <2>4
<1> DEFINE total == CHOOSE f : Sums(Len(cases), f)
<1> HIDE DEF Good
<1>3. Good(Len(cases))
  BY <1>2
<1> USE DEF Good
<1>4. Sums(Len(cases), total)
  BY <1>3
<1> HIDE DEF total
<1>5. total[0] = 0 /\ \A k \in 1..Len(cases) : total[k] = total[k - 1] + cases[k].cost
  <2>1. \A k \in 0..Len(cases) : total[k] = IF k = 0 THEN 0 ELSE total[k - 1] + cases[k].cost
    BY <1>4
  <2> QED
    BY <2>1
<1> DEFINE Wrong == {n \in 0..Len(cases) : total[n] \notin Nat}
<1>6. Wrong = {}
  <2> SUFFICES ASSUME Wrong # {} PROVE FALSE
    OBVIOUS
  <2>0. Wrong \subseteq Nat
    OBVIOUS
  <2> HIDE DEF Wrong
  <2>1. PICK n \in Wrong : \A m \in Wrong : n <= m
    BY <2>0, LeastNumber
  <2> USE DEF Wrong
  <2>2. n # 0
    BY <1>5, <2>1
  <2>3. n - 1 \in 0..Len(cases) /\ n \in 1..Len(cases) /\ ~(n <= n - 1)
    BY <2>1, <2>2
  <2>4. total[n - 1] \in Nat
    BY <2>1, <2>3
  <2> QED
    BY <1>1, <1>5, <2>1, <2>3, <2>4
<1> QED
  <2>1. E!total_cost(cases) = total[Len(cases)]
    BY DEF E!total_cost, total
  <2> QED
    BY <1>6, <2>1

LEMMA EvalIdle ==
  /\ E!Idle.pc = "idle" /\ E!Idle \notin EvalWork
  /\ EvalTypes => \A c \in Caller : IF evaluator[c].pc = "idle" THEN evaluator[c] = E!Idle ELSE evaluator[c] \in EvalWork
<1>1. E!Idle.pc = "idle"
  BY DEF E!Idle
<1>2. \A w \in EvalWork : w.pc # "idle"
  BY DEF EvalWork
<1> QED
  BY <1>1, <1>2 DEF EvalTypes

LEMMA EvalInitially == E!Init => EvalInv
<1> SUFFICES ASSUME E!Init PROVE EvalInv
  OBVIOUS
<1>1. \A c \in Caller : evaluator[c] = E!Idle
  BY DEF E!Init
<1>2. E!Active = {}
  BY <1>1, EvalIdle DEF E!Active
<1>3. EvalTypes
  <2>1. provider \in ModelProvider /\ kind \in SuiteKind /\ MaxEvaluations \in Nat
    BY EvaluationAssumption DEF E!Init
  <2>2. runs = <<>> /\ runs \in Seq(EvalRow) /\ DOMAIN runs = {} /\ Len(runs) = 0
    BY DEF E!Init
  <2>3. evaluator \in [Caller -> EvalWork \cup {E!Idle}] /\ judging = {} /\ crossed \in BOOLEAN
    BY DEF E!Init
  <2> QED
    BY <1>2, <2>1, <2>2, <2>3 DEF EvalTypes
<1>4. JudgeInv /\ GoodInv
  BY <1>1, EvalIdle DEF E!Init, JudgeInv, GoodInv, Judges
<1>5. ReturnInv
  <2>1. provider = DeclaredProvider /\ runs = <<>>
    BY DEF E!Init
  <2>2. ComparesAlone /\ CasesUsed
    BY <1>1, <2>1, EvalIdle DEF ComparesAlone, CasesUsed, Compares, Works
  <2>3. RowsUsed
    BY <2>1 DEF RowsUsed
  <2> QED
    BY <2>1, <2>2, <2>3 DEF ReturnInv
<1> QED
  BY <1>3, <1>4, <1>5 DEF EvalInv

\* What the operations leave a caller with.
EvalFresh(w) == w.cases = <<>> /\ w.used = {}
EvalMoved(c, w) == evaluator' = [evaluator EXCEPT ![c] = w] /\ w \in EvalWork \cup {E!Idle}

LEMMA EvalSequences ==
  \A set : \A s \in Seq(set) : /\ s # <<>> => Tail(s) \in Seq(set) /\ Head(s) \in set
                         /\ \A e \in set : Append(s, e) \in Seq(set) /\ Append(s, e) # <<>> /\ Len(Append(s, e)) = Len(s) + 1
<1>1. ASSUME NEW set, NEW s \in Seq(set), s # <<>> PROVE Tail(s) \in Seq(set) /\ Head(s) \in set
  BY <1>1
<1>2. ASSUME NEW set, NEW s \in Seq(set), NEW e \in set
      PROVE  Append(s, e) \in Seq(set) /\ Append(s, e) # <<>> /\ Len(Append(s, e)) = Len(s) + 1
  <2>1. Append(s, e) \in Seq(set) /\ Len(Append(s, e)) = Len(s) + 1 /\ Len(s) \in Nat
    OBVIOUS
  <2>2. Len(<<>>) = 0
    OBVIOUS
  <2> QED
    BY <2>1, <2>2
<1> QED
  BY <1>1, <1>2

LEMMA EvalBegins ==
  ASSUME EvalTypes, NEW c \in Caller, NEW op \in EvalOp, NEW explicit \in Nat, NEW names \in Seq(STRING)
  PROVE  LET w == E!Work(op, explicit, names) IN
         /\ w \in EvalWork /\ w.op = op /\ w.explicit = explicit /\ w.previous = provider
         /\ w.cases = <<>> /\ w.used = {}
         /\ op = "compare" => w.pc = "next"
         /\ op # "compare" => w.pc = "case"
<1>1. <<>> \in Seq(EvalResult)
  OBVIOUS
<1>2. provider \in ModelProvider
  BY DEF EvalTypes
<1> HIDE DEF EvalResult
<1> QED
  BY <1>1, <1>2 DEF E!Work, EvalWork, EvalOp

\* The baseline there is has passed, unless it was named.
LEMMA EvalBaseline ==
  ASSUME EvalTypes, NEW explicit \in Nat, explicit <= Len(runs)
  PROVE  /\ E!Baseline(explicit) \in 0..Len(runs)
         /\ explicit = 0 /\ E!Baseline(explicit) # 0 => runs[E!Baseline(explicit)].status = "passed"
<1>1. CASE explicit # 0 \/ E!Passed = {}
  BY <1>1 DEF E!Baseline
<1>2. CASE explicit = 0 /\ E!Passed # {}
  <2>0. runs \in Seq(EvalRow)
    BY DEF EvalTypes
  <2>1. E!Passed \subseteq 1..Len(runs)
    BY <2>0 DEF E!Passed
  <2> DEFINE ages == {Len(runs) - m : m \in E!Passed}
  <2>2. ages \subseteq Nat /\ ages # {}
    <3>1. \A m \in E!Passed : Len(runs) - m \in Nat
      BY <2>0, <2>1
    <3> QED
      BY <1>2, <3>1
  <2> HIDE DEF ages
  <2>3. PICK k \in ages : \A j \in ages : k <= j
    BY <2>2, LeastNumber
  <2>4. PICK n \in E!Passed : k = Len(runs) - n
    BY <2>3 DEF ages
  <2>5. ASSUME NEW m \in E!Passed PROVE m <= n
    <3>1. k <= Len(runs) - m
      BY <2>3 DEF ages
    <3>2. Len(runs) \in Nat /\ m \in 1..Len(runs) /\ n \in 1..Len(runs)
      BY <2>0, <2>1
    <3> HIDE DEF E!Passed
    <3> QED
      BY <2>4, <3>1, <3>2
  <2>6. E!Baseline(explicit) = CHOOSE l \in E!Passed : \A m \in E!Passed : m <= l
    BY <1>2 DEF E!Baseline
  <2>7. E!Baseline(explicit) \in E!Passed
    BY <2>5, <2>6
  <2>8. runs[E!Baseline(explicit)].status = "passed"
    BY <2>7 DEF E!Passed
  <2>9. E!Baseline(explicit) \in 1..Len(runs)
    BY <2>1, <2>7, Zenon
  <2>10. Len(runs) \in Nat
    BY <2>0
  <2>11. 1..Len(runs) \subseteq 0..Len(runs)
    BY <2>10
  <2> QED
    BY <2>8, <2>9, <2>11
<1> QED
  BY <1>1, <1>2

LEMMA EvalCount ==
  /\ \A set : E!Cardinality(set) = Cardinality(set)
  /\ \A cases \in Seq(EvalResult) : IsFiniteSet(E!passed(cases)) /\ Cardinality(E!passed(cases)) \in Nat
<1>1. \A set : E!Cardinality(set) = Cardinality(set)
  BY DEF E!Cardinality, Cardinality
<1>2. ASSUME NEW cases \in Seq(EvalResult) PROVE IsFiniteSet(E!passed(cases)) /\ Cardinality(E!passed(cases)) \in Nat
  <2>1. E!passed(cases) \subseteq 1..Len(cases)
    BY DEF E!passed
  <2>2. IsFiniteSet(1..Len(cases))
    BY FS_Interval
  <2>3. IsFiniteSet(E!passed(cases))
    BY <2>1, <2>2, FS_Subset
  <2> QED
    BY <2>3, FS_CardinalityType
<1> QED
  BY <1>1, <1>2

\* Of finitely many numbers one is the greatest.
LEMMA GreatestValue ==
  ASSUME NEW D, IsFiniteSet(D), D # {}, NEW f \in [D -> Nat]
  PROVE  \E k \in D : \A j \in D : f[j] <= f[k]
<1> DEFINE Below(k) == {j \in D : f[j] <= f[k]}
           total == Cardinality(D)
           Above(k) == total - Cardinality(Below(k))
           numbers == {Above(k) : k \in D}
<1>1. ASSUME NEW k \in D
      PROVE  IsFiniteSet(Below(k)) /\ Cardinality(Below(k)) \in Nat /\ Above(k) \in Nat
  <2>1. IsFiniteSet(Below(k)) /\ Cardinality(Below(k)) <= total
    BY FS_Subset
  <2>2. Cardinality(Below(k)) \in Nat /\ total \in Nat
    BY <2>1, FS_CardinalityType
  <2> QED
    BY <2>1, <2>2
<1>2. numbers \subseteq Nat /\ numbers # {}
  <2> HIDE DEF Above
  <2> QED
    BY <1>1
<1>3. PICK least \in numbers : \A number \in numbers : least <= number
  <2> HIDE DEF numbers
  <2> QED
    BY <1>2, LeastNumber
<1>4. PICK k \in D : least = Above(k)
  OBVIOUS
<1>5. ASSUME NEW j \in D PROVE f[j] <= f[k]
  <2> SUFFICES ASSUME f[k] < f[j] PROVE FALSE
    OBVIOUS
  <2>1. Below(k) \subseteq Below(j) /\ j \in Below(j) /\ j \notin Below(k)
    <3>1. f[j] \in Nat /\ f[k] \in Nat /\ \A x \in D : f[x] \in Nat
      OBVIOUS
    <3> QED
      BY <3>1
  <2>2. Cardinality(Below(k)) <= Cardinality(Below(j)) /\ Cardinality(Below(k)) # Cardinality(Below(j))
    <3>1. IsFiniteSet(Below(j))
      BY <1>1
    <3> HIDE DEF Below
    <3> QED
      BY <2>1, <3>1, FS_Subset
  <2>3. Above(k) <= Above(j)
    BY <1>3, <1>4
  <2>4. Cardinality(Below(k)) \in Nat /\ Cardinality(Below(j)) \in Nat /\ total \in Nat
    BY <1>1, FS_CardinalityType
  <2> HIDE DEF Below, total
  <2> QED
    BY <2>2, <2>3, <2>4
<1> QED
  BY <1>5

\* Cases whose p95 is within the limit have 95 of 100 within it.
LEMMA EvalP95 ==
  ASSUME NEW cases \in Seq(EvalResult), cases # <<>>, MaxP95 \in Nat, ~(E!p95_duration_ms(cases) > MaxP95)
  PROVE  E!mostly_within(cases, MaxP95)
<1> DEFINE D == DOMAIN cases
           time == [k \in D |-> cases[k].time]
           enough == {k \in D : E!mostly_within(cases, time[k])}
           Count(t) == E!Cardinality(E!within(cases, t))
<1>1. D = 1..Len(cases) /\ Len(cases) \in Nat /\ Len(cases) # 0 /\ IsFiniteSet(D) /\ Cardinality(D) = Len(cases)
  <2>1. D = 1..Len(cases) /\ Len(cases) \in Nat /\ Len(cases) # 0
    OBVIOUS
  <2>2. IsFiniteSet(1..Len(cases)) /\ Cardinality(1..Len(cases)) = Len(cases)
    BY <2>1, FS_Interval
  <2> QED
    BY <2>1, <2>2
<1>2. time \in [D -> Nat]
  <2>1. \A k \in D : cases[k] \in EvalResult
    OBVIOUS
  <2> QED
    BY <2>1 DEF EvalResult
<1>3. ASSUME NEW t PROVE IsFiniteSet(E!within(cases, t)) /\ Count(t) \in Nat
  <2>1. E!within(cases, t) \subseteq D
    BY DEF E!within
  <2>2. IsFiniteSet(E!within(cases, t))
    BY <1>1, <2>1, FS_Subset
  <2> QED
    BY <2>2, EvalCount, FS_CardinalityType
<1>4. enough # {}
  <2>1. D # {}
    BY <1>1
  <2>2. PICK k \in D : \A j \in D : time[j] <= time[k]
    <3> HIDE DEF D, time
    <3> QED
      BY <1>1, <1>2, <2>1, GreatestValue
  <2>3. E!within(cases, time[k]) = D
    BY <2>2 DEF E!within
  <2>4. E!Cardinality(E!within(cases, time[k])) = Len(cases)
    BY <1>1, <2>3, EvalCount
  <2>5. E!mostly_within(cases, time[k])
    BY <1>1, <2>4 DEF E!mostly_within
  <2> QED
    BY <2>5
<1>5. \E k \in enough : \A j \in enough : time[k] <= time[j]
  <2> DEFINE times == {time[k] : k \in enough}
  <2>1. times \subseteq Nat /\ times # {}
    <3> HIDE DEF time
    <3> QED
      BY <1>2, <1>4
  <2> HIDE DEF times
  <2>2. PICK least \in times : \A t \in times : least <= t
    BY <2>1, LeastNumber
  <2> QED
    BY <2>2 DEF times
<1> DEFINE quick == CHOOSE k \in enough : \A j \in enough : time[k] <= time[j]
<1>6. quick \in enough
  BY <1>5
<1>7. E!p95_duration_ms(cases) = time[quick]
  <2>1. enough = {k \in DOMAIN cases : E!mostly_within(cases, cases[k].time)}
    OBVIOUS
  <2>2. \A k \in enough : (\A j \in enough : time[k] <= time[j]) <=> (\A j \in enough : cases[k].time <= cases[j].time)
    OBVIOUS
  <2>3. quick = CHOOSE k \in enough : \A j \in enough : cases[k].time <= cases[j].time
    BY <2>2
  <2>4. E!p95_duration_ms(cases) = cases[quick].time
    BY <2>1, <2>3, Zenon DEF E!p95_duration_ms
  <2> QED
    BY <1>6, <2>4
<1> HIDE DEF quick
<1>8. quick \in D /\ E!mostly_within(cases, time[quick])
  BY <1>6
<1> DEFINE p == time[quick]
<1>9. p \in Nat /\ p <= MaxP95 /\ E!mostly_within(cases, p)
  BY <1>2, <1>7, <1>8
<1> HIDE DEF p, enough
<1>10. E!within(cases, p) \subseteq E!within(cases, MaxP95)
  <2>1. \A k \in D : cases[k].time \in Nat
    BY <1>2
  <2> QED
    BY <1>9, <2>1 DEF E!within
<1>11. Count(p) <= Count(MaxP95)
  BY <1>3, <1>10, EvalCount, FS_Subset
<1>12. 100 * Count(p) >= 95 * Len(cases)
  BY <1>9 DEF E!mostly_within
<1>13. Count(p) \in Nat /\ Count(MaxP95) \in Nat /\ Len(cases) \in Nat
  BY <1>1, <1>3
<1>14. 100 * Count(MaxP95) >= 95 * Len(cases)
  <2> HIDE DEF Count
  <2> QED
    BY <1>11, <1>12, <1>13
<1> QED
  BY <1>14 DEF E!mostly_within

\* What a verdict says is so.
LEMMA EvalVerdict ==
  ASSUME EvaluationAssumption, NEW cases \in Seq(EvalResult), cases # <<>>,
         NEW critical \in BOOLEAN, NEW base \in Seq(EvalResult)
  PROVE  LET v == E!verdict(cases, critical, base) IN
         /\ v \in E!Status
         /\ v = "passed" => /\ Cardinality(E!passed(cases)) >= MinPassed /\ ~critical
                            /\ E!total_cost(cases) <= MaxRunCost /\ E!mostly_within(cases, MaxP95)
         /\ v \in {"passed", "failed"} /\ base # <<>> => Cardinality(E!new_failures(cases, base)) <= MaxRegressions
<1> DEFINE fatal == \A k \in E!Case : cases[k].fatal
           passing == Cardinality(E!passed(cases))
           total == E!total_cost(cases)
           extra == IF E!Drifted(cases, base) THEN 1 ELSE 0
           failing == Cardinality(E!new_failures(cases, base))
           failed == base # <<>> /\ failing + extra > MaxRegressions
           slow == E!p95_duration_ms(cases) > MaxP95
           short == critical \/ passing < MinPassed \/ total > MaxRunCost \/ slow
           v == E!verdict(cases, critical, base)
<1>1. passing \in Nat
  BY EvalCount
<1>2. failing \in Nat
  <2>1. IsFiniteSet(E!passed(base)) /\ E!new_failures(cases, base) \subseteq E!passed(base)
    BY EvalCount DEF E!new_failures
  <2> QED
    BY <2>1, FS_Subset, FS_CardinalityType
<1>3. total \in Nat
  BY EvalCost
<1>4. MinPassed \in Nat /\ MaxRunCost \in Nat /\ MaxP95 \in Nat /\ MaxRegressions \in Nat
  BY EvaluationAssumption
<1>5. extra \in {0, 1}
  OBVIOUS
<1>6. E!regressions(cases, base) = failing + extra
  BY EvalCount, Zenon DEF E!regressions
<1>7. v = IF fatal THEN "error" ELSE IF failed THEN "regressed" ELSE IF short THEN "failed" ELSE "passed"
  <2>1. E!exceeds(cases) <=> passing < MinPassed \/ total > MaxRunCost \/ slow
    BY EvalCount, Zenon DEF E!exceeds
  <2>2. short <=> critical \/ E!exceeds(cases)
    BY <2>1
  <2>3. v = IF fatal THEN "error" ELSE IF base # <<>> /\ E!regressions(cases, base) > MaxRegressions THEN "regressed"
            ELSE IF critical \/ E!exceeds(cases) THEN "failed" ELSE "passed"
    BY Zenon DEF E!verdict
  <2> HIDE DEF short, fatal, v
  <2> QED
    BY <1>6, <2>2, <2>3
<1>13. ~slow => E!mostly_within(cases, MaxP95)
  BY <1>4, EvalP95
<1> HIDE DEF fatal, failing, extra, passing, total, slow, v
<1>8. v = "passed" => ~failed /\ ~short
  BY <1>7
<1>9. v = "failed" => ~failed
  BY <1>7
<1>10. v \in E!Status
  BY <1>7 DEF E!Status
<1>11. ~short => passing >= MinPassed /\ ~critical /\ total <= MaxRunCost
  BY <1>1, <1>3, <1>4
<1>12. ~failed /\ base # <<>> => failing <= MaxRegressions
  BY <1>2, <1>4, <1>5
<1>14. ~short => ~slow
  OBVIOUS
<1> QED
  BY <1>8, <1>9, <1>10, <1>11, <1>12, <1>13, <1>14 DEF failing, passing, total, v

\* How each operation moves its caller, and what it leaves alone.
LEMMA EvalMoves ==
  ASSUME EvaluationAssumption, EvalTypes, NEW c \in Caller
  PROVE  /\ \A op \in {"run", "judge"}, explicit \in 0..MaxEvaluations : E!Run(c, op, explicit) =>
              \E w \in EvalWork : /\ EvalMoved(c, w) /\ w.pc = "case" /\ w.op = op /\ w.explicit = explicit
                                  /\ explicit <= Len(runs) /\ EvalFresh(w)
                                  /\ EvalFits(w) /\ evaluator[c] = E!Idle /\ E!Begins(c, op)
                                  /\ UNCHANGED <<kind, runs, provider, judging>>
         /\ \A names \in Comparisons : E!Compare(c, names) =>
              \E w \in EvalWork : /\ EvalMoved(c, w) /\ w.pc = "next" /\ w.op = "compare" /\ w.explicit = 0
                                  /\ w.previous = provider
                                  /\ EvalFits(w) /\ evaluator[c] = E!Idle /\ E!Begins(c, "compare")
                                  /\ UNCHANGED <<kind, runs, provider, judging>>
         /\ E!NextProvider(c) =>
              \E w \in EvalWork : /\ EvalMoved(c, w) /\ w.op = evaluator[c].op /\ w.explicit = evaluator[c].explicit
                                  /\ w.previous = evaluator[c].previous /\ w.pc \in {"restore", "next", "case"}
                                  /\ w.pc = "case" => w.cases = <<>> /\ w.used = {}
                                  /\ evaluator[c].pc = "next" /\ EvalFits(w) /\ provider' \in ModelProvider
                                  /\ kind # "agent" => provider' = provider
                                  /\ UNCHANGED <<kind, runs, judging, crossed>>
         /\ E!Restore(c) => /\ EvalMoved(c, E!Idle) /\ evaluator[c].pc = "restore"
                            /\ provider' = (IF kind = "agent" THEN evaluator[c].previous ELSE provider)
                            /\ UNCHANGED <<kind, runs, judging, crossed>>
         /\ E!RunCase(c) =>
              \E w \in EvalWork : /\ EvalMoved(c, w) /\ w.op = evaluator[c].op /\ w.explicit = evaluator[c].explicit
                                  /\ w.previous = evaluator[c].previous /\ w.pc \in {"case", "verdict"}
                                  /\ EvalFits(w) /\ w.cases # <<>> /\ w.used = evaluator[c].used \cup {provider}
                                  /\ evaluator[c].pc = "case"
                                  /\ UNCHANGED <<kind, runs, provider, judging, crossed>>
<1>0. /\ provider \in ModelProvider /\ kind \in SuiteKind /\ runs \in Seq(EvalRow) /\ Len(runs) \in Nat
      /\ evaluator[c].pc # "idle" => evaluator[c] \in EvalWork
  BY EvalIdle DEF EvalTypes
<1>1. ASSUME NEW op \in {"run", "judge"}, NEW explicit \in 0..MaxEvaluations, E!Run(c, op, explicit)
      PROVE  \E w \in EvalWork : /\ EvalMoved(c, w) /\ w.pc = "case" /\ w.op = op /\ w.explicit = explicit
                                 /\ explicit <= Len(runs) /\ EvalFresh(w)
                                 /\ EvalFits(w) /\ evaluator[c] = E!Idle /\ E!Begins(c, op)
                                 /\ UNCHANGED <<kind, runs, provider, judging>>
  <2>0. <<>> \in Seq(STRING)
    OBVIOUS
  <2> DEFINE none == <<>>
             w == E!Work(op, explicit, none)
  <2>1. op \in EvalOp /\ op # "compare" /\ explicit \in Nat
    BY DEF EvalOp
  <2> HIDE DEF none
  <2>4. none \in Seq(STRING) /\ none = <<>>
    BY <2>0 DEF none
  <2>2. /\ w \in EvalWork /\ w.op = op /\ w.explicit = explicit /\ w.cases = <<>> /\ w.used = {} /\ w.pc = "case"
    <3>1. w \in EvalWork /\ w.op = op /\ w.explicit = explicit
      <4>1. <<>> \in Seq(EvalResult) /\ op \in {"run", "judge"}
        OBVIOUS
      <4> HIDE DEF EvalResult
      <4> QED
        BY <1>0, <2>1, <2>4, <4>1 DEF E!Work, EvalWork
    <3>2. w.cases = <<>> /\ w.used = {} /\ w.pc = "case"
      BY <2>1, <2>4 DEF E!Work
    <3> QED
      BY <3>1, <3>2
  <2>3. /\ evaluator' = [evaluator EXCEPT ![c] = w] /\ evaluator[c] = E!Idle /\ E!Begins(c, op)
        /\ explicit \in {0} \cup DOMAIN runs /\ UNCHANGED <<kind, runs, provider, judging>>
    BY <1>1 DEF E!Run, none
  <2>5. explicit <= Len(runs) /\ EvalFits(w)
    <3>1. Len(Suite) > 0
      BY EvaluationAssumption
    <3> QED
      BY <1>0, <2>2, <2>3, <3>1 DEF EvalFits
  <2> HIDE DEF w
  <2> QED
    BY <2>2, <2>3, <2>5 DEF EvalMoved, EvalFresh
<1>2. ASSUME NEW names \in Comparisons, E!Compare(c, names)
      PROVE  \E w \in EvalWork : /\ EvalMoved(c, w) /\ w.pc = "next" /\ w.op = "compare" /\ w.explicit = 0
                                 /\ w.previous = provider
                                 /\ EvalFits(w) /\ evaluator[c] = E!Idle /\ E!Begins(c, "compare")
                                 /\ UNCHANGED <<kind, runs, provider, judging>>
  <2> DEFINE w == E!Work("compare", 0, names)
  <2>1. "compare" \in EvalOp /\ names \in Seq(STRING) /\ 0 \in Nat
    BY EvaluationAssumption DEF EvalOp
  <2>2. w \in EvalWork /\ w.op = "compare" /\ w.explicit = 0 /\ w.pc = "next" /\ w.previous = provider
    BY <2>1, EvalBegins
  <2>3. /\ evaluator' = [evaluator EXCEPT ![c] = w] /\ evaluator[c] = E!Idle /\ E!Begins(c, "compare")
        /\ UNCHANGED <<kind, runs, provider, judging>>
    BY <1>2 DEF E!Compare
  <2>4. EvalFits(w)
    BY <2>2 DEF EvalFits
  <2> HIDE DEF w
  <2> QED
    BY <2>2, <2>3, <2>4 DEF EvalMoved
<1>3. ASSUME E!NextProvider(c)
      PROVE  \E w \in EvalWork : /\ EvalMoved(c, w) /\ w.op = evaluator[c].op /\ w.explicit = evaluator[c].explicit
                                 /\ w.previous = evaluator[c].previous /\ w.pc \in {"restore", "next", "case"}
                                 /\ w.pc = "case" => w.cases = <<>> /\ w.used = {}
                                 /\ evaluator[c].pc = "next" /\ EvalFits(w) /\ provider' \in ModelProvider
                                 /\ kind # "agent" => provider' = provider
                                 /\ UNCHANGED <<kind, runs, judging, crossed>>
  <2>1. evaluator[c].pc = "next" /\ UNCHANGED <<kind, runs, judging, crossed>>
    BY <1>3 DEF E!NextProvider
  <2>2. PICK me \in EvalWork : me = evaluator[c]
    BY <1>0, <2>1
  <2>3. me.pc = "next" /\ me.op = "compare" /\ me.names \in Seq(STRING)
    BY <2>1, <2>2 DEF EvalWork, EvalTypes, E!Active, EvalFits
  <2> DEFINE Moving(w) == /\ EvalMoved(c, w) /\ w.op = me.op /\ w.explicit = me.explicit
                          /\ w.previous = me.previous /\ w.pc \in {"restore", "next", "case"}
                          /\ w.pc = "case" => w.cases = <<>> /\ w.used = {}
                          /\ EvalFits(w) /\ w \in EvalWork
  <2>4. CASE me.names = <<>>
    <3> DEFINE w == [me EXCEPT !.pc = "restore"]
    <3>1. evaluator' = [evaluator EXCEPT ![c].pc = "restore"] /\ provider' = provider
      BY <1>3, <2>2, <2>4 DEF E!NextProvider
    <3>2. evaluator' = [evaluator EXCEPT ![c] = w]
      BY <2>2, <3>1
    <3>3. w \in EvalWork /\ w.op = me.op /\ w.explicit = me.explicit /\ w.previous = me.previous /\ w.pc = "restore"
      BY <2>2 DEF EvalWork
    <3> HIDE DEF w
    <3>4. Moving(w)
      BY <2>3, <3>2, <3>3 DEF EvalMoved, EvalFits
    <3> QED
      BY <1>0, <2>1, <2>2, <3>1, <3>4
  <2>5. CASE me.names # <<>> /\ Head(me.names) \notin ModelProvider
    <3> DEFINE w == [me EXCEPT !.names = Tail(me.names)]
    <3>1. evaluator' = [evaluator EXCEPT ![c].names = Tail(@)] /\ provider' = provider
      BY <1>3, <2>2, <2>5 DEF E!NextProvider
    <3>2. evaluator' = [evaluator EXCEPT ![c] = w]
      BY <2>2, <3>1
    <3>0. Tail(me.names) \in Seq(STRING)
      BY <2>3, <2>5, EvalSequences, Zenon
    <3>3. w \in EvalWork /\ w.op = me.op /\ w.explicit = me.explicit /\ w.previous = me.previous /\ w.pc = "next"
      BY <2>2, <2>3, <3>0 DEF EvalWork
    <3> HIDE DEF w
    <3>4. Moving(w)
      BY <2>3, <3>2, <3>3 DEF EvalMoved, EvalFits
    <3> QED
      BY <1>0, <2>1, <2>2, <3>1, <3>4
  <2>6. CASE me.names # <<>> /\ Head(me.names) \in ModelProvider
    <3> DEFINE w == [me EXCEPT !.pc = "case", !.names = Tail(me.names), !.cases = <<>>, !.used = {}]
    <3>1. /\ evaluator' = [evaluator EXCEPT ![c] = [me EXCEPT !.pc = "case", !.names = Tail(@), !.cases = <<>>, !.used = {}]]
          /\ provider' = IF kind = "agent" THEN Head(me.names) ELSE provider
      BY <1>3, <2>2, <2>6 DEF E!NextProvider
    <3>2. evaluator' = [evaluator EXCEPT ![c] = w]
      BY <3>1
    <3>7. Tail(me.names) \in Seq(STRING)
      BY <2>3, <2>6, EvalSequences, Zenon
    <3>0. <<>> \in Seq(EvalResult)
      OBVIOUS
    <3>3. /\ w \in EvalWork /\ w.op = me.op /\ w.explicit = me.explicit /\ w.previous = me.previous
          /\ w.pc = "case" /\ w.cases = <<>> /\ w.used = {}
      <4> HIDE DEF EvalResult
      <4> QED
        BY <2>2, <2>3, <3>0, <3>7 DEF EvalWork
    <3> HIDE DEF w
    <3>5. Len(Suite) > 0 /\ Len(<<>>) = 0
      BY EvaluationAssumption
    <3>4. Moving(w)
      BY <2>3, <3>2, <3>3, <3>5 DEF EvalMoved, EvalFits
    <3>6. provider' \in ModelProvider /\ (kind # "agent" => provider' = provider)
      BY <1>0, <2>6, <3>1
    <3> QED
      BY <2>1, <2>2, <3>4, <3>6
  <2> QED
    BY <2>4, <2>5, <2>6
<1>4. ASSUME E!Restore(c)
      PROVE  /\ EvalMoved(c, E!Idle) /\ evaluator[c].pc = "restore"
             /\ provider' = (IF kind = "agent" THEN evaluator[c].previous ELSE provider)
             /\ UNCHANGED <<kind, runs, judging, crossed>>
  BY <1>4 DEF E!Restore, EvalMoved
<1>5. ASSUME E!RunCase(c)
      PROVE  \E w \in EvalWork : /\ EvalMoved(c, w) /\ w.op = evaluator[c].op /\ w.explicit = evaluator[c].explicit
                                 /\ w.previous = evaluator[c].previous /\ w.pc \in {"case", "verdict"}
                                 /\ EvalFits(w) /\ w.cases # <<>> /\ w.used = evaluator[c].used \cup {provider}
                                 /\ evaluator[c].pc = "case"
                                 /\ UNCHANGED <<kind, runs, provider, judging, crossed>>
  <2>1. evaluator[c].pc = "case" /\ UNCHANGED <<kind, runs, provider, judging, crossed>>
    BY <1>5 DEF E!RunCase
  <2>2. PICK me \in EvalWork : me = evaluator[c]
    BY <1>0, <2>1
  <2> DEFINE k == Len(me.cases) + 1
             pc == IF k = Len(Suite) THEN "verdict" ELSE "case"
  <2>3. /\ me.cases \in Seq(EvalResult) /\ me.used \in SUBSET ModelProvider /\ Len(me.cases) < Len(Suite)
        /\ me.pc = "case"
    BY <2>1, <2>2 DEF EvalWork, EvalTypes, E!Active, EvalFits
  <2>4. PICK answer \in Answers[kind] :
          evaluator' = [evaluator EXCEPT ![c] =
            [me EXCEPT !.cases = Append(@, E!result(Suite[k], E!context(answer))), !.used = @ \cup {provider}, !.pc = pc]]
    BY <1>5, <2>2 DEF E!RunCase
  <2> DEFINE r == E!result(Suite[k], E!context(answer))
  <2>5. k \in DOMAIN Suite /\ (k # Len(Suite) => k < Len(Suite)) /\ k \in Nat
    <3>1. Len(Suite) \in Nat /\ DOMAIN Suite = 1..Len(Suite) /\ Len(me.cases) \in Nat
      BY <2>3, EvaluationAssumption
    <3>2. k \in 1..Len(Suite) /\ (k # Len(Suite) => k < Len(Suite)) /\ k \in Nat
      <4> DEFINE l == Len(me.cases)
      <4>1. l \in Nat /\ l < Len(Suite) /\ k = l + 1
        BY <2>3, <3>1
      <4> HIDE DEF l, k
      <4> QED
        <5>1. Len(Suite) \in Nat
          BY <3>1
        <5> QED
          BY <5>1, <4>1
    <3> QED
      BY <3>1, <3>2, Zenon
  <2>6. r \in EvalResult
    BY <1>0, <2>5, EvalResults
  <2> DEFINE cases == Append(me.cases, r)
             used == me.used \cup {provider}
             w == [me EXCEPT !.cases = cases, !.used = used, !.pc = pc]
  <2>7. evaluator' = [evaluator EXCEPT ![c] = w]
    BY <2>4
  <2> HIDE DEF r, EvalResult
  <2>8. cases \in Seq(EvalResult) /\ cases # <<>> /\ Len(cases) = k
    BY <2>3, <2>6, EvalSequences, Zenon
  <2>9. used \in SUBSET ModelProvider /\ pc \in {"case", "verdict"} /\ (pc = "case" => k < Len(Suite))
    BY <1>0, <2>3, <2>5
  <2> HIDE DEF cases, used, pc, k
  <2>10. /\ w \in EvalWork /\ w.op = me.op /\ w.explicit = me.explicit /\ w.previous = me.previous
         /\ w.cases = cases /\ w.used = used /\ w.pc = pc
    BY <2>2, <2>8, <2>9 DEF EvalWork
  <2> HIDE DEF w
  <2>11. EvalMoved(c, w) /\ EvalFits(w)
    BY <2>7, <2>8, <2>9, <2>10 DEF EvalMoved, EvalFits
  <2> QED
    BY <2>1, <2>2, <2>8, <2>9, <2>10, <2>11 DEF used
<1> QED
  BY <1>1, <1>2, <1>3, <1>4, <1>5

\* The row a verdict saves, and what its caller goes on with.
EvalJudged(c, r, w) ==
  /\ r \in EvalRow /\ runs' = Append(runs, r) /\ evaluator[c].pc = "verdict"
  /\ r.cases # <<>> /\ r.baseline <= Len(runs) /\ r.op = evaluator[c].op /\ r.used = evaluator[c].used
  /\ Kept(r, runs[r.baseline].cases)
  /\ r.implicit /\ r.baseline # 0 => runs[r.baseline].status = "passed"
  /\ r.doubtful <=> r.baseline \in judging
  /\ EvalMoved(c, w) /\ Len(runs) < MaxEvaluations
  /\ IF r.op = "judge" THEN judging' = judging \cup {Len(runs) + 1} ELSE judging' = judging
  /\ r.op = "judge" => w \in EvalWork /\ w.pc = "judge" /\ w.explicit = Len(runs) + 1 /\ w.op = r.op
  /\ r.op = "compare" => w \in EvalWork /\ w.pc = "next" /\ w.explicit = evaluator[c].explicit /\ w.op = r.op
                         /\ w.previous = evaluator[c].previous
  /\ r.op = "run" => w = E!Idle
  /\ UNCHANGED <<kind, provider, crossed>>

LEMMA EvalVerdicts ==
  ASSUME EvaluationAssumption, EvalTypes, NEW c \in Caller, E!Verdict(c)
  PROVE  \E r, w : EvalJudged(c, r, w)
<1>1. evaluator[c].pc = "verdict" /\ UNCHANGED <<kind, provider, crossed>> /\ Len(runs) < MaxEvaluations
  BY DEF E!Verdict
<1>2. PICK me \in EvalWork : me = evaluator[c]
  BY <1>1, EvalIdle
<1>3. /\ me.cases \in Seq(EvalResult) /\ me.used \in SUBSET ModelProvider /\ me.op \in EvalOp /\ me.explicit \in Nat
      /\ me.explicit <= Len(runs) /\ me.cases # <<>> /\ runs \in Seq(EvalRow)
  BY <1>1, <1>2 DEF EvalWork, EvalTypes, E!Active, EvalFits
<1> DEFINE b == E!Baseline(me.explicit)
           base == IF b = 0 THEN <<>> ELSE runs[b].cases
<1>4. PICK critical \in BOOLEAN :
        runs' = Append(runs, [cases |-> me.cases, critical |-> critical, status |-> E!verdict(me.cases, critical, base),
                              baseline |-> b, implicit |-> me.explicit = 0, doubtful |-> b \in judging,
                              used |-> me.used, op |-> me.op])
  BY <1>2 DEF E!Verdict
<1>5. /\ judging' = (IF me.op = "judge" THEN judging \cup {Len(runs) + 1} ELSE judging)
      /\ evaluator' = [evaluator EXCEPT ![c] =
            CASE me.op = "judge" -> [me EXCEPT !.pc = "judge", !.explicit = Len(runs) + 1]
              [] me.op = "compare" -> [me EXCEPT !.pc = "next"]
              [] OTHER -> E!Idle]
  BY <1>2 DEF E!Verdict
<1> DEFINE status == E!verdict(me.cases, critical, base)
           implicit == me.explicit = 0
           doubtful == b \in judging
           w == CASE me.op = "judge" -> [me EXCEPT !.pc = "judge", !.explicit = Len(runs) + 1]
                  [] me.op = "compare" -> [me EXCEPT !.pc = "next"]
                  [] OTHER -> E!Idle
<1>6. b \in 0..Len(runs) /\ (implicit /\ b # 0 => runs[b].status = "passed") /\ Len(runs) \in Nat
  <2>1. b \in 0..Len(runs) /\ (me.explicit = 0 /\ b # 0 => runs[b].status = "passed")
    BY <1>3, EvalBaseline
  <2>2. Len(runs) \in Nat
    BY <1>3
  <2> QED
    BY <2>1, <2>2
<1> HIDE DEF b
<1>7. b # 0 => base = runs[b].cases /\ base # <<>> /\ base \in Seq(EvalResult)
  <2> SUFFICES ASSUME b # 0 PROVE runs[b].cases # <<>> /\ runs[b].cases \in Seq(EvalResult)
    OBVIOUS
  <2>1. b \in DOMAIN runs
    BY <1>3, <1>6
  <2>2. runs[b] \in EvalRow
    BY <1>3, <2>1
  <2> QED
    BY <2>1, <2>2 DEF EvalTypes, EvalRow
<1>8. base \in Seq(EvalResult)
  <2>1. <<>> \in Seq(EvalResult)
    OBVIOUS
  <2> QED
    BY <1>7, <2>1, Zenon
<1> HIDE DEF base
<1>9. /\ status \in E!Status
      /\ status = "passed" => /\ Cardinality(E!passed(me.cases)) >= MinPassed /\ ~critical
                              /\ E!total_cost(me.cases) <= MaxRunCost /\ E!mostly_within(me.cases, MaxP95)
      /\ status \in {"passed", "failed"} /\ base # <<>> => Cardinality(E!new_failures(me.cases, base)) <= MaxRegressions
  BY <1>3, <1>8, EvalVerdict
<1>10. implicit \in BOOLEAN /\ doubtful \in BOOLEAN
  OBVIOUS
<1> HIDE DEF status, EvalResult
<1> DEFINE r == [cases |-> me.cases, critical |-> critical, status |-> status, baseline |-> b,
                 implicit |-> implicit, doubtful |-> doubtful, used |-> me.used, op |-> me.op]
<1>11. runs' = Append(runs, r)
  BY <1>4 DEF status
<1>12. doubtful <=> b \in judging
  OBVIOUS
<1> HIDE DEF implicit, doubtful
<1>13. r \in EvalRow
  BY <1>3, <1>6, <1>9, <1>10 DEF EvalRow
<1>14. /\ r.cases = me.cases /\ r.critical = critical /\ r.status = status /\ r.baseline = b
       /\ r.implicit = implicit /\ r.doubtful = doubtful /\ r.used = me.used /\ r.op = me.op
  OBVIOUS
<1> HIDE DEF r
<1>15. Kept(r, runs[r.baseline].cases)
  BY <1>7, <1>9, <1>14 DEF Kept
<1>16. /\ me.op = "judge" => w \in EvalWork /\ w.pc = "judge" /\ w.explicit = Len(runs) + 1 /\ w.op = me.op
       /\ me.op = "compare" => w \in EvalWork /\ w.pc = "next" /\ w.explicit = me.explicit /\ w.op = me.op
                               /\ w.previous = me.previous
       /\ me.op = "run" => w = E!Idle
  <2>1. CASE me.op = "judge"
    <3>1. w = [me EXCEPT !.pc = "judge", !.explicit = Len(runs) + 1]
      BY <2>1
    <3> DEFINE next == Len(runs) + 1
    <3>2. next \in Nat /\ w = [me EXCEPT !.pc = "judge", !.explicit = next]
      BY <1>6, <3>1
    <3> HIDE DEF w, next
    <3>3. w \in EvalWork /\ w.pc = "judge" /\ w.explicit = next /\ w.op = me.op
      BY <1>2, <2>1, <3>2 DEF EvalWork
    <3> QED
      BY <2>1, <3>3 DEF next
  <2>2. CASE me.op = "compare"
    <3>1. w = [me EXCEPT !.pc = "next"]
      BY <2>2
    <3> HIDE DEF w
    <3> QED
      BY <1>2, <2>2, <3>1 DEF EvalWork
  <2>3. CASE me.op = "run"
    BY <2>3
  <2> QED
    BY <1>3, <2>1, <2>2, <2>3 DEF EvalOp
<1>17. evaluator' = [evaluator EXCEPT ![c] = w]
  BY <1>5
<1> HIDE DEF w
<1>18. EvalMoved(c, w)
  BY <1>3, <1>16, <1>17 DEF EvalMoved, EvalOp
<1>19. IF r.op = "judge" THEN judging' = judging \cup {Len(runs) + 1} ELSE judging' = judging
  BY <1>5, <1>14
<1>20. EvalJudged(c, r, w)
  BY <1>1, <1>2, <1>3, <1>6, <1>11, <1>12, <1>13, <1>14, <1>15, <1>16, <1>18, <1>19 DEF EvalJudged
<1> QED
  BY <1>20

LEMMA EvalMovedIs ==
  ASSUME EvalTypes, NEW c \in Caller, NEW w, EvalMoved(c, w)
  PROVE  evaluator'[c] = w /\ \A d \in Caller : d # c => evaluator'[d] = evaluator[d]
BY DEF EvalMoved, EvalTypes

LEMMA EvalCallersKept ==
  ASSUME EvalTypes, NEW c \in Caller, NEW w, EvalMoved(c, w), Len(runs) \in Nat, Len(runs') \in Nat, Len(runs) <= Len(runs'),
         w \in EvalWork => w.explicit <= Len(runs') /\ EvalFits(w)
  PROVE  /\ evaluator' \in [Caller -> EvalWork \cup {E!Idle}]
         /\ (\A d \in E!Active : evaluator[d].explicit <= Len(runs) /\ EvalFits(evaluator[d]))'
<1>1. evaluator' \in [Caller -> EvalWork \cup {E!Idle}]
  BY DEF EvalMoved, EvalTypes
<1>2. ASSUME NEW d \in Caller, evaluator'[d].pc # "idle" PROVE evaluator'[d].explicit <= Len(runs') /\ EvalFits(evaluator'[d])
  <2>1. CASE d = c
    <3>1. evaluator'[d] = w /\ w \in EvalWork
      BY <1>2, <2>1, EvalIdle, EvalMovedIs DEF EvalMoved
    <3> QED
      BY <3>1
  <2>2. CASE d # c
    <3>1. evaluator'[d] = evaluator[d] /\ evaluator[d] \in EvalWork
      BY <1>2, <2>2, EvalMovedIs, EvalIdle
    <3>2. evaluator[d].explicit <= Len(runs) /\ EvalFits(evaluator[d]) /\ evaluator[d].explicit \in Nat
      BY <1>2, <3>1 DEF EvalTypes, E!Active, EvalWork
    <3> QED
      BY <3>1, <3>2
  <2> QED
    BY <2>1, <2>2
<1>3. (\A d \in E!Active : evaluator[d].explicit <= Len(runs) /\ EvalFits(evaluator[d]))'
  BY <1>2 DEF E!Active, EvalFits
<1> QED
  BY <1>1, <1>3

\* What a judge's second save changes.
EvalSaved(n) == runs' = runs \/ runs' = [runs EXCEPT ![n].status = "failed"]
LEMMA EvalJudges ==
  ASSUME EvalTypes, JudgeInv, NEW c \in Caller, E!Judge(c)
  PROVE  /\ evaluator[c].explicit \in judging /\ Judges(c) /\ EvalSaved(evaluator[c].explicit)
         /\ judging' = judging \ {evaluator[c].explicit} /\ EvalMoved(c, E!Idle) /\ UNCHANGED <<kind, provider, crossed>>
         /\ runs' \in Seq(EvalRow) /\ Len(runs') = Len(runs)
         /\ \A n \in DOMAIN runs : /\ runs'[n].cases = runs[n].cases /\ runs'[n].critical = runs[n].critical
                                   /\ runs'[n].baseline = runs[n].baseline /\ runs'[n].implicit = runs[n].implicit
                                   /\ runs'[n].doubtful = runs[n].doubtful /\ runs'[n].used = runs[n].used
                                   /\ runs'[n].op = runs[n].op
                                   /\ n # evaluator[c].explicit => runs'[n].status = runs[n].status
                                   /\ runs'[n].status \in {runs[n].status, "failed"}
<1> DEFINE n == evaluator[c].explicit
<1>1. /\ Judges(c) /\ EvalSaved(n) /\ judging' = judging \ {n} /\ EvalMoved(c, E!Idle) /\ UNCHANGED <<kind, provider, crossed>>
  BY DEF E!Judge, Judges, EvalSaved, EvalMoved
<1>2. n \in judging
  BY <1>1 DEF JudgeInv
<1> HIDE DEF n
<1>3. n \in DOMAIN runs /\ runs \in Seq(EvalRow)
  BY <1>2 DEF EvalTypes
<1>4. runs[n] \in EvalRow
  BY <1>3
<1>5. [runs[n] EXCEPT !.status = "failed"] \in EvalRow
  <2>1. PICK r \in EvalRow : r = runs[n]
    BY <1>4
  <2>2. [r EXCEPT !.status = "failed"] \in EvalRow
    BY DEF EvalRow, E!Status
  <2> QED
    BY <2>1, <2>2
<1>6. CASE runs' = runs
  <2>1. \A m \in DOMAIN runs : runs'[m] = runs[m]
    BY <1>6
  <2> QED
    BY <1>1, <1>2, <1>3, <1>6, <2>1 DEF n
<1>7. CASE runs' = [runs EXCEPT ![n].status = "failed"]
  <2>1. \A m \in DOMAIN runs : m # n => runs'[m] = runs[m]
    BY <1>7
  <2>2. runs'[n] = [runs[n] EXCEPT !.status = "failed"]
    BY <1>3, <1>7
  <2>3. PICK r \in EvalRow : r = runs[n] /\ runs'[n] = [r EXCEPT !.status = "failed"]
    BY <1>4, <2>2
  <2>4. /\ runs'[n].cases = runs[n].cases /\ runs'[n].critical = runs[n].critical
        /\ runs'[n].baseline = runs[n].baseline /\ runs'[n].implicit = runs[n].implicit
        /\ runs'[n].doubtful = runs[n].doubtful /\ runs'[n].used = runs[n].used
        /\ runs'[n].op = runs[n].op /\ runs'[n].status = "failed"
    BY <2>3 DEF EvalRow
  <2>5. runs' = [runs EXCEPT ![n] = [runs[n] EXCEPT !.status = "failed"]]
    BY <1>7
  <2>6. runs' \in Seq(EvalRow) /\ Len(runs') = Len(runs)
    <3> DEFINE r2 == [runs[n] EXCEPT !.status = "failed"]
    <3>1. r2 \in EvalRow /\ runs' = [runs EXCEPT ![n] = r2]
      BY <1>5, <2>5
    <3> HIDE DEF r2, EvalRow
    <3> QED
      BY <1>3, <3>1
  <2> QED
    BY <1>1, <1>2, <2>1, <2>4, <2>6 DEF n
<1> QED
  BY <1>1, <1>6, <1>7 DEF EvalSaved

LEMMA EvalTypesSteps ==
  ASSUME EvaluationAssumption, EvalTypes, JudgeInv, [E!Next]_E!vars
  PROVE  EvalTypes'
<1>0. /\ runs \in Seq(EvalRow) /\ Len(runs) \in Nat /\ MaxEvaluations \in Nat /\ Len(runs) <= MaxEvaluations
      /\ kind \in SuiteKind /\ provider \in ModelProvider
  BY EvaluationAssumption DEF EvalTypes
\* A move that saves nothing.
<1>a. ASSUME NEW c \in Caller, NEW w, EvalMoved(c, w), runs' = runs, kind' = kind, judging' \subseteq judging,
             provider' \in ModelProvider, crossed' \in BOOLEAN,
             w \in EvalWork => w.explicit <= Len(runs) /\ EvalFits(w)
      PROVE  EvalTypes'
  <2>1. /\ evaluator' \in [Caller -> EvalWork \cup {E!Idle}]
        /\ (\A d \in E!Active : evaluator[d].explicit <= Len(runs) /\ EvalFits(evaluator[d]))'
    BY <1>0, <1>a, EvalCallersKept
  <2> QED
    BY <1>0, <1>a, <2>1 DEF EvalTypes
<1>1. ASSUME NEW c \in Caller, NEW op \in {"run", "judge"}, NEW explicit \in 0..MaxEvaluations, E!Run(c, op, explicit)
      PROVE  EvalTypes'
  <2>1. PICK w \in EvalWork : EvalMoved(c, w) /\ w.explicit = explicit /\ explicit <= Len(runs) /\ EvalFits(w) /\ E!Begins(c, op)
                              /\ UNCHANGED <<kind, runs, provider, judging>>
    BY <1>1, EvalMoves
  <2>2. crossed' \in BOOLEAN
    BY <2>1, Zenon DEF E!Begins
  <2> QED
    BY <1>0, <1>a, <2>1, <2>2
<1>2. ASSUME NEW c \in Caller, NEW names \in Comparisons, E!Compare(c, names) PROVE EvalTypes'
  <2>1. PICK w \in EvalWork : EvalMoved(c, w) /\ w.explicit = 0 /\ EvalFits(w) /\ E!Begins(c, "compare")
                              /\ UNCHANGED <<kind, runs, provider, judging>>
    BY <1>2, EvalMoves
  <2>2. crossed' \in BOOLEAN
    BY <2>1, Zenon DEF E!Begins
  <2> QED
    BY <1>0, <1>a, <2>1, <2>2
<1>3. ASSUME NEW c \in Caller, E!NextProvider(c) PROVE EvalTypes'
  <2>1. PICK w \in EvalWork : EvalMoved(c, w) /\ w.explicit = evaluator[c].explicit /\ EvalFits(w) /\ evaluator[c].pc = "next"
                              /\ provider' \in ModelProvider /\ UNCHANGED <<kind, runs, judging, crossed>>
    BY <1>3, EvalMoves
  <2>2. evaluator[c].explicit <= Len(runs) /\ crossed \in BOOLEAN
    BY <2>1 DEF EvalTypes, E!Active
  <2> QED
    BY <1>a, <2>1, <2>2
<1>4. ASSUME NEW c \in Caller, E!Restore(c) PROVE EvalTypes'
  <2>1. /\ EvalMoved(c, E!Idle) /\ evaluator[c].pc = "restore"
        /\ provider' = (IF kind = "agent" THEN evaluator[c].previous ELSE provider)
        /\ UNCHANGED <<kind, runs, judging, crossed>>
    BY <1>4, EvalMoves
  <2>2. evaluator[c].previous \in ModelProvider /\ crossed \in BOOLEAN
    BY <2>1, EvalIdle DEF EvalTypes, EvalWork
  <2> QED
    BY <1>0, <1>a, <2>1, <2>2, EvalIdle
<1>5. ASSUME NEW c \in Caller, E!RunCase(c) PROVE EvalTypes'
  <2>1. PICK w \in EvalWork : EvalMoved(c, w) /\ w.explicit = evaluator[c].explicit /\ EvalFits(w) /\ evaluator[c].pc = "case"
                              /\ UNCHANGED <<kind, runs, provider, judging, crossed>>
    BY <1>5, EvalMoves
  <2>2. evaluator[c].explicit <= Len(runs) /\ crossed \in BOOLEAN
    BY <2>1 DEF EvalTypes, E!Active
  <2> QED
    BY <1>0, <1>a, <2>1, <2>2
<1>6. ASSUME NEW c \in Caller, E!Verdict(c) PROVE EvalTypes'
  <2>1. PICK r, w : EvalJudged(c, r, w)
    BY <1>6, EvalVerdicts
  <2>2. r \in EvalRow /\ runs' = Append(runs, r) /\ r.baseline <= Len(runs) /\ r.cases # <<>> /\ EvalMoved(c, w)
        /\ Len(runs) < MaxEvaluations /\ UNCHANGED <<kind, provider, crossed>> /\ r.op \in EvalOp /\ r.baseline \in Nat
    BY <2>1 DEF EvalJudged, EvalRow
  <2>3. runs' \in Seq(EvalRow) /\ Len(runs') = Len(runs) + 1 /\ Len(runs') <= MaxEvaluations
    BY <1>0, <2>2
  <2>4. \A n \in DOMAIN runs' : (n \in DOMAIN runs /\ runs'[n] = runs[n]) \/ (n = Len(runs) + 1 /\ runs'[n] = r)
    BY <1>0, <2>2
  <2>5. \A n \in DOMAIN runs' : runs'[n].baseline < n /\ runs'[n].cases # <<>>
    BY <1>0, <2>2, <2>4 DEF EvalTypes
  <2>6. judging' \subseteq DOMAIN runs'
    <3>1. DOMAIN runs' = 1..Len(runs) + 1 /\ DOMAIN runs = 1..Len(runs)
      BY <1>0, <2>2, <2>3
    <3> QED
      BY <1>0, <2>1, <3>1 DEF EvalJudged, EvalTypes
  <2>7. w \in EvalWork => w.explicit <= Len(runs') /\ EvalFits(w)
    <3>1. evaluator[c].explicit <= Len(runs) /\ evaluator[c].explicit \in Nat
      BY <2>1, EvalIdle DEF EvalJudged, EvalTypes, E!Active, EvalWork
    <3>2. CASE r.op = "judge"
      BY <1>0, <2>1, <2>3, <3>2 DEF EvalJudged, EvalFits
    <3>3. CASE r.op = "compare"
      BY <1>0, <2>1, <2>3, <3>1, <3>3 DEF EvalJudged, EvalFits
    <3>4. CASE r.op = "run"
      BY <2>1, <3>4, EvalIdle DEF EvalJudged
    <3> QED
      BY <2>2, <3>2, <3>3, <3>4 DEF EvalOp
  <2>8. /\ evaluator' \in [Caller -> EvalWork \cup {E!Idle}]
        /\ (\A d \in E!Active : evaluator[d].explicit <= Len(runs) /\ EvalFits(evaluator[d]))'
    BY <1>0, <2>2, <2>3, <2>7, EvalCallersKept
  <2> QED
    BY <1>0, <2>2, <2>3, <2>5, <2>6, <2>8 DEF EvalTypes
<1>7. ASSUME NEW c \in Caller, E!Judge(c) PROVE EvalTypes'
  <2>1. /\ judging' = judging \ {evaluator[c].explicit} /\ EvalMoved(c, E!Idle) /\ UNCHANGED <<kind, provider, crossed>>
        /\ runs' \in Seq(EvalRow) /\ Len(runs') = Len(runs)
        /\ \A n \in DOMAIN runs : runs'[n].cases = runs[n].cases /\ runs'[n].baseline = runs[n].baseline
    BY <1>7, EvalJudges
  <2>2. DOMAIN runs' = DOMAIN runs
    BY <1>0, <2>1
  <2>3. /\ evaluator' \in [Caller -> EvalWork \cup {E!Idle}]
        /\ (\A d \in E!Active : evaluator[d].explicit <= Len(runs) /\ EvalFits(evaluator[d]))'
    BY <1>0, <2>1, EvalCallersKept, EvalIdle
  <2> QED
    BY <1>0, <2>1, <2>2, <2>3 DEF EvalTypes
<1>8. CASE UNCHANGED E!vars
  BY <1>8 DEF E!vars, EvalTypes, E!Active, EvalFits
<1> QED
  BY <1>1, <1>2, <1>3, <1>4, <1>5, <1>6, <1>7, <1>8 DEF E!Next

LEMMA EvalJudgeSteps ==
  ASSUME EvaluationAssumption, EvalTypes, JudgeInv, [E!Next]_E!vars
  PROVE  JudgeInv'
<1>0. runs \in Seq(EvalRow) /\ Len(runs) \in Nat /\ judging \subseteq DOMAIN runs
  BY DEF EvalTypes
\* A move to where nobody judges.
<1>a. ASSUME NEW c \in Caller, NEW w, EvalMoved(c, w), w.pc # "judge", ~Judges(c), runs' = runs, judging' = judging
      PROVE  JudgeInv'
  <2>1. \A d \in Caller : Judges(d)' => d # c /\ Judges(d) /\ evaluator'[d] = evaluator[d]
    BY <1>a, EvalMovedIs DEF Judges
  <2> QED
    BY <1>a, <2>1 DEF JudgeInv
<1>1. ASSUME NEW c \in Caller, NEW op \in {"run", "judge"}, NEW explicit \in 0..MaxEvaluations, E!Run(c, op, explicit)
      PROVE  JudgeInv'
  <2>1. PICK w \in EvalWork : EvalMoved(c, w) /\ w.pc = "case" /\ evaluator[c] = E!Idle /\ runs' = runs /\ judging' = judging
    BY <1>1, EvalMoves
  <2> QED
    BY <1>a, <2>1, EvalIdle DEF Judges
<1>2. ASSUME NEW c \in Caller, NEW names \in Comparisons, E!Compare(c, names) PROVE JudgeInv'
  <2>1. PICK w \in EvalWork : EvalMoved(c, w) /\ w.pc = "next" /\ evaluator[c] = E!Idle /\ runs' = runs /\ judging' = judging
    BY <1>2, EvalMoves
  <2> QED
    BY <1>a, <2>1, EvalIdle DEF Judges
<1>3. ASSUME NEW c \in Caller, E!NextProvider(c) PROVE JudgeInv'
  <2>1. PICK w \in EvalWork : EvalMoved(c, w) /\ w.pc \in {"restore", "next", "case"} /\ evaluator[c].pc = "next"
                              /\ runs' = runs /\ judging' = judging
    BY <1>3, EvalMoves
  <2> QED
    BY <1>a, <2>1 DEF Judges
<1>4. ASSUME NEW c \in Caller, E!Restore(c) PROVE JudgeInv'
  BY <1>4, <1>a, EvalMoves, EvalIdle DEF Judges
<1>5. ASSUME NEW c \in Caller, E!RunCase(c) PROVE JudgeInv'
  <2>1. PICK w \in EvalWork : EvalMoved(c, w) /\ w.pc \in {"case", "verdict"} /\ evaluator[c].pc = "case"
                              /\ runs' = runs /\ judging' = judging
    BY <1>5, EvalMoves
  <2> QED
    BY <1>a, <2>1 DEF Judges
<1>6. ASSUME NEW c \in Caller, E!Verdict(c) PROVE JudgeInv'
  <2>1. PICK r, w : EvalJudged(c, r, w)
    BY <1>6, EvalVerdicts
  <2>2. r \in EvalRow /\ runs' = Append(runs, r) /\ EvalMoved(c, w) /\ r.op \in EvalOp /\ evaluator[c].pc = "verdict"
    BY <2>1 DEF EvalJudged, EvalRow
  <2>3. \A n \in DOMAIN runs : runs'[n] = runs[n]
    BY <1>0, <2>2
  <2>4. runs'[Len(runs) + 1] = r /\ Len(runs) + 1 \notin DOMAIN runs
    BY <1>0, <2>2
  <2>5. \A d \in Caller : Judges(d)' => \/ (d # c /\ Judges(d) /\ evaluator'[d] = evaluator[d])
                                        \/ (d = c /\ r.op = "judge" /\ evaluator'[d].explicit = Len(runs) + 1)
    <3>1. Judges(c)' => r.op = "judge" /\ evaluator'[c].explicit = Len(runs) + 1
      <4>1. evaluator'[c] = w
        BY <2>2, EvalMovedIs
      <4> QED
        BY <2>1, <2>2, <4>1, EvalIdle DEF EvalJudged, EvalOp, Judges
    <3>2. \A d \in Caller : d # c /\ Judges(d)' => Judges(d) /\ evaluator'[d] = evaluator[d]
      BY <2>2, EvalMovedIs DEF Judges
    <3> QED
      BY <3>1, <3>2
  <2>6. \A d \in Caller : Judges(d) => evaluator[d].explicit \in DOMAIN runs
    BY <1>0 DEF JudgeInv
  <2>7. judging' \subseteq judging \cup {Len(runs) + 1} /\ judging \subseteq judging'
        /\ (r.op = "judge" <=> Len(runs) + 1 \in judging')
    BY <1>0, <2>1, <2>4 DEF EvalJudged
  <2>8. ASSUME NEW d \in Caller, Judges(d)' PROVE evaluator'[d].explicit \in judging'
    BY <2>5, <2>7, <2>8 DEF JudgeInv
  <2>9. ASSUME NEW d \in Caller, NEW e \in Caller, Judges(d)', Judges(e)', evaluator'[d].explicit = evaluator'[e].explicit
        PROVE  d = e
    <3>1. CASE d # c /\ e # c
      BY <2>5, <2>9, <3>1 DEF JudgeInv
    <3>2. CASE d = c \/ e = c
      BY <2>4, <2>5, <2>6, <2>9, <3>2
    <3> QED
      BY <3>1, <3>2
  <2>10. \A n \in judging' : runs'[n].op = "judge"
    BY <1>0, <2>3, <2>4, <2>7 DEF JudgeInv
  <2> QED
    BY <2>8, <2>9, <2>10 DEF JudgeInv
<1>7. ASSUME NEW c \in Caller, E!Judge(c) PROVE JudgeInv'
  <2>1. /\ judging' = judging \ {evaluator[c].explicit} /\ EvalMoved(c, E!Idle) /\ Judges(c)
        /\ \A n \in DOMAIN runs : runs'[n].op = runs[n].op
    BY <1>7, EvalJudges
  <2>2. \A d \in Caller : Judges(d)' => d # c /\ Judges(d) /\ evaluator'[d] = evaluator[d]
    BY <2>1, EvalMovedIs, EvalIdle DEF Judges
  <2> QED
    BY <1>0, <2>1, <2>2 DEF JudgeInv
<1>8. CASE UNCHANGED E!vars
  BY <1>8 DEF E!vars, JudgeInv, Judges
<1> QED
  BY <1>1, <1>2, <1>3, <1>4, <1>5, <1>6, <1>7, <1>8 DEF E!Next

LEMMA Appended ==
  ASSUME NEW set, NEW s \in Seq(set), NEW e \in set
  PROVE  /\ Len(s) + 1 \notin DOMAIN s /\ Append(s, e)[Len(s) + 1] = e
         /\ \A n \in DOMAIN s : Append(s, e)[n] = s[n]
         /\ \A n \in DOMAIN Append(s, e) : n \in DOMAIN s \/ n = Len(s) + 1
<1>1. /\ Len(s) \in Nat /\ DOMAIN s = 1..Len(s)
  OBVIOUS
<1>2. Append(s, e) \in Seq(set) /\ Len(Append(s, e)) = Len(s) + 1
  OBVIOUS
<1>3. DOMAIN Append(s, e) = 1..(Len(s) + 1)
  BY <1>2
<1>4. Append(s, e)[Len(s) + 1] = e
  OBVIOUS
<1>5. \A n \in 1..Len(s) : Append(s, e)[n] = s[n]
  OBVIOUS
<1>6. /\ Len(s) + 1 \notin 1..Len(s)
      /\ \A n \in 1..(Len(s) + 1) : n \in 1..Len(s) \/ n = Len(s) + 1
  BY <1>1
<1> QED
  BY <1>1, <1>3, <1>4, <1>5, <1>6

LEMMA EvalGoodSteps ==
  ASSUME EvaluationAssumption, EvalTypes, JudgeInv, GoodInv, [E!Next]_E!vars
  PROVE  GoodInv'
<1>0. runs \in Seq(EvalRow) /\ Len(runs) \in Nat /\ judging \subseteq DOMAIN runs
      /\ \A n \in DOMAIN runs : runs[n].baseline \in Nat /\ runs[n].baseline < n
  <2>1. runs \in Seq(EvalRow) /\ Len(runs) \in Nat /\ judging \subseteq DOMAIN runs /\ \A n \in DOMAIN runs : runs[n].baseline < n
    BY DEF EvalTypes
  <2>2. ASSUME NEW n \in DOMAIN runs PROVE runs[n].baseline \in Nat
    <3>1. runs[n] \in EvalRow
      BY <2>1
    <3> QED
      BY <3>1 DEF EvalRow
  <2> QED
    BY <2>1, <2>2
<1>a. CASE runs' = runs /\ judging' = judging
  BY <1>a DEF GoodInv
<1>1. ASSUME NEW c \in Caller, NEW op \in {"run", "judge"}, NEW explicit \in 0..MaxEvaluations, E!Run(c, op, explicit)
      PROVE  GoodInv'
  BY <1>1, <1>a DEF E!Run
<1>2. ASSUME NEW c \in Caller, NEW names \in Comparisons, E!Compare(c, names) PROVE GoodInv'
  BY <1>2, <1>a DEF E!Compare
<1>3. ASSUME NEW c \in Caller, E!NextProvider(c) PROVE GoodInv'
  BY <1>3, <1>a DEF E!NextProvider
<1>4. ASSUME NEW c \in Caller, E!Restore(c) PROVE GoodInv'
  BY <1>4, <1>a DEF E!Restore
<1>5. ASSUME NEW c \in Caller, E!RunCase(c) PROVE GoodInv'
  BY <1>5, <1>a DEF E!RunCase
<1>6. ASSUME NEW c \in Caller, E!Verdict(c) PROVE GoodInv'
  <2>1. PICK r, w : EvalJudged(c, r, w)
    BY <1>6, EvalVerdicts
  <2>2. /\ r \in EvalRow /\ runs' = Append(runs, r) /\ r.baseline \in Nat /\ r.baseline <= Len(runs)
        /\ Kept(r, runs[r.baseline].cases)
        /\ (r.implicit /\ r.baseline # 0 => runs[r.baseline].status = "passed")
        /\ (r.doubtful <=> r.baseline \in judging)
        /\ judging' \subseteq judging \cup {Len(runs) + 1}
    BY <2>1 DEF EvalJudged, EvalRow
  <2>0. runs \in Seq(EvalRow) /\ r \in EvalRow /\ runs' = Append(runs, r)
    BY <1>0, <2>2
  <2>3. \A n \in DOMAIN runs : runs'[n] = runs[n]
    BY <2>0, Appended
  <2>4. \A n \in DOMAIN runs' : n \in DOMAIN runs \/ n = Len(runs) + 1
    BY <2>0, Appended
  <2>5. runs'[Len(runs) + 1] = r /\ Len(runs) + 1 \notin DOMAIN runs
    BY <2>0, Appended
  <2> DEFINE GoodRow(n) == /\ Kept(runs'[n], runs'[runs'[n].baseline].cases)
                           /\ runs'[n].implicit /\ runs'[n].baseline # 0 /\ ~runs'[n].doubtful =>
                                runs'[runs'[n].baseline].status = "passed" /\ runs'[n].baseline \notin judging'
  <2>6. ASSUME NEW n \in DOMAIN runs PROVE GoodRow(n)
    <3> DEFINE b == runs[n].baseline
    <3>1. b \in Nat /\ (b # 0 => b \in DOMAIN runs) /\ n # Len(runs) + 1
      <4>1. b \in Nat /\ b < n /\ n \in 1..Len(runs) /\ DOMAIN runs = 1..Len(runs)
        BY <1>0
      <4> HIDE DEF b
      <4> QED
        BY <1>0, <4>1
    <3>2. Kept(runs[n], runs[b].cases) /\ (runs[n].implicit /\ b # 0 /\ ~runs[n].doubtful =>
            runs[b].status = "passed" /\ b \notin judging)
      BY DEF GoodInv
    <3>3. runs'[n] = runs[n] /\ (b # 0 => runs'[b] = runs[b] /\ b # Len(runs) + 1)
      BY <2>3, <2>5, <3>1
    <3>4. Kept(runs[n], runs'[b].cases)
      <4>1. CASE b = 0
        BY <3>2, <4>1 DEF Kept
      <4>2. CASE b # 0
        BY <3>2, <3>3, <4>2
      <4> QED
        BY <4>1, <4>2
    <3> QED
      BY <2>2, <3>2, <3>3, <3>4
  <2>7. GoodRow(Len(runs) + 1)
    <3> DEFINE b == r.baseline
    <3>1. b \in Nat /\ (b # 0 => b \in DOMAIN runs)
      BY <1>0, <2>2
    <3>2. b # 0 => runs'[b] = runs[b] /\ b # Len(runs) + 1
      BY <2>3, <2>5, <3>1
    <3>3. Kept(r, runs'[b].cases)
      <4>1. CASE b = 0
        BY <2>2, <4>1 DEF Kept
      <4>2. CASE b # 0
        BY <2>2, <3>2, <4>2
      <4> QED
        BY <4>1, <4>2
    <3>4. r.implicit /\ b # 0 /\ ~r.doubtful => runs'[b].status = "passed" /\ b \notin judging'
      BY <2>2, <3>2
    <3> QED
      BY <2>5, <3>3, <3>4
  <2> HIDE DEF GoodRow
  <2>8. \A n \in DOMAIN runs' : GoodRow(n)
    BY <2>4, <2>6, <2>7
  <2> QED
    BY <2>8 DEF GoodInv, GoodRow
<1>7. ASSUME NEW c \in Caller, E!Judge(c) PROVE GoodInv'
  <2> DEFINE m == evaluator[c].explicit
  <2>1. /\ m \in judging /\ judging' = judging \ {m} /\ runs' \in Seq(EvalRow) /\ Len(runs') = Len(runs)
        /\ \A n \in DOMAIN runs : /\ runs'[n].cases = runs[n].cases /\ runs'[n].critical = runs[n].critical
                                  /\ runs'[n].baseline = runs[n].baseline /\ runs'[n].implicit = runs[n].implicit
                                  /\ runs'[n].doubtful = runs[n].doubtful /\ runs'[n].op = runs[n].op
                                  /\ n # m => runs'[n].status = runs[n].status
                                  /\ runs'[n].status \in {runs[n].status, "failed"}
    BY <1>7, EvalJudges
  <2>2. runs[m].op = "judge" /\ DOMAIN runs' = DOMAIN runs
    BY <1>0, <2>1 DEF JudgeInv
  <2> HIDE DEF m
  <2> DEFINE GoodRow(n) == /\ Kept(runs'[n], runs'[runs'[n].baseline].cases)
                           /\ runs'[n].implicit /\ runs'[n].baseline # 0 /\ ~runs'[n].doubtful =>
                                runs'[runs'[n].baseline].status = "passed" /\ runs'[n].baseline \notin judging'
  <2>3. ASSUME NEW n \in DOMAIN runs PROVE GoodRow(n)
    <3> DEFINE b == runs[n].baseline
    <3>1. b \in Nat /\ (b # 0 => b \in DOMAIN runs)
      <4>1. b \in Nat /\ b < n /\ n \in 1..Len(runs) /\ DOMAIN runs = 1..Len(runs)
        BY <1>0
      <4> HIDE DEF b
      <4> QED
        BY <1>0, <4>1
    <3>2. Kept(runs[n], runs[b].cases) /\ (runs[n].implicit /\ b # 0 /\ ~runs[n].doubtful =>
            runs[b].status = "passed" /\ b \notin judging)
      BY DEF GoodInv
    <3>3. runs'[n].baseline = b /\ (b # 0 => runs'[b].cases = runs[b].cases)
      BY <2>1, <3>1
    <3>4. Kept(runs[n], runs'[b].cases)
      <4>1. CASE b = 0
        BY <3>2, <4>1 DEF Kept
      <4>2. CASE b # 0
        BY <3>2, <3>3, <4>2
      <4> QED
        BY <4>1, <4>2
    <3>5. Kept(runs'[n], runs'[b].cases)
      <4>1. CASE runs'[n].status = runs[n].status
        BY <2>1, <3>4, <4>1 DEF Kept
      <4>2. CASE runs'[n].status # runs[n].status
        <5>1. n = m /\ runs'[n].status = "failed" /\ runs'[n].op = "judge"
          BY <2>1, <2>2, <4>2
        <5> QED
          BY <5>1 DEF Kept
      <4> QED
        BY <4>1, <4>2
    <3>6. runs[n].implicit /\ b # 0 /\ ~runs[n].doubtful => runs'[b].status = "passed" /\ b \notin judging'
      BY <2>1, <3>1, <3>2
    <3> QED
      BY <2>1, <3>3, <3>5, <3>6
  <2> HIDE DEF GoodRow
  <2> QED
    BY <2>2, <2>3 DEF GoodInv, GoodRow
<1>8. CASE UNCHANGED E!vars
  BY <1>8, <1>a DEF E!vars
<1> QED
  BY <1>1, <1>2, <1>3, <1>4, <1>5, <1>6, <1>7, <1>8 DEF E!Next

LEMMA EvalReturnSteps ==
  ASSUME EvaluationAssumption, EvalTypes, JudgeInv, ReturnInv, [E!Next]_E!vars
  PROVE  ReturnInv'
<1>0. runs \in Seq(EvalRow) /\ Len(runs) \in Nat
  BY DEF EvalTypes
\* An operation begins.
<1>1. ASSUME NEW c \in Caller, NEW op \in EvalOp, NEW w \in EvalWork, EvalMoved(c, w), w.op = op, evaluator[c] = E!Idle,
             w.pc \in {"case", "next"}, w.pc = "case" => UsedOne(w, provider),
             op = "compare" => w.previous = provider, E!Begins(c, op), UNCHANGED <<kind, runs, provider, judging>>
      PROVE  ReturnInv'
  <2>1. evaluator'[c] = w /\ \A d \in Caller : d # c => evaluator'[d] = evaluator[d]
    BY <1>1, EvalMovedIs
  <2>2. SUFFICES ASSUME ~crossed'
        PROVE  /\ \A d, e \in Caller : Compares(d)' /\ Works(e)' => d = e
               /\ \A d \in Caller : Compares(d)' => evaluator'[d].previous = DeclaredProvider
               /\ (\A d \in Caller : ~Compares(d)') => provider = DeclaredProvider
               /\ \A d \in Caller : evaluator'[d].pc \in {"case", "verdict"} => UsedOne(evaluator'[d], provider)
    <3>1. RowsUsed => RowsUsed'
      BY <1>1 DEF RowsUsed
    <3>2. crossed' \/ ~crossed
      BY <1>1 DEF E!Begins
    <3> QED
      BY <1>1, <3>1, <3>2 DEF ReturnInv, ComparesAlone, CasesUsed
  <2>3. ~crossed /\ \A d \in Caller : d # c /\ Works(d) => op # "compare" /\ ~Compares(d)
    BY <1>1, <2>2, Zenon DEF E!Begins, E!Active, Works, Compares
  <2>4. Works(c)' /\ ~Compares(c) /\ (Compares(c)' <=> op = "compare")
    BY <1>1, <2>1, EvalIdle DEF Works, Compares
  <2>5. \A d \in Caller : d # c => (Works(d)' <=> Works(d)) /\ (Compares(d)' <=> Compares(d))
    BY <2>1 DEF Works, Compares
  <2>6. \A d \in Caller : ~Compares(d)
    BY <2>3, <2>4 DEF Compares
  <2>7. provider = DeclaredProvider
    BY <2>3, <2>6 DEF ReturnInv, ComparesAlone, CasesUsed
  <2>8. \A d, e \in Caller : Compares(d)' /\ Works(e)' => d = e
    BY <2>3, <2>4, <2>5, <2>6
  <2>9. \A d \in Caller : Compares(d)' => evaluator'[d].previous = DeclaredProvider
    BY <1>1, <2>1, <2>4, <2>5, <2>6, <2>7
  <2>10. \A d \in Caller : evaluator'[d].pc \in {"case", "verdict"} => UsedOne(evaluator'[d], provider)
    BY <1>1, <2>1, <2>3 DEF ReturnInv, ComparesAlone, CasesUsed
  <2> QED
    BY <2>7, <2>8, <2>9, <2>10
\* An operation goes on, or ends, and saves nothing.
<1>2. ASSUME NEW c \in Caller, NEW w, EvalMoved(c, w), Works(c),
             w.pc # "idle" => w.op = evaluator[c].op /\ w.previous = evaluator[c].previous,
             w.pc = "idle" => evaluator[c].op = "compare" /\ (~crossed => provider' = DeclaredProvider),
             evaluator[c].op # "compare" => provider' = provider,
             kind # "agent" => provider' = provider \/ provider' = DeclaredProvider,
             ~crossed /\ w.pc \in {"case", "verdict"} => UsedOne(w, provider'),
             UNCHANGED <<kind, runs, crossed>>
      PROVE  ReturnInv'
  <2>1. evaluator'[c] = w /\ \A d \in Caller : d # c => evaluator'[d] = evaluator[d]
    BY <1>2, EvalMovedIs
  <2>2. \A d \in Caller : (Works(d)' => Works(d)) /\ (Compares(d)' => Compares(d) /\ evaluator'[d].previous = evaluator[d].previous)
    BY <1>2, <2>1 DEF Works, Compares
  <2>3. kind' # "agent" => provider' = DeclaredProvider
    BY <1>2 DEF ReturnInv, ComparesAlone, CasesUsed
  <2>4. ASSUME ~crossed PROVE (\A d \in Caller : ~Compares(d)') => provider' = DeclaredProvider
    <3>1. CASE w.pc = "idle"
      BY <1>2, <2>4, <3>1
    <3>2. CASE w.pc # "idle"
      <4>1. Compares(c)' <=> Compares(c)
        BY <1>2, <2>1, <3>2 DEF Works, Compares
      <4>2. \A d \in Caller : Compares(d)' <=> Compares(d)
        BY <2>1, <4>1 DEF Works, Compares
      <4>3. ~Compares(c) => provider' = provider
        BY <1>2 DEF Compares
      <4> QED
        BY <2>4, <4>2, <4>3 DEF ReturnInv, ComparesAlone, CasesUsed
    <3> QED
      BY <3>1, <3>2
  <2>5. ASSUME ~crossed, NEW d \in Caller, evaluator'[d].pc \in {"case", "verdict"} PROVE UsedOne(evaluator'[d], provider')
    <3>1. CASE d = c
      BY <1>2, <2>1, <2>5, <3>1
    <3>2. CASE d # c
      <4>1. evaluator'[d] = evaluator[d] /\ Works(d) /\ UsedOne(evaluator[d], provider)
        BY <2>1, <2>5, <3>2 DEF Works, ReturnInv, CasesUsed
      <4>2. ~Compares(c)
        BY <2>5, <3>2, <4>1 DEF ReturnInv, ComparesAlone, CasesUsed
      <4>3. provider' = provider
        BY <1>2, <4>2 DEF Compares
      <4> QED
        BY <4>1, <4>3 DEF UsedOne
    <3> QED
      BY <3>1, <3>2
  <2>6. \A d \in Caller : evaluator'[d].pc \in {"case", "verdict"} /\ ~crossed => UsedOne(evaluator'[d], provider')
    BY <2>5
  <2>7. RowsUsed => RowsUsed'
    BY <1>2 DEF RowsUsed
  <2>8. ~crossed => (\A d, e \in Caller : Compares(d) /\ Works(e) => d = e)'
                    /\ (\A d \in Caller : Compares(d) => evaluator[d].previous = DeclaredProvider)'
    BY <2>2 DEF ReturnInv, ComparesAlone, CasesUsed
  <2>9. ~crossed => ComparesAlone'
    BY <2>4, <2>8 DEF ComparesAlone
  <2>10. ~crossed => CasesUsed'
    BY <2>6 DEF CasesUsed
  <2> QED
    <3>1. crossed' = crossed
      BY <1>2
    <3>2. ~crossed => RowsUsed'
      BY <2>7 DEF ReturnInv
    <3> QED
      BY <2>3, <2>9, <2>10, <3>1, <3>2 DEF ReturnInv
<1>3. ASSUME NEW c \in Caller, NEW op \in {"run", "judge"}, NEW explicit \in 0..MaxEvaluations, E!Run(c, op, explicit)
      PROVE  ReturnInv'
  <2>1. PICK w \in EvalWork : /\ EvalMoved(c, w) /\ w.pc = "case" /\ w.op = op /\ w.explicit = explicit
                              /\ explicit <= Len(runs) /\ EvalFresh(w)
                              /\ EvalFits(w) /\ evaluator[c] = E!Idle /\ E!Begins(c, op)
                              /\ UNCHANGED <<kind, runs, provider, judging>>
    <3>1. \A o \in {"run", "judge"}, n \in 0..MaxEvaluations : E!Run(c, o, n) =>
            \E w \in EvalWork : /\ EvalMoved(c, w) /\ w.pc = "case" /\ w.op = o /\ w.explicit = n
                                /\ n <= Len(runs) /\ EvalFresh(w)
                                /\ EvalFits(w) /\ evaluator[c] = E!Idle /\ E!Begins(c, o)
                                /\ UNCHANGED <<kind, runs, provider, judging>>
      BY EvalMoves
    <3> QED
      BY <1>3, <3>1
  <2>2. op \in EvalOp /\ op # "compare"
    BY DEF EvalOp
  <2>3. UsedOne(w, provider)
    BY <2>1 DEF UsedOne, EvalFresh
  <2> QED
    BY <1>1, <2>1, <2>2, <2>3
<1>4. ASSUME NEW c \in Caller, NEW names \in Comparisons, E!Compare(c, names) PROVE ReturnInv'
  <2>1. PICK w \in EvalWork : /\ EvalMoved(c, w) /\ w.pc = "next" /\ w.op = "compare" /\ w.previous = provider
                              /\ evaluator[c] = E!Idle /\ E!Begins(c, "compare") /\ UNCHANGED <<kind, runs, provider, judging>>
    BY <1>4, EvalMoves
  <2>2. "compare" \in EvalOp
    BY DEF EvalOp
  <2> QED
    BY <1>1, <2>1, <2>2
<1>5. ASSUME NEW c \in Caller, E!NextProvider(c) PROVE ReturnInv'
  <2>1. PICK w \in EvalWork : /\ EvalMoved(c, w) /\ w.op = evaluator[c].op /\ w.previous = evaluator[c].previous
                              /\ w.pc \in {"restore", "next", "case"} /\ (w.pc = "case" => w.cases = <<>> /\ w.used = {})
                              /\ evaluator[c].pc = "next" /\ (kind # "agent" => provider' = provider)
                              /\ UNCHANGED <<kind, runs, judging, crossed>>
    BY <1>5, EvalMoves
  <2>2. Works(c) /\ evaluator[c].op = "compare"
    BY <2>1 DEF Works, EvalTypes, E!Active, EvalFits
  <2>3. w.pc \in {"case", "verdict"} => UsedOne(w, provider')
    BY <2>1 DEF UsedOne
  <2> QED
    BY <1>2, <2>1, <2>2, <2>3
<1>6. ASSUME NEW c \in Caller, E!Restore(c) PROVE ReturnInv'
  <2>1. /\ EvalMoved(c, E!Idle) /\ evaluator[c].pc = "restore"
        /\ provider' = (IF kind = "agent" THEN evaluator[c].previous ELSE provider)
        /\ UNCHANGED <<kind, runs, judging, crossed>>
    BY <1>6, EvalMoves
  <2>2. Works(c) /\ evaluator[c].op = "compare" /\ Compares(c)
    BY <2>1 DEF Works, EvalTypes, E!Active, EvalFits, Compares
  <2>3. ~crossed => provider' = DeclaredProvider
    BY <2>1, <2>2 DEF ReturnInv, ComparesAlone, CasesUsed
  <2>4. kind # "agent" => provider' = provider
    BY <2>1
  <2> QED
    BY <1>2, <2>1, <2>2, <2>3, <2>4, EvalIdle
<1>7. ASSUME NEW c \in Caller, E!RunCase(c) PROVE ReturnInv'
  <2>1. PICK w \in EvalWork : /\ EvalMoved(c, w) /\ w.op = evaluator[c].op /\ w.previous = evaluator[c].previous
                              /\ w.pc \in {"case", "verdict"} /\ w.cases # <<>> /\ w.used = evaluator[c].used \cup {provider}
                              /\ evaluator[c].pc = "case" /\ UNCHANGED <<kind, runs, provider, judging, crossed>>
    BY <1>7, EvalMoves
  <2>2. Works(c)
    BY <2>1 DEF Works
  <2>3. ~crossed => UsedOne(evaluator[c], provider)
    BY <2>1 DEF ReturnInv, ComparesAlone, CasesUsed
  <2>4. ~crossed => UsedOne(w, provider')
    BY <2>1, <2>3 DEF UsedOne
  <2> QED
    BY <1>2, <2>1, <2>2, <2>4
<1>8. ASSUME NEW c \in Caller, E!Verdict(c) PROVE ReturnInv'
  <2>1. PICK r, w : EvalJudged(c, r, w)
    BY <1>8, EvalVerdicts
  <2>2. /\ r \in EvalRow /\ r.op \in EvalOp /\ runs' = Append(runs, r) /\ EvalMoved(c, w) /\ evaluator[c].pc = "verdict"
        /\ r.op = evaluator[c].op /\ r.used = evaluator[c].used /\ UNCHANGED <<kind, provider, crossed>>
    BY <2>1 DEF EvalJudged, EvalRow
  <2>3. evaluator'[c] = w /\ \A d \in Caller : d # c => evaluator'[d] = evaluator[d]
    BY <2>2, EvalMovedIs
  <2>4. /\ Works(c) /\ evaluator[c].cases # <<>> /\ provider \in ModelProvider
    BY <2>2 DEF Works, EvalTypes, E!Active, EvalFits
  <2>5. w.pc \notin {"case", "verdict"}
    BY <2>1, <2>2, EvalIdle DEF EvalJudged, EvalOp
  <2>6. Compares(c)' <=> Compares(c)
    BY <2>1, <2>2, <2>3, <2>4, EvalIdle DEF EvalJudged, EvalOp, Compares, Works
  <2>7. Compares(c)' => evaluator'[c].previous = evaluator[c].previous
    BY <2>1, <2>2, <2>3, <2>4, EvalIdle DEF EvalJudged, EvalOp, Compares, Works
  <2>8. \A d \in Caller : /\ Compares(d)' <=> Compares(d)
                          /\ Works(d)' => Works(d)
                          /\ Compares(d)' => evaluator'[d].previous = evaluator[d].previous
                          /\ evaluator'[d].pc \in {"case", "verdict"} => evaluator[d].pc \in {"case", "verdict"} /\ evaluator'[d] = evaluator[d]
    BY <2>3, <2>4, <2>5, <2>6, <2>7 DEF Compares, Works
  <2>9. ASSUME ~crossed PROVE RowsUsed'
    <3>1. r.used = {provider}
      BY <2>2, <2>4, <2>9 DEF ReturnInv, ComparesAlone, CasesUsed, UsedOne
    <3>2. r.op # "compare" => provider = DeclaredProvider
      <4> SUFFICES ASSUME r.op # "compare" PROVE \A d \in Caller : ~Compares(d)
        BY <2>9 DEF ReturnInv, ComparesAlone, CasesUsed
      <4> QED
        BY <2>2, <2>4, <2>9 DEF ReturnInv, ComparesAlone, CasesUsed, Compares
    <3>3. \A n \in DOMAIN runs' : (n \in DOMAIN runs /\ runs'[n] = runs[n]) \/ runs'[n] = r
      BY <1>0, <2>2
    <3>4. RowsUsed
      BY <2>9 DEF ReturnInv, ComparesAlone, CasesUsed
    <3> QED
      BY <2>4, <3>1, <3>2, <3>3, <3>4 DEF RowsUsed
  <2>10. \A d \in Caller : evaluator'[d].pc \in {"case", "verdict"} /\ ~crossed => UsedOne(evaluator'[d], provider)
    BY <2>8 DEF ReturnInv, ComparesAlone, CasesUsed
  <2>11. \A d \in Caller : evaluator'[d].pc \in {"case", "verdict"} /\ ~crossed => UsedOne(evaluator'[d], provider')
    BY <2>2, <2>10 DEF UsedOne
  <2>12. ~crossed =>
       /\ (\A d, e \in Caller : Compares(d) /\ Works(e) => d = e)'
       /\ (\A d \in Caller : Compares(d) => evaluator[d].previous = DeclaredProvider)'
       /\ ((\A d \in Caller : ~Compares(d)) => provider = DeclaredProvider)'
    BY <2>2, <2>8 DEF ReturnInv, ComparesAlone, CasesUsed
  <2> QED
    BY <2>2, <2>9, <2>11, <2>12 DEF ReturnInv, ComparesAlone, CasesUsed
<1>9. ASSUME NEW c \in Caller, E!Judge(c) PROVE ReturnInv'
  <2>1. /\ Judges(c) /\ EvalMoved(c, E!Idle) /\ UNCHANGED <<kind, provider, crossed>>
        /\ runs' \in Seq(EvalRow) /\ Len(runs') = Len(runs)
        /\ \A n \in DOMAIN runs : runs'[n].used = runs[n].used /\ runs'[n].op = runs[n].op
    BY <1>9, EvalJudges
  <2>2. DOMAIN runs' = DOMAIN runs
    BY <1>0, <2>1
  <2>3. evaluator'[c] = E!Idle /\ \A d \in Caller : d # c => evaluator'[d] = evaluator[d]
    BY <2>1, EvalMovedIs
  <2>4. Works(c) /\ ~Compares(c) /\ ~Works(c)'
    BY <2>1, <2>3, EvalIdle DEF Judges, Works, EvalTypes, E!Active, EvalFits, Compares
  <2>5. \A d \in Caller : /\ Compares(d)' <=> Compares(d)
                          /\ Works(d)' => Works(d)
                          /\ Compares(d)' => evaluator'[d].previous = evaluator[d].previous
                          /\ evaluator'[d].pc \in {"case", "verdict"} => evaluator[d].pc \in {"case", "verdict"} /\ evaluator'[d] = evaluator[d]
    BY <2>3, <2>4, EvalIdle DEF Compares, Works
  <2>6. ~crossed => RowsUsed'
    BY <2>1, <2>2 DEF ReturnInv, ComparesAlone, CasesUsed, RowsUsed
  <2>7. \A d \in Caller : evaluator'[d].pc \in {"case", "verdict"} /\ ~crossed => UsedOne(evaluator'[d], provider)
    BY <2>5 DEF ReturnInv, ComparesAlone, CasesUsed
  <2>8. \A d \in Caller : evaluator'[d].pc \in {"case", "verdict"} /\ ~crossed => UsedOne(evaluator'[d], provider')
    BY <2>1, <2>7 DEF UsedOne
  <2>9. ~crossed =>
       /\ (\A d, e \in Caller : Compares(d) /\ Works(e) => d = e)'
       /\ (\A d \in Caller : Compares(d) => evaluator[d].previous = DeclaredProvider)'
       /\ ((\A d \in Caller : ~Compares(d)) => provider = DeclaredProvider)'
    BY <2>1, <2>5 DEF ReturnInv, ComparesAlone, CasesUsed
  <2> QED
    BY <2>1, <2>6, <2>8, <2>9 DEF ReturnInv, ComparesAlone, CasesUsed
<1>10. CASE UNCHANGED E!vars
  <2>1. UNCHANGED <<kind, runs, provider, evaluator, crossed>>
    BY <1>10 DEF E!vars
  <2>2. (ComparesAlone <=> ComparesAlone') /\ (CasesUsed <=> CasesUsed') /\ (RowsUsed <=> RowsUsed')
    BY <2>1 DEF ComparesAlone, CasesUsed, RowsUsed, Compares, Works, UsedOne
  <2> QED
    BY <2>1, <2>2 DEF ReturnInv
<1> QED
  BY <1>3, <1>4, <1>5, <1>6, <1>7, <1>8, <1>9, <1>10 DEF E!Next

\* Evaluations: what EvalInv says of what the callers hold is what keeps
\* verdicts honest and gives the agent its provider back.
LEMMA EvaluationInvariant == E!Spec => []EvalInv
<1>1. EvalInv /\ [E!Next]_E!vars => EvalInv'
  BY EvaluationAssumption, EvalTypesSteps, EvalJudgeSteps, EvalGoodSteps, EvalReturnSteps DEF EvalInv
<1> QED
  BY EvalInitially, <1>1, PTL DEF E!Spec

\* The verdict on a load: what passed had nothing refused and few errors, and
\* what the budget refused is never only degraded (evaluation/load.py).
LEMMA LoadsTold == E!LoadsAreTold
<1> SUFFICES ASSUME NEW load \in Loads
             PROVE  /\ E!load_verdict(load) = "passed" => load.denied = 0 /\ 20 * load.errors <= load.requests
                    /\ load.denied > 0 => E!load_verdict(load) = "failed"
  BY DEF E!LoadsAreTold
<1>1. load.errors \in Nat /\ load.requests \in Nat /\ load.denied \in Nat
  BY EvaluationAssumption
<1> QED
  BY <1>1 DEF E!load_verdict

\* Evaluations are honest, whoever overlaps: a run that passed met every
\* threshold against a baseline that had passed, and while nobody crosses a
\* comparison the agent has its own provider (evaluation/runner.py).
THEOREM EvaluationsHonest == E!Spec => []EvaluationsAreHonest
<1>1. EvalInv => EvaluationsAreHonest
  <2> SUFFICES ASSUME EvalInv PROVE E!TypeOK /\ E!PassedIsGood /\ E!ProviderIsReturned
    BY LoadsTold DEF EvaluationsAreHonest
  <2>0. runs \in Seq(EvalRow) /\ Len(runs) \in Nat
    BY DEF EvalInv, EvalTypes
  <2>1. E!TypeOK
    <3>1. ASSUME NEW n \in DOMAIN runs PROVE runs[n].status \in E!Status /\ runs[n].baseline \in 0..n - 1
      <4>1. runs[n] \in EvalRow /\ n \in Nat /\ runs[n].baseline < n
        BY <2>0 DEF EvalInv, EvalTypes
      <4>2. runs[n].status \in E!Status /\ runs[n].baseline \in Nat
        BY <4>1 DEF EvalRow
      <4> QED
        BY <4>1, <4>2
    <3>2. ASSUME NEW c \in Caller PROVE evaluator[c].pc \in {"idle", "case", "verdict", "judge", "next", "restore"}
      BY EvalIdle DEF EvalInv, EvalWork
    <3> QED
      BY <3>1, <3>2 DEF E!TypeOK, EvalInv, EvalTypes
  <2>2. E!PassedIsGood
    <3> SUFFICES ASSUME NEW n \in DOMAIN runs
                 PROVE  /\ runs[n].status = "passed" =>
                             /\ Cardinality(E!passed(runs[n].cases)) >= MinPassed
                             /\ ~runs[n].critical /\ E!total_cost(runs[n].cases) <= MaxRunCost
                             /\ E!mostly_within(runs[n].cases, MaxP95)
                             /\ runs[n].baseline # 0 =>
                                  Cardinality(E!new_failures(runs[n].cases, runs[runs[n].baseline].cases)) <= MaxRegressions
                        /\ runs[n].implicit /\ runs[n].baseline # 0 /\ ~runs[n].doubtful =>
                             runs[runs[n].baseline].status = "passed"
                        /\ runs[n].status = "failed" /\ runs[n].op # "judge" /\ runs[n].baseline # 0 =>
                             Cardinality(E!new_failures(runs[n].cases, runs[runs[n].baseline].cases)) <= MaxRegressions
      BY EvalCount, Zenon DEF E!PassedIsGood
    <3> QED
      BY DEF EvalInv, GoodInv, Kept
  <2>3. E!ProviderIsReturned
    <3> SUFFICES ASSUME ~crossed
                 PROVE  /\ (\A c \in E!Active : evaluator[c].op # "compare") => provider = DeclaredProvider
                        /\ \A n \in DOMAIN runs : runs[n].op # "compare" => runs[n].used \subseteq {DeclaredProvider}
                        /\ \A n \in DOMAIN runs : E!Cardinality(runs[n].used) = 1
      BY DEF E!ProviderIsReturned
    <3>1. ComparesAlone /\ RowsUsed
      BY DEF EvalInv, ReturnInv
    <3>2. \A n \in DOMAIN runs : E!Cardinality(runs[n].used) = 1
      BY <3>1, FS_Singleton, EvalCount DEF RowsUsed
    <3> QED
      BY <3>1, <3>2 DEF ComparesAlone, RowsUsed, Compares, Works, E!Active
  <2> QED
    BY <2>1, <2>2, <2>3
<1> QED
  BY EvaluationInvariant, <1>1, PTL

-----------------------------------------------------------------------------
(* Memory *)

Moments == {"idle", "embed", "reinforce", "archive", "heal", "vector", "scan", "prune"}
Remembers(At, Left, Ids, Id, Prune) ==
  [at : At, left : Left, survivors : Left, heal : Ids, id : Id, prune : Prune, known : Ids]
Flag == BOOLEAN
Remembering == Remembers(Moments, M!Copies, SUBSET M!Id, M!Id, Flag)

\* The records a caller is going to write, or to give a vector.
Holds(me) == DOMAIN me.left \cup DOMAIN me.survivors \cup me.heal \cup (IF me.at \in {"embed", "vector"} THEN {me.id} ELSE {})

\* A caller that consolidates, what it has read, and what is about to be pruned.
Scanning(me) == me.at \in {"heal", "vector", "scan"}
Read(me) == DOMAIN me.left \cup DOMAIN me.survivors
Merging(me) == (Scanning(me) \/ me.at = "prune") /\ (Read(me) # {} \/ me.prune)
Pruning == {i \in M!Id : \E c \in Caller : remembering[c].at = "prune" /\ i \in DOMAIN remembering[c].left}
Safe == (M!Live \ Pruning) \cup forgotten

\* No record is both still to come and a survivor, and a search has read none
\* that was archived.
ReadingInv(me) ==
  /\ DOMAIN me.left \cap DOMAIN me.survivors = {}
  /\ me.at = "reinforce" => \A i \in DOMAIN me.left : ~me.left[i].archived

MemoryTypes ==
  /\ records \in M!Copies /\ vectors \subseteq M!Id
  /\ remembering \in [Caller -> Remembering]
  /\ merged \subseteq M!Id \X M!Id /\ forgotten \subseteq M!Id /\ gone \subseteq M!Id
  /\ twice \in BOOLEAN /\ memoryCalls \in 0..MaxMemoryCalls
ReadingsInv == \A c \in Caller : ReadingInv(remembering[c])

\* While no consolidations overlap, only one caller merges; what it has read
\* lives, but for what somebody archived or forgot; and of what was merged there
\* is one that lives and is not about to be pruned.
OneMerges == ~twice => \A c, d \in Caller : Merging(remembering[c]) /\ Merging(remembering[d]) => c = d
ReadLive == ~twice => \A c \in Caller : Scanning(remembering[c]) => Read(remembering[c]) \subseteq M!Live \cup forgotten
SomeoneKept == ~twice => \A p \in merged : \A ids \in SUBSET M!Id : p[1] \in ids /\ M!Closed(ids) => ids \cap Safe # {}

\* What was forgotten while nobody held it is nowhere.
GoneInv == gone \cap (M!There \cup vectors) = {} /\ \A c \in Caller : Holds(remembering[c]) \cap gone = {}

MemoryInv == MemoryTypes /\ ReadingsInv /\ OneMerges /\ ReadLive /\ SomeoneKept /\ GoneInv

LEMMA HeldByWhom == ASSUME NEW i PROVE M!Held(i) <=> \E c \in Caller : i \in Holds(remembering[c])
BY DEF M!Held, Holds

\* What a caller has is changed field by field.
Has(me, at, left, survivors, heal, id, prune, known) ==
  /\ me.at = at /\ me.left = left /\ me.survivors = survivors /\ me.heal = heal
  /\ me.id = id /\ me.prune = prune /\ me.known = known

LEMMA FieldsChange ==
  ASSUME NEW At, NEW Left, NEW Ids, NEW Id, NEW Prune, NEW r \in Remembers(At, Left, Ids, Id, Prune)
  PROVE  /\ \A a \in At, i \in Id :
              /\ [r EXCEPT !.at = a, !.id = i] \in Remembers(At, Left, Ids, Id, Prune)
              /\ Has([r EXCEPT !.at = a, !.id = i], a, r.left, r.survivors, r.heal, i, r.prune, r.known)
         /\ \A a \in At, l \in Left :
              /\ [r EXCEPT !.at = a, !.left = l] \in Remembers(At, Left, Ids, Id, Prune)
              /\ Has([r EXCEPT !.at = a, !.left = l], a, l, r.survivors, r.heal, r.id, r.prune, r.known)
         /\ \A a \in At, l \in Left, p \in Prune, h \in Ids, k \in Ids :
              /\ [r EXCEPT !.at = a, !.left = l, !.prune = p, !.heal = h, !.known = k] \in Remembers(At, Left, Ids, Id, Prune)
              /\ Has([r EXCEPT !.at = a, !.left = l, !.prune = p, !.heal = h, !.known = k], a, l, r.survivors, h, r.id, p, k)
         /\ \A a \in At, h \in Ids :
              /\ [r EXCEPT !.at = a, !.heal = h] \in Remembers(At, Left, Ids, Id, Prune)
              /\ Has([r EXCEPT !.at = a, !.heal = h], a, r.left, r.survivors, h, r.id, r.prune, r.known)
         /\ \A h \in Ids, i \in Id, a \in At :
              /\ [r EXCEPT !.heal = h, !.id = i, !.at = a] \in Remembers(At, Left, Ids, Id, Prune)
              /\ Has([r EXCEPT !.heal = h, !.id = i, !.at = a], a, r.left, r.survivors, h, i, r.prune, r.known)
         /\ \A a \in At, k \in Ids :
              /\ [r EXCEPT !.at = a, !.known = k] \in Remembers(At, Left, Ids, Id, Prune)
              /\ Has([r EXCEPT !.at = a, !.known = k], a, r.left, r.survivors, r.heal, r.id, r.prune, k)
         /\ \A a \in At :
              /\ [r EXCEPT !.at = a] \in Remembers(At, Left, Ids, Id, Prune)
              /\ Has([r EXCEPT !.at = a], a, r.left, r.survivors, r.heal, r.id, r.prune, r.known)
         /\ \A l \in Left :
              /\ [r EXCEPT !.left = l] \in Remembers(At, Left, Ids, Id, Prune)
              /\ Has([r EXCEPT !.left = l], r.at, l, r.survivors, r.heal, r.id, r.prune, r.known)
         /\ \A l \in Left, s \in Left :
              /\ [r EXCEPT !.left = l, !.survivors = s] \in Remembers(At, Left, Ids, Id, Prune)
              /\ Has([r EXCEPT !.left = l, !.survivors = s], r.at, l, s, r.heal, r.id, r.prune, r.known)
<1>1. \A a \in At, i \in Id :
       /\ [r EXCEPT !.at = a, !.id = i] \in Remembers(At, Left, Ids, Id, Prune)
       /\ Has([r EXCEPT !.at = a, !.id = i], a, r.left, r.survivors, r.heal, i, r.prune, r.known)
  BY DEF Remembers, Has
<1>2. \A a \in At, l \in Left :
       /\ [r EXCEPT !.at = a, !.left = l] \in Remembers(At, Left, Ids, Id, Prune)
       /\ Has([r EXCEPT !.at = a, !.left = l], a, l, r.survivors, r.heal, r.id, r.prune, r.known)
  BY DEF Remembers, Has
<1>3. \A a \in At, l \in Left, p \in Prune, h \in Ids, k \in Ids :
       /\ [r EXCEPT !.at = a, !.left = l, !.prune = p, !.heal = h, !.known = k] \in Remembers(At, Left, Ids, Id, Prune)
       /\ Has([r EXCEPT !.at = a, !.left = l, !.prune = p, !.heal = h, !.known = k], a, l, r.survivors, h, r.id, p, k)
  <2> TAKE a \in At, l \in Left, p \in Prune, h \in Ids, k \in Ids
  <2>1. [r EXCEPT !.at = a, !.left = l, !.prune = p, !.heal = h, !.known = k] \in Remembers(At, Left, Ids, Id, Prune)
    BY DEF Remembers
  <2>2. Has([r EXCEPT !.at = a, !.left = l, !.prune = p, !.heal = h, !.known = k], a, l, r.survivors, h, r.id, p, k)
    BY DEF Remembers, Has
  <2> QED
    BY <2>1, <2>2
<1>4. \A a \in At, h \in Ids :
       /\ [r EXCEPT !.at = a, !.heal = h] \in Remembers(At, Left, Ids, Id, Prune)
       /\ Has([r EXCEPT !.at = a, !.heal = h], a, r.left, r.survivors, h, r.id, r.prune, r.known)
  BY DEF Remembers, Has
<1>5. \A h \in Ids, i \in Id, a \in At :
       /\ [r EXCEPT !.heal = h, !.id = i, !.at = a] \in Remembers(At, Left, Ids, Id, Prune)
       /\ Has([r EXCEPT !.heal = h, !.id = i, !.at = a], a, r.left, r.survivors, h, i, r.prune, r.known)
  BY DEF Remembers, Has
<1>6. \A a \in At, k \in Ids :
       /\ [r EXCEPT !.at = a, !.known = k] \in Remembers(At, Left, Ids, Id, Prune)
       /\ Has([r EXCEPT !.at = a, !.known = k], a, r.left, r.survivors, r.heal, r.id, r.prune, k)
  BY DEF Remembers, Has
<1>7. \A a \in At :
       /\ [r EXCEPT !.at = a] \in Remembers(At, Left, Ids, Id, Prune)
       /\ Has([r EXCEPT !.at = a], a, r.left, r.survivors, r.heal, r.id, r.prune, r.known)
  BY DEF Remembers, Has
<1>8. \A l \in Left :
       /\ [r EXCEPT !.left = l] \in Remembers(At, Left, Ids, Id, Prune)
       /\ Has([r EXCEPT !.left = l], r.at, l, r.survivors, r.heal, r.id, r.prune, r.known)
  BY DEF Remembers, Has
<1>9. \A l \in Left, s \in Left :
       /\ [r EXCEPT !.left = l, !.survivors = s] \in Remembers(At, Left, Ids, Id, Prune)
       /\ Has([r EXCEPT !.left = l, !.survivors = s], r.at, l, s, r.heal, r.id, r.prune, r.known)
  BY DEF Remembers, Has
<1> QED
  BY <1>1, <1>2, <1>3, <1>4, <1>5, <1>6, <1>7, <1>8, <1>9

LEMMA RememberedTypes ==
  ASSUME NEW me \in Remembering
  PROVE  /\ me.at \in Moments /\ me.left \in M!Copies /\ me.survivors \in M!Copies /\ me.heal \in SUBSET M!Id
         /\ me.id \in M!Id /\ me.prune \in BOOLEAN /\ me.known \in SUBSET M!Id
BY DEF Remembering, Remembers, Flag

\* Rows that were read, with one more and with one less.
LEMMA CopiesRead ==
  ASSUME NEW copies \in M!Copies
  PROVE  DOMAIN copies \subseteq M!Id /\ \A j \in DOMAIN copies : copies[j] \in M!Record
BY DEF M!Copies

LEMMA CopiesChange ==
  ASSUME NEW copies \in M!Copies, NEW i \in M!Id, NEW row \in M!Record
  PROVE  /\ M!With(copies, i, row) \in M!Copies /\ DOMAIN M!With(copies, i, row) = DOMAIN copies \cup {i}
         /\ \A j \in DOMAIN copies \cup {i} : M!With(copies, i, row)[j] = IF j = i THEN row ELSE copies[j]
<1>1. PICK ids \in SUBSET M!Id : copies \in [ids -> M!Record]
  BY DEF M!Copies
<1>2. M!With(copies, i, row) \in [ids \cup {i} -> M!Record] /\ ids \cup {i} \in SUBSET M!Id
  BY <1>1 DEF M!With
<1> QED
  BY <1>1, <1>2 DEF M!Copies, M!With

LEMMA WithoutChange ==
  ASSUME NEW copies \in M!Copies, NEW i \in M!Id
  PROVE  /\ M!Without(copies, i) \in M!Copies /\ DOMAIN M!Without(copies, i) = DOMAIN copies \ {i}
         /\ \A j \in DOMAIN copies \ {i} : M!Without(copies, i)[j] = copies[j]
<1>1. PICK ids \in SUBSET M!Id : copies \in [ids -> M!Record]
  BY DEF M!Copies
<1>2. M!Without(copies, i) \in [ids \ {i} -> M!Record] /\ ids \ {i} \in SUBSET M!Id
  BY <1>1 DEF M!Without
<1> QED
  BY <1>1, <1>2 DEF M!Copies, M!Without

LEMMA SaveChanges ==
  ASSUME records \in M!Copies, NEW i \in M!Id, NEW row \in M!Record, M!Save(i, row)
  PROVE  /\ records' \in M!Copies /\ M!There' = M!There \cup {i}
         /\ \A j \in M!There \cup {i} : records'[j] = IF j = i THEN row ELSE records[j]
<1>1. records' = M!With(records, i, row)
  BY DEF M!Save
<1>2. /\ M!With(records, i, row) \in M!Copies /\ DOMAIN M!With(records, i, row) = DOMAIN records \cup {i}
      /\ \A j \in DOMAIN records \cup {i} : M!With(records, i, row)[j] = IF j = i THEN row ELSE records[j]
  BY CopiesChange
<1> QED
  BY <1>1, <1>2 DEF M!There

LEMMA DeleteChanges ==
  ASSUME records \in M!Copies, NEW i \in M!Id, M!Delete(i)
  PROVE  /\ records' \in M!Copies /\ M!There' = M!There \ {i} /\ \A j \in M!There \ {i} : records'[j] = records[j]
         /\ M!Live' = M!Live \ {i}
<1>1. records' = M!Without(records, i)
  BY DEF M!Delete
<1>2. /\ M!Without(records, i) \in M!Copies /\ DOMAIN M!Without(records, i) = DOMAIN records \ {i}
      /\ \A j \in DOMAIN records \ {i} : M!Without(records, i)[j] = records[j]
  BY WithoutChange
<1> QED
  BY <1>1, <1>2 DEF M!There, M!Live

LEMMA CopiesTaken ==
  ASSUME records \in M!Copies, NEW ids \in SUBSET M!There
  PROVE  /\ M!Copied(ids) \in M!Copies /\ DOMAIN M!Copied(ids) = ids /\ \A i \in ids : M!Copied(ids)[i] = records[i]
         /\ ids \subseteq M!Id
<1>1. PICK all \in SUBSET M!Id : records \in [all -> M!Record]
  BY DEF M!Copies
<1>2. ids \in SUBSET M!Id /\ M!Copied(ids) \in [ids -> M!Record]
  BY <1>1 DEF M!Copied, M!There
<1> QED
  BY <1>2 DEF M!Copies, M!Copied

LEMMA IdleRemembers ==
  /\ M!Idle \in Remembering /\ Holds(M!Idle) = {} /\ ~Merging(M!Idle) /\ ~Scanning(M!Idle) /\ M!Idle.at = "idle" /\ ReadingInv(M!Idle)
  /\ DOMAIN M!NoCopies = {} /\ DOMAIN M!Idle.left = {} /\ DOMAIN M!Idle.survivors = {} /\ M!Idle.heal = {} /\ M!Idle.prune = FALSE
  /\ M!NoCopies \in M!Copies
<1>1. M!NoCopies \in [{} -> M!Record] /\ DOMAIN M!NoCopies = {}
  BY DEF M!NoCopies
<1>2. M!NoCopies \in M!Copies
  BY <1>1 DEF M!Copies
<1>3. 1 \in M!Id
  BY MemoryAssumption DEF M!Id
<1>4. M!Idle \in Remembering
  BY <1>2, <1>3 DEF M!Idle, Remembering, Remembers, Moments, Flag
<1> QED
  BY <1>1, <1>2, <1>4 DEF M!Idle, Holds, Merging, Scanning, Read, ReadingInv

LEMMA MemoryInit == ASSUME M!Init PROVE MemoryInv
<1>1. \A c \in Caller : remembering[c] = M!Idle
  BY DEF M!Init
<1>2. MemoryTypes
  <2>1. remembering \in [Caller -> Remembering]
    BY IdleRemembers DEF M!Init
  <2>2. memoryCalls \in 0..MaxMemoryCalls
    BY MemoryAssumption DEF M!Init
  <2>3. records \in M!Copies
    BY IdleRemembers DEF M!Init
  <2> QED
    BY <2>1, <2>2, <2>3 DEF MemoryTypes, M!Init
<1> QED
  BY <1>1, <1>2, IdleRemembers DEF M!Init, MemoryInv, ReadingsInv, OneMerges, ReadLive, SomeoneKept, GoneInv, M!There

\* A caller moves: nobody else changes what he does.
LEMMA CallerMoves ==
  ASSUME MemoryTypes, NEW c \in Caller, NEW n \in Remembering, remembering' = [remembering EXCEPT ![c] = n]
  PROVE  /\ remembering' \in [Caller -> Remembering] /\ remembering'[c] = n
         /\ \A d \in Caller \ {c} : remembering'[d] = remembering[d]
BY DEF MemoryTypes

\* Nothing that was safe is lost.
LEMMA SafeStays ==
  ASSUME SomeoneKept, merged' = merged, twice => twice', Safe \subseteq Safe'
  PROVE  SomeoneKept'
BY DEF SomeoneKept, M!Closed, M!Id

\* What has to be shown of a step of one caller.
LEMMA MemoryMoves ==
  ASSUME MemoryInv, MemoryTypes', NEW c \in Caller, NEW n \in Remembering, remembering' = [remembering EXCEPT ![c] = n],
         ReadingInv(n), twice => twice',
         ~twice' /\ Merging(n) => Merging(remembering[c]) \/ \A d \in Caller \ {c} : ~Merging(remembering[d]),
         ~twice' /\ Scanning(n) => Read(n) \subseteq M!Live' \cup forgotten',
         ~twice' => \A d \in Caller \ {c} : Scanning(remembering[d]) => Read(remembering[d]) \subseteq M!Live' \cup forgotten',
         SomeoneKept', gone' = gone, (Holds(n) \cup M!There' \cup vectors') \cap gone = {}
  PROVE  MemoryInv'
<1> USE DEF MemoryInv
<1>1. remembering'[c] = n /\ \A d \in Caller \ {c} : remembering'[d] = remembering[d]
  BY CallerMoves
<1>2. ReadingsInv'
  BY <1>1 DEF ReadingsInv
<1>3. OneMerges'
  BY <1>1 DEF OneMerges
<1>4. ReadLive'
  BY <1>1 DEF ReadLive
<1>5. GoneInv'
  BY <1>1 DEF GoneInv
<1> QED
  BY <1>2, <1>3, <1>4, <1>5

\* The same where what lives or was dealt with by hand goes on to be, and
\* nothing new is about to be pruned.
LEMMA MemoryGrows ==
  ASSUME MemoryInv, MemoryTypes', NEW c \in Caller, NEW n \in Remembering, remembering' = [remembering EXCEPT ![c] = n],
         ReadingInv(n), twice => twice', merged' = merged, gone' = gone, forgotten \subseteq forgotten',
         M!Live \subseteq M!Live' \cup forgotten', n.at # "prune",
         ~twice' /\ Merging(n) => Merging(remembering[c]) \/ \A d \in Caller \ {c} : ~Merging(remembering[d]),
         ~twice' /\ Scanning(n) => Read(n) \subseteq M!Live' \cup forgotten',
         (Holds(n) \cup M!There' \cup vectors') \cap gone = {}
  PROVE  MemoryInv'
<1>1. remembering'[c] = n /\ \A d \in Caller \ {c} : remembering'[d] = remembering[d]
  BY CallerMoves DEF MemoryInv
<1>2. Pruning' \subseteq Pruning
  BY <1>1 DEF Pruning, M!Id
<1>3. SomeoneKept'
  <2>1. Safe \subseteq Safe'
    BY <1>2 DEF Safe
  <2> QED
    BY <2>1, SafeStays DEF MemoryInv
<1>4. ~twice' => \A d \in Caller \ {c} : Scanning(remembering[d]) => Read(remembering[d]) \subseteq M!Live' \cup forgotten'
  BY DEF MemoryInv, ReadLive
<1> QED
  BY <1>3, <1>4, MemoryMoves

\* A caller enters: he held nothing.
LEMMA EnterMemory ==
  ASSUME MemoryTypes, NEW c \in Caller, M!Enter(c)
  PROVE  memoryCalls' \in 0..MaxMemoryCalls
BY MemoryAssumption DEF M!Enter, MemoryTypes

LEMMA LiveIsThere == M!Live \subseteq M!There /\ \A i \in M!There : i \in M!Live <=> ~records[i].archived
BY DEF M!Live

LEMMA WriteSteps == ASSUME MemoryInv, NEW c \in Caller, NEW ns \in Namespace, M!Write(c, ns) PROVE MemoryInv'
<1> USE DEF MemoryInv
<1> DEFINE row == [ns |-> ns, archived |-> FALSE, uses |-> 0]
<1>1. PICK i \in M!Id : /\ i \notin M!There \cup gone \cup forgotten /\ M!Save(i, row)
                       /\ M!Begin(c, [M!Idle EXCEPT !.at = "embed", !.id = i])
  BY DEF M!Write
<1>2. UNCHANGED <<vectors, merged, forgotten, gone, twice>> /\ M!Enter(c)
  BY DEF M!Write, M!ghosts
<1>3. row \in M!Record /\ ~row.archived
  BY MemoryAssumption DEF M!Record
<1>4. /\ records' \in M!Copies /\ M!There' = M!There \cup {i}
      /\ \A j \in M!There \cup {i} : records'[j] = IF j = i THEN row ELSE records[j]
  BY <1>1, <1>3, SaveChanges DEF MemoryTypes
<1> DEFINE n == [M!Idle EXCEPT !.at = "embed", !.id = i]
<1>5. n \in Remembering /\ Has(n, "embed", M!Idle.left, M!Idle.survivors, M!Idle.heal, i, M!Idle.prune, M!Idle.known)
  <2>1. "embed" \in Moments
    BY DEF Moments
  <2> QED
    BY <2>1, IdleRemembers, FieldsChange DEF Remembering
<1> HIDE DEF n
<1>6. Holds(n) = {i} /\ ~Merging(n) /\ ~Scanning(n) /\ ReadingInv(n) /\ n.at # "prune"
  BY <1>5, IdleRemembers DEF Has, Holds, Merging, Scanning, ReadingInv
<1>7. remembering' = [remembering EXCEPT ![c] = n]
  BY <1>1 DEF M!Begin, n
<1>8. MemoryTypes'
  BY <1>2, <1>4, <1>5, <1>7, EnterMemory, CallerMoves DEF MemoryTypes
<1>9. M!Live \subseteq M!Live'
  BY <1>1, <1>4 DEF M!Live
<1>10. (Holds(n) \cup M!There' \cup vectors') \cap gone = {}
  BY <1>1, <1>2, <1>4, <1>6 DEF GoneInv
<1> QED
  BY <1>2, <1>5, <1>6, <1>7, <1>8, <1>9, <1>10, MemoryGrows

LEMMA SaveVectorSteps == ASSUME MemoryInv, NEW c \in Caller, M!SaveVector(c) PROVE MemoryInv'
<1> USE DEF MemoryInv
<1>1. PICK me \in Remembering : me = remembering[c]
  BY DEF MemoryTypes
<1>2. /\ me.at \in {"embed", "vector"} /\ vectors' = vectors \cup {me.id}
      /\ UNCHANGED <<records, merged, forgotten, gone, twice, memoryCalls>>
  BY <1>1 DEF M!SaveVector, M!ghosts
<1>3. me.id \in Holds(me) /\ Holds(me) \cap gone = {} /\ me.id \in M!Id
  BY <1>1, <1>2, RememberedTypes DEF Holds, GoneInv
<1>4. UNCHANGED <<M!Live, M!There>>
  BY <1>2 DEF M!Live, M!There
<1>5. ASSUME NEW n \in Remembering, remembering' = [remembering EXCEPT ![c] = n], ReadingInv(n), n.at # "prune",
             Merging(n) => Merging(me), Scanning(n) => Scanning(me) /\ Read(n) = Read(me), Holds(n) \subseteq Holds(me)
      PROVE  MemoryInv'
  <2>1. MemoryTypes'
    BY <1>2, <1>3, <1>5, CallerMoves DEF MemoryTypes
  <2>2. (Holds(n) \cup M!There' \cup vectors') \cap gone = {}
    BY <1>2, <1>3, <1>4, <1>5 DEF GoneInv
  <2>3. ~twice' /\ Scanning(n) => Read(n) \subseteq M!Live' \cup forgotten'
    BY <1>1, <1>2, <1>4, <1>5 DEF ReadLive
  <2> QED
    BY <1>1, <1>2, <1>4, <1>5, <2>1, <2>2, <2>3, MemoryGrows
<1>6. CASE me.at = "embed"
  <2>1. remembering' = [remembering EXCEPT ![c] = M!Idle]
    BY <1>1, <1>6 DEF M!SaveVector, M!Return
  <2> QED
    BY <2>1, <1>5, IdleRemembers
<1>7. CASE me.at = "vector"
  <2> DEFINE n == [me EXCEPT !.at = "heal", !.known = me.known \cup {me.id}]
  <2>1. n \in Remembering /\ Has(n, "heal", me.left, me.survivors, me.heal, me.id, me.prune, me.known \cup {me.id})
    <3>1. "heal" \in Moments /\ me.known \cup {me.id} \in SUBSET M!Id
      BY RememberedTypes DEF Moments
    <3> QED
      BY <3>1, FieldsChange DEF Remembering
  <2>2. remembering' = [remembering EXCEPT ![c] = n]
    BY <1>1, <1>7 DEF M!SaveVector, MemoryTypes
  <2> HIDE DEF n
  <2>3. ReadingInv(n)
    BY <1>1, <2>1 DEF Has, ReadingsInv, ReadingInv
  <2> QED
    BY <1>7, <2>1, <2>2, <2>3, <1>5 DEF Has, Merging, Scanning, Read, Holds
<1> QED
  BY <1>2, <1>6, <1>7

\* A caller reads, or is done: nothing is written.
LEMMA ReadSteps ==
  ASSUME MemoryInv, NEW c \in Caller, NEW n \in Remembering, remembering' = [remembering EXCEPT ![c] = n], ReadingInv(n),
         UNCHANGED <<records, vectors, merged, forgotten, gone>>, memoryCalls' \in 0..MaxMemoryCalls,
         twice' \in BOOLEAN, twice => twice', n.at # "prune",
         ~twice' /\ Merging(n) => Merging(remembering[c]) \/ \A d \in Caller \ {c} : ~Merging(remembering[d]),
         ~twice' /\ Scanning(n) => Read(n) \subseteq M!Live \cup forgotten,
         Holds(n) \cap gone = {}
  PROVE  MemoryInv'
<1>1. UNCHANGED <<M!Live, M!There>>
  BY DEF M!Live, M!There
<1>2. MemoryTypes'
  BY CallerMoves DEF MemoryInv, MemoryTypes
<1>3. (Holds(n) \cup M!There' \cup vectors') \cap gone = {}
  BY <1>1 DEF MemoryInv, GoneInv
<1> QED
  BY <1>1, <1>2, <1>3, MemoryGrows

LEMMA SearchSteps == ASSUME MemoryInv, NEW c \in Caller, NEW hits \in SUBSET M!Live, M!Search(c, hits) PROVE MemoryInv'
<1> USE DEF MemoryInv
<1> DEFINE n == [M!Idle EXCEPT !.at = "reinforce", !.left = M!Copied(hits)]
<1>1. hits \in SUBSET M!There /\ (\A i \in hits : ~records[i].archived) /\ M!Enter(c)
  BY LiveIsThere DEF M!Search
<1>2. /\ M!Copied(hits) \in M!Copies /\ DOMAIN M!Copied(hits) = hits /\ \A i \in hits : M!Copied(hits)[i] = records[i]
  BY <1>1, CopiesTaken DEF MemoryTypes
<1>3. n \in Remembering /\ Has(n, "reinforce", M!Copied(hits), M!Idle.survivors, M!Idle.heal, M!Idle.id, M!Idle.prune, M!Idle.known)
  <2>1. "reinforce" \in Moments
    BY DEF Moments
  <2> QED
    BY <1>2, <2>1, IdleRemembers, FieldsChange DEF Remembering
<1>4. remembering' = [remembering EXCEPT ![c] = n] /\ UNCHANGED <<records, vectors, merged, forgotten, gone, twice>>
  BY DEF M!Search, M!Begin, M!ghosts
<1> HIDE DEF n
<1>5. ReadingInv(n) /\ ~Merging(n) /\ ~Scanning(n) /\ Holds(n) = hits /\ n.at # "prune"
  BY <1>1, <1>2, <1>3, IdleRemembers DEF Has, ReadingInv, Merging, Scanning, Holds
<1>6. hits \cap gone = {}
  BY <1>1 DEF GoneInv
<1> QED
  BY <1>1, <1>3, <1>4, <1>5, <1>6, EnterMemory, ReadSteps DEF MemoryTypes

LEMMA ArchiveSteps == ASSUME MemoryInv, NEW c \in Caller, NEW i \in M!Id, M!Archive(c, i) PROVE MemoryInv'
<1> USE DEF MemoryInv
<1> DEFINE n == [M!Idle EXCEPT !.at = "archive", !.left = M!Copied({i})]
<1>1. {i} \in SUBSET M!There /\ M!Enter(c)
  BY DEF M!Archive
<1>2. M!Copied({i}) \in M!Copies /\ DOMAIN M!Copied({i}) = {i}
  BY <1>1, CopiesTaken DEF MemoryTypes
<1>3. n \in Remembering /\ Has(n, "archive", M!Copied({i}), M!Idle.survivors, M!Idle.heal, M!Idle.id, M!Idle.prune, M!Idle.known)
  <2>1. "archive" \in Moments
    BY DEF Moments
  <2> QED
    BY <1>2, <2>1, IdleRemembers, FieldsChange DEF Remembering
<1>4. remembering' = [remembering EXCEPT ![c] = n] /\ UNCHANGED <<records, vectors, merged, forgotten, gone, twice>>
  BY DEF M!Archive, M!Begin, M!ghosts
<1> HIDE DEF n
<1>5. ReadingInv(n) /\ ~Merging(n) /\ ~Scanning(n) /\ Holds(n) = {i} /\ n.at # "prune"
  BY <1>2, <1>3, IdleRemembers DEF Has, ReadingInv, Merging, Scanning, Holds
<1>6. {i} \cap gone = {}
  BY <1>1 DEF GoneInv
<1> QED
  BY <1>1, <1>3, <1>4, <1>5, <1>6, EnterMemory, ReadSteps DEF MemoryTypes

LEMMA ConsolidateSteps == ASSUME MemoryInv, NEW c \in Caller, NEW prune \in Flag, M!Consolidate(c, prune) PROVE MemoryInv'
<1> USE DEF MemoryInv
<1> DEFINE scan == M!Scanned
           n == [M!Idle EXCEPT !.at = "heal", !.left = M!Copied(scan), !.prune = prune,
                               !.heal = scan \ vectors, !.known = scan \cap vectors]
<1>1. scan \in SUBSET M!There /\ scan \subseteq M!Live /\ M!Enter(c)
  BY DEF M!Scanned, M!Live, M!Consolidate
<1>2. M!Copied(scan) \in M!Copies /\ DOMAIN M!Copied(scan) = scan /\ scan \subseteq M!Id
  BY <1>1, CopiesTaken DEF MemoryTypes
<1>3. remembering' = [remembering EXCEPT ![c] = n] /\ UNCHANGED <<records, vectors, merged, forgotten, gone>>
  BY DEF M!Consolidate, M!Begin
<1>4. twice' = (twice \/ \E d \in Caller \ {c} : remembering[d].at \in {"heal", "vector", "scan", "prune"})
  BY DEF M!Consolidate
<1> HIDE DEF scan
<1>5. n \in Remembering /\ Has(n, "heal", M!Copied(scan), M!Idle.survivors, scan \ vectors, M!Idle.id, prune, scan \cap vectors)
  <2> DEFINE copies == M!Copied(scan)
             heal == scan \ vectors
             known == scan \cap vectors
  <2>1. "heal" \in Moments /\ copies \in M!Copies /\ heal \in SUBSET M!Id /\ known \in SUBSET M!Id
    BY <1>2 DEF Moments
  <2> HIDE DEF copies, heal, known
  <2> DEFINE m == [M!Idle EXCEPT !.at = "heal", !.left = copies, !.prune = prune, !.heal = heal, !.known = known]
  <2>2. M!Idle \in Remembers(Moments, M!Copies, SUBSET M!Id, M!Id, Flag)
    BY IdleRemembers DEF Remembering
  <2>3. m \in Remembering /\ Has(m, "heal", copies, M!Idle.survivors, heal, M!Idle.id, prune, known)
    BY <2>1, <2>2, FieldsChange DEF Remembering
  <2> QED
    BY <2>3 DEF copies, heal, known
<1> HIDE DEF n
<1>6. ReadingInv(n) /\ Read(n) = scan /\ Holds(n) = scan /\ n.at # "prune"
  BY <1>2, <1>5, IdleRemembers DEF Has, ReadingInv, Read, Holds
<1>7. ~twice' => \A d \in Caller \ {c} : ~Merging(remembering[d])
  BY <1>4 DEF Merging, Scanning
<1>8. scan \cap gone = {}
  BY <1>1 DEF GoneInv
<1>9. twice' \in BOOLEAN /\ (twice => twice')
  BY <1>4 DEF MemoryTypes
<1> QED
  BY <1>1, <1>3, <1>5, <1>6, <1>7, <1>8, <1>9, EnterMemory, ReadSteps

LEMMA ReindexSteps == ASSUME MemoryInv, NEW c \in Caller, M!Reindex(c) PROVE MemoryInv'
<1> USE DEF MemoryInv
<1> DEFINE n == [M!Idle EXCEPT !.at = "heal", !.heal = M!There \ vectors]
<1>1. M!There \in SUBSET M!Id /\ M!Enter(c)
  BY CopiesRead DEF MemoryTypes, M!There, M!Reindex
<1>2. n \in Remembering /\ Has(n, "heal", M!Idle.left, M!Idle.survivors, M!There \ vectors, M!Idle.id, M!Idle.prune, M!Idle.known)
  <2>1. "heal" \in Moments /\ M!There \ vectors \in SUBSET M!Id
    BY <1>1 DEF Moments
  <2> QED
    BY <2>1, IdleRemembers, FieldsChange DEF Remembering
<1>3. remembering' = [remembering EXCEPT ![c] = n] /\ UNCHANGED <<records, vectors, merged, forgotten, gone, twice>>
  BY DEF M!Reindex, M!Begin, M!ghosts
<1> HIDE DEF n
<1>4. ReadingInv(n) /\ ~Merging(n) /\ Read(n) = {} /\ Holds(n) = M!There \ vectors /\ n.at # "prune"
  BY <1>2, IdleRemembers DEF Has, ReadingInv, Merging, Read, Holds
<1>5. Holds(n) \cap gone = {}
  BY <1>4 DEF GoneInv
<1> QED
  BY <1>1, <1>2, <1>3, <1>4, <1>5, EnterMemory, ReadSteps DEF MemoryTypes

LEMMA HealSteps == ASSUME MemoryInv, NEW c \in Caller, M!Heal(c) PROVE MemoryInv'
<1> USE DEF MemoryInv
<1>1. PICK me \in Remembering : me = remembering[c]
  BY DEF MemoryTypes
<1>2. me.at = "heal" /\ UNCHANGED <<records, vectors, merged, forgotten, gone, twice, memoryCalls>>
  BY <1>1 DEF M!Heal, M!ghosts
<1>3. ReadingInv(me) /\ Holds(me) \cap gone = {} /\ (~twice => Read(me) \subseteq M!Live \cup forgotten)
  BY <1>1, <1>2 DEF ReadingsInv, GoneInv, ReadLive, Scanning
<1>4. ASSUME NEW n \in Remembering, remembering' = [remembering EXCEPT ![c] = n], n.at \in {"heal", "vector", "scan"},
             n.left = me.left, n.survivors = me.survivors, n.prune = me.prune, Holds(n) \subseteq Holds(me)
      PROVE  MemoryInv'
  <2>1. ReadingInv(n) /\ n.at # "prune" /\ Read(n) = Read(me) /\ (Merging(n) => Merging(me))
    BY <1>2, <1>3, <1>4 DEF ReadingInv, Read, Merging, Scanning
  <2> QED
    BY <1>1, <1>2, <1>3, <1>4, <2>1, ReadSteps DEF MemoryTypes
<1>5. CASE remembering' = [remembering EXCEPT ![c].at = "scan"]
  <2> DEFINE n == [me EXCEPT !.at = "scan"]
  <2>1. n \in Remembering /\ Has(n, "scan", me.left, me.survivors, me.heal, me.id, me.prune, me.known)
    <3>1. "scan" \in Moments
      BY DEF Moments
    <3> QED
      BY <3>1, FieldsChange DEF Remembering
  <2>2. remembering' = [remembering EXCEPT ![c] = n]
    BY <1>1, <1>5 DEF MemoryTypes
  <2> HIDE DEF n
  <2> QED
    BY <1>2, <1>4, <2>1, <2>2 DEF Has, Holds
<1>6. ASSUME NEW i \in me.heal,
             remembering' = [remembering EXCEPT ![c].heal = @ \ {i}, ![c].id = i, ![c].at = IF i \in M!There THEN "vector" ELSE "heal"]
      PROVE  MemoryInv'
  <2> DEFINE at == IF i \in M!There THEN "vector" ELSE "heal"
             n == [me EXCEPT !.heal = me.heal \ {i}, !.id = i, !.at = at]
  <2>1. n \in Remembering /\ Has(n, at, me.left, me.survivors, me.heal \ {i}, i, me.prune, me.known)
    <3>1. at \in Moments /\ me.heal \ {i} \in SUBSET M!Id /\ i \in M!Id
      BY RememberedTypes DEF Moments
    <3> HIDE DEF at
    <3> QED
      BY <3>1, FieldsChange DEF Remembering
  <2>2. remembering' = [remembering EXCEPT ![c] = n]
    BY <1>1, <1>6 DEF MemoryTypes
  <2> HIDE DEF n
  <2>3. Holds(n) \subseteq Holds(me) /\ n.at \in {"heal", "vector", "scan"}
    BY <2>1 DEF Has, Holds
  <2> QED
    BY <1>4, <2>1, <2>2, <2>3 DEF Has
<1> QED
  BY <1>1, <1>5, <1>6 DEF M!Heal

\* A caller is done with one of the rows that it read.
LEMMA DoneSteps ==
  ASSUME MemoryTypes, ReadingsInv, NEW c \in Caller, NEW i \in DOMAIN remembering[c].left, M!Done(c, i)
  PROVE  \E n \in Remembering :
           /\ remembering' = [remembering EXCEPT ![c] = n] /\ ReadingInv(n)
           /\ Holds(n) \subseteq Holds(remembering[c]) /\ Read(n) \subseteq Read(remembering[c])
           /\ DOMAIN n.left \subseteq DOMAIN remembering[c].left \ {i} /\ DOMAIN remembering[c].left \subseteq DOMAIN n.left \cup {i}
           /\ (n.at = remembering[c].at /\ n.prune = remembering[c].prune) \/ n = M!Idle
<1>1. PICK me \in Remembering : me = remembering[c]
  BY DEF MemoryTypes
<1>2. me.left \in M!Copies /\ DOMAIN me.left \subseteq M!Id /\ ReadingInv(me) /\ i \in M!Id
  BY <1>1, RememberedTypes, CopiesRead DEF ReadingsInv
<1>3. CASE DOMAIN me.left = {i}
  <2>1. remembering' = [remembering EXCEPT ![c] = M!Idle]
    BY <1>1, <1>3 DEF M!Done, M!Return
  <2> QED
    BY <1>1, <1>3, <2>1, IdleRemembers DEF Read
<1>4. CASE DOMAIN me.left # {i}
  <2> DEFINE n == [me EXCEPT !.left = M!Without(me.left, i)]
  <2>1. M!Without(me.left, i) \in M!Copies /\ DOMAIN M!Without(me.left, i) = DOMAIN me.left \ {i}
        /\ \A j \in DOMAIN me.left \ {i} : M!Without(me.left, i)[j] = me.left[j]
    BY <1>2, WithoutChange
  <2>2. n \in Remembering /\ Has(n, me.at, M!Without(me.left, i), me.survivors, me.heal, me.id, me.prune, me.known)
    BY <2>1, FieldsChange DEF Remembering
  <2>3. remembering' = [remembering EXCEPT ![c] = n]
    BY <1>1, <1>4 DEF M!Done, MemoryTypes
  <2> HIDE DEF n
  <2>4. ReadingInv(n)
    BY <1>2, <2>1, <2>2 DEF Has, ReadingInv
  <2> QED
    BY <1>1, <2>1, <2>2, <2>3, <2>4 DEF Has, Holds, Read
<1> QED
  BY <1>3, <1>4

LEMMA ReinforceSteps == ASSUME MemoryInv, NEW c \in Caller, M!Reinforce(c) PROVE MemoryInv'
<1> USE DEF MemoryInv
<1>1. PICK i \in DOMAIN remembering[c].left :
        M!Save(i, [remembering[c].left[i] EXCEPT !.uses = IF @ < MaxUses THEN @ + 1 ELSE @]) /\ M!Done(c, i)
  BY DEF M!Reinforce
<1>2. PICK me \in Remembering : me = remembering[c]
  BY DEF MemoryTypes
<1>3. me.at = "reinforce" /\ UNCHANGED <<vectors, merged, forgotten, gone, twice, memoryCalls>>
  BY <1>2 DEF M!Reinforce, M!ghosts
<1>4. PICK old \in M!Record : old = me.left[i] /\ ~old.archived /\ i \in M!Id
  BY <1>1, <1>2, <1>3, RememberedTypes, CopiesRead DEF ReadingsInv, ReadingInv
<1>5. PICK row \in M!Record : M!Save(i, row) /\ ~row.archived
  <2> DEFINE uses == IF old.uses < MaxUses THEN old.uses + 1 ELSE old.uses
  <2>1. uses \in 0..MaxUses
    BY MemoryAssumption DEF M!Record
  <2>2. [old EXCEPT !.uses = uses] \in M!Record /\ ~[old EXCEPT !.uses = uses].archived
    BY <1>4, <2>1 DEF M!Record
  <2> QED
    BY <1>1, <1>2, <1>4, <2>2
<1>6. /\ records' \in M!Copies /\ M!There' = M!There \cup {i}
      /\ \A j \in M!There \cup {i} : records'[j] = IF j = i THEN row ELSE records[j]
  BY <1>4, <1>5, SaveChanges DEF MemoryTypes
<1>7. M!Live \subseteq M!Live'
  BY <1>5, <1>6 DEF M!Live
<1>8. PICK n \in Remembering :
           /\ remembering' = [remembering EXCEPT ![c] = n] /\ ReadingInv(n) /\ Holds(n) \subseteq Holds(me)
           /\ n.at = me.at \/ n = M!Idle
  BY <1>1, <1>2, DoneSteps
<1>9. n.at # "prune" /\ ~Scanning(n) /\ ~Merging(n)
  BY <1>3, <1>8, IdleRemembers DEF Scanning, Merging
<1>10. MemoryTypes'
  BY <1>3, <1>6, <1>8, CallerMoves DEF MemoryTypes
<1>11. (Holds(n) \cup M!There' \cup vectors') \cap gone = {}
  BY <1>1, <1>2, <1>3, <1>6, <1>8 DEF GoneInv, Holds
<1> QED
  BY <1>3, <1>7, <1>8, <1>9, <1>10, <1>11, MemoryGrows

LEMMA SaveArchivedSteps == ASSUME MemoryInv, NEW c \in Caller, M!SaveArchived(c) PROVE MemoryInv'
<1> USE DEF MemoryInv
<1>1. PICK i \in DOMAIN remembering[c].left :
        M!Save(i, [remembering[c].left[i] EXCEPT !.archived = TRUE]) /\ forgotten' = forgotten \cup {i}
  BY DEF M!SaveArchived
<1>2. PICK me \in Remembering : me = remembering[c]
  BY DEF MemoryTypes
<1>3. /\ remembering' = [remembering EXCEPT ![c] = M!Idle]
      /\ UNCHANGED <<vectors, merged, gone, twice, memoryCalls>>
  BY DEF M!SaveArchived, M!Return
<1>4. PICK old \in M!Record : old = me.left[i] /\ i \in M!Id
  BY <1>1, <1>2, RememberedTypes, CopiesRead
<1>5. PICK row \in M!Record : M!Save(i, row)
  <2>1. [old EXCEPT !.archived = TRUE] \in M!Record
    BY DEF M!Record
  <2> QED
    BY <1>1, <1>2, <1>4, <2>1
<1>6. /\ records' \in M!Copies /\ M!There' = M!There \cup {i}
      /\ \A j \in M!There \cup {i} : records'[j] = IF j = i THEN row ELSE records[j]
  BY <1>4, <1>5, SaveChanges DEF MemoryTypes
<1>7. M!Live \subseteq M!Live' \cup forgotten'
  BY <1>1, <1>6 DEF M!Live
<1>8. MemoryTypes'
  BY <1>1, <1>3, <1>4, <1>6, CallerMoves, IdleRemembers DEF MemoryTypes
<1>9. (Holds(M!Idle) \cup M!There' \cup vectors') \cap gone = {}
  BY <1>1, <1>3, <1>6, IdleRemembers DEF GoneInv, Holds
<1> QED
  BY <1>1, <1>3, <1>7, <1>8, <1>9, IdleRemembers, MemoryGrows

LEMMA ForgetSteps == ASSUME MemoryInv, NEW c \in Caller, NEW i \in M!Id, M!Forget(c, i) PROVE MemoryInv'
<1> USE DEF MemoryInv
<1>1. /\ M!Enter(c) /\ M!Delete(i) /\ forgotten' = forgotten \cup {i} /\ UNCHANGED <<remembering, merged, twice>>
      /\ gone' = IF M!Held(i) THEN gone ELSE gone \cup {i}
  BY DEF M!Forget
<1>2. /\ records' \in M!Copies /\ M!There' = M!There \ {i} /\ M!Live' = M!Live \ {i} /\ vectors' = vectors \ {i}
  BY <1>1, DeleteChanges DEF MemoryTypes, M!Delete
<1>3. MemoryTypes'
  BY <1>1, <1>2, EnterMemory DEF MemoryTypes
<1>4. SomeoneKept'
  <2>1. Safe \subseteq Safe'
    BY <1>1, <1>2 DEF Safe, Pruning
  <2> QED
    BY <2>1, <1>1, SafeStays
<1>5. ReadingsInv' /\ OneMerges'
  BY <1>1 DEF ReadingsInv, OneMerges
<1>6. ReadLive'
  BY <1>1, <1>2 DEF ReadLive
<1>7. GoneInv'
  <2>1. gone' \cap (M!There' \cup vectors') = {}
    BY <1>1, <1>2 DEF GoneInv
  <2>2. \A d \in Caller : Holds(remembering[d]) \cap gone' = {}
    BY <1>1, HeldByWhom DEF GoneInv
  <2> QED
    BY <2>1, <2>2, <1>1 DEF GoneInv
<1> QED
  BY <1>3, <1>4, <1>5, <1>6, <1>7

LEMMA PruneSteps == ASSUME MemoryInv, NEW c \in Caller, M!Prune(c) PROVE MemoryInv'
<1> USE DEF MemoryInv
<1>1. PICK i \in DOMAIN remembering[c].left : M!Delete(i) /\ M!Done(c, i)
  BY DEF M!Prune
<1>2. PICK me \in Remembering : me = remembering[c]
  BY DEF MemoryTypes
<1>3. me.at = "prune" /\ i \in Read(me) /\ i \in M!Id /\ UNCHANGED <<merged, forgotten, gone, twice, memoryCalls>>
  BY <1>1, <1>2, RememberedTypes, CopiesRead DEF M!Prune, M!ghosts, Read
<1>4. /\ records' \in M!Copies /\ M!There' = M!There \ {i} /\ M!Live' = M!Live \ {i} /\ vectors' = vectors \ {i}
  BY <1>1, <1>3, DeleteChanges DEF MemoryTypes, M!Delete
<1>5. PICK n \in Remembering :
           /\ remembering' = [remembering EXCEPT ![c] = n] /\ ReadingInv(n) /\ Holds(n) \subseteq Holds(me)
           /\ DOMAIN n.left \subseteq DOMAIN me.left
           /\ n.at = me.at \/ n = M!Idle
  BY <1>1, <1>2, DoneSteps
<1>6. MemoryTypes'
  BY <1>3, <1>4, <1>5, CallerMoves DEF MemoryTypes
<1>7. remembering'[c] = n /\ \A d \in Caller \ {c} : remembering'[d] = remembering[d]
  BY <1>5, CallerMoves
<1>8. SomeoneKept'
  <2>1. i \in Pruning /\ Pruning' \subseteq Pruning
    BY <1>1, <1>2, <1>3, <1>5, <1>7 DEF Pruning
  <2>2. Safe \subseteq Safe'
    BY <2>1, <1>3, <1>4 DEF Safe
  <2> QED
    BY <2>2, <1>3, SafeStays
<1>9. Merging(me) /\ ~Scanning(n)
  BY <1>3, <1>5, IdleRemembers DEF Merging, Scanning
<1>10. ~twice' => \A d \in Caller \ {c} : Scanning(remembering[d]) => Read(remembering[d]) \subseteq M!Live' \cup forgotten'
  <2> SUFFICES ASSUME ~twice, NEW d \in Caller \ {c}, Scanning(remembering[d]) PROVE Read(remembering[d]) = {}
    BY <1>3
  <2> QED
    BY <1>2, <1>9 DEF OneMerges, Merging
<1>11. (Holds(n) \cup M!There' \cup vectors') \cap gone = {}
  BY <1>2, <1>4, <1>5 DEF GoneInv
<1> QED
  BY <1>2, <1>3, <1>5, <1>6, <1>8, <1>9, <1>10, <1>11, MemoryMoves

LEMMA EndScanSteps == ASSUME MemoryInv, NEW c \in Caller, M!EndScan(c) PROVE MemoryInv'
<1> USE DEF MemoryInv
<1>1. PICK me \in Remembering : me = remembering[c]
  BY DEF MemoryTypes
<1>2. /\ me.at = "scan" /\ DOMAIN me.left = {} /\ me.prune \in BOOLEAN
      /\ UNCHANGED <<records, vectors, merged, forgotten, gone, twice, memoryCalls>>
  BY <1>1, RememberedTypes DEF M!EndScan, M!ghosts
<1>3. PICK old \in SUBSET M!Prunable :
        remembering' = [remembering EXCEPT ![c] = IF me.prune /\ old # {} THEN [M!Idle EXCEPT !.at = "prune", !.left = M!Copied(old)]
                                                  ELSE M!Idle]
  BY <1>1 DEF M!EndScan
<1>4. CASE ~(me.prune /\ old # {})
  <2>1. remembering' = [remembering EXCEPT ![c] = M!Idle]
    BY <1>3, <1>4
  <2>2. Holds(M!Idle) \cap gone = {}
    BY IdleRemembers
  <2> QED
    BY <1>2, <2>1, <2>2, IdleRemembers, ReadSteps DEF MemoryTypes
<1>5. CASE me.prune /\ old # {}
  <2> DEFINE copies == M!Copied(old)
             n == [M!Idle EXCEPT !.at = "prune", !.left = copies]
  <2>1. old \in SUBSET M!There /\ old \cap M!Live = {}
    BY DEF M!Prunable
  <2>2. copies \in M!Copies /\ DOMAIN copies = old
    BY <2>1, CopiesTaken DEF MemoryTypes
  <2>3. remembering' = [remembering EXCEPT ![c] = n]
    BY <1>3, <1>5
  <2> HIDE DEF copies
  <2>4. n \in Remembering /\ Has(n, "prune", copies, M!Idle.survivors, M!Idle.heal, M!Idle.id, M!Idle.prune, M!Idle.known)
    <3>1. "prune" \in Moments
      BY DEF Moments
    <3> QED
      BY <2>2, <3>1, IdleRemembers, FieldsChange DEF Remembering
  <2> HIDE DEF n
  <2>5. ReadingInv(n) /\ ~Scanning(n) /\ Holds(n) = old /\ n.at = "prune" /\ DOMAIN n.left = old
    BY <2>2, <2>4, IdleRemembers DEF Has, ReadingInv, Scanning, Holds
  <2>6. Merging(me)
    BY <1>2, <1>5 DEF Merging, Scanning
  <2>7. UNCHANGED <<M!Live, M!There>>
    BY <1>2 DEF M!Live, M!There
  <2>8. remembering'[c] = n /\ \A d \in Caller \ {c} : remembering'[d] = remembering[d]
    BY <2>3, <2>4, CallerMoves
  <2>9. MemoryTypes'
    BY <1>2, <2>3, <2>4, CallerMoves DEF MemoryTypes
  <2>10. SomeoneKept'
    <3>1. Pruning' \subseteq Pruning \cup old
      BY <2>5, <2>8 DEF Pruning
    <3>2. Safe \subseteq Safe'
      BY <1>2, <2>1, <2>7, <3>1 DEF Safe
    <3> QED
      BY <1>2, <3>2, SafeStays
  <2>11. ~twice' => \A d \in Caller \ {c} : Scanning(remembering[d]) => Read(remembering[d]) \subseteq M!Live' \cup forgotten'
    BY <1>2, <2>7 DEF ReadLive
  <2>12. (Holds(n) \cup M!There' \cup vectors') \cap gone = {}
    BY <1>2, <2>1, <2>5, <2>7 DEF GoneInv
  <2> QED
    BY <1>1, <1>2, <2>3, <2>4, <2>5, <2>6, <2>9, <2>10, <2>11, <2>12, MemoryMoves
<1> QED
  BY <1>4, <1>5

\* The newest of some records is one of them.
LEMMA NewestIs == ASSUME NEW ids \in SUBSET M!Id, ids # {} PROVE M!Newest(ids) \in ids
<1> DEFINE ages == {k \in Nat : \E j \in ids : k = MaxRecords - j}
<1>1. ages \subseteq Nat /\ ages # {}
  <2>1. PICK j \in ids : TRUE
    OBVIOUS
  <2>2. MaxRecords - j \in ages
    BY MemoryAssumption DEF M!Id
  <2> QED
    BY <2>2
<1>2. PICK k \in ages : \A m \in ages : k <= m
  BY <1>1, LeastNumber
<1>3. PICK i \in ids : k = MaxRecords - i
  BY <1>2
<1>4. ASSUME NEW j \in ids PROVE j <= i
  <2>1. MaxRecords - j \in ages
    BY MemoryAssumption DEF M!Id
  <2>2. MaxRecords - i <= MaxRecords - j
    BY <1>2, <1>3, <2>1
  <2>3. i \in Nat /\ j \in Nat /\ MaxRecords \in Nat
    BY MemoryAssumption DEF M!Id
  <2> QED
    BY <2>2, <2>3
<1> QED
  BY <1>4 DEF M!Newest

\* One of two that were read is archived, and the other goes on.
LEMMA MergeSteps ==
  ASSUME MemoryInv, NEW c \in Caller, NEW me \in Remembering, me = remembering[c], Scanning(me),
         NEW loser \in Read(me), NEW winner \in Read(me), loser # winner,
         NEW n \in Remembering, remembering' = [remembering EXCEPT ![c] = n], ReadingInv(n), n.at = me.at, n.prune = me.prune,
         Read(n) = Read(me) \ {loser}, Holds(n) \subseteq Holds(me),
         NEW row \in M!Record, row.archived, M!Save(loser, row), merged' = merged \cup {<<loser, winner>>},
         UNCHANGED <<vectors, forgotten, gone, twice, memoryCalls>>
  PROVE  MemoryInv'
<1> USE DEF MemoryInv
<1>1. Read(me) \subseteq M!Id
  BY RememberedTypes, CopiesRead DEF Read
<1>2. /\ records' \in M!Copies /\ M!There' = M!There \cup {loser}
      /\ \A j \in M!There \cup {loser} : records'[j] = IF j = loser THEN row ELSE records[j]
  BY <1>1, SaveChanges DEF MemoryTypes
<1>3. M!Live' = M!Live \ {loser}
  BY <1>2 DEF M!Live
<1>4. MemoryTypes'
  <2>1. <<loser, winner>> \in M!Id \X M!Id
    BY <1>1
  <2> QED
    BY <1>2, <2>1, CallerMoves DEF MemoryTypes
<1>5. remembering'[c] = n /\ \A d \in Caller \ {c} : remembering'[d] = remembering[d]
  BY CallerMoves
<1>6. Merging(me) /\ (Merging(n) => Merging(me)) /\ Scanning(n) /\ n.at # "prune" /\ me.at # "prune"
  BY DEF Merging, Scanning
<1>7. ~twice => Read(me) \subseteq M!Live \cup forgotten
  BY DEF ReadLive
<1>8. ~twice => \A d \in Caller \ {c} : ~Merging(remembering[d])
  BY <1>6 DEF OneMerges
<1>9. SomeoneKept'
  <2> SUFFICES ASSUME ~twice, NEW p \in merged', NEW ids \in SUBSET M!Id, p[1] \in ids, M!Closed(ids)' PROVE ids \cap Safe' # {}
    BY DEF SomeoneKept
  <2>1. Pruning = {} /\ Pruning' = {}
    BY <1>5, <1>6, <1>8 DEF Pruning, Merging, Read
  <2>2. Safe = M!Live \cup forgotten /\ Safe' = (M!Live \ {loser}) \cup forgotten
    BY <1>3, <2>1 DEF Safe
  <2>3. loser \in ids => winner \in ids
    <3>1. <<loser, winner>> \in merged' /\ <<loser, winner>>[1] = loser /\ <<loser, winner>>[2] = winner
      OBVIOUS
    <3> QED
      BY <3>1 DEF M!Closed
  <2>4. winner \in Safe'
    BY <1>7, <2>2
  <2>5. CASE p = <<loser, winner>>
    BY <2>3, <2>4, <2>5
  <2>6. CASE p \in merged
    <3>1. M!Closed(ids)
      BY DEF M!Closed
    <3>2. PICK x \in ids : x \in Safe
      BY <2>6, <3>1 DEF SomeoneKept
    <3> QED
      BY <2>2, <2>3, <2>4, <3>2
  <2> QED
    BY <2>5, <2>6
<1>10. ~twice => Read(n) \subseteq M!Live' \cup forgotten
  BY <1>3, <1>7
<1>11. ~twice => \A d \in Caller \ {c} : Scanning(remembering[d]) => Read(remembering[d]) = {}
  BY <1>8 DEF Merging
<1>12. (Holds(n) \cup M!There' \cup vectors') \cap gone = {}
  <2>1. loser \in Holds(me)
    BY DEF Holds, Read
  <2> QED
    BY <1>2, <2>1 DEF GoneInv
<1> QED
  BY <1>4, <1>6, <1>9, <1>10, <1>11, <1>12, MemoryMoves

LEMMA CompareSteps == ASSUME MemoryInv, NEW c \in Caller, M!Compare(c) PROVE MemoryInv'
<1> USE DEF MemoryInv
<1>1. PICK me \in Remembering : me = remembering[c]
  BY DEF MemoryTypes
<1> DEFINE i == M!Newest(DOMAIN me.left)
           record == me.left[i]
           twins == {s \in DOMAIN me.survivors : {s, i} \subseteq me.known /\ M!Twins(s, i)}
           twin == M!Newest(twins)
<1>2. /\ me.at = "scan" /\ DOMAIN me.left # {} /\ UNCHANGED <<vectors, forgotten, gone, twice, memoryCalls>>
      /\ me.left \in M!Copies /\ me.survivors \in M!Copies
      /\ DOMAIN me.left \subseteq M!Id /\ DOMAIN me.survivors \subseteq M!Id
  BY <1>1, RememberedTypes, CopiesRead DEF M!Compare
<1>3. i \in DOMAIN me.left /\ i \in M!Id /\ record \in M!Record
  <2>1. i \in DOMAIN me.left
    BY <1>2, NewestIs
  <2> QED
    BY <1>2, <2>1, CopiesRead
<1>4. twins # {} => twin \in DOMAIN me.survivors /\ twin \in M!Id /\ me.survivors[twin] \in M!Record
  <2>1. twins # {} => twin \in twins
    BY <1>2, NewestIs
  <2> QED
    BY <1>2, <2>1, CopiesRead
<1>5. \/ /\ twins = {}
         /\ remembering' = [remembering EXCEPT ![c].left = M!Without(@, i), ![c].survivors = M!With(@, i, record)]
         /\ UNCHANGED <<records, merged>>
      \/ /\ twins # {} /\ M!Save(i, [record EXCEPT !.archived = TRUE])
         /\ merged' = merged \cup {<<i, twin>>}
         /\ remembering' = [remembering EXCEPT ![c].left = M!Without(@, i)]
      \/ /\ twins # {} /\ M!Save(twin, [me.survivors[twin] EXCEPT !.archived = TRUE])
         /\ merged' = merged \cup {<<twin, i>>}
         /\ remembering' = [remembering EXCEPT ![c].left = M!Without(@, i),
                                              ![c].survivors = M!With(M!Without(@, twin), i, record)]
  BY <1>1 DEF M!Compare
<1> HIDE DEF i, record, twins, twin
<1> DEFINE rest == M!Without(me.left, i)
<1>6. rest \in M!Copies /\ DOMAIN rest = DOMAIN me.left \ {i}
  BY <1>2, <1>3, WithoutChange
<1>7. ReadingInv(me) /\ Scanning(me) /\ Holds(me) \cap gone = {} /\ DOMAIN me.left \cap DOMAIN me.survivors = {}
  BY <1>1, <1>2 DEF ReadingsInv, Scanning, GoneInv, ReadingInv
<1> HIDE DEF rest
<1>8. CASE /\ twins = {}
           /\ remembering' = [remembering EXCEPT ![c].left = M!Without(@, i), ![c].survivors = M!With(@, i, record)]
           /\ UNCHANGED <<records, merged>>
  <2> DEFINE more == M!With(me.survivors, i, record)
             n == [me EXCEPT !.left = rest, !.survivors = more]
  <2>1. more \in M!Copies /\ DOMAIN more = DOMAIN me.survivors \cup {i}
    BY <1>2, <1>3, CopiesChange
  <2>2. remembering' = [remembering EXCEPT ![c] = n]
    BY <1>1, <1>8 DEF MemoryTypes, rest
  <2> HIDE DEF more
  <2>3. n \in Remembering /\ Has(n, me.at, rest, more, me.heal, me.id, me.prune, me.known)
    BY <1>6, <2>1, FieldsChange DEF Remembering
  <2> HIDE DEF n
  <2>4. ReadingInv(n) /\ Read(n) = Read(me) /\ Holds(n) = Holds(me) /\ n.at = me.at /\ n.prune = me.prune
    BY <1>2, <1>3, <1>6, <1>7, <2>1, <2>3 DEF Has, ReadingInv, Read, Holds
  <2>5. (Merging(n) => Merging(me)) /\ n.at # "prune" /\ (~twice => Read(n) \subseteq M!Live \cup forgotten)
    BY <1>1, <1>2, <1>7, <2>4 DEF Merging, Scanning, ReadLive
  <2> QED
    BY <1>1, <1>2, <1>7, <1>8, <2>2, <2>3, <2>4, <2>5, ReadSteps DEF MemoryTypes
<1>9. CASE /\ twins # {} /\ M!Save(i, [record EXCEPT !.archived = TRUE])
           /\ merged' = merged \cup {<<i, twin>>}
           /\ remembering' = [remembering EXCEPT ![c].left = M!Without(@, i)]
  <2> DEFINE n == [me EXCEPT !.left = rest]
             row == [record EXCEPT !.archived = TRUE]
  <2>1. remembering' = [remembering EXCEPT ![c] = n]
    BY <1>1, <1>9 DEF MemoryTypes, rest
  <2>2. n \in Remembering /\ Has(n, me.at, rest, me.survivors, me.heal, me.id, me.prune, me.known)
    BY <1>6, FieldsChange DEF Remembering
  <2>3. row \in M!Record /\ row.archived /\ M!Save(i, row)
    BY <1>3, <1>9 DEF M!Record
  <2> HIDE DEF n, row
  <2>4. /\ ReadingInv(n) /\ n.at = me.at /\ n.prune = me.prune /\ Read(n) = Read(me) \ {i} /\ Holds(n) \subseteq Holds(me)
        /\ i \in Read(me) /\ twin \in Read(me) /\ i # twin
    BY <1>2, <1>3, <1>4, <1>6, <1>7, <1>9, <2>2 DEF Has, ReadingInv, Read, Holds
  <2> QED
    BY <1>1, <1>2, <1>7, <1>9, <2>1, <2>2, <2>3, <2>4, MergeSteps
<1>10. CASE /\ twins # {} /\ M!Save(twin, [me.survivors[twin] EXCEPT !.archived = TRUE])
            /\ merged' = merged \cup {<<twin, i>>}
            /\ remembering' = [remembering EXCEPT ![c].left = M!Without(@, i),
                                                 ![c].survivors = M!With(M!Without(@, twin), i, record)]
  <2> DEFINE others == M!Without(me.survivors, twin)
             more == M!With(others, i, record)
             n == [me EXCEPT !.left = rest, !.survivors = more]
             row == [me.survivors[twin] EXCEPT !.archived = TRUE]
  <2>1. others \in M!Copies /\ DOMAIN others = DOMAIN me.survivors \ {twin}
    BY <1>2, <1>4, <1>10, WithoutChange
  <2>2. remembering' = [remembering EXCEPT ![c] = n]
    BY <1>1, <1>10 DEF MemoryTypes, rest
  <2>3. row \in M!Record /\ row.archived /\ M!Save(twin, row)
    <3>1. PICK old \in M!Record : old = me.survivors[twin]
      BY <1>4, <1>10
    <3>2. [old EXCEPT !.archived = TRUE] \in M!Record /\ [old EXCEPT !.archived = TRUE].archived
      BY DEF M!Record
    <3> QED
      BY <1>10, <3>1, <3>2
  <2> HIDE DEF others, row
  <2>4. more \in M!Copies /\ DOMAIN more = DOMAIN others \cup {i}
    BY <1>3, <2>1, CopiesChange
  <2> HIDE DEF more
  <2>5. n \in Remembering /\ Has(n, me.at, rest, more, me.heal, me.id, me.prune, me.known)
    BY <1>6, <2>4, FieldsChange DEF Remembering
  <2> HIDE DEF n
  <2>6. /\ ReadingInv(n) /\ n.at = me.at /\ n.prune = me.prune /\ Read(n) = Read(me) \ {twin} /\ Holds(n) \subseteq Holds(me)
        /\ i \in Read(me) /\ twin \in Read(me) /\ twin # i
    BY <1>2, <1>3, <1>4, <1>6, <1>7, <1>10, <2>1, <2>4, <2>5 DEF Has, ReadingInv, Read, Holds
  <2> QED
    BY <1>1, <1>2, <1>7, <1>10, <2>2, <2>3, <2>5, <2>6, MergeSteps
<1> QED
  BY <1>5, <1>8, <1>9, <1>10

LEMMA MemoryIdles == ASSUME MemoryInv, UNCHANGED M!vars PROVE MemoryInv'
<1> USE DEF MemoryInv
<1>1. UNCHANGED <<records, vectors, remembering, merged, forgotten, gone, twice, memoryCalls>>
  BY DEF M!vars
<1>2. UNCHANGED <<M!Live, M!There, Pruning>>
  BY <1>1 DEF M!Live, M!There, Pruning
<1>3. SomeoneKept'
  BY <1>1, <1>2, SafeStays DEF Safe
<1> QED
  BY <1>1, <1>2, <1>3 DEF MemoryTypes, ReadingsInv, OneMerges, ReadLive, GoneInv

LEMMA MemorySteps == ASSUME MemoryInv, [M!Next]_M!vars PROVE MemoryInv'
<1>1. ASSUME NEW c \in Caller, NEW prune \in BOOLEAN, M!Consolidate(c, prune) PROVE MemoryInv'
  BY <1>1, ConsolidateSteps DEF Flag
<1>2. CASE M!Next
  BY <1>1, <1>2, WriteSteps, SearchSteps, ForgetSteps, ArchiveSteps, ReindexSteps, SaveVectorSteps, ReinforceSteps, SaveArchivedSteps,
     HealSteps, CompareSteps, EndScanSteps, PruneSteps DEF M!Next
<1> QED
  BY <1>2, MemoryIdles

LEMMA MemoryInvariant == M!Spec => []MemoryInv
BY MemoryInit, MemorySteps, PTL DEF M!Spec

LEMMA MemoryHolds == ASSUME MemoryInv PROVE M!TypeOK /\ M!ConsolidationKeepsOne /\ M!ForgetIsClean
<1> USE DEF MemoryInv
<1>1. M!TypeOK
  <2>1. ASSUME NEW c \in Caller
        PROVE  /\ remembering[c].at \in Moments
               /\ remembering[c].left \in M!Copies /\ remembering[c].survivors \in M!Copies
               /\ remembering[c].heal \subseteq M!Id /\ remembering[c].id \in M!Id /\ remembering[c].known \subseteq M!Id
    <3>1. remembering[c] \in Remembering
      BY DEF MemoryTypes
    <3> QED
      BY <3>1, RememberedTypes
  <2> QED
    BY <2>1 DEF M!TypeOK, MemoryTypes, Moments
<1>2. M!ConsolidationKeepsOne
  <2>1. Safe \subseteq M!Live \cup forgotten
    BY DEF Safe
  <2> SUFFICES ASSUME ~twice, NEW p \in merged, NEW ids \in SUBSET M!Id, p[1] \in ids, M!Closed(ids)
               PROVE  ids \cap (M!Live \cup forgotten) # {}
    BY DEF M!ConsolidationKeepsOne
  <2>2. ids \cap Safe # {}
    BY DEF SomeoneKept
  <2> QED
    BY <2>1, <2>2
<1>3. M!ForgetIsClean
  BY DEF GoneInv, M!ForgetIsClean
<1> QED
  BY <1>1, <1>2, <1>3

-----------------------------------------------------------------------------
(* Rows and the copies of their fields *)

\* The rows and the index, the calls, in their types.
StoredRow == {R!None} \cup [there : {TRUE}, doc : R!Doc, copy : [R!T.columns -> 0..1]]
Store == [rows : [R!Id -> StoredRow], index : [R!Id -> Seq(R!Doc)]]
Statements == {"upsert", "unindex", "index", "delete", "commit"}
StoreCall == [todo : Seq(Statements), id : R!Id, doc : R!Doc, alone : BOOLEAN]

\* What no part of the program changes is as the row was made.
Fixed(doc, i) == \A f \in R!Fields \ R!T.changes : doc[f] = i

\* A row as a save leaves it: what a list filters on is as in the document.
RowInv(row, i) == row.there => Fixed(row.doc, i) /\ \A f \in R!T.by \cap R!T.columns : row.copy[f] = row.doc[f]
RowsInv(m) == \A i \in R!Id : RowInv(m.rows[i], i)

Settled(m, i) == m.index[i] = IF m.rows[i].there THEN <<m.rows[i].doc>> ELSE <<>>
Written(w) == now.rows[w.id].there /\ now.rows[w.id].doc = w.doc

\* A call under way: what it still has to run.
Todo(todo) ==
  /\ table # R!Memory => todo \in {<<"upsert", "commit">>, <<"delete", "commit">>, <<"commit">>}
  /\ table = R!Memory =>
       todo \in {<<"upsert", "unindex", "index", "commit">>, <<"unindex", "index", "commit">>, <<"index", "commit">>,
                <<"unindex", "delete", "commit">>, <<"delete", "commit">>, <<"commit">>}

\* What a call on memory that is alone has done.
Progress(w) ==
  /\ w.todo = <<"unindex", "index", "commit">> => Written(w)
  /\ w.todo = <<"index", "commit">> => Written(w) /\ now.index[w.id] = <<>>
  /\ w.todo = <<"delete", "commit">> => now.index[w.id] = <<>>
  /\ w.todo = <<"commit">> => Settled(now, w.id)

CallsInv == \A t \in R!Busy : Todo(saving[t].todo) /\ Fixed(saving[t].doc, saving[t].id)
ProgressInv == table = R!Memory => \A t \in R!Busy : saving[t].alone => Progress(saving[t])
SoleInv == \A t, u \in R!Busy : saving[t].id = saving[u].id => t = u \/ ~saving[t].alone
SpoiledInv == \A t \in R!Busy : ~saving[t].alone => saving[t].id \in spoiled
QuietInv == table = R!Memory => \A i \in R!Id : R!Quiet(i) =>
              Settled(now, i) /\ stored.rows[i] = now.rows[i] /\ stored.index[i] = now.index[i]

StorageTypes == /\ table \in DOMAIN R!Tables
                /\ now \in Store /\ stored \in Store
                /\ saving \in [Caller -> {R!Rest} \cup StoreCall]
                /\ spoiled \subseteq R!Id
StorageInv == StorageTypes /\ RowsInv(now) /\ RowsInv(stored) /\ CallsInv /\ ProgressInv /\ SoleInv /\ SpoiledInv /\ QuietInv

\* What a list filters on and a save leaves alone is never changed - in every
\* repository.
Agrees(t) == t.by \cap t.columns \cap t.changes \subseteq t.updated

LEMMA TablesAgree == ASSUME table \in DOMAIN R!Tables PROVE Agrees(R!T)
<1> USE DEF Agrees, R!Table
<1>1. /\ Agrees(R!MemoryRepository) /\ Agrees(R!EnterpriseRepository) /\ Agrees(R!AgentRepository) /\ Agrees(R!TaskRepository)
      /\ Agrees(R!PolicyRepository) /\ Agrees(R!ApprovalRepository) /\ Agrees(R!ArtifactRepository) /\ Agrees(R!ModelUsageRepository)
  BY DEF R!MemoryRepository, R!EnterpriseRepository, R!AgentRepository, R!TaskRepository, R!PolicyRepository,
         R!ApprovalRepository, R!ArtifactRepository, R!ModelUsageRepository
<1>2. /\ Agrees(R!SettingsRepository) /\ Agrees(R!Principals) /\ Agrees(R!Tokens) /\ Agrees(R!SecretRepository)
      /\ Agrees(R!KeyRepository) /\ Agrees(R!WorkflowRunRepository) /\ Agrees(R!ChangeProposalRepository)
  BY DEF R!SettingsRepository, R!Principals, R!Tokens, R!SecretRepository, R!KeyRepository, R!WorkflowRunRepository,
         R!ChangeProposalRepository
<1>3. /\ Agrees(R!EvaluationSuiteRepository) /\ Agrees(R!EvaluationRunRepository) /\ Agrees(R!EvaluationLoadRepository)
      /\ Agrees(R!ReleaseRepository) /\ Agrees(R!ArtifactVersionRepository) /\ Agrees(R!GatewayBindingRepository)
      /\ Agrees(R!GatewayMessageRepository) /\ Agrees(R!AttachmentRepository)
  BY DEF R!EvaluationSuiteRepository, R!EvaluationRunRepository, R!EvaluationLoadRepository, R!ReleaseRepository,
         R!ArtifactVersionRepository, R!GatewayBindingRepository, R!GatewayMessageRepository, R!AttachmentRepository
<1>4. /\ Agrees(R!NegotiationRepository) /\ Agrees(R!DatabaseTriggerRepository) /\ Agrees(R!DatabaseEventRepository)
      /\ Agrees(R!IntegrationRepository) /\ Agrees(R!IntegrationCallRepository) /\ Agrees(R!IntegrationEventRepository)
      /\ Agrees(R!IntegrationJobRepository) /\ Agrees(R!PackRepository)
  BY DEF R!NegotiationRepository, R!DatabaseTriggerRepository, R!DatabaseEventRepository, R!IntegrationRepository,
         R!IntegrationCallRepository, R!IntegrationEventRepository, R!IntegrationJobRepository, R!PackRepository
<1> HIDE DEF Agrees, R!Table
<1> QED
  BY <1>1, <1>2, <1>3, <1>4 DEF R!Tables, R!T

LEMMA MemoryTable == R!Memory \in DOMAIN R!Tables /\ (table = R!Memory => "archived" \in R!Fields)
<1>1. R!Tables[R!Memory] = R!MemoryRepository
  BY DEF R!Tables, R!Memory
<1>2. "archived" \in R!MemoryRepository.changes
  BY DEF R!MemoryRepository, R!Table
<1> QED
  BY <1>1, <1>2 DEF R!Tables, R!Memory, R!T, R!Fields

LEMMA StorageInit == ASSUME R!Init PROVE StorageInv
<1>1. (\A i \in R!Id : ~now.rows[i].there /\ now.index[i] = <<>>) /\ stored = now
  BY DEF R!Init, R!None
<1>2. R!Busy = {}
  BY DEF R!Init, R!Busy
<1>3. now \in Store
  <2>1. <<>> \in Seq(R!Doc)
    OBVIOUS
  <2> QED
    BY <2>1 DEF R!Init, Store, StoredRow
<1> QED
  BY <1>1, <1>2, <1>3 DEF StorageInv, StorageTypes, RowsInv, RowInv, CallsInv, ProgressInv, R!Init, SoleInv, SpoiledInv, QuietInv, Settled

LEMMA RestIsNot == R!Rest \notin StoreCall
<1> SUFFICES ASSUME R!Rest \in StoreCall PROVE FALSE
  OBVIOUS
<1>1. "id" \in DOMAIN R!Rest
  BY DEF StoreCall
<1> QED
  BY <1>1 DEF R!Rest

LEMMA CallsDiffer ==
  ASSUME StorageTypes, NEW t \in Caller
  PROVE  /\ t \in R!Busy <=> saving[t] \in StoreCall
         /\ t \notin R!Busy <=> saving[t] = R!Rest
BY RestIsNot DEF StorageTypes, R!Busy

LEMMA BeginSteps ==
  ASSUME StorageInv, NEW t \in Caller, NEW i \in R!Id, NEW todo \in Seq(Statements), Todo(todo),
         todo \notin {<<"unindex", "index", "commit">>, <<"index", "commit">>, <<"commit">>},
         table = R!Memory => todo # <<"delete", "commit">>,
         NEW doc \in R!Doc, Fixed(doc, i), R!Begin(t, i, todo, doc)
  PROVE  StorageInv'
<1> DEFINE new == [todo |-> todo, id |-> i, doc |-> doc, alone |-> {u \in R!Busy : saving[u].id = i} = {}]
<1> USE DEF StorageInv
<1>1. UNCHANGED <<table, now, stored>> /\ t \notin R!Busy /\ new \in StoreCall
  BY DEF R!Begin, R!Busy, StoreCall
<1>2. /\ saving'[t] = new
      /\ \A u \in Caller \ {t} :
           saving'[u] = IF u \in R!Busy /\ saving[u].id = i THEN [saving[u] EXCEPT !.alone = FALSE] ELSE saving[u]
  BY DEF R!Begin
<1>3. /\ \A u \in R!Busy : u # t /\ saving'[u] \in StoreCall /\ saving'[u].id = saving[u].id /\ saving'[u].doc = saving[u].doc
           /\ saving'[u].todo = saving[u].todo /\ (saving'[u].alone <=> saving[u].alone /\ saving[u].id # i)
      /\ \A u \in Caller \ {t} : u \notin R!Busy => saving'[u] = R!Rest
  <2>1. ASSUME NEW u \in R!Busy
        PROVE  /\ u # t /\ saving'[u] \in StoreCall /\ saving'[u].id = saving[u].id /\ saving'[u].doc = saving[u].doc
               /\ saving'[u].todo = saving[u].todo /\ (saving'[u].alone <=> saving[u].alone /\ saving[u].id # i)
    <3>1. u \in Caller /\ u # t
      BY <1>1 DEF R!Busy
    <3>2. PICK w \in StoreCall : w = saving[u]
      BY <2>1, <3>1, CallsDiffer
    <3>3. [w EXCEPT !.alone = FALSE] \in StoreCall
      BY DEF StoreCall
    <3>4. saving'[u] = IF w.id = i THEN [w EXCEPT !.alone = FALSE] ELSE w
      BY <1>2, <3>1, <3>2, <2>1
    <3> QED
      BY <3>1, <3>2, <3>3, <3>4 DEF StoreCall
  <2>2. ASSUME NEW u \in Caller \ {t}, u \notin R!Busy PROVE saving'[u] = R!Rest
    BY <1>2, <2>2, CallsDiffer
  <2> QED
    BY <2>1, <2>2
<1>4. StorageTypes' /\ R!Busy' = R!Busy \cup {t}
  <2>1. saving' \in [Caller -> {R!Rest} \cup StoreCall]
    BY <1>1, <1>2, <1>3 DEF R!Begin
  <2>2. StorageTypes'
    BY <2>1, <1>1 DEF StorageTypes, R!Begin, Store, StoredRow, StoreCall, R!T, R!Fields, R!Doc
  <2> QED
    BY <2>2, <1>1, <1>2, <1>3, CallsDiffer DEF R!Busy, StoreCall, R!Rest
<1>5. RowsInv(now)' /\ RowsInv(stored)'
  BY <1>1 DEF RowsInv, RowInv, Fixed, R!T, R!Fields
<1>6. \A u \in R!Busy' : u # t => u \in R!Busy
  BY <1>4
<1>7. CallsInv'
  <2>1. Todo(todo)' /\ Fixed(doc, i)'
    BY <1>1 DEF Todo, Fixed, R!T, R!Fields
  <2> QED
    BY <1>1, <1>2, <1>3, <1>6, <2>1 DEF CallsInv, Todo, Fixed, R!T, R!Fields
<1>8. ProgressInv'
  <2> SUFFICES ASSUME table = R!Memory, NEW u \in R!Busy', saving'[u].alone
               PROVE  Progress(saving[u])'
    BY <1>1 DEF ProgressInv
  <2>1. CASE u = t
    BY <2>1, <1>2 DEF Progress, Todo
  <2>2. CASE u # t
    BY <2>2, <1>1, <1>3, <1>6 DEF ProgressInv, Progress, Written, Settled
  <2> QED
    BY <2>1, <2>2
<1>9. SoleInv' /\ SpoiledInv'
  <2>1. spoiled' = IF {u \in R!Busy : saving[u].id = i} = {} THEN spoiled ELSE spoiled \cup {i}
    BY DEF R!Begin
  <2>2. /\ spoiled \subseteq spoiled' /\ ((\E u \in R!Busy : saving[u].id = i) => i \in spoiled')
        /\ saving'[t].id = i /\ (saving'[t].alone <=> \A u \in R!Busy : saving[u].id # i)
    <3> DEFINE others == {u \in R!Busy : saving[u].id = i}
    <3>1. saving'[t].id = i
      BY <1>2
    <3>2. saving'[t].alone = (others = {})
      BY <1>2
    <3>3. others = {} <=> \A u \in R!Busy : saving[u].id # i
      OBVIOUS
    <3>4. spoiled \subseteq spoiled' /\ ((\E u \in R!Busy : saving[u].id = i) => i \in spoiled')
      BY <2>1, <3>3
    <3> QED
      BY <3>1, <3>2, <3>3, <3>4, Zenon
  <2>3. SpoiledInv'
    BY <2>2, <1>3, <1>6 DEF SpoiledInv
  <2>4. SoleInv'
    <3> SUFFICES ASSUME NEW u \in R!Busy', NEW v \in R!Busy', saving'[u].id = saving'[v].id, u # v PROVE ~saving'[u].alone
      BY DEF SoleInv
    <3> QED
      BY <2>2, <1>3, <1>6 DEF SoleInv
  <2> QED
    BY <2>3, <2>4
<1>10. QuietInv'
  <2>1. \A j \in R!Id : R!Quiet(j)' => R!Quiet(j)
    <3> SUFFICES ASSUME NEW j \in R!Id, R!Quiet(j)' PROVE R!Quiet(j)
      OBVIOUS
    <3>1. j \notin spoiled
      BY DEF R!Quiet, R!Begin
    <3>2. \A u \in R!Busy : saving[u].id # j
      BY <1>3, <1>4 DEF R!Quiet
    <3> QED
      BY <3>1, <3>2 DEF R!Quiet
  <2> QED
    BY <2>1, <1>1 DEF QuietInv, Settled
<1> QED
  BY <1>4, <1>5, <1>7, <1>8, <1>9, <1>10

LEMMA NoneIsNot == ~R!None.there
BY DEF R!None

\* What a statement does to the row of its call, and that it leaves the other alone.
LEMMA EffectSteps ==
  ASSUME StorageTypes, RowsInv(now), NEW i \in R!Id, NEW doc \in R!Doc, Fixed(doc, i),
         NEW s \in Statements, now' = R!Effect(s, i, doc)
  PROVE  /\ now' \in Store
         /\ \A j \in R!Id \ {i} : now'.rows[j] = now.rows[j] /\ now'.index[j] = now.index[j]
         /\ s # "upsert" => now'.rows[i] = IF s = "delete" THEN R!None ELSE now.rows[i]
         /\ s = "upsert" => now'.rows[i].there /\ now'.rows[i].doc = doc
         /\ now'.index[i] = IF s = "unindex" THEN <<>> ELSE IF s = "index" THEN Append(now.index[i], doc) ELSE now.index[i]
         /\ RowInv(now'.rows[i], i)
<1> DEFINE row == now.rows[i]
<1>1. /\ now.rows \in [R!Id -> StoredRow] /\ now.index \in [R!Id -> Seq(R!Doc)] /\ row \in StoredRow /\ RowInv(row, i)
      /\ now = [rows |-> now.rows, index |-> now.index]
  BY DEF StorageTypes, Store, RowsInv
<1>2. R!None \in StoredRow /\ RowInv(R!None, i)
  BY DEF StoredRow, RowInv, R!None
<1>3. CASE s = "upsert"
  <2> DEFINE copied(f) == ~row.there \/ f \in R!T.updated
             made == [there |-> TRUE, doc |-> doc, copy |-> [f \in R!T.columns |-> IF copied(f) THEN doc[f] ELSE row.copy[f]]]
  <2>1. R!T.columns \subseteq R!Fields
    BY DEF R!Fields
  <2>2. made \in StoredRow /\ made.there /\ made.doc = doc
    <3>1. \A f \in R!T.columns : doc[f] \in 0..1
      BY <2>1 DEF R!Doc
    <3>2. row.there => row.copy \in [R!T.columns -> 0..1]
      BY <1>1, NoneIsNot DEF StoredRow
    <3>3. made.copy \in [R!T.columns -> 0..1]
      BY <3>1, <3>2
    <3> QED
      BY <3>3 DEF StoredRow
  <2>3. RowInv(made, i)
    <3> SUFFICES ASSUME NEW f \in R!T.by \cap R!T.columns PROVE made.copy[f] = made.doc[f]
      BY <2>2 DEF RowInv
    <3>1. CASE copied(f)
      BY <3>1
    <3>2. CASE ~copied(f)
      <4>1. f \in R!Fields \ R!T.changes
        BY <3>2, <2>1, TablesAgree DEF Agrees, StorageTypes
      <4>2. row.copy[f] = row.doc[f] /\ row.doc[f] = i /\ doc[f] = i
        BY <3>2, <4>1, <1>1 DEF RowInv, Fixed
      <4> QED
        BY <3>2, <4>2
    <3> QED
      BY <3>1, <3>2
  <2>4. R!Upsert(now.rows, i, doc) = [now.rows EXCEPT ![i] = made]
    BY DEF R!Upsert
  <2>5. now' = [rows |-> [now.rows EXCEPT ![i] = made], index |-> now.index]
    BY <1>3, <1>1, <2>4 DEF R!Effect
  <2> HIDE DEF made
  <2>6. /\ now'.rows = [now.rows EXCEPT ![i] = made] /\ now'.index = now.index
        /\ now'.rows \in [R!Id -> StoredRow] /\ now'.rows[i] = made
    BY <1>1, <2>2, <2>5
  <2>7. now' \in Store
    BY <1>1, <2>5, <2>6 DEF Store
  <2> QED
    BY <1>1, <1>3, <2>2, <2>3, <2>6, <2>7
<1>4. CASE s = "unindex"
  <2>1. now' = [rows |-> now.rows, index |-> [now.index EXCEPT ![i] = <<>>]]
    BY <1>4, <1>1 DEF R!Effect
  <2>2. <<>> \in Seq(R!Doc)
    OBVIOUS
  <2>3. /\ now'.rows = now.rows /\ now'.index = [now.index EXCEPT ![i] = <<>>]
        /\ now'.index \in [R!Id -> Seq(R!Doc)] /\ now'.index[i] = <<>>
    BY <1>1, <2>1, <2>2
  <2>4. now' \in Store
    BY <1>1, <2>1, <2>3 DEF Store
  <2> QED
    BY <1>1, <1>4, <2>3, <2>4
<1>5. CASE s = "index"
  <2>1. now' = [rows |-> now.rows, index |-> [now.index EXCEPT ![i] = Append(@, doc)]]
    BY <1>5, <1>1 DEF R!Effect
  <2>2. Append(now.index[i], doc) \in Seq(R!Doc)
    BY <1>1
  <2>3. /\ now'.rows = now.rows /\ now'.index = [now.index EXCEPT ![i] = Append(@, doc)]
        /\ now'.index \in [R!Id -> Seq(R!Doc)] /\ now'.index[i] = Append(now.index[i], doc)
    BY <1>1, <2>1, <2>2
  <2>4. now' \in Store
    BY <1>1, <2>1, <2>3 DEF Store
  <2> QED
    BY <1>1, <1>5, <2>3, <2>4
<1>6. CASE s = "delete"
  <2>1. now' = [rows |-> [now.rows EXCEPT ![i] = R!None], index |-> now.index]
    BY <1>6, <1>1 DEF R!Effect
  <2>2. /\ now'.rows = [now.rows EXCEPT ![i] = R!None] /\ now'.index = now.index
        /\ now'.rows \in [R!Id -> StoredRow] /\ now'.rows[i] = R!None
    BY <1>1, <1>2, <2>1
  <2>3. now' \in Store
    BY <1>1, <2>1, <2>2 DEF Store
  <2> QED
    BY <1>1, <1>2, <1>6, <2>2, <2>3
<1>7. CASE s = "commit"
  BY <1>1, <1>7 DEF R!Effect, Store
<1> QED
  BY <1>3, <1>4, <1>5, <1>6, <1>7 DEF Statements

\* What a call still has to run begins with a statement, and goes on as a call does.
LEMMA TodoSteps ==
  ASSUME NEW todo, Todo(todo)
  PROVE  /\ todo \in Seq(Statements) /\ Head(todo) \in Statements
         /\ Head(todo) = "commit" <=> todo = <<"commit">>
         /\ Head(todo) # "commit" => Todo(Tail(todo)) /\ Tail(todo) \in Seq(Statements)
         /\ table = R!Memory =>
              /\ Head(todo) = "upsert" => Tail(todo) = <<"unindex", "index", "commit">>
              /\ Head(todo) = "index" => todo = <<"index", "commit">> /\ Tail(todo) = <<"commit">>
              /\ Head(todo) = "delete" => todo = <<"delete", "commit">> /\ Tail(todo) = <<"commit">>
              /\ Head(todo) = "unindex" => \/ todo = <<"unindex", "index", "commit">> /\ Tail(todo) = <<"index", "commit">>
                                           \/ todo = <<"unindex", "delete", "commit">> /\ Tail(todo) = <<"delete", "commit">>
<1>1. CASE todo = <<"upsert", "commit">> /\ table # R!Memory
  BY <1>1 DEF Todo, Statements, R!Memory
<1>2. CASE todo = <<"delete", "commit">>
  BY <1>2 DEF Todo, Statements, R!Memory
<1>3. CASE todo = <<"commit">>
  BY <1>3 DEF Todo, Statements, R!Memory
<1>4. CASE todo = <<"upsert", "unindex", "index", "commit">> /\ table = R!Memory
  BY <1>4 DEF Todo, Statements, R!Memory
<1>5. CASE todo = <<"unindex", "index", "commit">> /\ table = R!Memory
  BY <1>5 DEF Todo, Statements, R!Memory
<1>6. CASE todo = <<"index", "commit">> /\ table = R!Memory
  BY <1>6 DEF Todo, Statements, R!Memory
<1>7. CASE todo = <<"unindex", "delete", "commit">> /\ table = R!Memory
  BY <1>7 DEF Todo, Statements, R!Memory
<1> QED
  BY <1>1, <1>2, <1>3, <1>4, <1>5, <1>6, <1>7 DEF Todo

LEMMA StatementSteps ==
  ASSUME StorageInv, NEW t \in Caller, R!Statement(t)
  PROVE  StorageInv'
<1> DEFINE w == saving[t]
           s == Head(w.todo)
           i == w.id
<1> USE DEF StorageInv
<1>1. t \in R!Busy /\ w \in StoreCall /\ i \in R!Id /\ Todo(w.todo) /\ Fixed(w.doc, i) /\ w.doc \in R!Doc
  BY CallsDiffer DEF R!Statement, CallsInv, StoreCall
<1>2. s \in Statements /\ (s = "commit" <=> w.todo = <<"commit">>)
  BY <1>1, TodoSteps
<1>3. /\ now' \in Store
      /\ \A j \in R!Id \ {i} : now'.rows[j] = now.rows[j] /\ now'.index[j] = now.index[j]
      /\ s # "upsert" => now'.rows[i] = IF s = "delete" THEN R!None ELSE now.rows[i]
      /\ s = "upsert" => now'.rows[i].there /\ now'.rows[i].doc = w.doc
      /\ now'.index[i] = IF s = "unindex" THEN <<>> ELSE IF s = "index" THEN Append(now.index[i], w.doc) ELSE now.index[i]
      /\ RowInv(now'.rows[i], i)
  <2>1. now' = R!Effect(s, i, w.doc)
    BY DEF R!Statement
  <2> HIDE DEF s, i, w
  <2> QED
    BY <2>1, <1>1, <1>2, EffectSteps
<1>4. /\ table' = table /\ stored' = IF s = "commit" THEN now ELSE stored
      /\ saving' = [saving EXCEPT ![t] = IF s = "commit" THEN R!Rest ELSE [w EXCEPT !.todo = Tail(@)]]
      /\ spoiled' = IF s = "commit" /\ w.alone THEN spoiled \ {i} ELSE spoiled
  BY DEF R!Statement
<1>5. s = "commit" => now' = now
  BY DEF R!Statement, R!Effect
<1>6. PICK me \in StoreCall : me = w
  BY <1>1
<1>7. \A u \in Caller \ {t} : saving'[u] = saving[u]
  BY <1>4
<1>8. /\ s = "commit" => saving'[t] = R!Rest
      /\ s # "commit" => /\ saving'[t] \in StoreCall /\ saving'[t].id = i /\ saving'[t].doc = w.doc
                         /\ saving'[t].alone = w.alone /\ saving'[t].todo = Tail(w.todo)
  <2>1. t \in Caller /\ saving \in [Caller -> {R!Rest} \cup StoreCall]
    BY DEF StorageTypes
  <2>2. s # "commit" => Tail(me.todo) \in Seq(Statements)
    BY <1>1, <1>2, <1>6, TodoSteps
  <2>3. s # "commit" => saving'[t] = [me EXCEPT !.todo = Tail(me.todo)]
    BY <1>4, <1>6, <2>1
  <2> QED
    BY <1>4, <1>6, <2>1, <2>2, <2>3 DEF StoreCall
<1>9. StorageTypes'
  <2>1. saving' \in [Caller -> {R!Rest} \cup StoreCall]
    BY <1>4, <1>8 DEF StorageTypes
  <2>2. stored' \in Store /\ spoiled' \subseteq R!Id
    BY <1>4 DEF StorageTypes
  <2> QED
    BY <1>3, <1>4, <2>1, <2>2 DEF StorageTypes, Store, StoredRow, StoreCall, R!T, R!Fields, R!Doc
<1>10. /\ \A u \in R!Busy' : u \in R!Busy /\ saving'[u].id = saving[u].id /\ saving'[u].doc = saving[u].doc
                            /\ saving'[u].alone = saving[u].alone /\ (u # t => saving'[u] = saving[u])
       /\ t \in R!Busy' <=> s # "commit"
       /\ \A u \in R!Busy : u # t => u \in R!Busy'
  <2>1. R!Busy \subseteq Caller /\ R!Busy' \subseteq Caller
    BY DEF R!Busy
  <2>2. t \in R!Busy' <=> s # "commit"
    BY <1>8, RestIsNot DEF R!Busy
  <2>3. \A u \in Caller \ {t} : u \in R!Busy' <=> u \in R!Busy
    BY <1>7 DEF R!Busy
  <2> QED
    BY <1>1, <1>7, <1>8, <2>1, <2>2, <2>3
<1>11. RowsInv(now)' /\ RowsInv(stored)'
  <2>1. \A j \in R!Id : RowInv(now'.rows[j], j)
    BY <1>3 DEF RowsInv
  <2>2. \A j \in R!Id : RowInv(stored'.rows[j], j)
    BY <1>4 DEF RowsInv
  <2> QED
    BY <1>4, <2>1, <2>2 DEF RowsInv, RowInv, Fixed, R!T, R!Fields
<1>12. CallsInv'
  <2> SUFFICES ASSUME NEW u \in R!Busy' PROVE (Todo(saving[u].todo) /\ Fixed(saving[u].doc, saving[u].id))'
    BY DEF CallsInv
  <2>1. Fixed(saving[u].doc, saving[u].id)'
    BY <1>4, <1>10 DEF CallsInv, Fixed, R!T, R!Fields
  <2>2. Todo(saving'[u].todo)
    <3>1. CASE u = t
      BY <3>1, <1>1, <1>2, <1>8, <1>10, TodoSteps
    <3>2. CASE u # t
      BY <3>2, <1>10 DEF CallsInv
    <3> QED
      BY <3>1, <3>2
  <2> QED
    BY <1>4, <2>1, <2>2 DEF Todo
<1>13. SoleInv' /\ SpoiledInv'
  <2>1. SoleInv'
    BY <1>10 DEF SoleInv
  <2>2. SpoiledInv'
    <3> SUFFICES ASSUME NEW u \in R!Busy', ~saving'[u].alone PROVE saving'[u].id \in spoiled'
      BY DEF SpoiledInv
    <3>1. u \in R!Busy /\ ~saving[u].alone /\ saving[u].id \in spoiled
      BY <1>10 DEF SpoiledInv
    <3>2. CASE s = "commit" /\ w.alone
      <4>1. u # t /\ saving[u].id # i
        BY <3>1, <3>2, <1>1, <1>10 DEF SoleInv
      <4> QED
        BY <3>1, <4>1, <1>4, <1>10
    <3>3. CASE ~(s = "commit" /\ w.alone)
      BY <3>1, <3>3, <1>4, <1>10
    <3> QED
      BY <3>2, <3>3
  <2> QED
    BY <2>1, <2>2
<1>14. ASSUME table = R!Memory PROVE ProgressInv'
  <2> SUFFICES ASSUME NEW u \in R!Busy', saving'[u].alone PROVE Progress(saving[u])'
    BY DEF ProgressInv
  <2>1. CASE u # t
    <3>1. u \in R!Busy /\ saving'[u] = saving[u] /\ saving[u].alone /\ Progress(saving[u])
      BY <2>1, <1>10, <1>14 DEF ProgressInv
    <3>2. saving[u].id # i /\ saving[u].id \in R!Id
      BY <3>1, <2>1, <1>1, CallsDiffer DEF SoleInv, StoreCall, R!Busy
    <3>3. now'.rows[saving[u].id] = now.rows[saving[u].id] /\ now'.index[saving[u].id] = now.index[saving[u].id]
      BY <3>2, <1>3
    <3> QED
      BY <3>1, <3>3 DEF Progress, Written, Settled
  <2>2. CASE u = t
    <3>1. s # "commit" /\ w.alone /\ Progress(w)
      BY <2>2, <1>1, <1>10, <1>14 DEF ProgressInv
    <3> DEFINE n == saving'[t]
    <3>2. n.id = i /\ n.doc = w.doc /\ n.todo = Tail(w.todo)
      BY <3>1, <1>8
    <3>3. CASE s = "upsert"
      <4>1. n.todo = <<"unindex", "index", "commit">>
        BY <3>2, <3>3, <1>1, <1>14, TodoSteps
      <4>2. Written(saving[t])'
        BY <3>2, <3>3, <1>3 DEF Written
      <4> QED
        BY <4>1, <4>2, <2>2 DEF Progress
    <3>4. CASE s = "unindex"
      <4>1. now'.index[i] = <<>> /\ now'.rows[i] = now.rows[i]
        BY <3>4, <1>3
      <4>2. CASE w.todo = <<"unindex", "index", "commit">> /\ n.todo = <<"index", "commit">>
        <5>1. Written(saving[t])'
          BY <4>1, <4>2, <3>1, <3>2 DEF Progress, Written
        <5> QED
          BY <4>1, <4>2, <5>1, <2>2, <3>2 DEF Progress
      <4>3. CASE n.todo = <<"delete", "commit">>
        BY <4>1, <4>3, <2>2, <3>2 DEF Progress
      <4> QED
        BY <3>2, <3>4, <4>2, <4>3, <1>1, <1>14, TodoSteps
    <3>5. CASE s = "index"
      <4>1. w.todo = <<"index", "commit">> /\ n.todo = <<"commit">>
        BY <3>2, <3>5, <1>1, <1>14, TodoSteps
      <4>2. now'.index[i] = Append(<<>>, w.doc) /\ now'.rows[i].there /\ now'.rows[i].doc = w.doc
        BY <4>1, <3>1, <3>5, <1>3 DEF Progress, Written
      <4>3. Append(<<>>, w.doc) = <<w.doc>>
        OBVIOUS
      <4>4. Settled(now, i)'
        BY <4>2, <4>3, <1>4, <3>1 DEF Settled
      <4> QED
        BY <4>1, <4>2, <4>3, <2>2, <3>2 DEF Progress, Settled
    <3>6. CASE s = "delete"
      <4>1. w.todo = <<"delete", "commit">> /\ n.todo = <<"commit">>
        BY <3>2, <3>6, <1>1, <1>14, TodoSteps
      <4>2. now'.index[i] = <<>> /\ ~now'.rows[i].there
        BY <4>1, <3>1, <3>6, <1>3, NoneIsNot DEF Progress
      <4> QED
        BY <4>1, <4>2, <2>2, <3>2 DEF Progress, Settled
    <3> QED
      BY <3>1, <3>3, <3>4, <3>5, <3>6, <1>2 DEF Statements
  <2> QED
    BY <2>1, <2>2
<1>15. QuietInv'
  <2> SUFFICES ASSUME table = R!Memory, NEW j \in R!Id, R!Quiet(j)'
               PROVE  Settled(now', j) /\ stored'.rows[j] = now'.rows[j] /\ stored'.index[j] = now'.index[j]
    BY <1>4 DEF QuietInv, Settled
  <2>1. CASE j = i
    <3>1. s = "commit"
      BY <2>1, <1>1, <1>8, <1>10 DEF R!Quiet
    <3>2. i \notin spoiled'
      BY <2>1 DEF R!Quiet
    <3>3. w.alone
      BY <3>2, <1>1, <1>4 DEF SpoiledInv
    <3>4. Settled(now, i)
      BY <3>1, <3>3, <1>1, <1>2 DEF ProgressInv, Progress
    <3> QED
      BY <2>1, <3>1, <3>4, <1>4, <1>5
  <2>2. CASE j # i
    <3>1. R!Quiet(j)
      BY <2>2, <1>4, <1>10 DEF R!Quiet
    <3>2. Settled(now, j) /\ stored.rows[j] = now.rows[j] /\ stored.index[j] = now.index[j]
      BY <3>1 DEF QuietInv
    <3>3. now'.rows[j] = now.rows[j] /\ now'.index[j] = now.index[j]
      BY <2>2, <1>3
    <3>4. Settled(now', j)
      BY <3>2, <3>3 DEF Settled
    <3> QED
      BY <3>2, <3>3, <3>4, <1>4
  <2> QED
    BY <2>1, <2>2
<1> QED
  BY <1>4, <1>9, <1>11, <1>12, <1>13, <1>14, <1>15 DEF ProgressInv

LEMMA RaiseSteps ==
  ASSUME StorageInv, NEW t \in Caller, R!Raise(t)
  PROVE  StorageInv'
<1> USE DEF StorageInv
<1>1. /\ t \in R!Busy /\ saving' = [saving EXCEPT ![t] = R!Rest] /\ spoiled' = spoiled \cup {saving[t].id}
      /\ UNCHANGED <<table, now, stored>>
  BY DEF R!Raise
<1>2. saving[t].id \in R!Id
  BY <1>1, CallsDiffer DEF StoreCall
<1>3. saving'[t] = R!Rest /\ \A u \in Caller \ {t} : saving'[u] = saving[u]
  BY <1>1 DEF StorageTypes
<1>4. R!Busy' = R!Busy \ {t} /\ \A u \in R!Busy' : u # t /\ saving'[u] = saving[u]
  BY <1>3 DEF R!Busy
<1>5. StorageTypes'
  BY <1>1, <1>2 DEF StorageTypes, Store, StoredRow, StoreCall, R!T, R!Fields, R!Doc
<1>6. RowsInv(now)' /\ RowsInv(stored)'
  BY <1>1 DEF RowsInv, RowInv, Fixed, R!T, R!Fields
<1>7. CallsInv'
  BY <1>1, <1>4 DEF CallsInv, Todo, Fixed, R!T, R!Fields
<1>8. ProgressInv' /\ SoleInv' /\ SpoiledInv'
  <2>1. \A u \in R!Busy' : u \in R!Busy /\ saving'[u] = saving[u]
    BY <1>4
  <2>2. \A w : Progress(w)' <=> Progress(w)
    BY <1>1 DEF Progress, Written, Settled
  <2>3. ProgressInv'
    BY <1>1, <2>1, <2>2 DEF ProgressInv
  <2>4. SoleInv'
    BY <2>1 DEF SoleInv
  <2>5. SpoiledInv'
    BY <1>1, <2>1 DEF SpoiledInv
  <2> QED
    BY <2>3, <2>4, <2>5
<1>9. QuietInv'
  <2>1. \A j \in R!Id : R!Quiet(j)' => R!Quiet(j)
    BY <1>1, <1>4 DEF R!Quiet
  <2> QED
    BY <2>1, <1>1 DEF QuietInv, Settled
<1> QED
  BY <1>5, <1>6, <1>7, <1>8, <1>9

LEMMA CrashSteps ==
  ASSUME StorageInv, R!Crash
  PROVE  StorageInv'
<1> USE DEF StorageInv
<1>1. /\ now' = stored /\ saving' = [t \in Caller |-> R!Rest] /\ spoiled' = spoiled \cup {saving[t].id : t \in R!Busy}
      /\ UNCHANGED <<table, stored>>
  BY DEF R!Crash
<1>2. R!Busy' = {} /\ \A t \in R!Busy : saving[t].id \in R!Id
  BY <1>1, CallsDiffer DEF StoreCall, R!Busy
<1>3. StorageTypes'
  <2>1. spoiled' \subseteq R!Id
    BY <1>1, <1>2 DEF StorageTypes
  <2> QED
    BY <1>1, <2>1 DEF StorageTypes, Store, StoredRow, StoreCall, R!T, R!Fields, R!Doc
<1>4. RowsInv(now)' /\ RowsInv(stored)'
  BY <1>1 DEF RowsInv, RowInv, Fixed, R!T, R!Fields
<1>5. CallsInv' /\ ProgressInv' /\ SoleInv' /\ SpoiledInv'
  BY <1>2 DEF CallsInv, ProgressInv, SoleInv, SpoiledInv
<1>6. QuietInv'
  <2> SUFFICES ASSUME table = R!Memory, NEW j \in R!Id, R!Quiet(j)' PROVE Settled(stored, j)
    BY <1>1 DEF QuietInv, Settled
  <2>1. R!Quiet(j)
    BY <1>1 DEF R!Quiet
  <2> QED
    BY <2>1 DEF QuietInv, Settled
<1> QED
  BY <1>3, <1>4, <1>5, <1>6

LEMMA StorageSteps == ASSUME StorageInv, [R!Next]_R!vars PROVE StorageInv'
<1>1. ASSUME NEW t \in Caller, NEW i \in R!Id, R!Save(t, i) PROVE StorageInv'
  <2>1. PICK v \in 0..1 : R!Begin(t, i, R!SaveOf, [f \in R!Fields |-> IF f \in R!T.changes THEN v ELSE i])
    BY <1>1 DEF R!Save
  <2> DEFINE doc == [f \in R!Fields |-> IF f \in R!T.changes THEN v ELSE i]
  <2>2. doc \in R!Doc /\ Fixed(doc, i)
    BY DEF R!Doc, R!Id, Fixed
  <2>3. /\ Todo(R!SaveOf) /\ R!SaveOf \in Seq(Statements)
        /\ R!SaveOf \notin {<<"unindex", "index", "commit">>, <<"index", "commit">>, <<"commit">>, <<"delete", "commit">>}
    <3>1. CASE table = R!Memory
      BY <3>1 DEF R!SaveOf, Todo, Statements
    <3>2. CASE table # R!Memory
      BY <3>2 DEF R!SaveOf, Todo, Statements
    <3> QED
      BY <3>1, <3>2
  <2> HIDE DEF doc
  <2> QED
    BY <2>1, <2>2, <2>3, BeginSteps DEF doc
<1>2. ASSUME NEW t \in Caller, NEW i \in R!Id, R!Delete(t, i) PROVE StorageInv'
  <2>1. i \in R!There /\ R!Begin(t, i, R!DeleteOf, now.rows[i].doc)
    BY <1>2 DEF R!Delete
  <2>2. now.rows[i] \in StoredRow /\ now.rows[i].there /\ RowInv(now.rows[i], i)
    BY <2>1 DEF R!There, StorageInv, StorageTypes, Store, RowsInv
  <2>3. now.rows[i].doc \in R!Doc /\ Fixed(now.rows[i].doc, i)
    BY <2>2, NoneIsNot DEF StoredRow, RowInv
  <2>4. /\ Todo(R!DeleteOf) /\ R!DeleteOf \in Seq(Statements)
        /\ R!DeleteOf \notin {<<"unindex", "index", "commit">>, <<"index", "commit">>, <<"commit">>}
        /\ table = R!Memory => R!DeleteOf # <<"delete", "commit">>
    <3>1. CASE table = R!Memory
      BY <3>1 DEF R!DeleteOf, Todo, Statements
    <3>2. CASE table # R!Memory
      BY <3>2 DEF R!DeleteOf, Todo, Statements
    <3> QED
      BY <3>1, <3>2
  <2> QED
    BY <2>1, <2>3, <2>4, BeginSteps
<1>3. CASE UNCHANGED R!vars
  <2>1. UNCHANGED <<table, now, stored, saving, spoiled>>
    BY <1>3 DEF R!vars
  <2>2. StorageTypes'
    BY <2>1 DEF StorageInv, StorageTypes, Store, StoredRow, StoreCall, R!T, R!Fields, R!Doc
  <2>3. RowsInv(now)' /\ RowsInv(stored)'
    BY <2>1 DEF StorageInv, RowsInv, RowInv, Fixed, R!T, R!Fields
  <2>4. CallsInv' /\ ProgressInv'
    BY <2>1 DEF StorageInv, CallsInv, Todo, Fixed, R!T, R!Fields, R!Busy, ProgressInv, Progress, Written, Settled
  <2>5. SoleInv' /\ SpoiledInv' /\ QuietInv'
    BY <2>1 DEF StorageInv, R!Busy, SoleInv, SpoiledInv, QuietInv, R!Quiet, Settled
  <2> QED
    BY <2>2, <2>3, <2>4, <2>5 DEF StorageInv
<1> QED
  BY <1>1, <1>2, <1>3, StatementSteps, RaiseSteps, CrashSteps DEF R!Next

LEMMA StorageInvariant == R!Spec => []StorageInv
BY StorageInit, StorageSteps, PTL DEF R!Spec

LEMMA StorageHolds == ASSUME StorageInv PROVE R!TypeOK /\ R!ListsAreTrue /\ R!SearchFindsOnce
<1> USE DEF StorageInv
<1>1. \A i \in R!Id : now.rows[i] \in StoredRow /\ (now.rows[i].there => now.rows[i].doc \in R!Doc) /\ now.index[i] \in Seq(R!Doc)
  BY NoneIsNot DEF StorageTypes, Store, StoredRow
<1>2. \A i \in R!Id : (stored.rows[i].there => stored.rows[i].doc \in R!Doc) /\ stored.index[i] \in Seq(R!Doc)
  BY NoneIsNot DEF StorageTypes, Store, StoredRow
<1>3. R!TypeOK
  <2>1. \A t \in R!Busy : saving[t].id \in R!Id /\ saving[t].alone \in BOOLEAN
    BY CallsDiffer DEF R!Busy, StoreCall
  <2> QED
    BY <1>1, <1>2, <2>1 DEF R!TypeOK, StorageTypes
<1>4. R!ListsAreTrue
  BY DEF R!ListsAreTrue, R!listed, R!There, RowsInv, RowInv
<1>5. R!SearchFindsOnce
  <2> SUFFICES ASSUME table = R!Memory, NEW i \in R!Id, R!Quiet(i)
               PROVE  /\ R!hits(i, TRUE) = IF i \in R!There THEN 1 ELSE 0
                      /\ R!hits(i, FALSE) = IF i \in R!There /\ now.rows[i].doc["archived"] = 0 THEN 1 ELSE 0
                      /\ i \in R!There => now.index[i] = <<now.rows[i].doc>>
                      /\ i \notin R!There => now.index[i] = <<>>
    BY DEF R!SearchFindsOnce
  <2>1. now.index[i] = IF i \in R!There THEN <<now.rows[i].doc>> ELSE <<>>
    BY DEF QuietInv, Settled, R!There
  <2>2. Len(<<now.rows[i].doc>>) = 1
    OBVIOUS
  <2> QED
    BY <2>1, <2>2 DEF R!hits
<1> QED
  BY <1>3, <1>4, <1>5

-----------------------------------------------------------------------------
\* memory/service.py, storage/repositories.py: whoever calls and whatever fails
\* or dies between two statements, of what a consolidation merged one record
\* lives or was dealt with by hand unless two consolidations overlapped, and
\* what was forgotten while nobody held it is nowhere; and in every repository
\* what is listed by a field is what has it in its document, and a search of
\* memory finds each record once, with its present text, but those that two
\* threads were at or that one left half done.
THEOREM RecordsKept == M!Spec /\ R!Spec => []RecordsAreKept
<1>1. MemoryInv /\ StorageInv => RecordsAreKept
  BY MemoryHolds, StorageHolds DEF RecordsAreKept
<1> QED
  BY MemoryInvariant, StorageInvariant, <1>1, PTL

-----------------------------------------------------------------------------
(* Totals *)

\* Of what is not so at 0, and so at k when it is at k - 1, there is none.
LEMMA NoneBad ==
  ASSUME NEW n \in Nat, NEW bad, bad \subseteq 0..n, 0 \notin bad,
         \A k \in 1..n : k - 1 \notin bad => k \notin bad
  PROVE  bad = {}
<1> SUFFICES ASSUME bad # {} PROVE FALSE
  OBVIOUS
<1>1. bad \subseteq Nat
  OBVIOUS
<1>2. PICK k \in bad : \A j \in bad : k <= j
  BY <1>1, LeastNumber
<1>3. k \in 1..n
  OBVIOUS
<1>4. k - 1 \notin bad
  BY <1>2, <1>3
<1> QED
  BY <1>3, <1>4

\* How far a total is after each of its numbers.
Sums(s, f) == /\ s \in [0..Len(f) -> Nat] /\ s[0] = 0
              /\ \A k \in 1..Len(f) : s[k] = s[k - 1] + f[k]

LEMMA TotalIs == ASSUME NEW f \in Seq(Nat) PROVE \E s : Sums(s, f) /\ G!Total(f) = s[Len(f)]
<1> DEFINE To(n, s) == s = [k \in 0..n |-> IF k = 0 THEN 0 ELSE s[k - 1] + f[k]]
           Good(n) == \E s : To(n, s) /\ \A k \in 0..n : s[k] \in Nat
           bad == {n \in 0..Len(f) : ~Good(n)}
<1>0. Len(f) \in Nat /\ \A k \in 1..Len(f) : f[k] \in Nat
  OBVIOUS
<1>1. Good(0)
  <2> DEFINE s == [k \in 0..0 |-> 0]
  <2>1. To(0, s) /\ \A k \in 0..0 : s[k] \in Nat
    OBVIOUS
  <2> QED
    BY <2>1
<1>2. ASSUME NEW n \in 1..Len(f), Good(n - 1) PROVE Good(n)
  <2>0. n \in Nat /\ n # 0
    BY <1>0
  <2>1. PICK g : To(n - 1, g) /\ \A k \in 0..n - 1 : g[k] \in Nat
    BY <1>2
  <2> DEFINE s == [k \in 0..n |-> IF k = n THEN g[n - 1] + f[n] ELSE g[k]]
  <2>2. ASSUME NEW k \in 0..n PROVE s[k] = (IF k = 0 THEN 0 ELSE s[k - 1] + f[k]) /\ s[k] \in Nat
    <3>1. CASE k = n
      <4>1. s[n - 1] = g[n - 1] /\ g[n - 1] \in Nat /\ f[n] \in Nat
        BY <1>0, <2>0, <2>1
      <4> QED
        BY <2>0, <3>1, <4>1
    <3>2. CASE k # n
      <4>1. k \in 0..n - 1 /\ (k # 0 => k - 1 \in 0..n - 1 /\ k - 1 \in 0..n /\ k - 1 # n)
        BY <2>0, <3>2
      <4>2. g[k] = IF k = 0 THEN 0 ELSE g[k - 1] + f[k]
        BY <2>1, <4>1
      <4>3. s[k] = g[k] /\ (k # 0 => s[k - 1] = g[k - 1])
        BY <3>2, <4>1
      <4> QED
        BY <2>1, <4>1, <4>2, <4>3
    <3> QED
      BY <3>1, <3>2
  <2>3. s = [k \in 0..n |-> s[k]]
    OBVIOUS
  <2> HIDE DEF s
  <2>4. To(n, s)
    BY <2>2, <2>3
  <2> QED
    BY <2>2, <2>4
<1> HIDE DEF Good
<1>3. bad = {}
  <2>1. bad \subseteq 0..Len(f) /\ 0 \notin bad
    BY <1>1
  <2>2. \A k \in 1..Len(f) : k - 1 \notin bad => k \notin bad
    BY <1>0, <1>2
  <2> HIDE DEF bad
  <2> QED
    BY <1>0, <2>1, <2>2, NoneBad
<1>4. Good(Len(f))
  BY <1>0, <1>3
<1> DEFINE total == CHOOSE s : To(Len(f), s)
<1>5. To(Len(f), total) /\ \A k \in 0..Len(f) : total[k] \in Nat
  <2>1. PICK g : To(Len(f), g) /\ \A k \in 0..Len(f) : g[k] \in Nat
    BY <1>4 DEF Good
  <2>2. To(Len(f), total)
    BY <2>1
  <2> DEFINE apart == {k \in 0..Len(f) : total[k] # g[k]}
  <2> HIDE DEF total
  <2>3. total[0] = 0 /\ g[0] = 0
    BY <1>0, <2>1, <2>2
  <2>4. \A k \in 1..Len(f) : /\ k - 1 \in 0..Len(f) /\ k \in 0..Len(f) /\ k # 0
                            /\ total[k] = total[k - 1] + f[k] /\ g[k] = g[k - 1] + f[k]
    <3>1. \A k \in 0..Len(f) : total[k] = IF k = 0 THEN 0 ELSE total[k - 1] + f[k]
      BY <2>2
    <3>2. \A k \in 0..Len(f) : g[k] = IF k = 0 THEN 0 ELSE g[k - 1] + f[k]
      BY <2>1
    <3>3. \A k \in 1..Len(f) : k - 1 \in 0..Len(f) /\ k \in 0..Len(f) /\ k # 0
      BY <1>0
    <3> QED
      BY <3>1, <3>2, <3>3
  <2>5. apart = {}
    <3>1. apart \subseteq 0..Len(f) /\ 0 \notin apart
      BY <2>3
    <3>2. \A k \in 1..Len(f) : k - 1 \notin apart => k \notin apart
      BY <2>4
    <3> HIDE DEF apart
    <3> QED
      BY <1>0, <3>1, <3>2, NoneBad
  <2> QED
    BY <2>1, <2>2, <2>5
<1>6. Sums(total, f)
  <2> HIDE DEF total
  <2>1. total[0] = 0 /\ \A k \in 1..Len(f) : total[k] = total[k - 1] + f[k]
    <3>1. \A k \in 0..Len(f) : total[k] = IF k = 0 THEN 0 ELSE total[k - 1] + f[k]
      BY <1>5
    <3>2. 0 \in 0..Len(f) /\ \A k \in 1..Len(f) : k \in 0..Len(f) /\ k # 0
      BY <1>0
    <3> QED
      BY <3>1, <3>2
  <2>2. total \in [0..Len(f) -> Nat]
    BY <1>5
  <2> QED
    BY <2>1, <2>2 DEF Sums
<1>7. G!Total(f) = total[Len(f)]
  BY DEF G!Total
<1> QED
  BY <1>6, <1>7

LEMMA SumsAt ==
  ASSUME NEW f \in Seq(Nat), NEW s, Sums(s, f)
  PROVE  /\ Len(f) \in Nat /\ s[0] = 0 /\ s[Len(f)] \in Nat /\ 0 \in 0..Len(f) /\ Len(f) \in 0..Len(f)
         /\ \A k \in 1..Len(f) : /\ k - 1 \in 0..Len(f) /\ k \in 0..Len(f) /\ k \in Nat
                                 /\ s[k - 1] \in Nat /\ s[k] \in Nat /\ f[k] \in Nat /\ s[k] = s[k - 1] + f[k]
<1>1. Len(f) \in Nat
  OBVIOUS
<1>2. \A k \in 0..Len(f) : s[k] \in Nat
  BY DEF Sums
<1>3. \A k \in 1..Len(f) : f[k] \in Nat
  OBVIOUS
<1>4. \A k \in 1..Len(f) : k - 1 \in 0..Len(f) /\ k \in 0..Len(f) /\ k \in Nat
  BY <1>1
<1> QED
  BY <1>1, <1>2, <1>3, <1>4 DEF Sums

LEMMA SumOfSums ==
  ASSUME NEW a \in Nat, NEW b \in Nat, NEW c \in Nat, NEW d \in Nat
  PROVE  (a + b) + (c + d) = (a + c) + (b + d) /\ (a + b) + c = (a + c) + b
OBVIOUS

LEMMA SumsKeepOrder ==
  ASSUME NEW a \in Nat, NEW x \in Nat, NEW b \in Int, NEW c \in Nat, a <= b, x <= c
  PROVE  a + x <= b + c
OBVIOUS

LEMMA OneMoreTime ==
  ASSUME NEW n \in Nat, NEW k \in Nat
  PROVE  n * (k - 1) \in Int /\ n * (k - 1) + n = n * k
<1>1. n * (k - 1) = n * k - n
  OBVIOUS
<1> DEFINE before == n * (k - 1) after == n * k
<1>2. before = after - n /\ after \in Int
  BY <1>1
<1> HIDE DEF before, after
<1>3. before \in Int /\ before + n = after
  BY <1>2
<1> QED
  BY <1>3 DEF before, after

\* Totals of numbers that are as great, of sums, of numbers that are bounded, and
\* when one of them changes.
LEMMA TotalsCompare ==
  ASSUME NEW f \in Seq(Nat), NEW g \in Seq(Nat), Len(f) = Len(g), \A k \in 1..Len(f) : f[k] <= g[k]
  PROVE  G!Total(f) \in Nat /\ G!Total(g) \in Nat /\ G!Total(f) <= G!Total(g)
<1>0. Len(f) \in Nat
  OBVIOUS
<1>1. PICK s : Sums(s, f) /\ G!Total(f) = s[Len(f)]
  BY TotalIs
<1>2. PICK t : Sums(t, g) /\ G!Total(g) = t[Len(f)]
  BY TotalIs
<1> DEFINE bad == {k \in 0..Len(f) : ~(s[k] <= t[k])}
<1>3. bad \subseteq 0..Len(f) /\ 0 \notin bad
  BY <1>1, <1>2, SumsAt
<1>4. ASSUME NEW k \in 1..Len(f), k - 1 \notin bad PROVE k \notin bad
  <2>1. s[k] = s[k - 1] + f[k] /\ s[k - 1] \in Nat /\ f[k] \in Nat /\ k - 1 \in 0..Len(f)
    BY <1>1, SumsAt
  <2>2. t[k] = t[k - 1] + g[k] /\ t[k - 1] \in Nat /\ g[k] \in Nat
    BY <1>2, SumsAt
  <2>3. s[k - 1] <= t[k - 1] /\ f[k] <= g[k]
    BY <1>4, <2>1
  <2>4. s[k] <= t[k]
    BY <2>1, <2>2, <2>3
  <2> QED
    BY <2>4
<1>5. bad = {}
  <2> HIDE DEF bad
  <2> QED
    BY <1>0, <1>3, <1>4, NoneBad
<1> QED
  BY <1>1, <1>2, <1>5, SumsAt

LEMMA TotalsAdd ==
  ASSUME NEW f \in Seq(Nat), NEW g \in Seq(Nat), NEW h \in Seq(Nat), Len(f) = Len(g), Len(f) = Len(h),
         \A k \in 1..Len(f) : h[k] = f[k] + g[k]
  PROVE  G!Total(f) \in Nat /\ G!Total(g) \in Nat /\ G!Total(h) = G!Total(f) + G!Total(g)
<1>0. Len(f) \in Nat
  OBVIOUS
<1>1. PICK s : Sums(s, f) /\ G!Total(f) = s[Len(f)]
  BY TotalIs
<1>2. PICK t : Sums(t, g) /\ G!Total(g) = t[Len(f)]
  BY TotalIs
<1>3. PICK u : Sums(u, h) /\ G!Total(h) = u[Len(f)]
  BY TotalIs
<1> DEFINE bad == {k \in 0..Len(f) : u[k] # s[k] + t[k]}
<1>4. bad \subseteq 0..Len(f) /\ 0 \notin bad
  BY <1>1, <1>2, <1>3, SumsAt
<1>5. ASSUME NEW k \in 1..Len(f), k - 1 \notin bad PROVE k \notin bad
  <2>1. s[k] = s[k - 1] + f[k] /\ s[k - 1] \in Nat /\ f[k] \in Nat /\ k - 1 \in 0..Len(f)
    BY <1>1, SumsAt
  <2>2. t[k] = t[k - 1] + g[k] /\ t[k - 1] \in Nat /\ g[k] \in Nat
    <3>1. k \in 1..Len(g)
      OBVIOUS
    <3> QED
      BY <1>2, <3>1, SumsAt
  <2>3. u[k] = u[k - 1] + h[k] /\ u[k - 1] \in Nat /\ h[k] \in Nat
    <3>1. k \in 1..Len(h)
      OBVIOUS
    <3> QED
      BY <1>3, <3>1, SumsAt
  <2>4. u[k - 1] = s[k - 1] + t[k - 1] /\ h[k] = f[k] + g[k]
    BY <1>5, <2>1
  <2> HIDE DEF bad
  <2>5. u[k] = s[k] + t[k]
    <3> DEFINE a == s[k - 1] b == t[k - 1] x == f[k] y == g[k]
    <3>1. /\ a \in Nat /\ b \in Nat /\ x \in Nat /\ y \in Nat
          /\ s[k] = a + x /\ t[k] = b + y
      BY <2>1, <2>2
    <3>2. u[k] = (a + b) + (x + y)
      BY <2>3, <2>4
    <3> HIDE DEF a, b, x, y
    <3>3. (a + b) + (x + y) = (a + x) + (b + y)
      <4>1. a \in Nat /\ b \in Nat /\ x \in Nat /\ y \in Nat
        BY <3>1
      <4> QED
        BY <4>1, SumOfSums
    <3> QED
      BY <3>1, <3>2, <3>3
  <2> USE DEF bad
  <2> QED
    BY <2>5
<1>6. bad = {}
  <2> HIDE DEF bad
  <2> QED
    BY <1>0, <1>4, <1>5, NoneBad
<1>7. s[Len(f)] \in Nat /\ t[Len(g)] \in Nat /\ Len(f) \in 0..Len(f)
  BY <1>1, <1>2, SumsAt
<1>8. u[Len(f)] = s[Len(f)] + t[Len(f)]
  BY <1>6, <1>7
<1> QED
  BY <1>1, <1>2, <1>3, <1>7, <1>8

LEMMA TotalBounded ==
  ASSUME NEW f \in Seq(Nat), NEW most \in Nat, \A k \in 1..Len(f) : f[k] <= most
  PROVE  G!Total(f) \in Nat /\ G!Total(f) <= most * Len(f)
<1>0. Len(f) \in Nat
  OBVIOUS
<1>1. PICK s : Sums(s, f) /\ G!Total(f) = s[Len(f)]
  BY TotalIs
<1>2. s[0] <= most * 0
  <2>1. s[0] = 0
    BY <1>1, SumsAt
  <2>2. most * 0 = 0
    OBVIOUS
  <2> QED
    BY <2>1, <2>2
<1> DEFINE bad == {k \in 0..Len(f) : ~(s[k] <= most * k)}
<1>3. bad \subseteq 0..Len(f) /\ 0 \notin bad
  BY <1>2
<1>4. ASSUME NEW k \in 1..Len(f), k - 1 \notin bad PROVE k \notin bad
  <2>1. s[k] = s[k - 1] + f[k] /\ s[k - 1] \in Nat /\ f[k] \in Nat /\ k - 1 \in 0..Len(f) /\ k \in Nat
    BY <1>1, SumsAt
  <2>2. s[k - 1] <= most * (k - 1) /\ f[k] <= most
    BY <1>4, <2>1
  <2> HIDE DEF bad
  <2>3. most * (k - 1) \in Int /\ most * (k - 1) + most = most * k
    BY <2>1, OneMoreTime
  <2>4. s[k] <= most * k
    <3> DEFINE a == s[k - 1] x == f[k] b == most * (k - 1) c == most * k
    <3>1. a \in Nat /\ x \in Nat /\ b \in Int /\ s[k] = a + x /\ a <= b /\ x <= most /\ c = b + most
      BY <2>1, <2>2, <2>3
    <3> HIDE DEF a, x, b, c
    <3>2. a + x <= b + most
      BY <3>1, SumsKeepOrder
    <3>3. s[k] <= c
      BY <3>1, <3>2
    <3> QED
      BY <3>3 DEF c
  <2> USE DEF bad
  <2> QED
    BY <2>4
<1>5. bad = {}
  <2> HIDE DEF bad
  <2> QED
    BY <1>0, <1>3, <1>4, NoneBad
<1>6. s[Len(f)] \in Nat /\ Len(f) \in 0..Len(f)
  BY <1>1, SumsAt
<1>7. s[Len(f)] <= most * Len(f)
  BY <1>5, <1>6
<1> QED
  BY <1>1, <1>6, <1>7

LEMMA TotalChanges ==
  ASSUME NEW f \in Seq(Nat), NEW g \in Seq(Nat), Len(f) = Len(g), NEW i \in 1..Len(f),
         \A k \in 1..Len(f) : k # i => f[k] = g[k]
  PROVE  G!Total(f) \in Nat /\ G!Total(g) \in Nat /\ G!Total(f) + g[i] = G!Total(g) + f[i]
<1>0. Len(f) \in Nat
  OBVIOUS
<1>1. PICK s : Sums(s, f) /\ G!Total(f) = s[Len(f)]
  BY TotalIs
<1>2. PICK t : Sums(t, g) /\ G!Total(g) = t[Len(f)]
  BY TotalIs
<1> DEFINE bad == {k \in 0..Len(f) : IF k < i THEN s[k] # t[k] ELSE s[k] + g[i] # t[k] + f[i]}
<1>3. bad \subseteq 0..Len(f) /\ 0 \notin bad
  BY <1>1, <1>2, SumsAt
<1>4. ASSUME NEW k \in 1..Len(f), k - 1 \notin bad PROVE k \notin bad
  <2>1. s[k] = s[k - 1] + f[k] /\ s[k - 1] \in Nat /\ f[k] \in Nat /\ k - 1 \in 0..Len(f) /\ k \in Nat
    BY <1>1, SumsAt
  <2>2. t[k] = t[k - 1] + g[k] /\ t[k - 1] \in Nat /\ g[k] \in Nat
    BY <1>2, SumsAt
  <2>3. IF k - 1 < i THEN s[k - 1] = t[k - 1] ELSE s[k - 1] + g[i] = t[k - 1] + f[i]
    BY <1>4, <2>1
  <2>4. i \in Nat /\ f[i] \in Nat /\ g[i] \in Nat
    BY <1>1, <1>2, SumsAt
  <2>5. k # i => f[k] = g[k]
    OBVIOUS
  <2> HIDE DEF bad
  <2>6. IF k < i THEN s[k] = t[k] ELSE s[k] + g[i] = t[k] + f[i]
    <3>1. CASE k < i
      BY <2>1, <2>2, <2>3, <2>4, <2>5, <3>1
    <3>2. CASE k = i
      BY <2>1, <2>2, <2>3, <2>4, <3>2
    <3>3. CASE k > i
      <4>1. ~(k - 1 < i) /\ ~(k < i) /\ k # i
        BY <2>1, <2>4, <3>3
      <4>2. s[k - 1] + g[i] = t[k - 1] + f[i] /\ f[k] = g[k]
        BY <2>3, <2>5, <4>1
      <4> DEFINE a == s[k - 1] b == t[k - 1] x == f[k] y == f[i] z == g[i]
      <4>3. /\ a \in Nat /\ b \in Nat /\ x \in Nat /\ y \in Nat /\ z \in Nat
            /\ s[k] = a + x /\ t[k] = b + x /\ a + z = b + y
        BY <2>1, <2>2, <2>4, <4>2
      <4> HIDE DEF a, b, x, y, z
      <4>4. (a + x) + z = (b + x) + y
        <5>1. a \in Nat /\ x \in Nat /\ z \in Nat
          BY <4>3
        <5>2. b \in Nat /\ x \in Nat /\ y \in Nat
          BY <4>3
        <5>3. a + z = b + y
          BY <4>3
        <5>4. (a + x) + z = (a + z) + x
          BY <5>1
        <5>5. (b + x) + y = (b + y) + x
          BY <5>2
        <5> QED
          BY <5>3, <5>4, <5>5
      <4>5. s[k] + z = t[k] + y
        BY <4>3, <4>4
      <4>6. s[k] + g[i] = t[k] + f[i]
        BY <4>5 DEF y, z
      <4> QED
        BY <4>1, <4>6
    <3> QED
      BY <2>1, <2>4, <3>1, <3>2, <3>3
  <2> USE DEF bad
  <2> QED
    BY <2>6
<1>5. bad = {}
  <2> HIDE DEF bad
  <2> QED
    BY <1>0, <1>3, <1>4, NoneBad
<1>6. Len(f) \in 0..Len(f) /\ ~(Len(f) < i)
  BY <1>1, SumsAt
<1>7. s[Len(f)] + g[i] = t[Len(f)] + f[i]
  BY <1>5, <1>6
<1> QED
  BY <1>1, <1>2, <1>7, SumsAt

-----------------------------------------------------------------------------
(* Conversations that are cut *)

MessageRecord == [system : BOOLEAN, size : Nat, private : BOOLEAN]
SizesOf(m, ids) == [i \in DOMAIN m |-> IF i \in ids THEN m[i].size ELSE 0]

LEMMA SizesAre ==
  ASSUME NEW m \in Seq(MessageRecord), NEW ids
  PROVE  /\ SizesOf(m, ids) \in Seq(Nat) /\ Len(SizesOf(m, ids)) = Len(m) /\ G!Size(m, ids) = G!Total(SizesOf(m, ids))
         /\ DOMAIN m = 1..Len(m) /\ Len(m) \in Nat
         /\ \A i \in 1..Len(m) : m[i].size \in Nat /\ SizesOf(m, ids)[i] = IF i \in ids THEN m[i].size ELSE 0
<1>1. Len(m) \in Nat /\ DOMAIN m = 1..Len(m)
  OBVIOUS
<1>2. ASSUME NEW i \in 1..Len(m) PROVE m[i].size \in Nat
  <2>1. m[i] \in MessageRecord
    OBVIOUS
  <2> QED
    BY <2>1 DEF MessageRecord
<1>3. SizesOf(m, ids) = [i \in 1..Len(m) |-> IF i \in ids THEN m[i].size ELSE 0]
  BY <1>1 DEF SizesOf
<1>4. \A i \in 1..Len(m) : (IF i \in ids THEN m[i].size ELSE 0) \in Nat
  BY <1>2
<1>5. SizesOf(m, ids) \in Seq(Nat) /\ Len(SizesOf(m, ids)) = Len(m)
  BY <1>1, <1>3, <1>4
<1> QED
  BY <1>1, <1>2, <1>3, <1>5 DEF G!Size, SizesOf

LEMMA SizeUnion ==
  ASSUME NEW m \in Seq(MessageRecord), NEW A, NEW B, A \cap B = {}
  PROVE  G!Size(m, A) \in Nat /\ G!Size(m, B) \in Nat /\ G!Size(m, A \cup B) = G!Size(m, A) + G!Size(m, B)
<1> DEFINE f == SizesOf(m, A) g == SizesOf(m, B) h == SizesOf(m, A \cup B)
<1>1. f \in Seq(Nat) /\ g \in Seq(Nat) /\ h \in Seq(Nat) /\ Len(f) = Len(m) /\ Len(g) = Len(m) /\ Len(h) = Len(m)
  BY SizesAre
<1>2. \A i \in 1..Len(m) : h[i] = f[i] + g[i]
  <2> SUFFICES ASSUME NEW i \in 1..Len(m) PROVE h[i] = f[i] + g[i]
    OBVIOUS
  <2>1. /\ m[i].size \in Nat
        /\ f[i] = (IF i \in A THEN m[i].size ELSE 0) /\ g[i] = (IF i \in B THEN m[i].size ELSE 0)
        /\ h[i] = IF i \in A \cup B THEN m[i].size ELSE 0
    BY SizesAre
  <2> HIDE DEF f, g, h
  <2> QED
    BY <2>1
<1>3. G!Total(f) \in Nat /\ G!Total(g) \in Nat /\ G!Total(h) = G!Total(f) + G!Total(g)
  <2> HIDE DEF f, g, h
  <2> QED
    BY <1>1, <1>2, TotalsAdd
<1> QED
  BY <1>3, SizesAre

LEMMA SizeOne ==
  ASSUME NEW m \in Seq(MessageRecord), NEW i \in 1..Len(m), NEW A, i \notin A
  PROVE  G!Size(m, A \cup {i}) = G!Size(m, A) + m[i].size
<1> DEFINE f == SizesOf(m, A) g == SizesOf(m, A \cup {i})
<1>1. f \in Seq(Nat) /\ g \in Seq(Nat) /\ Len(f) = Len(m) /\ Len(g) = Len(m)
  BY SizesAre
<1>2. \A k \in 1..Len(m) : k # i => f[k] = g[k]
  <2> SUFFICES ASSUME NEW k \in 1..Len(m), k # i PROVE f[k] = g[k]
    OBVIOUS
  <2>1. f[k] = (IF k \in A THEN m[k].size ELSE 0) /\ g[k] = IF k \in A \cup {i} THEN m[k].size ELSE 0
    BY SizesAre
  <2> QED
    BY <2>1
<1>3. f[i] = 0 /\ g[i] = m[i].size /\ m[i].size \in Nat
  BY SizesAre
<1>4. G!Total(f) \in Nat /\ G!Total(g) \in Nat /\ G!Total(f) + g[i] = G!Total(g) + f[i]
  <2> HIDE DEF f, g
  <2> QED
    BY <1>1, <1>2, TotalChanges
<1>5. G!Size(m, A) = G!Total(f) /\ G!Size(m, A \cup {i}) = G!Total(g)
  BY SizesAre
<1> HIDE DEF f, g
<1> QED
  BY <1>3, <1>4, <1>5

LEMMA SizeNone == ASSUME NEW m \in Seq(MessageRecord) PROVE G!Size(m, {}) = 0
<1>1. G!Size(m, {}) \in Nat /\ G!Size(m, {} \cup {}) = G!Size(m, {}) + G!Size(m, {})
  <2>1. {} \cap {} = {}
    OBVIOUS
  <2> QED
    BY <2>1, SizeUnion
<1>2. {} \cup {} = {}
  OBVIOUS
<1> QED
  BY <1>1, <1>2

\* What is sent of a conversation that was cut.
CutWell(m, sent, budget) ==
  LET cut == G!Talk(m) \ sent IN
  /\ G!System(m) \subseteq sent
  /\ \A i \in cut, j \in sent \cap G!Talk(m) : i < j
  /\ sent \cap G!Talk(m) # {} => G!Size(m, sent) <= budget
  /\ \A i \in cut : (\A j \in cut : j <= i) => G!Size(m, sent) + m[i].size > budget

LEMMA TailFits ==
  ASSUME NEW m \in Seq(MessageRecord), NEW room \in Int, NEW K, K = G!KeptTail(m, room)
  PROVE  /\ K \subseteq G!Talk(m) /\ \A i \in G!Talk(m) \ K, j \in K : i < j
         /\ K # {} => G!Size(m, K) <= room
         /\ \A i \in G!Talk(m) \ K : (\A j \in G!Talk(m) \ K : j <= i) => G!Size(m, K) + m[i].size > room
<1> DEFINE Fitting == {n \in 0..Len(m) : G!Size(m, G!After(m, n)) <= room}
<1>0. /\ Len(m) \in Nat /\ DOMAIN m = 1..Len(m) /\ G!Talk(m) \subseteq 1..Len(m)
      /\ \A i \in 1..Len(m) : m[i].size \in Nat
  BY SizesAre DEF G!Talk
<1>1. \A ids : G!Size(m, ids) \in Nat
  <2>1. \A ids : ids \cap {} = {}
    OBVIOUS
  <2> QED
    BY <2>1, SizeUnion
<1>2. CASE Fitting = {}
  <2>1. K = {}
    BY <1>2 DEF G!KeptTail
  <2>2. G!After(m, Len(m)) = {}
    BY <1>0 DEF G!After
  <2>3. Len(m) \in 0..Len(m) /\ Len(m) \notin Fitting
    BY <1>0, <1>2
  <2>4. ~(0 <= room)
    BY <2>2, <2>3, SizeNone
  <2> QED
    BY <1>0, <2>1, <2>4, SizeNone
<1>3. CASE Fitting # {}
  <2> DEFINE n == CHOOSE n \in Fitting : \A k \in Fitting : n <= k
  <2>1. Fitting \subseteq Nat
    OBVIOUS
  <2>2. n \in Fitting /\ \A k \in Fitting : n <= k
    <3> HIDE DEF Fitting
    <3>1. \E k \in Fitting : \A j \in Fitting : k <= j
      BY <1>3, <2>1, LeastNumber
    <3> QED
      BY <3>1
  <2>3. K = G!After(m, n)
    BY <1>3 DEF G!KeptTail
  <2> HIDE DEF n
  <2>4. n \in 0..Len(m) /\ G!Size(m, K) <= room
    BY <2>2, <2>3
  <2>5. \A i \in G!Talk(m) : i \in K <=> i > n
    BY <2>3 DEF G!After
  <2>6. K \subseteq G!Talk(m)
    BY <2>3 DEF G!After
  <2>7. ASSUME NEW i \in G!Talk(m) \ K, \A j \in G!Talk(m) \ K : j <= i
        PROVE  G!Size(m, K) + m[i].size > room
    <3>1. i \in 1..Len(m) /\ i <= n /\ i - 1 \in 0..Len(m) /\ ~(n <= i - 1)
      BY <1>0, <2>4, <2>5
    <3>2. G!After(m, i - 1) = K \cup {i}
      <4>1. ASSUME NEW j \in G!Talk(m) PROVE j > i - 1 <=> j \in K \/ j = i
        BY <1>0, <2>4, <2>5, <2>7, <3>1
      <4> QED
        BY <2>6, <4>1 DEF G!After
    <3>3. i - 1 \notin Fitting
      BY <2>2, <3>1
    <3>4. ~(G!Size(m, K \cup {i}) <= room)
      BY <3>1, <3>2, <3>3
    <3>5. G!Size(m, K \cup {i}) = G!Size(m, K) + m[i].size
      BY <3>1, SizeOne
    <3> QED
      BY <1>0, <1>1, <3>1, <3>4, <3>5
  <2>8. \A i \in G!Talk(m) \ K, j \in K : i < j
    BY <1>0, <2>4, <2>5, <2>6
  <2> QED
    BY <2>4, <2>6, <2>7, <2>8
<1> QED
  BY <1>2, <1>3

LEMMA TruncatesWell ==
  ASSUME GatewayAssumption, NEW p \in G!Provider, NEW request \in G!Request,
         NEW sent, sent = G!truncate_to_fit(p, request), sent # DOMAIN request.messages
  PROVE  sent \subseteq DOMAIN request.messages /\ CutWell(request.messages, sent, G!Budget(p, request))
<1> DEFINE m == request.messages system == G!System(m) budget == G!Budget(p, request)
           room == budget - G!Size(m, system) K == G!KeptTail(m, room)
<1>1. m \in Seq(MessageRecord)
  BY DEF GatewayAssumption, G!Request, MessageRecord
<1>2. budget \in Int
  BY DEF GatewayAssumption, G!Request, G!Budget
<1>3. \A ids : G!Size(m, ids) \in Nat
  <2>1. \A ids : ids \cap {} = {}
    OBVIOUS
  <2> QED
    BY <1>1, <2>1, SizeUnion
<1>4. system \cap G!Talk(m) = {} /\ system \cup G!Talk(m) = DOMAIN m
  BY DEF G!System, G!Talk
<1>5. room \in Int
  BY <1>2, <1>3
<1>6. sent = system \cup K
  BY DEF G!truncate_to_fit
<1> HIDE DEF m, budget, system
<1>7. /\ K \subseteq G!Talk(m) /\ \A i \in G!Talk(m) \ K, j \in K : i < j
      /\ K # {} => G!Size(m, K) <= room
      /\ \A i \in G!Talk(m) \ K : (\A j \in G!Talk(m) \ K : j <= i) => G!Size(m, K) + m[i].size > room
  <2> HIDE DEF room
  <2> QED
    BY <1>1, <1>5, TailFits
<1> HIDE DEF K
<1>8. G!Size(m, sent) = G!Size(m, system) + G!Size(m, K)
  BY <1>1, <1>4, <1>6, <1>7, SizeUnion
<1>9. sent \cap G!Talk(m) = K /\ G!Talk(m) \ sent = G!Talk(m) \ K
  BY <1>4, <1>6, <1>7
<1>10. \A i \in G!Talk(m) : m[i].size \in Nat
  <2>1. G!Talk(m) \subseteq 1..Len(m)
    BY <1>1, SizesAre DEF G!Talk
  <2> QED
    BY <1>1, <2>1, SizesAre
<1>11. sent \cap G!Talk(m) # {} => G!Size(m, sent) <= budget
  BY <1>2, <1>3, <1>7, <1>8, <1>9
<1>12. ASSUME NEW i \in G!Talk(m) \ sent, \A j \in G!Talk(m) \ sent : j <= i
       PROVE  G!Size(m, sent) + m[i].size > budget
  <2>1. G!Size(m, K) + m[i].size > budget - G!Size(m, system)
    BY <1>7, <1>9, <1>12
  <2> DEFINE all == G!Size(m, sent) fixed == G!Size(m, system) kept == G!Size(m, K) next == m[i].size
  <2>2. /\ all = fixed + kept /\ fixed \in Nat /\ kept \in Nat /\ next \in Nat /\ budget \in Int
        /\ kept + next > budget - fixed
    BY <1>2, <1>3, <1>8, <1>10, <1>12, <2>1
  <2> HIDE DEF all, fixed, kept, next
  <2>3. all + next > budget
    BY <2>2
  <2> QED
    BY <2>3 DEF all, next
<1>13. sent \subseteq DOMAIN m
  BY <1>4, <1>6, <1>7
<1>14. CutWell(m, sent, budget)
  BY <1>6, <1>7, <1>9, <1>11, <1>12 DEF CutWell, system
<1> QED
  BY <1>13, <1>14 DEF m, budget

-----------------------------------------------------------------------------
(* Requests *)

GatMoments == {"idle", "task", "day", "route", "try", "calling", "book"}
Calls(At, T, Requests, Left, Prepared, Cost) ==
  [at : At, task : T, request : Requests, left : Left, prepared : Prepared, cost : Cost]
SomeMessages == UNION {[ids -> MessageRecord] : ids \in SUBSET Nat}
Prepared == SomeMessages \cup {G!Nothing}
GatCall == Calls(GatMoments, Task, G!Request \cup {G!Idle.request}, SUBSET DOMAIN Order, Prepared, 0..MaxCallCost)

\* A request in hand: who is still to be asked may be, and what is sent is cut well.
Asked(r) ==
  /\ r.at # "idle" => r.request \in G!Request
  /\ r.at \in {"try", "calling"} =>
       r.left # {} /\ (r.request.external = "no" => \A i \in r.left : Order[i] \notin External)
Sent(r) ==
  r.at = "calling" =>
    LET p == Order[G!First(r.left)]
        m == r.request.messages
        sent == DOMAIN r.prepared
    IN  /\ p \in External => /\ config.external_ai # "forbidden"
                             /\ config.external_ai = "restricted" => \A i \in sent : ~r.prepared[i].private
        /\ \A i \in sent : i \in DOMAIN m /\ r.prepared[i].size = m[i].size
        /\ sent # DOMAIN m => ~G!Fits(p, r.request) /\ CutWell(m, sent, G!Budget(p, r.request))

GatTypes ==
  /\ config \in G!Config
  /\ booked \in [Task -> Nat] /\ today \in Nat /\ paid \in [Task -> Nat]
  /\ completing \in [Caller -> GatCall]
  /\ completions \in 0..MaxModelCalls /\ lostCalls \in 0..MaxModelCrashes
AskedInv == \A c \in Caller : Asked(completing[c]) /\ Sent(completing[c])

\* What a request was answered for and has not booked, and what it may still cost.
Owes(r, t) == IF r.at = "book" /\ r.task = t THEN r.cost ELSE 0
May(r, t) == IF r.at \in {"day", "route", "try", "calling"} /\ r.task = t THEN MaxCallCost ELSE 0
Callers == Cardinality(Caller)
Nth == CHOOSE f : f \in Bijection(1..Callers, Caller)
OwedOf(asks, t) == G!Total([k \in 1..Callers |-> Owes(asks[Nth[k]], t)])
AheadOf(asks, t) == G!Total([k \in 1..Callers |-> May(asks[Nth[k]], t)])
Owed(t) == OwedOf(completing, t)
Ahead(t) == AheadOf(completing, t)
Lost == (MaxCallCost * Callers) * lostCalls

\* Money: what was paid is booked, owed or was lost; and what is still let through
\* stays within the bound.
PaidInv == \A t \in Task : paid[t] <= booked[t] + Owed(t) + Lost
BoundInv == config.on_exceeded = "deny" => \A t \in Task : paid[t] + Ahead(t) < PerTask + MaxCallCost * Callers + Lost

GatewayInv == GatTypes /\ AskedInv /\ PaidInv /\ BoundInv

LEMMA NthIs ==
  ASSUME GatewayAssumption
  PROVE  /\ Callers \in Nat \ {0} /\ \A k \in 1..Callers : Nth[k] \in Caller
         /\ \A c \in Caller : \E i \in 1..Callers : /\ Nth[i] = c
                                                    /\ \A k \in 1..Callers : k # i => Nth[k] # c
<1>1. Callers \in Nat /\ ExistsBijection(1..Callers, Caller)
  BY FS_CardinalityType DEF GatewayAssumption, Callers
<1>2. Nth \in Bijection(1..Callers, Caller)
  BY <1>1 DEF ExistsBijection, Nth
<1>3. \A c \in Caller : \E i \in 1..Callers : Nth[i] = c
  BY <1>2 DEF Bijection, Surjection
<1>4. \A i, k \in 1..Callers : Nth[i] = Nth[k] => i = k
  BY <1>2 DEF Bijection, Injection, IsInjective
<1>5. \A k \in 1..Callers : Nth[k] \in Caller
  BY <1>2 DEF Bijection, Injection
<1>6. Callers # 0
  BY <1>1, <1>3 DEF GatewayAssumption
<1> QED
  BY <1>1, <1>3, <1>4, <1>5, <1>6

LEMMA OwesAre ==
  ASSUME GatewayAssumption, NEW r \in GatCall, NEW t
  PROVE  /\ Owes(r, t) \in Nat /\ May(r, t) \in Nat /\ MaxCallCost \in Nat
         /\ Owes(r, t) + May(r, t) <= MaxCallCost
<1>1. r.cost \in 0..MaxCallCost /\ MaxCallCost \in Nat
  BY DEF GatewayAssumption, GatCall, Calls
<1> QED
  BY <1>1 DEF Owes, May

LEMMA OwedBounded ==
  ASSUME GatewayAssumption, NEW asks \in [Caller -> GatCall], NEW t
  PROVE  /\ OwedOf(asks, t) \in Nat /\ AheadOf(asks, t) \in Nat /\ MaxCallCost * Callers \in Nat
         /\ OwedOf(asks, t) + AheadOf(asks, t) <= MaxCallCost * Callers
<1> DEFINE f == [k \in 1..Callers |-> Owes(asks[Nth[k]], t)]
           g == [k \in 1..Callers |-> May(asks[Nth[k]], t)]
           h == [k \in 1..Callers |-> Owes(asks[Nth[k]], t) + May(asks[Nth[k]], t)]
<1>1. Callers \in Nat /\ MaxCallCost \in Nat
  BY NthIs DEF GatewayAssumption
<1>2. \A k \in 1..Callers : /\ Owes(asks[Nth[k]], t) \in Nat /\ May(asks[Nth[k]], t) \in Nat
                            /\ Owes(asks[Nth[k]], t) + May(asks[Nth[k]], t) <= MaxCallCost
                            /\ Owes(asks[Nth[k]], t) + May(asks[Nth[k]], t) \in Nat
  <2> SUFFICES ASSUME NEW k \in 1..Callers
               PROVE  /\ Owes(asks[Nth[k]], t) \in Nat /\ May(asks[Nth[k]], t) \in Nat
                      /\ Owes(asks[Nth[k]], t) + May(asks[Nth[k]], t) <= MaxCallCost
                      /\ Owes(asks[Nth[k]], t) + May(asks[Nth[k]], t) \in Nat
    OBVIOUS
  <2>1. asks[Nth[k]] \in GatCall
    BY NthIs
  <2>2. /\ Owes(asks[Nth[k]], t) \in Nat /\ May(asks[Nth[k]], t) \in Nat
        /\ Owes(asks[Nth[k]], t) + May(asks[Nth[k]], t) <= MaxCallCost
    BY <2>1, OwesAre
  <2> QED
    BY <2>2
<1>3. f \in Seq(Nat) /\ g \in Seq(Nat) /\ h \in Seq(Nat) /\ Len(f) = Callers /\ Len(g) = Callers /\ Len(h) = Callers
  BY <1>1, <1>2
<1>4. \A k \in 1..Callers : h[k] = f[k] + g[k] /\ h[k] <= MaxCallCost
  BY <1>2
<1> HIDE DEF f, g, h
<1>5. G!Total(f) \in Nat /\ G!Total(g) \in Nat /\ G!Total(h) = G!Total(f) + G!Total(g)
  BY <1>3, <1>4, TotalsAdd
<1>6. G!Total(h) <= MaxCallCost * Callers
  BY <1>1, <1>3, <1>4, TotalBounded
<1>7. MaxCallCost * Callers \in Nat
  BY <1>1
<1> QED
  BY <1>5, <1>6, <1>7 DEF OwedOf, AheadOf, f, g

\* When one caller goes on, what he owes and may cost changes.
LEMMA OwedMoves ==
  ASSUME GatewayAssumption, completing \in [Caller -> GatCall], NEW c \in Caller, NEW r \in GatCall, NEW t,
         completing' \in [Caller -> GatCall], completing'[c] = r, \A d \in Caller : d # c => completing'[d] = completing[d]
  PROVE  /\ OwedOf(completing', t) + Owes(completing[c], t) = OwedOf(completing, t) + Owes(r, t)
         /\ AheadOf(completing', t) + May(completing[c], t) = AheadOf(completing, t) + May(r, t)
<1>1. Callers \in Nat
  BY NthIs
<1>2. completing'[c] = r
  OBVIOUS
<1>3. PICK i \in 1..Callers : Nth[i] = c /\ \A k \in 1..Callers : k # i => Nth[k] # c
  BY NthIs
<1>4. ASSUME NEW k \in 1..Callers
      PROVE  /\ completing[Nth[k]] \in GatCall /\ completing'[Nth[k]] \in GatCall
             /\ k # i => completing'[Nth[k]] = completing[Nth[k]]
  BY <1>2, <1>3, NthIs
<1>5. OwedOf(completing', t) + Owes(completing[c], t) = OwedOf(completing, t) + Owes(r, t)
  <2> DEFINE f == [k \in 1..Callers |-> Owes(completing[Nth[k]], t)]
             g == [k \in 1..Callers |-> Owes(completing'[Nth[k]], t)]
  <2>1. \A k \in 1..Callers : Owes(completing[Nth[k]], t) \in Nat /\ Owes(completing'[Nth[k]], t) \in Nat
    BY <1>4, OwesAre
  <2>2. f \in Seq(Nat) /\ g \in Seq(Nat) /\ Len(f) = Callers /\ Len(g) = Callers
    BY <1>1, <2>1
  <2>3. \A k \in 1..Callers : k # i => f[k] = g[k]
    BY <1>4
  <2>4. f[i] = Owes(completing[c], t) /\ g[i] = Owes(r, t)
    BY <1>2, <1>3
  <2> HIDE DEF f, g
  <2>5. G!Total(f) + g[i] = G!Total(g) + f[i]
    BY <2>2, <2>3, TotalChanges
  <2> QED
    BY <2>4, <2>5 DEF OwedOf, f, g
<1>6. AheadOf(completing', t) + May(completing[c], t) = AheadOf(completing, t) + May(r, t)
  <2> DEFINE f == [k \in 1..Callers |-> May(completing[Nth[k]], t)]
             g == [k \in 1..Callers |-> May(completing'[Nth[k]], t)]
  <2>1. \A k \in 1..Callers : May(completing[Nth[k]], t) \in Nat /\ May(completing'[Nth[k]], t) \in Nat
    BY <1>4, OwesAre
  <2>2. f \in Seq(Nat) /\ g \in Seq(Nat) /\ Len(f) = Callers /\ Len(g) = Callers
    BY <1>1, <2>1
  <2>3. \A k \in 1..Callers : k # i => f[k] = g[k]
    BY <1>4
  <2>4. f[i] = May(completing[c], t) /\ g[i] = May(r, t)
    BY <1>2, <1>3
  <2> HIDE DEF f, g
  <2>5. G!Total(f) + g[i] = G!Total(g) + f[i]
    BY <2>2, <2>3, TotalChanges
  <2> QED
    BY <2>4, <2>5 DEF AheadOf, f, g
<1> QED
  BY <1>2, <1>5, <1>6

\* Nobody at work owes anything.
LEMMA OwedAtRest ==
  ASSUME GatewayAssumption, NEW asks \in [Caller -> GatCall], NEW t, \A c \in Caller : asks[c].at = "idle"
  PROVE  OwedOf(asks, t) = 0 /\ AheadOf(asks, t) = 0
<1> DEFINE f == [k \in 1..Callers |-> Owes(asks[Nth[k]], t)]
           g == [k \in 1..Callers |-> May(asks[Nth[k]], t)]
<1>1. Callers \in Nat
  BY NthIs
<1>2. \A k \in 1..Callers : Owes(asks[Nth[k]], t) = 0 /\ May(asks[Nth[k]], t) = 0
  BY NthIs DEF Owes, May
<1>3. f \in Seq(Nat) /\ g \in Seq(Nat) /\ Len(f) = Callers /\ Len(g) = Callers
  BY <1>1, <1>2
<1>4. \A k \in 1..Callers : f[k] <= 0 /\ g[k] <= 0
  BY <1>2
<1> HIDE DEF f, g
<1>5. G!Total(f) \in Nat /\ G!Total(f) <= 0 * Callers /\ G!Total(g) \in Nat /\ G!Total(g) <= 0 * Callers
  BY <1>3, <1>4, TotalBounded
<1>6. 0 * Callers = 0
  BY <1>1
<1>7. G!Total(f) = 0 /\ G!Total(g) = 0
  BY <1>5, <1>6
<1> QED
  BY <1>7 DEF OwedOf, AheadOf, f, g

-----------------------------------------------------------------------------
(* Steps of a request *)

GatHas(r, at, t, request, left, prepared, cost) ==
  /\ r.at = at /\ r.task = t /\ r.request = request /\ r.left = left /\ r.prepared = prepared /\ r.cost = cost

LEMMA GatFields ==
  ASSUME NEW At, NEW T, NEW Requests, NEW Left, NEW Cuts, NEW Cost, NEW r \in Calls(At, T, Requests, Left, Cuts, Cost)
  PROVE  /\ \A a \in At : /\ [r EXCEPT !.at = a] \in Calls(At, T, Requests, Left, Cuts, Cost)
                          /\ GatHas([r EXCEPT !.at = a], a, r.task, r.request, r.left, r.prepared, r.cost)
         /\ \A a \in At, l \in Left :
              /\ [r EXCEPT !.at = a, !.left = l] \in Calls(At, T, Requests, Left, Cuts, Cost)
              /\ GatHas([r EXCEPT !.at = a, !.left = l], a, r.task, r.request, l, r.prepared, r.cost)
         /\ \A a \in At, p \in Cuts :
              /\ [r EXCEPT !.at = a, !.prepared = p] \in Calls(At, T, Requests, Left, Cuts, Cost)
              /\ GatHas([r EXCEPT !.at = a, !.prepared = p], a, r.task, r.request, r.left, p, r.cost)
         /\ \A a \in At, k \in Cost :
              /\ [r EXCEPT !.at = a, !.cost = k] \in Calls(At, T, Requests, Left, Cuts, Cost)
              /\ GatHas([r EXCEPT !.at = a, !.cost = k], a, r.task, r.request, r.left, r.prepared, k)
         /\ \A a \in At, t \in T, q \in Requests :
              /\ [r EXCEPT !.at = a, !.task = t, !.request = q] \in Calls(At, T, Requests, Left, Cuts, Cost)
              /\ GatHas([r EXCEPT !.at = a, !.task = t, !.request = q], a, t, q, r.left, r.prepared, r.cost)
BY DEF Calls, GatHas

LEMMA GatRecord ==
  ASSUME NEW At, NEW T, NEW Requests, NEW Left, NEW Cuts, NEW Cost,
         NEW a \in At, NEW t \in T, NEW q \in Requests, NEW l \in Left, NEW p \in Cuts, NEW k \in Cost
  PROVE  /\ [at |-> a, task |-> t, request |-> q, left |-> l, prepared |-> p, cost |-> k]
              \in Calls(At, T, Requests, Left, Cuts, Cost)
         /\ GatHas([at |-> a, task |-> t, request |-> q, left |-> l, prepared |-> p, cost |-> k], a, t, q, l, p, k)
BY DEF Calls, GatHas

LEMMA GatIdle ==
  ASSUME GatewayAssumption
  PROVE  /\ G!Idle \in GatCall /\ Asked(G!Idle) /\ Sent(G!Idle)
         /\ G!Idle.at = "idle" /\ G!Idle.cost = 0 /\ G!Idle.left = {} /\ G!Idle.prepared = G!Nothing
<1> DEFINE t == CHOOSE t \in Task : TRUE
           q == [messages |-> <<>>, max_tokens |-> 1, external |-> "no"]
           idle == [at |-> "idle", task |-> t, request |-> q, left |-> {}, prepared |-> G!Nothing, cost |-> 0]
<1>0. G!Idle = idle
  BY DEF G!Idle
<1>1. t \in Task
  BY DEF GatewayAssumption
<1>2. 0 \in 0..MaxCallCost /\ {} \in SUBSET DOMAIN Order /\ "idle" \in GatMoments /\ G!Nothing \in Prepared
  <2>1. 0 \in 0..MaxCallCost
    BY DEF GatewayAssumption
  <2>2. "idle" \in GatMoments
    BY DEF GatMoments
  <2>3. G!Nothing \in Prepared
    BY DEF Prepared
  <2> QED
    BY <2>1, <2>2, <2>3
<1> HIDE DEF t, q
<1>3. idle.request = q
  OBVIOUS
<1>4. q \in G!Request \cup {G!Idle.request}
  BY <1>0, <1>3
<1>5. idle \in GatCall /\ GatHas(idle, "idle", t, q, {}, G!Nothing, 0)
  <2> DEFINE Requests == G!Request \cup {G!Idle.request} Left == SUBSET DOMAIN Order Cost == 0..MaxCallCost
             none == G!Nothing
  <2>1. "idle" \in GatMoments /\ t \in Task /\ q \in Requests /\ {} \in Left /\ none \in Prepared /\ 0 \in Cost
    BY <1>1, <1>2, <1>4
  <2> HIDE DEF Requests, Left, Cost, none
  <2>2. idle \in Calls(GatMoments, Task, Requests, Left, Prepared, Cost)
    <3> USE DEF none
    <3>1. idle = [at |-> "idle", task |-> t, request |-> q, left |-> {}, prepared |-> none, cost |-> 0]
      OBVIOUS
    <3> HIDE DEF none, idle
    <3> QED
      BY <2>1, <3>1 DEF Calls
  <2>3. GatHas(idle, "idle", t, q, {}, G!Nothing, 0)
    BY DEF GatHas
  <2> QED
    BY <2>2, <2>3 DEF GatCall, Requests, Left, Cost
<1> HIDE DEF idle
<1>6. G!Idle \in GatCall /\ GatHas(G!Idle, "idle", t, q, {}, G!Nothing, 0)
  BY <1>0, <1>5
<1> QED
  BY <1>6 DEF Asked, Sent, GatHas

\* One caller goes on: his money stays in balance, and what he may still cost
\* grows only while there is a budget.
Balanced(c, r) ==
  \A t \in Task : paid'[t] + Owes(completing[c], t) + booked[t] <= paid[t] + booked'[t] + Owes(r, t)
Within(c, r) ==
  config.on_exceeded = "deny" =>
    \A t \in Task : \/ May(r, t) + paid'[t] <= May(completing[c], t) + paid[t]
                    \/ paid'[t] = paid[t] /\ Owes(r, t) = Owes(completing[c], t) /\ booked[t] < PerTask

LEMMA OneMoves ==
  ASSUME GatewayAssumption, GatewayInv, NEW c \in Caller, NEW r \in GatCall,
         completing' \in [Caller -> GatCall], completing'[c] = r, \A d \in Caller : d # c => completing'[d] = completing[d],
         UNCHANGED <<config, lostCalls>>,
         booked' \in [Task -> Nat], today' \in Nat, paid' \in [Task -> Nat], completions' \in 0..MaxModelCalls,
         Asked(r), Sent(r), Balanced(c, r), Within(c, r)
  PROVE  GatewayInv'
<1> USE DEF GatewayInv
<1>1. completing \in [Caller -> GatCall] /\ completing[c] \in GatCall
  BY DEF GatTypes
<1>2. completing' \in [Caller -> GatCall] /\ completing'[c] = r /\ \A d \in Caller : d # c => completing'[d] = completing[d]
  OBVIOUS
<1>3. GatTypes'
  BY <1>2 DEF GatTypes
<1>4. AskedInv'
  <2>1. \A d \in Caller : Asked(completing'[d]) /\ Sent(completing'[d])
    BY <1>2 DEF AskedInv
  <2>2. ASSUME NEW d \in Caller PROVE Asked(completing[d])' /\ Sent(completing[d])'
    BY <2>1 DEF Asked, Sent
  <2> QED
    BY <2>2 DEF AskedInv
<1>5. /\ Callers \in Nat /\ MaxCallCost \in Nat /\ PerTask \in Nat /\ MaxCallCost * Callers \in Nat
      /\ Lost \in Nat /\ Lost' = Lost
      /\ PerTask + MaxCallCost * Callers + Lost \in Nat
  <2>1. Callers \in Nat /\ MaxCallCost \in Nat /\ PerTask \in Nat /\ lostCalls \in Nat
    BY NthIs DEF GatewayAssumption, GatTypes
  <2>2. MaxCallCost * Callers \in Nat
    BY <2>1
  <2>3. Lost \in Nat /\ Lost' = Lost
    BY <2>1, <2>2 DEF Lost
  <2>4. PerTask + MaxCallCost * Callers + Lost \in Nat
    <3> DEFINE under == MaxCallCost * Callers
    <3>1. under \in Nat
      BY <2>2
    <3> HIDE DEF under
    <3>2. PerTask + under + Lost \in Nat
      BY <2>1, <2>3, <3>1
    <3> QED
      BY <3>2 DEF under
  <2> QED
    BY <2>1, <2>2, <2>3, <2>4
<1>6. ASSUME NEW t \in Task
      PROVE  /\ OwedOf(completing', t) \in Nat /\ AheadOf(completing', t) \in Nat
             /\ OwedOf(completing', t) + AheadOf(completing', t) <= MaxCallCost * Callers
             /\ OwedOf(completing', t) + Owes(completing[c], t) = OwedOf(completing, t) + Owes(r, t)
             /\ AheadOf(completing', t) + May(completing[c], t) = AheadOf(completing, t) + May(r, t)
  <2>1. /\ OwedOf(completing', t) \in Nat /\ AheadOf(completing', t) \in Nat
        /\ OwedOf(completing', t) + AheadOf(completing', t) <= MaxCallCost * Callers
    BY <1>2, OwedBounded
  <2>2. /\ OwedOf(completing', t) + Owes(completing[c], t) = OwedOf(completing, t) + Owes(r, t)
        /\ AheadOf(completing', t) + May(completing[c], t) = AheadOf(completing, t) + May(r, t)
    BY <1>1, <1>2, OwedMoves
  <2> QED
    BY <2>1, <2>2
<1>7. ASSUME NEW t \in Task
      PROVE  /\ paid[t] \in Nat /\ paid'[t] \in Nat /\ booked[t] \in Nat /\ booked'[t] \in Nat
             /\ Owes(r, t) \in Nat /\ May(r, t) \in Nat /\ Owes(completing[c], t) \in Nat /\ May(completing[c], t) \in Nat
             /\ OwedOf(completing, t) \in Nat /\ AheadOf(completing, t) \in Nat
  <2>1. paid[t] \in Nat /\ paid'[t] \in Nat /\ booked[t] \in Nat /\ booked'[t] \in Nat
    BY DEF GatTypes
  <2>2. Owes(r, t) \in Nat /\ May(r, t) \in Nat /\ Owes(completing[c], t) \in Nat /\ May(completing[c], t) \in Nat
    BY <1>1, OwesAre
  <2>3. OwedOf(completing, t) \in Nat /\ AheadOf(completing, t) \in Nat
    BY <1>1, OwedBounded
  <2> QED
    BY <2>1, <2>2, <2>3
<1>8. ASSUME NEW t \in Task
      PROVE  /\ paid'[t] <= booked'[t] + OwedOf(completing', t) + Lost
             /\ config.on_exceeded = "deny" => paid'[t] + AheadOf(completing', t) < PerTask + MaxCallCost * Callers + Lost
  <2> DEFINE p == paid[t] pp == paid'[t] b == booked[t] bb == booked'[t]
             o == OwedOf(completing, t) oo == OwedOf(completing', t)
             a == AheadOf(completing, t) aa == AheadOf(completing', t)
             x == Owes(completing[c], t) y == Owes(r, t) u == May(completing[c], t) v == May(r, t)
             under == MaxCallCost * Callers
  <2>1. p <= b + o + Lost
    BY DEF PaidInv, Owed
  <2>2. pp + x + b <= p + bb + y
    BY DEF Balanced
  <2>3. /\ p \in Nat /\ pp \in Nat /\ b \in Nat /\ bb \in Nat /\ o \in Nat /\ a \in Nat
        /\ x \in Nat /\ y \in Nat /\ u \in Nat /\ v \in Nat
    BY <1>7
  <2>4. oo \in Nat /\ aa \in Nat /\ oo + aa <= under /\ oo + x = o + y /\ aa + u = a + v
    BY <1>6
  <2>5. under \in Nat /\ Lost \in Nat /\ PerTask \in Nat
    BY <1>5
  <2>6. config.on_exceeded = "deny" => p + a < PerTask + under + Lost
    BY DEF BoundInv, Ahead
  <2>7. config.on_exceeded = "deny" => v + pp <= u + p \/ (pp = p /\ y = x /\ b < PerTask)
    BY DEF Within
  <2> HIDE DEF p, pp, b, bb, o, oo, a, aa, x, y, u, v, under, Lost
  <2>8. pp <= bb + oo + Lost
    BY <2>1, <2>2, <2>3, <2>4, <2>5
  <2>9. CASE v + pp <= u + p /\ p + a < PerTask + under + Lost
    <3>1. pp + aa < PerTask + under + Lost
      BY <2>3, <2>4, <2>5, <2>9
    <3> QED
      BY <2>8, <3>1 DEF p, pp, b, bb, oo, aa, under
  <2>10. CASE pp = p /\ y = x /\ b < PerTask
    <3>1. pp + aa < PerTask + under + Lost
      BY <2>1, <2>3, <2>4, <2>5, <2>10
    <3> QED
      BY <2>8, <3>1 DEF p, pp, b, bb, oo, aa, under
  <2>11. CASE config.on_exceeded # "deny"
    BY <2>8, <2>11 DEF pp, bb, oo
  <2> QED
    BY <2>6, <2>7, <2>9, <2>10, <2>11
<1>9. PaidInv' /\ BoundInv'
  <2>1. \A t \in Task : paid'[t] <= booked'[t] + OwedOf(completing', t) + Lost'
    BY <1>5, <1>8
  <2>2. config'.on_exceeded = "deny" =>
          \A t \in Task : paid'[t] + AheadOf(completing', t) < PerTask + MaxCallCost * Callers + Lost'
    BY <1>5, <1>8
  <2>3. PaidInv'
    BY <2>1 DEF PaidInv, Owed
  <2> QED
    BY <2>2, <2>3 DEF BoundInv, Ahead
<1> QED
  BY <1>3, <1>4, <1>9

LEMMA OneGoesOn ==
  ASSUME GatewayAssumption, GatewayInv, NEW c \in Caller, NEW r \in GatCall,
         completing' = [completing EXCEPT ![c] = r], UNCHANGED <<config, lostCalls>>,
         booked' \in [Task -> Nat], today' \in Nat, paid' \in [Task -> Nat], completions' \in 0..MaxModelCalls,
         Asked(r), Sent(r), Balanced(c, r), Within(c, r)
  PROVE  GatewayInv'
<1>1. completing \in [Caller -> GatCall]
  BY DEF GatewayInv, GatTypes
<1>2. completing' \in [Caller -> GatCall] /\ completing'[c] = r /\ \A d \in Caller : d # c => completing'[d] = completing[d]
  BY <1>1
<1> QED
  BY <1>2, OneMoves

\* One caller goes on and nothing is paid or booked.
LEMMA OneGoesOnFree ==
  ASSUME GatewayAssumption, GatewayInv, NEW c \in Caller, NEW r \in GatCall,
         completing' = [completing EXCEPT ![c] = r], UNCHANGED <<config, lostCalls, booked, today, paid>>,
         completions' \in 0..MaxModelCalls,
         Asked(r), Sent(r), r.at # "book", completing[c].at # "book",
         config.on_exceeded = "deny" => \A t \in Task : May(r, t) <= May(completing[c], t) \/ booked[t] < PerTask
  PROVE  GatewayInv'
<1>1. completing[c] \in GatCall /\ booked \in [Task -> Nat] /\ paid \in [Task -> Nat] /\ today \in Nat
  BY DEF GatewayInv, GatTypes
<1>2. ASSUME NEW t \in Task
      PROVE  /\ Owes(r, t) = 0 /\ Owes(completing[c], t) = 0 /\ May(r, t) \in Nat /\ May(completing[c], t) \in Nat
             /\ paid[t] \in Nat /\ booked[t] \in Nat /\ paid'[t] = paid[t] /\ booked'[t] = booked[t]
  BY <1>1, OwesAre DEF Owes
<1>3. Balanced(c, r)
  BY <1>2 DEF Balanced
<1>4. Within(c, r)
  <2> SUFFICES ASSUME config.on_exceeded = "deny", NEW t \in Task
               PROVE  \/ May(r, t) + paid'[t] <= May(completing[c], t) + paid[t]
                      \/ paid'[t] = paid[t] /\ Owes(r, t) = Owes(completing[c], t) /\ booked[t] < PerTask
    BY DEF Within
  <2>1. May(r, t) <= May(completing[c], t) \/ booked[t] < PerTask
    OBVIOUS
  <2> QED
    BY <1>2, <2>1
<1>5. booked' \in [Task -> Nat] /\ paid' \in [Task -> Nat] /\ today' \in Nat
  BY <1>1
<1> QED
  BY <1>3, <1>4, <1>5, OneGoesOn

LEMMA GatReturns ==
  ASSUME GatewayAssumption, GatewayInv, NEW c \in Caller, G!Return(c),
         UNCHANGED <<config, lostCalls, booked, today, paid, completions>>,
         completing[c].at # "book"
  PROVE  GatewayInv'
<1>1. completing' = [completing EXCEPT ![c] = G!Idle] /\ completions' \in 0..MaxModelCalls
  BY DEF G!Return, GatewayInv, GatTypes
<1>2. \A t \in Task : May(G!Idle, t) <= May(completing[c], t)
  <2> SUFFICES ASSUME NEW t \in Task PROVE May(G!Idle, t) <= May(completing[c], t)
    OBVIOUS
  <2>1. May(G!Idle, t) = 0
    BY GatIdle DEF May
  <2>2. May(completing[c], t) \in Nat
    BY OwesAre DEF GatewayInv, GatTypes
  <2> QED
    BY <2>1, <2>2
<1> QED
  BY <1>1, <1>2, GatIdle, OneGoesOnFree

LEMMA CompleteStep ==
  ASSUME GatewayAssumption, GatewayInv, NEW c \in Caller,
         NEW task \in Task, NEW request \in G!Request, G!Complete(c, task, request)
  PROVE  GatewayInv'
<1> DEFINE r == [G!Idle EXCEPT !.at = "task", !.task = task, !.request = request]
<1>1. r \in GatCall /\ GatHas(r, "task", task, request, G!Idle.left, G!Idle.prepared, G!Idle.cost)
  <2>1. "task" \in GatMoments /\ request \in G!Request \cup {G!Idle.request}
    BY DEF GatMoments
  <2> QED
    BY <2>1, GatIdle, GatFields DEF GatCall
<1>2. /\ completing[c].at = "idle" /\ completing' = [completing EXCEPT ![c] = r]
      /\ UNCHANGED <<config, lostCalls, booked, today, paid>>
  BY DEF G!Complete
<1>3. completions' \in 0..MaxModelCalls
  BY DEF G!Complete, GatewayInv, GatTypes, GatewayAssumption
<1> HIDE DEF r
<1>4. Asked(r) /\ Sent(r) /\ r.at = "task"
  BY <1>1 DEF GatHas, Asked, Sent
<1>5. \A t \in Task : May(r, t) <= May(completing[c], t)
  BY <1>2, <1>4 DEF May
<1> QED
  BY <1>1, <1>2, <1>3, <1>4, <1>5, OneGoesOnFree

\* He stays at the same request, and only the moment is another.
LEMMA GatGoes ==
  ASSUME GatewayAssumption, GatewayInv, NEW c \in Caller, NEW at \in {"day", "route"}, G!Goto(c, at),
         UNCHANGED <<config, lostCalls, booked, today, paid, completions>>, completing[c].at \in {"task", "day"},
         completing[c].at = "task" /\ config.on_exceeded = "deny" => booked[completing[c].task] < PerTask
  PROVE  GatewayInv'
<1> DEFINE me == completing[c] r == [me EXCEPT !.at = at]
<1>0. completing \in [Caller -> GatCall] /\ me \in GatCall
  BY DEF GatewayInv, GatTypes
<1>1. r \in GatCall /\ GatHas(r, at, me.task, me.request, me.left, me.prepared, me.cost)
  <2>1. at \in GatMoments
    BY DEF GatMoments
  <2> HIDE DEF me
  <2> QED
    BY <1>0, <2>1, GatFields DEF GatCall
<1>2. completing' = [completing EXCEPT ![c] = r] /\ completions' \in 0..MaxModelCalls
  BY <1>0 DEF G!Goto, GatewayInv, GatTypes
<1> HIDE DEF r
<1>3. me.request \in G!Request
  BY DEF GatewayInv, AskedInv, Asked
<1>4. Asked(r) /\ Sent(r) /\ r.at # "book"
  BY <1>1, <1>3 DEF GatHas, Asked, Sent
<1>5. ASSUME config.on_exceeded = "deny", NEW t \in Task PROVE May(r, t) <= May(me, t) \/ booked[t] < PerTask
  <2>1. CASE me.task # t
    BY <1>1, <2>1 DEF GatHas, May
  <2>2. CASE me.task = t /\ me.at = "task"
    BY <1>5, <2>2
  <2>3. CASE me.task = t /\ me.at = "day"
    <3>1. May(r, t) = MaxCallCost /\ May(me, t) = MaxCallCost
      BY <1>1, <2>3 DEF GatHas, May
    <3> QED
      BY <3>1 DEF GatewayAssumption
  <2> QED
    BY <2>1, <2>2, <2>3
<1> QED
  BY <1>1, <1>2, <1>4, <1>5, OneGoesOnFree

LEMMA EnforceStep ==
  ASSUME GatewayAssumption, GatewayInv, NEW c \in Caller, G!EnforceBudget(c)
  PROVE  GatewayInv'
<1>1. UNCHANGED <<config, lostCalls, booked, today, paid, completions>> /\ completing[c].at \in {"task", "day"}
  BY DEF G!EnforceBudget
<1>2. CASE G!Return(c)
  BY <1>1, <1>2, GatReturns
<1>3. CASE /\ completing[c].at = "task" /\ G!Goto(c, "day")
           /\ ~(G!Exceeded(booked[completing[c].task], PerTask) /\ config.on_exceeded = "deny")
  <2>1. completing[c].task \in Task /\ booked \in [Task -> Nat]
    BY DEF GatewayInv, GatTypes, GatCall, Calls
  <2>2. booked[completing[c].task] \in Nat /\ PerTask \in Nat
    BY <2>1 DEF GatewayAssumption
  <2>3. config.on_exceeded = "deny" => booked[completing[c].task] < PerTask
    BY <1>3, <2>2 DEF G!Exceeded
  <2> QED
    BY <1>1, <1>3, <2>3, GatGoes
<1>4. CASE completing[c].at = "day" /\ G!Goto(c, "route")
  BY <1>1, <1>4, GatGoes
<1> QED
  BY <1>2, <1>3, <1>4 DEF G!EnforceBudget

LEMMA RouteStep ==
  ASSUME GatewayAssumption, GatewayInv, NEW c \in Caller, G!Route(c)
  PROVE  GatewayInv'
<1> DEFINE me == completing[c]
           order == G!candidates(me.request)
           left == G!ApplyOverflow(order, me.request)
           r == [me EXCEPT !.at = "try", !.left = left]
<1>1. UNCHANGED <<config, lostCalls, booked, today, paid, completions>> /\ me.at = "route"
  BY DEF G!Route
<1>2. CASE G!Return(c)
  BY <1>1, <1>2, GatReturns
<1>3. CASE order # {} /\ completing' = [completing EXCEPT ![c].at = "try", ![c].left = left]
  <2>1. completing \in [Caller -> GatCall] /\ me \in GatCall
    BY DEF GatewayInv, GatTypes
  <2>2. left # {} /\ left \subseteq order
    <3> HIDE DEF order
    <3> QED
      BY <1>3 DEF G!ApplyOverflow
  <2>3. order \subseteq DOMAIN Order /\ (me.request.external = "no" => \A i \in order : Order[i] \notin External)
    BY DEF G!candidates, G!Allows
  <2> HIDE DEF left, order
  <2>4. r \in GatCall /\ GatHas(r, "try", me.task, me.request, left, me.prepared, me.cost)
    <3>1. "try" \in GatMoments /\ left \in SUBSET DOMAIN Order
      BY <2>2, <2>3 DEF GatMoments
    <3> HIDE DEF me
    <3> QED
      BY <2>1, <3>1, GatFields DEF GatCall
  <2>5. completing' = [completing EXCEPT ![c] = r] /\ completions' \in 0..MaxModelCalls
    BY <1>1, <1>3, <2>1 DEF GatewayInv, GatTypes
  <2>6. me.request \in G!Request
    BY <1>1 DEF GatewayInv, AskedInv, Asked
  <2> HIDE DEF r
  <2>7. Asked(r) /\ Sent(r) /\ r.at = "try"
    BY <2>2, <2>3, <2>4, <2>6 DEF GatHas, Asked, Sent
  <2>8. \A t \in Task : May(r, t) = May(me, t) /\ May(me, t) \in Nat
    BY <1>1, <2>1, <2>4, OwesAre DEF GatHas, May
  <2>9. \A t \in Task : May(r, t) <= May(me, t)
    BY <2>8
  <2> QED
    BY <1>1, <2>4, <2>5, <2>7, <2>9, OneGoesOnFree
<1> QED
  BY <1>2, <1>3 DEF G!Route

LEMMA UnavailableStep ==
  ASSUME GatewayAssumption, GatewayInv, NEW c \in Caller, G!Unavailable(c)
  PROVE  GatewayInv'
<1> DEFINE me == completing[c]
           left == me.left \ {G!First(me.left)}
           r == [me EXCEPT !.at = "try", !.left = left]
<1>1. UNCHANGED <<config, lostCalls, booked, today, paid, completions>> /\ me.at = "calling"
  BY DEF G!Unavailable
<1>2. CASE G!Return(c)
  BY <1>1, <1>2, GatReturns
<1>3. CASE left # {} /\ completing' = [completing EXCEPT ![c].at = "try", ![c].left = left]
  <2>1. completing \in [Caller -> GatCall] /\ me \in GatCall /\ me.left \subseteq DOMAIN Order
    BY DEF GatewayInv, GatTypes, GatCall, Calls
  <2>2. left \subseteq me.left
    OBVIOUS
  <2>3. me.request \in G!Request /\ (me.request.external = "no" => \A i \in me.left : Order[i] \notin External)
    BY <1>1 DEF GatewayInv, AskedInv, Asked
  <2> HIDE DEF left
  <2>4. r \in GatCall /\ GatHas(r, "try", me.task, me.request, left, me.prepared, me.cost)
    <3>1. "try" \in GatMoments /\ left \in SUBSET DOMAIN Order
      BY <2>1, <2>2 DEF GatMoments
    <3> HIDE DEF me
    <3> QED
      BY <2>1, <3>1, GatFields DEF GatCall
  <2>5. completing' = [completing EXCEPT ![c] = r] /\ completions' \in 0..MaxModelCalls
    BY <1>1, <1>3, <2>1 DEF GatewayInv, GatTypes
  <2> HIDE DEF r
  <2>6. Asked(r) /\ Sent(r) /\ r.at = "try"
    BY <1>3, <2>2, <2>3, <2>4 DEF GatHas, Asked, Sent
  <2>7. \A t \in Task : May(r, t) = May(me, t) /\ May(me, t) \in Nat
    BY <1>1, <2>1, <2>4, OwesAre DEF GatHas, May
  <2>8. \A t \in Task : May(r, t) <= May(me, t)
    BY <2>7
  <2> QED
    BY <1>1, <2>4, <2>5, <2>6, <2>8, OneGoesOnFree
<1> QED
  BY <1>2, <1>3 DEF G!Unavailable

\* What is put on the way at the boundary has the same sizes, and nothing private where that is withheld.
LEMMA BoundaryKeeps ==
  ASSUME NEW p, NEW m \in Seq(MessageRecord), NEW safe, safe = G!Boundary(p, m)
  PROVE  /\ DOMAIN safe = DOMAIN m
         /\ \A i \in DOMAIN m : /\ safe[i] \in MessageRecord /\ safe[i].size = m[i].size
                                /\ p \in External /\ config.external_ai = "restricted" => ~safe[i].private
<1>1. \A i \in DOMAIN m : m[i] \in MessageRecord
  OBVIOUS
<1>2. CASE p \in External /\ config.external_ai = "restricted"
  <2>1. safe = [i \in DOMAIN m |-> [m[i] EXCEPT !.private = FALSE]]
    BY <1>2 DEF G!Boundary, G!sanitize
  <2>2. \A r \in MessageRecord : /\ [r EXCEPT !.private = FALSE] \in MessageRecord
                            /\ [r EXCEPT !.private = FALSE].size = r.size
                            /\ ~[r EXCEPT !.private = FALSE].private
    BY DEF MessageRecord
  <2> QED
    BY <1>1, <2>1, <2>2
<1>3. CASE ~(p \in External /\ config.external_ai = "restricted")
  <2>1. safe = m
    BY <1>3 DEF G!Boundary
  <2> QED
    BY <1>1, <1>3, <2>1
<1> QED
  BY <1>2, <1>3

LEMMA FirstIsLeft ==
  ASSUME NEW left, left \subseteq DOMAIN Order, left # {}, GatewayAssumption
  PROVE  G!First(left) \in left /\ Order[G!First(left)] \in G!Provider
<1>1. left \subseteq Nat
  BY DEF GatewayAssumption
<1>2. \E i \in left : \A j \in left : i <= j
  BY <1>1, LeastNumber
<1>3. G!First(left) \in left
  BY <1>2 DEF G!First
<1> QED
  BY <1>3 DEF G!Provider

LEMMA TryStep ==
  ASSUME GatewayAssumption, GatewayInv, NEW c \in Caller, G!Try(c)
  PROVE  GatewayInv'
<1> DEFINE me == completing[c]
           p == Order[G!First(me.left)]
           m == me.request.messages
           safe == G!Boundary(p, m)
           ids == IF G!Fits(p, me.request) THEN DOMAIN safe ELSE G!truncate_to_fit(p, me.request)
           cut == [i \in ids |-> safe[i]]
           r == [me EXCEPT !.at = "calling", !.prepared = cut]
<1>1. UNCHANGED <<config, lostCalls, booked, today, paid, completions>> /\ me.at = "try"
  BY DEF G!Try
<1>2. \/ G!Return(c)
      \/ /\ ~(p \in External /\ config.external_ai = "forbidden")
         /\ completing' = [completing EXCEPT ![c].at = "calling", ![c].prepared = cut]
  BY DEF G!Try
<1>3. CASE G!Return(c)
  BY <1>1, <1>3, GatReturns
<1>4. CASE /\ ~(p \in External /\ config.external_ai = "forbidden")
           /\ completing' = [completing EXCEPT ![c].at = "calling", ![c].prepared = cut]
  <2>1. completing \in [Caller -> GatCall] /\ me \in GatCall /\ me.left \subseteq DOMAIN Order
    BY DEF GatewayInv, GatTypes, GatCall, Calls
  <2>2. me.request \in G!Request /\ Asked(me) /\ me.left # {}
    BY <1>1 DEF GatewayInv, AskedInv, Asked
  <2>3. p \in G!Provider
    BY <2>1, <2>2, FirstIsLeft
  <2>4. m \in Seq(MessageRecord) /\ DOMAIN m \subseteq Nat
    BY <2>2 DEF GatewayAssumption, G!Request, MessageRecord
  <2>5. /\ DOMAIN safe = DOMAIN m
        /\ \A i \in DOMAIN m : /\ safe[i] \in MessageRecord /\ safe[i].size = m[i].size
                               /\ p \in External /\ config.external_ai = "restricted" => ~safe[i].private
    BY <2>4, BoundaryKeeps
  <2>6. /\ ids \subseteq DOMAIN m
        /\ ids # DOMAIN m => ~G!Fits(p, me.request) /\ CutWell(m, ids, G!Budget(p, me.request))
    <3>1. CASE G!Fits(p, me.request)
      BY <2>5, <3>1
    <3>2. CASE ~G!Fits(p, me.request)
      <4>1. ids = G!truncate_to_fit(p, me.request)
        BY <3>2
      <4> HIDE DEF ids
      <4>2. CASE ids = DOMAIN m
        BY <4>2
      <4>3. CASE ids # DOMAIN m
        BY <2>2, <2>3, <3>2, <4>1, <4>3, TruncatesWell
      <4> QED
        BY <4>2, <4>3
    <3> QED
      BY <3>1, <3>2
  <2> HIDE DEF ids, safe
  <2>7. DOMAIN cut = ids /\ \A i \in ids : cut[i] = safe[i] /\ i \in DOMAIN m
    BY <2>6
  <2>8. cut \in Prepared
    <3>1. cut \in [ids -> MessageRecord] /\ ids \in SUBSET Nat
      BY <2>4, <2>5, <2>6
    <3> HIDE DEF cut
    <3> QED
      BY <3>1 DEF Prepared, SomeMessages
  <2> HIDE DEF cut
  <2>9. r \in GatCall /\ GatHas(r, "calling", me.task, me.request, me.left, cut, me.cost)
    <3>1. "calling" \in GatMoments
      BY DEF GatMoments
    <3> HIDE DEF me
    <3> QED
      BY <2>1, <2>8, <3>1, GatFields DEF GatCall
  <2>10. completing' = [completing EXCEPT ![c] = r] /\ completions' \in 0..MaxModelCalls
    BY <1>1, <1>4, <2>1 DEF GatewayInv, GatTypes
  <2> HIDE DEF r
  <2>11. Asked(r) /\ r.at = "calling"
    BY <1>1, <2>2, <2>9 DEF GatHas, Asked
  <2>12. Sent(r)
    <3>1. /\ p \in External => /\ config.external_ai # "forbidden"
                               /\ config.external_ai = "restricted" => \A i \in ids : ~cut[i].private
          /\ \A i \in ids : i \in DOMAIN m /\ cut[i].size = m[i].size
          /\ ids # DOMAIN m => ~G!Fits(p, me.request) /\ CutWell(m, ids, G!Budget(p, me.request))
      BY <1>4, <2>5, <2>6, <2>7
    <3>2. r.prepared = cut /\ r.left = me.left /\ r.request = me.request /\ DOMAIN r.prepared = ids
      BY <2>7, <2>9 DEF GatHas
    <3> QED
      BY <3>1, <3>2 DEF Sent
  <2>13. \A t \in Task : May(r, t) = May(me, t) /\ May(me, t) \in Nat
    BY <1>1, <2>1, <2>9, OwesAre DEF GatHas, May
  <2>14. \A t \in Task : May(r, t) <= May(me, t)
    BY <2>13
  <2> QED
    BY <1>1, <2>9, <2>10, <2>11, <2>12, <2>14, OneGoesOnFree
<1> QED
  BY <1>2, <1>3, <1>4

LEMMA AddedAt ==
  ASSUME NEW D, NEW f \in [D -> Nat], NEW t \in D, NEW n \in Nat
  PROVE  /\ [f EXCEPT ![t] = @ + n] \in [D -> Nat]
         /\ \A u \in D : [f EXCEPT ![t] = @ + n][u] = IF u = t THEN f[u] + n ELSE f[u]
<1>1. f[t] \in Nat
  OBVIOUS
<1>2. f[t] + n \in Nat
  BY <1>1
<1> QED
  BY <1>2

LEMMA AnswerStep ==
  ASSUME GatewayAssumption, GatewayInv, NEW c \in Caller, NEW cost \in 1..MaxCallCost, G!Answer(c, cost)
  PROVE  GatewayInv'
<1> DEFINE me == completing[c] r == [me EXCEPT !.at = "book", !.cost = cost]
<1>1. /\ UNCHANGED <<config, lostCalls, booked, today, completions>> /\ me.at = "calling"
      /\ paid' = [paid EXCEPT ![me.task] = @ + cost]
      /\ completing' = [completing EXCEPT ![c].at = "book", ![c].cost = cost]
  BY DEF G!Answer
<1>2. completing \in [Caller -> GatCall] /\ me \in GatCall /\ me.task \in Task
  BY DEF GatewayInv, GatTypes, GatCall, Calls
<1>3. MaxCallCost \in Nat /\ cost \in Nat /\ cost <= MaxCallCost /\ cost \in 0..MaxCallCost
  BY DEF GatewayAssumption
<1>4. r \in GatCall /\ GatHas(r, "book", me.task, me.request, me.left, me.prepared, cost)
  <2>1. "book" \in GatMoments
    BY DEF GatMoments
  <2> HIDE DEF me
  <2> QED
    BY <1>2, <1>3, <2>1, GatFields DEF GatCall
<1>5. completing' = [completing EXCEPT ![c] = r]
  BY <1>1, <1>2
<1> HIDE DEF r
<1>6. me.request \in G!Request
  BY <1>1 DEF GatewayInv, AskedInv, Asked
<1>7. Asked(r) /\ Sent(r)
  BY <1>4, <1>6 DEF GatHas, Asked, Sent
<1>8. booked' \in [Task -> Nat] /\ today' \in Nat /\ completions' \in 0..MaxModelCalls /\ booked' = booked
  BY <1>1 DEF GatewayInv, GatTypes
<1>9. paid \in [Task -> Nat] /\ booked \in [Task -> Nat]
  BY DEF GatewayInv, GatTypes
<1>10. paid' \in [Task -> Nat] /\ \A t \in Task : paid'[t] = IF t = me.task THEN paid[t] + cost ELSE paid[t]
  <2>1. paid \in [Task -> Nat] /\ me.task \in Task /\ cost \in Nat
    BY <1>2, <1>3, <1>9
  <2>2. paid' = [paid EXCEPT ![me.task] = @ + cost]
    BY <1>1
  <2> HIDE DEF me
  <2> QED
    BY <2>1, <2>2, AddedAt
<1>11. \A t \in Task : /\ Owes(me, t) = 0 /\ May(r, t) = 0
                       /\ Owes(r, t) = (IF t = me.task THEN cost ELSE 0)
                       /\ May(me, t) = (IF t = me.task THEN MaxCallCost ELSE 0)
  BY <1>1, <1>4 DEF Owes, May, GatHas
<1>12. \A t \in Task : paid[t] \in Nat /\ booked[t] \in Nat
  BY <1>9
<1>13. Balanced(c, r)
  <2> SUFFICES ASSUME NEW t \in Task PROVE paid'[t] + Owes(me, t) + booked[t] <= paid[t] + booked'[t] + Owes(r, t)
    BY DEF Balanced
  <2> DEFINE p == paid[t] b == booked[t]
  <2>1. p \in Nat /\ b \in Nat /\ booked'[t] = b /\ Owes(me, t) = 0
    BY <1>8, <1>11, <1>12
  <2>2. \/ paid'[t] = p + cost /\ Owes(r, t) = cost
        \/ paid'[t] = p /\ Owes(r, t) = 0
    BY <1>10, <1>11
  <2> HIDE DEF p, b, me
  <2>3. CASE paid'[t] = p + cost /\ Owes(r, t) = cost
    <3>1. (p + cost) + 0 + b <= p + b + cost
      BY <1>3, <2>1
    <3> QED
      BY <2>1, <2>3, <3>1 DEF p, b
  <2>4. CASE paid'[t] = p /\ Owes(r, t) = 0
    <3>1. p + 0 + b <= p + b + 0
      BY <2>1
    <3> QED
      BY <2>1, <2>4, <3>1 DEF p, b
  <2> QED
    BY <2>2, <2>3, <2>4
<1>14. Within(c, r)
  BY <1>3, <1>10, <1>11, <1>12 DEF Within
<1> QED
  BY <1>1, <1>4, <1>5, <1>7, <1>8, <1>10, <1>13, <1>14, OneGoesOn

LEMMA BookStep ==
  ASSUME GatewayAssumption, GatewayInv, NEW c \in Caller, G!Book(c)
  PROVE  GatewayInv'
<1> DEFINE me == completing[c]
<1>1. /\ UNCHANGED <<config, lostCalls, paid, completions>> /\ me.at = "book"
      /\ booked' = [booked EXCEPT ![me.task] = @ + me.cost] /\ today' = today + me.cost
      /\ completing' = [completing EXCEPT ![c] = G!Idle]
  BY DEF G!Book, G!Return
<1>2. me.task \in Task /\ me.cost \in Nat /\ today \in Nat
  BY DEF GatewayInv, GatTypes, GatCall, Calls, GatewayAssumption
<1>3. paid \in [Task -> Nat] /\ booked \in [Task -> Nat] /\ paid' \in [Task -> Nat] /\ completions' \in 0..MaxModelCalls
  BY <1>1 DEF GatewayInv, GatTypes
<1>4. booked' \in [Task -> Nat] /\ \A t \in Task : booked'[t] = IF t = me.task THEN booked[t] + me.cost ELSE booked[t]
  <2> HIDE DEF me
  <2>1. booked \in [Task -> Nat] /\ me.task \in Task /\ me.cost \in Nat
    BY <1>2, <1>3
  <2>2. booked' = [booked EXCEPT ![me.task] = @ + me.cost]
    BY <1>1
  <2> QED
    BY <2>1, <2>2, AddedAt
<1>5. \A t \in Task : /\ Owes(G!Idle, t) = 0 /\ May(G!Idle, t) = 0 /\ May(me, t) = 0
                      /\ Owes(me, t) = IF t = me.task THEN me.cost ELSE 0
  BY <1>1, GatIdle DEF Owes, May
<1>6. \A t \in Task : paid[t] \in Nat /\ booked[t] \in Nat /\ paid'[t] = paid[t]
  BY <1>1, <1>3
<1> HIDE DEF me
<1>7. Balanced(c, G!Idle)
  <2> SUFFICES ASSUME NEW t \in Task PROVE paid'[t] + Owes(me, t) + booked[t] <= paid[t] + booked'[t] + Owes(G!Idle, t)
    BY DEF Balanced, me
  <2> DEFINE p == paid[t] b == booked[t] cost == me.cost
  <2>1. p \in Nat /\ b \in Nat /\ cost \in Nat /\ paid'[t] = p /\ Owes(G!Idle, t) = 0
    BY <1>2, <1>5, <1>6
  <2>2. \/ booked'[t] = b + cost /\ Owes(me, t) = cost
        \/ booked'[t] = b /\ Owes(me, t) = 0
    BY <1>4, <1>5
  <2> HIDE DEF p, b, cost
  <2> QED
    BY <2>1, <2>2 DEF p, b
<1>8. Within(c, G!Idle)
  BY <1>5, <1>6 DEF Within, me
<1>9. today' \in Nat
  BY <1>1, <1>2
<1> QED
  BY <1>1, <1>3, <1>4, <1>7, <1>8, <1>9, GatIdle, OneGoesOn

\* A crash: what was owed is lost.
LEMMA GatewayCrashStep ==
  ASSUME GatewayAssumption, GatewayInv, G!Crash
  PROVE  GatewayInv'
<1> DEFINE new == completing' under == MaxCallCost * Callers
<1>1. /\ new = [c \in Caller |-> G!Idle] /\ UNCHANGED <<config, booked, today, paid, completions>>
      /\ lostCalls < MaxModelCrashes /\ lostCalls' = lostCalls + 1
  BY DEF G!Crash
<1>2. new \in [Caller -> GatCall] /\ \A c \in Caller : new[c] = G!Idle
  BY <1>1, GatIdle
<1>3. GatTypes'
  BY <1>1, <1>2 DEF GatewayInv, GatTypes, GatewayAssumption
<1>4. AskedInv'
  <2>1. \A c \in Caller : completing'[c].at = "idle"
    BY <1>2, GatIdle
  <2> QED
    BY <2>1 DEF AskedInv, Asked, Sent
<1>5. Callers \in Nat /\ MaxCallCost \in Nat /\ PerTask \in Nat /\ lostCalls \in Nat
  BY NthIs DEF GatewayAssumption, GatewayInv, GatTypes
<1>6. under \in Nat /\ Lost \in Nat /\ Lost' \in Nat /\ Lost' = Lost + under
  <2>1. under \in Nat
    BY <1>5
  <2>2. under * (lostCalls + 1) = under * lostCalls + under /\ under * lostCalls \in Nat
    <3> HIDE DEF under
    <3> QED
      BY <1>5, <2>1
  <2> QED
    BY <1>1, <2>1, <2>2 DEF Lost
<1> HIDE DEF new
<1>7. \A t \in Task : OwedOf(new, t) = 0 /\ AheadOf(new, t) = 0
  <2>1. \A c \in Caller : new[c].at = "idle"
    BY <1>2, GatIdle
  <2> QED
    BY <1>2, <2>1, OwedAtRest
<1>8. ASSUME NEW t \in Task
      PROVE  /\ paid'[t] <= booked'[t] + OwedOf(new, t) + Lost'
             /\ config.on_exceeded = "deny" => paid'[t] + AheadOf(new, t) < PerTask + under + Lost'
  <2>1. completing \in [Caller -> GatCall] /\ paid[t] \in Nat /\ booked[t] \in Nat
    BY DEF GatewayInv, GatTypes
  <2>2. /\ OwedOf(completing, t) \in Nat /\ AheadOf(completing, t) \in Nat
        /\ OwedOf(completing, t) + AheadOf(completing, t) <= under
    BY <2>1, OwedBounded
  <2>3. paid[t] <= booked[t] + OwedOf(completing, t) + Lost
    BY DEF GatewayInv, PaidInv, Owed
  <2>4. config.on_exceeded = "deny" => paid[t] + AheadOf(completing, t) < PerTask + under + Lost
    BY DEF GatewayInv, BoundInv, Ahead
  <2> DEFINE p == paid[t] b == booked[t] o == OwedOf(completing, t) a == AheadOf(completing, t)
  <2>5. p \in Nat /\ b \in Nat /\ o \in Nat /\ a \in Nat /\ o + a <= under /\ p <= b + o + Lost
        /\ (config.on_exceeded = "deny" => p + a < PerTask + under + Lost)
    BY <2>1, <2>2, <2>3, <2>4
  <2> HIDE DEF p, b, o, a, under, Lost
  <2>6. p <= b + 0 + (Lost + under)
    BY <1>6, <2>5
  <2>7. config.on_exceeded = "deny" => p + 0 < PerTask + under + (Lost + under)
    BY <1>5, <1>6, <2>5
  <2>8. paid'[t] = p /\ booked'[t] = b
    BY <1>1 DEF p, b
  <2> QED
    BY <1>6, <1>7, <2>6, <2>7, <2>8
<1>9. PaidInv' /\ BoundInv'
  <2>1. \A t \in Task : paid'[t] <= booked'[t] + OwedOf(completing', t) + Lost'
    BY <1>8 DEF new
  <2>2. config'.on_exceeded = "deny" =>
          \A t \in Task : paid'[t] + AheadOf(completing', t) < PerTask + MaxCallCost * Callers + Lost'
    BY <1>1, <1>8 DEF new
  <2>3. PaidInv'
    BY <2>1 DEF PaidInv, Owed
  <2> QED
    BY <2>2, <2>3 DEF BoundInv, Ahead
<1> QED
  BY <1>3, <1>4, <1>9 DEF GatewayInv

LEMMA GatewayInit == ASSUME GatewayAssumption, G!Init PROVE GatewayInv
<1>1. /\ config \in G!Config /\ booked = [t \in Task |-> 0] /\ today = 0 /\ paid = [t \in Task |-> 0]
      /\ completing = [c \in Caller |-> G!Idle] /\ completions = 0 /\ lostCalls = 0
  BY DEF G!Init
<1>2. completing \in [Caller -> GatCall] /\ \A c \in Caller : completing[c] = G!Idle
  BY <1>1, GatIdle
<1>3. GatTypes
  BY <1>1, <1>2 DEF GatTypes, GatewayAssumption
<1>4. AskedInv
  BY <1>2, GatIdle DEF AskedInv
<1>5. Callers \in Nat \ {0} /\ MaxCallCost \in Nat \ {0} /\ PerTask \in Nat
  BY NthIs DEF GatewayAssumption
<1>6. \A t \in Task : Owed(t) = 0 /\ Ahead(t) = 0 /\ paid[t] = 0 /\ booked[t] = 0
  <2>1. \A c \in Caller : completing[c].at = "idle"
    BY <1>2, GatIdle
  <2>2. \A t \in Task : OwedOf(completing, t) = 0 /\ AheadOf(completing, t) = 0
    BY <1>2, <2>1, OwedAtRest
  <2> QED
    BY <1>1, <2>2 DEF Owed, Ahead
<1>7. MaxCallCost * Callers \in Nat \ {0}
  BY <1>5
<1>8. Lost = 0
  <2> DEFINE under == MaxCallCost * Callers
  <2>1. under \in Nat
    BY <1>7
  <2> HIDE DEF under
  <2>2. under * 0 = 0
    BY <2>1
  <2> QED
    BY <1>1, <2>2 DEF Lost, under
<1>9. PaidInv
  BY <1>6, <1>8 DEF PaidInv
<1>10. BoundInv
  BY <1>5, <1>6, <1>7, <1>8 DEF BoundInv
<1> QED
  BY <1>3, <1>4, <1>9, <1>10 DEF GatewayInv

\* Another day: what was booked today is forgotten, and nothing else.
LEMMA NewDayStep == ASSUME GatewayInv, G!NewDay PROVE GatewayInv'
<1>1. today' = 0 /\ UNCHANGED <<config, booked, paid, completing, completions, lostCalls>>
  BY DEF G!NewDay
<1>2. GatTypes'
  BY <1>1 DEF GatewayInv, GatTypes
<1>3. AskedInv'
  BY <1>1 DEF GatewayInv, AskedInv, Asked, Sent
<1>4. PaidInv' /\ BoundInv'
  BY <1>1 DEF GatewayInv, PaidInv, BoundInv, Owed, Ahead, Lost
<1> QED
  BY <1>2, <1>3, <1>4 DEF GatewayInv

LEMMA GatewayStays == ASSUME GatewayInv, UNCHANGED G!vars PROVE GatewayInv'
<1>1. UNCHANGED <<config, booked, today, paid, completing, completions, lostCalls>>
  BY DEF G!vars
<1>2. GatTypes'
  BY <1>1 DEF GatewayInv, GatTypes
<1>3. AskedInv'
  BY <1>1 DEF GatewayInv, AskedInv, Asked, Sent
<1>4. PaidInv' /\ BoundInv'
  BY <1>1 DEF GatewayInv, PaidInv, BoundInv, Owed, Ahead, Lost
<1> QED
  BY <1>2, <1>3, <1>4 DEF GatewayInv

LEMMA GatewayInvariant == G!Spec => []GatewayInv
<1>1. ASSUME G!Init PROVE GatewayInv
  BY <1>1, GatewayInit, GatewayAssumption
<1>2. ASSUME GatewayInv, [G!Next]_(G!vars) PROVE GatewayInv'
  <2>1. ASSUME NEW c \in Caller, NEW task \in Task, NEW request \in G!Request, G!Complete(c, task, request) PROVE GatewayInv'
    BY <1>2, <2>1, CompleteStep, GatewayAssumption
  <2>2. ASSUME NEW c \in Caller, G!EnforceBudget(c) PROVE GatewayInv'
    BY <1>2, <2>2, EnforceStep, GatewayAssumption
  <2>3. ASSUME NEW c \in Caller, G!Route(c) PROVE GatewayInv'
    BY <1>2, <2>3, RouteStep, GatewayAssumption
  <2>4. ASSUME NEW c \in Caller, G!Try(c) PROVE GatewayInv'
    BY <1>2, <2>4, TryStep, GatewayAssumption
  <2>5. ASSUME NEW c \in Caller, G!Book(c) PROVE GatewayInv'
    BY <1>2, <2>5, BookStep, GatewayAssumption
  <2>6. ASSUME NEW c \in Caller, G!Unavailable(c) PROVE GatewayInv'
    BY <1>2, <2>6, UnavailableStep, GatewayAssumption
  <2>7. ASSUME NEW c \in Caller, NEW cost \in 1..MaxCallCost, G!Answer(c, cost) PROVE GatewayInv'
    BY <1>2, <2>7, AnswerStep, GatewayAssumption
  <2>8. CASE G!NewDay
    BY <1>2, <2>8, NewDayStep
  <2>9. CASE G!Crash
    BY <1>2, <2>9, GatewayCrashStep, GatewayAssumption
  <2>10. CASE UNCHANGED G!vars
    BY <1>2, <2>10, GatewayStays
  <2> QED
    BY <1>2, <2>1, <2>2, <2>3, <2>4, <2>5, <2>6, <2>7, <2>8, <2>9, <2>10 DEF G!Next
<1> QED
  BY <1>1, <1>2, PTL DEF G!Spec

LEMMA GatewayHolds == ASSUME GatewayAssumption, GatewayInv PROVE ModelsAreGoverned
<1>1. G!TypeOK
  BY DEF GatewayInv, GatTypes, GatCall, Calls, GatMoments, G!TypeOK
<1>2. G!OverrunIsBounded
  <2>0. G!Cardinality(Caller) = Callers
    BY DEF G!Cardinality, Cardinality, Callers
  <2> SUFFICES ASSUME config.on_exceeded = "deny", NEW t \in Task
               PROVE  paid[t] < PerTask + (MaxCallCost * Callers) * (1 + lostCalls)
    BY <2>0 DEF G!OverrunIsBounded
  <2> DEFINE under == MaxCallCost * Callers a == Ahead(t)
  <2>1. under \in Nat /\ lostCalls \in Nat /\ PerTask \in Nat /\ paid[t] \in Nat
    BY NthIs DEF GatewayAssumption, GatewayInv, GatTypes
  <2>2. a \in Nat
    BY OwedBounded DEF GatewayInv, GatTypes, Ahead
  <2>3. paid[t] + a < PerTask + under + under * lostCalls
    BY DEF GatewayInv, BoundInv, Lost
  <2> HIDE DEF under, a
  <2>4. under * lostCalls \in Nat /\ under * (1 + lostCalls) = under + under * lostCalls
    BY <2>1
  <2>5. paid[t] < PerTask + (under + under * lostCalls)
    <3> DEFINE late == under * lostCalls
    <3> HIDE DEF late
    <3> QED
      BY <2>1, <2>2, <2>3, <2>4 DEF late
  <2> QED
    BY <2>4, <2>5 DEF under
<1>3. ASSUME NEW c \in G!Calling
      PROVE  /\ c \in Caller /\ completing[c].at = "calling" /\ Asked(completing[c]) /\ Sent(completing[c])
             /\ completing[c].request \in G!Request
             /\ completing[c].left \subseteq DOMAIN Order /\ completing[c].left # {}
             /\ G!First(completing[c].left) \in completing[c].left
  <2>1. c \in Caller /\ completing[c].at = "calling"
    BY DEF G!Calling
  <2>2. Asked(completing[c]) /\ Sent(completing[c]) /\ completing[c] \in GatCall
    BY <2>1 DEF GatewayInv, AskedInv, GatTypes
  <2>3. completing[c].request \in G!Request /\ completing[c].left # {} /\ completing[c].left \subseteq DOMAIN Order
    BY <2>1, <2>2 DEF Asked, GatCall, Calls
  <2> QED
    BY <2>1, <2>2, <2>3, FirstIsLeft
<1>4. G!DataStaysInside
  <2> SUFFICES ASSUME NEW c \in G!Calling, Order[G!First(completing[c].left)] \in External
               PROVE  /\ config.external_ai # "forbidden" /\ completing[c].request.external # "no"
                      /\ config.external_ai = "restricted" =>
                           \A i \in DOMAIN completing[c].prepared : ~completing[c].prepared[i].private
    BY DEF G!DataStaysInside
  <2>1. completing[c].request.external # "no"
    BY <1>3 DEF Asked
  <2> QED
    BY <1>3, <2>1 DEF Sent
<1>5. G!TailIsKept
  <2> SUFFICES ASSUME NEW c \in G!Calling
               PROVE  LET request == completing[c].request
                          p == Order[G!First(completing[c].left)]
                          m == request.messages
                          sent == DOMAIN completing[c].prepared
                      IN  /\ \A i \in sent : i \in DOMAIN m /\ completing[c].prepared[i].size = m[i].size
                          /\ sent # DOMAIN m => ~G!Fits(p, request) /\ CutWell(m, sent, G!Budget(p, request))
    BY DEF G!TailIsKept, CutWell
  <2> QED
    BY <1>3 DEF Sent
<1> QED
  BY <1>1, <1>2, <1>4, <1>5 DEF ModelsAreGoverned

\* Every answer a provider gives is paid for: with several callers at once, with
\* providers that fail and with crashes before the cost is booked, a task whose
\* budget denies is paid for less than its limit and one call more for each
\* caller, and each crash adds as much again; whichever provider is next when one
\* was unavailable, none outside is asked where the rules or the request forbid
\* it, nor sent anything private where that is restricted; and what is cut from a
\* conversation is its middle (models/gateway.py, security/data_boundary.py).
THEOREM ModelsGoverned == G!Spec => []ModelsAreGoverned
<1>1. GatewayInv => ModelsAreGoverned
  BY GatewayHolds, GatewayAssumption
<1> QED
  BY <1>1, GatewayInvariant, PTL
=============================================================================
