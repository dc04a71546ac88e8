-------------------------- MODULE ReleaseGovernance -------------------------
(***************************************************************************)
(* Promotion of artifacts along development, staging, production           *)
(* (ReleaseManager in release/manager.py, the gates of release/gates.py,   *)
(* the manifest of release/signature.py and the revisions of               *)
(* release/versions.py).                                                   *)
(*                                                                         *)
(* A release is one row, read whole, worked on and saved whole by each     *)
(* call; the artifacts are files of the workspace, read and written in     *)
(* between.  Calls come from the threads of the server and from CLI        *)
(* processes, and may overlap or die anywhere.                             *)
(***************************************************************************)
EXTENDS Integers, Sequences, FiniteSets

CONSTANTS
  Artifact, NoArtifact,
  Content,             \* what an artifact may contain, its environment line apart
  Clean,               \* contents in which the scan finds nothing critical
  Declared,            \* environments that an edited file may declare
  Human,               \* those with a role that may vote
  Release, Request,    \* releases, and what each is created for
  Required,            \* votes that promotion to an environment takes
  Signing,             \* environments that need a signature
  Caller,
  MaxEdits, MaxEvaluations, MaxAccidents   \* bounds

Environment == {"development", "staging", "production"}
Target == {"staging", "production"}

ASSUME ReleaseAssumption ==
  /\ NoArtifact \notin Artifact
  /\ Clean \subseteq Content
  /\ Request \in [Release -> [items : (SUBSET Artifact) \ {{}}, target : Target, author : Human]]
  /\ Required \in [Target -> Nat \ {0}]
  /\ Signing \subseteq Environment /\ Declared \subseteq Environment
  /\ {MaxEdits, MaxEvaluations, MaxAccidents} \subseteq Nat

VARIABLES
  files,               \* the artifacts in the workspace
  versions,            \* table artifact_versions: the revisions of each, oldest first
  evaluations,         \* whether each evaluation of an artifact passed, oldest first
  rows,                \* table releases
  caller,              \* the calls in progress
  applied,             \* ghost: what deployments wrote
  overlaps,            \* ghost: how often somebody acted while a call was in progress
  edits, crashes       \* how many of them (an evaluation that is judged counts as an edit)

vars == <<files, versions, evaluations, rows, caller, applied, overlaps, edits, crashes>>

-----------------------------------------------------------------------------
rank == [development |-> 0, staging |-> 1, production |-> 2]

File == [content : Content, env : Environment]

\* An artifact that does not exist counts as one in development.
NoFile == [env |-> "development"]

\* The evidence of a release is, for each item, an evaluation, or none.
Evidence == [Artifact -> SUBSET Nat]
Unsigned == [a \in Artifact |-> {-1}]

ReleaseStatus == {"draft", "submitted", "approved", "deployed", "rejected", "rolled_back"}

\* A release captures a revision of each item, and the file it is of.  Of its
\* manifest only the evidence ever changes: that of the last gates, that which
\* was approved and that which was signed are kept.
Item == [revision : Nat, file : File \cup {NoFile}]
NoItem == [revision |-> 0, file |-> NoFile]

Row == [status : ReleaseStatus,
        items : [Artifact -> Item],
        evidence : Evidence,
        votes : SUBSET Human,
        vetoed : BOOLEAN,
        approved : Evidence \cup {Unsigned},
        signed : Evidence \cup {Unsigned}]

NoRow == [status |-> "none"]

Operation == {"create", "check", "submit", "approve", "reject", "sign", "deploy", "rollback"}

\* A call: where it is, its copy of the row, the items it has still to work
\* on, the one it is at, and the version it is about to save.
Call == [pc : {"check", "save", "write", "environment", "snapshot", "version"},
         op : Operation, rel : Release, who : Human, copy : Row,
         todo : SUBSET Artifact, at : Artifact \cup {NoArtifact},
         new : {<<>>} \cup (Nat \X File)]

NoCall == [pc |-> "idle"]

Items(r) == Request[r].items
TargetOf(r) == Request[r].target
Idle(c) == caller[c] = NoCall

TypeOK ==
  /\ files \in [Artifact -> File \cup {NoFile}]
  /\ versions \in [Artifact -> Seq(File)]
  /\ evaluations \in [Artifact -> Seq(BOOLEAN)]
  /\ rows \in [Release -> Row \cup {NoRow}]
  /\ caller \in [Caller -> Call \cup {NoCall}]
  /\ applied \subseteq [rel : Release, art : Artifact, file : File]
  /\ overlaps \in Nat
  /\ edits \in Nat /\ crashes \in Nat

-----------------------------------------------------------------------------
\* _evidence_ids: the newest evaluation of each item that passed.
Passed(a) == {i \in DOMAIN evaluations[a] : evaluations[a][i]}
EvidenceOf(r) ==
  [a \in Artifact |-> {i \in Passed(a) : a \in Items(r) /\ \A j \in Passed(a) : j <= i}]

\* The ladder, from the environment the captured file declares.
OneStepUp(r, row) ==
  \A a \in Items(r) : rank[TargetOf(r)] - rank[row.items[a].file.env] = 1

InStaging_Any(a) ==            \* mutant: the status of the release is not looked at
  \E q \in Release : rows[q] # NoRow /\ TargetOf(q) = "staging" /\ a \in Items(q)

\* _deployed_to: some release of the artifact is deployed to staging.
InStaging(a) ==
  \E q \in Release : rows[q].status = "deployed" /\ TargetOf(q) = "staging" /\ a \in Items(q)

\* gates.evaluate, as far as it can refuse: evaluation and scan are of the
\* artifact as it is in the workspace now.
Clear(r, row) ==
  /\ OneStepUp(r, row)
  /\ TargetOf(r) = "production" => \A a \in Items(r) : InStaging(a)
  /\ \A a \in Items(r) :
       files[a] # NoFile /\ Len(evaluations[a]) \in Passed(a) /\ files[a].content \in Clean

Approvers_All(r, votes) == votes   \* mutant: the author's vote counts

\* With a quorum of more than one, the author's vote does not count.
Approvers(r, votes) ==
  IF Required[TargetOf(r)] > 1 THEN votes \ {Request[r].author} ELSE votes

\* quorum: enough of them, and no veto.
Complete(r, row) ==
  /\ Cardinality(Approvers(r, row.votes)) >= Required[TargetOf(r)]
  /\ ~row.vetoed

Promotable_Signed(r, row) ==   \* mutant: only the signature is verified
  TargetOf(r) \in Signing => row.signed = row.evidence

\* _verify_promotion: nothing changed since the votes, nor since the signature.
Promotable(r, row) ==
  /\ row.approved \in {Unsigned, row.evidence}
  /\ TargetOf(r) \in Signing => row.signed = row.evidence

-----------------------------------------------------------------------------
Busy == \E c \in Caller : ~Idle(c)

\* What MaxAccidents bounds.
Accidents == overlaps + crashes

Overlap ==
  IF Busy THEN Accidents < MaxAccidents /\ overlaps' = overlaps + 1 ELSE UNCHANGED overlaps

Goto(c, call) == caller' = [caller EXCEPT ![c] = call]
Return(c) == Goto(c, NoCall)
Save(c, row) == rows' = [rows EXCEPT ![caller[c].rel] = row]

\* A call begins.
Begin(c, pc, op, r, h, copy, todo) ==
  /\ Idle(c)
  /\ Goto(c, [pc |-> pc, op |-> op, rel |-> r, who |-> h, copy |-> copy,
              todo |-> todo, at |-> NoArtifact, new |-> <<>>])
  /\ Overlap
  /\ UNCHANGED <<files, versions, evaluations, rows, applied, edits, crashes>>

\* create: the items are captured one by one, and the row is inserted.
Create(c, r) ==
  /\ rows[r] = NoRow /\ ~\E d \in Caller : ~Idle(d) /\ caller[d].rel = r
  /\ Begin(c, "snapshot", "create", r, Request[r].author,
           [status |-> "draft", items |-> [a \in Artifact |-> NoItem], evidence |-> EvidenceOf(r), votes |-> {}, vetoed |-> FALSE,
            approved |-> Unsigned, signed |-> Unsigned],
           Items(r))

Load_Missing(c, op, r) ==      \* mutant: a release that does not exist is not refused
  /\ op \in {"check", "submit", "deploy"}
  /\ Begin(c, "check", op, r, Request[r].author, rows[r], {})

\* The calls that run the gates again: check, submit, deploy.
Load(c, op, r) ==
  /\ op \in {"check", "submit", "deploy"} /\ rows[r] # NoRow
  /\ Begin(c, "check", op, r, Request[r].author, rows[r], {})

\* approve: while it is submitted (then nobody has refused), and once for each human.
LoadVote(c, r, h) ==
  /\ rows[r].status = "submitted" /\ h \notin rows[r].votes
  /\ Begin(c, "save", "approve", r, h, rows[r], {})

LoadVeto_Late(c, r) ==         \* mutant: also after deployment
  /\ rows[r] # NoRow /\ rows[r].status # "rolled_back"
  /\ Begin(c, "save", "reject", r, Request[r].author, rows[r], {})

LoadVeto(c, r) ==
  /\ rows[r] # NoRow /\ rows[r].status \notin {"deployed", "rolled_back"}
  /\ Begin(c, "save", "reject", r, Request[r].author, rows[r], {})

LoadSign(c, r) ==
  /\ rows[r] # NoRow /\ rows[r].status \notin {"draft", "rejected", "rolled_back"}
  /\ Begin(c, "save", "sign", r, Request[r].author, rows[r], {})

LoadRollback(c, r) ==
  /\ rows[r].status = "deployed"
  /\ Begin(c, "write", "rollback", r, Request[r].author, rows[r], Items(r))

-----------------------------------------------------------------------------
\* check: gates and evidence anew, saved with the rest of the copy; submit and
\* deploy go on from there, or are refused.
Check(c) ==
  LET call == caller[c]
      r == call.rel
      row == [call.copy EXCEPT !.evidence = EvidenceOf(r)]
  IN
  /\ call.pc = "check"
  /\ Save(c, row)
  /\ \/ /\ call.op = "submit" /\ row.status = "draft" /\ Clear(r, row)
        /\ Goto(c, [call EXCEPT !.pc = "save", !.copy = row])
     \/ /\ call.op = "deploy" /\ row.status = "approved" /\ Clear(r, row) /\ Promotable(r, row)
        /\ Goto(c, [call EXCEPT !.pc = "write", !.copy = row, !.todo = Items(r)])
     \/ /\ \/ call.op = "check"
           \/ call.op = "submit" /\ ~(row.status = "draft" /\ Clear(r, row))
           \/ call.op = "deploy"
              /\ ~(row.status = "approved" /\ Clear(r, row) /\ Promotable(r, row))
        /\ Return(c)
  /\ UNCHANGED <<files, versions, evaluations, applied, overlaps, edits, crashes>>

\* What the call makes of its copy when it saves it for the last time.
Submitted(row) == [row EXCEPT !.status = "submitted"]

Voted(r, row, h) ==
  LET voted == [row EXCEPT !.votes = @ \cup {h}] IN
  IF Complete(r, voted)
  THEN [voted EXCEPT !.status = "approved", !.approved = row.evidence]
  ELSE voted

Vetoed(row) == [row EXCEPT !.vetoed = TRUE, !.status = "rejected"]

Signed(row) == [row EXCEPT !.signed = row.evidence]

SaveCall(c) ==
  LET call == caller[c] IN
  /\ call.pc = "save"
  /\ \/ call.op = "submit" /\ Save(c, Submitted(call.copy))
     \/ call.op = "approve" /\ Save(c, Voted(call.rel, call.copy, call.who))
     \/ call.op = "reject" /\ Save(c, Vetoed(call.copy))
     \/ call.op = "sign" /\ Save(c, Signed(call.copy))
  /\ Return(c)
  /\ UNCHANGED <<files, versions, evaluations, applied, overlaps, edits, crashes>>

\* The row of a new release, of one whose items are all written, or restored.
SaveWhole(c) ==
  LET call == caller[c] IN
  /\ call.pc \in {"snapshot", "write"} /\ call.todo = {}
  /\ \/ call.pc = "snapshot" /\ call.op = "create"
        /\ Save(c, [call.copy EXCEPT !.evidence = EvidenceOf(call.rel)])
     \/ call.pc = "write" /\ call.op = "deploy" /\ Save(c, [call.copy EXCEPT !.status = "deployed"])
     \/ call.pc = "write" /\ call.op = "rollback"
        /\ Save(c, [call.copy EXCEPT !.status = "rolled_back"])
  /\ Return(c)
  /\ UNCHANGED <<files, versions, evaluations, applied, overlaps, edits, crashes>>

-----------------------------------------------------------------------------
WriteItem_Newest(c, a) ==      \* mutant: the newest revision, not the captured one
  LET call == caller[c] IN
  /\ call.pc = "write" /\ a \in call.todo /\ call.copy.items[a] # NoItem
  /\ files' = [files EXCEPT ![a] = versions[a][Len(versions[a])]]
  /\ Goto(c, [call EXCEPT !.pc = "environment", !.at = a, !.todo = @ \ {a}])
  /\ UNCHANGED <<versions, evaluations, rows, applied, overlaps, edits, crashes>>

\* deploy and restore write the content of the captured revision ...
WriteItem(c, a) ==
  LET call == caller[c] IN
  /\ call.pc = "write" /\ a \in call.todo /\ call.copy.items[a] # NoItem
  /\ files' = [files EXCEPT ![a] = versions[a][call.copy.items[a].revision]]
  /\ Goto(c, [call EXCEPT !.pc = "environment", !.at = a, !.todo = @ \ {a}])
  /\ UNCHANGED <<versions, evaluations, rows, applied, overlaps, edits, crashes>>

\* (an artifact that was missing then stops the deployment where it is) ...
WriteNothing(c, a) ==
  LET call == caller[c] IN
  /\ call.pc = "write" /\ a \in call.todo /\ call.copy.items[a] = NoItem
  /\ Return(c)
  /\ UNCHANGED <<files, versions, evaluations, rows, applied, overlaps, edits, crashes>>

SetEnvironment_Target(c) ==    \* mutant: a rollback leaves the environment of the target
  LET call == caller[c]
      a == call.at
      deploy == call.op = "deploy"
      file == [files[a] EXCEPT !.env = TargetOf(call.rel)]
  IN
  /\ call.pc = "environment"
  /\ files' = [files EXCEPT ![a] = file]
  /\ applied' = IF deploy THEN applied \cup {[rel |-> call.rel, art |-> a, file |-> file]} ELSE applied
  /\ Goto(c, [call EXCEPT !.pc = IF deploy THEN "snapshot" ELSE "write",
                          !.at = IF deploy THEN a ELSE NoArtifact])
  /\ UNCHANGED <<versions, evaluations, rows, overlaps, edits, crashes>>

\* ... and set_environment rewrites the line of whatever is there.
SetEnvironment(c) ==
  LET call == caller[c]
      a == call.at
      deploy == call.op = "deploy"
      env == IF deploy THEN TargetOf(call.rel) ELSE call.copy.items[a].file.env
      file == [files[a] EXCEPT !.env = env]
  IN
  /\ call.pc = "environment"
  /\ files' = [files EXCEPT ![a] = file]
  /\ applied' = IF deploy THEN applied \cup {[rel |-> call.rel, art |-> a, file |-> file]} ELSE applied
  /\ Goto(c, [call EXCEPT !.pc = IF deploy THEN "snapshot" ELSE "write",
                          !.at = IF deploy THEN a ELSE NoArtifact])
  /\ UNCHANGED <<versions, evaluations, rows, overlaps, edits, crashes>>

\* A version is known to the call: create captures it, deploy only keeps it.
Versioned(c, a, revision, file) ==
  LET call == caller[c]
      idle == [call EXCEPT !.at = NoArtifact, !.new = <<>>, !.todo = @ \ {a}]
  IN IF call.op = "create"
     THEN Goto(c, [idle EXCEPT !.pc = "snapshot",
                              !.copy.items[a] = [revision |-> revision, file |-> file]])
     ELSE Goto(c, [idle EXCEPT !.pc = "write"])

\* snapshot: nothing new (or nothing at all), or the number of the next revision.
ReadVersion(c, a) ==
  LET call == caller[c]
      last == Len(versions[a])
  IN
  /\ call.pc = "snapshot"
  /\ a \in IF call.op = "create" THEN call.todo ELSE {call.at}
  /\ IF files[a] = NoFile THEN Versioned(c, a, 0, NoFile)
     ELSE IF last > 0 /\ versions[a][last] = files[a] THEN Versioned(c, a, last, files[a])
     ELSE Goto(c, [call EXCEPT !.pc = "version", !.at = a, !.new = <<last + 1, files[a]>>])
  /\ UNCHANGED <<files, versions, evaluations, rows, applied, overlaps, edits, crashes>>

\* The row of a revision is inserted, or written over.
SaveVersion(c) ==
  LET call == caller[c]
      a == call.at
      revision == call.new[1]
      file == call.new[2]
  IN
  /\ call.pc = "version"
  /\ versions' = [versions EXCEPT ![a] =
        IF revision \in DOMAIN @ THEN [@ EXCEPT ![revision] = file] ELSE Append(@, file)]
  /\ Versioned(c, a, revision, file)
  /\ UNCHANGED <<files, evaluations, rows, applied, overlaps, edits, crashes>>

-----------------------------------------------------------------------------
\* The workbench applies a proposal, or somebody edits: nothing looks at the
\* environment the new content declares.
Edit(a, content, env) ==
  /\ edits < MaxEdits /\ edits' = edits + 1
  /\ files' = [files EXCEPT ![a] = [content |-> content, env |-> env]]
  /\ Overlap
  /\ UNCHANGED <<versions, evaluations, rows, caller, applied, crashes>>

\* An evaluation of the artifact ends: it has failed when there is a critical
\* finding, or no artifact.
Evaluate(a, passed) ==
  /\ Len(evaluations[a]) < MaxEvaluations
  /\ passed => files[a] # NoFile /\ files[a].content \in Clean
  /\ evaluations' = [evaluations EXCEPT ![a] = Append(@, passed)]
  /\ Overlap
  /\ UNCHANGED <<files, versions, rows, caller, applied, edits, crashes>>

\* One that passed is judged afterwards, and falls short of min_quality.
Judge(a) ==
  /\ edits < MaxEdits /\ edits' = edits + 1
  /\ \E i \in Passed(a) : evaluations' = [evaluations EXCEPT ![a][i] = FALSE]
  /\ Overlap
  /\ UNCHANGED <<files, versions, rows, caller, applied, crashes>>

\* The process of a call dies.
Crash(c) ==
  /\ Accidents < MaxAccidents /\ crashes' = crashes + 1
  /\ ~Idle(c) /\ Return(c)
  /\ UNCHANGED <<files, versions, evaluations, rows, applied, overlaps, edits>>

Init ==
  /\ files \in [Artifact -> [content : Content, env : {"development"}] \cup {NoFile}]
  /\ versions = [a \in Artifact |-> <<>>]
  /\ evaluations = [a \in Artifact |-> <<>>]
  /\ rows = [r \in Release |-> NoRow]
  /\ caller = [c \in Caller |-> NoCall]
  /\ applied = {} /\ overlaps = 0
  /\ edits = 0 /\ crashes = 0

Start(c) ==
  \E r \in Release :
    \/ Create(c, r)
    \/ \E op \in Operation : Load(c, op, r)
    \/ \E h \in Human : LoadVote(c, r, h)
    \/ LoadVeto(c, r) \/ LoadSign(c, r)
    \/ LoadRollback(c, r)

Step(c) ==
  \/ Check(c) \/ SaveCall(c) \/ SaveWhole(c)
  \/ SetEnvironment(c) \/ SaveVersion(c)
  \/ \E a \in Artifact : WriteItem(c, a) \/ WriteNothing(c, a) \/ ReadVersion(c, a)

Next ==
  \/ \E c \in Caller : Start(c) \/ Step(c) \/ Crash(c)
  \/ \E a \in Artifact, content \in Content, env \in Declared : Edit(a, content, env)
  \/ \E a \in Artifact, passed \in BOOLEAN : Evaluate(a, passed)
  \/ \E a \in Artifact : Judge(a)

Spec == Init /\ [][Next]_vars

-----------------------------------------------------------------------------
\* A quorum of its own votes, none of them a refusal, stands behind every
\* release that was approved, whatever calls overlapped on its row.
ApprovalIsEarned ==
  \A r \in Release :
    rows[r].status \in {"approved", "deployed", "rolled_back"} =>
      LET required == Required[TargetOf(r)] IN
      /\ rows[r].votes # {} /\ ~rows[r].vetoed
      /\ required > 1 => Cardinality(rows[r].votes \ {Request[r].author}) >= required

\* A deployment that is recorded carries the evidence that was voted on and,
\* where a signature is asked for, signed: whatever was evaluated, voted or
\* signed while it was under way.
DeployedAsApproved ==
  [][\A c \in Caller :
       LET call == caller[c] IN
       call.pc = "write" /\ call.op = "deploy" /\ caller'[c] = NoCall /\ rows' # rows =>
         LET row == rows'[call.rel] IN
         /\ row.status = "deployed" /\ row.evidence = row.approved
         /\ TargetOf(call.rel) \in Signing => row.evidence = row.signed]_<<rows, caller>>

\* "Conteudo aprovado e conteudo aplicado" (docs/PHASE13_LACUNAS_FECHADAS.md,
\* 4.4): a deployment writes what create captured for the votes, declared for
\* the target, and nothing else, while calls do not overlap.
AppliedAsCaptured ==
  overlaps = 0 =>
    \A x \in applied :
      x.file = [rows[x.rel].items[x.art].file EXCEPT !.env = TargetOf(x.rel)]

\* "Nada chega a producao sem passar por staging" (ADR-033), artifact by
\* artifact (gates.py, "estagio"): one that is written for production was written
\* for staging before, by a deployment, whatever overlaps, dies or is rolled back.
ProductionWasStaged ==
  \A x \in applied : TargetOf(x.rel) = "production" =>
    \E y \in applied : TargetOf(y.rel) = "staging" /\ y.art = x.art

\* release/manager.py deploy: what is written was captured for the votes, and
\* what is written for production was written for staging before.
AppliedInOrder == AppliedAsCaptured /\ ProductionWasStaged

\* A rollback leaves every item as create captured it, its environment
\* included, also after one that died half way.
RollbackIsExact ==
  [][\A r \in Release :
       rows[r].status = "deployed" /\ rows'[r].status = "rolled_back" /\ overlaps = 0 =>
         \A a \in Items(r) : files[a] = rows[r].items[a].file]_rows

\* The life of a release (docs/PHASE9_GOVERNANCE.md, 2), while calls do not
\* overlap: what was refused or rolled back stays so.
Lifecycle == {<<"none", "draft">>, <<"draft", "submitted">>, <<"submitted", "approved">>,
              <<"approved", "deployed">>, <<"deployed", "rolled_back">>}
             \cup {<<s, "rejected">> : s \in {"draft", "submitted", "approved"}}

FollowsLifecycle ==
  [][\A r \in Release :
       rows'[r].status # rows[r].status /\ overlaps = 0 =>
         <<rows[r].status, rows'[r].status>> \in Lifecycle]_rows

\* "A varredura de seguranca nao tem achado critico" (release/gates.py): what a
\* deployment writes passed the scan.
DeployedWasClean == \A x \in applied : x.file.content \in Clean
=============================================================================
