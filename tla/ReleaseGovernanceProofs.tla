----------------------- MODULE ReleaseGovernanceProofs ----------------------
(***************************************************************************)
(* What holds of promotions for any number of releases, artifacts, voters  *)
(* and overlapping calls: an approval was earned, what is deployed is what *)
(* was approved (and signed, where that is asked for), and nothing is      *)
(* written for production that was not written for staging; and while      *)
(* calls do not overlap, though they may die anywhere, what is written is  *)
(* what was captured, a rollback puts it back, and releases follow their   *)
(* lifecycle.                                                              *)
(***************************************************************************)
EXTENDS ReleaseGovernance, FiniteSetTheorems, TLAPS

-----------------------------------------------------------------------------
(* Types *)

\* The rows a call saves are rows.
LEMMA RowTypes ==
  ASSUME TypeOK, NEW r \in Release, NEW row \in Row, NEW h \in Human
  PROVE  /\ EvidenceOf(r) \in Evidence
         /\ [row EXCEPT !.evidence = EvidenceOf(r)] \in Row
         /\ Submitted(row) \in Row /\ Voted(r, row, h) \in Row
         /\ Vetoed(row) \in Row /\ Signed(row) \in Row
         /\ [row EXCEPT !.status = "deployed"] \in Row
         /\ [row EXCEPT !.status = "rolled_back"] \in Row
<1>1. EvidenceOf(r) \in Evidence
  BY DEF TypeOK, EvidenceOf, Evidence, Passed
<1>2. /\ [row EXCEPT !.evidence = EvidenceOf(r)] \in Row
      /\ Submitted(row) \in Row /\ Vetoed(row) \in Row /\ Signed(row) \in Row
      /\ [row EXCEPT !.status = "deployed"] \in Row
      /\ [row EXCEPT !.status = "rolled_back"] \in Row
  BY <1>1 DEF Row, ReleaseStatus, Submitted, Vetoed, Signed
<1>3. Voted(r, row, h) \in Row
  <2> DEFINE voted == [row EXCEPT !.votes = @ \cup {h}]
  <2>1. voted \in Row
    BY DEF Row
  <2>2. [voted EXCEPT !.status = "approved", !.approved = row.evidence] \in Row
    BY <2>1 DEF Row, ReleaseStatus
  <2> QED
    BY <2>1, <2>2 DEF Voted
<1> QED
  BY <1>1, <1>2, <1>3

\* A call that is not idle is a call.
LEMMA CallTypes ==
  ASSUME TypeOK, NEW c \in Caller, ~Idle(c)
  PROVE  caller[c] \in Call
BY DEF TypeOK, Idle

\* Where a caller goes, the others stay; types are kept.
LEMMA GotoTypes ==
  ASSUME TypeOK, NEW c \in Caller, NEW call \in Call \cup {NoCall}, Goto(c, call)
  PROVE  /\ caller' \in [Caller -> Call \cup {NoCall}]
         /\ caller'[c] = call
         /\ \A d \in Caller \ {c} : caller'[d] = caller[d]
BY DEF TypeOK, Goto

LEMMA SaveTypes ==
  ASSUME TypeOK, NEW c \in Caller, ~Idle(c), NEW row \in Row, Save(c, row)
  PROVE  /\ rows' \in [Release -> Row \cup {NoRow}]
         /\ caller[c].rel \in Release
         /\ rows'[caller[c].rel] = row
         /\ \A r \in Release \ {caller[c].rel} : rows'[r] = rows[r]
<1>1. caller[c].rel \in Release
  BY CallTypes DEF Call
<1> QED
  BY <1>1 DEF TypeOK, Save

LEMMA BeginTypes ==
  ASSUME TypeOK, NEW c \in Caller, NEW r \in Release, NEW h \in Human, NEW copy \in Row,
         NEW pc \in {"check", "save", "write", "snapshot"}, NEW op \in Operation,
         NEW todo \in SUBSET Artifact, Begin(c, pc, op, r, h, copy, todo)
  PROVE  TypeOK'
<1> DEFINE call == [pc |-> pc, op |-> op, rel |-> r, who |-> h, copy |-> copy,
                    todo |-> todo, at |-> NoArtifact, new |-> <<>>]
<1>1. call \in Call
  BY DEF Call
<1>2. caller' \in [Caller -> Call \cup {NoCall}]
  BY <1>1, GotoTypes DEF Begin
<1>3. overlaps' \in Nat
  BY DEF Begin, Overlap, TypeOK
<1> QED
  BY <1>2, <1>3 DEF Begin, TypeOK

-----------------------------------------------------------------------------
(* The inductive invariant *)

\* Items are captured from revisions that exist.
Captured(items) ==
  \A a \in Artifact : items[a] # NoItem => items[a].revision \in 1..Len(versions[a])

\* What ApprovalIsEarned says of one row, saved or in the hands of a call, and
\* that its evidence was noted.
Earned(r, row) ==
  row.status \in {"approved", "deployed", "rolled_back"} =>
    /\ row.votes # {} /\ ~row.vetoed /\ row.approved # Unsigned
    /\ Required[TargetOf(r)] > 1 =>
         Cardinality(row.votes \ {Request[r].author}) >= Required[TargetOf(r)]

\* A call that is past its guards still holds the row that they let through.
Guarded(call) ==
  /\ call.op = "create" => call.copy.status = "draft"
  /\ call.op = "approve" => call.copy.status = "submitted"
  /\ call.op = "rollback" => call.copy.status = "deployed"
  /\ call.op = "deploy" /\ call.pc # "check" =>
       call.copy.status = "approved" /\ Promotable(call.rel, call.copy)

\* The file that is at hand exists, and the revision about to be saved is of a
\* file, and at most the next.
AtHand(call) ==
  /\ call.pc = "environment" => call.at \in Artifact /\ files[call.at] \in File
  /\ call.pc = "version" =>
       /\ call.at \in Artifact
       /\ call.new \in Nat \X File
       /\ call.new[1] \in 1..(Len(versions[call.at]) + 1)

RowsInv == \A r \in Release : rows[r] # NoRow => Captured(rows[r].items) /\ Earned(r, rows[r])

CallInv(call) ==
  call # NoCall =>
    Captured(call.copy.items) /\ Earned(call.rel, call.copy) /\ Guarded(call) /\ AtHand(call)

CallsInv == \A c \in Caller : CallInv(caller[c])

IInv == TypeOK /\ RowsInv /\ CallsInv

-----------------------------------------------------------------------------
(* What is kept *)

\* No revision and no file is ever deleted.
Grows ==
  \A a \in Artifact :
    Len(versions'[a]) >= Len(versions[a]) /\ (files[a] \in File => files'[a] \in File)

\* Rows that are not written keep the invariant.
LEMMA RowsStay ==
  ASSUME IInv, Grows, TypeOK', UNCHANGED rows
  PROVE  RowsInv'
<1> SUFFICES ASSUME NEW r \in Release, rows[r] # NoRow
             PROVE  Captured(rows[r].items)' /\ Earned(r, rows[r])
  BY DEF RowsInv, Earned
<1>1. rows[r] \in Row /\ Captured(rows[r].items) /\ Earned(r, rows[r])
  BY DEF IInv, TypeOK, RowsInv
<1>2. \A a \in Artifact : rows[r].items[a].revision \in Nat
  BY <1>1 DEF Row, Item
<1>3. \A a \in Artifact : Len(versions[a]) \in Nat /\ Len(versions'[a]) \in Nat
  BY DEF IInv, TypeOK
<1> QED
  BY <1>1, <1>2, <1>3 DEF Captured, Grows

\* So does a call that stays where it is, whatever the others do.
LEMMA CallStays ==
  ASSUME IInv, Grows, TypeOK', NEW d \in Caller, caller'[d] = caller[d]
  PROVE  CallInv(caller[d])'
<1> SUFFICES ASSUME caller[d] # NoCall
             PROVE  CallInv(caller[d])'
  BY DEF CallInv
<1>1. caller[d] \in Call /\ caller'[d] = caller[d] /\ CallInv(caller[d])
  BY DEF IInv, TypeOK, CallsInv
<1>2. \A a \in Artifact : Len(versions[a]) \in Nat /\ Len(versions'[a]) \in Nat
  BY DEF IInv, TypeOK
<1>3. Captured(caller[d].copy.items)'
  <2>1. \A a \in Artifact : caller[d].copy.items[a].revision \in Nat
    BY <1>1 DEF Call, Row, Item
  <2> QED
    BY <1>1, <1>2, <2>1 DEF CallInv, Captured, Grows
<1>4. AtHand(caller[d])'
  BY <1>1, <1>2 DEF CallInv, AtHand, Grows
<1> QED
  BY <1>1, <1>3, <1>4 DEF CallInv, Earned, Guarded, Promotable

LEMMA OthersStay ==
  ASSUME IInv, Grows, TypeOK', NEW c \in Caller, CallInv(caller[c])',
         \A d \in Caller \ {c} : caller'[d] = caller[d]
  PROVE  CallsInv'
BY CallStays DEF CallsInv

-----------------------------------------------------------------------------
(* The steps *)

\* An approval that is noted can be told from one that is not.
LEMMA EvidenceIsNoted ==
  ASSUME NEW r \in Release, NEW e \in Evidence
  PROVE  e # Unsigned
<1>1. PICK a \in Items(r) : a \in Artifact
  BY ReleaseAssumption DEF Items
<1> QED
  BY <1>1 DEF Evidence, Unsigned

\* A call begins with a row that is saved, under the guards of its operation.
LEMMA BeginInv ==
  ASSUME IInv, NEW c \in Caller, NEW r \in Release, NEW h \in Human, NEW copy \in Row,
         NEW pc \in {"check", "save", "write", "snapshot"}, NEW op \in Operation,
         NEW todo \in SUBSET Artifact, Begin(c, pc, op, r, h, copy, todo),
         Captured(copy.items), Earned(r, copy),
         op = "create" => copy.status = "draft",
         op = "approve" => copy.status = "submitted",
         op = "rollback" => copy.status = "deployed",
         op = "deploy" => pc = "check"
  PROVE  IInv'
<1> DEFINE call == [pc |-> pc, op |-> op, rel |-> r, who |-> h, copy |-> copy,
                    todo |-> todo, at |-> NoArtifact, new |-> <<>>]
<1>1. TypeOK'
  BY BeginTypes DEF IInv
<1>2. Grows /\ UNCHANGED <<rows, versions, files>>
  BY DEF Begin, Grows, IInv, TypeOK
<1>3. caller'[c] = call /\ \A d \in Caller \ {c} : caller'[d] = caller[d]
  BY DEF Begin, Goto, IInv, TypeOK
<1>4. CallInv(caller[c])'
  <2>1. Captured(copy.items)'
    BY <1>2 DEF Captured
  <2>2. Guarded(call)
    BY DEF Guarded
  <2>3. call.pc # "environment" /\ call.pc # "version" /\ call.rel = r /\ call.copy = copy
    OBVIOUS
  <2> HIDE DEF call
  <2> QED
    BY <1>3, <2>1, <2>2, <2>3 DEF CallInv, AtHand, Earned, Guarded, Promotable
<1> QED
  BY <1>1, <1>2, <1>3, <1>4, RowsStay, OthersStay DEF IInv

\* A call that ends saves a row, or nothing.
LEMMA ReturnInv ==
  ASSUME IInv, NEW c \in Caller, ~Idle(c), Return(c),
         UNCHANGED <<files, versions, evaluations, applied, overlaps, edits>>, crashes' \in Nat,
         \/ UNCHANGED rows
         \/ \E row \in Row : Save(c, row) /\ Captured(row.items) /\ Earned(caller[c].rel, row)
  PROVE  IInv'
<1>1. Grows
  BY DEF Grows, IInv, TypeOK
<1>2. caller' \in [Caller -> Call \cup {NoCall}] /\ caller'[c] = NoCall
      /\ \A d \in Caller \ {c} : caller'[d] = caller[d]
  BY DEF Return, Goto, IInv, TypeOK
<1>3. CASE UNCHANGED rows
  <2>1. TypeOK'
    BY <1>2, <1>3 DEF IInv, TypeOK
  <2> QED
    BY <1>1, <1>2, <1>3, <2>1, RowsStay, OthersStay DEF IInv, CallInv
<1>4. CASE \E row \in Row : Save(c, row) /\ Captured(row.items) /\ Earned(caller[c].rel, row)
  <2>1. PICK row \in Row : Save(c, row) /\ Captured(row.items) /\ Earned(caller[c].rel, row)
    BY <1>4
  <2>2. /\ rows' \in [Release -> Row \cup {NoRow}]
        /\ rows'[caller[c].rel] = row
        /\ \A r \in Release \ {caller[c].rel} : rows'[r] = rows[r]
    BY <2>1, SaveTypes DEF IInv
  <2>3. TypeOK'
    BY <1>2, <2>2 DEF IInv, TypeOK
  <2>4. RowsInv'
    BY <2>1, <2>2 DEF IInv, RowsInv, Captured, Earned
  <2> QED
    BY <1>1, <1>2, <2>3, <2>4, OthersStay DEF IInv, CallInv
<1> QED
  BY <1>3, <1>4

\* Whatever a call begins with keeps the invariant.
LEMMA StartInv ==
  ASSUME IInv, NEW c \in Caller, Start(c)
  PROVE  IInv'
<1>1. PICK r \in Release :
        \/ Create(c, r)
        \/ \E op \in Operation : Load(c, op, r)
        \/ \E h \in Human : LoadVote(c, r, h)
        \/ LoadVeto(c, r) \/ LoadSign(c, r)
        \/ LoadRollback(c, r)
  BY DEF Start
<1>2. Request[r].author \in Human /\ Items(r) \in SUBSET Artifact
  BY ReleaseAssumption DEF Items
<1>3. rows[r] # NoRow => rows[r] \in Row /\ Captured(rows[r].items) /\ Earned(r, rows[r])
  BY DEF IInv, TypeOK, RowsInv
<1>4. NoRow.status = "none"
  BY DEF NoRow
<1>5. CASE Create(c, r)
  <2> DEFINE row == [status |-> "draft", items |-> [a \in Artifact |-> NoItem], evidence |-> EvidenceOf(r),
                     votes |-> {}, vetoed |-> FALSE, approved |-> Unsigned, signed |-> Unsigned]
  <2>1. EvidenceOf(r) \in Evidence
    BY DEF EvidenceOf, Evidence, IInv, TypeOK, Passed
  <2>2. row \in Row
    BY <2>1 DEF Row, ReleaseStatus, Item, NoItem
  <2>3. Captured(row.items) /\ Earned(r, row) /\ row.status = "draft"
    BY DEF Captured, Earned
  <2>4. Begin(c, "snapshot", "create", r, Request[r].author, row, Items(r))
    BY <1>5 DEF Create
  <2> HIDE DEF row
  <2> QED
    BY <1>2, <2>2, <2>3, <2>4, BeginInv DEF Operation
<1>6. CASE \E op \in Operation : Load(c, op, r)
  BY <1>2, <1>3, <1>6, BeginInv DEF Load, Operation
<1>7. CASE \E h \in Human : LoadVote(c, r, h)
  BY <1>3, <1>4, <1>7, BeginInv DEF LoadVote, Operation
<1>8. CASE LoadVeto(c, r)
  BY <1>2, <1>3, <1>8, BeginInv DEF LoadVeto, Operation
<1>9. CASE LoadSign(c, r)
  BY <1>2, <1>3, <1>9, BeginInv DEF LoadSign, Operation
<1>10. CASE LoadRollback(c, r)
  BY <1>2, <1>3, <1>4, <1>10, BeginInv DEF LoadRollback, Operation
<1> QED
  BY <1>1, <1>5, <1>6, <1>7, <1>8, <1>9, <1>10

\* The gates, run again, change the evidence of a row and nothing else.
LEMMA CheckInv ==
  ASSUME IInv, NEW c \in Caller, Check(c)
  PROVE  IInv'
<1> DEFINE call == caller[c]
           r == call.rel
           row == [call.copy EXCEPT !.evidence = EvidenceOf(r)]
<1>1. ~Idle(c) /\ call \in Call /\ CallInv(call) /\ call # NoCall
  BY DEF Check, Idle, NoCall, IInv, TypeOK, CallsInv
<1>2. r \in Release /\ call.copy \in Row /\ row \in Row
  BY <1>1, RowTypes DEF Call, IInv
<1>3. Captured(row.items) /\ Earned(r, row) /\ Save(c, row)
  BY <1>1, <1>2 DEF CallInv, Earned, Row, Check
<1>4. CASE Return(c)
  BY <1>1, <1>2, <1>3, <1>4, ReturnInv DEF Check, IInv, TypeOK
<1>5. ASSUME NEW new \in Call, Goto(c, new), new.rel = r, new.copy = row, new.op = call.op,
             new.pc \in {"save", "write"}, Guarded(new)
      PROVE  IInv'
  <2>1. Grows /\ UNCHANGED versions
    BY DEF Check, Grows, IInv, TypeOK
  <2>2. /\ caller' \in [Caller -> Call \cup {NoCall}] /\ caller'[c] = new
        /\ \A d \in Caller \ {c} : caller'[d] = caller[d]
    BY <1>5 DEF Goto, IInv, TypeOK
  <2>3. /\ rows' \in [Release -> Row \cup {NoRow}] /\ rows'[r] = row
        /\ \A q \in Release \ {r} : rows'[q] = rows[q]
    BY <1>2, <1>3 DEF Save, IInv, TypeOK
  <2>4. TypeOK'
    BY <2>2, <2>3 DEF Check, IInv, TypeOK
  <2>5. RowsInv'
    BY <1>3, <2>1, <2>3 DEF IInv, RowsInv, Captured, Earned
  <2>6. CallInv(caller[c])'
    <3> HIDE DEF row, r, call
    <3> QED
      BY <1>3, <1>5, <2>1, <2>2 DEF CallInv, Captured, Earned, Guarded, Promotable, AtHand
  <2> QED
    BY <2>1, <2>2, <2>4, <2>5, <2>6, OthersStay DEF IInv
<1>6. CASE call.op = "submit" /\ row.status = "draft" /\ Clear(r, row)
           /\ Goto(c, [call EXCEPT !.pc = "save", !.copy = row])
  <2> DEFINE new == [call EXCEPT !.pc = "save", !.copy = row]
  <2>1. new \in Call /\ new.rel = r /\ new.copy = row /\ new.op = call.op /\ new.pc = "save"
    BY <1>1, <1>2 DEF Call
  <2>2. Guarded(new)
    BY <1>6, <2>1 DEF Guarded
  <2> QED
    BY <1>5, <1>6, <2>1, <2>2
<1>7. CASE call.op = "deploy" /\ row.status = "approved" /\ Clear(r, row) /\ Promotable(r, row)
           /\ Goto(c, [call EXCEPT !.pc = "write", !.copy = row, !.todo = Items(r)])
  <2> DEFINE new == [call EXCEPT !.pc = "write", !.copy = row, !.todo = Items(r)]
  <2>1. new \in Call /\ new.rel = r /\ new.copy = row /\ new.op = call.op /\ new.pc = "write"
    BY <1>1, <1>2, ReleaseAssumption DEF Call, Items
  <2>2. Guarded(new)
    BY <1>7, <2>1 DEF Guarded
  <2> QED
    BY <1>5, <1>7, <2>1, <2>2
<1> QED
  BY <1>4, <1>6, <1>7 DEF Check

\* What a call saves last was earned.
LEMMA SaveCallInv ==
  ASSUME IInv, NEW c \in Caller, SaveCall(c)
  PROVE  IInv'
<1> DEFINE call == caller[c]
           r == call.rel
<1>1. ~Idle(c) /\ call \in Call /\ CallInv(call) /\ call # NoCall
  BY DEF SaveCall, Idle, NoCall, IInv, TypeOK, CallsInv
<1>2. r \in Release /\ call.copy \in Row /\ call.who \in Human
  BY <1>1 DEF Call
<1>3. Captured(call.copy.items) /\ Earned(r, call.copy) /\ Guarded(call)
  BY <1>1 DEF CallInv
<1>4. Submitted(call.copy) \in Row /\ Captured(Submitted(call.copy).items)
      /\ Earned(r, Submitted(call.copy))
  BY <1>2, <1>3, RowTypes DEF IInv, Submitted, Earned, Row
<1>5. ASSUME call.op = "approve"
      PROVE  /\ Voted(r, call.copy, call.who) \in Row
             /\ Captured(Voted(r, call.copy, call.who).items)
             /\ Earned(r, Voted(r, call.copy, call.who))
  <2> DEFINE voted == [call.copy EXCEPT !.votes = @ \cup {call.who}]
             row == [voted EXCEPT !.status = "approved", !.approved = call.copy.evidence]
  <2>1. call.copy.status = "submitted"
    BY <1>3, <1>5 DEF Guarded
  <2>2. /\ voted.status = "submitted" /\ voted.items = call.copy.items
        /\ row.items = call.copy.items /\ row.votes = voted.votes /\ row.vetoed = voted.vetoed
        /\ row.approved = call.copy.evidence /\ row.votes = call.copy.votes \cup {call.who}
    BY <1>2, <2>1 DEF Row
  <2>3. row.approved # Unsigned
    BY <1>2, <2>2, EvidenceIsNoted DEF Row
  <2>4. Complete(r, voted) => Earned(r, row)
    BY <2>2, <2>3 DEF Complete, Approvers, Earned
  <2>5. Earned(r, voted)
    BY <2>2 DEF Earned
  <2>6. Voted(r, call.copy, call.who) = IF Complete(r, voted) THEN row ELSE voted
    BY <1>2 DEF Voted, Row
  <2>7. Voted(r, call.copy, call.who) \in Row
    BY <1>2, RowTypes DEF IInv
  <2> QED
    BY <1>3, <2>2, <2>4, <2>5, <2>6, <2>7
<1>6. Vetoed(call.copy) \in Row /\ Captured(Vetoed(call.copy).items)
      /\ Earned(r, Vetoed(call.copy))
  BY <1>2, <1>3, RowTypes DEF IInv, Vetoed, Earned, Row
<1>7. Signed(call.copy) \in Row /\ Captured(Signed(call.copy).items)
      /\ Earned(r, Signed(call.copy))
  BY <1>2, <1>3, RowTypes DEF IInv, Signed, Earned, Row
<1>8. \E row \in Row : Save(c, row) /\ Captured(row.items) /\ Earned(r, row)
  BY <1>4, <1>5, <1>6, <1>7 DEF SaveCall
<1> QED
  BY <1>1, <1>8, ReturnInv DEF SaveCall, IInv, TypeOK

\* So was what it saves after working on its items.
LEMMA SaveWholeInv ==
  ASSUME IInv, NEW c \in Caller, SaveWhole(c)
  PROVE  IInv'
<1> DEFINE call == caller[c]
           r == call.rel
<1>1. ~Idle(c) /\ call \in Call /\ CallInv(call) /\ call # NoCall
  BY DEF SaveWhole, Idle, NoCall, IInv, TypeOK, CallsInv
<1>2. r \in Release /\ call.copy \in Row /\ call.who \in Human
  BY <1>1 DEF Call
<1>3. Captured(call.copy.items) /\ Earned(r, call.copy) /\ Guarded(call)
  BY <1>1 DEF CallInv
<1>4. \E row \in Row : Save(c, row) /\ Captured(row.items) /\ Earned(r, row)
  <2>1. CASE call.op = "create"
    <3> DEFINE row == [call.copy EXCEPT !.evidence = EvidenceOf(r)]
    <3>1. row \in Row /\ row.items = call.copy.items /\ row.status = "draft"
      BY <1>2, <1>3, <2>1, RowTypes DEF IInv, Guarded, Row
    <3> QED
      BY <1>3, <2>1, <3>1 DEF SaveWhole, Earned
  <2>2. CASE call.op = "deploy"
    <3> DEFINE row == [call.copy EXCEPT !.status = "deployed"]
    <3>1. row \in Row /\ row.items = call.copy.items /\ call.copy.status = "approved"
      BY <1>2, <1>3, <2>2, RowTypes DEF IInv, Guarded, Row, SaveWhole
    <3>2. Earned(r, row)
      BY <1>2, <1>3, <3>1 DEF Earned, Row
    <3> QED
      BY <1>3, <2>2, <3>1, <3>2 DEF SaveWhole
  <2>3. CASE call.op = "rollback"
    <3> DEFINE row == [call.copy EXCEPT !.status = "rolled_back"]
    <3>1. row \in Row /\ row.items = call.copy.items /\ call.copy.status = "deployed"
      BY <1>2, <1>3, <2>3, RowTypes DEF IInv, Guarded, Row, SaveWhole
    <3>2. Earned(r, row)
      BY <1>2, <1>3, <3>1 DEF Earned, Row
    <3> QED
      BY <1>3, <2>3, <3>1, <3>2 DEF SaveWhole
  <2> QED
    BY <2>1, <2>2, <2>3 DEF SaveWhole
<1> QED
  BY <1>1, <1>4, ReturnInv DEF SaveWhole, IInv, TypeOK

\* The same row, but for its items.
ButItems(row, other) == row = [other EXCEPT !.items = row.items]

\* A call that goes on with its row unchanged keeps the invariant when what it
\* has at hand is there.
LEMMA GotoInv ==
  ASSUME IInv, TypeOK', Grows, UNCHANGED rows, NEW c \in Caller, NEW new \in Call,
         CallInv(caller[c]), caller[c] \in Call, caller[c] # NoCall, caller[c].pc # "check",
         new.rel = caller[c].rel, new.op = caller[c].op,
         ButItems(new.copy, caller[c].copy),
         \A a \in Artifact :
           new.copy.items[a] # NoItem => new.copy.items[a].revision \in 1..Len(versions'[a]),
         caller' = [caller EXCEPT ![c] = new],
         new.pc = "environment" => new.at \in Artifact /\ files'[new.at] \in File,
         new.pc = "version" =>
           new.at \in Artifact /\ new.new \in Nat \X File /\ new.new[1] \in 1..(Len(versions'[new.at]) + 1)
  PROVE  IInv'
<1> DEFINE call == caller[c]
<1>1. caller'[c] = new /\ \A d \in Caller \ {c} : caller'[d] = caller[d]
  BY DEF IInv, TypeOK
<1>2. Captured(new.copy.items)'
  BY <1>1 DEF Captured
<1>3. AtHand(new)'
  BY DEF AtHand
<1>4. /\ new.copy.status = call.copy.status /\ new.copy.votes = call.copy.votes
      /\ new.copy.vetoed = call.copy.vetoed /\ new.copy.approved = call.copy.approved
      /\ new.copy.evidence = call.copy.evidence /\ new.copy.signed = call.copy.signed
  BY DEF Call, Row, ButItems
<1>5. Earned(new.rel, new.copy)
  BY <1>4 DEF CallInv, Earned
<1>6. Guarded(new)
  BY <1>4 DEF CallInv, Guarded, Promotable
<1>7. CallInv(caller[c])'
  BY <1>1, <1>2, <1>3, <1>5, <1>6 DEF CallInv, Earned, Guarded, Promotable
<1> QED
  BY <1>1, <1>7, RowsStay, OthersStay DEF IInv

\* The content of a captured revision is there to be written.
LEMMA WriteItemInv ==
  ASSUME IInv, NEW c \in Caller, NEW a \in Artifact, WriteItem(c, a)
  PROVE  IInv'
<1> DEFINE call == caller[c]
           new == [call EXCEPT !.pc = "environment", !.at = a, !.todo = @ \ {a}]
<1>1. call \in Call /\ CallInv(call) /\ call # NoCall
  BY DEF WriteItem, NoCall, IInv, TypeOK, CallsInv
<1>2. versions[a][call.copy.items[a].revision] \in File
  <2>1. call.copy.items[a].revision \in 1..Len(versions[a])
    BY <1>1 DEF WriteItem, CallInv, Captured
  <2>2. versions[a] \in Seq(File)
    BY DEF IInv, TypeOK
  <2> QED
    BY <2>1, <2>2
<1>3. files' \in [Artifact -> File \cup {NoFile}] /\ files'[a] \in File
      /\ \A b \in Artifact \ {a} : files'[b] = files[b]
  BY <1>2 DEF WriteItem, IInv, TypeOK
<1>4. new \in Call /\ new.rel = call.rel /\ new.op = call.op /\ new.copy = call.copy
      /\ new.pc = "environment" /\ new.at = a
  BY <1>1 DEF Call
<1>5. caller' = [caller EXCEPT ![c] = new]
  BY DEF WriteItem, Goto
<1>6. TypeOK'
  BY <1>3, <1>4, <1>5 DEF WriteItem, IInv, TypeOK
<1>7. Grows /\ UNCHANGED <<rows, versions>>
  <2>1. UNCHANGED <<rows, versions>>
    BY DEF WriteItem
  <2>2. \A b \in Artifact : Len(versions[b]) \in Nat
    BY DEF IInv, TypeOK
  <2>3. \A b \in Artifact : files[b] \in File => files'[b] \in File
    BY <1>3
  <2> QED
    BY <2>1, <2>2, <2>3 DEF Grows
<1>8. ButItems(new.copy, call.copy)
  BY <1>1, <1>4 DEF Call, Row, ButItems
<1>9. \A b \in Artifact :
        new.copy.items[b] # NoItem => new.copy.items[b].revision \in 1..Len(versions'[b])
  BY <1>1, <1>4, <1>7 DEF CallInv, Captured
<1>10. call.pc # "check"
  BY DEF WriteItem
<1> HIDE DEF new
<1> QED
  BY <1>1, <1>3, <1>4, <1>5, <1>6, <1>7, <1>8, <1>9, <1>10, GotoInv

\* The environment of a file that is there is rewritten.
LEMMA SetEnvironmentInv ==
  ASSUME IInv, NEW c \in Caller, SetEnvironment(c)
  PROVE  IInv'
<1> DEFINE call == caller[c]
           a == call.at
           deploy == call.op = "deploy"
           env == IF deploy THEN TargetOf(call.rel) ELSE call.copy.items[a].file.env
           file == [files[a] EXCEPT !.env = env]
           new == [call EXCEPT !.pc = IF deploy THEN "snapshot" ELSE "write",
                               !.at = IF deploy THEN a ELSE NoArtifact]
<1>1. call \in Call /\ CallInv(call) /\ call # NoCall
  <2>1. call \in Call \cup {NoCall} /\ CallInv(call)
    BY DEF IInv, TypeOK, CallsInv
  <2>2. call # NoCall
    <3>1. call.pc = "environment"
      BY DEF SetEnvironment
    <3> HIDE DEF call
    <3> QED
      BY <3>1 DEF NoCall
  <2> QED
    BY <2>1, <2>2
<1>2. a \in Artifact /\ files[a] \in File
  BY <1>1 DEF SetEnvironment, CallInv, AtHand
<1>3. env \in Environment /\ call.rel \in Release
  <2>1. call.rel \in Release /\ call.copy.items[a] \in Item
    BY <1>1, <1>2 DEF Call, Row
  <2>2. call.copy.items[a].file.env \in Environment
    BY <2>1 DEF Item, File, NoFile, Environment
  <2>3. TargetOf(call.rel) \in Environment
    BY <2>1, ReleaseAssumption DEF TargetOf, Target, Environment
  <2> QED
    BY <2>1, <2>2, <2>3
<1>4. file \in File
  BY <1>2, <1>3 DEF File
<1>5. files' = [files EXCEPT ![a] = file]
  BY DEF SetEnvironment
<1>6. files' \in [Artifact -> File \cup {NoFile}] /\ files'[a] \in File
      /\ \A b \in Artifact \ {a} : files'[b] = files[b]
  <2> HIDE DEF file, a
  <2> QED
    BY <1>2, <1>4, <1>5 DEF IInv, TypeOK
<1>7. applied' \subseteq [rel : Release, art : Artifact, file : File]
  <2>1. applied' \subseteq applied \cup {[rel |-> call.rel, art |-> a, file |-> file]}
    BY DEF SetEnvironment
  <2> HIDE DEF file, a, call
  <2> QED
    BY <1>2, <1>3, <1>4, <2>1 DEF IInv, TypeOK
<1>8. new \in Call /\ new.rel = call.rel /\ new.op = call.op /\ new.copy = call.copy
      /\ new.pc \in {"snapshot", "write"}
  BY <1>1, <1>2 DEF Call
<1>9. caller' = [caller EXCEPT ![c] = new]
  BY DEF SetEnvironment, Goto
<1>10. TypeOK'
  <2> HIDE DEF new
  <2> QED
    BY <1>6, <1>7, <1>8, <1>9 DEF SetEnvironment, IInv, TypeOK
<1>11. Grows /\ UNCHANGED <<rows, versions>>
  <2>1. UNCHANGED <<rows, versions>>
    BY DEF SetEnvironment
  <2> HIDE DEF file, a
  <2> QED
    BY <1>2, <1>6, <2>1 DEF Grows, IInv, TypeOK
<1>12. ButItems(new.copy, call.copy)
  BY <1>1, <1>8 DEF Call, Row, ButItems
<1>13. \A b \in Artifact :
        new.copy.items[b] # NoItem => new.copy.items[b].revision \in 1..Len(versions'[b])
  BY <1>1, <1>8, <1>11 DEF CallInv, Captured
<1>14. call.pc # "check"
  BY DEF SetEnvironment
<1> HIDE DEF new
<1> QED
  BY <1>1, <1>8, <1>9, <1>10, <1>11, <1>12, <1>13, <1>14, GotoInv

\* A revision that is known is captured, or left alone.
LEMMA VersionedInv ==
  ASSUME IInv, TypeOK', Grows, UNCHANGED rows, NEW c \in Caller, NEW a \in Artifact,
         CallInv(caller[c]), caller[c] \in Call, caller[c] # NoCall, caller[c].pc # "check",
         NEW revision \in Nat, NEW file \in File \cup {NoFile},
         [revision |-> revision, file |-> file] # NoItem => revision \in 1..Len(versions'[a]),
         Versioned(c, a, revision, file)
  PROVE  IInv'
<1> DEFINE call == caller[c]
           idle == [call EXCEPT !.at = NoArtifact, !.new = <<>>, !.todo = @ \ {a}]
           item == [revision |-> revision, file |-> file]
<1>0. \A b \in Artifact : Len(versions[b]) \in Nat /\ Len(versions'[b]) \in Nat
  BY DEF IInv, TypeOK
<1>1. \A b \in Artifact : call.copy.items[b] # NoItem => call.copy.items[b].revision \in 1..Len(versions'[b])
  <2>1. \A b \in Artifact : call.copy.items[b].revision \in Nat
    BY DEF Call, Row, Item
  <2> QED
    BY <1>0, <2>1 DEF CallInv, Captured, Grows
<1>2. CASE call.op = "create"
  <2> DEFINE new == [idle EXCEPT !.pc = "snapshot", !.copy.items[a] = item]
  <2>1. item \in Item
    BY DEF Item
  <2>2. /\ new.pc = "snapshot" /\ new.op = call.op /\ new.rel = call.rel
        /\ new.copy = [call.copy EXCEPT !.items[a] = item]
    BY DEF Call
  <2>3. /\ new.copy.items = [call.copy.items EXCEPT ![a] = item]
        /\ new.copy \in Row /\ ButItems(new.copy, call.copy)
    BY <2>1, <2>2 DEF Call, Row, ButItems
  <2>4. new \in Call
    BY <2>2, <2>3 DEF Call
  <2>5. caller' = [caller EXCEPT ![c] = new]
    BY <1>2 DEF Versioned, Goto
  <2>6. call.copy.items \in [Artifact -> Item]
    BY DEF Call, Row
  <2>7. \A b \in Artifact : new.copy.items[b] # NoItem => new.copy.items[b].revision \in 1..Len(versions'[b])
    <3> HIDE DEF new, call
    <3> QED
      BY <1>1, <2>3, <2>6
  <2> HIDE DEF new
  <2> QED
    BY <2>2, <2>3, <2>4, <2>5, <2>7, GotoInv
<1>3. CASE call.op # "create"
  <2> DEFINE new == [idle EXCEPT !.pc = "write"]
  <2>1. /\ new \in Call /\ new.pc = "write" /\ new.op = call.op /\ new.rel = call.rel
        /\ new.copy = call.copy
    BY DEF Call
  <2>2. ButItems(new.copy, call.copy)
    BY <2>1 DEF Call, Row, ButItems
  <2>3. caller' = [caller EXCEPT ![c] = new]
    BY <1>3 DEF Versioned, Goto
  <2>4. \A b \in Artifact : new.copy.items[b] # NoItem => new.copy.items[b].revision \in 1..Len(versions'[b])
    BY <1>1, <2>1
  <2> HIDE DEF new
  <2> QED
    BY <2>1, <2>2, <2>3, <2>4, GotoInv
<1> QED
  BY <1>2, <1>3

\* Where it goes then, it is a call.
LEMMA VersionedTypes ==
  ASSUME TypeOK, NEW c \in Caller, NEW a \in Artifact, caller[c] \in Call,
         NEW revision \in Nat, NEW file \in File \cup {NoFile}, Versioned(c, a, revision, file)
  PROVE  caller' \in [Caller -> Call \cup {NoCall}]
<1> DEFINE call == caller[c]
           idle == [call EXCEPT !.at = NoArtifact, !.new = <<>>, !.todo = @ \ {a}]
           item == [revision |-> revision, file |-> file]
<1>1. CASE call.op = "create"
  <2> DEFINE new == [idle EXCEPT !.pc = "snapshot", !.copy.items[a] = item]
  <2>1. new.copy = [call.copy EXCEPT !.items[a] = item] /\ item \in Item
    BY DEF Call, Item
  <2>2. new.copy \in Row
    BY <2>1 DEF Call, Row
  <2>3. new \in Call
    BY <2>2 DEF Call
  <2> QED
    BY <1>1, <2>3 DEF Versioned, Goto, TypeOK
<1>2. CASE call.op # "create"
  <2>1. [idle EXCEPT !.pc = "write"] \in Call
    BY DEF Call
  <2> QED
    BY <1>2, <2>1 DEF Versioned, Goto, TypeOK
<1> QED
  BY <1>1, <1>2

\* What is read as the next revision is the next, until somebody inserts it.
LEMMA ReadVersionInv ==
  ASSUME IInv, NEW c \in Caller, NEW a \in Artifact, ReadVersion(c, a)
  PROVE  IInv'
<1> DEFINE call == caller[c]
           last == Len(versions[a])
<1>1. call \in Call /\ CallInv(call) /\ call # NoCall /\ call.pc # "check"
  BY DEF ReadVersion, NoCall, IInv, TypeOK, CallsInv
<1>2. /\ Grows /\ UNCHANGED <<files, versions, evaluations, rows, applied, overlaps, edits, crashes>>
      /\ last \in Nat /\ files[a] \in File \cup {NoFile}
  BY DEF ReadVersion, Grows, IInv, TypeOK
<1>3. CASE files[a] = NoFile /\ Versioned(c, a, 0, NoFile)
  <2>1. TypeOK'
    BY <1>1, <1>2, <1>3, VersionedTypes DEF IInv, TypeOK
  <2> QED
    BY <1>1, <1>2, <1>3, <2>1, VersionedInv DEF NoItem
<1>4. CASE last > 0 /\ Versioned(c, a, last, files[a])
  <2>1. TypeOK'
    BY <1>1, <1>2, <1>4, VersionedTypes DEF IInv, TypeOK
  <2> QED
    BY <1>1, <1>2, <1>4, <2>1, VersionedInv
<1>5. CASE files[a] # NoFile
           /\ Goto(c, [call EXCEPT !.pc = "version", !.at = a, !.new = <<last + 1, files[a]>>])
  <2> DEFINE new == [call EXCEPT !.pc = "version", !.at = a, !.new = <<last + 1, files[a]>>]
  <2>1. <<last + 1, files[a]>> \in Nat \X File
    BY <1>2, <1>5
  <2>2. /\ new \in Call /\ new.pc = "version" /\ new.op = call.op /\ new.rel = call.rel
        /\ new.copy = call.copy /\ new.at = a /\ new.new = <<last + 1, files[a]>>
    BY <1>1, <2>1 DEF Call
  <2>3. ButItems(new.copy, call.copy)
    BY <1>1, <2>2 DEF Call, Row, ButItems
  <2>4. caller' = [caller EXCEPT ![c] = new]
    BY <1>5 DEF Goto
  <2>5. TypeOK'
    <3> HIDE DEF new
    <3> QED
      BY <1>2, <2>2, <2>4 DEF IInv, TypeOK
  <2>6. \A b \in Artifact : new.copy.items[b] # NoItem => new.copy.items[b].revision \in 1..Len(versions'[b])
    BY <1>1, <1>2, <2>2 DEF CallInv, Captured
  <2>7. new.at \in Artifact /\ new.new \in Nat \X File /\ new.new[1] \in 1..(Len(versions'[new.at]) + 1)
    BY <1>2, <2>1, <2>2
  <2> HIDE DEF new
  <2> QED
    BY <1>1, <1>2, <2>2, <2>3, <2>4, <2>5, <2>6, <2>7, GotoInv
<1> QED
  BY <1>3, <1>4, <1>5 DEF ReadVersion

\* A revision that is inserted, or written over, is there.
LEMMA SaveVersionInv ==
  ASSUME IInv, NEW c \in Caller, SaveVersion(c)
  PROVE  IInv'
<1> DEFINE call == caller[c]
           a == call.at
           revision == call.new[1]
           file == call.new[2]
           saved == IF revision \in DOMAIN versions[a]
                    THEN [versions[a] EXCEPT ![revision] = file]
                    ELSE Append(versions[a], file)
<1>1. call \in Call /\ CallInv(call) /\ call # NoCall /\ call.pc # "check"
  BY DEF SaveVersion, NoCall, IInv, TypeOK, CallsInv
<1>2. a \in Artifact /\ revision \in Nat /\ file \in File /\ revision \in 1..(Len(versions[a]) + 1)
  <2>1. a \in Artifact /\ call.new \in Nat \X File /\ call.new[1] \in 1..(Len(versions[a]) + 1)
    BY <1>1 DEF SaveVersion, CallInv, AtHand
  <2> QED
    BY <2>1
<1>3. /\ saved \in Seq(File) /\ Len(saved) >= Len(versions[a]) /\ revision \in 1..Len(saved)
      /\ Len(versions[a]) \in Nat
  <2>1. versions[a] \in Seq(File)
    BY <1>2 DEF IInv, TypeOK
  <2> HIDE DEF a, revision, file
  <2>2. CASE revision \in DOMAIN versions[a]
    BY <1>2, <2>1, <2>2
  <2>3. CASE revision \notin DOMAIN versions[a]
    BY <1>2, <2>1, <2>3
  <2> QED
    BY <2>2, <2>3
<1>4. /\ versions' = [versions EXCEPT ![a] = saved] /\ Versioned(c, a, revision, file)
      /\ UNCHANGED <<files, evaluations, rows, applied, overlaps, edits, crashes>>
  BY DEF SaveVersion
<1> HIDE DEF saved, a, revision, file
<1>5. versions' \in [Artifact -> Seq(File)] /\ versions'[a] = saved
      /\ \A b \in Artifact \ {a} : versions'[b] = versions[b]
  BY <1>2, <1>3, <1>4 DEF IInv, TypeOK
<1>6. \A b \in Artifact : Len(versions[b]) \in Nat
  BY DEF IInv, TypeOK
<1>7. Grows
  BY <1>3, <1>4, <1>5, <1>6 DEF Grows
<1>8. TypeOK'
  BY <1>1, <1>2, <1>4, <1>5, VersionedTypes DEF IInv, TypeOK
<1> QED
  BY <1>1, <1>2, <1>3, <1>4, <1>5, <1>7, <1>8, VersionedInv

\* What touches no row and no call keeps the invariant.
LEMMA ElsewhereInv ==
  ASSUME IInv, TypeOK', Grows, UNCHANGED <<rows, caller>>
  PROVE  IInv'
BY RowsStay, CallStays DEF IInv, CallsInv

LEMMA EditInv ==
  ASSUME IInv, NEW a \in Artifact, NEW content \in Content, NEW env \in Declared,
         Edit(a, content, env)
  PROVE  IInv'
<1>1. [content |-> content, env |-> env] \in File
  BY ReleaseAssumption DEF File
<1>2. overlaps' \in Nat /\ edits' \in Nat
  BY DEF Edit, Overlap, IInv, TypeOK
<1>3. TypeOK' /\ Grows /\ UNCHANGED <<rows, caller>>
  BY <1>1, <1>2 DEF Edit, Grows, IInv, TypeOK
<1> QED
  BY <1>3, ElsewhereInv

LEMMA EvaluateInv ==
  ASSUME IInv, NEW a \in Artifact, NEW passed \in BOOLEAN, Evaluate(a, passed)
  PROVE  IInv'
<1>1. evaluations' \in [Artifact -> Seq(BOOLEAN)]
  <2>1. Append(evaluations[a], passed) \in Seq(BOOLEAN)
    BY DEF IInv, TypeOK
  <2> QED
    BY <2>1 DEF Evaluate, IInv, TypeOK
<1>2. overlaps' \in Nat
  BY DEF Evaluate, Overlap, IInv, TypeOK
<1>3. TypeOK' /\ Grows /\ UNCHANGED <<rows, caller>>
  BY <1>1, <1>2 DEF Evaluate, Grows, IInv, TypeOK
<1> QED
  BY <1>3, ElsewhereInv

LEMMA JudgeInv ==
  ASSUME IInv, NEW a \in Artifact, Judge(a)
  PROVE  IInv'
<1>1. PICK i \in Passed(a) : evaluations' = [evaluations EXCEPT ![a][i] = FALSE]
  BY DEF Judge
<1>2. evaluations' \in [Artifact -> Seq(BOOLEAN)]
  <2>1. evaluations[a] \in Seq(BOOLEAN) /\ i \in DOMAIN evaluations[a]
    BY DEF IInv, TypeOK, Passed
  <2>2. [evaluations[a] EXCEPT ![i] = FALSE] \in Seq(BOOLEAN)
    BY <2>1
  <2> QED
    BY <1>1, <2>2 DEF IInv, TypeOK
<1>3. overlaps' \in Nat /\ edits' \in Nat
  BY DEF Judge, Overlap, IInv, TypeOK
<1>4. TypeOK' /\ Grows /\ UNCHANGED <<rows, caller>>
  BY <1>2, <1>3 DEF Judge, Grows, IInv, TypeOK
<1> QED
  BY <1>4, ElsewhereInv

\* A deployment that meets an artifact that was missing, and a call that dies, just end.
LEMMA AbandonInv ==
  ASSUME IInv, NEW c \in Caller,
         Crash(c) \/ \E a \in Artifact : WriteNothing(c, a)
  PROVE  IInv'
<1>1. ~Idle(c) /\ Return(c) /\ crashes' \in Nat
      /\ UNCHANGED <<files, versions, evaluations, rows, applied, edits, overlaps>>
  BY DEF Crash, WriteNothing, Idle, NoCall, IInv, TypeOK
<1> QED
  BY <1>1, ReturnInv

-----------------------------------------------------------------------------
(* The theorems *)

\* Nothing is captured, approved or on its way when the workspace is new.
LEMMA InitInv == Init => IInv
<1> SUFFICES ASSUME Init PROVE IInv
  OBVIOUS
<1>1. TypeOK
  <2>1. files \in [Artifact -> File \cup {NoFile}]
    <3>1. [content : Content, env : {"development"}] \subseteq File
      BY DEF File, Environment
    <3> QED
      BY <3>1 DEF Init
  <2>2. versions \in [Artifact -> Seq(File)]
    BY DEF Init
  <2>3. evaluations \in [Artifact -> Seq(BOOLEAN)]
    BY DEF Init
  <2> QED
    BY <2>1, <2>2, <2>3 DEF Init, TypeOK
<1>2. RowsInv /\ CallsInv
  BY DEF Init, RowsInv, CallsInv, CallInv
<1> QED
  BY <1>1, <1>2 DEF IInv

LEMMA NextInv == IInv /\ [Next]_vars => IInv'
<1> SUFFICES ASSUME IInv, [Next]_vars PROVE IInv'
  OBVIOUS
<1>1. CASE \E c \in Caller : Start(c) \/ Step(c) \/ Crash(c)
  <2>1. PICK c \in Caller : Start(c) \/ Step(c) \/ Crash(c)
    BY <1>1
  <2>2. CASE Start(c)
    BY <2>2, StartInv
  <2>3. CASE Step(c)
    BY <2>3, CheckInv, SaveCallInv, SaveWholeInv, SetEnvironmentInv, SaveVersionInv,
       WriteItemInv, AbandonInv, ReadVersionInv DEF Step
  <2> QED
    BY <2>1, <2>2, <2>3, AbandonInv
<1>2. CASE \E a \in Artifact, content \in Content, env \in Declared : Edit(a, content, env)
  BY <1>2, EditInv
<1>3. CASE \E a \in Artifact, passed \in BOOLEAN : Evaluate(a, passed)
  BY <1>3, EvaluateInv
<1>4. CASE \E a \in Artifact : Judge(a)
  BY <1>4, JudgeInv
<1>5. CASE UNCHANGED vars
  <2>1. TypeOK' /\ Grows /\ UNCHANGED <<rows, caller>>
    BY <1>5 DEF vars, Grows, IInv, TypeOK
  <2> QED
    BY <2>1, ElsewhereInv
<1> QED
  BY <1>1, <1>2, <1>3, <1>4, <1>5 DEF Next

\* The inductive invariant holds throughout.
THEOREM ReleaseInvariant == Spec => []IInv
BY InitInv, NextInv, PTL DEF Spec

\* Type correctness: no call works on a release that does not exist, writes a
\* revision that was never kept or declares an environment for no file.
THEOREM ReleaseTypes == Spec => []TypeOK
<1>1. IInv => TypeOK
  BY DEF IInv
<1> QED
  BY <1>1, ReleaseInvariant, PTL

\* Every approval was earned (quorum and _quorum_met in release/manager.py): a
\* quorum of its own votes, none of them a refusal, stands behind each row that
\* was approved, however many calls overlap or die.
THEOREM ApprovalsAreEarned == Spec => []ApprovalIsEarned
<1>1. IInv => ApprovalIsEarned
  BY DEF IInv, RowsInv, Earned, ApprovalIsEarned, NoRow
<1> QED
  BY <1>1, ReleaseInvariant, PTL

\* What _verify_promotion is for (release/manager.py): a deployment is recorded
\* with the evidence that was voted on and signed, whatever else happens to the
\* release while it writes.
THEOREM DeploymentsAreAsApproved == Spec => DeployedAsApproved
<1> DEFINE A(c) ==
      LET call == caller[c] IN
      call.pc = "write" /\ call.op = "deploy" /\ caller'[c] = NoCall /\ rows' # rows =>
        LET row == rows'[call.rel] IN
        /\ row.status = "deployed" /\ row.evidence = row.approved
        /\ TargetOf(call.rel) \in Signing => row.evidence = row.signed
<1>1. IInv /\ [Next]_vars => \A c \in Caller : A(c)
  <2> SUFFICES ASSUME IInv, Next, NEW c \in Caller,
                      caller[c].pc = "write", caller[c].op = "deploy", caller'[c] = NoCall, rows' # rows
               PROVE  LET row == rows'[caller[c].rel] IN
                      /\ row.status = "deployed" /\ row.evidence = row.approved
                      /\ TargetOf(caller[c].rel) \in Signing => row.evidence = row.signed
    BY DEF vars
  <2> DEFINE call == caller[c]
             done == [call.copy EXCEPT !.status = "deployed"]
  <2>1. call \in Call /\ CallInv(call) /\ call # NoCall
    BY DEF NoCall, IInv, TypeOK, CallsInv
  <2>2. SaveWhole(c)
    <3>1. \A d \in Caller : Start(d) => UNCHANGED rows
      <4>1. \A d, pc, op, r, h, copy, todo : Begin(d, pc, op, r, h, copy, todo) => UNCHANGED rows
        BY DEF Begin
      <4> QED
        BY <4>1 DEF Start, Create, Load, LoadVote, LoadVeto, LoadSign, LoadRollback
    <3>2. \A a \in Artifact, content \in Content, env \in Declared :
            Edit(a, content, env) => UNCHANGED rows
      BY DEF Edit
    <3>3. \A a \in Artifact : Judge(a) \/ (\E passed \in BOOLEAN : Evaluate(a, passed)) => UNCHANGED rows
      BY DEF Evaluate, Judge
    <3>4. PICK d \in Caller : Check(d) \/ SaveCall(d) \/ SaveWhole(d)
      BY <3>1, <3>2, <3>3 DEF Next, Step, Crash, SetEnvironment, SaveVersion, WriteItem, WriteNothing, ReadVersion
    <3>5. \A e \in Caller \ {d} : caller'[e] = caller[e]
      BY <3>4 DEF Check, SaveCall, SaveWhole, Goto, Return, IInv, TypeOK
    <3>6. d = c
      BY <2>1, <3>5
    <3> QED
      BY <3>4, <3>6 DEF Check, SaveCall
  <2>3. rows'[call.rel] = done
    BY <2>1, <2>2 DEF SaveWhole, Save, Call, IInv, TypeOK
  <2>4. call.rel \in Release /\ call.copy \in Row /\ Earned(call.rel, call.copy)
        /\ call.copy.status = "approved" /\ Promotable(call.rel, call.copy)
    BY <2>1 DEF CallInv, Guarded, Call
  <2>5. call.copy.evidence = call.copy.approved
    BY <2>4 DEF Earned, Promotable
  <2>6. TargetOf(call.rel) \in Signing => call.copy.evidence = call.copy.signed
    BY <2>4 DEF Promotable
  <2>7. /\ done.status = "deployed" /\ done.evidence = call.copy.evidence
        /\ done.approved = call.copy.approved /\ done.signed = call.copy.signed
    BY <2>4 DEF Row
  <2> HIDE DEF done
  <2> QED
    BY <2>3, <2>5, <2>6, <2>7
<1>2. IInv /\ [Next]_vars => [\A c \in Caller : A(c)]_<<rows, caller>>
  BY <1>1
<1> QED
  BY <1>2, ReleaseInvariant, PTL DEF Spec, DeployedAsApproved

-----------------------------------------------------------------------------
(* What each step does, field by field *)

Only(c) == \A d \in Caller \ {c} : caller'[d] = caller[d]
OnlyRow(r) == \A q \in Release \ {r} : rows'[q] = rows[q]

\* A call that is somewhere is a call.
LEMMA CallAt ==
  ASSUME IInv, NEW c \in Caller, ~Idle(c)
  PROVE  /\ caller[c] \in Call /\ caller[c] # NoCall /\ CallInv(caller[c])
         /\ caller[c].rel \in Release /\ caller[c].copy \in Row
         /\ caller[c].copy.items \in [Artifact -> Item]
BY DEF Idle, IInv, TypeOK, CallsInv, Call, Row

\* A call begins with a copy of the row, or with a draft of a new one.
LEMMA StartEffect ==
  ASSUME IInv, NEW c \in Caller, Start(c)
  PROVE  /\ Idle(c) /\ Only(c) /\ caller'[c] \in Call /\ Overlap
         /\ UNCHANGED <<files, versions, rows, applied>>
         /\ \/ /\ caller'[c].op = "create" /\ rows[caller'[c].rel] = NoRow
               /\ caller'[c].pc = "snapshot" /\ caller'[c].copy.status = "draft"
               /\ caller'[c].copy.items = [a \in Artifact |-> NoItem]
            \/ /\ caller'[c].op # "create" /\ rows[caller'[c].rel] # NoRow
               /\ caller'[c].copy = rows[caller'[c].rel]
               /\ caller'[c].op = "reject" => caller'[c].copy.status \notin {"deployed", "rolled_back"}
               /\ \/ caller'[c].op \in {"check", "submit", "deploy"} /\ caller'[c].pc = "check"
                  \/ caller'[c].op \in {"approve", "reject", "sign"} /\ caller'[c].pc = "save"
                  \/ /\ caller'[c].op = "rollback" /\ caller'[c].pc = "write"
                     /\ caller'[c].todo = Items(caller'[c].rel)
<1>1. PICK r \in Release :
        \/ Create(c, r)
        \/ \E op \in Operation : Load(c, op, r)
        \/ \E h \in Human : LoadVote(c, r, h)
        \/ LoadVeto(c, r) \/ LoadSign(c, r)
        \/ LoadRollback(c, r)
  BY DEF Start
<1>2. IInv'
  BY StartInv
<1>3. NoRow.status = "none"
  BY DEF NoRow
<1>4. ASSUME NEW pc, NEW op, NEW h, NEW copy, NEW todo, Begin(c, pc, op, r, h, copy, todo)
      PROVE  /\ Idle(c) /\ Only(c) /\ caller'[c] \in Call /\ Overlap
             /\ UNCHANGED <<files, versions, rows, applied>>
             /\ caller'[c].pc = pc /\ caller'[c].op = op /\ caller'[c].rel = r
             /\ caller'[c].copy = copy /\ caller'[c].todo = todo
  <2> DEFINE call == [pc |-> pc, op |-> op, rel |-> r, who |-> h, copy |-> copy,
                      todo |-> todo, at |-> NoArtifact, new |-> <<>>]
  <2>1. caller'[c] = call /\ Only(c)
    BY <1>4 DEF Begin, Goto, Only, IInv, TypeOK
  <2>2. call # NoCall
    <3>1. "op" \in DOMAIN call /\ "op" \notin DOMAIN NoCall
      BY DEF NoCall
    <3> QED
      BY <3>1
  <2>3. caller'[c] \in Call
    BY <1>2, <2>1, <2>2 DEF IInv, TypeOK
  <2> QED
    BY <1>4, <2>1, <2>3 DEF Begin
<1>5. CASE Create(c, r)
  BY <1>4, <1>5 DEF Create
<1>6. CASE \E op \in Operation : Load(c, op, r)
  BY <1>4, <1>6 DEF Load
<1>7. CASE \E h \in Human : LoadVote(c, r, h)
  BY <1>3, <1>4, <1>7 DEF LoadVote
<1>8. CASE LoadVeto(c, r)
  BY <1>4, <1>8 DEF LoadVeto
<1>9. CASE LoadSign(c, r)
  BY <1>4, <1>9 DEF LoadSign
<1>10. CASE LoadRollback(c, r)
  BY <1>3, <1>4, <1>10 DEF LoadRollback
<1> QED
  BY <1>1, <1>5, <1>6, <1>7, <1>8, <1>9, <1>10

\* The gates leave status and items as they are; who passes them goes on.
LEMMA CheckEffect ==
  ASSUME IInv, NEW c \in Caller, Check(c)
  PROVE  /\ ~Idle(c) /\ Only(c) /\ OnlyRow(caller[c].rel)
         /\ caller[c].op \in {"check", "submit", "deploy"}
         /\ UNCHANGED <<files, versions, applied, overlaps>>
         /\ rows'[caller[c].rel] \in Row
         /\ rows'[caller[c].rel].status = caller[c].copy.status
         /\ rows'[caller[c].rel].items = caller[c].copy.items
         /\ \/ caller'[c] = NoCall
            \/ /\ caller'[c] \in Call /\ caller'[c].rel = caller[c].rel
               /\ caller'[c].op = caller[c].op
               /\ caller'[c].copy.status = caller[c].copy.status
               /\ caller'[c].copy.items = caller[c].copy.items
               /\ \/ /\ caller[c].op = "submit" /\ caller'[c].pc = "save"
                     /\ caller[c].copy.status = "draft"
                  \/ /\ caller[c].op = "deploy" /\ caller'[c].pc = "write"
                     /\ caller[c].copy.status = "approved" /\ caller'[c].todo = Items(caller[c].rel)
                     /\ TargetOf(caller[c].rel) = "production" =>
                          \A a \in Items(caller[c].rel) : InStaging(a)
<1> DEFINE call == caller[c]
           r == call.rel
           row == [call.copy EXCEPT !.evidence = EvidenceOf(r)]
<1>1. ~Idle(c)
  BY DEF Check, Idle, NoCall
<1>2. call \in Call /\ r \in Release /\ call.copy \in Row /\ call.who \in Human
  BY <1>1, CallAt DEF Call
<1>3. row \in Row /\ row.status = call.copy.status /\ row.items = call.copy.items
  BY <1>2, RowTypes DEF IInv, Row
<1>4. rows'[r] = row /\ OnlyRow(r) /\ UNCHANGED <<files, versions, applied, overlaps>>
  <2>1. Save(c, row) /\ UNCHANGED <<files, versions, applied, overlaps>>
    BY DEF Check
  <2> HIDE DEF row
  <2> QED
    BY <1>1, <1>3, <2>1, SaveTypes DEF OnlyRow, IInv
<1>5. call.op \in {"check", "submit", "deploy"}
  BY DEF Check
<1>6. CASE Return(c)
  <2>1. caller'[c] = NoCall /\ Only(c)
    BY <1>6 DEF Return, Goto, Only, IInv, TypeOK
  <2> HIDE DEF row
  <2> QED
    BY <1>1, <1>3, <1>4, <1>5, <2>1
<1>7. CASE call.op = "submit" /\ row.status = "draft" /\ Clear(r, row)
           /\ Goto(c, [call EXCEPT !.pc = "save", !.copy = row])
  <2> DEFINE new == [call EXCEPT !.pc = "save", !.copy = row]
  <2>1. new \in Call /\ new.rel = r /\ new.copy = row /\ new.op = call.op /\ new.pc = "save"
    BY <1>2, <1>3 DEF Call
  <2>2. caller'[c] = new /\ Only(c)
    BY <1>7 DEF Goto, Only, IInv, TypeOK
  <2> HIDE DEF new, row
  <2> QED
    BY <1>1, <1>3, <1>4, <1>5, <1>7, <2>1, <2>2
<1>8. CASE call.op = "deploy" /\ row.status = "approved" /\ Clear(r, row) /\ Promotable(r, row)
           /\ Goto(c, [call EXCEPT !.pc = "write", !.copy = row, !.todo = Items(r)])
  <2> DEFINE new == [call EXCEPT !.pc = "write", !.copy = row, !.todo = Items(r)]
  <2>1. new \in Call /\ new.rel = r /\ new.copy = row /\ new.op = call.op /\ new.pc = "write"
        /\ new.todo = Items(r)
    BY <1>2, <1>3, ReleaseAssumption DEF Call, Items
  <2>2. caller'[c] = new /\ Only(c)
    BY <1>8 DEF Goto, Only, IInv, TypeOK
  <2>3. TargetOf(r) = "production" => \A a \in Items(r) : InStaging(a)
    BY <1>8 DEF Clear
  <2> HIDE DEF new, row
  <2> QED
    BY <1>1, <1>3, <1>4, <1>5, <1>8, <2>1, <2>2, <2>3
<1> QED
  BY <1>6, <1>7, <1>8 DEF Check

\* What each operation makes of the status when it saves for the last time.
LEMMA SaveCallEffect ==
  ASSUME IInv, NEW c \in Caller, SaveCall(c)
  PROVE  /\ ~Idle(c) /\ Only(c) /\ OnlyRow(caller[c].rel) /\ caller'[c] = NoCall
         /\ caller[c].pc = "save"
         /\ UNCHANGED <<files, versions, applied, overlaps>>
         /\ rows'[caller[c].rel] \in Row
         /\ rows'[caller[c].rel].items = caller[c].copy.items
         /\ LET status == rows'[caller[c].rel].status
            IN \/ caller[c].op = "submit" /\ status = "submitted"
               \/ caller[c].op = "approve" /\ caller[c].copy.status = "submitted"
                  /\ status \in {"submitted", "approved"}
               \/ caller[c].op = "reject" /\ status = "rejected"
               \/ caller[c].op = "sign" /\ status = caller[c].copy.status
<1> DEFINE call == caller[c]
           r == call.rel
<1>1. ~Idle(c) /\ call.pc = "save"
  BY DEF SaveCall, Idle, NoCall
<1>2. call \in Call /\ r \in Release /\ call.copy \in Row /\ call.who \in Human /\ CallInv(call)
      /\ call # NoCall
  BY <1>1, CallAt DEF Call
<1>3. caller'[c] = NoCall /\ Only(c) /\ UNCHANGED <<files, versions, applied, overlaps>>
  BY DEF SaveCall, Return, Goto, Only, IInv, TypeOK
<1>4. ASSUME NEW row \in Row, Save(c, row)
      PROVE  rows'[r] = row /\ OnlyRow(r)
  BY <1>2, <1>4 DEF Save, OnlyRow, IInv, TypeOK
<1>5. CASE call.op = "submit" /\ Save(c, Submitted(call.copy))
  <2>1. Submitted(call.copy) \in Row /\ Submitted(call.copy).items = call.copy.items
        /\ Submitted(call.copy).status = "submitted"
    BY <1>2, RowTypes DEF IInv, Submitted, Row
  <2> QED
    BY <1>1, <1>3, <1>4, <1>5, <2>1
<1>6. CASE call.op = "approve" /\ Save(c, Voted(r, call.copy, call.who))
  <2>1. Voted(r, call.copy, call.who) \in Row
    BY <1>2, RowTypes DEF IInv
  <2>2. call.copy.status = "submitted"
    BY <1>2, <1>6 DEF CallInv, Guarded
  <2>3. Voted(r, call.copy, call.who).items = call.copy.items
        /\ Voted(r, call.copy, call.who).status \in {"submitted", "approved"}
    BY <1>2, <2>2 DEF Voted, Row
  <2> QED
    BY <1>1, <1>3, <1>4, <1>6, <2>1, <2>2, <2>3
<1>7. CASE call.op = "reject" /\ Save(c, Vetoed(call.copy))
  <2>1. Vetoed(call.copy) \in Row /\ Vetoed(call.copy).items = call.copy.items
        /\ Vetoed(call.copy).status = "rejected"
    BY <1>2, RowTypes DEF IInv, Vetoed, Row
  <2> QED
    BY <1>1, <1>3, <1>4, <1>7, <2>1
<1>8. CASE call.op = "sign" /\ Save(c, Signed(call.copy))
  <2>1. Signed(call.copy) \in Row /\ Signed(call.copy).items = call.copy.items
        /\ Signed(call.copy).status = call.copy.status
    BY <1>2, RowTypes DEF IInv, Signed, Row
  <2> QED
    BY <1>1, <1>3, <1>4, <1>8, <2>1
<1> QED
  BY <1>5, <1>6, <1>7, <1>8 DEF SaveCall

\* A call that worked on its items saves when none is left.
LEMMA SaveWholeEffect ==
  ASSUME IInv, NEW c \in Caller, SaveWhole(c)
  PROVE  /\ ~Idle(c) /\ Only(c) /\ OnlyRow(caller[c].rel) /\ caller'[c] = NoCall
         /\ caller[c].todo = {}
         /\ UNCHANGED <<files, versions, applied, overlaps>>
         /\ rows'[caller[c].rel] \in Row
         /\ rows'[caller[c].rel].items = caller[c].copy.items
         /\ LET status == rows'[caller[c].rel].status
            IN \/ caller[c].op = "create" /\ caller[c].copy.status = "draft" /\ status = "draft"
               \/ caller[c].op = "deploy" /\ caller[c].pc = "write"
                  /\ caller[c].copy.status = "approved" /\ status = "deployed"
               \/ caller[c].op = "rollback" /\ caller[c].copy.status = "deployed"
                  /\ status = "rolled_back"
<1> DEFINE call == caller[c]
           r == call.rel
<1>1. ~Idle(c) /\ call.todo = {}
  BY DEF SaveWhole, Idle, NoCall
<1>2. call \in Call /\ r \in Release /\ call.copy \in Row /\ call.who \in Human /\ CallInv(call)
      /\ call # NoCall
  BY <1>1, CallAt DEF Call
<1>3. caller'[c] = NoCall /\ Only(c) /\ UNCHANGED <<files, versions, applied, overlaps>>
  BY DEF SaveWhole, Return, Goto, Only, IInv, TypeOK
<1>4. ASSUME NEW row \in Row, Save(c, row)
      PROVE  rows'[r] = row /\ OnlyRow(r)
  BY <1>2, <1>4 DEF Save, OnlyRow, IInv, TypeOK
<1>5. CASE call.op = "create" /\ Save(c, [call.copy EXCEPT !.evidence = EvidenceOf(r)])
  <2> DEFINE row == [call.copy EXCEPT !.evidence = EvidenceOf(r)]
  <2>1. row \in Row /\ row.items = call.copy.items /\ row.status = call.copy.status
        /\ call.copy.status = "draft"
    BY <1>2, <1>5, RowTypes DEF IInv, CallInv, Guarded, Row
  <2>2. rows'[r] = row /\ OnlyRow(r)
    BY <1>4, <1>5, <2>1
  <2> HIDE DEF row
  <2> QED
    BY <1>1, <1>3, <1>5, <2>1, <2>2
<1>6. CASE call.pc = "write" /\ call.op = "deploy" /\ Save(c, [call.copy EXCEPT !.status = "deployed"])
  <2> DEFINE row == [call.copy EXCEPT !.status = "deployed"]
  <2>1. row \in Row /\ row.items = call.copy.items /\ row.status = "deployed"
        /\ call.copy.status = "approved"
    BY <1>2, <1>6, RowTypes DEF IInv, CallInv, Guarded, Row
  <2>2. rows'[r] = row /\ OnlyRow(r)
    BY <1>4, <1>6, <2>1
  <2> HIDE DEF row
  <2> QED
    BY <1>1, <1>3, <1>6, <2>1, <2>2
<1>7. CASE call.op = "rollback" /\ Save(c, [call.copy EXCEPT !.status = "rolled_back"])
  <2> DEFINE row == [call.copy EXCEPT !.status = "rolled_back"]
  <2>1. row \in Row /\ row.items = call.copy.items /\ row.status = "rolled_back"
        /\ call.copy.status = "deployed"
    BY <1>2, <1>7, RowTypes DEF IInv, CallInv, Guarded, Row
  <2>2. rows'[r] = row /\ OnlyRow(r)
    BY <1>4, <1>7, <2>1
  <2> HIDE DEF row
  <2> QED
    BY <1>1, <1>3, <1>7, <2>1, <2>2
<1> QED
  BY <1>5, <1>6, <1>7 DEF SaveWhole

\* The same call, of the same release and with the same row.
Same(new, call) == new.op = call.op /\ new.rel = call.rel /\ new.copy = call.copy

\* An item is written from the revision that was captured.
LEMMA WriteItemEffect ==
  ASSUME IInv, NEW c \in Caller, NEW a \in Artifact, WriteItem(c, a)
  PROVE  /\ ~Idle(c) /\ Only(c) /\ UNCHANGED <<versions, rows, applied, overlaps>>
         /\ caller[c].pc = "write" /\ a \in caller[c].todo /\ caller[c].copy.items[a] # NoItem
         /\ files'[a] = versions[a][caller[c].copy.items[a].revision]
         /\ \A b \in Artifact \ {a} : files'[b] = files[b]
         /\ caller'[c] \in Call /\ Same(caller'[c], caller[c]) /\ caller'[c].pc = "environment"
         /\ caller'[c].at = a /\ caller'[c].todo = caller[c].todo \ {a}
<1> DEFINE call == caller[c]
           new == [call EXCEPT !.pc = "environment", !.at = a, !.todo = @ \ {a}]
<1>1. ~Idle(c)
  BY DEF WriteItem, Idle, NoCall
<1>2. call \in Call
  BY <1>1, CallAt
<1>3. new \in Call /\ Same(new, call) /\ new.pc = "environment" /\ new.at = a
      /\ new.todo = call.todo \ {a}
  BY <1>2 DEF Call, Same
<1>4. caller'[c] = new /\ Only(c)
  BY DEF WriteItem, Goto, Only, IInv, TypeOK
<1>5. /\ UNCHANGED <<versions, rows, applied, overlaps>>
      /\ call.pc = "write" /\ a \in call.todo /\ call.copy.items[a] # NoItem
      /\ files'[a] = versions[a][call.copy.items[a].revision]
      /\ \A b \in Artifact \ {a} : files'[b] = files[b]
  BY DEF WriteItem, IInv, TypeOK
<1> HIDE DEF new
<1> QED
  BY <1>1, <1>3, <1>4, <1>5

\* Then its environment: that of the target, or the one that was captured.
LEMMA SetEnvironmentEffect ==
  ASSUME IInv, NEW c \in Caller, SetEnvironment(c)
  PROVE  /\ ~Idle(c) /\ Only(c) /\ UNCHANGED <<versions, rows, overlaps>>
         /\ caller[c].pc = "environment" /\ caller[c].at \in Artifact
         /\ files[caller[c].at] \in File
         /\ \A b \in Artifact \ {caller[c].at} : files'[b] = files[b]
         /\ caller'[c] \in Call /\ Same(caller'[c], caller[c]) /\ caller'[c].todo = caller[c].todo
         /\ \/ /\ caller[c].op = "deploy"
               /\ caller'[c].pc = "snapshot" /\ caller'[c].at = caller[c].at
               /\ applied' = applied \cup
                    {[rel |-> caller[c].rel, art |-> caller[c].at,
                      file |-> [files[caller[c].at] EXCEPT !.env = TargetOf(caller[c].rel)]]}
            \/ /\ caller[c].op # "deploy" /\ caller'[c].pc = "write" /\ UNCHANGED applied
               /\ files'[caller[c].at] =
                    [files[caller[c].at] EXCEPT !.env = caller[c].copy.items[caller[c].at].file.env]
<1> DEFINE call == caller[c]
           a == call.at
           deploy == call.op = "deploy"
           env == IF deploy THEN TargetOf(call.rel) ELSE call.copy.items[a].file.env
           file == [files[a] EXCEPT !.env = env]
           new == [call EXCEPT !.pc = IF deploy THEN "snapshot" ELSE "write",
                               !.at = IF deploy THEN a ELSE NoArtifact]
<1>1. ~Idle(c) /\ call.pc = "environment"
  <2>1. call.pc = "environment"
    BY DEF SetEnvironment
  <2> QED
    BY <2>1 DEF Idle, NoCall
<1>2. call \in Call /\ CallInv(call) /\ call # NoCall
  BY <1>1, CallAt
<1>3. a \in Artifact /\ files[a] \in File
  BY <1>1, <1>2 DEF CallInv, AtHand
<1>4. new \in Call /\ Same(new, call) /\ new.todo = call.todo
      /\ new.pc = (IF deploy THEN "snapshot" ELSE "write") /\ (deploy => new.at = a)
  BY <1>2, <1>3 DEF Call, Same
<1>5. caller'[c] = new /\ Only(c)
  BY DEF SetEnvironment, Goto, Only, IInv, TypeOK
<1>6. /\ UNCHANGED <<versions, rows, overlaps>>
      /\ files' = [files EXCEPT ![a] = file]
      /\ applied' = IF deploy THEN applied \cup {[rel |-> call.rel, art |-> a, file |-> file]} ELSE applied
  BY DEF SetEnvironment
<1>7. files'[a] = file /\ \A b \in Artifact \ {a} : files'[b] = files[b]
  <2> HIDE DEF file, a
  <2> QED
    BY <1>3, <1>6 DEF IInv, TypeOK
<1> HIDE DEF new
<1> QED
  BY <1>1, <1>3, <1>4, <1>5, <1>6, <1>7

\* A revision that is known is captured by create; a deployment goes on.
LEMMA VersionedEffect ==
  ASSUME IInv, NEW c \in Caller, NEW a \in Artifact, caller[c] \in Call,
         NEW revision \in Nat, NEW file \in File \cup {NoFile}, Versioned(c, a, revision, file)
  PROVE  /\ Only(c) /\ caller'[c] \in Call
         /\ caller'[c].op = caller[c].op /\ caller'[c].rel = caller[c].rel
         /\ caller'[c].copy.status = caller[c].copy.status
         /\ caller'[c].todo = caller[c].todo \ {a}
         /\ \/ /\ caller[c].op = "create" /\ caller'[c].pc = "snapshot"
               /\ caller'[c].copy.items =
                    [caller[c].copy.items EXCEPT ![a] = [revision |-> revision, file |-> file]]
            \/ /\ caller[c].op # "create" /\ caller'[c].pc = "write"
               /\ caller'[c].copy = caller[c].copy
<1> DEFINE call == caller[c]
           idle == [call EXCEPT !.at = NoArtifact, !.new = <<>>, !.todo = @ \ {a}]
           item == [revision |-> revision, file |-> file]
<1>1. CASE call.op = "create"
  <2> DEFINE new == [idle EXCEPT !.pc = "snapshot", !.copy.items[a] = item]
  <2>1. new.copy = [call.copy EXCEPT !.items[a] = item] /\ item \in Item /\ new.pc = "snapshot"
        /\ new.op = call.op /\ new.rel = call.rel /\ new.todo = call.todo \ {a}
    BY DEF Call, Item
  <2>2. new.copy \in Row /\ new.copy.status = call.copy.status
        /\ new.copy.items = [call.copy.items EXCEPT ![a] = item]
    BY <2>1 DEF Call, Row
  <2>3. new \in Call
    BY <2>2 DEF Call
  <2>4. caller'[c] = new /\ Only(c)
    BY <1>1 DEF Versioned, Goto, Only, IInv, TypeOK
  <2> HIDE DEF new
  <2> QED
    BY <1>1, <2>1, <2>2, <2>3, <2>4
<1>2. CASE call.op # "create"
  <2> DEFINE new == [idle EXCEPT !.pc = "write"]
  <2>1. new \in Call /\ new.copy = call.copy /\ new.pc = "write"
        /\ new.op = call.op /\ new.rel = call.rel /\ new.todo = call.todo \ {a}
    BY DEF Call
  <2>2. caller'[c] = new /\ Only(c)
    BY <1>2 DEF Versioned, Goto, Only, IInv, TypeOK
  <2> HIDE DEF new
  <2> QED
    BY <1>2, <2>1, <2>2
<1> QED
  BY <1>1, <1>2

\* A call looks for the revision that an artifact is at, or for the next.
LEMMA ReadVersionEffect ==
  ASSUME IInv, NEW c \in Caller, NEW a \in Artifact, ReadVersion(c, a)
  PROVE  /\ ~Idle(c) /\ caller[c].pc = "snapshot"
         /\ UNCHANGED <<files, versions, rows, applied, overlaps>>
         /\ caller[c].op # "create" => a = caller[c].at
         /\ \/ \E revision \in Nat : \E file \in File \cup {NoFile} :
                 /\ Versioned(c, a, revision, file)
                 /\ \/ [revision |-> revision, file |-> file] = NoItem
                    \/ revision \in 1..Len(versions[a]) /\ versions[a][revision] = file
            \/ /\ Only(c) /\ caller'[c] \in Call /\ Same(caller'[c], caller[c])
               /\ caller'[c].pc = "version" /\ caller'[c].at = a
               /\ caller'[c].todo = caller[c].todo /\ caller'[c].new[1] = Len(versions[a]) + 1
<1> DEFINE call == caller[c]
           last == Len(versions[a])
<1>1. ~Idle(c) /\ call.pc = "snapshot" /\ (call.op # "create" => a = call.at)
      /\ UNCHANGED <<files, versions, rows, applied, overlaps>>
  BY DEF ReadVersion, Idle, NoCall
<1>2. call \in Call
  BY <1>1, CallAt
<1>3. last \in Nat /\ files[a] \in File \cup {NoFile}
  BY DEF IInv, TypeOK
<1>4. CASE files[a] = NoFile /\ Versioned(c, a, 0, NoFile)
  <2>1. Versioned(c, a, 0, NoFile) /\ [revision |-> 0, file |-> NoFile] = NoItem
        /\ 0 \in Nat /\ NoFile \in File \cup {NoFile}
    BY <1>4 DEF NoItem
  <2> QED
    BY <1>1, <2>1
<1>5. CASE last > 0 /\ versions[a][last] = files[a] /\ Versioned(c, a, last, files[a])
  <2>1. last \in 1..Len(versions[a])
    BY <1>3, <1>5
  <2> QED
    BY <1>1, <1>3, <1>5, <2>1
<1>6. CASE files[a] # NoFile
           /\ Goto(c, [call EXCEPT !.pc = "version", !.at = a, !.new = <<last + 1, files[a]>>])
  <2> DEFINE new == [call EXCEPT !.pc = "version", !.at = a, !.new = <<last + 1, files[a]>>]
  <2>1. <<last + 1, files[a]>> \in Nat \X File
    BY <1>3, <1>6
  <2>2. /\ new \in Call /\ new.pc = "version" /\ Same(new, call)
        /\ new.at = a /\ new.todo = call.todo /\ new.new[1] = last + 1
    BY <1>2, <2>1 DEF Call, Same
  <2>3. caller'[c] = new /\ Only(c)
    BY <1>6 DEF Goto, Only, IInv, TypeOK
  <2> HIDE DEF new
  <2> QED
    BY <1>1, <2>2, <2>3
<1> QED
  BY <1>4, <1>5, <1>6 DEF ReadVersion

\* The next revision is appended, and the others stay what they are.
LEMMA SaveVersionEffect ==
  ASSUME IInv, NEW c \in Caller, SaveVersion(c)
  PROVE  /\ ~Idle(c) /\ caller[c].pc = "version" /\ caller[c].at \in Artifact
         /\ UNCHANGED <<files, rows, applied, overlaps>>
         /\ caller[c].new[1] \in Nat /\ caller[c].new[2] \in File
         /\ Versioned(c, caller[c].at, caller[c].new[1], caller[c].new[2])
         /\ versions'[caller[c].at][caller[c].new[1]] = caller[c].new[2]
         /\ caller[c].new[1] = Len(versions[caller[c].at]) + 1 =>
              \A b \in Artifact : \A i \in 1..Len(versions[b]) : versions'[b][i] = versions[b][i]
<1> DEFINE call == caller[c]
           a == call.at
           revision == call.new[1]
           file == call.new[2]
           saved == IF revision \in DOMAIN versions[a]
                    THEN [versions[a] EXCEPT ![revision] = file]
                    ELSE Append(versions[a], file)
<1>1. ~Idle(c) /\ call.pc = "version"
  BY DEF SaveVersion, Idle, NoCall
<1>2. call \in Call /\ CallInv(call) /\ call # NoCall
  BY <1>1, CallAt
<1>3. a \in Artifact /\ revision \in Nat /\ file \in File /\ revision \in 1..(Len(versions[a]) + 1)
  <2>1. a \in Artifact /\ call.new \in Nat \X File /\ call.new[1] \in 1..(Len(versions[a]) + 1)
    BY <1>1, <1>2 DEF CallInv, AtHand
  <2> QED
    BY <2>1
<1>4. /\ versions' = [versions EXCEPT ![a] = saved] /\ Versioned(c, a, revision, file)
      /\ UNCHANGED <<files, rows, applied, overlaps>>
  BY DEF SaveVersion
<1>5. versions[a] \in Seq(File)
  BY <1>3 DEF IInv, TypeOK
<1>6. saved[revision] = file
  <2> HIDE DEF a, revision, file
  <2>1. CASE revision \in DOMAIN versions[a]
    BY <1>3, <1>5, <2>1
  <2>2. CASE revision \notin DOMAIN versions[a]
    BY <1>3, <1>5, <2>2
  <2> QED
    BY <2>1, <2>2
<1>7. revision = Len(versions[a]) + 1 => \A i \in 1..Len(versions[a]) : saved[i] = versions[a][i]
  <2> HIDE DEF a, revision, file
  <2> QED
    BY <1>3, <1>5
<1> HIDE DEF saved, a, revision, file
<1>8. versions'[a] = saved /\ \A b \in Artifact \ {a} : versions'[b] = versions[b]
  BY <1>3, <1>4 DEF IInv, TypeOK
<1> QED
  BY <1>1, <1>3, <1>4, <1>6, <1>7, <1>8 DEF a, revision, file

-----------------------------------------------------------------------------
(* Staging before production *)

Wrote(r, a) == \E y \in applied : y.rel = r /\ y.art = a
Delivered(r) == \A a \in Items(r) : Wrote(r, a)
StagedBefore(a) == \E y \in applied : TargetOf(y.rel) = "staging" /\ y.art = a

\* A row that says deployed, saved or in the hands of a call, is of a release
\* whose items were all written.
RowStaged(r, row) == row.status = "deployed" => Delivered(r)

\* A deployment has written what it has no longer to do, but for the item it is
\* at; one for production works on items that were written for staging.
CallStaged(call) ==
  call # NoCall =>
    /\ RowStaged(call.rel, call.copy)
    /\ call.op = "deploy" /\ call.pc # "check" =>
         /\ call.pc \in {"environment", "snapshot", "version"} => call.at \in Items(call.rel) \ call.todo
         /\ call.todo \subseteq Items(call.rel)
         /\ \A a \in Items(call.rel) \ call.todo :
              (call.pc = "environment" /\ a = call.at) \/ Wrote(call.rel, a)
         /\ TargetOf(call.rel) = "production" => \A a \in Items(call.rel) : StagedBefore(a)

StagingInv ==
  /\ \A r \in Release : RowStaged(r, rows[r])
  /\ \A c \in Caller : CallStaged(caller[c])
  /\ ProductionWasStaged

\* What was written stays written.
LEMMA WrittenStays ==
  ASSUME applied \subseteq applied'
  PROVE  /\ \A r, a : Wrote(r, a) => Wrote(r, a)'
         /\ \A r : Delivered(r) => Delivered(r)'
         /\ \A a : StagedBefore(a) => StagedBefore(a)'
BY DEF Wrote, Delivered, StagedBefore

\* When one call acts, the others stay as they are.
LEMMA StagingStays ==
  ASSUME StagingInv, applied \subseteq applied', NEW c \in Caller, Only(c),
         CallStaged(caller[c])', ProductionWasStaged',
         \A r \in Release : rows'[r] = rows[r] \/ RowStaged(r, rows[r])'
  PROVE  StagingInv'
<1>1. ASSUME NEW r \in Release, rows'[r] = rows[r]
      PROVE  RowStaged(r, rows[r])'
  BY <1>1, WrittenStays DEF StagingInv, RowStaged
<1>2. ASSUME NEW d \in Caller, d # c
      PROVE  CallStaged(caller[d])'
  <2>1. caller'[d] = caller[d] /\ CallStaged(caller[d])
    BY <1>2 DEF Only, StagingInv
  <2> QED
    BY <2>1, WrittenStays DEF CallStaged, RowStaged
<1> QED
  BY <1>1, <1>2 DEF StagingInv

\* Where a deployment is after the gates of production, a release of each of
\* its items is in staging; so the item was written there.
LEMMA StagedByGate ==
  ASSUME StagingInv, NEW a, InStaging(a)
  PROVE  StagedBefore(a)
<1>1. PICK q \in Release : rows[q].status = "deployed" /\ TargetOf(q) = "staging" /\ a \in Items(q)
  BY DEF InStaging
<1>2. Wrote(q, a)
  BY <1>1 DEF StagingInv, RowStaged, Delivered
<1> QED
  BY <1>1, <1>2 DEF Wrote, StagedBefore

LEMMA StagingNext == IInv /\ StagingInv /\ [Next]_vars => StagingInv'
<1> SUFFICES ASSUME IInv, StagingInv, [Next]_vars PROVE StagingInv'
  OBVIOUS
<1>0. NoRow.status = "none"
  BY DEF NoRow
<1>1. ASSUME NEW c \in Caller, Start(c)
      PROVE  StagingInv'
  <2>1. UNCHANGED <<applied, rows>> /\ Only(c) /\ caller'[c] \in Call
    BY <1>1, StartEffect
  <2>2. RowStaged(caller[c].rel, caller[c].copy)'
    BY <1>1, <2>1, WrittenStays, StartEffect DEF RowStaged, StagingInv, Call
  <2>3. ~(caller'[c].op = "deploy" /\ caller'[c].pc # "check")
    BY <1>1, StartEffect
  <2>4. CallStaged(caller[c])'
    BY <2>2, <2>3 DEF CallStaged
  <2> QED
    BY <2>1, <2>4, StagingStays DEF StagingInv, ProductionWasStaged
<1>2. ASSUME NEW c \in Caller, Check(c)
      PROVE  StagingInv'
  <2> DEFINE call == caller[c]
  <2>0. PICK r \in Release : r = call.rel
    BY CheckEffect, CallAt, <1>2
  <2>1. UNCHANGED applied /\ Only(c) /\ OnlyRow(r) /\ rows'[r].status = call.copy.status
        /\ RowStaged(r, call.copy)
    BY <1>2, <2>0, CheckEffect, CallAt DEF StagingInv, CallStaged
  <2>2. RowStaged(r, rows[r])'
    BY <2>1, WrittenStays DEF RowStaged
  <2>3. CallStaged(caller[c])'
    <3>1. CASE caller'[c] = NoCall
      BY <3>1 DEF CallStaged
    <3>2. CASE caller'[c] # NoCall
      <4>1. /\ caller'[c].rel = r /\ caller'[c].op = call.op
            /\ caller'[c].copy.status = call.copy.status
            /\ \/ call.op = "submit"
               \/ /\ caller'[c].pc = "write" /\ caller'[c].todo = Items(r)
                  /\ TargetOf(r) = "production" => \A a \in Items(r) : InStaging(a)
        BY <1>2, <2>0, <3>2, CheckEffect
      <4>2. RowStaged(caller[c].rel, caller[c].copy)'
        BY <2>1, <4>1, WrittenStays DEF RowStaged
      <4>3. TargetOf(r) = "production" /\ call.op # "submit" => \A a \in Items(r) : StagedBefore(a)'
        BY <2>1, <4>1, StagedByGate, WrittenStays
      <4> QED
        BY <4>1, <4>2, <4>3 DEF CallStaged
    <3> QED
      BY <3>1, <3>2
  <2> QED
    BY <2>1, <2>2, <2>3, StagingStays DEF StagingInv, ProductionWasStaged, OnlyRow
<1>3. ASSUME NEW c \in Caller, SaveCall(c) \/ SaveWhole(c)
      PROVE  StagingInv'
  <2> DEFINE call == caller[c]
  <2>0. PICK r \in Release : r = call.rel
    BY SaveCallEffect, SaveWholeEffect, CallAt, <1>3
  <2>1. UNCHANGED applied /\ Only(c) /\ OnlyRow(r) /\ caller'[c] = NoCall
        /\ CallStaged(call) /\ call # NoCall
    BY <1>3, <2>0, SaveCallEffect, SaveWholeEffect, CallAt DEF StagingInv
  <2>2. rows'[r].status = "deployed" => Delivered(r)
    <3>1. CASE SaveCall(c)
      BY <2>0, <2>1, <3>1, SaveCallEffect DEF CallStaged, RowStaged
    <3>2. CASE SaveWhole(c)
      BY <2>0, <2>1, <3>2, SaveWholeEffect DEF CallStaged, RowStaged, Delivered
    <3> QED
      BY <1>3, <3>1, <3>2
  <2>3. RowStaged(r, rows[r])'
    BY <2>1, <2>2, WrittenStays DEF RowStaged
  <2>4. CallStaged(caller[c])'
    BY <2>1 DEF CallStaged
  <2> QED
    BY <2>1, <2>3, <2>4, StagingStays DEF StagingInv, ProductionWasStaged, OnlyRow
<1>4. ASSUME NEW c \in Caller, UNCHANGED <<applied, rows>>, Only(c), ~Idle(c),
             caller'[c] = NoCall \/
               /\ caller'[c] \in Call /\ caller'[c].op = caller[c].op
               /\ caller'[c].rel = caller[c].rel
               /\ caller'[c].copy.status = caller[c].copy.status
               /\ caller[c].op = "deploy" =>
                    /\ caller[c].pc # "check"
                    /\ caller'[c].todo \subseteq caller[c].todo
                    /\ caller'[c].pc \in {"environment", "snapshot", "version"} =>
                         caller'[c].at \in Items(caller[c].rel) \ caller'[c].todo
                    /\ \A a \in caller[c].todo \ caller'[c].todo :
                         caller'[c].pc = "environment" /\ a = caller'[c].at
                    /\ caller[c].pc # "environment"
      PROVE  StagingInv'
  <2>1. CallStaged(caller[c]) /\ caller[c] # NoCall
    BY <1>4, CallAt DEF StagingInv
  <2>2. CallStaged(caller[c])'
    <3>1. CASE caller'[c] = NoCall
      BY <3>1 DEF CallStaged
    <3>2. CASE caller'[c] # NoCall
      <4>1. RowStaged(caller[c].rel, caller[c].copy)'
        BY <1>4, <2>1, <3>2, WrittenStays DEF CallStaged, RowStaged
      <4>2. CASE caller[c].op # "deploy"
        BY <1>4, <3>2, <4>1, <4>2 DEF CallStaged
      <4>3. CASE caller[c].op = "deploy"
        BY <1>4, <2>1, <3>2, <4>1, <4>3, WrittenStays DEF CallStaged
      <4> QED
        BY <4>2, <4>3
    <3> QED
      BY <3>1, <3>2
  <2> QED
    BY <1>4, <2>2, StagingStays DEF StagingInv, ProductionWasStaged
<1>5. ASSUME NEW c \in Caller, NEW a \in Artifact, WriteItem(c, a)
      PROVE  StagingInv'
  <2>1. ~Idle(c) /\ Only(c) /\ UNCHANGED <<applied, rows>> /\ Same(caller'[c], caller[c])
        /\ caller'[c] \in Call /\ caller[c].pc = "write" /\ a \in caller[c].todo
        /\ caller'[c].at = a /\ caller'[c].todo = caller[c].todo \ {a} /\ caller'[c].pc = "environment"
    BY <1>5, WriteItemEffect
  <2>2. caller[c].op = "deploy" => caller[c].todo \subseteq Items(caller[c].rel)
    BY <2>1, CallAt DEF StagingInv, CallStaged
  <2> QED
    BY <1>4, <2>1, <2>2 DEF Same
<1>6. ASSUME NEW c \in Caller, SetEnvironment(c)
      PROVE  StagingInv'
  <2> DEFINE call == caller[c]
  <2>0. PICK r \in Release, at \in Artifact : r = call.rel /\ at = call.at
    BY <1>6, SetEnvironmentEffect, CallAt
  <2> DEFINE x == [rel |-> r, art |-> at, file |-> [files[at] EXCEPT !.env = TargetOf(r)]]
  <2>1. /\ Only(c) /\ UNCHANGED rows /\ call # NoCall /\ CallStaged(call) /\ call.pc = "environment"
        /\ caller'[c] \in Call /\ Same(caller'[c], call) /\ caller'[c].todo = call.todo
        /\ \/ /\ call.op = "deploy" /\ applied' = applied \cup {x}
              /\ caller'[c].pc = "snapshot" /\ caller'[c].at = at
           \/ call.op # "deploy" /\ caller'[c].pc = "write" /\ UNCHANGED applied
    BY <1>6, <2>0, SetEnvironmentEffect, CallAt DEF StagingInv
  <2>2. x.rel = r /\ x.art = at
    OBVIOUS
  <2> HIDE DEF x
  <2>3. applied \subseteq applied'
    BY <2>1
  <2>4. RowStaged(caller[c].rel, caller[c].copy)'
    BY <2>1, <2>3, WrittenStays DEF CallStaged, RowStaged, Same
  <2>5. CASE call.op = "deploy"
    <3>1. Wrote(r, at)'
      BY <2>1, <2>2, <2>5 DEF Wrote
    <3>2. CallStaged(caller[c])'
      BY <2>0, <2>1, <2>3, <2>4, <2>5, <3>1, WrittenStays DEF CallStaged, Same
    <3>3. ProductionWasStaged'
      <4>1. TargetOf(r) = "production" => StagedBefore(at)'
        BY <2>0, <2>1, <2>3, <2>5, WrittenStays DEF CallStaged
      <4>2. ASSUME NEW y \in applied, TargetOf(y.rel) = "production"
            PROVE  StagedBefore(y.art)'
        BY <2>3, <4>2, WrittenStays DEF StagingInv, ProductionWasStaged, StagedBefore
      <4> QED
        BY <2>1, <2>2, <2>5, <4>1, <4>2 DEF ProductionWasStaged, StagedBefore
    <3> QED
      BY <2>1, <2>3, <3>2, <3>3, StagingStays
  <2>6. CASE call.op # "deploy"
    <3>1. CallStaged(caller[c])'
      BY <2>1, <2>4, <2>6 DEF CallStaged, Same
    <3> QED
      BY <2>1, <2>3, <2>6, <3>1, StagingStays DEF StagingInv, ProductionWasStaged
  <2> QED
    BY <2>5, <2>6
<1>7. ASSUME NEW c \in Caller, SaveVersion(c) \/ \E a \in Artifact : ReadVersion(c, a)
      PROVE  StagingInv'
  <2>1. /\ ~Idle(c) /\ UNCHANGED <<applied, rows>> /\ caller[c] \in Call
        /\ caller[c].pc \in {"snapshot", "version"}
    BY <1>7, SaveVersionEffect, ReadVersionEffect, CallAt
  <2>2. caller[c].op = "deploy" => caller[c].at \in Items(caller[c].rel) \ caller[c].todo
    BY <2>1, CallAt DEF StagingInv, CallStaged
  <2>3. CASE \E a \in Artifact : \E revision \in Nat : \E file \in File \cup {NoFile} :
               /\ Versioned(c, a, revision, file)
               /\ caller[c].op # "create" => a = caller[c].at
    <3>1. PICK a \in Artifact : \E revision \in Nat : \E file \in File \cup {NoFile} :
            /\ Versioned(c, a, revision, file)
            /\ caller[c].op # "create" => a = caller[c].at
      BY <2>3
    <3>2. /\ Only(c) /\ caller'[c] \in Call
          /\ caller'[c].op = caller[c].op /\ caller'[c].rel = caller[c].rel
          /\ caller'[c].copy.status = caller[c].copy.status
          /\ caller'[c].todo = caller[c].todo \ {a}
          /\ caller[c].op # "create" => caller'[c].pc = "write"
      BY <2>1, <3>1, VersionedEffect
    <3>3. caller[c].op = "deploy" => a \notin caller[c].todo
      BY <2>2, <3>1
    <3> QED
      BY <1>4, <2>1, <3>2, <3>3
  <2>4. CASE \E a \in Artifact : ReadVersion(c, a)
                /\ Only(c) /\ caller'[c] \in Call /\ Same(caller'[c], caller[c])
                /\ caller'[c].at = a /\ caller'[c].todo = caller[c].todo
    <3>1. PICK a \in Artifact : ReadVersion(c, a)
                /\ Only(c) /\ caller'[c] \in Call /\ Same(caller'[c], caller[c])
                /\ caller'[c].at = a /\ caller'[c].todo = caller[c].todo
      BY <2>4
    <3>2. caller[c].op # "create" => a = caller[c].at
      BY <3>1, ReadVersionEffect
    <3> QED
      BY <1>4, <2>1, <2>2, <3>1, <3>2 DEF Same
  <2> QED
    <3>1. CASE SaveVersion(c)
      BY <2>3, <3>1, SaveVersionEffect
    <3>2. CASE \E a \in Artifact : ReadVersion(c, a)
      BY <2>3, <2>4, <3>2, ReadVersionEffect
    <3> QED
      BY <1>7, <3>1, <3>2
<1>8. ASSUME NEW c \in Caller, Crash(c) \/ \E a \in Artifact : WriteNothing(c, a)
      PROVE  StagingInv'
  <2>1. ~Idle(c) /\ Only(c) /\ caller'[c] = NoCall /\ UNCHANGED <<applied, rows>>
    BY <1>8 DEF Crash, WriteNothing, Idle, NoCall, Return, Goto, Only, IInv, TypeOK
  <2> QED
    BY <1>4, <2>1
<1>9. ASSUME UNCHANGED <<applied, rows, caller>>
      PROVE  StagingInv'
  <2>1. applied \subseteq applied'
    BY <1>9
  <2> QED
    BY <1>9, <2>1, WrittenStays DEF StagingInv, CallStaged, RowStaged, ProductionWasStaged
<1>10. CASE \E c \in Caller : Start(c) \/ Step(c) \/ Crash(c)
  BY <1>1, <1>2, <1>3, <1>5, <1>6, <1>7, <1>8, <1>10 DEF Step
<1> QED
  BY <1>9, <1>10 DEF Next, Edit, Evaluate, Judge, vars

-----------------------------------------------------------------------------
(* While calls do not overlap *)

\* The revisions that items were captured from still hold what was captured.
Kept(items) ==
  \A a \in Artifact : items[a] # NoItem => versions[a][items[a].revision] = items[a].file

\* A call that nobody interfered with: its copy agrees with the row (or there
\* is none yet), what it is at is what was captured, and what it has no longer
\* to put back is back.
CallAlone(call) ==
  LET row == rows[call.rel] IN
  /\ Kept(call.copy.items)
  /\ IF call.op = "create"
     THEN row = NoRow
     ELSE row # NoRow /\ call.copy.status = row.status /\ call.copy.items = row.items
  /\ call.op = "submit" /\ call.pc = "save" => call.copy.status = "draft"
  /\ call.op = "reject" => call.copy.status \notin {"deployed", "rolled_back"}
  /\ call.pc \in {"write", "environment"} => call.op \in {"deploy", "rollback"}
  /\ call.pc \in {"snapshot", "version"} => call.op \in {"create", "deploy"}
  /\ call.pc = "environment" =>
       call.copy.items[call.at] # NoItem /\ files[call.at] = call.copy.items[call.at].file
  /\ call.pc = "version" => call.new[1] = Len(versions[call.at]) + 1
  /\ call.op = "rollback" =>
       /\ call.pc \in {"write", "environment"}
       /\ \A a \in Items(call.rel) \ call.todo : files[a] = call.copy.items[a].file

OneAtATime == \A c, d \in Caller : ~Idle(c) /\ ~Idle(d) => c = d

RowsKept == \A r \in Release : rows[r] # NoRow => Kept(rows[r].items)

\* What AppliedAsCaptured says, and that it is of a release that is saved.
AppliedKept ==
  \A x \in applied :
    /\ rows[x.rel] # NoRow
    /\ x.file = [rows[x.rel].items[x.art].file EXCEPT !.env = TargetOf(x.rel)]

AloneInv ==
  overlaps = 0 =>
    /\ OneAtATime /\ RowsKept /\ AppliedKept
    /\ \A c \in Caller : ~Idle(c) => CallAlone(caller[c])

\* A revision that is not written over keeps what was captured from it.
LEMMA KeptStays ==
  ASSUME TypeOK,
         \A a \in Artifact : \A i \in 1..Len(versions[a]) : versions'[a][i] = versions[a][i],
         NEW items \in [Artifact -> Item], Captured(items), Kept(items)
  PROVE  Kept(items)'
BY DEF Captured, Kept

\* The items of a row that is saved.
LEMMA RowItems ==
  ASSUME IInv, NEW r \in Release, rows[r] # NoRow
  PROVE  rows[r].items \in [Artifact -> Item] /\ Captured(rows[r].items)
BY DEF IInv, TypeOK, RowsInv, Row

\* When the only call acts and there is no overlap, what it leaves decides.
LEMMA AloneStays ==
  ASSUME IInv, IInv', AloneInv, overlaps' = 0 => overlaps = 0,
         NEW c \in Caller, Only(c),
         \A a \in Artifact : \A i \in 1..Len(versions[a]) : versions'[a][i] = versions[a][i],
         \A d \in Caller : overlaps = 0 /\ ~Idle(d) => d = c,
         overlaps = 0 /\ caller'[c] # NoCall => CallAlone(caller[c])',
         \A r \in Release :
           \/ rows'[r] = rows[r]
           \/ overlaps = 0 => rows'[r] # NoRow /\ Kept(rows[r].items)'
                              /\ (rows[r] # NoRow => rows'[r].items = rows[r].items),
         \A x \in applied' \ applied : overlaps = 0 =>
           /\ rows'[x.rel] # NoRow
           /\ x.file = [rows'[x.rel].items[x.art].file EXCEPT !.env = TargetOf(x.rel)]
  PROVE  AloneInv'
<1> SUFFICES ASSUME overlaps' = 0
             PROVE  /\ OneAtATime' /\ RowsKept' /\ AppliedKept'
                    /\ \A d \in Caller : caller'[d] # NoCall => CallAlone(caller[d])'
  BY DEF AloneInv, Idle
<1>1. overlaps = 0
  OBVIOUS
<1>2. \A d \in Caller : caller'[d] # NoCall => d = c
  BY <1>1 DEF Idle, Only
<1>3. OneAtATime'
  BY <1>2 DEF OneAtATime, Idle
<1>4. RowsKept'
  <2> SUFFICES ASSUME NEW r \in Release, rows'[r] # NoRow
               PROVE  Kept(rows[r].items)'
    BY DEF RowsKept
  <2>1. CASE rows'[r] = rows[r]
    <3>1. PICK items \in [Artifact -> Item] : items = rows[r].items /\ Captured(items) /\ Kept(items)
      BY <1>1, <2>1, RowItems DEF AloneInv, RowsKept
    <3>2. Kept(items)'
      BY <3>1, KeptStays DEF IInv
    <3> QED
      BY <2>1, <3>1, <3>2
  <2>2. CASE rows'[r] # rows[r]
    BY <1>1, <2>2
  <2> QED
    BY <2>1, <2>2
<1>5. AppliedKept'
  <2> SUFFICES ASSUME NEW x \in applied'
               PROVE  /\ rows'[x.rel] # NoRow
                      /\ x.file = [rows'[x.rel].items[x.art].file EXCEPT !.env = TargetOf(x.rel)]
    BY DEF AppliedKept
  <2>1. CASE x \notin applied
    BY <1>1, <2>1
  <2>2. CASE x \in applied
    <3>1. /\ x.rel \in Release /\ rows[x.rel] # NoRow
          /\ x.file = [rows[x.rel].items[x.art].file EXCEPT !.env = TargetOf(x.rel)]
      BY <1>1, <2>2 DEF AloneInv, AppliedKept, IInv, TypeOK
    <3> QED
      BY <1>1, <3>1
  <2> QED
    BY <2>1, <2>2
<1> QED
  BY <1>1, <1>2, <1>3, <1>4, <1>5

\* When nothing happens to versions, rows or what was applied, the call that
\* acts is all there is to look at.
LEMMA AloneMoves ==
  ASSUME IInv, IInv', AloneInv, NEW c \in Caller, ~Idle(c), Only(c),
         UNCHANGED <<versions, rows, applied, overlaps>>,
         overlaps = 0 /\ caller'[c] # NoCall => CallAlone(caller[c])'
  PROVE  AloneInv'
<1>1. \A d \in Caller : overlaps = 0 /\ ~Idle(d) => d = c
  BY DEF AloneInv, OneAtATime
<1>2. UNCHANGED versions /\ UNCHANGED rows /\ UNCHANGED applied /\ UNCHANGED overlaps
  OBVIOUS
<1> QED
  BY <1>1, <1>2, AloneStays

\* A call that begins is the only one, or it overlaps.
LEMMA StartAlone ==
  ASSUME IInv, IInv', AloneInv, NEW c \in Caller, Start(c)
  PROVE  AloneInv'
<1>1. Idle(c) /\ Only(c) /\ UNCHANGED versions /\ UNCHANGED rows /\ UNCHANGED applied
      /\ UNCHANGED files /\ Overlap
  BY StartEffect
<1>2. CASE overlaps' # 0
  BY <1>2 DEF AloneInv
<1>3. CASE overlaps' = 0
  <2>1. overlaps = 0 /\ \A d \in Caller : Idle(d)
    BY <1>1, <1>3 DEF Overlap, Busy, IInv, TypeOK
  <2>2. CallAlone(caller[c])'
    <3>1. PICK new \in Call : new = caller'[c]
      BY StartEffect
    <3>2. new.rel \in Release
      BY DEF Call
    <3>3. CASE new.op = "create"
      <4>1. rows[new.rel] = NoRow /\ new.pc = "snapshot" /\ new.copy.items = [a \in Artifact |-> NoItem]
        BY <3>1, <3>3, StartEffect
      <4>2. Kept(new.copy.items)'
        BY <4>1 DEF Kept
      <4> QED
        BY <1>1, <3>1, <3>3, <4>1, <4>2 DEF CallAlone
    <3>4. CASE new.op # "create"
      <4>1. /\ rows[new.rel] # NoRow /\ new.copy = rows[new.rel]
            /\ new.op = "reject" => new.copy.status \notin {"deployed", "rolled_back"}
            /\ \/ new.op \in {"check", "submit", "deploy"} /\ new.pc = "check"
               \/ new.op \in {"approve", "reject", "sign"} /\ new.pc = "save"
               \/ new.op = "rollback" /\ new.pc = "write" /\ new.todo = Items(new.rel)
        BY <3>1, <3>4, StartEffect
      <4>2. Kept(new.copy.items)
        BY <2>1, <3>2, <4>1 DEF AloneInv, RowsKept
      <4>3. Kept(new.copy.items)'
        BY <1>1, <4>2 DEF Kept
      <4> QED
        BY <1>1, <3>1, <3>4, <4>1, <4>3 DEF CallAlone
    <3> QED
      BY <3>3, <3>4
  <2> QED
    BY <1>1, <2>1, <2>2, AloneStays
<1> QED
  BY <1>2, <1>3

\* A row that the only call saves has the items that it had, or is new.
LEMMA SaveAlone ==
  ASSUME IInv, IInv', AloneInv, NEW c \in Caller, ~Idle(c), Only(c), OnlyRow(caller[c].rel),
         UNCHANGED <<files, versions, applied, overlaps>>,
         rows'[caller[c].rel] \in Row, rows'[caller[c].rel].items = caller[c].copy.items,
         overlaps = 0 /\ caller'[c] # NoCall => CallAlone(caller[c])'
  PROVE  AloneInv'
<1>1. PICK r \in Release : r = caller[c].rel
  BY CallAt
<1>2. NoRow \notin Row
  <2>1. "items" \notin DOMAIN NoRow
    BY DEF NoRow
  <2>2. \A row \in Row : "items" \in DOMAIN row
    BY DEF Row
  <2> QED
    BY <2>1, <2>2
<1>3. \A d \in Caller : overlaps = 0 /\ ~Idle(d) => d = c
  BY DEF AloneInv, OneAtATime
<1>4. overlaps = 0 =>
        /\ rows'[r] # NoRow /\ Kept(rows[r].items)'
        /\ rows[r] # NoRow => rows'[r].items = rows[r].items
  <2> SUFFICES ASSUME overlaps = 0
               PROVE  /\ rows'[r] # NoRow /\ Kept(rows[r].items)'
                      /\ rows[r] # NoRow => rows'[r].items = rows[r].items
    OBVIOUS
  <2>1. CallAlone(caller[c])
    BY DEF AloneInv
  <2>2. Kept(rows[r].items)'
    BY <1>1, <2>1 DEF CallAlone, Kept
  <2> QED
    BY <1>1, <1>2, <2>1, <2>2 DEF CallAlone
<1>5. UNCHANGED versions /\ UNCHANGED applied /\ UNCHANGED overlaps
  OBVIOUS
<1>6. \A q \in Release : q # r => rows'[q] = rows[q]
  BY <1>1 DEF OnlyRow
<1> QED
  BY <1>3, <1>4, <1>5, <1>6, AloneStays

LEMMA CheckAlone ==
  ASSUME IInv, IInv', AloneInv, NEW c \in Caller, Check(c)
  PROVE  AloneInv'
<1>1. ~Idle(c) /\ Only(c) /\ OnlyRow(caller[c].rel) /\ UNCHANGED <<files, versions, applied, overlaps>>
      /\ rows'[caller[c].rel] \in Row
      /\ rows'[caller[c].rel].status = caller[c].copy.status
      /\ rows'[caller[c].rel].items = caller[c].copy.items
  BY CheckEffect
<1>2. ASSUME overlaps = 0, caller'[c] # NoCall
      PROVE  CallAlone(caller[c])'
  <2>1. PICK new \in Call : new = caller'[c]
    BY <1>2, CheckEffect
  <2>2. /\ new.rel = caller[c].rel /\ new.op = caller[c].op
        /\ new.copy.status = caller[c].copy.status /\ new.copy.items = caller[c].copy.items
        /\ \/ new.op = "submit" /\ new.pc = "save" /\ new.copy.status = "draft"
           \/ new.op = "deploy" /\ new.pc = "write"
    BY <1>2, <2>1, CheckEffect
  <2>3. CallAlone(caller[c])
    BY <1>1, <1>2 DEF AloneInv
  <2>4. Kept(new.copy.items)'
    BY <1>1, <2>2, <2>3 DEF CallAlone, Kept
  <2>5. rows'[new.rel] # NoRow
    <3>1. "items" \notin DOMAIN NoRow
      BY DEF NoRow
    <3>2. \A row \in Row : "items" \in DOMAIN row
      BY DEF Row
    <3> QED
      BY <1>1, <2>2, <3>1, <3>2
  <2> QED
    BY <1>1, <2>1, <2>2, <2>4, <2>5 DEF CallAlone
<1> QED
  BY <1>1, <1>2, SaveAlone

LEMMA WriteItemAlone ==
  ASSUME IInv, IInv', AloneInv, NEW c \in Caller, NEW a \in Artifact, WriteItem(c, a)
  PROVE  AloneInv'
<1>1. /\ ~Idle(c) /\ Only(c) /\ UNCHANGED <<versions, rows, applied, overlaps>>
      /\ caller[c].copy.items[a] # NoItem
      /\ files'[a] = versions[a][caller[c].copy.items[a].revision]
      /\ \A b \in Artifact \ {a} : files'[b] = files[b]
  BY WriteItemEffect
<1>2. ASSUME overlaps = 0
      PROVE  CallAlone(caller[c])'
  <2>1. PICK new \in Call : new = caller'[c]
    BY WriteItemEffect
  <2>2. Same(new, caller[c]) /\ new.pc = "environment" /\ new.at = a
        /\ new.todo = caller[c].todo \ {a} /\ caller[c].pc = "write"
    BY <2>1, WriteItemEffect
  <2>3. CallAlone(caller[c]) /\ new.rel \in Release
    BY <1>1, <1>2 DEF AloneInv, Call
  <2>4. Kept(new.copy.items)'
    BY <1>1, <2>2, <2>3 DEF CallAlone, Kept, Same
  <2>5. files'[a] = new.copy.items[a].file
    BY <1>1, <2>2, <2>3 DEF CallAlone, Kept, Same
  <2>6. Items(new.rel) \subseteq Artifact
    BY <2>3, ReleaseAssumption DEF Items
  <2> QED
    BY <1>1, <2>1, <2>2, <2>3, <2>4, <2>5, <2>6 DEF CallAlone, Same
<1> QED
  BY <1>1, <1>2, AloneMoves

LEMMA SetEnvironmentAlone ==
  ASSUME IInv, IInv', AloneInv, NEW c \in Caller, SetEnvironment(c)
  PROVE  AloneInv'
<1>1. /\ ~Idle(c) /\ Only(c) /\ UNCHANGED <<versions, rows, overlaps>>
      /\ caller[c].pc = "environment"
      /\ \A b \in Artifact \ {caller[c].at} : files'[b] = files[b]
  BY SetEnvironmentEffect
<1>2. PICK new \in Call : new = caller'[c]
  BY SetEnvironmentEffect
<1>3. PICK a \in Artifact : a = caller[c].at
  BY SetEnvironmentEffect
<1>4. files[a] \in File /\ Same(new, caller[c]) /\ new.todo = caller[c].todo
  BY <1>2, <1>3, SetEnvironmentEffect
<1>5. overlaps = 0 => CallAlone(caller[c]) /\ files[a] = new.copy.items[a].file /\ new.rel \in Release
  BY <1>1, <1>3, <1>4 DEF AloneInv, CallAlone, Same, Call
<1>6. CASE caller[c].op = "deploy"
  <2> DEFINE x == [rel |-> new.rel, art |-> a, file |-> [files[a] EXCEPT !.env = TargetOf(new.rel)]]
  <2>1. new.pc = "snapshot" /\ applied' = applied \cup {x}
    BY <1>2, <1>3, <1>4, <1>6, SetEnvironmentEffect DEF Same
  <2>2. x.rel = new.rel /\ x.art = a /\ x.file = [files[a] EXCEPT !.env = TargetOf(new.rel)]
    OBVIOUS
  <2> HIDE DEF x
  <2>3. overlaps = 0 => CallAlone(caller[c])'
    <3>1. overlaps = 0 => Kept(new.copy.items)'
      BY <1>1, <1>4, <1>5 DEF CallAlone, Kept, Same
    <3> QED
      BY <1>1, <1>2, <1>4, <1>5, <1>6, <2>1, <3>1 DEF CallAlone, Same
  <2>4. overlaps = 0 => rows'[x.rel] # NoRow
          /\ x.file = [rows'[x.rel].items[x.art].file EXCEPT !.env = TargetOf(x.rel)]
    <3>1. UNCHANGED rows /\ new.op = "deploy" /\ caller[c].rel = new.rel /\ caller[c].copy = new.copy
      BY <1>1, <1>4, <1>6 DEF Same
    <3>2. overlaps = 0 => rows[new.rel] # NoRow /\ rows[new.rel].items = new.copy.items
      BY <1>5, <1>6, <3>1 DEF CallAlone
    <3>3. overlaps = 0 => files[a] = new.copy.items[a].file
      BY <1>5
    <3> QED
      BY <2>2, <3>1, <3>2, <3>3
  <2>5. \A d \in Caller : overlaps = 0 /\ ~Idle(d) => d = c
    BY <1>1 DEF AloneInv, OneAtATime
  <2>6. UNCHANGED versions /\ UNCHANGED rows /\ UNCHANGED overlaps
    BY <1>1
  <2>7. \A y \in applied' \ applied : y = x
    BY <2>1
  <2> QED
    BY <1>1, <2>3, <2>4, <2>5, <2>6, <2>7, AloneStays
<1>7. CASE caller[c].op # "deploy"
  <2>1. /\ new.pc = "write" /\ UNCHANGED applied
        /\ files'[a] = [files[a] EXCEPT !.env = new.copy.items[a].file.env]
    BY <1>2, <1>3, <1>4, <1>7, SetEnvironmentEffect DEF Same
  <2>2. overlaps = 0 => files'[a] = files[a]
    <3>1. files[a] = [files[a] EXCEPT !.env = files[a].env]
      BY <1>4 DEF File
    <3> QED
      BY <1>5, <2>1, <3>1
  <2>3. overlaps = 0 => CallAlone(caller[c])'
    <3>1. overlaps = 0 => Kept(new.copy.items)'
      BY <1>1, <1>4, <1>5 DEF CallAlone, Kept, Same
    <3>2. overlaps = 0 => \A b \in Artifact : files'[b] = files[b]
      BY <1>1, <1>3, <2>2
    <3>3. overlaps = 0 => Items(new.rel) \subseteq Artifact
      BY <1>5, ReleaseAssumption DEF Items
    <3>4. ASSUME overlaps = 0
          PROVE  CallAlone(new)'
      <4>1. /\ IF new.op = "create" THEN rows'[new.rel] = NoRow
               ELSE /\ rows'[new.rel] # NoRow /\ new.copy.status = rows'[new.rel].status
                    /\ new.copy.items = rows'[new.rel].items
            /\ new.op = "reject" => new.copy.status \notin {"deployed", "rolled_back"}
            /\ new.op \in {"deploy", "rollback"}
        BY <1>1, <1>4, <1>5, <3>4 DEF CallAlone, Same
      <4>2. new.op = "rollback" => \A b \in Items(new.rel) \ new.todo : files'[b] = new.copy.items[b].file
        <5>1. new.op = "rollback" => \A b \in Items(new.rel) \ new.todo : files[b] = new.copy.items[b].file
          BY <1>4, <1>5, <3>4 DEF CallAlone, Same
        <5> QED
          BY <3>2, <3>3, <3>4, <5>1
      <4> QED
        BY <2>1, <3>1, <3>4, <4>1, <4>2 DEF CallAlone
    <3> QED
      BY <1>2, <3>4
  <2> QED
    BY <1>1, <2>1, <2>3, AloneMoves
<1> QED
  BY <1>6, <1>7

\* What create captures is in the revision that it notes.
LEMMA VersionedAlone ==
  ASSUME IInv, IInv', AloneInv, overlaps = 0, NEW c \in Caller, NEW a \in Artifact, ~Idle(c),
         caller[c].pc \in {"snapshot", "version"},
         NEW revision \in Nat, NEW file \in File \cup {NoFile}, Versioned(c, a, revision, file),
         UNCHANGED <<files, rows>>,
         \A b \in Artifact : \A i \in 1..Len(versions[b]) : versions'[b][i] = versions[b][i],
         [revision |-> revision, file |-> file] # NoItem => versions'[a][revision] = file
  PROVE  CallAlone(caller[c])'
<1> DEFINE item == [revision |-> revision, file |-> file]
<1>1. caller[c] \in Call /\ CallInv(caller[c]) /\ CallAlone(caller[c]) /\ caller[c] # NoCall
      /\ caller[c].copy.items \in [Artifact -> Item]
  BY CallAt DEF AloneInv
<1>2. PICK new \in Call : new = caller'[c]
  BY <1>1, VersionedEffect
<1>3. /\ new.op = caller[c].op /\ new.rel = caller[c].rel /\ new.copy.status = caller[c].copy.status
      /\ \/ /\ new.op = "create" /\ new.pc = "snapshot"
            /\ new.copy.items = [caller[c].copy.items EXCEPT ![a] = item]
         \/ new.op # "create" /\ new.pc = "write" /\ new.copy = caller[c].copy
  BY <1>1, <1>2, VersionedEffect
<1>4. PICK items \in [Artifact -> Item] : items = caller[c].copy.items
  BY <1>1
<1>5. Kept(items)'
  <2>1. Captured(items) /\ Kept(items)
    BY <1>1, <1>4 DEF CallInv, CallAlone
  <2> QED
    BY <2>1, KeptStays DEF IInv
<1>6. Kept(new.copy.items)'
  <2>1. item.revision = revision /\ item.file = file
    OBVIOUS
  <2>2. item # NoItem => versions'[a][item.revision] = item.file
    BY <2>1
  <2> HIDE DEF item
  <2>3. CASE new.op = "create"
    BY <1>3, <1>4, <1>5, <2>2, <2>3 DEF Kept
  <2>4. CASE new.op # "create"
    BY <1>3, <1>4, <1>5, <2>4
  <2> QED
    BY <2>3, <2>4
<1>7. new.op \in {"create", "deploy"}
  BY <1>1, <1>3 DEF CallAlone
<1> HIDE DEF item
<1> QED
  BY <1>1, <1>2, <1>3, <1>6, <1>7 DEF CallAlone

LEMMA ReadVersionAlone ==
  ASSUME IInv, IInv', AloneInv, NEW c \in Caller, NEW a \in Artifact, ReadVersion(c, a)
  PROVE  AloneInv'
<1>1. /\ ~Idle(c) /\ caller[c].pc = "snapshot" /\ caller[c] \in Call
      /\ UNCHANGED <<files, versions, rows, applied, overlaps>>
  BY ReadVersionEffect, CallAt
<1>2. CASE \E revision \in Nat : \E file \in File \cup {NoFile} :
             /\ Versioned(c, a, revision, file)
             /\ \/ [revision |-> revision, file |-> file] = NoItem
                \/ revision \in 1..Len(versions[a]) /\ versions[a][revision] = file
  <2>1. PICK revision \in Nat : \E file \in File \cup {NoFile} :
             /\ Versioned(c, a, revision, file)
             /\ \/ [revision |-> revision, file |-> file] = NoItem
                \/ revision \in 1..Len(versions[a]) /\ versions[a][revision] = file
    BY <1>2
  <2>2. PICK file \in File \cup {NoFile} :
             /\ Versioned(c, a, revision, file)
             /\ \/ [revision |-> revision, file |-> file] = NoItem
                \/ revision \in 1..Len(versions[a]) /\ versions[a][revision] = file
    BY <2>1
  <2>3. Only(c)
    BY <1>1, <2>2, VersionedEffect
  <2>4. overlaps = 0 => CallAlone(caller[c])'
    BY <1>1, <2>2, VersionedAlone
  <2> QED
    BY <1>1, <2>3, <2>4, AloneMoves
<1>3. CASE /\ Only(c) /\ caller'[c] \in Call /\ Same(caller'[c], caller[c])
           /\ caller'[c].pc = "version" /\ caller'[c].at = a
           /\ caller'[c].new[1] = Len(versions[a]) + 1
  <2>1. PICK new \in Call : new = caller'[c]
    BY <1>3
  <2>2. overlaps = 0 => CallAlone(caller[c])'
    <3>1. overlaps = 0 => CallAlone(caller[c])
      BY <1>1 DEF AloneInv
    <3>2. overlaps = 0 => Kept(new.copy.items)'
      BY <1>1, <1>3, <2>1, <3>1 DEF CallAlone, Kept, Same
    <3> QED
      BY <1>1, <1>3, <2>1, <3>1, <3>2 DEF CallAlone, Same
  <2> QED
    BY <1>1, <1>3, <2>2, AloneMoves
<1> QED
  BY <1>2, <1>3, ReadVersionEffect

LEMMA SaveVersionAlone ==
  ASSUME IInv, IInv', AloneInv, NEW c \in Caller, SaveVersion(c)
  PROVE  AloneInv'
<1>1. /\ ~Idle(c) /\ caller[c].pc = "version" /\ caller[c] \in Call
      /\ UNCHANGED <<files, rows, applied, overlaps>>
  BY SaveVersionEffect, CallAt
<1>2. PICK a \in Artifact : a = caller[c].at
  BY SaveVersionEffect
<1>3. PICK revision \in Nat : revision = caller[c].new[1]
  BY SaveVersionEffect
<1>4. PICK file \in File : file = caller[c].new[2]
  BY SaveVersionEffect
<1>5. Versioned(c, a, revision, file) /\ versions'[a][revision] = file
      /\ (revision = Len(versions[a]) + 1 =>
            \A b \in Artifact : \A i \in 1..Len(versions[b]) : versions'[b][i] = versions[b][i])
  BY <1>2, <1>3, <1>4, SaveVersionEffect
<1>6. Only(c)
  BY <1>1, <1>5, VersionedEffect
<1>7. CASE overlaps # 0
  BY <1>1, <1>7 DEF AloneInv
<1>8. CASE overlaps = 0
  <2>1. revision = Len(versions[a]) + 1
    BY <1>1, <1>2, <1>3, <1>8 DEF AloneInv, CallAlone
  <2>2. \A b \in Artifact : \A i \in 1..Len(versions[b]) : versions'[b][i] = versions[b][i]
    BY <1>5, <2>1
  <2>3. CallAlone(caller[c])'
    BY <1>1, <1>5, <1>8, <2>2, VersionedAlone
  <2>4. \A d \in Caller : ~Idle(d) => d = c
    BY <1>1, <1>8 DEF AloneInv, OneAtATime
  <2>5. UNCHANGED rows /\ UNCHANGED applied
    BY <1>1
  <2> QED
    BY <1>6, <1>8, <2>2, <2>3, <2>4, <2>5, AloneStays
<1> QED
  BY <1>7, <1>8

LEMMA AloneNext == IInv /\ IInv' /\ AloneInv /\ [Next]_vars => AloneInv'
<1> SUFFICES ASSUME IInv, IInv', AloneInv, [Next]_vars PROVE AloneInv'
  OBVIOUS
<1>1. ASSUME NEW c \in Caller, SaveCall(c)
      PROVE  AloneInv'
  <2>1. ~Idle(c) /\ Only(c) /\ OnlyRow(caller[c].rel) /\ caller'[c] = NoCall
        /\ UNCHANGED <<files, versions, applied, overlaps>> /\ rows'[caller[c].rel] \in Row
        /\ rows'[caller[c].rel].items = caller[c].copy.items
    BY <1>1, SaveCallEffect
  <2> QED
    BY <2>1, SaveAlone
<1>2. ASSUME NEW c \in Caller, SaveWhole(c)
      PROVE  AloneInv'
  <2>1. ~Idle(c) /\ Only(c) /\ OnlyRow(caller[c].rel) /\ caller'[c] = NoCall
        /\ UNCHANGED <<files, versions, applied, overlaps>> /\ rows'[caller[c].rel] \in Row
        /\ rows'[caller[c].rel].items = caller[c].copy.items
    BY <1>2, SaveWholeEffect
  <2> QED
    BY <2>1, SaveAlone
<1>3. ASSUME NEW c \in Caller, Crash(c) \/ \E a \in Artifact : WriteNothing(c, a)
      PROVE  AloneInv'
  <2>1. ~Idle(c) /\ Only(c) /\ caller'[c] = NoCall /\ UNCHANGED <<versions, rows, applied, overlaps>>
    BY <1>3 DEF Crash, WriteNothing, Idle, NoCall, Return, Goto, Only, IInv, TypeOK
  <2> QED
    BY <2>1, AloneMoves
<1>4. ASSUME UNCHANGED <<versions, rows, caller, applied>>, Overlap
      PROVE  AloneInv'
  <2>1. CASE overlaps' # 0
    BY <2>1 DEF AloneInv
  <2>2. CASE overlaps' = 0
    <3>1. overlaps = 0 /\ \A d \in Caller : Idle(d)
      BY <1>4, <2>2 DEF Overlap, Busy, IInv, TypeOK
    <3> QED
      BY <1>4, <3>1 DEF AloneInv, OneAtATime, RowsKept, AppliedKept, Idle, Kept
  <2> QED
    BY <2>1, <2>2
<1>5. CASE UNCHANGED vars
  <2>1. UNCHANGED <<files, versions, rows, caller, applied, overlaps>>
    BY <1>5 DEF vars
  <2>2. OneAtATime => OneAtATime'
    BY <2>1 DEF OneAtATime, Idle
  <2>3. \A items : Kept(items) => Kept(items)'
    BY <2>1 DEF Kept
  <2>4. RowsKept => RowsKept'
    BY <2>1, <2>3 DEF RowsKept
  <2>5. AppliedKept => AppliedKept'
    BY <2>1 DEF AppliedKept
  <2>6. ASSUME NEW c \in Caller, ~Idle(c) => CallAlone(caller[c])
        PROVE  ~Idle(c)' => CallAlone(caller[c])'
    <3>1. PICK call : call = caller[c] /\ call = caller'[c]
      BY <2>1
    <3>2. CallAlone(call) => CallAlone(call)'
      BY <2>1, <2>3 DEF CallAlone
    <3> QED
      BY <2>6, <3>1, <3>2 DEF Idle
  <2> QED
    BY <2>1, <2>2, <2>4, <2>5, <2>6 DEF AloneInv
<1>6. CASE \E c \in Caller : Start(c) \/ Step(c) \/ Crash(c)
  BY <1>1, <1>2, <1>3, <1>6, StartAlone, CheckAlone, WriteItemAlone, SetEnvironmentAlone,
     ReadVersionAlone, SaveVersionAlone DEF Step
<1> QED
  BY <1>4, <1>5, <1>6 DEF Next, Edit, Evaluate, Judge

\* Both hold of every state.
LEMMA PathInvariant == Spec => [](IInv /\ StagingInv /\ AloneInv)
<1>1. Init => StagingInv
  BY DEF Init, NoRow, StagingInv, RowStaged, CallStaged, ProductionWasStaged
<1>2. Init => AloneInv
  BY DEF Init, AloneInv, OneAtATime, RowsKept, AppliedKept, Idle
<1> QED
  BY <1>1, <1>2, StagingNext, AloneNext, ReleaseInvariant, PTL DEF Spec

-----------------------------------------------------------------------------
(* The theorems *)

\* "Nada chega a producao sem passar por staging" (docs/DECISIONS.md, ADR-033),
\* whatever calls overlap, die or roll back; and while none overlap, what
\* deploy of release/manager.py writes is what create captured for the votes,
\* declared for the target.
THEOREM WrittenInOrder == Spec => []AppliedInOrder
<1>1. StagingInv /\ AloneInv => AppliedInOrder
  BY DEF StagingInv, AloneInv, AppliedKept, AppliedInOrder, AppliedAsCaptured
<1> QED
  BY <1>1, PathInvariant, PTL

\* While calls do not overlap, the status of a row changes by the saves of the
\* only call, and its copy has the status of the row.
LEMMA StatusMoves ==
  ASSUME IInv, AloneInv, [Next]_vars, overlaps = 0, NEW r \in Release,
         rows'[r].status # rows[r].status
  PROVE  /\ <<rows[r].status, rows'[r].status>> \in Lifecycle
         /\ rows[r].status = "deployed" /\ rows'[r].status = "rolled_back" =>
              \A a \in Items(r) : files[a] = rows[r].items[a].file
<1>0. NoRow.status = "none"
  BY DEF NoRow
<1>1. ~UNCHANGED rows
  OBVIOUS
<1>2. PICK c \in Caller : Check(c) \/ SaveCall(c) \/ SaveWhole(c)
  <2>1. \A d \in Caller : Start(d) => UNCHANGED rows
    BY StartEffect
  <2> QED
    BY <1>1, <2>1 DEF Next, Step, Crash, SetEnvironment, SaveVersion, WriteItem, WriteNothing,
       ReadVersion, Edit, Evaluate, Judge, vars
<1>3. ~Idle(c) /\ OnlyRow(caller[c].rel)
  BY <1>2, CheckEffect, SaveCallEffect, SaveWholeEffect
<1>4. r = caller[c].rel
  BY <1>3 DEF OnlyRow
<1>5. CallAlone(caller[c])
  BY <1>3 DEF AloneInv
<1>6. caller[c].op # "create" =>
        rows[r].status = caller[c].copy.status /\ rows[r].items = caller[c].copy.items
  BY <1>4, <1>5 DEF CallAlone
<1>7. CASE Check(c)
  BY <1>4, <1>6, <1>7, CheckEffect
<1>8. CASE SaveCall(c)
  <2>1. caller[c].copy.status \in ReleaseStatus /\ caller[c].pc = "save"
    BY <1>3, <1>8, CallAt, SaveCallEffect DEF Row
  <2>2. /\ caller[c].op = "submit" => caller[c].copy.status = "draft"
        /\ caller[c].op = "reject" => caller[c].copy.status \notin {"deployed", "rolled_back"}
    BY <1>5, <2>1 DEF CallAlone
  <2>3. LET status == rows'[r].status
        IN \/ caller[c].op = "submit" /\ status = "submitted"
           \/ caller[c].op = "approve" /\ caller[c].copy.status = "submitted"
              /\ status \in {"submitted", "approved"}
           \/ caller[c].op = "reject" /\ status = "rejected"
           \/ caller[c].op = "sign" /\ status = caller[c].copy.status
    BY <1>4, <1>8, SaveCallEffect
  <2> QED
    BY <1>6, <2>1, <2>2, <2>3 DEF ReleaseStatus, Lifecycle
<1>9. CASE SaveWhole(c)
  <2>1. caller[c].todo = {}
        /\ LET status == rows'[r].status
           IN \/ caller[c].op = "create" /\ caller[c].copy.status = "draft" /\ status = "draft"
              \/ caller[c].op = "deploy" /\ caller[c].pc = "write"
                 /\ caller[c].copy.status = "approved" /\ status = "deployed"
              \/ caller[c].op = "rollback" /\ caller[c].copy.status = "deployed"
                 /\ status = "rolled_back"
    BY <1>4, <1>9, SaveWholeEffect
  <2>2. caller[c].op = "create" => rows[r].status = "none"
    BY <1>0, <1>4, <1>5 DEF CallAlone
  <2>3. caller[c].op = "rollback" => \A a \in Items(r) : files[a] = rows[r].items[a].file
    BY <1>4, <1>5, <1>6, <2>1 DEF CallAlone
  <2> QED
    BY <1>6, <2>1, <2>2, <2>3 DEF Lifecycle
<1> QED
  BY <1>2, <1>7, <1>8, <1>9

\* The life of a release (docs/PHASE9_GOVERNANCE.md, 2; the guards of submit,
\* approve, reject, deploy and rollback in release/manager.py), while calls do
\* not overlap, though they die anywhere.
THEOREM ReleasesFollowLifecycle == Spec => FollowsLifecycle
<1>1. IInv /\ AloneInv /\ [Next]_vars =>
        [\A r \in Release : rows'[r].status # rows[r].status /\ overlaps = 0 =>
           <<rows[r].status, rows'[r].status>> \in Lifecycle]_rows
  BY StatusMoves
<1> QED
  BY <1>1, PathInvariant, PTL DEF Spec, FollowsLifecycle

\* restore of release/versions.py and set_environment: a rollback that is
\* recorded left every item as it was captured, also after one that died half
\* way, while calls do not overlap.
THEOREM RollbacksAreExact == Spec => RollbackIsExact
<1>1. IInv /\ AloneInv /\ [Next]_vars =>
        [\A r \in Release :
           rows[r].status = "deployed" /\ rows'[r].status = "rolled_back" /\ overlaps = 0 =>
             \A a \in Items(r) : files[a] = rows[r].items[a].file]_rows
  BY StatusMoves
<1> QED
  BY <1>1, PathInvariant, PTL DEF Spec, RollbackIsExact
=============================================================================
