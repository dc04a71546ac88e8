------------------------- MODULE AuditLedgerProofs -------------------------
(***************************************************************************)
(* The ledger used by one process: recording is atomic whatever the        *)
(* threads do and wherever the process dies, and verify is exact.          *)
(***************************************************************************)
EXTENDS AuditLedger, TLAPS

RowType == [body : Body, prev : Digest, hash : Digest]

\* The last row is a row, and so is a sequence in which one is rewritten.
LEMMA NonEmptyRow ==
  ASSUME NEW S, NEW s \in Seq(S), s # <<>> PROVE Len(s) \in DOMAIN s /\ s[Len(s)] \in S
OBVIOUS

LEMMA RewrittenRow ==
  ASSUME NEW S, NEW s \in Seq(S), NEW i \in DOMAIN s, NEW e \in S
  PROVE  [s EXCEPT ![i] = e] \in Seq(S)
OBVIOUS

\* Every variable keeps its type (audit/ledger.py).
THEOREM LedgerTypes == Spec => []TypeOK
<1>1. Init => TypeOK
  BY LedgerAssumption DEF Init, TypeOK, Digest, GENESIS
<1>2. TypeOK /\ [Next]_vars => TypeOK'
  <2> SUFFICES ASSUME TypeOK, [Next]_vars PROVE TypeOK'
    OBVIOUS
  <2> USE LedgerAssumption DEF TypeOK
  <2>0. LastHash \in Digest
    <3>1. CASE events = <<>>
      BY <3>1 DEF LastHash, GENESIS, Digest
    <3>2. CASE events # <<>>
      <4>1. events \in Seq(RowType)
        BY DEF RowType
      <4>2. events[Len(events)] \in RowType
        BY <3>2, <4>1, NonEmptyRow
      <4> QED
        BY <3>2, <4>2 DEF LastHash, RowType
    <3> QED
      BY <3>1, <3>2
  <2>1. ASSUME NEW t \in Thread, Call(t) PROVE TypeOK'
    BY <2>1 DEF Call, Goto
  <2>2. ASSUME NEW t \in Thread, Acquire(t) PROVE TypeOK'
    BY <2>2 DEF Acquire, Goto
  <2>3. ASSUME NEW t \in Thread, ReadLast(t) PROVE TypeOK'
    BY <2>3, <2>0 DEF ReadLast, Goto
  <2>4. ASSUME NEW t \in Thread, Insert(t) PROVE TypeOK'
    <3>1. chain_hash(previous[t], body[t]) \in Digest
      BY DEF chain_hash, Digest
    <3>2. events' \in Seq(RowType)
      BY <2>4, <3>1 DEF Insert, RowType
    <3>3. recorded' \in Seq(Body)
      BY <2>4 DEF Insert
    <3>4. pc' \in [Thread -> {"idle", "acquire", "read", "insert", "return"}]
      BY <2>4 DEF Insert, Goto
    <3> QED
      BY <2>4, <3>2, <3>3, <3>4 DEF Insert, RowType
  <2>5. ASSUME NEW t \in Thread, InsertFails(t) PROVE TypeOK'
    BY <2>5 DEF InsertFails, Goto
  <2>6. ASSUME NEW t \in Thread, Return(t) PROVE TypeOK'
    BY <2>6 DEF Return, Goto
  <2>7. ASSUME NEW p \in Process, Crash(p) PROVE TypeOK'
    BY <2>7 DEF Crash
  <2>8. CASE Tamper
    <3>1. PICK i \in DOMAIN events, b \in Body : events' = [events EXCEPT ![i].body = b]
      BY <2>8 DEF Tamper
    <3>2. events' \in Seq(RowType)
      <4>1. events \in Seq(RowType)
        BY DEF RowType
      <4>2. [events[i] EXCEPT !.body = b] \in RowType
        <5>1. events[i] \in RowType
          BY <4>1
        <5> QED
          BY <5>1 DEF RowType
      <4> QED
        BY <3>1, <4>1, <4>2, RewrittenRow
    <3> QED
      BY <2>8, <3>2 DEF Tamper, RowType
  <2>9. CASE UNCHANGED vars
    BY <2>9 DEF vars
  <2> QED
    BY <2>1, <2>2, <2>3, <2>4, <2>5, <2>6, <2>7, <2>8, <2>9
    DEF Next, Record, Quiescent
<1> QED
  BY <1>1, <1>2, PTL DEF Spec

-----------------------------------------------------------------------------
\* Rewriting the body of a row leaves the chain of hashes alone.
LEMMA TamperKeepsHashes ==
  ASSUME TypeOK, Tamper
  PROVE  /\ DOMAIN events' = DOMAIN events
         /\ Len(events') = Len(events)
         /\ \A i \in DOMAIN events : /\ events'[i].prev = events[i].prev
                                     /\ events'[i].hash = events[i].hash
         /\ LastHash' = LastHash
         /\ \A i \in DOMAIN events : Before(events', i) = Before(events, i)
<1>1. PICK i \in DOMAIN events, b \in Body : events' = [events EXCEPT ![i].body = b]
  BY DEF Tamper
<1>2. events \in Seq(RowType)
  BY DEF TypeOK, RowType
<1>3. DOMAIN events' = DOMAIN events /\ Len(events') = Len(events)
  BY <1>1, <1>2
<1>4. \A j \in DOMAIN events : /\ events'[j].prev = events[j].prev
                               /\ events'[j].hash = events[j].hash
  <2> SUFFICES ASSUME NEW j \in DOMAIN events
               PROVE  events'[j].prev = events[j].prev /\ events'[j].hash = events[j].hash
    OBVIOUS
  <2>1. events[j] \in RowType
    BY <1>2
  <2> QED
    BY <1>1, <1>2, <2>1 DEF RowType
<1>5. LastHash' = LastHash
  BY <1>2, <1>3, <1>4 DEF LastHash
<1>6. \A j \in DOMAIN events : Before(events', j) = Before(events, j)
  BY <1>2, <1>3, <1>4 DEF Before
<1> QED
  BY <1>3, <1>4, <1>5, <1>6

\* The chain invariant: in one process, the thread that is about to insert
\* is the only one inside the lock, and the hash it read is still the last.
LEMMA LedgerInvariant == ASSUME OneProcess PROVE Spec => []LedgerInv
<1>1. Init => LedgerInv
  BY DEF Init, LedgerInv, LockHeld, Inside, Fresh, Chained
<1>2. TypeOK /\ LedgerInv /\ [Next]_vars => LedgerInv'
  <2> SUFFICES ASSUME TypeOK, LedgerInv, [Next]_vars PROVE LedgerInv'
    OBVIOUS
  <2> USE LedgerAssumption
  <2>0. ASSUME UNCHANGED <<events, recorded>> PROVE Chained' /\ LastHash' = LastHash
    BY <2>0 DEF LedgerInv, Chained, Before, LastHash
  <2>1. ASSUME NEW t \in Thread, Call(t) PROVE LedgerInv'
    BY <2>1, <2>0 DEF Call, Goto, LedgerInv, LockHeld, Fresh, Inside, TypeOK
  <2>2. ASSUME NEW t \in Thread, Acquire(t) PROVE LedgerInv'
    BY <2>2, <2>0 DEF Acquire, Goto, LedgerInv, LockHeld, Fresh, Inside, TypeOK, OneProcess
  <2>3. ASSUME NEW t \in Thread, ReadLast(t) PROVE LedgerInv'
    BY <2>3, <2>0 DEF ReadLast, Goto, LedgerInv, LockHeld, Fresh, Inside, TypeOK
  <2>4. ASSUME NEW t \in Thread, Insert(t) PROVE LedgerInv'
    <3>1. LockHeld'
      BY <2>4 DEF Insert, Goto, LedgerInv, LockHeld, Inside, TypeOK
    <3>2. Fresh'
      <4> SUFFICES ASSUME NEW u \in Thread, pc'[u] = "insert" PROVE FALSE
        BY DEF Fresh
      <4>1. pc[u] = "insert" /\ u # t
        BY <2>4 DEF Insert, Goto, TypeOK
      <4> QED
        BY <4>1, <2>4 DEF Insert, LedgerInv, LockHeld, Inside, OneProcess
    <3>3. Chained'
      <4> DEFINE row == [body |-> body[t], prev |-> previous[t],
                         hash |-> chain_hash(previous[t], body[t])]
      <4>1. events' = Append(events, row) /\ recorded' = Append(recorded, body[t])
        BY <2>4 DEF Insert
      <4>2. previous[t] = LastHash /\ Len(recorded) = Len(events)
        BY <2>4 DEF Insert, LedgerInv, Fresh, Chained
      <4>3. events \in Seq(RowType) /\ row \in RowType /\ recorded \in Seq(Body) /\ body[t] \in Body
        BY DEF TypeOK, RowType, chain_hash, Digest
      <4> HIDE DEF row
      <4>4. Len(recorded') = Len(events') /\ DOMAIN events' = 1..(Len(events) + 1)
        BY <4>1, <4>2, <4>3
      <4>5. ASSUME NEW i \in DOMAIN events
            PROVE  /\ events'[i] = events[i] /\ recorded'[i] = recorded[i]
                   /\ Before(events', i) = Before(events, i)
        BY <4>1, <4>2, <4>3 DEF Before
      <4>6. /\ events'[Len(events) + 1] = row
            /\ recorded'[Len(events) + 1] = body[t]
            /\ Before(events', Len(events) + 1) = LastHash
        <5>1. events'[Len(events) + 1] = row /\ recorded'[Len(events) + 1] = body[t]
          BY <4>1, <4>2, <4>3
        <5>2. CASE events = <<>>
          BY <5>1, <5>2 DEF Before, LastHash
        <5>3. CASE events # <<>>
          <6>1. Len(events) \in DOMAIN events /\ Len(events) + 1 # 1
                /\ (Len(events) + 1) - 1 = Len(events)
            BY <5>3, <4>3
          <6> QED
            BY <5>1, <5>3, <6>1, <4>5 DEF Before, LastHash
        <5> QED
          BY <5>1, <5>2, <5>3
      <4>7. row.prev = LastHash /\ row.hash = chain_hash(LastHash, body[t])
        BY <4>2 DEF row
      <4>8. ASSUME NEW i \in DOMAIN events'
            PROVE  events'[i].prev = Before(events', i) /\ events'[i].hash = chain_hash(Before(events', i), recorded'[i])
        <5>1. CASE i \in DOMAIN events
          BY <5>1, <4>5 DEF LedgerInv, Chained
        <5>2. CASE i = Len(events) + 1
          BY <5>2, <4>6, <4>7
        <5> QED
          BY <5>1, <5>2, <4>3, <4>4
      <4> QED
        BY <4>4, <4>8 DEF Chained, chain_hash
    <3> QED
      BY <3>1, <3>2, <3>3 DEF LedgerInv
  <2>5. ASSUME NEW t \in Thread, InsertFails(t) PROVE LedgerInv'
    BY <2>5, <2>0 DEF InsertFails, Goto, LedgerInv, LockHeld, Fresh, Inside, TypeOK
  <2>6. ASSUME NEW t \in Thread, Return(t) PROVE LedgerInv'
    BY <2>6, <2>0 DEF Return, Goto, LedgerInv, LockHeld, Fresh, Inside, TypeOK, OneProcess
  <2>7. ASSUME NEW p \in Process, Crash(p) PROVE LedgerInv'
    BY <2>7, <2>0 DEF Crash, LedgerInv, LockHeld, Fresh, Inside, TypeOK
  <2>8. CASE Tamper
    <3>1. LockHeld' /\ Fresh'
      BY <2>8, TamperKeepsHashes DEF Tamper, LedgerInv, LockHeld, Inside, Fresh
    <3>2. Chained'
      BY <2>8, TamperKeepsHashes DEF Tamper, LedgerInv, Chained, chain_hash
    <3> QED
      BY <3>1, <3>2 DEF LedgerInv
  <2>9. CASE UNCHANGED vars
    BY <2>9, <2>0 DEF vars, LedgerInv, LockHeld, Fresh, Inside
  <2> QED
    BY <2>1, <2>2, <2>3, <2>4, <2>5, <2>6, <2>7, <2>8, <2>9
    DEF Next, Record, Quiescent
<1> QED
  BY <1>1, <1>2, LedgerTypes, PTL DEF Spec

\* In one process verify reports exactly the rows that were rewritten.
THEOREM VerifyExact == ASSUME OneProcess PROVE Spec => []VerifyIsExact
<1>1. TypeOK /\ LedgerInv => VerifyIsExact
  <2> SUFFICES ASSUME TypeOK, LedgerInv, NEW i \in DOMAIN events
               PROVE  i \in Broken <=> events[i].body # recorded[i]
    BY DEF VerifyIsExact, Broken
  <2>1. events[i].prev = Before(events, i) /\ events[i].hash = chain_hash(Before(events, i), recorded[i])
    BY DEF LedgerInv, Chained
  <2>2. events \in Seq(RowType) /\ recorded \in Seq(Body) /\ Len(recorded) = Len(events)
    BY DEF TypeOK, RowType, LedgerInv, Chained
  <2>3. events[i] \in RowType /\ recorded[i] \in Body
    BY <2>2
  <2>4. Before(events, i) \in Seq(Body)
    BY <2>1, <2>3 DEF RowType, Digest
  <2>5. \A d \in Seq(Body), b1, b2 \in Body : Append(d, b1) = Append(d, b2) => b1 = b2
    <3> SUFFICES ASSUME NEW d \in Seq(Body), NEW b1 \in Body, NEW b2 \in Body,
                        Append(d, b1) = Append(d, b2)
                 PROVE  b1 = b2
      OBVIOUS
    <3>1. Append(d, b1)[Len(d) + 1] = b1 /\ Append(d, b2)[Len(d) + 1] = b2
      OBVIOUS
    <3> QED
      BY <3>1
  <2> QED
    BY <2>1, <2>3, <2>4, <2>5 DEF Broken, RowType, chain_hash
<1> QED
  BY <1>1, LedgerInvariant, LedgerTypes, PTL

\* In one process the ledger implements its atomic specification: the
\* insertion is the step at which the event is recorded.
THEOREM LedgerIsAtomic == ASSUME OneProcess PROVE Spec => RecordIsAtomic
<1>1. Init => Atomic!Init
  BY DEF Init, Atomic!Init
<1>2. TypeOK /\ LedgerInv /\ [Next]_vars => [Atomic!Next]_<<events, recorded>>
  <2> SUFFICES ASSUME TypeOK, LedgerInv, [Next]_vars
               PROVE  Atomic!Record \/ Atomic!Tamper \/ UNCHANGED <<events, recorded>>
    BY DEF Atomic!Next
  <2>1. ASSUME NEW t \in Thread, Insert(t) PROVE Atomic!Record
    <3>1. previous[t] = Atomic!LastHash /\ body[t] \in Body
      BY <2>1 DEF Insert, LedgerInv, Fresh, LastHash, GENESIS,
                  Atomic!LastHash, Atomic!GENESIS, TypeOK
    <3> QED
      BY <2>1, <3>1 DEF Insert, Atomic!Record, Atomic!Row, Atomic!chain_hash, chain_hash
  <2>2. CASE Tamper
    BY <2>2 DEF Tamper, Atomic!Tamper
  <2>3. ASSUME NEW t \in Thread, Call(t) \/ Acquire(t) \/ ReadLast(t) \/ InsertFails(t) \/ Return(t)
        PROVE  UNCHANGED <<events, recorded>>
    BY <2>3 DEF Call, Acquire, ReadLast, InsertFails, Return
  <2>4. ASSUME NEW p \in Process, Crash(p) PROVE UNCHANGED <<events, recorded>>
    BY <2>4 DEF Crash
  <2>5. CASE UNCHANGED vars
    BY <2>5 DEF vars
  <2> QED
    BY <2>1, <2>2, <2>3, <2>4, <2>5 DEF Next, Record, Quiescent
<1> QED
  BY <1>1, <1>2, LedgerInvariant, LedgerTypes, PTL DEF Spec, RecordIsAtomic, Atomic!Spec
=============================================================================
