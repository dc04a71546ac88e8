---------------------------- MODULE StartsProofs ---------------------------
(***************************************************************************)
(* What holds of what starts work by itself, for any number of senders,    *)
(* deliveries, workflows, expressions, processes and triggers, and however *)
(* many of them overlap and die.  The events of other systems: each is     *)
(* published and worked on once.  The clock: the scheduler implements      *)
(* OnceAMinute, and misses nothing.  The changes of rows: none is lost,    *)
(* and they are published in order.                                        *)
(***************************************************************************)
EXTENDS MCStarts, FiniteSetTheorems, WellFoundedInduction, TLAPS

-----------------------------------------------------------------------------
(* InboundEvents: entries of a sequence that grows *)

AtMostOne(S) == \A i, j \in S : i = j

LEMMA AtMostOneCount ==
  ASSUME NEW S, AtMostOne(S)
  PROVE  Cardinality(S) <= 1
<1>1. CASE S = {}
  BY <1>1, FS_EmptySet
<1>2. CASE S # {}
  <2>1. PICK i \in S : TRUE
    BY <1>2
  <2>2. S = {i}
    BY <2>1 DEF AtMostOne
  <2> QED
    BY <2>2, FS_Singleton
<1> QED
  BY <1>1, <1>2

\* Some entries of a sequence are finitely many.
LEMMA EntriesAreFinite ==
  ASSUME NEW T, NEW s \in Seq(T), NEW S \in SUBSET DOMAIN s
  PROVE  IsFiniteSet(S) /\ Cardinality(S) \in Nat
<1>1. DOMAIN s = 1..Len(s) /\ 1 \in Int /\ Len(s) \in Int
  OBVIOUS
<1>2. IsFiniteSet(DOMAIN s)
  BY <1>1, FS_Interval
<1> QED
  BY <1>2, FS_Subset, FS_CardinalityType

\* One more is one more.
LEMMA EntryIsCounted ==
  ASSUME NEW T, NEW s \in Seq(T), NEW S \in SUBSET DOMAIN s
  PROVE  Cardinality(S \cup {Len(s) + 1}) = Cardinality(S) + 1
<1>1. IsFiniteSet(S) /\ Len(s) + 1 \notin S
  BY EntriesAreFinite
<1> QED
  BY <1>1, FS_AddElement

-----------------------------------------------------------------------------
(* InboundEvents: the inductive invariant *)

\* How often an event was published as received.
Received(e) == {i \in PublishedAsReceived : trail[i].msg.ext = e}

\* The delivery at hand was accepted, and is on its way to the subscriber.
OnItsWay == pc = "publish" \/ (pc = "notify" /\ trail[Len(trail)].topic = "received")

\* An event of which there is no row was neither published nor worked on; of
\* one that is on its way there is a row, and no work; all of it once.
OnceFor(e) ==
  /\ ~Exists(e) => Received(e) = {} /\ ("rejected" \notin listens => Work(e) = {})
  /\ AtMostOne(Received(e)) /\ ("rejected" \notin listens => AtMostOne(Work(e)))
  /\ OnItsWay /\ msg.ext = e => Exists(e) /\ ("rejected" \notin listens => Work(e) = {})
  /\ pc = "publish" /\ msg.ext = e => Received(e) = {}

InboundInv ==
  /\ TypeOK
  /\ \A e \in Ext : OnceFor(e)
  /\ AcceptedIsPublished
  /\ WorkIsVerified
  /\ OnItsWay => SignatureOk
  /\ pc = "notify" => trail # <<>>

-----------------------------------------------------------------------------
(* InboundEvents: every step keeps it *)

\* The sets that the invariant counts, when rows are saved ...
LEMMA SaveEffect ==
  ASSUME TypeOK, NEW ext \in Ext \cup {NoExt}, NEW status \in IntegrationEventStatus,
         Save(ext, status)
  PROVE  /\ rows' \in Seq(Row)
         /\ \A e : Exists(e)' <=> Exists(e) \/ (e # NoExt /\ e = ext)
         /\ AcceptedRows' = IF status \in Accepted THEN AcceptedRows \cup {Len(rows) + 1} ELSE AcceptedRows
<1> DEFINE row == [ext |-> ext, status |-> status]
<1>1. row \in Row /\ row.ext = ext /\ row.status = status
  BY DEF Row
<1> HIDE DEF row
<1>2. rows' = Append(rows, row) /\ rows \in Seq(Row)
  BY DEF Save, TypeOK, row
<1>3. /\ rows' \in Seq(Row) /\ DOMAIN rows = 1..Len(rows) /\ DOMAIN rows' = 1..(Len(rows) + 1)
      /\ Len(rows) \in Nat
      /\ \A i \in 1..Len(rows) : rows'[i] = rows[i]
      /\ rows'[Len(rows) + 1] = row
  BY <1>1, <1>2
<1>4. \A e : Exists(e)' <=> Exists(e) \/ (e # NoExt /\ e = ext)
  BY <1>1, <1>3 DEF Exists
<1>5. AcceptedRows' = IF status \in Accepted THEN AcceptedRows \cup {Len(rows) + 1} ELSE AcceptedRows
  BY <1>1, <1>3 DEF AcceptedRows
<1> QED
  BY <1>3, <1>4, <1>5

\* ... and when an event is published.
LEMMA PublishEffect ==
  ASSUME TypeOK, NEW topic \in {"received", "rejected"}, Publish(topic)
  PROVE  /\ trail' \in Seq([topic : {"received", "rejected"}, msg : Message])
         /\ trail' # <<>> /\ trail'[Len(trail')].topic = topic
         /\ PublishedAsReceived' =
              IF topic = "received" THEN PublishedAsReceived \cup {Len(trail) + 1}
              ELSE PublishedAsReceived
         /\ \A e : Received(e)' =
              IF topic = "received" /\ msg.ext = e THEN Received(e) \cup {Len(trail) + 1}
              ELSE Received(e)
<1> DEFINE entry == [topic |-> topic, msg |-> msg]
           Entry == [topic : {"received", "rejected"}, msg : Message]
<1>1. entry \in Entry /\ entry.topic = topic /\ entry.msg = msg
  BY DEF TypeOK
<1> HIDE DEF entry
<1>2. trail' = Append(trail, entry) /\ trail \in Seq(Entry)
  BY DEF Publish, TypeOK, entry
<1> HIDE DEF Entry
<1>3. /\ trail' \in Seq(Entry) /\ DOMAIN trail = 1..Len(trail) /\ DOMAIN trail' = 1..(Len(trail) + 1)
      /\ Len(trail) \in Nat /\ Len(trail') = Len(trail) + 1
      /\ \A i \in 1..Len(trail) : trail'[i] = trail[i]
      /\ trail'[Len(trail) + 1] = entry
  BY <1>1, <1>2
<1>4. trail' # <<>> /\ trail'[Len(trail')].topic = topic
  BY <1>1, <1>3
<1>5. PublishedAsReceived' =
        IF topic = "received" THEN PublishedAsReceived \cup {Len(trail) + 1} ELSE PublishedAsReceived
  BY <1>1, <1>3 DEF PublishedAsReceived
<1>6. \A e : Received(e)' =
              IF topic = "received" /\ msg.ext = e THEN Received(e) \cup {Len(trail) + 1}
              ELSE Received(e)
  <2> SUFFICES ASSUME NEW e
               PROVE  Received(e)' = IF topic = "received" /\ msg.ext = e
                                     THEN Received(e) \cup {Len(trail) + 1} ELSE Received(e)
    OBVIOUS
  <2>1. Received(e)' = {i \in PublishedAsReceived' : trail'[i].msg.ext = e}
    BY DEF Received
  <2>2. PublishedAsReceived \subseteq 1..Len(trail)
    BY <1>3 DEF PublishedAsReceived
  <2> QED
    BY <1>1, <1>3, <1>5, <2>1, <2>2 DEF Received
<1> QED
  BY <1>3, <1>4, <1>5, <1>6 DEF Entry

\* A step that saves, publishes and starts nothing, and after which nothing is
\* on its way, or what was on its way.
LEMMA QuietInv ==
  ASSUME InboundInv, UNCHANGED <<rows, listens, trail, started>>, TypeOK',
         \/ UNCHANGED <<pc, msg, crashes>>
         \/ pc' \in {"idle", "check"} /\ pc # "publish" /\ crashes' \in {crashes, crashes + 1}
         \/ pc' = "idle" /\ crashes' = crashes + 1
  PROVE  InboundInv'
<1>1. /\ PublishedAsReceived' = PublishedAsReceived /\ AcceptedRows' = AcceptedRows
      /\ \A e : Received(e)' = Received(e) /\ Work(e)' = Work(e) /\ (Exists(e)' <=> Exists(e))
  BY DEF PublishedAsReceived, AcceptedRows, Received, Work, Exists
<1>2. OnItsWay' => OnItsWay /\ pc' = pc /\ msg' = msg
  BY DEF OnItsWay
<1>3. \A e \in Ext : OnceFor(e)'
  BY <1>1, <1>2 DEF InboundInv, OnceFor, OnItsWay
<1>4. AcceptedIsPublished'
  <2>1. Cardinality(AcceptedRows) \in Nat /\ Cardinality(PublishedAsReceived) \in Nat
    BY EntriesAreFinite DEF InboundInv, TypeOK, AcceptedRows, PublishedAsReceived
  <2> QED
    BY <1>1, <2>1 DEF InboundInv, TypeOK, AcceptedIsPublished
<1>5. WorkIsVerified' /\ (OnItsWay' => SignatureOk') /\ (pc' = "notify" => trail' # <<>>)
  BY <1>2 DEF InboundInv, WorkIsVerified, SignatureOk, OnItsWay
<1> QED
  BY <1>3, <1>4, <1>5 DEF InboundInv

\* A refusal is saved.
LEMMA RefuseInv ==
  ASSUME InboundInv, NEW ext \in Ext \cup {NoExt}, Save(ext, "rejected"), pc # "publish",
         pc' = "idle", msg' = NoMessage, UNCHANGED <<listens, enabled, trail, started, bounds>>
  PROVE  InboundInv'
<1>1. /\ rows' \in Seq(Row) /\ AcceptedRows' = AcceptedRows
      /\ \A e : Exists(e) => Exists(e)'
  BY SaveEffect DEF InboundInv, IntegrationEventStatus, Accepted
<1>2. PublishedAsReceived' = PublishedAsReceived /\ \A e : Received(e)' = Received(e) /\ Work(e)' = Work(e)
  BY DEF PublishedAsReceived, Received, Work
<1>3. TypeOK'
  BY <1>1 DEF InboundInv, TypeOK, NoMessage, Message, bounds
<1>4. \A e \in Ext : OnceFor(e)'
  BY <1>1, <1>2 DEF InboundInv, OnceFor, OnItsWay
<1>5. AcceptedIsPublished'
  BY <1>1, <1>2 DEF InboundInv, AcceptedIsPublished, bounds
<1> QED
  BY <1>3, <1>4, <1>5 DEF InboundInv, WorkIsVerified, OnItsWay

\* What is accepted was not seen before.
LEMMA AcceptInv == ASSUME InboundInv, Accept PROVE InboundInv'
<1>1. AcceptedStatus \in {"received", "triggered"} /\ msg.ext \in Ext \cup {NoExt}
  BY DEF AcceptedStatus, InboundInv, TypeOK, Message
<1>2. /\ rows' \in Seq(Row) /\ AcceptedRows' = AcceptedRows \cup {Len(rows) + 1}
      /\ \A e : Exists(e)' <=> Exists(e) \/ (e # NoExt /\ e = msg.ext)
  BY <1>1, SaveEffect DEF Accept, InboundInv, IntegrationEventStatus, Accepted
<1>3. PublishedAsReceived' = PublishedAsReceived /\ \A e : Received(e)' = Received(e) /\ Work(e)' = Work(e)
  BY DEF Accept, PublishedAsReceived, Received, Work
<1>4. TypeOK'
  BY <1>2 DEF Accept, InboundInv, TypeOK, bounds
<1>5. \A e \in Ext : OnceFor(e)'
  <2> SUFFICES ASSUME NEW e \in Ext PROVE OnceFor(e)'
    OBVIOUS
  <2>1. e # NoExt /\ (msg.ext = e => ~Exists(e))
    BY InboundAssumption DEF Accept
  <2> QED
    BY <1>2, <1>3, <2>1 DEF InboundInv, OnceFor, OnItsWay, Accept
<1>6. AcceptedIsPublished'
  <2>1. AcceptedRows \in SUBSET DOMAIN rows /\ PublishedAsReceived \in SUBSET DOMAIN trail
    BY DEF AcceptedRows, PublishedAsReceived
  <2>2. /\ Cardinality(AcceptedRows) \in Nat /\ Cardinality(PublishedAsReceived) \in Nat
        /\ Cardinality(AcceptedRows') = Cardinality(AcceptedRows) + 1
    BY <1>2, <2>1, EntriesAreFinite, EntryIsCounted DEF InboundInv, TypeOK
  <2> QED
    BY <1>3, <2>2 DEF InboundInv, TypeOK, AcceptedIsPublished, Accept, bounds
<1> QED
  BY <1>4, <1>5, <1>6 DEF InboundInv, Accept, WorkIsVerified, OnItsWay, SignatureOk

\* What is published as received had not been.
LEMMA PublishReceivedInv == ASSUME InboundInv, PublishReceived PROVE InboundInv'
<1>1. /\ trail' \in Seq([topic : {"received", "rejected"}, msg : Message])
      /\ trail' # <<>> /\ trail'[Len(trail')].topic = "received"
      /\ PublishedAsReceived' = PublishedAsReceived \cup {Len(trail) + 1}
      /\ \A e : Received(e)' =
           IF msg.ext = e THEN Received(e) \cup {Len(trail) + 1} ELSE Received(e)
  BY PublishEffect DEF PublishReceived, InboundInv
<1>2. AcceptedRows' = AcceptedRows /\ \A e : Work(e)' = Work(e) /\ (Exists(e)' <=> Exists(e))
  BY DEF PublishReceived, AcceptedRows, Work, Exists
<1>3. TypeOK'
  BY <1>1 DEF PublishReceived, Publish, InboundInv, TypeOK, bounds
<1>4. \A e \in Ext : OnceFor(e)'
  <2> SUFFICES ASSUME NEW e \in Ext PROVE OnceFor(e)'
    OBVIOUS
  <2>1. OnceFor(e) /\ pc = "publish" /\ pc' = "notify" /\ UNCHANGED <<msg, listens>> /\ OnItsWay
    BY DEF InboundInv, PublishReceived, Publish, OnItsWay
  <2>2. CASE msg.ext = e
    <3>1. Received(e)' = {Len(trail) + 1} /\ Exists(e) /\ ("rejected" \notin listens => Work(e) = {})
      BY <1>1, <2>1, <2>2 DEF OnceFor
    <3> QED
      BY <1>2, <2>1, <3>1 DEF OnceFor, AtMostOne
  <2>3. CASE msg.ext # e
    <3>1. Received(e)' = Received(e)
      BY <1>1, <2>3
    <3> QED
      BY <1>2, <2>1, <2>3, <3>1 DEF OnceFor
  <2> QED
    BY <2>2, <2>3
<1>5. AcceptedIsPublished'
  <2>1. AcceptedRows \in SUBSET DOMAIN rows /\ PublishedAsReceived \in SUBSET DOMAIN trail
    BY DEF AcceptedRows, PublishedAsReceived
  <2>2. /\ Cardinality(AcceptedRows) \in Nat /\ Cardinality(PublishedAsReceived) \in Nat
        /\ Cardinality(PublishedAsReceived') = Cardinality(PublishedAsReceived) + 1
    BY <1>1, <2>1, EntriesAreFinite, EntryIsCounted DEF InboundInv, TypeOK
  <2> QED
    BY <1>2, <2>2 DEF InboundInv, TypeOK, AcceptedIsPublished, PublishReceived, Publish, bounds
<1> QED
  BY <1>1, <1>3, <1>4, <1>5 DEF InboundInv, PublishReceived, Publish, WorkIsVerified, OnItsWay, SignatureOk

\* A refusal is published as one.
LEMMA RejectSignatureInv == ASSUME InboundInv, RejectSignature PROVE InboundInv'
<1>1. /\ trail' \in Seq([topic : {"received", "rejected"}, msg : Message])
      /\ trail' # <<>> /\ trail'[Len(trail')].topic = "rejected"
      /\ PublishedAsReceived' = PublishedAsReceived /\ \A e : Received(e)' = Received(e)
  BY PublishEffect DEF RejectSignature, InboundInv
<1>2. AcceptedRows' = AcceptedRows /\ \A e : Work(e)' = Work(e) /\ (Exists(e)' <=> Exists(e))
  BY DEF RejectSignature, AcceptedRows, Work, Exists
<1>3. TypeOK'
  BY <1>1 DEF RejectSignature, Publish, InboundInv, TypeOK, bounds
<1>4. \A e \in Ext : OnceFor(e)'
  BY <1>1, <1>2 DEF InboundInv, OnceFor, OnItsWay, RejectSignature, Publish
<1>5. AcceptedIsPublished'
  BY <1>1, <1>2 DEF InboundInv, AcceptedIsPublished, RejectSignature, Publish, bounds
<1> QED
  BY <1>1, <1>3, <1>4, <1>5 DEF InboundInv, RejectSignature, Publish, WorkIsVerified, OnItsWay

\* A workflow that does not listen to refusals starts with what was accepted.
LEMMA NotifyInv == ASSUME InboundInv, Notify PROVE InboundInv'
<1> DEFINE topic == trail[Len(trail)].topic
<1>1. topic \in {"received", "rejected"}
  <2> DEFINE Entry == [topic : {"received", "rejected"}, msg : Message]
  <2>1. trail # <<>> /\ trail \in Seq(Entry)
    BY DEF InboundInv, Notify, TypeOK
  <2>2. \A entry \in Entry : entry.topic \in {"received", "rejected"}
    OBVIOUS
  <2> HIDE DEF Entry
  <2>3. Len(trail) \in 1..Len(trail)
    BY <2>1
  <2>4. trail[Len(trail)] \in Entry
    BY <2>1, <2>3
  <2> QED
    BY <2>2, <2>4
<1>2. /\ UNCHANGED <<rows, trail, listens, enabled, bounds>> /\ pc' \in {"idle", "save_rejected"}
      /\ msg' \in Message /\ pc = "notify"
  <2>1. NoMessage \in Message /\ msg \in Message
    BY DEF NoMessage, Message, InboundInv, TypeOK
  <2>2. UNCHANGED <<rows, trail, listens, enabled, bounds>> /\ pc = "notify"
    BY DEF Notify
  <2>3. CASE topic = "rejected"
    BY <2>1, <2>2, <2>3 DEF Notify
  <2>4. CASE topic # "rejected"
    BY <2>1, <2>2, <2>4 DEF Notify, Done
  <2> QED
    BY <2>2, <2>3, <2>4
<1>3. /\ PublishedAsReceived' = PublishedAsReceived /\ AcceptedRows' = AcceptedRows
      /\ \A e : Received(e)' = Received(e) /\ (Exists(e)' <=> Exists(e))
  BY <1>2 DEF PublishedAsReceived, AcceptedRows, Received, Exists
<1>4. AcceptedIsPublished'
  BY <1>2, <1>3 DEF InboundInv, AcceptedIsPublished, bounds
<1>5. ~OnItsWay' /\ pc' # "notify" /\ pc' # "publish"
  BY <1>2 DEF OnItsWay
<1>6. CASE UNCHANGED started
  <2>1. TypeOK' /\ WorkIsVerified'
    BY <1>2, <1>6 DEF InboundInv, TypeOK, WorkIsVerified, bounds
  <2>2. \A e \in Ext : OnceFor(e)'
    BY <1>2, <1>3, <1>5, <1>6 DEF InboundInv, OnceFor, Work
  <2> QED
    BY <1>4, <1>5, <2>1, <2>2 DEF InboundInv
<1>7. CASE topic \in listens /\ started' = Append(started, msg)
  <2>1. /\ started' \in Seq(Message) /\ DOMAIN started = 1..Len(started)
        /\ DOMAIN started' = 1..(Len(started) + 1) /\ Len(started) \in Nat
        /\ \A i \in 1..Len(started) : started'[i] = started[i]
        /\ started'[Len(started) + 1] = msg
    BY <1>7 DEF InboundInv, TypeOK
  <2>2. TypeOK'
    BY <1>2, <2>1 DEF InboundInv, TypeOK, bounds
  <2>3. "rejected" \notin listens => OnItsWay
    BY <1>1, <1>2, <1>7 DEF OnItsWay
  <2>4. \A e \in Ext : OnceFor(e)'
    <3> SUFFICES ASSUME NEW e \in Ext PROVE OnceFor(e)'
      OBVIOUS
    <3>1. OnceFor(e)
      BY DEF InboundInv
    <3>2. CASE msg.ext = e
      <4>1. Work(e)' = Work(e) \cup {Len(started) + 1}
        BY <2>1, <3>2 DEF Work
      <4>2. "rejected" \notin listens => Exists(e) /\ Work(e)' = {Len(started) + 1}
        BY <2>3, <3>1, <3>2, <4>1 DEF OnceFor
      <4> QED
        BY <1>2, <1>3, <1>5, <3>1, <4>2 DEF OnceFor, AtMostOne
    <3>3. CASE msg.ext # e
      <4>1. Work(e)' = Work(e)
        BY <2>1, <3>3 DEF Work
      <4> QED
        BY <1>2, <1>3, <1>5, <3>1, <4>1 DEF OnceFor
    <3> QED
      BY <3>2, <3>3
  <2>5. WorkIsVerified'
    BY <1>2, <2>1, <2>3 DEF InboundInv, WorkIsVerified, SignatureOk
  <2> QED
    BY <1>4, <1>5, <2>2, <2>4, <2>5 DEF InboundInv
<1> QED
  BY <1>6, <1>7 DEF Notify

LEMMA InboundNext == InboundInv /\ [Next]_vars => InboundInv'
<1> SUFFICES ASSUME InboundInv, [Next]_vars PROVE InboundInv'
  OBVIOUS
<1>1. CASE Deliver
  <2>1. TypeOK'
    BY <1>1 DEF Deliver, InboundInv, TypeOK
  <2> QED
    BY <1>1, <2>1, QuietInv DEF Deliver, InboundInv, TypeOK
<1>2. CASE RejectDisabled
  BY <1>2, RefuseInv DEF RejectDisabled, Done
<1>3. CASE Duplicate
  <2>1. TypeOK'
    BY <1>3 DEF Duplicate, Done, NoMessage, Message, InboundInv, TypeOK, bounds
  <2> QED
    BY <1>3, <2>1, QuietInv DEF Duplicate, Done, bounds
<1>4. CASE SaveRejected
  <2>1. msg.ext \in Ext \cup {NoExt}
    BY DEF InboundInv, TypeOK, Message
  <2> QED
    BY <1>4, <2>1, RefuseInv DEF SaveRejected, Done
<1>5. CASE Toggle
  <2>1. TypeOK'
    BY <1>5 DEF Toggle, InboundInv, TypeOK
  <2> QED
    BY <1>5, <2>1, QuietInv DEF Toggle
<1>6. CASE Crash
  <2>1. TypeOK'
    BY <1>6 DEF Crash, Done, NoMessage, Message, InboundInv, TypeOK
  <2> QED
    BY <1>6, <2>1, QuietInv DEF Crash, Done
<1>7. CASE Quiescent \/ UNCHANGED vars
  <2>1. UNCHANGED vars
    BY <1>7 DEF Quiescent
  <2>2. TypeOK'
    BY <2>1 DEF vars, InboundInv, TypeOK
  <2> QED
    BY <2>1, <2>2, QuietInv DEF vars
<1> QED
  BY <1>1, <1>2, <1>3, <1>4, <1>5, <1>6, <1>7, AcceptInv, PublishReceivedInv, RejectSignatureInv,
     NotifyInv DEF Next, Receive

LEMMA InboundStarts == Init => InboundInv
<1> SUFFICES ASSUME Init PROVE InboundInv
  OBVIOUS
<1>1. TypeOK
  BY DEF Init, TypeOK, NoMessage, Message
<1>2. /\ AcceptedRows = {} /\ PublishedAsReceived = {}
      /\ \A e : Received(e) = {} /\ Work(e) = {}
  BY DEF Init, AcceptedRows, PublishedAsReceived, Received, Work
<1>3. AcceptedIsPublished
  <2>1. Cardinality({}) = 0
    BY FS_EmptySet
  <2> QED
    BY <1>2, <2>1 DEF Init, AcceptedIsPublished
<1>4. \A e \in Ext : OnceFor(e)
  BY <1>2 DEF Init, OnceFor, OnItsWay, AtMostOne
<1> QED
  BY <1>1, <1>3, <1>4 DEF Init, InboundInv, WorkIsVerified, OnItsWay

-----------------------------------------------------------------------------
(* The theorem *)

\* ConnectorService.receive (integrations/service.py): however often an event
\* is delivered and wherever the server dies, it is published and worked on at
\* most once, what was accepted was published but for one event in each death,
\* and only what was verified becomes work.
THEOREM EventsBecomeWorkOnce == Spec => []EventsAreWorkOnce
<1>1. InboundInv => EventsAreWorkOnce
  <2> SUFFICES ASSUME InboundInv PROVE EventsAreWorkOnce
    OBVIOUS
  <2>1. ProcessedOnce
    <3> SUFFICES ASSUME NEW e \in Ext
                 PROVE  /\ Cardinality(Received(e)) <= 1
                        /\ "rejected" \notin listens => Cardinality(Work(e)) <= 1
      BY DEF ProcessedOnce, Received
    <3> QED
      BY AtMostOneCount DEF InboundInv, OnceFor
  <2> QED
    BY <2>1 DEF InboundInv, EventsAreWorkOnce
<1> QED
  BY <1>1, InboundStarts, InboundNext, PTL DEF Spec

-----------------------------------------------------------------------------
(* Scheduler: the inductive invariant *)

RunRow == [workflow : Clock!Workflow, trigger : {"cron", "manual"}, created : Clock!Minute, for : Clock!Minute \cup {-1}]


Busy(t) == ticker[t].at # "idle"
CronOf(w) == {i \in DOMAIN runs : runs[i].workflow = w /\ runs[i].trigger = "cron"}
StartedPairs == {starts[k] : k \in DOMAIN starts}

\* A run of the workflow hides the minute from later ticks, or was for it.
Covered(w, m) ==
  \E i \in DOMAIN runs : runs[i].trigger = "cron" /\ runs[i].workflow = w /\ m \in {runs[i].for, runs[i].created}

\* Runs are in the order of their creation, each after the minute it was due.
RunsInv ==
  /\ \A i \in DOMAIN runs : runs[i].created <= now
  /\ \A i, j \in DOMAIN runs : i <= j => runs[i].created <= runs[j].created
  /\ \A i \in DOMAIN runs : runs[i].trigger = "cron" => runs[i].for <= runs[i].created
  /\ \A w \in Clock!Workflow : CronOf(w) # {} => \E i \in CronOf(w) : \A j \in CronOf(w) : j <= i

\* What starts counts has its run.
StartsInv == \A s \in StartedPairs : \E i \in CronOf(s[1]) : runs[i].for = s[2]

\* While a tick is alone nobody starts anything but itself, and of its list
\* nothing was started for its minute.
LoneInv(t) ==
  /\ \A u \in Ticker \ {t} : ~Busy(u)
  /\ ticker[t].at = "due" =>
       \A i \in DOMAIN runs : runs[i].trigger = "cron" => runs[i].created <= ticker[t].moment
  /\ ticker[t].at = "start" =>
       \A i \in ticker[t].left : <<Loaded[i], ticker[t].moment>> \notin StartedPairs

\* A list holds what is due, and all of it that has no run.
ListInv(t) ==
  /\ \A i \in ticker[t].left : <<Loaded[i], ticker[t].moment>> \in Clock!DueMinutes
  /\ \A s \in Clock!DueMinutes : s[2] = ticker[t].moment =>
       Covered(s[1], s[2]) \/ \E i \in ticker[t].left : Loaded[i] = s[1]

TickInv(t) ==
  /\ Busy(t) => ticker[t].moment <= now
  /\ Busy(t) /\ ticker[t].alone => LoneInv(t)
  /\ ticker[t].at = "start" => ListInv(t)

ClockInv == Clock!TypeOK /\ RunsInv /\ StartsInv /\ (\A t \in Ticker : TickInv(t)) /\ Clock!NothingIsMissed

-----------------------------------------------------------------------------
(* Scheduler: facts *)

LEMMA ClockFacts ==
  ASSUME Clock!SchedulerAssumption, Clock!TypeOK
  PROVE  /\ Clock!Minute \subseteq Int /\ now \in Clock!Minute /\ Clock!Min(Clock!Minute) \in Clock!Minute
         /\ DOMAIN Loaded \subseteq Int /\ \A i \in DOMAIN Loaded : Loaded[i] \in Clock!Workflow
         /\ runs \in Seq(RunRow) /\ \A i \in DOMAIN runs : runs[i] \in RunRow /\ i \in Int
         /\ \A i \in DOMAIN runs : runs[i].created \in Clock!Minute /\ runs[i].for \in Int
         /\ \A t \in Ticker : ticker[t].moment \in Clock!Minute /\ ticker[t].left \subseteq DOMAIN Loaded
         /\ starts \in Seq(Clock!Workflow \X Clock!Minute) /\ StartedPairs \subseteq Clock!Workflow \X Clock!Minute
<1>1. Clock!Min(Clock!Minute) \in Clock!Minute
  BY DEF Clock!SchedulerAssumption, Clock!Min
<1>2. runs \in Seq(RunRow) /\ now \in Clock!Minute /\ starts \in Seq(Clock!Workflow \X Clock!Minute)
  BY DEF Clock!TypeOK, RunRow
<1>3. \A i \in DOMAIN runs : runs[i] \in RunRow /\ i \in Int
  BY <1>2
<1>4. Clock!Minute \subseteq Int /\ -1 \in Int
  BY DEF Clock!SchedulerAssumption
<1>5. \A i \in DOMAIN runs : runs[i].created \in Clock!Minute /\ runs[i].for \in Int
  BY <1>3, <1>4 DEF RunRow
<1>6. DOMAIN Loaded \subseteq Int /\ \A i \in DOMAIN Loaded : Loaded[i] \in Clock!Workflow
  BY DEF Clock!SchedulerAssumption, Clock!Workflow
<1>7. \A t \in Ticker : ticker[t].moment \in Clock!Minute /\ ticker[t].left \subseteq DOMAIN Loaded
  BY DEF Clock!TypeOK
<1>8. StartedPairs \subseteq Clock!Workflow \X Clock!Minute
  BY <1>2 DEF StartedPairs
<1> QED
  BY <1>1, <1>2, <1>3, <1>4, <1>5, <1>6, <1>7, <1>8

\* A new run is the last.
LEMMA RunsGrow ==
  ASSUME Clock!SchedulerAssumption, Clock!TypeOK, RunsInv, UNCHANGED now,
         NEW r \in RunRow, r.created = now, r.trigger = "cron" => r.for <= now,
         runs' = Append(runs, r)
  PROVE  /\ RunsInv' /\ runs' \in Seq(RunRow)
         /\ \A w, m : Covered(w, m) => Covered(w, m)'
         /\ \A w : CronOf(w) \subseteq CronOf(w)'
         /\ \A i \in DOMAIN runs : i \in DOMAIN runs' /\ runs'[i] = runs[i]
         /\ Len(runs) + 1 \in DOMAIN runs' /\ runs'[Len(runs) + 1] = r
<1> DEFINE n == Len(runs) + 1
<1>1. runs \in Seq(RunRow) /\ \A i \in DOMAIN runs : i \in Int /\ runs[i].created \in Int /\ runs[i].for \in Int
  BY ClockFacts
<1>2. /\ n \in Int /\ n \notin DOMAIN runs /\ DOMAIN runs' = DOMAIN runs \cup {n}
      /\ runs'[n] = r /\ \A i \in DOMAIN runs : runs'[i] = runs[i] /\ i < n
      /\ runs' \in Seq(RunRow)
  BY <1>1
<1>3. now \in Int /\ r.created \in Int
  BY ClockFacts
<1> HIDE DEF n
<1>4. \A w : CronOf(w)' = CronOf(w) \cup (IF r.workflow = w /\ r.trigger = "cron" THEN {n} ELSE {})
  BY <1>2 DEF CronOf
<1>5. /\ \A i \in DOMAIN runs' : runs'[i].created <= now'
      /\ \A i, j \in DOMAIN runs' : i <= j => runs'[i].created <= runs'[j].created
  BY <1>1, <1>2, <1>3 DEF RunsInv
<1>6. \A i \in DOMAIN runs' : runs'[i].trigger = "cron" => runs'[i].for <= runs'[i].created
  BY <1>2 DEF RunsInv
<1>7. \A w \in Clock!Workflow : CronOf(w)' # {} => \E i \in CronOf(w)' : \A j \in CronOf(w)' : j <= i
  <2> SUFFICES ASSUME NEW w \in Clock!Workflow, CronOf(w)' # {}
               PROVE  \E i \in CronOf(w)' : \A j \in CronOf(w)' : j <= i
    OBVIOUS
  <2>1. CASE n \in CronOf(w)'
    <3>1. \A j \in CronOf(w)' : j <= n
      BY <1>1, <1>2 DEF CronOf
    <3> QED
      BY <2>1, <3>1
  <2>2. CASE n \notin CronOf(w)'
    BY <1>4, <2>2 DEF RunsInv
  <2> QED
    BY <2>1, <2>2
<1>8. \A w, m : Covered(w, m) => Covered(w, m)'
  BY <1>2 DEF Covered
<1> QED
  BY <1>2, <1>4, <1>5, <1>6, <1>7, <1>8 DEF RunsInv, n

\* Who does not move is as before, when what is started is not his.
LEMMA OthersTick ==
  ASSUME NEW u \in Ticker, TickInv(u), ticker'[u] = ticker[u], now' = now,
         \A w, m : Covered(w, m) => Covered(w, m)',
         Busy(u) /\ ticker[u].alone =>
           /\ \A v \in Ticker \ {u} : ~Busy(v)'
           /\ UNCHANGED <<runs, starts>>
  PROVE  TickInv(u)'
<1>1. Busy(u)' => ticker'[u].moment <= now'
  BY DEF TickInv, Busy
<1>2. Busy(u)' /\ ticker'[u].alone => LoneInv(u)'
  BY DEF TickInv, LoneInv, Busy, StartedPairs
<1>3. ticker'[u].at = "start" => ListInv(u)'
  BY DEF TickInv, ListInv, Clock!DueMinutes
<1> QED
  BY <1>1, <1>2, <1>3 DEF TickInv

-----------------------------------------------------------------------------
(* Scheduler: every step keeps it *)

LEMMA TickStep ==
  ASSUME Clock!SchedulerAssumption, ClockInv, NEW t \in Ticker, Clock!Tick(t)
  PROVE  ClockInv'
<1> DEFINE met == {u \in Ticker \ {t} : Busy(u)}
<1>1. /\ ~Busy(t) /\ UNCHANGED <<now, runs, starts, ended, tickerDeaths>> /\ ticks' = ticks + 1 /\ ticks < MaxTicks
      /\ ticker' = [u \in Ticker |->
           IF u = t THEN [at |-> "due", moment |-> now, left |-> {}, alone |-> met = {}]
           ELSE [ticker[u] EXCEPT !.alone = @ /\ u \notin met]]
  BY DEF Clock!Tick, Busy
<1> HIDE DEF met
<1>2. Clock!TypeOK'
  <2>1. \A u \in Ticker : ticker'[u] \in [at : {"idle", "due", "start"}, moment : Clock!Minute,
                                          left : SUBSET DOMAIN Loaded, alone : BOOLEAN]
    BY <1>1, ClockFacts DEF ClockInv, Clock!TypeOK
  <2>2. ticker' \in [Ticker -> [at : {"idle", "due", "start"}, moment : Clock!Minute,
                                left : SUBSET DOMAIN Loaded, alone : BOOLEAN]]
    BY <1>1, <2>1
  <2>3. ticks' \in 0..MaxTicks
    BY <1>1 DEF ClockInv, Clock!TypeOK, Clock!SchedulerAssumption
  <2> QED
    BY <1>1, <2>2, <2>3 DEF ClockInv, Clock!TypeOK
<1>3. RunsInv' /\ StartsInv' /\ Clock!NothingIsMissed'
  BY <1>1 DEF ClockInv, RunsInv, StartsInv, Clock!NothingIsMissed, CronOf, StartedPairs
<1>4. TickInv(t)'
  <2>1. /\ ticker'[t].at = "due" /\ ticker'[t].moment = now /\ (ticker'[t].alone <=> met = {})
    BY <1>1
  <2>2. now <= now
    BY ClockFacts DEF ClockInv
  <2>3. met = {} => \A u \in Ticker \ {t} : ~Busy(u)'
    BY <1>1 DEF met, Busy, ClockInv, Clock!TypeOK
  <2>4. \A i \in DOMAIN runs' : runs'[i].created <= now
    BY <1>1 DEF ClockInv, RunsInv
  <2> QED
    BY <1>1, <2>1, <2>2, <2>3, <2>4 DEF TickInv, LoneInv
<1>5. \A u \in Ticker \ {t} : TickInv(u)'
  <2> SUFFICES ASSUME NEW u \in Ticker \ {t} PROVE TickInv(u)'
    OBVIOUS
  <2>1. /\ ticker'[u].at = ticker[u].at /\ ticker'[u].moment = ticker[u].moment
        /\ ticker'[u].left = ticker[u].left
        /\ Busy(u) => ~ticker'[u].alone
    BY <1>1 DEF met, ClockInv, Clock!TypeOK
  <2>2. TickInv(u) /\ \A w, m : Covered(w, m)' <=> Covered(w, m)
    BY <1>1 DEF ClockInv, Covered
  <2>3. ListInv(u) => ListInv(u)'
    BY <2>1, <2>2 DEF ListInv, Clock!DueMinutes
  <2> QED
    BY <1>1, <2>1, <2>2, <2>3 DEF TickInv, Busy
<1> QED
  BY <1>2, <1>3, <1>4, <1>5 DEF ClockInv

\* A lone tick lists nothing that was started for its minute: the run would be
\* the last of its workflow, or one after it, all of them created in the minute.
LEMMA DueStep ==
  ASSUME Clock!SchedulerAssumption, ClockInv, NEW t \in Ticker, Clock!Due(t)
  PROVE  ClockInv'
<1> DEFINE m == ticker[t].moment
           due == {i \in DOMAIN Loaded : Clock!IsDue(Loaded[i], m)}
<1>1. /\ Busy(t) /\ ticker[t].at = "due" /\ UNCHANGED <<now, runs, starts, ended, ticks, tickerDeaths>>
      /\ ticker' = [ticker EXCEPT ![t].at = "start", ![t].left = due]
  BY DEF Clock!Due, Busy
<1>2. /\ ticker'[t].at = "start" /\ ticker'[t].left = due /\ ticker'[t].moment = m
      /\ ticker'[t].alone = ticker[t].alone
      /\ \A u \in Ticker \ {t} : ticker'[u] = ticker[u]
  BY <1>1 DEF ClockInv, Clock!TypeOK
<1>3. due \subseteq DOMAIN Loaded /\ m \in Clock!Minute /\ m \in Int
  BY ClockFacts DEF ClockInv
<1>4. Clock!TypeOK'
  BY <1>1, <1>3 DEF ClockInv, Clock!TypeOK
<1>5. RunsInv' /\ StartsInv' /\ Clock!NothingIsMissed'
  BY <1>1 DEF ClockInv, RunsInv, StartsInv, Clock!NothingIsMissed, CronOf, StartedPairs
<1>6. \A u \in Ticker \ {t} : TickInv(u)'
  <2> SUFFICES ASSUME NEW u \in Ticker \ {t} PROVE TickInv(u)'
    OBVIOUS
  <2>1. TickInv(u) /\ (Busy(u) => ~ticker[u].alone)
    BY <1>1 DEF ClockInv, TickInv, LoneInv
  <2>2. \A w, k : Covered(w, k) => Covered(w, k)'
    BY <1>1 DEF Covered
  <2> QED
    BY <1>1, <1>2, <2>1, <2>2, OthersTick
<1>7. ListInv(t)'
  <2>1. \A i \in due : <<Loaded[i], m>> \in Clock!DueMinutes
    BY <1>3, ClockFacts DEF ClockInv, Clock!IsDue, Clock!DueMinutes
  <2>2. ASSUME NEW s \in Clock!DueMinutes, s[2] = m, \A i \in due : Loaded[i] # s[1]
        PROVE  Covered(s[1], s[2])
    <3>1. PICK i \in DOMAIN Loaded : Loaded[i] = s[1]
      BY <2>2 DEF Clock!DueMinutes, Clock!Workflow
    <3>2. ~Clock!IsDue(s[1], m)
      BY <2>2, <3>1
    <3>3. PICK run \in Clock!LastRun(s[1]) : run.created = m
      BY <2>2, <3>2 DEF Clock!DueMinutes, Clock!IsDue
    <3>4. PICK j \in CronOf(s[1]) : run = runs[j]
      <4>1. CronOf(s[1]) # {} /\ run = runs[Clock!Max(CronOf(s[1]))]
        BY <3>3 DEF Clock!LastRun, CronOf
      <4>2. s[1] \in Clock!Workflow
        BY <2>2 DEF Clock!DueMinutes
      <4>3. PICK k \in CronOf(s[1]) : \A j \in CronOf(s[1]) : j <= k
        BY <4>1, <4>2 DEF ClockInv, RunsInv
      <4>4. \A j \in CronOf(s[1]) : j \in Int
        BY ClockFacts DEF CronOf, ClockInv
      <4>5. Clock!Max(CronOf(s[1])) \in CronOf(s[1])
        BY <4>3, <4>4 DEF Clock!Max
      <4> QED
        BY <4>1, <4>5
    <3> QED
      BY <2>2, <3>3, <3>4 DEF CronOf, Covered
  <2>3. \A w, k : Covered(w, k) => Covered(w, k)'
    BY <1>1 DEF Covered
  <2> QED
    BY <1>2, <2>1, <2>2, <2>3 DEF ListInv, Clock!DueMinutes
<1>8. ASSUME ticker[t].alone PROVE LoneInv(t)'
  <2>1. LoneInv(t)
    BY <1>1, <1>8 DEF ClockInv, TickInv
  <2>2. \A u \in Ticker \ {t} : ~Busy(u)'
    BY <1>2, <2>1 DEF LoneInv, Busy
  <2>3. ASSUME NEW i \in due, <<Loaded[i], m>> \in StartedPairs PROVE FALSE
    <3> DEFINE w == Loaded[i]
    <3>1. w \in Clock!Workflow
      BY <1>3, ClockFacts DEF ClockInv
    <3>2. PICK j \in CronOf(w) : runs[j].for = m
      BY <2>3 DEF ClockInv, StartsInv
    <3>3. PICK k \in CronOf(w) : \A x \in CronOf(w) : x <= k
      BY <3>1, <3>2 DEF ClockInv, RunsInv
    <3>4. \A x \in CronOf(w) : x \in DOMAIN runs /\ x \in Int /\ runs[x].created \in Int /\ runs[x].trigger = "cron"
      BY ClockFacts DEF CronOf, ClockInv
    <3>5. runs[j].created >= m /\ runs[k].created >= runs[j].created /\ runs[k].created <= m
      BY <1>1, <2>1, <3>2, <3>3, <3>4 DEF ClockInv, RunsInv, LoneInv
    <3>6. runs[k].created = m
      BY <1>3, <3>3, <3>4, <3>5
    <3>7. Clock!Max(CronOf(w)) = k
      <4> DEFINE C == CronOf(w)
      <4>0. k \in C /\ \A x \in C : k >= x /\ x \in Int
        BY <3>3, <3>4
      <4> HIDE DEF C
      <4>1. Clock!Max(C) \in C /\ \A x \in C : Clock!Max(C) >= x
        BY <4>0 DEF Clock!Max
      <4>2. Clock!Max(C) \in Int /\ Clock!Max(C) >= k /\ k >= Clock!Max(C) /\ k \in Int
        BY <4>0, <4>1
      <4>3. Clock!Max(C) = k
        BY <4>2
      <4> QED
        BY <4>3 DEF C
    <3>8. Clock!LastRun(w) = {runs[k]}
      BY <3>3, <3>7 DEF Clock!LastRun, CronOf
    <3> QED
      BY <2>3, <3>6, <3>8 DEF Clock!IsDue
  <2>4. StartedPairs' = StartedPairs
    BY <1>1 DEF StartedPairs
  <2>5. \A i \in ticker'[t].left : <<Loaded[i], ticker'[t].moment>> \notin StartedPairs'
    BY <1>2, <2>3, <2>4
  <2> QED
    BY <1>2, <2>2, <2>5 DEF LoneInv
<1>9. TickInv(t)'
  BY <1>1, <1>2, <1>7, <1>8 DEF ClockInv, TickInv
<1> QED
  BY <1>4, <1>5, <1>6, <1>9 DEF ClockInv

\* The started workflow is off the list, and has its run.
LEMMA StartStep ==
  ASSUME Clock!SchedulerAssumption, ClockInv, NEW t \in Ticker, Clock!Start(t)
  PROVE  ClockInv'
<1>0. PICK m \in Clock!Minute : m = ticker[t].moment
  BY ClockFacts DEF ClockInv
<1> DEFINE left == ticker[t].left
<1>1. PICK i \in left :
        /\ ticker[t].at = "start" /\ Busy(t) /\ UNCHANGED <<now, ended, ticks, tickerDeaths>>
        /\ runs' = Append(runs, Clock!CronRow(Loaded[i], now, m))
        /\ starts' = IF ticker[t].alone THEN Append(starts, <<Loaded[i], m>>) ELSE starts
        /\ ticker' = [ticker EXCEPT ![t].left = left \ {i}]
  BY <1>0 DEF Clock!Start, Clock!NextDue, Busy
<1> DEFINE w == Loaded[i]
           r == Clock!CronRow(w, now, m)
           s == <<w, m>>
<1>2. /\ m \in Clock!Minute /\ m \in Int /\ left \subseteq DOMAIN Loaded /\ i \in DOMAIN Loaded /\ w \in Clock!Workflow
      /\ now \in Clock!Minute /\ starts \in Seq(Clock!Workflow \X Clock!Minute)
  BY ClockFacts DEF ClockInv
<1>3. TickInv(t) /\ m <= now /\ ListInv(t) /\ (ticker[t].alone => LoneInv(t))
  BY <1>0, <1>1 DEF ClockInv, TickInv
<1>4. /\ ticker'[t].at = "start" /\ ticker'[t].left = left \ {i} /\ ticker'[t].moment = m
      /\ ticker'[t].alone = ticker[t].alone
      /\ \A u \in Ticker \ {t} : ticker'[u] = ticker[u]
  BY <1>0, <1>1 DEF ClockInv, Clock!TypeOK
<1>5. r \in RunRow /\ r.created = now /\ r.for = m /\ r.workflow = w /\ r.trigger = "cron"
  BY <1>2 DEF Clock!CronRow, RunRow
<1>6. /\ RunsInv' /\ runs' \in Seq(RunRow)
      /\ \A x, k : Covered(x, k) => Covered(x, k)'
      /\ \A x : CronOf(x) \subseteq CronOf(x)'
      /\ \A j \in DOMAIN runs : j \in DOMAIN runs' /\ runs'[j] = runs[j]
      /\ Len(runs) + 1 \in DOMAIN runs' /\ runs'[Len(runs) + 1] = r
  <2> HIDE DEF r
  <2>1. runs' = Append(runs, r) /\ UNCHANGED now /\ r.for <= now
    BY <1>1, <1>3, <1>5 DEF r
  <2> QED
    BY <1>5, <2>1, RunsGrow DEF ClockInv
<1>7. /\ starts' \in Seq(Clock!Workflow \X Clock!Minute)
      /\ StartedPairs' = IF ticker[t].alone THEN StartedPairs \cup {s} ELSE StartedPairs
  <2>1. s \in Clock!Workflow \X Clock!Minute
    BY <1>2
  <2>2. CASE ticker[t].alone
    <3> HIDE DEF s
    <3>1. starts' = Append(starts, s)
      BY <1>1, <2>2 DEF s
    <3>2. /\ starts' \in Seq(Clock!Workflow \X Clock!Minute) /\ DOMAIN starts' = DOMAIN starts \cup {Len(starts) + 1}
          /\ starts'[Len(starts) + 1] = s /\ \A k \in DOMAIN starts : starts'[k] = starts[k]
      BY <1>2, <2>1, <3>1
    <3> QED
      BY <2>2, <3>2 DEF StartedPairs
  <2>3. CASE ~ticker[t].alone
    BY <1>1, <1>2, <2>3 DEF StartedPairs
  <2> QED
    BY <2>2, <2>3
<1>8. Clock!TypeOK'
  BY <1>1, <1>2, <1>6, <1>7 DEF ClockInv, Clock!TypeOK, RunRow
<1> HIDE DEF r
<1>9. Len(runs) + 1 \in CronOf(w)' /\ Covered(w, m)'
  BY <1>5, <1>6 DEF CronOf, Covered
<1>10. StartsInv'
  <2> SUFFICES ASSUME NEW x \in StartedPairs' PROVE \E j \in CronOf(x[1])' : runs'[j].for = x[2]
    BY DEF StartsInv
  <2>1. CASE x = s
    BY <1>5, <1>6, <1>9, <2>1
  <2>2. CASE x \in StartedPairs
    BY <1>6, <2>2 DEF ClockInv, StartsInv, CronOf
  <2> QED
    BY <1>7, <2>1, <2>2
<1>11. Clock!NothingIsMissed'
  <2>1. \A k \in ended, d \in Clock!DueMinutes : d[2] = k => Covered(d[1], k)
    BY DEF ClockInv, Clock!NothingIsMissed, Covered
  <2>2. \A k \in ended, d \in Clock!DueMinutes : d[2] = k => Covered(d[1], k)'
    BY <1>6, <2>1
  <2> QED
    BY <1>1, <2>2 DEF Clock!NothingIsMissed, Covered, Clock!DueMinutes
<1>12. \A u \in Ticker \ {t} : TickInv(u)'
  <2> SUFFICES ASSUME NEW u \in Ticker \ {t} PROVE TickInv(u)'
    OBVIOUS
  <2>1. TickInv(u) /\ (Busy(u) => ~ticker[u].alone)
    BY <1>1 DEF ClockInv, TickInv, LoneInv
  <2> QED
    BY <1>1, <1>4, <1>6, <2>1, OthersTick
<1>13. ListInv(t)'
  <2>1. \A j \in left \ {i} : <<Loaded[j], m>> \in Clock!DueMinutes
    BY <1>0, <1>3 DEF ListInv
  <2>2. ASSUME NEW d \in Clock!DueMinutes, d[2] = m
        PROVE  Covered(d[1], d[2])' \/ \E j \in left \ {i} : Loaded[j] = d[1]
    BY <1>0, <1>3, <1>6, <1>9, <2>2 DEF ListInv
  <2>3. Clock!DueMinutes' = Clock!DueMinutes
    BY DEF Clock!DueMinutes
  <2> QED
    BY <1>4, <2>1, <2>2, <2>3 DEF ListInv
<1>14. ASSUME ticker[t].alone PROVE LoneInv(t)'
  <2>1. \A u \in Ticker \ {t} : ~Busy(u)'
    BY <1>3, <1>4, <1>14 DEF LoneInv, Busy
  <2>2. ASSUME NEW j \in left \ {i} PROVE <<Loaded[j], m>> \notin StartedPairs'
    <3>1. <<Loaded[j], m>> \notin StartedPairs
      BY <1>0, <1>1, <1>3, <1>14 DEF LoneInv
    <3>2. Loaded[j] # w
      BY <1>2 DEF Clock!SchedulerAssumption
    <3> QED
      BY <1>7, <3>1, <3>2
  <2>3. \A j \in ticker'[t].left : <<Loaded[j], ticker'[t].moment>> \notin StartedPairs'
    BY <1>4, <2>2
  <2> QED
    BY <1>4, <2>1, <2>3 DEF LoneInv
<1>15. TickInv(t)'
  BY <1>1, <1>3, <1>4, <1>13, <1>14 DEF TickInv
<1> QED
  BY <1>6, <1>8, <1>10, <1>11, <1>12, <1>15 DEF ClockInv

\* A tick that ends, raises or dies leaves what the others have.
LEMMA LeaveStep ==
  ASSUME Clock!SchedulerAssumption, ClockInv, NEW t \in Ticker, Clock!StartRaises(t) \/ Clock!EndTick(t) \/ Clock!Crash(t)
  PROVE  ClockInv'
<1>1. /\ ticker' = [ticker EXCEPT ![t] = Clock!Idle] /\ UNCHANGED <<now, runs, starts, ticks>>
  BY DEF Clock!StartRaises, Clock!EndTick, Clock!Crash
<1>2. /\ ticker'[t] = Clock!Idle /\ ~Busy(t)' /\ \A u \in Ticker \ {t} : ticker'[u] = ticker[u]
      /\ \A w, m : Covered(w, m)' <=> Covered(w, m)
  BY <1>1 DEF ClockInv, Clock!TypeOK, Clock!Idle, Busy, Covered
<1>3. tickerDeaths' \in 0..MaxDeaths
  BY DEF Clock!StartRaises, Clock!EndTick, Clock!Crash, ClockInv, Clock!TypeOK, Clock!SchedulerAssumption
<1>4. ended' \subseteq Clock!Minute
  BY ClockFacts DEF Clock!StartRaises, Clock!EndTick, Clock!Crash, ClockInv, Clock!TypeOK
<1>5. Clock!Idle \in [at : {"idle", "due", "start"}, moment : Clock!Minute, left : SUBSET DOMAIN Loaded, alone : BOOLEAN]
  BY ClockFacts DEF Clock!Idle, ClockInv
<1>6. Clock!TypeOK'
  BY <1>1, <1>3, <1>4, <1>5 DEF ClockInv, Clock!TypeOK
<1>7. RunsInv' /\ StartsInv'
  BY <1>1 DEF ClockInv, RunsInv, StartsInv, CronOf, StartedPairs
<1>8. Clock!NothingIsMissed'
  <2>1. \A k \in ended, d \in Clock!DueMinutes : d[2] = k => Covered(d[1], k)
    BY DEF ClockInv, Clock!NothingIsMissed, Covered
  <2>2. \A d \in Clock!DueMinutes : Clock!EndTick(t) /\ d[2] = ticker[t].moment => Covered(d[1], d[2])
    BY DEF Clock!EndTick, ClockInv, TickInv, ListInv
  <2>3. ended' = ended \/ (Clock!EndTick(t) /\ ended' = ended \cup {ticker[t].moment})
    BY DEF Clock!StartRaises, Clock!EndTick, Clock!Crash
  <2>4. \A k \in ended', d \in Clock!DueMinutes : d[2] = k => Covered(d[1], k)
    BY <2>1, <2>2, <2>3
  <2> QED
    BY <1>1, <2>4 DEF Clock!NothingIsMissed, Covered, Clock!DueMinutes
<1>9. \A u \in Ticker \ {t} : TickInv(u)'
  <2> SUFFICES ASSUME NEW u \in Ticker \ {t} PROVE TickInv(u)'
    OBVIOUS
  <2>1. TickInv(u) /\ (Busy(u) /\ ticker[u].alone => \A v \in Ticker \ {u} : ~Busy(v))
    BY DEF ClockInv, TickInv, LoneInv
  <2>2. Busy(u) /\ ticker[u].alone => \A v \in Ticker \ {u} : ~Busy(v)'
    BY <1>2, <2>1 DEF Busy
  <2> QED
    BY <1>1, <1>2, <2>1, <2>2, OthersTick
<1>10. TickInv(t)'
  BY <1>2 DEF TickInv, Busy
<1> QED
  BY <1>6, <1>7, <1>8, <1>9, <1>10 DEF ClockInv

\* A run by hand hides nothing from the ticks; the clock only goes on.
LEMMA QuietStep ==
  ASSUME Clock!SchedulerAssumption, ClockInv, Clock!StartByHand \/ Clock!Advance \/ UNCHANGED Clock!vars
  PROVE  ClockInv'
<1>1. UNCHANGED <<ticker, starts, ended, ticks, tickerDeaths>>
  BY DEF Clock!StartByHand, Clock!Advance, Clock!vars
<1>2. /\ RunsInv' /\ runs' \in Seq(RunRow) /\ now' \in Clock!Minute /\ now <= now'
      /\ \A w, m : Covered(w, m) => Covered(w, m)'
      /\ \A w : CronOf(w) \subseteq CronOf(w)'
      /\ \A i \in DOMAIN runs : i \in DOMAIN runs' /\ runs'[i] = runs[i]
      /\ \A i \in DOMAIN runs' : runs'[i].trigger = "cron" => i \in DOMAIN runs
  <2>1. CASE Clock!StartByHand
    <3>1. PICK w \in Startable : runs' = Append(runs, [workflow |-> w, trigger |-> "manual", created |-> now, for |-> -1])
      BY <2>1 DEF Clock!StartByHand
    <3> DEFINE r == [workflow |-> w, trigger |-> "manual", created |-> now, for |-> -1]
    <3>2. r \in RunRow /\ r.created = now /\ r.trigger # "cron"
      BY ClockFacts DEF RunRow, ClockInv, Clock!SchedulerAssumption
    <3>3. UNCHANGED now /\ now \in Clock!Minute /\ now <= now
      BY <2>1, ClockFacts DEF Clock!StartByHand, ClockInv
    <3> HIDE DEF r
    <3>4. runs' = Append(runs, r)
      BY <3>1 DEF r
    <3>5. /\ RunsInv' /\ runs' \in Seq(RunRow)
          /\ \A x, m : Covered(x, m) => Covered(x, m)'
          /\ \A x : CronOf(x) \subseteq CronOf(x)'
          /\ \A i \in DOMAIN runs : i \in DOMAIN runs' /\ runs'[i] = runs[i]
          /\ Len(runs) + 1 \in DOMAIN runs' /\ runs'[Len(runs) + 1] = r
      BY <3>2, <3>3, <3>4, RunsGrow DEF ClockInv
    <3>6. DOMAIN runs' = DOMAIN runs \cup {Len(runs) + 1}
      BY <3>4, ClockFacts DEF ClockInv
    <3> QED
      BY <3>2, <3>3, <3>5, <3>6
  <2>2. CASE Clock!Advance \/ UNCHANGED Clock!vars
    <3>1. UNCHANGED runs /\ now' \in Clock!Minute /\ now <= now'
      BY <2>2, ClockFacts DEF Clock!Advance, Clock!vars, ClockInv
    <3>2. RunsInv'
      <4>1. /\ \A i \in DOMAIN runs : runs[i].created <= now /\ runs[i].created \in Int
            /\ now \in Int /\ now' \in Int
        BY <3>1, ClockFacts DEF ClockInv, RunsInv
      <4>2. \A i \in DOMAIN runs : runs[i].created <= now'
        BY <3>1, <4>1
      <4> QED
        BY <3>1, <4>2 DEF ClockInv, RunsInv, CronOf
    <3> QED
      BY <3>1, <3>2, ClockFacts DEF ClockInv, Covered, CronOf
  <2> QED
    BY <2>1, <2>2
<1>3. Clock!TypeOK'
  BY <1>1, <1>2 DEF ClockInv, Clock!TypeOK, RunRow
<1>4. StartsInv'
  BY <1>1, <1>2 DEF ClockInv, StartsInv, StartedPairs, CronOf
<1>5. Clock!NothingIsMissed'
  <2>1. \A k \in ended, d \in Clock!DueMinutes : d[2] = k => Covered(d[1], k)
    BY DEF ClockInv, Clock!NothingIsMissed, Covered
  <2>2. \A k \in ended, d \in Clock!DueMinutes : d[2] = k => Covered(d[1], k)'
    BY <1>2, <2>1
  <2> QED
    BY <1>1, <2>2 DEF Clock!NothingIsMissed, Covered, Clock!DueMinutes
<1>6. ASSUME NEW t \in Ticker PROVE TickInv(t)'
  <2>1. TickInv(t) /\ ticker'[t] = ticker[t]
    BY <1>1 DEF ClockInv
  <2>2. Busy(t)' => ticker'[t].moment <= now'
    BY <1>2, <2>1, ClockFacts DEF ClockInv, TickInv, Busy
  <2>3. LoneInv(t) => LoneInv(t)'
    <3>1. StartedPairs' = StartedPairs /\ \A u \in Ticker : Busy(u)' <=> Busy(u)
      BY <1>1 DEF StartedPairs, Busy
    <3> QED
      BY <1>2, <2>1, <3>1 DEF LoneInv
  <2>4. ListInv(t) => ListInv(t)'
    BY <1>2, <2>1 DEF ListInv, Clock!DueMinutes
  <2> QED
    BY <2>1, <2>2, <2>3, <2>4 DEF TickInv, Busy
<1> QED
  BY <1>2, <1>3, <1>4, <1>5, <1>6 DEF ClockInv

LEMMA SchedulerInvariant == Clock!Spec => []ClockInv
<1>1. Clock!Init => ClockInv
  <2> SUFFICES ASSUME Clock!Init PROVE ClockInv
    OBVIOUS
  <2>1. Clock!Min(Clock!Minute) \in Clock!Minute
    BY ClockAssumption DEF Clock!SchedulerAssumption, Clock!Min
  <2>2. Clock!Idle \in [at : {"idle", "due", "start"}, moment : Clock!Minute, left : SUBSET DOMAIN Loaded, alone : BOOLEAN]
    BY <2>1 DEF Clock!Idle
  <2>3. Clock!TypeOK
    BY ClockAssumption, <2>1, <2>2 DEF Clock!Init, Clock!TypeOK, Clock!SchedulerAssumption
  <2>4. RunsInv /\ StartsInv /\ Clock!NothingIsMissed
    BY DEF Clock!Init, RunsInv, StartsInv, Clock!NothingIsMissed, CronOf, StartedPairs
  <2>5. \A t \in Ticker : TickInv(t)
    BY DEF Clock!Init, TickInv, Busy, Clock!Idle
  <2> QED
    BY <2>3, <2>4, <2>5 DEF ClockInv
<1>2. ClockInv /\ [Clock!Next]_Clock!vars => ClockInv'
  BY ClockAssumption, TickStep, DueStep, StartStep, LeaveStep, QuietStep DEF Clock!Next
<1> QED
  BY <1>1, <1>2, PTL DEF Clock!Spec

\* What a tick that met no other starts was not started for its minute before.
LEMMA StartsOnce ==
  ASSUME Clock!SchedulerAssumption, ClockInv, [Clock!Next]_Clock!vars
  PROVE  [Clock!Once!Next]_starts
<1>1. ASSUME NEW t \in Ticker, Clock!Start(t) PROVE [Clock!Once!Next]_starts
  <2>1. PICK i \in ticker[t].left :
          /\ ticker[t].at = "start"
          /\ starts' = IF ticker[t].alone THEN Append(starts, <<Loaded[i], ticker[t].moment>>) ELSE starts
    BY <1>1 DEF Clock!Start, Clock!NextDue
  <2>2. <<Loaded[i], ticker[t].moment>> \in Clock!DueMinutes
    BY <2>1 DEF ClockInv, TickInv, ListInv
  <2>3. ticker[t].alone => <<Loaded[i], ticker[t].moment>> \notin {starts[k] : k \in DOMAIN starts}
    BY <2>1 DEF ClockInv, TickInv, LoneInv, Busy, StartedPairs
  <2> QED
    BY <2>1, <2>2, <2>3 DEF Clock!Once!Next, Clock!Once!Start
<1>2. ASSUME NEW t \in Ticker, Clock!Tick(t) \/ Clock!Due(t) \/ Clock!StartRaises(t) \/ Clock!EndTick(t) \/ Clock!Crash(t)
      PROVE  UNCHANGED starts
  BY <1>2 DEF Clock!Tick, Clock!Due, Clock!StartRaises, Clock!EndTick, Clock!Crash
<1>3. CASE Clock!StartByHand \/ Clock!Advance \/ UNCHANGED Clock!vars
  BY <1>3 DEF Clock!StartByHand, Clock!Advance, Clock!vars
<1> QED
  BY <1>1, <1>2, <1>3 DEF Clock!Next

-----------------------------------------------------------------------------
(* Scheduler: the theorems *)

\* Ticks that have met no other start a workflow at most once for a minute, and
\* only in minutes its expression names (runtime/scheduler.py): the scheduler
\* implements OnceAMinute.
THEOREM SchedulerStartsOnce == Clock!Spec => StartedOnce
<1>1. Clock!Init => Clock!Once!Init
  BY DEF Clock!Init, Clock!Once!Init
<1>2. ClockInv /\ [Clock!Next]_Clock!vars => [Clock!Once!Next]_starts
  BY ClockAssumption, StartsOnce
<1> QED
  BY <1>1, <1>2, SchedulerInvariant, PTL DEF Clock!Spec, StartedOnce, Clock!StartedOnce, Clock!Once!Spec

\* A tick that comes to its end leaves no workflow of its minute without a run
\* (WorkflowScheduler.tick), whoever else ticks, starts runs by hand or dies.
THEOREM SchedulerMissesNothing == Clock!Spec => []NothingIsMissed
<1>1. ClockInv => NothingIsMissed
  BY DEF ClockInv, NothingIsMissed
<1> QED
  BY <1>1, SchedulerInvariant, PTL

-----------------------------------------------------------------------------
(* The least of some numbers *)

LEMMA LeastNumber ==
  ASSUME NEW set, set \subseteq Nat, set # {}
  PROVE  \E k \in set : \A j \in set : k <= j
<1>1. \E k \in set : \A j \in set : ~(<<j, k>> \in OpToRel(<, Nat))
  BY NatLessThanWellFounded, WFMin
<1>2. PICK k \in set : \A j \in set : ~(<<j, k>> \in OpToRel(<, Nat))
  BY <1>1
<1>3. ASSUME NEW j \in set
      PROVE  k <= j
  <2>1. j \in Nat /\ k \in Nat
    OBVIOUS
  <2>2. ~(<<j, k>> \in OpToRel(<, Nat))
    BY <1>2
  <2>3. ~(j < k)
    BY <2>1, <2>2 DEF OpToRel
  <2> QED
    BY <2>1, <2>3
<1> QED
  BY <1>3

-----------------------------------------------------------------------------
(* Sequences *)

LEMMA Retyped ==
  ASSUME NEW set, NEW other, NEW q \in Seq(set), \A i \in 1..Len(q) : q[i] \in other
  PROVE  q \in Seq(other)
<1>1. Len(q) \in Nat /\ DOMAIN q = 1..Len(q) /\ q = [i \in 1..Len(q) |-> q[i]]
  OBVIOUS
<1>2. q \in [1..Len(q) -> other]
  BY <1>1
<1> QED
  BY <1>1, <1>2

LEMMA Longer ==
  ASSUME NEW set, NEW q \in Seq(set), NEW e \in set
  PROVE  /\ Append(q, e) \in Seq(set) /\ Len(q) \in Nat /\ Len(Append(q, e)) = Len(q) + 1 /\ Len(Append(q, e)) \in Nat
         /\ DOMAIN q = 1..Len(q) /\ DOMAIN Append(q, e) = 1..(Len(q) + 1) /\ DOMAIN q \subseteq DOMAIN Append(q, e)
         /\ \A i \in DOMAIN q : Append(q, e)[i] = q[i] /\ q[i] \in set
         /\ Append(q, e)[Len(q) + 1] = e /\ Len(q) + 1 \in DOMAIN Append(q, e) /\ Len(q) + 1 \notin DOMAIN q
         /\ \A i \in DOMAIN Append(q, e) : i \in DOMAIN q \/ i = Len(q) + 1
OBVIOUS

-----------------------------------------------------------------------------
(* Cardinalities *)

LEMMA CountMore ==
  ASSUME NEW set, NEW x, IsFiniteSet(set), Cardinality(set) \in Nat
  PROVE  /\ IsFiniteSet(set \cup {x}) /\ Cardinality(set \cup {x}) \in Nat /\ Cardinality(set \cup {x}) <= Cardinality(set) + 1
<1>1. IsFiniteSet(set \cup {x})
  BY FS_AddElement
<1>2. Cardinality(set \cup {x}) = IF x \in set THEN Cardinality(set) ELSE Cardinality(set) + 1
  BY FS_AddElement
<1> QED
  BY <1>1, <1>2

LEMMA CountLess ==
  ASSUME NEW set, NEW x \in set, IsFiniteSet(set), Cardinality(set) \in Nat
  PROVE  IsFiniteSet(set \ {x}) /\ Cardinality(set \ {x}) = Cardinality(set) - 1
<1>1. IsFiniteSet(set \ {x})
  BY FS_RemoveElement
<1>2. Cardinality(set \ {x}) = IF x \in set THEN Cardinality(set) - 1 ELSE Cardinality(set)
  BY FS_RemoveElement
<1> QED
  BY <1>1, <1>2

LEMMA Numbered ==
  ASSUME NEW max \in Nat
  PROVE  IsFiniteSet(1..max) /\ Cardinality(1..max) = max
<1>1. IsFiniteSet(1..max)
  BY FS_Interval
<1>2. Cardinality(1..max) = IF 1 > max THEN 0 ELSE max - 1 + 1
  BY FS_Interval
<1> QED
  BY <1>1, <1>2

\* FiniteSets as DbTriggers knows it.
LEMMA SameFinite == \A set : DB!IsFiniteSet(set) <=> IsFiniteSet(set)
BY DEF DB!IsFiniteSet, IsFiniteSet

LEMMA SameCount == \A set : DB!Cardinality(set) = Cardinality(set)
BY DEF DB!Cardinality, Cardinality

-----------------------------------------------------------------------------
(* DbTriggers: the inductive invariant *)

Working(c) == caller[c].at # "idle"
Published == DB!Range(published)
Gap == (installed \ tableRows) \cup (tableRows \ installed)

\* Until two have overlapped, one is at work.
AtWorkInv == ~shared => \A c, d \in Caller : c # d => ~Working(c) \/ ~Working(d)

KnownInv == /\ DOMAIN queue \subseteq 1..raised /\ Published \subseteq 1..raised
            /\ \A c \in Caller : caller[c].at \in DB!Draining => caller[c].todo \subseteq 1..raised

\* What is marked, or is about to be, was published.
SentInv == /\ \A id \in DOMAIN queue : queue[id].processed => id \in Published
           /\ \A c \in Caller : caller[c].at \in {"mark", "audit"} => DB!EventOf(c) \in Published

\* What a drain has still to publish waits, and is the first of what does.
Rest(c) == IF caller[c].at = "audit" THEN caller[c].todo \ {DB!EventOf(c)} ELSE caller[c].todo
DrainInv ==
  ~shared => \A c \in Caller :
    caller[c].at \in DB!Draining => /\ Rest(c) \subseteq DB!Waiting
                                    /\ \A id \in Rest(c), w \in DB!Waiting \ Rest(c) : id < w

\* What was published is not after anything that waits.
OrderInv == ~shared => /\ \A i, j \in DOMAIN published : i < j => published[i] <= published[j]
                       /\ \A id \in Published, w \in DB!Waiting : id <= w

\* What was published twice was published by a process that died before it
\* marked it: what is published and waits, unless it is being marked, will be.
Twice == IF Published \cap DB!Waiting = {} THEN 0 ELSE 1
Marking == IF \E c \in Caller : caller[c].at = "mark" THEN 1 ELSE 0
CountInv == ~shared => Len(published) + Twice <= Cardinality(Published) + deaths + Marking

\* The trigger that is in one place and not yet in the other, or no longer.
Halfway == {"save", "clear", "delete"}
GapInv ==
  ~shared => /\ (\A c \in Caller : caller[c].at \notin Halfway) => Cardinality(Gap) <= deaths
             /\ \A c \in Caller : caller[c].at \in Halfway =>
                  /\ Cardinality(Gap \ {DB!TriggerOf(c)}) <= deaths
                  /\ DB!TriggerOf(c) \in installed <=> caller[c].at = "save"

DbInv == DB!TypeOK /\ AtWorkInv /\ KnownInv /\ SentInv /\ DrainInv /\ OrderInv /\ CountInv /\ GapInv /\ DB!NothingIsLost

LEMMA Elements == ASSUME NEW set, NEW q \in Seq(set) PROVE \A i \in DOMAIN q : q[i] \in set
OBVIOUS

LEMMA DbFacts ==
  ASSUME DB!DbAssumption, DB!TypeOK
  PROVE  /\ IsFiniteSet(installed) /\ IsFiniteSet(tableRows) /\ installed \subseteq DbTrigger /\ tableRows \subseteq DbTrigger
         /\ DOMAIN queue \subseteq 1..MaxChanges /\ \A id \in DOMAIN queue : queue[id] \in DB!Event
         /\ published \in Seq(1..MaxChanges) /\ Published \subseteq 1..MaxChanges /\ IsFiniteSet(1..MaxChanges)
         /\ DB!Waiting \subseteq DOMAIN queue /\ DB!Waiting \subseteq Nat
         /\ raised \in Nat /\ deaths \in Nat /\ raised <= MaxChanges /\ MaxChanges \in Nat /\ shared \in BOOLEAN
         /\ DOMAIN caller = Caller /\ Limit \in Nat \ {0}
<1>0. /\ IsFiniteSet(DbTrigger) /\ MaxChanges \in Nat /\ MaxDeaths \in Nat /\ Limit \in Nat \ {0}
      /\ installed \subseteq DbTrigger /\ tableRows \subseteq DbTrigger
  BY SameFinite DEF DB!DbAssumption, DB!TypeOK
<1>1. IsFiniteSet(installed) /\ IsFiniteSet(tableRows)
  BY <1>0, FS_Subset
<1>2. DOMAIN queue \subseteq 1..MaxChanges /\ \A id \in DOMAIN queue : queue[id] \in DB!Event
  <2>1. PICK ids \in SUBSET (1..MaxChanges) : queue \in [ids -> DB!Event]
    BY DEF DB!TypeOK
  <2> QED
    BY <2>1
<1>3. published \in Seq(1..MaxChanges) /\ Published \subseteq 1..MaxChanges
  <2>1. published \in Seq(1..MaxChanges)
    BY DEF DB!TypeOK
  <2>2. \A i \in DOMAIN published : published[i] \in 1..MaxChanges
    BY <2>1, Elements
  <2> QED
    BY <2>1, <2>2 DEF Published, DB!Range
<1>4. IsFiniteSet(1..MaxChanges)
  BY <1>0, FS_Interval
<1>5. DB!Waiting \subseteq DOMAIN queue /\ DB!Waiting \subseteq Nat
  BY <1>0, <1>2 DEF DB!Waiting
<1>6. raised \in Nat /\ deaths \in Nat /\ raised <= MaxChanges /\ shared \in BOOLEAN /\ DOMAIN caller = Caller
  BY <1>0 DEF DB!TypeOK
<1> QED
  BY <1>0, <1>1, <1>2, <1>3, <1>4, <1>5, <1>6

LEMMA Least ==
  ASSUME NEW set, set \subseteq Nat, set # {}
  PROVE  DB!Min(set) \in set /\ DB!Min(set) \in Nat /\ \A x \in set : DB!Min(set) <= x
BY LeastNumber DEF DB!Min

\* Where a caller may be, and what it has in its hands.
LEMMA CallerKinds ==
  ASSUME DB!DbAssumption, DB!TypeOK, NEW c \in Caller
  PROVE  /\ caller[c].at \in DB!Draining \cup DB!Placing \cup {"idle"}
         /\ caller[c].at = "idle" => caller[c] = DB!Idle
         /\ caller[c].at \in DB!Draining => /\ caller[c].todo # {} /\ caller[c].todo \subseteq 1..MaxChanges
                                            /\ DB!EventOf(c) \in caller[c].todo /\ DB!EventOf(c) \in Nat
                                            /\ \A id \in caller[c].todo : DB!EventOf(c) <= id
         /\ caller[c].at \in DB!Placing => /\ caller[c].todo # {} /\ caller[c].todo \subseteq DbTrigger
                                           /\ DB!TriggerOf(c) \in caller[c].todo /\ DB!TriggerOf(c) \in DbTrigger
<1>1. \/ caller[c] = DB!Idle
      \/ caller[c].at \in DB!Draining /\ caller[c].todo # {} /\ caller[c].todo \subseteq 1..MaxChanges
      \/ caller[c].at \in DB!Placing /\ caller[c].todo # {} /\ caller[c].todo \subseteq DbTrigger
  BY DEF DB!TypeOK
<1>2. DB!Idle.at = "idle" /\ "idle" \notin DB!Draining \cup DB!Placing /\ DB!Draining \cap DB!Placing = {}
  BY DEF DB!Idle, DB!Draining, DB!Placing
<1>3. MaxChanges \in Nat
  BY DbFacts
<1>4. ASSUME caller[c].todo # {}, caller[c].todo \subseteq 1..MaxChanges
      PROVE  DB!EventOf(c) \in caller[c].todo /\ DB!EventOf(c) \in Nat /\ \A id \in caller[c].todo : DB!EventOf(c) <= id
  <2>1. caller[c].todo \subseteq Nat
    BY <1>3, <1>4
  <2> QED
    BY <1>4, <2>1, Least DEF DB!EventOf
<1>5. ASSUME caller[c].todo # {} PROVE DB!TriggerOf(c) \in caller[c].todo
  BY <1>5 DEF DB!TriggerOf
<1> QED
  BY <1>1, <1>2, <1>4, <1>5

LEMMA Moved ==
  ASSUME NEW c \in Caller, DOMAIN caller = Caller, NEW place, NEW list, DB!Step(c, place, list)
  PROVE  /\ DOMAIN caller' = Caller /\ caller'[c].at = place /\ caller'[c].todo = list /\ caller'[c] = [at |-> place, todo |-> list]
         /\ \A d \in Caller : d # c => caller'[d] = caller[d]
BY DEF DB!Step

LEMMA OthersAreIdle ==
  ASSUME AtWorkInv, NEW c \in Caller, Working(c), ~shared
  PROVE  \A d \in Caller : d # c => ~Working(d)
BY DEF AtWorkInv

\* Who was at work goes on, or stops.
LEMMA AtWorkStays ==
  ASSUME AtWorkInv, NEW c \in Caller, Working(c), shared' = shared, \A d \in Caller : d # c => caller'[d] = caller[d]
  PROVE  AtWorkInv'
BY DEF AtWorkInv, Working

\* Who enters while another is at work has overlapped it.
LEMMA Entered ==
  ASSUME DB!DbAssumption, DB!TypeOK, AtWorkInv, NEW c \in Caller, DB!Enter(c), \A d \in Caller : d # c => caller'[d] = caller[d]
  PROVE  /\ AtWorkInv' /\ ~Working(c) /\ deaths' = deaths /\ (shared => shared') /\ shared' \in BOOLEAN /\ calls' \in 0..MaxCalls
         /\ ~shared' => \A d \in Caller : ~Working(d)
<1>1. ~Working(c) /\ deaths' = deaths /\ (shared' <=> shared \/ \E d \in Caller \ {c} : Working(d)) /\ shared' \in BOOLEAN
  BY DbFacts DEF DB!Enter, Working
<1>2. calls' \in 0..MaxCalls
  BY DEF DB!Enter, DB!TypeOK, DB!DbAssumption
<1> QED
  BY <1>1, <1>2 DEF AtWorkInv, Working

\* What has to do with events is as before where nobody touches them.
EventsInv == KnownInv /\ SentInv /\ DrainInv /\ OrderInv /\ CountInv /\ DB!NothingIsLost

LEMMA EventsStay ==
  ASSUME EventsInv, NEW c \in Caller, UNCHANGED <<queue, published, raised, dropped, deaths>>, shared => shared',
         caller[c].at \notin DB!Draining, caller'[c].at \notin DB!Draining, \A d \in Caller : d # c => caller'[d] = caller[d]
  PROVE  EventsInv'
<1>0. DB!Waiting' = DB!Waiting /\ Published' = Published /\ Twice' = Twice
  BY DEF DB!Waiting, Published, Twice
<1>1. \A d \in Caller : caller'[d].at \in DB!Draining => caller[d].at \in DB!Draining /\ caller'[d] = caller[d]
  OBVIOUS
<1>2. \A d \in Caller : caller[d].at \in DB!Draining => caller'[d] = caller[d]
  OBVIOUS
<1>3. KnownInv'
  BY <1>0, <1>1 DEF EventsInv, KnownInv
<1>4. SentInv'
  BY <1>0, <1>1 DEF EventsInv, SentInv, DB!EventOf, DB!Draining
<1>5. DrainInv'
  BY <1>0, <1>1 DEF EventsInv, DrainInv, Rest, DB!EventOf
<1>6. OrderInv'
  BY <1>0 DEF EventsInv, OrderInv
<1>7. Marking' = Marking
  BY <1>1, <1>2 DEF Marking, DB!Draining
<1>8. CountInv'
  BY <1>0, <1>7 DEF EventsInv, CountInv
<1>9. DB!NothingIsLost'
  BY <1>0 DEF EventsInv, DB!NothingIsLost, Published
<1> QED
  BY <1>3, <1>4, <1>5, <1>6, <1>8, <1>9 DEF EventsInv

LEMMA GapStays ==
  ASSUME GapInv, NEW c \in Caller, UNCHANGED <<installed, tableRows, deaths>>, shared => shared',
         caller[c].at \notin Halfway, caller'[c].at \notin Halfway, \A d \in Caller : d # c => caller'[d] = caller[d]
  PROVE  GapInv'
<1>1. Gap' = Gap
  BY DEF Gap
<1>2. \A d \in Caller : caller'[d].at \in Halfway => caller[d].at \in Halfway /\ caller'[d] = caller[d]
  OBVIOUS
<1>3. \A d \in Caller : caller[d].at \in Halfway => caller'[d] = caller[d]
  OBVIOUS
<1>4. \A d \in Caller : caller'[d].at \in Halfway => DB!TriggerOf(d)' = DB!TriggerOf(d)
  BY <1>2 DEF DB!TriggerOf
<1>5. (\A d \in Caller : caller'[d].at \notin Halfway) => \A d \in Caller : caller[d].at \notin Halfway
  BY <1>3
<1> SUFFICES ASSUME ~shared
             PROVE  /\ (\A d \in Caller : caller'[d].at \notin Halfway) => Cardinality(Gap) <= deaths
                    /\ \A d \in Caller : caller'[d].at \in Halfway =>
                         /\ Cardinality(Gap \ {DB!TriggerOf(d)'}) <= deaths
                         /\ DB!TriggerOf(d)' \in installed <=> caller'[d].at = "save"
  BY <1>1 DEF GapInv
<1>6. \A d \in Caller : caller[d].at \in Halfway =>
        /\ Cardinality(Gap \ {DB!TriggerOf(d)}) <= deaths
        /\ DB!TriggerOf(d) \in installed <=> caller[d].at = "save"
  BY DEF GapInv
<1>7. (\A d \in Caller : caller[d].at \notin Halfway) => Cardinality(Gap) <= deaths
  BY DEF GapInv
<1> QED
  BY <1>2, <1>4, <1>5, <1>6, <1>7

-----------------------------------------------------------------------------
(* DbTriggers: every step keeps it *)

Kind(k) == \/ k = DB!Idle
           \/ k.at \in DB!Draining /\ k.todo # {} /\ k.todo \subseteq 1..MaxChanges
           \/ k.at \in DB!Placing /\ k.todo # {} /\ k.todo \subseteq DbTrigger

LEMMA CallersTyped ==
  ASSUME DB!TypeOK, NEW c \in Caller, DOMAIN caller' = Caller, Kind(caller'[c]), \A d \in Caller : d # c => caller'[d] = caller[d]
  PROVE  \A d \in Caller : Kind(caller'[d])
<1>1. \A d \in Caller : Kind(caller[d])
  BY DEF DB!TypeOK, Kind
<1> QED
  BY <1>1

\* The types, where only who does what has changed.
LEMMA DbTyped ==
  ASSUME DB!TypeOK, NEW c \in Caller, DOMAIN caller' = Caller, Kind(caller'[c]), \A d \in Caller : d # c => caller'[d] = caller[d],
         tableRows' \subseteq DbTrigger, installed' \subseteq DbTrigger, UNCHANGED <<queue, published, raised, dropped>>,
         shared' \in BOOLEAN, calls' \in 0..MaxCalls, deaths' \in 0..MaxDeaths
  PROVE  DB!TypeOK'
<1>1. \A d \in Caller : Kind(caller'[d])
  BY CallersTyped
<1> QED
  BY <1>1 DEF DB!TypeOK, Kind

LEMMA DbBounds == DB!TypeOK => calls \in 0..MaxCalls /\ deaths \in 0..MaxDeaths /\ shared \in BOOLEAN
BY DEF DB!TypeOK

\* What nobody but c does is kept where c leaves the tables alone.
LEMMA Placed ==
  ASSUME DB!DbAssumption, DbInv, NEW c \in Caller, DB!Enter(c), NEW place, NEW list, DB!Step(c, place, list),
         UNCHANGED <<tableRows, installed, queue, published, raised, dropped>>,
         place \in {"create", "drop"}, list # {}, list \subseteq DbTrigger
  PROVE  DbInv'
<1>0. DB!TypeOK /\ AtWorkInv /\ EventsInv /\ GapInv
  BY DEF DbInv, EventsInv
<1>1. /\ DOMAIN caller' = Caller /\ caller'[c].at = place /\ caller'[c].todo = list
      /\ \A d \in Caller : d # c => caller'[d] = caller[d]
  BY <1>0, DbFacts, Moved
<1>2. /\ AtWorkInv' /\ ~Working(c) /\ deaths' = deaths /\ (shared => shared') /\ shared' \in BOOLEAN /\ calls' \in 0..MaxCalls
  BY <1>0, <1>1, Entered
<1>3. place \in DB!Placing /\ place \notin DB!Draining /\ place \notin Halfway
  BY DEF DB!Placing, DB!Draining, Halfway
<1>4. caller[c].at = "idle" /\ caller[c].at \notin DB!Draining /\ caller[c].at \notin Halfway
  BY <1>2 DEF Working, DB!Draining, Halfway
<1>5. DB!TypeOK'
  <2>1. Kind(caller'[c])
    BY <1>1, <1>3 DEF Kind
  <2>2. tableRows' \subseteq DbTrigger /\ installed' \subseteq DbTrigger /\ deaths' \in 0..MaxDeaths
    BY <1>0, <1>2, DbFacts, DbBounds
  <2> QED
    BY <1>0, <1>1, <1>2, <2>1, <2>2, DbTyped
<1>6. EventsInv'
  BY <1>0, <1>1, <1>2, <1>3, <1>4, EventsStay
<1>7. GapInv'
  BY <1>0, <1>1, <1>2, <1>3, <1>4, GapStays
<1> QED
  BY <1>2, <1>5, <1>6, <1>7 DEF DbInv, EventsInv

LEMMA InstallOK == ASSUME DB!DbAssumption, DbInv, NEW c \in Caller, DB!Install(c) PROVE DbInv'
<1>1. PICK t \in DbTrigger \ tableRows : DB!Step(c, "create", {t})
  BY DEF DB!Install
<1>2. DB!Enter(c) /\ UNCHANGED <<tableRows, installed, queue, published, raised, dropped>>
  BY DEF DB!Install, DB!ghosts
<1> QED
  BY <1>1, <1>2, Placed

LEMMA BootOK == ASSUME DB!DbAssumption, DbInv, NEW c \in Caller, DB!Boot(c) PROVE DbInv'
<1>1. DB!Enter(c) /\ UNCHANGED <<tableRows, installed, queue, published, raised, dropped>> /\ DB!Step(c, "create", tableRows) /\ tableRows # {}
  BY DEF DB!Boot, DB!ghosts
<1>2. tableRows \subseteq DbTrigger
  BY DbFacts DEF DbInv
<1> QED
  BY <1>1, <1>2, Placed

LEMMA UninstallOK == ASSUME DB!DbAssumption, DbInv, NEW c \in Caller, DB!Uninstall(c) PROVE DbInv'
<1>1. PICK t \in tableRows : DB!Step(c, "drop", {t})
  BY DEF DB!Uninstall
<1>2. DB!Enter(c) /\ UNCHANGED <<tableRows, installed, queue, published, raised, dropped>>
  BY DEF DB!Uninstall, DB!ghosts
<1>3. tableRows \subseteq DbTrigger
  BY DbFacts DEF DbInv
<1> QED
  BY <1>1, <1>2, <1>3, Placed

\* The steps of who is placing or removing a trigger: the events are as they were.
LEMMA Placing ==
  ASSUME DB!DbAssumption, DbInv, NEW c \in Caller, caller[c].at \in DB!Placing, NEW place, NEW list, DB!Step(c, place, list),
         UNCHANGED <<queue, published, raised, dropped, shared, calls, deaths>>,
         tableRows' \subseteq DbTrigger, installed' \subseteq DbTrigger,
         \/ place \in DB!Placing /\ list # {} /\ list \subseteq DbTrigger
         \/ place = "idle" /\ list = {},
         GapInv'
  PROVE  DbInv'
<1>0. DB!TypeOK /\ AtWorkInv /\ EventsInv /\ GapInv
  BY DEF DbInv, EventsInv
<1>1. /\ DOMAIN caller' = Caller /\ caller'[c].at = place /\ caller'[c].todo = list /\ caller'[c] = [at |-> place, todo |-> list]
      /\ \A d \in Caller : d # c => caller'[d] = caller[d]
  BY <1>0, DbFacts, Moved
<1>2. Kind(caller'[c])
  BY <1>1 DEF Kind, DB!Idle
<1>3. DB!TypeOK'
  <2>1. shared' \in BOOLEAN /\ calls' \in 0..MaxCalls /\ deaths' \in 0..MaxDeaths
    BY <1>0, DbBounds
  <2> QED
    BY <1>0, <1>1, <1>2, <2>1, DbTyped
<1>4. Working(c) /\ caller[c].at \notin DB!Draining /\ place \notin DB!Draining
  BY DEF Working, DB!Draining, DB!Placing
<1>5. AtWorkInv'
  BY <1>0, <1>1, <1>4, AtWorkStays
<1>6. EventsInv'
  BY <1>0, <1>1, <1>4, EventsStay
<1> QED
  BY <1>3, <1>5, <1>6 DEF DbInv, EventsInv

\* The others do nothing while no two overlap.
LEMMA AloneAtWork ==
  ASSUME DbInv, NEW c \in Caller, Working(c), ~shared
  PROVE  \A d \in Caller : d # c => caller[d].at = "idle"
BY OthersAreIdle DEF DbInv, Working

LEMMA GapFinite ==
  ASSUME DB!DbAssumption, DB!TypeOK
  PROVE  /\ IsFiniteSet(Gap) /\ Cardinality(Gap) \in Nat
         /\ \A t : IsFiniteSet(Gap \ {t}) /\ Cardinality(Gap \ {t}) \in Nat /\ Cardinality(Gap \ {t}) <= Cardinality(Gap)
                   /\ Cardinality(Gap) <= Cardinality(Gap \ {t}) + 1
<1>1. IsFiniteSet(Gap)
  <2>1. Gap \subseteq DbTrigger /\ IsFiniteSet(DbTrigger)
    BY DbFacts, SameFinite DEF Gap, DB!DbAssumption
  <2> QED
    BY <2>1, FS_Subset
<1>2. Cardinality(Gap) \in Nat
  BY <1>1, FS_CardinalityType
<1>3. ASSUME NEW t
      PROVE  /\ IsFiniteSet(Gap \ {t}) /\ Cardinality(Gap \ {t}) \in Nat /\ Cardinality(Gap \ {t}) <= Cardinality(Gap)
             /\ Cardinality(Gap) <= Cardinality(Gap \ {t}) + 1
  <2>1. IsFiniteSet(Gap \ {t})
    BY <1>1, FS_Subset
  <2>2. Cardinality(Gap \ {t}) = IF t \in Gap THEN Cardinality(Gap) - 1 ELSE Cardinality(Gap)
    BY <1>1, FS_RemoveElement
  <2>3. Cardinality(Gap \ {t}) \in Nat
    BY <2>1, FS_CardinalityType
  <2> QED
    BY <1>2, <2>1, <2>2, <2>3
<1> QED
  BY <1>1, <1>2, <1>3

LEMMA CreateTriggerOK == ASSUME DB!DbAssumption, DbInv, NEW c \in Caller, DB!CreateTrigger(c) PROVE DbInv'
<1> DEFINE h == DB!TriggerOf(c)
<1>0. DB!TypeOK /\ GapInv
  BY DEF DbInv
<1>1. /\ caller[c].at = "create" /\ installed' = installed \cup {h} /\ DB!Step(c, "save", caller[c].todo)
      /\ UNCHANGED <<tableRows, queue, published, raised, dropped, shared, calls, deaths>>
  BY DEF DB!CreateTrigger, DB!ghosts, DB!bounds
<1>2. caller[c].at \in DB!Placing /\ "save" \in DB!Placing /\ Working(c)
  BY <1>1 DEF DB!Placing, Working
<1>3. caller[c].todo # {} /\ caller[c].todo \subseteq DbTrigger /\ h \in DbTrigger
  BY <1>0, <1>2, CallerKinds
<1>4. tableRows' \subseteq DbTrigger /\ installed' \subseteq DbTrigger
  BY <1>0, <1>1, <1>3, DbFacts
<1>5. /\ caller'[c].at = "save" /\ caller'[c].todo = caller[c].todo
      /\ \A d \in Caller : d # c => caller'[d] = caller[d]
  BY <1>0, <1>1, DbFacts, Moved
<1>6. GapInv'
  <2> SUFFICES ASSUME ~shared
               PROVE  /\ (\A d \in Caller : caller'[d].at \notin Halfway) => Cardinality(Gap') <= deaths'
                      /\ \A d \in Caller : caller'[d].at \in Halfway =>
                           /\ Cardinality(Gap' \ {DB!TriggerOf(d)'}) <= deaths'
                           /\ DB!TriggerOf(d)' \in installed' <=> caller'[d].at = "save"
    BY <1>1 DEF GapInv
  <2>1. \A d \in Caller : d # c => caller[d].at = "idle"
    BY <1>2, AloneAtWork
  <2>2. \A d \in Caller : caller[d].at \notin Halfway
    BY <1>1, <2>1 DEF Halfway
  <2>3. Cardinality(Gap) <= deaths
    BY <1>0, <2>2 DEF GapInv
  <2>4. DB!TriggerOf(c)' = h
    BY <1>5 DEF DB!TriggerOf
  <2>5. Gap' \ {h} = Gap \ {h}
    BY <1>1 DEF Gap
  <2>6. Cardinality(Gap \ {h}) <= deaths
    <3>1. Cardinality(Gap \ {h}) <= Cardinality(Gap) /\ Cardinality(Gap) \in Nat /\ Cardinality(Gap \ {h}) \in Nat
      BY <1>0, GapFinite
    <3> QED
      BY <1>0, <2>3, <3>1, DbFacts
  <2>7. \A d \in Caller : caller'[d].at \in Halfway => d = c
    BY <1>5, <2>2
  <2>8. "save" \in Halfway
    BY DEF Halfway
  <2> QED
    BY <1>1, <1>5, <2>4, <2>5, <2>6, <2>7, <2>8
<1> HIDE DEF h
<1> QED
  BY <1>1, <1>2, <1>3, <1>4, <1>6, Placing

LEMMA DropTriggerOK == ASSUME DB!DbAssumption, DbInv, NEW c \in Caller, DB!DropTrigger(c) PROVE DbInv'
<1> DEFINE h == DB!TriggerOf(c)
<1>0. DB!TypeOK /\ GapInv
  BY DEF DbInv
<1>1. /\ caller[c].at = "drop" /\ installed' = installed \ {h} /\ DB!Step(c, "clear", caller[c].todo)
      /\ UNCHANGED <<tableRows, queue, published, raised, dropped, shared, calls, deaths>>
  BY DEF DB!DropTrigger, DB!ghosts, DB!bounds
<1>2. caller[c].at \in DB!Placing /\ "clear" \in DB!Placing /\ Working(c)
  BY <1>1 DEF DB!Placing, Working
<1>3. caller[c].todo # {} /\ caller[c].todo \subseteq DbTrigger /\ h \in DbTrigger
  BY <1>0, <1>2, CallerKinds
<1>4. tableRows' \subseteq DbTrigger /\ installed' \subseteq DbTrigger
  BY <1>0, <1>1, <1>3, DbFacts
<1>5. /\ caller'[c].at = "clear" /\ caller'[c].todo = caller[c].todo
      /\ \A d \in Caller : d # c => caller'[d] = caller[d]
  BY <1>0, <1>1, DbFacts, Moved
<1>6. GapInv'
  <2> SUFFICES ASSUME ~shared
               PROVE  /\ (\A d \in Caller : caller'[d].at \notin Halfway) => Cardinality(Gap') <= deaths'
                      /\ \A d \in Caller : caller'[d].at \in Halfway =>
                           /\ Cardinality(Gap' \ {DB!TriggerOf(d)'}) <= deaths'
                           /\ DB!TriggerOf(d)' \in installed' <=> caller'[d].at = "save"
    BY <1>1 DEF GapInv
  <2>1. \A d \in Caller : d # c => caller[d].at = "idle"
    BY <1>2, AloneAtWork
  <2>2. \A d \in Caller : caller[d].at \notin Halfway
    BY <1>1, <2>1 DEF Halfway
  <2>3. Cardinality(Gap) <= deaths
    BY <1>0, <2>2 DEF GapInv
  <2>4. DB!TriggerOf(c)' = h
    BY <1>5 DEF DB!TriggerOf
  <2>5. Gap' \ {h} = Gap \ {h}
    BY <1>1 DEF Gap
  <2>6. Cardinality(Gap \ {h}) <= deaths
    <3>1. Cardinality(Gap \ {h}) <= Cardinality(Gap) /\ Cardinality(Gap) \in Nat /\ Cardinality(Gap \ {h}) \in Nat
      BY <1>0, GapFinite
    <3> QED
      BY <1>0, <2>3, <3>1, DbFacts
  <2>7. \A d \in Caller : caller'[d].at \in Halfway => d = c
    BY <1>5, <2>2
  <2>8. "clear" \in Halfway /\ h \notin installed'
    BY <1>1 DEF Halfway
  <2> QED
    BY <1>1, <1>5, <2>4, <2>5, <2>6, <2>7, <2>8
<1> HIDE DEF h
<1> QED
  BY <1>1, <1>2, <1>3, <1>4, <1>6, Placing

\* The gap is closed by who opened it.
LEMMA GapCloses ==
  ASSUME DB!DbAssumption, DbInv, NEW c \in Caller, caller[c].at \in Halfway, caller'[c].at \notin Halfway,
         \A d \in Caller : d # c => caller'[d] = caller[d], UNCHANGED <<installed, shared, deaths>>,
         Gap' = Gap \ {DB!TriggerOf(c)} \/ shared
  PROVE  GapInv'
<1> SUFFICES ASSUME ~shared
             PROVE  /\ Cardinality(Gap') <= deaths'
                    /\ \A d \in Caller : caller'[d].at \notin Halfway
  BY DEF GapInv
<1>1. Working(c)
  BY DEF Working, Halfway
<1>2. \A d \in Caller : d # c => caller[d].at = "idle"
  BY <1>1, AloneAtWork
<1>3. Cardinality(Gap \ {DB!TriggerOf(c)}) <= deaths
  BY DEF DbInv, GapInv
<1>4. \A d \in Caller : caller'[d].at \notin Halfway
  BY <1>2 DEF Halfway
<1> QED
  BY <1>3, <1>4

LEMMA SaveTriggerOK == ASSUME DB!DbAssumption, DbInv, NEW c \in Caller, DB!SaveTrigger(c) PROVE DbInv'
<1> DEFINE h == DB!TriggerOf(c)
           rest == caller[c].todo \ {h}
           place == IF rest = {} THEN "idle" ELSE "create"
<1>0. DB!TypeOK /\ GapInv
  BY DEF DbInv
<1>1. /\ caller[c].at = "save" /\ tableRows' = tableRows \cup {h} /\ DB!Step(c, place, rest)
      /\ UNCHANGED <<installed, queue, published, raised, dropped, shared, calls, deaths>>
  BY DEF DB!SaveTrigger, DB!Further, DB!ghosts, DB!bounds
<1>2. caller[c].at \in DB!Placing /\ Working(c) /\ caller[c].at \in Halfway /\ place \notin Halfway
  BY <1>1 DEF DB!Placing, Working, Halfway
<1>3. caller[c].todo \subseteq DbTrigger /\ h \in DbTrigger
  BY <1>0, <1>2, CallerKinds
<1>4. tableRows' \subseteq DbTrigger /\ installed' \subseteq DbTrigger
  BY <1>0, <1>1, <1>3, DbFacts
<1>5. caller'[c].at = place /\ \A d \in Caller : d # c => caller'[d] = caller[d]
  BY <1>0, <1>1, DbFacts, Moved
<1>6. ~shared => h \in installed
  BY <1>0, <1>1, <1>2 DEF GapInv
<1>7. Gap' = Gap \ {h} \/ shared
  BY <1>1, <1>6 DEF Gap
<1>8. \/ place \in DB!Placing /\ rest # {} /\ rest \subseteq DbTrigger
      \/ place = "idle" /\ rest = {}
  BY <1>3 DEF DB!Placing
<1> HIDE DEF place, rest
<1>9. GapInv'
  BY <1>1, <1>2, <1>5, <1>7, GapCloses
<1> QED
  BY <1>1, <1>2, <1>4, <1>8, <1>9, Placing

LEMMA DeleteRowOK == ASSUME DB!DbAssumption, DbInv, NEW c \in Caller, DB!DeleteRow(c) PROVE DbInv'
<1> DEFINE h == DB!TriggerOf(c)
<1>0. DB!TypeOK /\ GapInv
  BY DEF DbInv
<1>1. /\ caller[c].at = "delete" /\ tableRows' = tableRows \ {h} /\ DB!Step(c, "idle", {})
      /\ UNCHANGED <<installed, queue, published, raised, dropped, shared, calls, deaths>>
  BY DEF DB!DeleteRow, DB!ghosts, DB!bounds
<1>2. caller[c].at \in DB!Placing /\ caller[c].at \in Halfway /\ "idle" \notin Halfway
  BY <1>1 DEF DB!Placing, Halfway
<1>4. tableRows' \subseteq DbTrigger /\ installed' \subseteq DbTrigger
  BY <1>0, <1>1, DbFacts
<1>5. caller'[c].at = "idle" /\ \A d \in Caller : d # c => caller'[d] = caller[d]
  BY <1>0, <1>1, DbFacts, Moved
<1>6. ~shared => h \notin installed
  BY <1>0, <1>1, <1>2 DEF GapInv
<1>7. Gap' = Gap \ {h} \/ shared
  BY <1>1, <1>6 DEF Gap
<1>9. GapInv'
  BY <1>1, <1>2, <1>5, <1>7, GapCloses
<1> QED
  BY <1>1, <1>2, <1>4, <1>9, Placing

\* pending takes the first of what waits.
LEMMA PendingFirst ==
  ASSUME DB!DbAssumption, DB!TypeOK
  PROVE  DB!Pending \subseteq DB!Waiting /\ \A id \in DB!Pending, w \in DB!Waiting \ DB!Pending : id < w
<1> DEFINE Before(id) == {e \in DB!Waiting : e < id}
<1>1. DB!Waiting \subseteq Nat /\ DB!Waiting \subseteq 1..MaxChanges /\ IsFiniteSet(1..MaxChanges) /\ Limit \in Nat
  BY DbFacts
<1>2. DB!Pending = {id \in DB!Waiting : Cardinality(Before(id)) < Limit}
  BY SameCount DEF DB!Pending
<1>3. ASSUME NEW id \in DB!Pending, NEW w \in DB!Waiting \ DB!Pending
      PROVE  id < w
  <2>1. id \in Nat /\ w \in Nat /\ id \in DB!Waiting /\ Cardinality(Before(id)) < Limit
    BY <1>1, <1>2, <1>3
  <2>2. SUFFICES ASSUME w <= id PROVE FALSE
    BY <2>1
  <2>3. Before(w) \subseteq Before(id)
    <3>1. ASSUME NEW e \in DB!Waiting, e < w PROVE e < id
      <4>1. e \in Nat
        BY <1>1
      <4> QED
        BY <2>1, <2>2, <3>1, <4>1
    <3> QED
      BY <3>1
  <2>4. Before(id) \subseteq 1..MaxChanges
    BY <1>1
  <2> HIDE DEF Before
  <2>5. IsFiniteSet(Before(id)) /\ Cardinality(Before(id)) \in Nat
    BY <1>1, <2>4, FS_Subset, FS_CardinalityType
  <2>6. IsFiniteSet(Before(w)) /\ Cardinality(Before(w)) \in Nat /\ Cardinality(Before(w)) <= Cardinality(Before(id))
    BY <2>3, <2>5, FS_Subset, FS_CardinalityType
  <2>7. Cardinality(Before(w)) < Limit
    BY <1>1, <2>1, <2>5, <2>6
  <2>8. w \in DB!Pending
    BY <1>2, <2>7
  <2> QED
    BY <2>8
<1>4. DB!Pending \subseteq DB!Waiting
  BY <1>2
<1> QED
  BY <1>3, <1>4

\* A step of a drain: nothing about the triggers changes.
LEMMA GapOfDrains ==
  ASSUME GapInv, NEW c \in Caller, UNCHANGED <<installed, tableRows, deaths>>, shared => shared',
         caller[c].at \in DB!Draining \cup {"idle"}, caller'[c].at \in DB!Draining \cup {"idle"},
         \A d \in Caller : d # c => caller'[d] = caller[d]
  PROVE  GapInv'
<1>1. caller[c].at \notin Halfway /\ caller'[c].at \notin Halfway
  BY DEF Halfway, DB!Draining
<1> QED
  BY <1>1, GapStays

LEMMA DrainOK == ASSUME DB!DbAssumption, DbInv, NEW c \in Caller, DB!Drain(c) PROVE DbInv'
<1>0. DB!TypeOK /\ AtWorkInv /\ KnownInv /\ SentInv /\ DrainInv /\ OrderInv /\ CountInv /\ GapInv /\ DB!NothingIsLost
  BY DEF DbInv
<1>1. /\ DB!Enter(c) /\ DB!Pending # {} /\ DB!Step(c, "publish", DB!Pending)
      /\ UNCHANGED <<tableRows, installed, queue, published, raised, dropped>>
  BY DEF DB!Drain, DB!ghosts
<1>2. /\ DOMAIN caller' = Caller /\ caller'[c].at = "publish" /\ caller'[c].todo = DB!Pending
      /\ \A d \in Caller : d # c => caller'[d] = caller[d]
  <2>1. DOMAIN caller = Caller
    BY <1>0, DbFacts
  <2> DEFINE place == "publish" list == DB!Pending
  <2>2. DB!Step(c, place, list)
    BY <1>1
  <2> HIDE DEF place, list
  <2>3. /\ DOMAIN caller' = Caller /\ caller'[c].at = place /\ caller'[c].todo = list
        /\ \A d \in Caller : d # c => caller'[d] = caller[d]
    BY <2>1, <2>2 DEF DB!Step
  <2> QED
    BY <2>3 DEF place, list
<1>3. /\ AtWorkInv' /\ ~Working(c) /\ deaths' = deaths /\ (shared => shared') /\ shared' \in BOOLEAN /\ calls' \in 0..MaxCalls
      /\ ~shared' => \A d \in Caller : ~Working(d)
  BY <1>0, <1>1, <1>2, Entered
<1>4. /\ DB!Pending \subseteq DB!Waiting /\ \A id \in DB!Pending, w \in DB!Waiting \ DB!Pending : id < w
  BY <1>0, PendingFirst
<1>5. /\ DB!Waiting \subseteq DOMAIN queue /\ DOMAIN queue \subseteq 1..raised /\ DOMAIN queue \subseteq 1..MaxChanges
  BY <1>0, DbFacts DEF KnownInv
<1>6. DB!Waiting' = DB!Waiting /\ Published' = Published /\ Twice' = Twice
  BY <1>1 DEF DB!Waiting, Published, Twice
<1>7. "publish" \in DB!Draining /\ caller[c].at = "idle"
  BY <1>3 DEF DB!Draining, Working
<1>8. DB!TypeOK'
  <2>1. Kind(caller'[c])
    BY <1>1, <1>2, <1>4, <1>5, <1>7 DEF Kind
  <2>2. tableRows' \subseteq DbTrigger /\ installed' \subseteq DbTrigger /\ deaths' \in 0..MaxDeaths
    BY <1>0, <1>1, <1>3, DbFacts, DbBounds
  <2> QED
    BY <1>0, <1>1, <1>2, <1>3, <2>1, <2>2, DbTyped
<1>9. KnownInv'
  BY <1>0, <1>1, <1>2, <1>4, <1>5, <1>6 DEF KnownInv
<1>10. SentInv'
  <2>1. \A d \in Caller : caller'[d].at \in {"mark", "audit"} => d # c /\ caller'[d] = caller[d]
    BY <1>2
  <2> QED
    BY <1>0, <1>1, <1>6, <2>1 DEF SentInv, DB!EventOf
<1>11. DrainInv'
  <2> SUFFICES ASSUME ~shared', NEW d \in Caller, caller'[d].at \in DB!Draining
               PROVE  /\ Rest(d)' \subseteq DB!Waiting
                      /\ \A id \in Rest(d)', w \in DB!Waiting \ Rest(d)' : id < w
    BY <1>6 DEF DrainInv
  <2>1. \A e \in Caller : caller[e].at = "idle"
    BY <1>3 DEF Working
  <2>2. d = c
    BY <1>2, <2>1 DEF DB!Draining
  <2>3. Rest(d)' = DB!Pending
    BY <1>2, <2>2 DEF Rest
  <2> QED
    BY <1>4, <2>3
<1>12. OrderInv'
  BY <1>0, <1>1, <1>3, <1>6 DEF OrderInv
<1>13. CountInv'
  <2>1. Marking' = Marking
    BY <1>2, <1>7 DEF Marking
  <2> QED
    BY <1>0, <1>1, <1>3, <1>6, <2>1 DEF CountInv
<1>14. GapInv'
  BY <1>0, <1>1, <1>2, <1>3, <1>7, GapOfDrains
<1>15. DB!NothingIsLost'
  BY <1>0, <1>1, <1>6 DEF DB!NothingIsLost, Published
<1> QED
  BY <1>3, <1>8, <1>9, <1>10, <1>11, <1>12, <1>13, <1>14, <1>15 DEF DbInv

\* The facts about a caller in the middle of a drain.
LEMMA InDrain ==
  ASSUME DB!DbAssumption, DbInv, NEW c \in Caller, caller[c].at \in DB!Draining
  PROVE  /\ Working(c) /\ caller[c].todo # {} /\ caller[c].todo \subseteq 1..MaxChanges /\ caller[c].todo \subseteq 1..raised
         /\ DB!EventOf(c) \in caller[c].todo /\ DB!EventOf(c) \in Nat /\ \A id \in caller[c].todo : DB!EventOf(c) <= id
         /\ ~shared => \A d \in Caller : d # c => caller[d].at = "idle"
         /\ ~shared => Rest(c) \subseteq DB!Waiting /\ \A id \in Rest(c), w \in DB!Waiting \ Rest(c) : id < w
<1>1. Working(c)
  BY DEF Working, DB!Draining
<1>2. /\ caller[c].todo # {} /\ caller[c].todo \subseteq 1..MaxChanges
      /\ DB!EventOf(c) \in caller[c].todo /\ DB!EventOf(c) \in Nat /\ \A id \in caller[c].todo : DB!EventOf(c) <= id
  BY CallerKinds DEF DbInv
<1>3. caller[c].todo \subseteq 1..raised
  BY DEF DbInv, KnownInv
<1>4. ~shared => \A d \in Caller : d # c => caller[d].at = "idle"
  BY <1>1, AloneAtWork
<1>5. ~shared => Rest(c) \subseteq DB!Waiting /\ \A id \in Rest(c), w \in DB!Waiting \ Rest(c) : id < w
  BY DEF DbInv, DrainInv
<1> QED
  BY <1>1, <1>2, <1>3, <1>4, <1>5

LEMMA CountFacts ==
  ASSUME DB!DbAssumption, DB!TypeOK
  PROVE  /\ IsFiniteSet(Published) /\ Cardinality(Published) \in Nat /\ Len(published) \in Nat
         /\ Twice \in 0..1 /\ Marking \in 0..1 /\ Twice' \in 0..1 /\ Marking' \in 0..1 /\ deaths \in Nat
<1>1. published \in Seq(1..MaxChanges) /\ Published \subseteq 1..MaxChanges /\ IsFiniteSet(1..MaxChanges) /\ deaths \in Nat
  BY DbFacts
<1>2. IsFiniteSet(Published) /\ Cardinality(Published) \in Nat
  BY <1>1, FS_Subset, FS_CardinalityType
<1>3. Len(published) \in Nat
  BY <1>1
<1>4. Twice \in 0..1 /\ Marking \in 0..1 /\ Twice' \in 0..1 /\ Marking' \in 0..1
  BY DEF Twice, Marking
<1> QED
  BY <1>1, <1>2, <1>3, <1>4

LEMMA PublishOK == ASSUME DB!DbAssumption, DbInv, NEW c \in Caller, DB!Publish(c) PROVE DbInv'
<1> DEFINE id == DB!EventOf(c)
<1>0. DB!TypeOK /\ AtWorkInv /\ KnownInv /\ SentInv /\ DrainInv /\ OrderInv /\ CountInv /\ GapInv /\ DB!NothingIsLost
  BY DEF DbInv
<1>1. /\ caller[c].at = "publish" /\ published' = Append(published, id) /\ DB!Step(c, "mark", caller[c].todo)
      /\ UNCHANGED <<tableRows, installed, queue, raised, dropped, shared, calls, deaths>>
  BY DEF DB!Publish, DB!ghosts, DB!bounds
<1>2. /\ DOMAIN caller' = Caller /\ caller'[c].at = "mark" /\ caller'[c].todo = caller[c].todo
      /\ \A d \in Caller : d # c => caller'[d] = caller[d]
  BY <1>0, <1>1, DbFacts, Moved
<1>3. caller[c].at \in DB!Draining /\ "mark" \in DB!Draining /\ "publish" \in DB!Draining
  BY <1>1 DEF DB!Draining
<1>4. /\ Working(c) /\ caller[c].todo # {} /\ caller[c].todo \subseteq 1..MaxChanges /\ caller[c].todo \subseteq 1..raised
      /\ id \in caller[c].todo /\ id \in Nat /\ \A e \in caller[c].todo : id <= e
      /\ ~shared => \A d \in Caller : d # c => caller[d].at = "idle"
      /\ ~shared => Rest(c) \subseteq DB!Waiting /\ \A e \in Rest(c), w \in DB!Waiting \ Rest(c) : e < w
  BY <1>3, InDrain
<1>5. DB!Waiting' = DB!Waiting /\ DB!EventOf(c)' = id /\ Rest(c)' = Rest(c) /\ Rest(c) = caller[c].todo
  BY <1>1, <1>2 DEF DB!Waiting, DB!EventOf, Rest
<1> HIDE DEF id
<1>6. published \in Seq(1..MaxChanges) /\ id \in 1..MaxChanges
  BY <1>0, <1>4, DbFacts
<1>7. /\ published' \in Seq(1..MaxChanges) /\ Len(published) \in Nat /\ Len(published') = Len(published) + 1
      /\ DOMAIN published = 1..Len(published) /\ \A i \in DOMAIN published : published'[i] = published[i]
      /\ published'[Len(published) + 1] = id /\ DOMAIN published' = 1..(Len(published) + 1)
      /\ DOMAIN published \subseteq DOMAIN published' /\ Len(published) + 1 \in DOMAIN published'
      /\ \A i \in DOMAIN published' : i \in DOMAIN published \/ i = Len(published) + 1
  BY <1>1, <1>6, Longer
<1>8. Published' = Published \cup {id}
  BY <1>7 DEF Published, DB!Range
<1>9. DB!TypeOK'
  <2>1. Kind(caller'[c])
    BY <1>2, <1>3, <1>4 DEF Kind
  <2>2. \A d \in Caller : Kind(caller'[d])
    BY <1>0, <1>2, <2>1, CallersTyped
  <2> QED
    BY <1>0, <1>1, <1>2, <1>7, <2>2 DEF DB!TypeOK, Kind
<1>10. AtWorkInv'
  BY <1>0, <1>1, <1>2, <1>4, AtWorkStays
<1>11. KnownInv'
  <2>1. \A d \in Caller : caller'[d].at \in DB!Draining => caller[d].at \in DB!Draining /\ caller'[d].todo = caller[d].todo
    BY <1>2, <1>3
  <2> QED
    BY <1>0, <1>1, <1>4, <1>8, <2>1 DEF KnownInv
<1>12. SentInv'
  <2>1. \A d \in Caller : caller'[d].at \in {"mark", "audit"} => d = c \/ caller'[d] = caller[d]
    BY <1>2
  <2> QED
    BY <1>0, <1>1, <1>5, <1>8, <2>1 DEF SentInv, DB!EventOf
<1>13. DrainInv'
  <2> SUFFICES ASSUME ~shared, NEW d \in Caller, caller'[d].at \in DB!Draining
               PROVE  /\ Rest(d)' \subseteq DB!Waiting
                      /\ \A e \in Rest(d)', w \in DB!Waiting \ Rest(d)' : e < w
    BY <1>1, <1>5 DEF DrainInv
  <2>1. d = c
    BY <1>2, <1>4 DEF DB!Draining
  <2> QED
    BY <1>4, <1>5, <2>1
<1>14. ~shared => id \in DB!Waiting /\ \A w \in DB!Waiting : id <= w
  <2> SUFFICES ASSUME ~shared PROVE id \in DB!Waiting /\ \A w \in DB!Waiting : id <= w
    OBVIOUS
  <2>1. id \in DB!Waiting /\ DB!Waiting \subseteq Nat
    BY <1>0, <1>4, <1>5, DbFacts
  <2>2. ASSUME NEW w \in DB!Waiting PROVE id <= w
    BY <1>4, <1>5, <2>1
  <2> QED
    BY <2>1, <2>2
<1>15. OrderInv'
  <2> SUFFICES ASSUME ~shared
               PROVE  /\ \A i, j \in DOMAIN published' : i < j => published'[i] <= published'[j]
                      /\ \A e \in Published', w \in DB!Waiting : e <= w
    BY <1>1, <1>5 DEF OrderInv
  <2>1. /\ \A i, j \in DOMAIN published : i < j => published[i] <= published[j]
        /\ \A e \in Published, w \in DB!Waiting : e <= w
    BY <1>0 DEF OrderInv
  <2>2. \A i \in DOMAIN published : published[i] \in Published
    BY DEF Published, DB!Range
  <2>3. ASSUME NEW i \in DOMAIN published', NEW j \in DOMAIN published', i < j
        PROVE  published'[i] <= published'[j]
    <3>1. i \in DOMAIN published
      BY <1>7, <2>3
    <3>2. CASE j \in DOMAIN published
      BY <1>7, <2>1, <2>3, <3>1, <3>2
    <3>3. CASE j = Len(published) + 1
      BY <1>7, <1>14, <2>1, <2>2, <3>1, <3>3
    <3> QED
      BY <1>7, <3>2, <3>3
  <2> QED
    BY <1>8, <1>14, <2>1, <2>3
<1>16. CountInv'
  <2> SUFFICES ASSUME ~shared
               PROVE  Len(published') + Twice' <= Cardinality(Published') + deaths + Marking'
    BY <1>1 DEF CountInv
  <2>1. /\ IsFiniteSet(Published) /\ Cardinality(Published) \in Nat /\ Len(published) \in Nat
        /\ Twice \in 0..1 /\ Marking \in 0..1 /\ Twice' \in 0..1 /\ deaths \in Nat
    BY <1>0, CountFacts
  <2>2. Len(published) + Twice <= Cardinality(Published) + deaths + Marking
    BY <1>0 DEF CountInv
  <2>3. Marking = 0 /\ Marking' = 1
    BY <1>1, <1>2, <1>4 DEF Marking
  <2>4. Cardinality(Published') = IF id \in Published THEN Cardinality(Published) ELSE Cardinality(Published) + 1
    BY <1>8, <2>1, FS_AddElement
  <2>5. id \in Published => Twice = 1
    BY <1>14 DEF Twice
  <2>6. Len(published') = Len(published) + 1
    BY <1>7
  <2> QED
    BY <2>1, <2>2, <2>3, <2>4, <2>5, <2>6
<1>17. GapInv'
  BY <1>0, <1>1, <1>2, <1>3, GapOfDrains
<1>18. DB!NothingIsLost'
  BY <1>0, <1>1, <1>5, <1>8 DEF DB!NothingIsLost, Published
<1> QED
  BY <1>9, <1>10, <1>11, <1>12, <1>13, <1>15, <1>16, <1>17, <1>18 DEF DbInv

LEMMA MarkOK == ASSUME DB!DbAssumption, DbInv, NEW c \in Caller, DB!Mark(c) PROVE DbInv'
<1> DEFINE id == DB!EventOf(c)
           Marked(i) == [queue[i] EXCEPT !.processed = @ \/ i = id]
<1>0. DB!TypeOK /\ AtWorkInv /\ KnownInv /\ SentInv /\ DrainInv /\ OrderInv /\ CountInv /\ GapInv /\ DB!NothingIsLost
  BY DEF DbInv
<1>1. /\ caller[c].at = "mark" /\ queue' = [i \in DOMAIN queue |-> Marked(i)] /\ DB!Step(c, "audit", caller[c].todo)
      /\ UNCHANGED <<tableRows, installed, published, raised, dropped, shared, calls, deaths>>
  BY DEF DB!Mark, DB!ghosts, DB!bounds
<1>2. /\ DOMAIN caller' = Caller /\ caller'[c].at = "audit" /\ caller'[c].todo = caller[c].todo
      /\ \A d \in Caller : d # c => caller'[d] = caller[d]
  BY <1>0, <1>1, DbFacts, Moved
<1>3. caller[c].at \in DB!Draining /\ "audit" \in DB!Draining /\ "mark" \in DB!Draining
  BY <1>1 DEF DB!Draining
<1>4. /\ Working(c) /\ caller[c].todo # {} /\ caller[c].todo \subseteq 1..MaxChanges /\ caller[c].todo \subseteq 1..raised
      /\ id \in caller[c].todo /\ id \in Nat /\ \A e \in caller[c].todo : id <= e
      /\ ~shared => \A d \in Caller : d # c => caller[d].at = "idle"
      /\ ~shared => Rest(c) \subseteq DB!Waiting /\ \A e \in Rest(c), w \in DB!Waiting \ Rest(c) : e < w
  BY <1>3, InDrain
<1>5. DB!EventOf(c)' = id /\ Rest(c) = caller[c].todo /\ Rest(c)' = caller[c].todo \ {id} /\ Published' = Published
  BY <1>1, <1>2 DEF DB!EventOf, Rest, Published
<1> HIDE DEF id
<1>6. /\ DOMAIN queue \subseteq 1..MaxChanges /\ \A i \in DOMAIN queue : queue[i] \in DB!Event
  BY <1>0, DbFacts
<1>7. \A i \in DOMAIN queue : Marked(i) \in DB!Event /\ (Marked(i).processed <=> queue[i].processed \/ i = id)
  BY <1>6 DEF DB!Event
<1>8. /\ queue' \in [DOMAIN queue -> DB!Event] /\ DOMAIN queue' = DOMAIN queue
      /\ \A i \in DOMAIN queue : queue'[i].processed <=> queue[i].processed \/ i = id
  BY <1>1, <1>7
<1> HIDE DEF Marked
<1>9. DB!Waiting' = DB!Waiting \ {id}
  BY <1>8 DEF DB!Waiting
<1>10. id \in Published
  BY <1>0, <1>1 DEF SentInv, id
<1>11. DB!TypeOK'
  <2>1. Kind(caller'[c])
    BY <1>2, <1>3, <1>4 DEF Kind
  <2>2. \A d \in Caller : Kind(caller'[d])
    BY <1>0, <1>2, <2>1, CallersTyped
  <2>3. queue' \in UNION {[ids -> DB!Event] : ids \in SUBSET (1..MaxChanges)}
    BY <1>6, <1>8
  <2> QED
    BY <1>0, <1>1, <1>2, <2>2, <2>3 DEF DB!TypeOK, Kind
<1>12. AtWorkInv'
  BY <1>0, <1>1, <1>2, <1>4, AtWorkStays
<1>13. KnownInv'
  <2>1. \A d \in Caller : caller'[d].at \in DB!Draining => caller[d].at \in DB!Draining /\ caller'[d].todo = caller[d].todo
    BY <1>2, <1>3
  <2> QED
    BY <1>0, <1>1, <1>5, <1>8, <2>1 DEF KnownInv
<1>14. SentInv'
  <2>1. \A d \in Caller : caller'[d].at \in {"mark", "audit"} => d = c \/ caller'[d] = caller[d]
    BY <1>2
  <2>2. \A i \in DOMAIN queue' : queue'[i].processed => i \in Published
    BY <1>0, <1>8, <1>10 DEF SentInv
  <2>3. ASSUME NEW d \in Caller, caller'[d].at \in {"mark", "audit"} PROVE DB!EventOf(d)' \in Published
    <3>1. CASE d = c
      BY <1>5, <1>10, <3>1
    <3>2. CASE caller'[d] = caller[d]
      BY <1>0, <2>3, <3>2 DEF SentInv, DB!EventOf
    <3> QED
      BY <2>1, <2>3, <3>1, <3>2
  <2> QED
    BY <1>5, <2>2, <2>3 DEF SentInv
<1>15. DrainInv'
  <2> SUFFICES ASSUME ~shared, NEW d \in Caller, caller'[d].at \in DB!Draining
               PROVE  /\ Rest(d)' \subseteq DB!Waiting'
                      /\ \A e \in Rest(d)', w \in DB!Waiting' \ Rest(d)' : e < w
    BY <1>1 DEF DrainInv
  <2>1. d = c
    BY <1>2, <1>4 DEF DB!Draining
  <2> QED
    BY <1>4, <1>5, <1>9, <2>1
<1>16. OrderInv'
  BY <1>0, <1>1, <1>5, <1>9 DEF OrderInv
<1>17. CountInv'
  <2> SUFFICES ASSUME ~shared
               PROVE  Len(published) + Twice' <= Cardinality(Published) + deaths + Marking'
    BY <1>1, <1>5 DEF CountInv
  <2>1. /\ Cardinality(Published) \in Nat /\ Len(published) \in Nat /\ Marking' \in 0..1 /\ deaths \in Nat
    BY <1>0, CountFacts
  <2>2. Len(published) + Twice <= Cardinality(Published) + deaths + Marking
    BY <1>0 DEF CountInv
  <2>3. Marking = 1
    BY <1>1 DEF Marking
  <2>4. id \in DB!Waiting
    BY <1>4, <1>5
  <2>5. Twice = 1
    BY <1>10, <2>4 DEF Twice
  <2>6. Published \cap DB!Waiting' = {}
    <3>1. \A e \in Published, w \in DB!Waiting : e <= w
      BY <1>0 DEF OrderInv
    <3>2. \A e \in Published \cap DB!Waiting : e \in Nat /\ e <= id /\ id <= e
      BY <1>0, <1>10, <2>4, <3>1, DbFacts
    <3>3. \A e \in Published \cap DB!Waiting : e = id
      BY <1>4, <3>2
    <3> QED
      BY <1>9, <3>3
  <2>7. Twice' = 0
    BY <1>5, <2>6 DEF Twice
  <2> QED
    BY <2>1, <2>2, <2>3, <2>5, <2>7
<1>18. GapInv'
  BY <1>0, <1>1, <1>2, <1>3, GapOfDrains
<1>19. DB!NothingIsLost'
  BY <1>0, <1>1, <1>5, <1>9, <1>10 DEF DB!NothingIsLost, Published
<1> QED
  BY <1>11, <1>12, <1>13, <1>14, <1>15, <1>16, <1>17, <1>18, <1>19 DEF DbInv

LEMMA FiredOK == ASSUME DB!DbAssumption, DbInv, NEW c \in Caller, DB!Fired(c) PROVE DbInv'
<1> DEFINE rest == caller[c].todo \ {DB!EventOf(c)}
           place == IF rest = {} THEN "idle" ELSE "publish"
<1>0. DB!TypeOK /\ AtWorkInv /\ KnownInv /\ SentInv /\ DrainInv /\ OrderInv /\ CountInv /\ GapInv /\ DB!NothingIsLost
  BY DEF DbInv
<1>1. /\ caller[c].at = "audit" /\ DB!Step(c, place, rest)
      /\ UNCHANGED <<tableRows, installed, queue, published, raised, dropped, shared, calls, deaths>>
  BY DEF DB!Fired, DB!Further, DB!ghosts, DB!bounds
<1>2. /\ DOMAIN caller' = Caller /\ caller'[c].at = place /\ caller'[c].todo = rest /\ caller'[c] = [at |-> place, todo |-> rest]
      /\ \A d \in Caller : d # c => caller'[d] = caller[d]
  <2>1. DOMAIN caller = Caller
    BY <1>0, DbFacts
  <2>2. DB!Step(c, place, rest)
    BY <1>1
  <2> HIDE DEF place, rest
  <2> QED
    BY <2>1, <2>2 DEF DB!Step
<1>3. caller[c].at \in DB!Draining /\ "publish" \in DB!Draining /\ ((place = "publish" /\ rest # {}) \/ (place = "idle" /\ rest = {}))
  BY <1>1 DEF DB!Draining
<1>4. /\ Working(c) /\ caller[c].todo \subseteq 1..MaxChanges /\ caller[c].todo \subseteq 1..raised
      /\ ~shared => \A d \in Caller : d # c => caller[d].at = "idle"
      /\ ~shared => Rest(c) \subseteq DB!Waiting /\ \A e \in Rest(c), w \in DB!Waiting \ Rest(c) : e < w
  BY <1>3, InDrain
<1>5. rest \subseteq caller[c].todo /\ Rest(c) = rest
  BY <1>1 DEF Rest
<1> HIDE DEF rest, place
<1>6. DB!Waiting' = DB!Waiting /\ Published' = Published /\ Twice' = Twice /\ Rest(c)' = rest
  BY <1>1, <1>2, <1>3 DEF DB!Waiting, Published, Twice, Rest
<1>7. DB!TypeOK'
  <2>1. Kind(caller'[c])
    BY <1>2, <1>3, <1>4, <1>5 DEF Kind, DB!Idle
  <2>2. tableRows' \subseteq DbTrigger /\ installed' \subseteq DbTrigger /\ shared' \in BOOLEAN /\ calls' \in 0..MaxCalls /\ deaths' \in 0..MaxDeaths
    BY <1>0, <1>1, DbFacts, DbBounds
  <2> QED
    BY <1>0, <1>1, <1>2, <2>1, <2>2, DbTyped
<1>8. AtWorkInv'
  BY <1>0, <1>1, <1>2, <1>4, AtWorkStays
<1>9. KnownInv'
  <2>1. \A d \in Caller : caller'[d].at \in DB!Draining => d = c \/ (caller[d].at \in DB!Draining /\ caller'[d].todo = caller[d].todo)
    BY <1>2
  <2> QED
    BY <1>0, <1>1, <1>2, <1>4, <1>5, <1>6, <2>1 DEF KnownInv
<1>10. SentInv'
  <2>1. \A d \in Caller : caller'[d].at \in {"mark", "audit"} => caller'[d] = caller[d]
    BY <1>2, <1>3
  <2> QED
    BY <1>0, <1>1, <1>6, <2>1 DEF SentInv, DB!EventOf
<1>11. DrainInv'
  <2> SUFFICES ASSUME ~shared, NEW d \in Caller, caller'[d].at \in DB!Draining
               PROVE  /\ Rest(d)' \subseteq DB!Waiting
                      /\ \A e \in Rest(d)', w \in DB!Waiting \ Rest(d)' : e < w
    BY <1>1, <1>6 DEF DrainInv
  <2>1. d = c
    BY <1>2, <1>4 DEF DB!Draining
  <2> QED
    BY <1>4, <1>5, <1>6, <2>1
<1>12. OrderInv'
  BY <1>0, <1>1, <1>6 DEF OrderInv
<1>13. CountInv'
  <2>1. Marking' = Marking
    BY <1>1, <1>2, <1>3 DEF Marking
  <2> QED
    BY <1>0, <1>1, <1>6, <2>1 DEF CountInv
<1>14. GapInv'
  BY <1>0, <1>1, <1>2, <1>3, GapOfDrains
<1>15. DB!NothingIsLost'
  BY <1>0, <1>1, <1>6 DEF DB!NothingIsLost, Published
<1> QED
  BY <1>7, <1>8, <1>9, <1>10, <1>11, <1>12, <1>13, <1>14, <1>15 DEF DbInv

LEMMA ChangeOK == ASSUME DB!DbAssumption, DbInv, DB!Change PROVE DbInv'
<1> DEFINE n == raised + 1
<1>0. DB!TypeOK /\ AtWorkInv /\ KnownInv /\ SentInv /\ DrainInv /\ OrderInv /\ CountInv /\ GapInv /\ DB!NothingIsLost
  BY DEF DbInv
<1>1. /\ raised < MaxChanges /\ raised' = n
      /\ UNCHANGED <<tableRows, installed, published, caller, dropped, shared, calls, deaths>>
  BY DEF DB!Change, DB!bounds
<1>2. PICK t \in installed :
        queue' = [id \in DOMAIN queue \cup {n} |-> IF id = n THEN [trigger |-> t, processed |-> FALSE] ELSE queue[id]]
  BY DEF DB!Change
<1>3. /\ raised \in Nat /\ MaxChanges \in Nat /\ DOMAIN queue \subseteq 1..MaxChanges /\ \A id \in DOMAIN queue : queue[id] \in DB!Event
      /\ installed \subseteq DbTrigger
  BY <1>0, DbFacts
<1>4. n \in 1..MaxChanges /\ n \in Nat /\ 1..n = 1..raised \cup {n} /\ n \notin 1..raised
  BY <1>1, <1>3
<1>5. \A x \in 1..raised : x \in Nat /\ x < n
  BY <1>3
<1> HIDE DEF n
<1>6. DOMAIN queue \subseteq 1..raised /\ Published \subseteq 1..raised
  BY <1>0 DEF KnownInv
<1>7. n \notin DOMAIN queue /\ n \notin Published
  BY <1>4, <1>6
<1>8. /\ DOMAIN queue' = DOMAIN queue \cup {n} /\ ~queue'[n].processed /\ \A id \in DOMAIN queue : queue'[id] = queue[id]
      /\ queue' \in [DOMAIN queue \cup {n} -> DB!Event]
  <2>1. [trigger |-> t, processed |-> FALSE] \in DB!Event
    BY <1>3 DEF DB!Event
  <2> QED
    BY <1>2, <1>3, <1>7, <2>1
<1>9. DB!Waiting' = DB!Waiting \cup {n}
  BY <1>7, <1>8 DEF DB!Waiting
<1>10. Published' = Published /\ Twice' = Twice /\ Marking' = Marking
  <2>1. Published' = Published
    BY <1>1 DEF Published
  <2> QED
    BY <1>1, <1>7, <1>9, <2>1 DEF Twice, Marking
<1>11. DB!TypeOK'
  <2>1. DOMAIN queue \cup {n} \in SUBSET (1..MaxChanges)
    BY <1>3, <1>4
  <2>2. queue' \in UNION {[ids -> DB!Event] : ids \in SUBSET (1..MaxChanges)}
    BY <1>8, <2>1
  <2>3. raised' \in 0..MaxChanges
    BY <1>1, <1>3, <1>4
  <2> QED
    BY <1>0, <1>1, <2>2, <2>3 DEF DB!TypeOK
<1>12. AtWorkInv' /\ GapInv'
  <2>1. Gap' = Gap /\ \A d \in Caller : DB!TriggerOf(d)' = DB!TriggerOf(d) /\ (Working(d)' <=> Working(d))
    BY <1>1 DEF Gap, DB!TriggerOf, Working
  <2>2. AtWorkInv'
    BY <1>0, <1>1, <2>1 DEF AtWorkInv
  <2>3. GapInv'
    BY <1>0, <1>1, <2>1 DEF GapInv
  <2> QED
    BY <2>2, <2>3
<1>13. KnownInv'
  BY <1>0, <1>1, <1>4, <1>8, <1>10 DEF KnownInv
<1>14. SentInv'
  BY <1>0, <1>1, <1>8, <1>10 DEF SentInv, DB!EventOf
<1>15. DrainInv'
  <2> SUFFICES ASSUME ~shared, NEW d \in Caller, caller[d].at \in DB!Draining
               PROVE  /\ Rest(d) \subseteq DB!Waiting \cup {n}
                      /\ \A e \in Rest(d), w \in (DB!Waiting \cup {n}) \ Rest(d) : e < w
    BY <1>1, <1>9 DEF DrainInv, Rest, DB!EventOf
  <2>1. Rest(d) \subseteq DB!Waiting /\ \A e \in Rest(d), w \in DB!Waiting \ Rest(d) : e < w
    BY <1>0 DEF DrainInv
  <2>2. Rest(d) \subseteq 1..raised
    BY <1>0 DEF KnownInv, Rest
  <2> QED
    BY <1>5, <2>1, <2>2
<1>16. OrderInv'
  <2> SUFFICES ASSUME ~shared
               PROVE  /\ \A i, j \in DOMAIN published : i < j => published[i] <= published[j]
                      /\ \A id \in Published, w \in DB!Waiting \cup {n} : id <= w
    BY <1>1, <1>9, <1>10 DEF OrderInv
  <2>1. \A id \in Published : id <= n
    BY <1>4, <1>5, <1>6
  <2> QED
    BY <1>0, <2>1 DEF OrderInv
<1>17. CountInv'
  BY <1>0, <1>1, <1>10 DEF CountInv
<1>18. DB!NothingIsLost'
  BY <1>0, <1>1, <1>4, <1>9, <1>10 DEF DB!NothingIsLost, Published
<1> QED
  BY <1>11, <1>12, <1>13, <1>14, <1>15, <1>16, <1>17, <1>18 DEF DbInv

LEMMA ClearEventsOK == ASSUME DB!DbAssumption, DbInv, NEW c \in Caller, DB!ClearEvents(c) PROVE DbInv'
<1> DEFINE h == DB!TriggerOf(c)
           kept == {id \in DOMAIN queue : ~DB!Clearable(queue[id], h)}
<1>0. DB!TypeOK /\ AtWorkInv /\ KnownInv /\ SentInv /\ DrainInv /\ OrderInv /\ CountInv /\ GapInv /\ DB!NothingIsLost
  BY DEF DbInv
<1>1. /\ caller[c].at = "clear" /\ queue' = [id \in kept |-> queue[id]] /\ DB!Step(c, "delete", caller[c].todo)
      /\ dropped' = dropped \cup {id \in DB!Waiting : queue[id].trigger = h}
      /\ UNCHANGED <<tableRows, installed, published, raised, shared, calls, deaths>>
  BY DEF DB!ClearEvents, DB!bounds
<1>2. /\ DOMAIN caller' = Caller /\ caller'[c].at = "delete" /\ caller'[c].todo = caller[c].todo
      /\ \A d \in Caller : d # c => caller'[d] = caller[d]
  BY <1>0, <1>1, DbFacts, Moved
<1>3. /\ caller[c].at \in DB!Placing /\ "delete" \in DB!Placing /\ "delete" \notin DB!Draining /\ caller[c].at \notin DB!Draining
      /\ "delete" \in Halfway /\ caller[c].at \in Halfway /\ Working(c)
  BY <1>1 DEF DB!Placing, DB!Draining, Halfway, Working
<1>4. caller[c].todo # {} /\ caller[c].todo \subseteq DbTrigger
  BY <1>0, <1>3, CallerKinds
<1>5. ~shared => \A d \in Caller : d # c => caller[d].at = "idle"
  BY <1>3, AloneAtWork
<1>6. /\ kept \subseteq DOMAIN queue /\ DOMAIN queue' = kept /\ \A id \in kept : queue'[id] = queue[id]
      /\ DOMAIN queue \subseteq 1..MaxChanges /\ \A id \in DOMAIN queue : queue[id] \in DB!Event
      /\ DB!Waiting \subseteq DOMAIN queue
  BY <1>0, <1>1, DbFacts
<1>7. DB!Waiting' = {id \in DB!Waiting : queue[id].trigger # h}
  BY <1>6 DEF DB!Waiting, DB!Clearable
<1>8. DB!TriggerOf(c)' = h
  BY <1>2 DEF DB!TriggerOf
<1> HIDE DEF h, kept
<1>9. DB!TypeOK'
  <2>1. Kind(caller'[c])
    BY <1>2, <1>3, <1>4 DEF Kind
  <2>2. \A d \in Caller : Kind(caller'[d])
    BY <1>0, <1>2, <2>1, CallersTyped
  <2>3. kept \in SUBSET (1..MaxChanges) /\ queue' \in [kept -> DB!Event]
    BY <1>1, <1>6
  <2>4. queue' \in UNION {[ids -> DB!Event] : ids \in SUBSET (1..MaxChanges)}
    BY <2>3
  <2>5. dropped' \subseteq 1..MaxChanges
    BY <1>0, <1>1, <1>6 DEF DB!TypeOK
  <2> QED
    BY <1>0, <1>1, <1>2, <2>2, <2>4, <2>5 DEF DB!TypeOK, Kind
<1>10. AtWorkInv'
  BY <1>0, <1>1, <1>2, <1>3, AtWorkStays
<1>11. Published' = Published /\ Marking' = Marking /\ (Twice' <= Twice)
  <2>1. Published' = Published
    BY <1>1 DEF Published
  <2>2. Marking' = Marking
    BY <1>1, <1>2 DEF Marking
  <2>3. DB!Waiting' \subseteq DB!Waiting
    BY <1>7
  <2> QED
    BY <2>1, <2>2, <2>3 DEF Twice
<1>12. \A d \in Caller : caller'[d].at \in DB!Draining => d # c /\ caller'[d] = caller[d]
  BY <1>2, <1>3
<1>13. KnownInv'
  BY <1>0, <1>1, <1>6, <1>11, <1>12 DEF KnownInv
<1>14. SentInv'
  <2>1. \A d \in Caller : caller'[d].at \in {"mark", "audit"} => caller'[d] = caller[d]
    BY <1>2
  <2> QED
    BY <1>0, <1>1, <1>6, <1>11, <2>1 DEF SentInv, DB!EventOf
<1>15. DrainInv'
  <2>1. ~shared => \A d \in Caller : caller'[d].at \notin DB!Draining
    BY <1>5, <1>12 DEF DB!Draining
  <2> QED
    BY <1>1, <2>1 DEF DrainInv
<1>16. OrderInv'
  BY <1>0, <1>1, <1>7, <1>11 DEF OrderInv
<1>17. CountInv'
  <2> SUFFICES ASSUME ~shared PROVE Len(published) + Twice' <= Cardinality(Published) + deaths + Marking
    BY <1>1, <1>11 DEF CountInv
  <2>1. /\ Cardinality(Published) \in Nat /\ Len(published) \in Nat /\ Twice \in 0..1 /\ Twice' \in 0..1
        /\ Marking \in 0..1 /\ deaths \in Nat
    BY <1>0, CountFacts
  <2>2. Len(published) + Twice <= Cardinality(Published) + deaths + Marking
    BY <1>0 DEF CountInv
  <2> QED
    BY <1>11, <2>1, <2>2
<1>18. GapInv'
  <2> SUFFICES ASSUME ~shared
               PROVE  \A d \in Caller : caller'[d].at \in Halfway =>
                        /\ Cardinality(Gap \ {DB!TriggerOf(d)'}) <= deaths
                        /\ DB!TriggerOf(d)' \in installed <=> caller'[d].at = "save"
    BY <1>1, <1>2, <1>3 DEF GapInv, Gap
  <2>1. \A d \in Caller : caller'[d].at \in Halfway => d = c
    BY <1>2, <1>5 DEF Halfway
  <2>2. Cardinality(Gap \ {h}) <= deaths /\ h \notin installed
    BY <1>0, <1>1, <1>3 DEF GapInv, h
  <2> QED
    BY <1>2, <1>8, <2>1, <2>2
<1>19. DB!NothingIsLost'
  <2> SUFFICES ASSUME NEW id \in 1..raised
               PROVE  id \in Published \/ id \in DB!Waiting' \/ id \in dropped'
    BY <1>1, <1>11 DEF DB!NothingIsLost, Published
  <2>1. id \in Published \/ id \in DB!Waiting \/ id \in dropped
    BY <1>0 DEF DB!NothingIsLost, Published
  <2> QED
    BY <1>1, <1>7, <2>1
<1> QED
  BY <1>9, <1>10, <1>13, <1>14, <1>15, <1>16, <1>17, <1>18, <1>19 DEF DbInv

LEMMA CrashOK == ASSUME DB!DbAssumption, DbInv, NEW c \in Caller, DB!Crash(c) PROVE DbInv'
<1>0. DB!TypeOK /\ AtWorkInv /\ KnownInv /\ SentInv /\ DrainInv /\ OrderInv /\ CountInv /\ GapInv /\ DB!NothingIsLost
  BY DEF DbInv
<1>1. /\ caller[c].at # "idle" /\ deaths < MaxDeaths /\ deaths' = deaths + 1 /\ DB!Step(c, "idle", {})
      /\ UNCHANGED <<tableRows, installed, queue, published, raised, dropped, shared, calls>>
  BY DEF DB!Crash, DB!ghosts
<1>2. /\ DOMAIN caller' = Caller /\ caller'[c].at = "idle" /\ caller'[c] = DB!Idle
      /\ \A d \in Caller : d # c => caller'[d] = caller[d]
  <2>1. DOMAIN caller = Caller
    BY <1>0, DbFacts
  <2>2. /\ DOMAIN caller' = Caller /\ caller'[c] = [at |-> "idle", todo |-> {}]
        /\ \A d \in Caller : d # c => caller'[d] = caller[d]
    BY <1>1, <2>1 DEF DB!Step
  <2> QED
    BY <2>2 DEF DB!Idle
<1>3. Working(c) /\ (~shared => \A d \in Caller : d # c => caller[d].at = "idle")
  <2>1. Working(c)
    BY <1>1 DEF Working
  <2> QED
    BY <2>1, AloneAtWork
<1>4. deaths \in Nat /\ deaths' \in Nat /\ deaths' \in 0..MaxDeaths
  <2>1. MaxDeaths \in Nat /\ deaths \in 0..MaxDeaths
    BY <1>0, DbBounds DEF DB!DbAssumption
  <2> QED
    BY <1>1, <2>1
<1>5. DB!Waiting' = DB!Waiting /\ Published' = Published /\ Twice' = Twice
  BY <1>1 DEF DB!Waiting, Published, Twice
<1>6. DB!TypeOK'
  <2>1. Kind(caller'[c])
    BY <1>2 DEF Kind
  <2>2. tableRows' \subseteq DbTrigger /\ installed' \subseteq DbTrigger /\ shared' \in BOOLEAN /\ calls' \in 0..MaxCalls
    BY <1>0, <1>1, DbFacts, DbBounds
  <2> QED
    BY <1>0, <1>1, <1>2, <1>4, <2>1, <2>2, DbTyped
<1>7. AtWorkInv'
  BY <1>0, <1>1, <1>2, <1>3, AtWorkStays
<1>8. "idle" \notin DB!Draining /\ "idle" \notin Halfway /\ "idle" \notin {"mark", "audit"}
  BY DEF DB!Draining, Halfway
<1>9. \A d \in Caller : caller'[d].at # "idle" => d # c /\ caller'[d] = caller[d]
  BY <1>2
<1>10. KnownInv'
  BY <1>0, <1>1, <1>5, <1>8, <1>9 DEF KnownInv
<1>11. SentInv'
  BY <1>0, <1>1, <1>5, <1>8, <1>9 DEF SentInv, DB!EventOf
<1>12. DrainInv'
  <2>1. ~shared => \A d \in Caller : caller'[d].at = "idle"
    BY <1>2, <1>3
  <2> QED
    BY <1>1, <1>8, <2>1 DEF DrainInv
<1>13. OrderInv'
  BY <1>0, <1>1, <1>5 DEF OrderInv
<1>14. CountInv'
  <2> SUFFICES ASSUME ~shared PROVE Len(published) + Twice <= Cardinality(Published) + deaths' + Marking'
    BY <1>1, <1>5 DEF CountInv
  <2>1. /\ Cardinality(Published) \in Nat /\ Len(published) \in Nat /\ Twice \in 0..1
        /\ Marking \in 0..1 /\ Marking' \in 0..1
    BY <1>0, CountFacts
  <2>2. Len(published) + Twice <= Cardinality(Published) + deaths + Marking
    BY <1>0 DEF CountInv
  <2> QED
    BY <1>1, <1>4, <2>1, <2>2
<1>15. GapInv'
  <2> SUFFICES ASSUME ~shared PROVE Cardinality(Gap) <= deaths'
    <3>1. ~shared => \A d \in Caller : caller'[d].at \notin Halfway
      BY <1>2, <1>3, <1>8
    <3> QED
      BY <1>1, <3>1 DEF GapInv, Gap
  <2>1. CASE caller[c].at \in Halfway
    <3>1. Cardinality(Gap \ {DB!TriggerOf(c)}) <= deaths
      BY <1>0, <2>1 DEF GapInv
    <3>2. /\ Cardinality(Gap) <= Cardinality(Gap \ {DB!TriggerOf(c)}) + 1
          /\ Cardinality(Gap) \in Nat /\ Cardinality(Gap \ {DB!TriggerOf(c)}) \in Nat
      BY <1>0, GapFinite
    <3> QED
      BY <1>1, <1>4, <3>1, <3>2
  <2>2. CASE caller[c].at \notin Halfway
    <3>1. \A d \in Caller : caller[d].at \notin Halfway
      BY <1>3, <1>8, <2>2
    <3>2. Cardinality(Gap) <= deaths /\ Cardinality(Gap) \in Nat
      BY <1>0, <3>1, GapFinite DEF GapInv
    <3> QED
      BY <1>1, <1>4, <3>2
  <2> QED
    BY <2>1, <2>2
<1>16. DB!NothingIsLost'
  BY <1>0, <1>1, <1>5 DEF DB!NothingIsLost, Published
<1> QED
  BY <1>6, <1>7, <1>10, <1>11, <1>12, <1>13, <1>14, <1>15, <1>16 DEF DbInv

LEMMA DbStutters == ASSUME DbInv, UNCHANGED DB!vars PROVE DbInv'
<1>1. UNCHANGED <<tableRows, installed, queue, published, caller, raised, dropped, shared, calls, deaths>>
  BY DEF DB!vars
<1>2. /\ DB!Waiting' = DB!Waiting /\ Published' = Published /\ Twice' = Twice /\ Marking' = Marking /\ Gap' = Gap
      /\ \A c \in Caller : DB!EventOf(c)' = DB!EventOf(c) /\ DB!TriggerOf(c)' = DB!TriggerOf(c) /\ Rest(c)' = Rest(c)
                           /\ (Working(c)' <=> Working(c))
  BY <1>1 DEF DB!Waiting, Published, Twice, Marking, Gap, DB!EventOf, DB!TriggerOf, Rest, Working
<1>3. DB!TypeOK'
  BY <1>1 DEF DbInv, DB!TypeOK
<1>4. AtWorkInv' /\ KnownInv' /\ SentInv' /\ DrainInv'
  BY <1>1, <1>2 DEF DbInv, AtWorkInv, KnownInv, SentInv, DrainInv
<1>5. OrderInv' /\ CountInv' /\ GapInv'
  BY <1>1, <1>2 DEF DbInv, OrderInv, CountInv, GapInv
<1>6. DB!NothingIsLost'
  BY <1>1, <1>2 DEF DbInv, DB!NothingIsLost, Published
<1> QED
  BY <1>3, <1>4, <1>5, <1>6 DEF DbInv

LEMMA DbStarts == ASSUME DB!DbAssumption, DB!Init PROVE DbInv
<1>1. /\ tableRows = {} /\ installed = {} /\ queue = <<>> /\ published = <<>> /\ caller = [c \in Caller |-> DB!Idle]
      /\ raised = 0 /\ dropped = {} /\ shared = FALSE /\ calls = 0 /\ deaths = 0
  BY DEF DB!Init
<1>2. /\ DOMAIN queue = {} /\ queue \in [{} -> DB!Event] /\ DOMAIN published = {} /\ published \in Seq(1..MaxChanges) /\ Len(published) = 0
  BY <1>1
<1>3. DB!Waiting = {} /\ Published = {} /\ Gap = {}
  BY <1>1, <1>2 DEF DB!Waiting, Published, DB!Range, Gap
<1>4. DOMAIN caller = Caller /\ \A c \in Caller : caller[c] = DB!Idle /\ caller[c].at = "idle"
  BY <1>1 DEF DB!Idle
<1>5. "idle" \notin DB!Draining /\ "idle" \notin Halfway /\ "idle" \notin {"mark", "audit"}
  BY DEF DB!Draining, Halfway
<1>6. MaxChanges \in Nat /\ MaxCalls \in Nat /\ MaxDeaths \in Nat
  BY DEF DB!DbAssumption
<1>7. DB!TypeOK
  <2>1. queue \in UNION {[ids -> DB!Event] : ids \in SUBSET (1..MaxChanges)}
    BY <1>2
  <2>2. 0 \in 0..MaxChanges /\ 0 \in 0..MaxCalls /\ 0 \in 0..MaxDeaths
    BY <1>6
  <2> QED
    BY <1>1, <1>2, <1>4, <2>1, <2>2 DEF DB!TypeOK
<1>8. AtWorkInv /\ KnownInv /\ SentInv /\ DrainInv
  BY <1>2, <1>3, <1>4, <1>5 DEF AtWorkInv, Working, KnownInv, SentInv, DrainInv
<1>9. Cardinality({}) = 0
  BY FS_EmptySet
<1>10. OrderInv /\ GapInv
  BY <1>1, <1>2, <1>3, <1>4, <1>5, <1>9 DEF OrderInv, GapInv
<1>11. CountInv
  <2>1. Twice = 0 /\ Marking = 0
    BY <1>3, <1>4 DEF Twice, Marking
  <2> QED
    BY <1>1, <1>2, <1>3, <1>9, <2>1 DEF CountInv
<1>12. DB!NothingIsLost
  BY <1>1 DEF DB!NothingIsLost
<1> QED
  BY <1>7, <1>8, <1>10, <1>11, <1>12 DEF DbInv

LEMMA DbNext == ASSUME DB!DbAssumption, DbInv, [DB!Next]_(DB!vars) PROVE DbInv'
<1>1. CASE DB!Change
  BY <1>1, ChangeOK
<1>2. ASSUME NEW c \in Caller,
             \/ DB!Drain(c) \/ DB!Publish(c) \/ DB!Mark(c) \/ DB!Fired(c)
             \/ DB!Install(c) \/ DB!Boot(c) \/ DB!CreateTrigger(c) \/ DB!SaveTrigger(c)
             \/ DB!Uninstall(c) \/ DB!DropTrigger(c) \/ DB!ClearEvents(c) \/ DB!DeleteRow(c) \/ DB!Crash(c)
      PROVE  DbInv'
  <2>1. CASE DB!Drain(c) \/ DB!Publish(c) \/ DB!Mark(c) \/ DB!Fired(c)
    BY <2>1, DrainOK, PublishOK, MarkOK, FiredOK
  <2>2. CASE DB!Install(c) \/ DB!Boot(c) \/ DB!CreateTrigger(c) \/ DB!SaveTrigger(c)
    BY <2>2, InstallOK, BootOK, CreateTriggerOK, SaveTriggerOK
  <2>3. CASE DB!Uninstall(c) \/ DB!DropTrigger(c) \/ DB!ClearEvents(c) \/ DB!DeleteRow(c) \/ DB!Crash(c)
    BY <2>3, UninstallOK, DropTriggerOK, ClearEventsOK, DeleteRowOK, CrashOK
  <2> QED
    BY <1>2, <2>1, <2>2, <2>3
<1>3. CASE UNCHANGED DB!vars
  BY <1>3, DbStutters
<1> QED
  BY <1>1, <1>2, <1>3 DEF DB!Next

LEMMA DbInvariant == DB!Spec => []DbInv
<1>1. DB!DbAssumption
  BY ChangesAssumption
<1>2. DB!Init => DbInv
  BY <1>1, DbStarts
<1>3. DbInv /\ [DB!Next]_(DB!vars) => DbInv'
  BY <1>1, DbNext
<1> QED
  BY <1>2, <1>3, PTL DEF DB!Spec

\* storage/triggers.py: whatever dies or overlaps, no event is lost; while no
\* two calls overlap, events are published in the order of the changes, again
\* only after a death, and SQLite and the table agree but for the deaths.
THEOREM ChangesDrained == DB!Spec => []ChangesAreDrained
<1>1. DB!DbAssumption
  BY ChangesAssumption
<1>2. ASSUME DbInv PROVE DB!PublishedInOrder
  <2>1. DB!TypeOK /\ OrderInv /\ CountInv /\ SentInv /\ DrainInv
    BY <1>2 DEF DbInv
  <2> SUFFICES ASSUME ~shared
               PROVE  /\ \A i, j \in DOMAIN published : i < j => published[i] <= published[j]
                      /\ Len(published) <= Cardinality(Published) + deaths
    BY SameCount DEF DB!PublishedInOrder, Published
  <2>2. Len(published) + Twice <= Cardinality(Published) + deaths + Marking
    BY <2>1 DEF CountInv
  <2>3. ASSUME NEW c \in Caller, caller[c].at = "mark" PROVE Twice = 1
    <3>1. DB!EventOf(c) \in Published
      BY <2>1, <2>3 DEF SentInv
    <3>2. caller[c].at \in DB!Draining /\ Rest(c) = caller[c].todo
      BY <2>3 DEF DB!Draining, Rest
    <3>3. DB!EventOf(c) \in Rest(c) /\ Rest(c) \subseteq DB!Waiting
      BY <1>1, <1>2, <3>2, InDrain
    <3> QED
      BY <3>1, <3>3 DEF Twice
  <2>4. Marking = 0 \/ Twice = 1
    BY <2>3 DEF Marking
  <2>5. /\ Cardinality(Published) \in Nat /\ Len(published) \in Nat /\ Twice \in 0..1 /\ Marking \in 0..1 /\ deaths \in Nat
    BY <1>1, <2>1, CountFacts
  <2>6. Len(published) <= Cardinality(Published) + deaths
    BY <2>2, <2>4, <2>5
  <2> QED
    BY <2>1, <2>6 DEF OrderInv
<1>3. ASSUME DbInv PROVE DB!TableIsTrue
  <2> SUFFICES ASSUME ~shared, \A c \in Caller : caller[c].at = "idle"
               PROVE  Cardinality(installed \ tableRows) + Cardinality(tableRows \ installed) <= deaths
    BY SameCount DEF DB!TableIsTrue
  <2>1. \A c \in Caller : caller[c].at \notin Halfway
    BY DEF Halfway
  <2>2. Cardinality(Gap) <= deaths
    BY <1>3, <2>1 DEF DbInv, GapInv
  <2>3. IsFiniteSet(installed) /\ IsFiniteSet(tableRows)
    BY <1>1, <1>3, DbFacts DEF DbInv
  <2>4. IsFiniteSet(installed \ tableRows) /\ IsFiniteSet(tableRows \ installed)
    BY <2>3, FS_Subset
  <2>5. (installed \ tableRows) \cap (tableRows \ installed) = {}
    OBVIOUS
  <2>6. Cardinality(Gap) = Cardinality(installed \ tableRows) + Cardinality(tableRows \ installed)
    <3>1. Cardinality(Gap) = Cardinality(installed \ tableRows) + Cardinality(tableRows \ installed)
                               - Cardinality((installed \ tableRows) \cap (tableRows \ installed))
      BY <2>4, FS_Union DEF Gap
    <3>2. Cardinality((installed \ tableRows) \cap (tableRows \ installed)) = 0
      BY <2>5, FS_EmptySet
    <3>3. Cardinality(installed \ tableRows) \in Nat /\ Cardinality(tableRows \ installed) \in Nat
      BY <2>4, FS_CardinalityType
    <3> QED
      BY <3>1, <3>2, <3>3
  <2> QED
    BY <2>2, <2>6
<1>4. DbInv => ChangesAreDrained
  BY <1>2, <1>3 DEF ChangesAreDrained, DbInv
<1> QED
  BY <1>4, DbInvariant, PTL
=============================================================================
