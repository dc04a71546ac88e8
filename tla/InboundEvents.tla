---------------------------- MODULE InboundEvents ---------------------------
(***************************************************************************)
(* Events another system delivers to a connector's webhook                 *)
(* (ConnectorService.receive in integrations/service.py), the workflow     *)
(* they may start (runtime/triggers.py).                                   *)
(* The endpoint is a coroutine that never awaits inside receive, so one    *)
(* server handles one delivery at a time; it may die in the middle, and    *)
(* the sender delivers an event again when it likes.                       *)
(***************************************************************************)
EXTENDS Integers, Sequences, FiniteSets

CONSTANTS
  Ext, NoExt,          \* external ids; NoExt: the event brings none
  HasSecret,           \* the connector declares a signature secret
  Bound,               \* runtime.bind_triggers has been called
  MaxDeliveries,       \* bound: deliveries
  MaxCrashes,          \* bound: deaths of the server
  MaxToggles           \* bound: times the connector is enabled or disabled

\* The event type the connector declares, and the two types the runtime
\* publishes: integration.event_received and integration.event_rejected.
Topic == {"declared", "received", "rejected"}

\* What a trigger.event may match: nothing, one type, `integration.*`, `*`.
Patterns == {{}, {"declared"}, {"received"}, {"rejected"}, {"received", "rejected"}, Topic}

ASSUME InboundAssumption ==
  /\ NoExt \notin Ext
  /\ HasSecret \in BOOLEAN /\ Bound \in BOOLEAN
  /\ {MaxDeliveries, MaxCrashes, MaxToggles} \subseteq Nat

VARIABLES
  rows,                \* table integration_events
  listens,             \* what the workflow's trigger.event matches
  enabled,             \* the connector and its webhook are enabled
  pc, msg,             \* receive: where it is and the delivery it handles
  trail,               \* the inbound events published, oldest first
  started,             \* the deliveries that started the workflow
  deliveries, crashes, toggles

vars == <<rows, listens, enabled, pc, msg, trail, started, deliveries, crashes, toggles>>
bounds == <<deliveries, crashes, toggles>>

-----------------------------------------------------------------------------
IntegrationEventStatus == {"received", "duplicate", "rejected", "triggered"}
Accepted == {"received", "triggered"}

Message == [ext : Ext \cup {NoExt}, good : BOOLEAN]
Row == [ext : Ext \cup {NoExt}, status : IntegrationEventStatus]

TypeOK ==
  /\ rows \in Seq(Row)
  /\ listens \in Patterns
  /\ enabled \in BOOLEAN
  /\ pc \in {"idle", "check", "publish", "notify", "save_rejected"}
  /\ msg \in Message
  /\ trail \in Seq([topic : {"received", "rejected"}, msg : Message])
  /\ started \in Seq(Message)
  /\ deliveries \in Nat /\ crashes \in Nat /\ toggles \in Nat

NoMessage == [ext |-> NoExt, good |-> FALSE]

\* IntegrationEventRepository.exists, whatever became of the event.
Exists_Accepted(e) == \E i \in DOMAIN rows : rows[i].ext = e /\ rows[i].status = "received"   \* mutant: only one of the statuses is looked for
Exists(e) == e # NoExt /\ \E i \in DOMAIN rows : rows[i].ext = e

SignatureOk == msg.good \/ ~HasSecret

Save(ext, status) == rows' = Append(rows, [ext |-> ext, status |-> status])

\* The status says "triggered" when some workflow listens to the type the
\* connector declares.
AcceptedStatus == IF "declared" \in listens THEN "triggered" ELSE "received"

\* EventBus.publish: the event is recorded in the trail ...
Publish(topic) ==
  /\ trail' = Append(trail, [topic |-> topic, msg |-> msg])
  /\ pc' = "notify"

Done == pc' = "idle" /\ msg' = NoMessage
-----------------------------------------------------------------------------
Deliver ==
  /\ pc = "idle"
  /\ deliveries < MaxDeliveries /\ deliveries' = deliveries + 1
  /\ msg' \in Message
  /\ pc' = "check"
  /\ UNCHANGED <<rows, listens, enabled, trail, started, crashes, toggles>>

\* The connector is missing or disabled: refused before its id is read.
RejectDisabled ==
  /\ pc = "check" /\ ~enabled
  /\ Save(NoExt, "rejected")
  /\ Done
  /\ UNCHANGED <<listens, enabled, trail, started, bounds>>

\* The id was seen.  The row is inserted all the same: the unique index
\* refuses it, and the error is dropped.
Duplicate ==
  /\ pc = "check" /\ enabled
  /\ Exists(msg.ext)
  /\ Done
  /\ UNCHANGED <<rows, listens, enabled, trail, started, bounds>>

\* Wrong signature, or outside its window: published, then saved.
RejectSignature ==
  /\ pc = "check" /\ enabled /\ ~Exists(msg.ext)
  /\ ~SignatureOk
  /\ Publish("rejected")
  /\ UNCHANGED <<rows, listens, enabled, msg, started, bounds>>

SaveRejected ==
  /\ pc = "save_rejected"
  /\ Save(msg.ext, "rejected")
  /\ Done
  /\ UNCHANGED <<listens, enabled, trail, started, bounds>>

Accept_Unsigned ==             \* mutant: the signature is not looked at
  /\ pc = "check" /\ enabled /\ ~Exists(msg.ext)
  /\ Save(msg.ext, AcceptedStatus)
  /\ pc' = "publish"
  /\ UNCHANGED <<listens, enabled, msg, trail, started, bounds>>

Accept_Silent ==               \* mutant: saved, never published
  /\ pc = "check" /\ enabled /\ ~Exists(msg.ext)
  /\ SignatureOk
  /\ Save(msg.ext, AcceptedStatus)
  /\ Done
  /\ UNCHANGED <<listens, enabled, trail, started, bounds>>

\* Accepted: saved first, published afterwards.
Accept ==
  /\ pc = "check" /\ enabled /\ ~Exists(msg.ext)
  /\ SignatureOk
  /\ Save(msg.ext, AcceptedStatus)
  /\ pc' = "publish"
  /\ UNCHANGED <<listens, enabled, msg, trail, started, bounds>>

PublishReceived_Declared ==    \* mutant: published under the type the connector declares
  /\ pc = "publish"
  /\ Publish("declared")
  /\ UNCHANGED <<rows, listens, enabled, msg, started, bounds>>

PublishReceived ==
  /\ pc = "publish"
  /\ Publish("received")
  /\ UNCHANGED <<rows, listens, enabled, msg, started, bounds>>

\* ... and handed to the subscriber, which starts the workflow when the type
\* published matches its pattern; a workflow that cannot be started is
\* audited and forgotten.
Notify ==
  LET topic == trail[Len(trail)].topic IN
  /\ pc = "notify"
  /\ \/ Bound /\ topic \in listens /\ started' = Append(started, msg)
     \/ UNCHANGED started
  /\ IF topic = "rejected" THEN pc' = "save_rejected" /\ UNCHANGED msg ELSE Done
  /\ UNCHANGED <<rows, listens, enabled, trail, bounds>>
-----------------------------------------------------------------------------
\* An operator enables or disables the connector.
Toggle ==
  /\ toggles < MaxToggles /\ toggles' = toggles + 1
  /\ enabled' = ~enabled
  /\ UNCHANGED <<rows, listens, pc, msg, trail, started, deliveries, crashes>>

\* The server dies: SQLite rolls back what was not committed.
Crash ==
  /\ crashes < MaxCrashes /\ crashes' = crashes + 1
  /\ pc # "idle"
  /\ Done
  /\ UNCHANGED <<rows, listens, enabled, trail, started, deliveries, toggles>>

\* No more deliveries: the bound is used up.
Quiescent == pc = "idle" /\ deliveries = MaxDeliveries /\ UNCHANGED vars

Init ==
  /\ rows = <<>>
  /\ listens \in Patterns
  /\ enabled \in BOOLEAN
  /\ pc = "idle" /\ msg = NoMessage
  /\ trail = <<>> /\ started = <<>>
  /\ deliveries = 0 /\ crashes = 0 /\ toggles = 0

Receive == \/ RejectDisabled \/ Duplicate \/ RejectSignature \/ SaveRejected
           \/ Accept \/ PublishReceived \/ Notify

Next == Deliver \/ Receive \/ Toggle \/ Crash \/ Quiescent

Spec == Init /\ [][Next]_vars

-----------------------------------------------------------------------------
Work(e) == {i \in DOMAIN started : started[i].ext = e}
AcceptedRows == {i \in DOMAIN rows : rows[i].status \in Accepted}
PublishedAsReceived == {i \in DOMAIN trail : trail[i].topic = "received"}

\* "Deduplicado por external_id no banco" (docs/DECISIONS.md, ADR-042):
\* however often an event is delivered and wherever the server dies, it is
\* published as received at most once, and is the work of at most one run of
\* the workflow, unless that listens to refused events too.
ProcessedOnce ==
  \A e \in Ext :
    /\ Cardinality({i \in PublishedAsReceived : trail[i].msg.ext = e}) <= 1
    /\ "rejected" \notin listens => Cardinality(Work(e)) <= 1

\* What was accepted was published, except for one event in each crash
\* between the two (the row then keeps redeliveries from repairing it); and
\* what was published had been accepted.
AcceptedIsPublished ==
  LET waiting == IF pc = "publish" THEN 1 ELSE 0
      lost == Cardinality(AcceptedRows) - Cardinality(PublishedAsReceived) - waiting
  IN 0 <= lost /\ lost <= crashes

\* With a secret declared, only deliveries that were verified become work,
\* unless the workflow's pattern also matches integration.event_rejected (as
\* `integration.*` does): refused deliveries are published on the same bus.
WorkIsVerified ==
  HasSecret /\ "rejected" \notin listens => \A i \in DOMAIN started : started[i].good

\* integrations/service.py receive: an event becomes work once, if it was
\* accepted it was published, and only what was verified is work.
EventsAreWorkOnce == TypeOK /\ ProcessedOnce /\ AcceptedIsPublished /\ WorkIsVerified
=============================================================================
