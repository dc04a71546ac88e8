----------------------------- MODULE Repositories -----------------------------
(***************************************************************************)
(* The repositories (storage/repositories.py) over the one connection that *)
(* the threads of a process share (storage/database.py).  A row holds its  *)
(* whole document and copies of the fields that queries look at; saving a  *)
(* row that is there rewrites the document and some of the copies.  Each   *)
(* statement takes the lock by itself: what one thread left uncommitted,   *)
(* the commit of another makes durable.  Memory has an index of its text   *)
(* besides, without a key.                                                 *)
(***************************************************************************)
EXTENDS Integers, Sequences

CONSTANTS
  Thread,
  MaxCalls, MaxMishaps    \* bounds: saves and deletes, failures and crashes

-----------------------------------------------------------------------------
\* A repository: the columns beside the document, those that a save rewrites
\* (ON CONFLICT DO UPDATE), those its list filters on, and the fields that the
\* program changes after the first save.
Table(columns, updated, by, changes) == [columns |-> columns, updated |-> updated, by |-> by, changes |-> changes]

EnterpriseRepository == Table({"name"}, {"name"}, {}, {"name"})
AgentRepository == Table({"version", "environment"}, {"version", "environment"}, {"environment"}, {"version", "environment"})
TaskRepository == Table({"status", "environment", "agent_id", "objective"}, {"status", "environment", "agent_id", "objective"},
                        {"status", "environment"}, {"status", "agent_id"})
PolicyRepository == Table({"priority", "enabled"}, {"priority", "enabled"}, {"enabled"}, {"priority", "enabled"})
ApprovalRepository_Status ==                       \* mutant: a decision leaves the copy of the status
  Table({"status", "task_id", "environment"}, {}, {"status", "task_id"}, {"status"})
ApprovalRepository == Table({"status", "task_id", "environment"}, {"status"}, {"status", "task_id"}, {"status"})
ArtifactRepository == Table({"kind", "task_id", "environment"}, {}, {"task_id"}, {})
MemoryRepository == Table({"namespace", "kind"}, {}, {"namespace", "kind"}, {"archived", "content"})
ModelUsageRepository == Table({"task_id", "provider", "model", "cost", "created_at"}, {}, {"task_id"}, {})   \* rows without a document
SettingsRepository == Table({}, {}, {}, {"value"})
Principals == Table({"kind", "status"}, {"kind", "status"}, {"kind", "status"}, {"status"})
Tokens == Table({"principal_id", "status", "expires_at", "revoked_at", "last_used_at"}, {"status", "revoked_at", "last_used_at"},
                {"principal_id", "status"}, {"status", "revoked_at"})
SecretRepository == Table({"name", "provider", "key_id"}, {"provider", "key_id"}, {"name"}, {"key_id"})
KeyRepository == Table({"source", "actor", "rotated_at"}, {"rotated_at"}, {}, {"rotated_at"})
WorkflowRunRepository == Table({"workflow_id", "status", "environment", "trigger"}, {"status"},
                               {"workflow_id", "status", "trigger"}, {"status"})
ChangeProposalRepository == Table({"kind", "name", "status", "origin", "environment", "fingerprint"}, {"status", "fingerprint"},
                                  {"kind", "status"}, {"status", "fingerprint"})
EvaluationSuiteRepository == Table({"target_kind", "target"}, {"target_kind", "target"}, {"target_kind", "target"},
                                   {"target_kind", "target"})
EvaluationRunRepository == Table({"suite_id", "target", "status", "environment"}, {"status"},
                                 {"suite_id", "status", "target"}, {"status"})
EvaluationLoadRepository == Table({"suite_id", "status"}, {"status"}, {"suite_id"}, {})
ReleaseRepository == Table({"target", "status", "rollback_of"}, {"status"}, {"status", "target"}, {"status"})
ArtifactVersionRepository == Table({"kind", "name", "revision"}, {}, {"kind", "name"}, {})
GatewayBindingRepository == Table({"channel", "external_id", "status"}, {"status"}, {"status", "channel"}, {"status", "pairing_code"})
GatewayMessageRepository == Table({"channel", "direction"}, {}, {"channel", "direction"}, {})
AttachmentRepository == Table({"channel", "external_id", "status", "name"}, {"status"}, {"channel", "external_id", "status"},
                              {"status", "task_id"})
NegotiationRepository == Table({"objective", "strategy", "chosen"}, {"chosen"}, {}, {})
DatabaseTriggerRepository == Table({"name", "table", "event", "when", "emit", "enabled"}, {"name", "when", "emit", "enabled"},
                                   {"table", "enabled"}, {"enabled"})
DatabaseEventRepository == Table({"trigger_id", "event", "table", "row_id", "processed_at"}, {"processed_at"}, {"processed_at"},
                                 {"processed_at"})
IntegrationRepository == Table({"type", "enabled"}, {"type", "enabled"}, {}, {"type", "enabled"})
IntegrationCallRepository == Table({"integration", "ok"}, {"ok"}, {"integration"}, {})
IntegrationEventRepository == Table({"integration", "external_id", "status"}, {}, {"integration", "external_id"}, {})
IntegrationJobRepository == Table({"integration", "status", "attempts", "next_attempt", "idempotency"},
                                  {"status", "attempts", "next_attempt"}, {"status", "integration", "idempotency"},
                                  {"status", "attempts", "next_attempt"})
PackRepository == Table({"version", "enabled"}, {"version", "enabled"}, {}, {"version", "enabled"})

Memory == "memory_records"
Tables ==
  [memory_records |-> MemoryRepository,
   enterprises |-> EnterpriseRepository, agents |-> AgentRepository, tasks |-> TaskRepository, policies |-> PolicyRepository,
   approvals |-> ApprovalRepository, artifacts |-> ArtifactRepository, model_calls |-> ModelUsageRepository, settings |-> SettingsRepository,
   principals |-> Principals, identity_tokens |-> Tokens, secrets |-> SecretRepository, master_keys |-> KeyRepository,
   workflow_runs |-> WorkflowRunRepository, change_proposals |-> ChangeProposalRepository,
   evaluation_suites |-> EvaluationSuiteRepository, evaluation_runs |-> EvaluationRunRepository,
   evaluation_loads |-> EvaluationLoadRepository, releases |-> ReleaseRepository,
   artifact_versions |-> ArtifactVersionRepository, gateway_bindings |-> GatewayBindingRepository,
   gateway_messages |-> GatewayMessageRepository, gateway_attachments |-> AttachmentRepository,
   negotiations |-> NegotiationRepository, db_triggers |-> DatabaseTriggerRepository, db_events |-> DatabaseEventRepository,
   integrations |-> IntegrationRepository, integration_calls |-> IntegrationCallRepository,
   integration_events |-> IntegrationEventRepository, integration_jobs |-> IntegrationJobRepository, packs |-> PackRepository]

-----------------------------------------------------------------------------
VARIABLES
  table,                  \* the repository at hand
  now,                    \* rows and index as the connection sees them
  disk,                   \* as of the last commit
  thread,                 \* each thread: the statements it still has to run
  spoiled,                \* ghost: ids whose save or delete was not left alone
  calls, mishaps

Id == 0..1                \* ids of rows
vars == <<table, now, disk, thread, spoiled, calls, mishaps>>

T == Tables[table]
Fields == T.columns \cup T.changes
Doc == [Fields -> 0..1]
None == [there |-> FALSE]
There == {i \in Id : now.rows[i].there}

\* INSERT ... ON CONFLICT DO UPDATE
Upsert(rows, i, doc) ==
  LET copied(f) == ~rows[i].there \/ f \in T.updated
  IN  [rows EXCEPT ![i] = [there |-> TRUE, doc |-> doc, copy |-> [f \in T.columns |-> IF copied(f) THEN doc[f] ELSE @.copy[f]]]]

\* What a save and a delete run, statement by statement.
SaveOf_Append == IF table = Memory THEN <<"upsert", "index", "commit">> ELSE <<"upsert", "commit">>  \* mutant: the old entry stays
SaveOf == IF table = Memory THEN <<"upsert", "unindex", "index", "commit">> ELSE <<"upsert", "commit">>
DeleteOf == IF table = Memory THEN <<"unindex", "delete", "commit">> ELSE <<"delete", "commit">>

Effect(statement, i, doc) ==
  CASE statement = "upsert" -> [now EXCEPT !.rows = Upsert(@, i, doc)]
    [] statement = "unindex" -> [now EXCEPT !.index[i] = <<>>]
    [] statement = "index" -> [now EXCEPT !.index[i] = Append(@, doc)]
    [] statement = "delete" -> [now EXCEPT !.rows[i] = None]
    [] OTHER -> now

-----------------------------------------------------------------------------
Rest == [todo |-> <<>>]
Busy == {t \in Thread : thread[t] # Rest}

TypeOK ==
  /\ table \in DOMAIN Tables
  /\ \A m \in {now, disk} : \A i \in Id : (m.rows[i].there => m.rows[i].doc \in Doc) /\ m.index[i] \in Seq(Doc)
  /\ \A t \in Busy : thread[t].id \in Id /\ thread[t].alone \in BOOLEAN
  /\ spoiled \subseteq Id

Init ==
  /\ table \in DOMAIN Tables
  /\ now = [rows |-> [i \in Id |-> None], index |-> [i \in Id |-> <<>>]]
  /\ disk = now
  /\ thread = [t \in Thread |-> Rest]
  /\ spoiled = {} /\ calls = 0 /\ mishaps = 0

\* A call begins on row i; whoever is at the same row is no longer alone.
Begin(t, i, todo, doc) ==
  LET others == {u \in Busy : thread[u].id = i} IN
  /\ thread[t] = Rest /\ calls < MaxCalls
  /\ calls' = calls + 1
  /\ thread' = [u \in Thread |->
       IF u = t THEN [todo |-> todo, id |-> i, doc |-> doc, alone |-> others = {}]
       ELSE IF u \in others THEN [thread[u] EXCEPT !.alone = FALSE] ELSE thread[u]]
  /\ spoiled' = IF others = {} THEN spoiled ELSE spoiled \cup {i}
  /\ UNCHANGED <<table, now, disk, mishaps>>

\* save: what the program never changes is as the row was made (rows 0 and 1
\* differ in it), the rest is one or the other.
Save(t, i) == \E v \in 0..1 : Begin(t, i, SaveOf, [f \in Fields |-> IF f \in T.changes THEN v ELSE i])

Delete(t, i) == /\ i \in There
                /\ Begin(t, i, DeleteOf, now.rows[i].doc)

\* The next statement.  A commit keeps all that was run on the connection, by
\* whomever; a call that was alone has put its row in order.
Statement(t) ==
  LET w == thread[t]  s == Head(w.todo) IN
  /\ t \in Busy
  /\ now' = Effect(s, w.id, w.doc)
  /\ disk' = IF s = "commit" THEN now ELSE disk
  /\ thread' = [thread EXCEPT ![t] = IF s = "commit" THEN Rest ELSE [w EXCEPT !.todo = Tail(@)]]
  /\ spoiled' = IF s = "commit" /\ w.alone THEN spoiled \ {w.id} ELSE spoiled
  /\ UNCHANGED <<table, calls, mishaps>>

\* A statement raises (the file is locked, the disk full): the call ends there
\* and nothing is rolled back.
Raise(t) ==
  /\ t \in Busy /\ mishaps < MaxMishaps
  /\ thread' = [thread EXCEPT ![t] = Rest]
  /\ spoiled' = spoiled \cup {thread[t].id}
  /\ mishaps' = mishaps + 1
  /\ UNCHANGED <<table, now, disk, calls>>

\* The process dies; the next one finds what was committed.
Crash ==
  /\ mishaps < MaxMishaps
  /\ now' = disk
  /\ thread' = [t \in Thread |-> Rest]
  /\ spoiled' = spoiled \cup {thread[t].id : t \in Busy}
  /\ mishaps' = mishaps + 1
  /\ UNCHANGED <<table, disk, calls>>

Next ==
  \/ \E t \in Thread, i \in Id : Save(t, i) \/ Delete(t, i)
  \/ \E t \in Thread : Statement(t) \/ Raise(t)
  \/ Crash

Spec == Init /\ [][Next]_vars

-----------------------------------------------------------------------------
\* list, and the counts: by the copies.
listed(f, v) == {i \in There : now.rows[i].copy[f] = v}

\* search by text: what the index names and the table still has, without what
\* is archived unless it is asked for.  (list of memory_records takes archived
\* ones along in any case.)
hits(i, include_archived) ==
  IF i \in There /\ (include_archived \/ now.rows[i].doc["archived"] = 0) THEN Len(now.index[i]) ELSE 0

Quiet(i) == i \notin spoiled /\ \A t \in Busy : thread[t].id # i

\* What is listed by a field is what has it in its document: the fields of which
\* a save leaves the copy as it was are those that no part of the program changes.
ListsAreTrue == \A f \in T.by, v \in 0..1 : f \in T.columns => listed(f, v) = {i \in There : now.rows[i].doc[f] = v}

\* "reindexar sem remover a linha antiga duplicaria o registro na busca"
\* (MemoryRepository.save): a search finds each record once, with its present
\* text, and an archived one only when asked - but for records that were saved
\* or deleted by two threads at once, or by one that failed or died, until they
\* are saved again.
SearchFindsOnce ==
  table = Memory =>
    \A i \in Id : Quiet(i) =>
      /\ hits(i, TRUE) = IF i \in There THEN 1 ELSE 0
      /\ hits(i, FALSE) = IF i \in There /\ now.rows[i].doc["archived"] = 0 THEN 1 ELSE 0
      /\ i \in There => now.index[i] = <<now.rows[i].doc>>
      /\ i \notin There => now.index[i] = <<>>
=============================================================================
