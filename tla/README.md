# Formal models of the Enterprise AGI Runtime

TLA+ specifications of the parts of the runtime (`src/egr/`) whose correctness
depends on order: who wrote a row last, what a crash left behind, which human
decision pays for which action, which copy of a setting decided.  TLC checks
them on small instances; TLAPS proves the most important properties for every
instance.

Definitions keep the names of the code.  `PROJECT.json` names, for every
definition, the lines it stands for, and lists the runs, the hazards with the
properties that guard them, the disagreements between code and documentation,
and the theorems.

## 1. The system

The runtime is a Python program over one SQLite file.  A FastAPI server (sync
endpoints in a thread pool), CLI commands, a queue worker, a scheduler tick and
channel gateways all build the same `Runtime` object and work on the same
database.  Five facts shape every model here:

* **Rows are written whole.**  A repository's `save` is an upsert of the whole
  object followed by a commit.  There is no version column: the last writer
  wins, with whatever copy it read earlier.
* **A process shares one connection.**  `storage/database.py` has a lock per
  statement.  `transaction()` (used by the ledger) commits or rolls back
  whatever the connection has pending, also what another thread began.
* **A process decides by what it has read.**  Policies, connectors, settings and
  loaded code live in the memory of each process; another process that changes
  the table or the file does not tell it.
* **Work happens before it is recorded.**  Tools and HTTP calls act first, the
  row is saved afterwards: a crash in between forgets the act.
* **Nothing restarts by itself.**  After a crash a task, run or job is where its
  row says, until somebody calls `resume`, `run` or `drain`.

### Components

| Component | State | Operations | Talks to | What makes it correct |
|---|---|---|---|---|
| Task and agent engine (`runtime/agent_engine.py`, `task_engine.py`, `runtime.py`) | tasks (status, plan, cursor, pending step), approvals | submit, run, resume, cancel, approve, deny | policy engine, tools, ledger | nothing gated without a decision; the plan in order; records tell what was done |
| Workflow engine (`runtime/workflow_engine.py`) | workflow_runs (status of each step and its task) | start, resume, cancel | task engine, scheduler, triggers | dependencies first, bounded retries, truthful rows |
| Audit ledger (`audit/ledger.py`) | events, a hash chain | record, verify | everybody calls record | appends are atomic; verify is exact |
| Audit export (`audit/export.py`) | a file of rows and a manifest | export, verify | ledger | complete when it says so; edits are seen |
| Integration queue (`integrations/service.py`, `worker.py`) | integration_jobs | enqueue, drain, cancel | connectors | every promise ends; attempts bounded; one job per key |
| Inbound events (`integrations/service.py`, `runtime/events.py`, `triggers.py`) | integration_events, subscribers | receive, publish, enable | event bus, workflow engine | once, verified, visible |
| Connectors (`integrations/service.py`, `transports.py`) | connectors, integration_calls, a registry in each process | register, sync, enable, call, test | policy engine, other systems | on record, within what is allowed, memory agrees with the table |
| Scheduler, cron (`runtime/scheduler.py`, `orchestration/cron.py`) | none: asks workflow_runs | due, tick, loop | workflow engine | no more than one start a minute, none missed |
| Database triggers (`storage/triggers.py`) | db_triggers, db_events, triggers of SQLite | install, boot, drain, uninstall | event bus | each change published, in order |
| Coordination (`orchestration/coordination.py`) | negotiations, the task's agent and handoffs | negotiate, handoff | task engine | the best bid; a limit of handoffs |
| Delegation (`tools/builtins/delegate.py`) | child tasks, reviews | delegate, review, escalate | task engine | bounded depth and rounds; a delivery that was accepted stands |
| Release governance (`release/`) | releases, votes, versions, environments | create, submit, approve, sign, reject, deploy, rollback | workbench, identity | quorum, veto; deployed is what was approved |
| Workbench (`dev/workbench.py`) | change proposals, files, backups, loaded code | propose, validate, trial, approve, reject, apply, restart | registries | only approved content is written; a refusal stands |
| Vertical packs (`packs/service.py`, `catalog.py`) | installed packs, manifests, files | propose, update, materialize, remove | proposals | no edit is lost; the record is what is on disk |
| Model gateway (`models/gateway.py`, `security/data_boundary.py`) | model_calls | complete | providers | budget, boundary, order of fallback |
| Policy engine (`policies/engine.py`, `conditions.py`) | policies: files, table, memory | evaluate, sync, install | everybody | first rule decides; unknown facts do not hold |
| Policies and tools of the program (`policies/defaults.py`, `tools/builtins/`) | settings of each process, one pending step | authorize, approve, execute | policy engine | risk waits for a human; forbidden stays inside |
| Script sandbox (`tools/sandbox.py`, `python_exec.py`) | one directory, artifacts, containers | run, collect | container runtime | never a weaker backend than was asked; each run its own files |
| Vault and keys (`security/vault.py`, `keystore.py`) | secrets, master key, key history | init, put, delete, rotate | everybody | what is stored can be read |
| Identity (`security/identity.py`, `rbac.py`, `sso.py`) | principals, tokens | create, issue, revoke, authenticate, SSO login, decide | IdP, approvals | what is withdrawn stays so; the right ones decide |
| Messaging gateway (`gateway/`) | bindings, messages, attachments, the polling offset | pair, unpair, block, handle, poll, fetch | task engine, identity | blocked is silent; no message skipped |
| Memory (`memory/service.py`) | memory_records, vectors, text index | write, search, archive, forget, consolidate, reindex | - | one of what is merged survives; forgotten leaves no vector |
| Evaluation (`evaluation/`) | evaluation_runs | run, judge, compare, load | agents, release gates | a run that passed met its thresholds |
| Storage (`storage/repositories.py`, `database.py`) | every table | save, list, delete | everybody | the columns queries look at agree with the rows |
| API, CLI, TUI (`api/`, `cli/`, `tui/`) | - | call the runtime | everybody | - |

What is hard in them: callers that overlap (threads and processes on one row),
decisions taken after the state they were asked about has changed, copies in
memory that are behind the table, crashes between an act and its record,
deliveries that come again, waits and retries, lists that are compared with what
they were when they were read, and pauses in the middle of a parallel level.

## 2. Modules

| Module | Models | Checked in |
|---|---|---|
| `TaskEngine` | one task, its approvals, its callers | `MCTaskEngine`; `TaskEngineProofs` |
| `AuditLedger` | `record` step by step in threads and processes, `verify` | `MCAuditLedger`; `AuditLedgerProofs` |
| `AtomicLedger` | abstract: a chain that grows by whole rows | refined by `AuditLedger` |
| `IntegrationQueue` | jobs, drains, cancels, waits | `MCIntegrationQueue`; `IntegrationQueueProofs` |
| `WorkflowRun` | one run of a workflow, its callers and their threads | `MCWorkflowRun`; `WorkflowRunProofs` |
| `ReleaseGovernance` | releases, the files and revisions they promote, votes, calls | `MCReleaseGovernance`; `ReleaseGovernanceProofs` |
| `InboundEvents` | deliveries, the event bus, the workflow that listens | `MCStarts`; `StartsProofs` |
| `Scheduler` | ticks, runs, cron expressions | `MCStarts`; `StartsProofs` |
| `OnceAMinute` | abstract: no more than one start for a minute | refined by `Scheduler` |
| `DbTriggers` | triggers of SQLite, their queue, drains | `MCStarts`; `StartsProofs` |
| `Supervision` | a tree of tasks, the call stacks they run on, handoff | `MCWork` |
| `Negotiation` | bids and strategies while tasks come and go | `MCWork` |
| `ModelGateway` | requests, budget, providers | `MCWork`; `WorkProofs` |
| `Memory` | records, vectors, consolidation | `MCWork`; `WorkProofs` |
| `Repositories` | rows, their columns, one shared connection | `MCWork`; `WorkProofs` |
| `Workbench` | proposals, files, backups, loaded code | `MCWork`; `WorkProofs` |
| `VerticalPacks` | one pack, its files, its record, its updates | `MCWork`; `WorkProofs` |
| `Evaluation` | runs of a suite, judgements, comparisons, loads | `MCWork`; `WorkProofs` |
| `Secrets` | vault, master key, rotation | `MCEdge`; `EdgeProofs` |
| `Identity` | principals, tokens, SSO, decisions | `MCEdge`; `EdgeProofs` |
| `Messaging` | pairing, blocking, the way of a message | `MCEdge`; `EdgeProofs` |
| `Attachments` | files that come with a message | `MCEdge`; `EdgeProofs` |
| `ChannelLoop` | the polling loop and the Bot API | `MCEdge`; `EdgeProofs` |
| `ChannelCommands` | what a channel's people ask for: tasks, decisions, files | `MCEdge`; `EdgeProofs` |
| `Authorization` | all rules and tools the program brings | `MCEdge`; `EdgeProofs` |
| `Connectors` | registry, table, calls | `MCEdge`; `EdgeProofs` |
| `Sandbox` | scripts in one directory | `MCEdge`; `EdgeProofs` |
| `AuditExport` | export and its verification | `MCEdge`; `EdgeProofs` |
| `Edge` | what these meet at: their constants, variables and properties | `MCEdge`; `EdgeProofs` |
| `PolicyEngine` | evaluation, and how policies come into force | `MCEdge` |

The modules meet at the database: `WorkflowRun` sees of a task what
`TaskEngine` promises (it ends, or stops at an approval that a human decides
later, outside the run); `InboundEvents`, `Scheduler` and `DbTriggers` end where
a run would start; a call of `Connectors` is one attempt of `IntegrationQueue`;
`Edit` of `ReleaseGovernance` is what `Workbench` and `VerticalPacks` do to a
file, its `Evaluate` and `Judge` what `Evaluation` does to a run.

**Composites.**  Modules that share no variable need no interleaving with each
other.  `MCStarts`, `MCWork` and `MCEdge` instantiate several of them and have a
variable `part` that is chosen once: the chosen module moves, the others keep a
single initial state.  (`MCEdge` takes its instances from `Edge`, all but
`PolicyEngine`, so that theorems can be stated about them.)  The states of such a run are the sum, not the product, of
those of its modules, and each invariant reads `part = "..." => ...`, but for
`EventsAreWorkOnce` and `ProposalsAreDecided`, which the other parts leave at the
initial states of their modules.

### TaskEngine

`task` and `approvals` are the rows; `caller[c]` is one Python call in progress:
its place in the code and its private copy of the task.  A step of the
specification goes from one save, tool execution or read to the next, so that
callers interleave exactly where their saves and effects do.  `Begin`,
`UsePlan`/`MakePlan`, `RequestApproval`, `Pause`, `DenyByPolicy`, `Execute`,
`RecordStep` and `Finish` are the loop of `AgentEngine.run`; `LoadApproved`,
`ResumeNothing`, `ResumeDenied`, `ExecuteApproved` and `RecordApproved` are
`approve` followed by `resume_after_approval`; `LoadDenied` and `RecordDenied`
are the rest of `deny`.  `Reload` changes the policies between two steps.
`effects` and `decisions` are ghosts: what tools did, what humans said.  A tool
is its `ok`; a model is the plan it returns, or a refusal.  `AutoApprove` is
`auto_approve_in_development`.  `Redecide` tells whether approvals already
decided may be decided again, as `approve` and `deny` allow.

### AuditLedger and AtomicLedger

A digest is the sequence of everything chained into it (no collisions).
`Acquire`, `ReadLast`, `Insert` or `InsertFails`, and `Return` are `record`;
there is a lock in each process, as in the code.  `Broken` is what `verify`
reports.  `Tamper` rewrites a row in the file, which is what the chain is for.
The refinement maps the rows and the ghost `recorded` to themselves.

### IntegrationQueue

`worker[w]` is one `drain` and its copies of the due rows, `human[h]` one
`cancel` between its read and its write.  `wait` is the time to `next_attempt`,
and `Tick` lets it pass.  `Attempt` is `ConnectorService.call`: the other system
says ok; or it does not (refused by policy, no such connector, an error over
there); or it did what was asked and the answer is lost (a timeout, a cut
connection), which the code takes for any other error.  `called`, `accepted`,
`lost` and `shared` are ghosts: calls made, how often the other system did what
was asked, how often without an answer, jobs that two drains held at once.

### WorkflowRun

`run` is the row; `caller[c]` is a call of `start`, `resume` or `cancel`, its
copy of the run, the steps of the levels it has behind it (`resolved`), and one
thread for each step of the level it is at (`Level`: the steps whose dependencies
are all resolved, which is the round of Kahn's algorithm that `levels` makes).
Workflows have no cycle, which loading one checks: `WorkflowAssumption`.  A thread goes through `StartStep` (condition),
`CreateTask`, `RunTask`, and `StepEnds`, `RetryStep` or `StepFails`, which goes
on with the compensator in the same thread.  A cancel goes from step to step:
`CancelTask` looks whether the task has ended, `CancelTaskSave` (`TaskEngine.cancel`)
writes it as cancelled, whatever it has come to in between, and `CancelSave`
writes the copy of the run at last; `result` of a task is a ghost, what its work
came to.  All threads of a caller share its
copy, and each save writes all of it, also the marks of the others.  `Decide` is
the human, who acts on the task and not on the run.  An exception that leaves
`_run_step` leaves the row as a `Crash` would.  Steps of a sequential level are
taken in any order; the code takes them by id.

### ReleaseGovernance

`rows[r]` is the release, `files[a]` an artifact in the workspace (its content
and the environment it declares), `versions[a]` its revisions, `evaluations[a]`
whether each of its evaluations passed.  `caller[c]` is a call with its private
copy of the row.  `Create`, `Load`, `LoadVote`, `LoadVeto`, `LoadSign` and
`LoadRollback` read a row under the guards of the operation; `Check` runs the
gates and saves, as `submit` and `deploy` do first of all; `SaveCall` and
`SaveWhole` save the copy.  A deployment goes, item by item, through
`WriteItem`, `SetEnvironment`, `ReadVersion` and `SaveVersion`; a rollback
through the first two; `create` through the last two.  `Edit` is
`Workbench.apply` (or an editor), `Evaluate` the end of an evaluation, `Judge`
the fall of one that passed, when its quality is judged afterwards.  Nothing in
the code looks at the environment an edited file declares, so `Edit` takes any of
`Declared`.  Of the
manifest only the evidence can change after `create`, so `approved` and `signed`
keep the evidence that was voted on and signed.  `applied` is a ghost: what
deployments wrote.  `overlaps` counts the times somebody acted while a call was
in progress.  What a `Check` reads (files, evaluations, releases) it reads in
one step; items are taken in any order, the code takes them as listed; the
newest 100 releases and revisions the code looks at are all there are.  The
author's vote counts only where one vote is enough (`allow_self_approval` off).

### What starts work: InboundEvents, Scheduler, DbTriggers

`InboundEvents`: one delivery at a time is handled (`integration_receive` is an
async endpoint that awaits nothing on the way): `Deliver`, then
`RejectDisabled`, `Duplicate`, `RejectSignature`/`SaveRejected`, or `Accept`,
`PublishReceived`, with `Notify` for the subscriber.  `listens` is what the
workflow's `trigger.event` matches; the runtime publishes
`integration.event_received` or `.event_rejected`, while the status "triggered"
is computed from the type the connector declares: the model keeps the two apart.
`Bound` tells whether the workflows were bound to the bus: `bind_triggers`
(`runtime/runtime.py:859`) has no caller under `src/egr`.

`Scheduler`: `Tick` reads the clock, `Due` makes the list (what matches the
minute and has no run `created` in it), `Start` starts the next of the list, by
the order in which workflows are loaded, `EndTick` comes back.  A start runs the whole workflow, so `Advance` may fall
between two of them, and a run carries the minute it was *created* in, which need
not be the one it was due in.  `StartByHand` is a run of `egr workflow run`.
`Matches` is `CronExpression.matches` on a clock of four minutes.  The ghost
`alone` of a tick is false once another tick is under way at the same time, and
`starts` is what ticks that met no other have started, which `StartedOnce` maps
to `OnceAMinute`.

`DbTriggers`: `Change` is a statement on a watched table, whose event SQLite
queues in the same transaction, under the number of the change (`queue` maps numbers
to events, as `created_at` and `rowid` order them); `Drain`, `Publish`, `Mark` are `drain`, event by
event; `Install`, `Boot` and `Uninstall` go through `CreateTrigger`,
`SaveTrigger`, `DropTrigger`, `ClearEvents` and `DeleteRow`, each of which the
code commits by itself.

### What work is done with

`Supervision`: a task is its row, its parent and the agent whose plan it
follows; `stack[c]` the runs a call is in the middle of, because `task.delegate`
runs the child inside the step of the parent.  `Delegate` checks depth and cycle,
`CreateChild` saves the row, `Deepen` the depth (a second save), `ChildEnds`,
`Revise`, `Accept` and `Escalate` are the review.  `Handoff` checks,
`HandoffSave` writes the task back to pending with its plan, its pending step
and its open approval as they were.

`Negotiation`: `Begin` fixes the candidates, `NextBid` makes one bid at a time,
`Choose` applies the strategy and records the outcome.

`ModelGateway`: `EnforceBudget` compares, `Route` orders the providers, `Try`
checks the boundary and cuts the conversation for the next one, `Answer` or a
failure, `Book` writes the cost.  Sizes stand for texts; a message is its place in
the conversation, a provider its place in the order of the routing strategy.

`Memory`: a copy is a function from identifiers to rows as they were read.  A
search returns any set of live records as hits and `Reinforce` writes the copies
back one by one, whichever is best first.  `Consolidate` reads what it scans, `Heal`
gives vectors to those that have none, `Compare` takes the newest that is left,
looks for a survivor it is near to and archives the one that counts less, `Prune`
deletes what was archived long ago.  Identifiers are in the order of creation.

`Repositories`: `Save` and `Delete` are lists of statements, `Statement` runs the
next one on the shared connection, whose uncommitted part a commit of any thread
makes durable; `Raise` leaves it pending, `Crash` loses it.  `Table` names, for
each repository, the columns beside the document and those an upsert rewrites.

`Workbench`: `Load` copies the row, `Save` writes it back with what the
operation decides; `apply` goes through `Backup`, `Write` and `Reload`.  The
validators and the trial are an outcome for each content.

`VerticalPacks`: contents are versions; `own` is what somebody edited.  `Update`
makes the plan, `SavePlan` stores it in the proposal, `Apply` walks it file by
file (`WriteFile`), then `SaveRecord` and `SaveApplied`; `Remove` unlinks what
still has the recorded digest.

`Evaluation`: cases run one by one (`RunCase`), `Verdict` compares with the
baseline and saves, `Judge` saves the judged verdict over it; `compare` sets the
provider of the agent that all callers share, `Restore` sets it back.  A load is
a function of its counts (`load_verdict`), checked over all of `Loads`.

### Who and what goes in and out

`Secrets`: keys are numbers.  `InitKey` creates one (with `force` over the one
there is, which loses the secrets), `Rotate` begins, `WriteKey` puts the new key over the old one, `ListRecords` and `Recipher` go row by row,
`RecordKey` writes the history; `Put` encrypts with the key it has read,
`SavePut` writes.

`Identity`: `Authenticate` reads the token, `ReadPrincipal` its owner, and both
are written back (`SaveToken`, `SaveSeen`); an SSO `Login` provisions, reads
again, synchronises the roles and notes the login, each a save of the whole row.
Decisions on approvals are taken in the step that has the principal in hand.

`Messaging`: `Receive` to `Serve` is `handle_inbound` (binding, log, rate,
principal, answer), `Pair` and `Unpair` the operator's commands, row by row.

`Attachments`: `RefuseUnread` (too many, or a declared size, an extension or a type
that `ContentPolicy` refuses; one with neither extension nor type passes), `Fetch`,
`ChooseName`, `Write`, `SaveRow`, `Link`.  `ChannelLoop`: `Poll` asks for updates from
`offset` on and thereby confirms the earlier ones; `Die` forgets the offset.

`ChannelCommands`: a message is let in with the principal as he is (`Message`, or
`Press` of a button, whenever); `Run` and `Choices` do a task and offer buttons,
`Decide`, `Authorize`, `SaveDecision` and `Resume` are `/aprovar` and `/recusar`
through `runtime.approve` and `deny`, with people, the agent's area, the approval
and files changing in between; `Attachment`, `FileChecked` and `Deliver` hand
files out.  What a resumed task does is any outcome (`TaskEngine` has the rest); a
file that came with a message is kept and linked in one step (`Attachments` has
the steps).

`PolicyEngine`: conditions are trees (`op`, `args`) evaluated with three
outcomes (true, false, raises) over the facts at hand; `Decision` is `evaluate`.
`Sync`, `SavePolicy`, `Install` and `Start` bring policies from files to the
table to the memory of a process.

`Authorization`: every rule of the baseline and the guard, and all builtin
tools with their risk and their own guards; the five facts that the arguments of
a step cannot replace (`environment`, `risk` and the like) are taken from the
step.  `Propose` takes a step through
`authorize`, `Approve` is a human's yes and the second authorization by whoever
resumes, `ByHand` an operator's own call.  Settings are read at start
(`Restart`); `Edit` changes the file.

`Connectors`: `Begin` to `Record` is a call (connector, `Precheck`, policy,
transport, row and trail); `Switch` and `Register`, and a sync (`Sync`,
`SaveDeclared` for each connector a file declares, `ReadTable`, `Load`), change
table and registry.  A statement or a document is its first word, which is what the
code looks at, and whether it really changes something; a change that begins with a
word for reading is `Disguised`.

`Sandbox`: `Snapshot`, `Backend`, `Script` (one file at a time), `Ends` or
timeout, `Collect`; `Daemon` stops and starts the container runtime, `Orphan`
is a container that writes after its timeout.

`AuditExport`: `Begin`, `Scan` (a chunk), the head, `Write`; `Edit` changes the
file as somebody without the hash could; `valid` and `complete` are
`verify_export_file`.

## 3. What the runs show

| Run | Instance | States | Shows |
|---|---|---|---|
| `TaskEngine_concurrent` | 2 callers, plan of 2 steps, 3 policies, 3 calls, 1 crash, 1 policy change | 423k | `TypeOK`, `GatedEffectsAreDecided`, `RecordsAreReal` |
| `TaskEngine_alone` | 1 caller at a time, 3 plans, 6 calls, 2 crashes | 87k | `RunFollowsPlan`, `ApprovalCoversEffect`, `CallsReturn` |
| `AuditLedger_threads` | 3 threads of a process, 4 records, 1 crash, 2 rewritten rows | 359k | `TypeOK`, `VerifyIsExact`, `RecordIsAtomic` (refinement) |
| `IntegrationQueue_drains` | 2 drains, 1 cancel, 2 jobs, 2 attempts, 1 crash, 1 lost answer of each job | 1.03M | `TypeOK`, `GivenUpAfterAttempts`, `JobsAreHonest`, `CalledOnce`, `EveryJobEnds` |
| `WorkflowRun_calls` | 2 callers, 2 calls, 1 crash, 3 workflows of 2 steps | 307k | `DependenciesFirst`, `TriesAreCounted`, `RowIsTrue`, `EndIsEarned` |
| `ReleaseGovernance_path` | 1 artifact, a release to staging and one to production, 3 voters, 2 callers, 1 edit (declaring staging) or judgement, 2 evaluations, 1 overlap or death, 3 of these in all | 1.06M | `TypeOK`, `ApprovalIsEarned`, `DeployedAsApproved`, `AppliedInOrder`, `RollbackIsExact`, `FollowsLifecycle` |
| `Starts` | webhook: 3 deliveries of 2 events, 1 crash, 1 switch of the connector, all patterns; clock: 2 tickers, 3 ticks, 4 minutes, 5 expressions, 1 start by hand, 1 death; changes: 2 callers, 2 triggers, 3 changes, 4 calls, drains of 2 | 385k | `EventsAreWorkOnce`, `NothingIsMissed`, `ChangesAreDrained`, `StartedOnce` (refinement) |
| `Work` | delegation 304k, models 152k, memory 36k, storage 12k, proposals 129k, packs 80k, negotiation 58k, evaluation 188k; 2 callers each | 957k | `WorkIsShared`, `ModelsAreGoverned`, `RecordsAreKept`, `ProposalsAreDecided`, `PacksKeepEdits`, `EvaluationsAreHonest` |
| `Edge` | secrets 158k, identity 47k, messaging 25k, attachments 7k, loop 19k, policies 4k, authorization 7k, connectors 88k, scripts 189k, export 66k, commands 117k; 2 callers or 2 processes | 729k | `SecretsAreKept`, `AccessIsDecided`, `SendersAreHeld`, `NothingIsDropped`, `PoliciesDecide`, `ToolsStayInside` |
| `WorkflowRun_approved` | 1 caller: start, resume | - | violated: `StepDoneOnce` |
| `ReleaseGovernance_gates` | 1 caller, 1 edit, 1 evaluation | - | violated: `DeployedWasClean` |
| `Edge_rotation` | 2 callers, 3 keys, 1 put, a key from the environment, forced rotations | - | violated: `RotationKeepsSecrets` |

The properties of the composite runs are conjunctions, one part for each module:

| Property | Says |
|---|---|
| `EventsAreWorkOnce` | an event is accepted once whatever is delivered again; what was accepted is published, except for a crash in between; only verified events start work |
| `NothingIsMissed`, `StartedOnce` | a tick that came back left no workflow of its minute behind; ticks that met no other start a workflow no more than once for a minute, and only in minutes its expression names |
| `ChangesAreDrained` | no event of a trigger is lost, they are published in the order of the changes and again only after a death; SQLite and the table agree on the triggers |
| `WorkIsShared` | depth and rounds of delegation are bounded, an accepted delivery stays completed, handoffs are counted; a negotiation picks somebody nobody beats |
| `ModelsAreGoverned` | a budget is exceeded only by what was under way; nothing leaves that must not; a conversation that is cut keeps its system messages and its tail |
| `RecordsAreKept` | of what consolidation merges one record survives; what was forgotten leaves neither record nor vector; columns and text index agree with the rows |
| `ProposalsAreDecided` | what is written was approved after it had passed; what is loaded is sound; a refusal stands; a backup is what was there before |
| `PacksKeepEdits` | no update writes over what was edited when it was planned, no removal deletes edits; the record is what is on disk, but for files an earlier version had |
| `EvaluationsAreHonest` | a run that passed met its thresholds (passed cases, cost, p95 of the times, regressions, findings) against a baseline that had passed, or was named, or was still to be judged; `compare` gives the provider back, until callers cross; a load's verdict is the one its numbers ask for |
| `SecretsAreKept` | no rotation, finished or dead, brings an old or deleted value back unless another call runs into it; where nothing died, no key was thrown away and none comes from the environment, every secret opens at rest |
| `AccessIsDecided` | revoked tokens and disabled principals stay so; whoever decided was entitled |
| `SendersAreHeld` | a blocked sender is not served; nobody is served beyond the limit of a minute; decisions of a channel are taken by people who still reach the area and, where an identity is required, still have the permission and the role; files go to whom they belong and come from the declared roots |
| `NothingIsDropped` | a stored file is at its row; nothing is fetched whose declared size, extension or type is refused; no update of a channel is skipped; a complete export is complete |
| `PoliciesDecide` | the first rule that speaks decides, unknown facts do not make a condition hold |
| `ToolsStayInside` | high risk waits for a human in production, what is forbidden or switched off is not done, what is always asked is always asked; every call is on record, goes to a host on the list and, where the connector only reads, changes nothing but in disguise; a registry is what the table says; a script never falls back to a weaker backend and its files are its own |

Every property of a passing run has at least one mutant in `PROJECT.json` (the
conjunctions one for each part that matters): a change of one mapped definition,
as a plausible bug would make it, that breaks the property under the same
configuration.

**Bounds.**  Two steps are what it takes to have a step before and one after the
one that waits; three calls are submit, decide and decide again; a second caller
is enough for any race on one row, since rows are written whole.  Two jobs and
`Batch` 2 make a drain hold one copy while it works on another; two attempts
make a job fail, wait and be exhausted, one lost answer of each job (`MaxLost`) makes
what was done be asked again.  The ledger needs two records to fork
and a third thread to chain to either.  Two-step workflows come in three shapes:
one behind the other, side by side, and one undoing the other.  A release to
staging and one to production are the whole ladder; two votes without the
author's need three people (staging asks for two, production for one); an edit
that declares staging is the one that can skip a step of the ladder; two
evaluations let the evidence change after the votes, a judgement lets the older
come back; one artifact leaves out deployments that stop between two items,
which `Crash` between the steps of one stands for.  `MaxAccidents` bounds
overlaps and deaths together: one overlap is enough for two calls on one row, one
death for a deployment or rollback to be repeated.  What people change beside the
ladder (`Few` of `MCReleaseGovernance`: edits, late judgements, overlaps, deaths
and evaluations) is three in all: each artifact needs one evaluation to pass the
gates, so a release meets any two of the others.

In `Starts`, a crash of the webhook before and a delivery again after it are the
loss, and a third delivery is another event beside them; a start by hand and a death of a ticker each disturb the clock, not both in
one run (`Few`); three ticks are two that overlap and one after them, four minutes
let a start outlast its own; three changes and drains of two make a drain leave
something behind, four calls uninstall and install again beside a drain.  In
`Work`, depth 2 and four tasks are a child with a child and one more round; three
records make a winner lose to a third; four calls on proposals are propose,
validate, approve and apply, beside one overlap or one mishap (`Few`); five on packs go
from one version over an edit to the next, or to removal; five on memory are three
records, a consolidation and what comes beside it; three requests against a budget
two can exceed together, two where the budget only warns or one was lost in a crash
(`FewCompletions`).  In `Edge`, three keys are two rotations, three
puts overlap both; four calls on identities are issue, authenticate or log in,
revoke or disable, and one more beside them; two commands and three messages pair
and block while messages are under way; two messages bring files of one name; four updates are two answers of the Bot API; five rows
are two chunks of an export and one more recorded meanwhile;
two messages of a channel are a task and a decision on it, one change lies between,
where there is a decision to overtake (`FewShifts`); a script of which the container
went on writes one file, as one does where only containers are allowed (`Few`).

**Deadlock** is checked where the system never has to stop; the composites
(`Starts`, `Work`, `Edge`) and `Edge_rotation` say `CHECK_DEADLOCK FALSE`, because their
bounded calls end.  **Symmetry** is used over callers, agents, tickers, event
ids and the two voters who are alike: none of the properties of those runs is a liveness
property or names one of them.

**Fairness.**  `TaskEngine.FairSpec`: a call in progress goes on, because its
thread is scheduled; nobody has to call, crash or decide.
`IntegrationQueue.FairSpec`: `QueueWorker.run` drains again and again, so a due
job is eventually worked on, and time passes.  Crashes are bounded, so they
cannot starve a job for ever.  No fairness is assumed of humans, suppliers or
operators.

**Refinements.**  `AuditLedger` implements `AtomicLedger` (rows and the ghost
`recorded` map to themselves); `Scheduler` implements `OnceAMinute` (a start is
what a tick that met no other started, by the minute it was due in).  Both are
also proved.

**Conditions in the properties.**  Some promises hold only while callers do not
overlap or nobody dies; the property says so itself (`crashes = 0`,
`~overlapped`, `~shared`, `~twice`, `~crossed`, `Id \ shared`, `overlaps = 0`,
`alone`), the runs go through both sides of it, and section 5 says what happens
otherwise.

## 4. What is proved

All theorems are of the specifications with arbitrary constants: any callers,
steps, plans, workflows, releases, events, and any bounds.  The named assumptions
of the modules say no more of the constants than that sets are finite, bounds are
numbers and special values are none of the others, but for `WorkflowAssumption`
(no cycle among the steps), `ClockAssumption` (a workflow is loaded under one name
only, and the clock starts somewhere) and `ConnectorsAssumption` (a statement that
changes something begins with a word that says so, or with `WITH` or `PRAGMA`: what
`SELECT` or `EXPLAIN` begins changes nothing in SQLite, the only driver).  TLC evaluates
each of them on the instance of the run.  Where a theorem needs more it says so in
its `ASSUME`.  A property that is a conjunction over several modules is proved of
the conjunction of their specifications: they share no variable, and each is proved
by itself.

| Theorem | Says | Needs |
|---|---|---|
| `TypeCorrect` | `TaskEngine!TypeOK` | - |
| `NoGatedEffectWithoutDecision` | `GatedEffectsAreDecided` | - |
| `RecordsAreOfWorkDone` | `RecordsAreReal` | - |
| `ApprovalsCoverEffects` | `ApprovalCoversEffect` | `Alone` |
| `RunsFollowTheirPlan` | `RunFollowsPlan` | `Alone`, `StepsAreDistinct` |
| `LedgerTypes` | `AuditLedger!TypeOK` | - |
| `VerifyExact`, `LedgerIsAtomic` | `VerifyIsExact`, the refinement of `AtomicLedger` | `OneProcess` |
| `QueueTypes`, `NoFalseEnd` | `IntegrationQueue!TypeOK`, `GivenUpAfterAttempts` | - |
| `HonestJobs`, `JobsAreCalledOnce` | `JobsAreHonest`, `CalledOnce` | - |
| `RunTypeCorrect` | `WorkflowRun!TypeOK` | - |
| `DependenciesAreFirst`, `RowsAreTrue`, `EndsAreEarned` | `DependenciesFirst`, `RowIsTrue`, `EndIsEarned` | - |
| `StepsAreDoneOnce` | `DoneOnce`, half of `TriesAreCounted` | - |
| `TriesCounted` | `TriesAreCounted` | `NoChains` |
| `ReleaseTypes` | `ReleaseGovernance!TypeOK` | - |
| `ApprovalsAreEarned`, `DeploymentsAreAsApproved` | `ApprovalIsEarned`, `DeployedAsApproved` | - |
| `WrittenInOrder`, `ReleasesFollowLifecycle`, `RollbacksAreExact` | `AppliedInOrder`, `FollowsLifecycle`, `RollbackIsExact` | - |
| `EventsBecomeWorkOnce` | `EventsAreWorkOnce` | - |
| `SchedulerMissesNothing` | `NothingIsMissed` | `ClockAssumption` |
| `SchedulerStartsOnce` | `StartedOnce`, the refinement of `OnceAMinute` | `ClockAssumption` |
| `ChangesDrained` | `ChangesAreDrained` | `ChangesAssumption` |
| `WritesAreApproved` | what `apply` writes was approved after it had passed, what is loaded is sound | `WorkbenchAssumption` |
| `ProposalsDecided` | `ProposalsAreDecided` | `WorkbenchAssumption` |
| `PacksKept` | `PacksKeepEdits` | `PacksAssumption` |
| `EvaluationsHonest` | `EvaluationsAreHonest` | `EvaluationAssumption` |
| `RecordsKept` | `RecordsAreKept` | `MemoryAssumption` |
| `ModelsGoverned` | `ModelsAreGoverned` | `GatewayAssumption` |
| `SecretsKept` | `SecretsAreKept` | `SecretsAssumption` |
| `AccessDecided` | `AccessIsDecided` | `IdentityAssumption` |
| `SendersHeld` | `SendersAreHeld` | `MessagingAssumption`, `CommandsAssumption` |
| `NothingDropped` | `NothingIsDropped` | `AttachmentsAssumption`, `LoopAssumption`, `ExportAssumption` |
| `ToolsKept` | `ToolsStayInside` | `AuthorizationAssumption`, `ConnectorsAssumption`, `SandboxAssumption` |

The arguments, module by module:

* `TaskEngineProofs`.  Typing needs `PausesAtAStep`, because `Pause` names the
  step at the cursor.  `GatedEffectsAreDecided` alone is not inductive:
  `GatedInv` adds that calls in progress bear distinct numbers already given out
  (`CallsAreNumbered`) and that a caller about to run an approved step holds a
  decision of its own that it has not used (`ApproversHoldDecisions`).
  `RecordsAreReal` speaks of rows that stale copies are written over, so its
  invariant (`RealInv`) says of every copy what it says of the row: of no step
  does it claim more executions than there were effects.
  The second half is about one caller at a time, approvals decided while they
  are pending, policies that stay (`Alone`).  `AloneInv`: the task waits with the
  step at its cursor (`TaskInv`); one question at most is open and it is about that
  step (`AskedInv`); the caller's copy is the row, or what the row is about to
  become (`HoldsInv`); before the first crash the records are those of the first
  `cursor` steps (`Recorded`), and a question is open only while the task waits
  (`WaitsInv`).  The hypotheses are not there for the prover: section 5 says what
  happens to overlapping callers, under a policy that changes and in a plan whose
  steps share an id.  For the order of the effects `OrderInv` adds that none is
  beyond the step at the cursor, and that what was done again, with what a crash
  has lost and will be done again (`Lost`), is no more than there were crashes.
* `AuditLedgerProofs`.  From `LedgerInv`: whoever is inside holds the lock
  (`LockHeld`), so what was read is still last (`Fresh`), so every row names and
  continues the row before it (`Chained`).  Every step of the detailed ledger is
  a step of `AtomicLedger` or a stutter.  Without `OneProcess` it is not so: see
  section 5.
* `IntegrationQueueProofs`.  `CopiesAreReal`: no copy a drain or a cancel holds
  counts more attempts than were made, or says done without an accepted call.
  `KeysInv`: a copy keeps the idempotency key of its row.  `CalledOnce` is about
  the jobs no two drains held at once: `SinglesInv` says that a row or copy that may
  be tried again counts all calls made, but for one in each crash and one whose
  answer is still to be saved, and was accepted only where a crash or the way back
  lost the answer (`Accounted`), and that one drain at most holds it.
* `WorkflowRunProofs`.  `IInv` says of the row and of the copy of every caller,
  however stale, that it is true of the tasks (`Truthful`, `Done`), that what is
  skipped is skipped for a reason (`Skips`) and that steps are cancelled with their
  run only (`Whole`), since any of them may be written over any other; of a
  thread, where it is in its step or in the compensator of it (`Place`), that the
  task it runs is its own (`AtTask`, `Apart`) and that what its step depends on was
  done (`Grounded`); of a caller, that the levels behind it are settled (`Passed`).
  The end is earned because no step is left when no level is: that is where the
  assumption about cycles is used.
  That the rows of the tasks say so too is shown, for callers that met no other, by
  `AloneInv`: a caller that cancels is the only one at work, so the task it looked at
  is as it was, and what a copy shows as ended is ended in the row of its task (`Wrote`).
  `OnceInv`, for calls that do not overlap or die: what was done of a step that
  never waits is remembered by the copy at work, or by the thread that has seen its
  task end (`Covers`), and by the row when nobody is at work (`Remembered`).
  `TriesInv` says that each task can be told to be one attempt, in one thread, of
  one call (`Tries`), and that those of a call in progress lie behind its threads
  (`Accounts`): the next one is another.  The tasks of a step are then no more than
  there are such attempts.  `NoChains` says that compensators have none of their
  own: one that has is tried again for each failure before it, and compensators
  that call for one another in a circle, which `validate` lets through, go on as
  long as they fail.
* `ReleaseGovernanceProofs`.  A row is only as good as the copies that may be
  saved over it, so `IInv` says of every copy what it says of rows (`Earned`), and
  that a call past its guards still holds the row they let through (`Guarded`).
  `TypeOK` alone is not inductive either: captured revisions exist (`Captured`,
  since no revision is deleted), and the file whose environment is rewritten is
  there (`AtHand`).
  What is written is proved from what each action does, field by field.  The order of the environments holds whatever overlaps: `StagingInv` says that a
  row or copy that says deployed is of a release whose items were all written
  (`RowStaged`), and of a deployment what it has written so far (`CallStaged`);
  the gates of production let only such releases through.  The other properties speak of
  calls that did not overlap: `AloneInv` says that then the one call's copy
  agrees with its row, that revisions still hold what was captured (`Kept`), and
  that what a rollback has no longer to do is back (`CallAlone`), though calls
  may have died anywhere.
* `WorkProofs`, proposals.  `ApprovalInv`: an approval is earned by the row it is in, so
  any copy has earned what it says, for it was loaded from a row and may be saved over any
  (`Earned`), and a call past its guards holds the proposal they let through
  (`Guarded`).  A refusal is about one call at a time (`AloneInv`): what was
  written is of a proposal that is applied or being applied (`WrittenIsApplied`), so
  a refused one was never written, and what is on disk is in the backup before it is
  written over (`BackedUp`).
  Packs.  `PlansRespect`: a plan of an update names among its conflicts what was
  somebody's own when it was made, in the row and in the copy of whoever
  materializes it, so what is written over by a plan was nobody's.  `RecordInv`:
  while no calls overlap or die one caller is at work at most (`OneAtWork`), and
  what he has written so far is on the record he will save (`Recording`); what he
  has not yet touched is on the one he will replace.  The proof showed what the
  record forgets: a file that the installed version had and the next one has not
  stays on disk and is dropped from the record (`materialize` writes the record
  anew, `packs/service.py`), so no later removal finds it.
  Evaluations.  `JudgeInv`: whoever judges does so with a run of his own, that is
  still to be saved again, so the baseline of another, which was not to be judged
  any more, stays as it was; `GoodInv` says what a verdict compared (`Kept`) with
  the rows as they are now.  `ReturnInv`: until callers cross, whoever compares is
  alone and remembers the agent's own provider (`ComparesAlone`), and the cases of
  a run so far used the provider there is (`CasesUsed`).  That a run costs a number,
  which is a sum over its cases, is shown by looking at the first case where it
  would not (`EvalCost`), and that 95 of 100 cases stay within the limit when the
  p95 does (`EvalP95`) by taking the least of the times that enough of them keep.
  Memory.  While consolidations do not overlap one caller at most merges, and what
  he has read and not yet saved lives or was dealt with by hand (`Safe`): nobody
  archives but by hand.  `SomeoneKept`: whatever set has with a loser also its
  winner, and the winner's winner, has one that is safe - which neither a search
  that writes an old copy back nor a pruning takes from it, since pruning holds only
  what was archived.  `GoneInv`: what was forgotten while nobody held it nobody
  holds, so nobody writes it again.
  Rows.  Each repository rewrites every field a list filters on that ever changes
  (`TablesAgree`, over all of them), so a save leaves row and document alike
  (`RowInv`), before and after a commit.  A search of memory needs to know how far a
  call is: one that is alone has done what its statements so far say (`Progress`),
  and a record nobody is at is settled, in memory and on the disk (`QuietInv`).
  Models.  What was paid for a task is booked, or owed by a caller who has the
  answer, or was lost in a crash (`PaidInv`); and it stays below the limit even when
  everyone who was let through costs what a call may cost (`BoundInv`).  Both are
  sums over the callers, of which one changes at a time (`TotalChanges`): who is let
  through found less than the limit booked, so what is paid beyond it is owed or was
  lost.  `AskedInv` says of a request under way who may be asked for it and what
  was cut for the one at hand (`Sent`); that the tail is as long as it can be is shown
  of `truncate_to_fit` itself (`TailFits`, `TruncatesWell`).
* `StartsProofs`, the webhook.  `OnceFor` relates an event's row, its publication
  and its work: without a row there is neither of them, one on its way has a row and
  no work yet, and each is there once.
  The clock.  `RunsInv`: runs are in the order they were created, each no earlier
  than the minute it was due in.  `StartsInv`: what `starts` counts has its run.
  `LoneInv`: while a tick has met no other, nothing on its list was started for its
  minute, since nobody but it starts anything.  `ListInv`: a list under way holds
  what is due, and of what is due all that has no run.
  The triggers of the database.  `ChangesAreDrained` counts: an event may be
  published again only by a process that died, and SQLite and the table may differ
  only in triggers whose placing died.  `CountInv` and `GapInv` say the same in the
  middle of a drain or a placing, where one more is under way (`Marking`,
  `TriggerOf`).  That publications are in order needs that a drain holds the first
  of what waits (`DrainInv`) and that nothing waits that comes before what was
  published (`OrderInv`); both only until two callers overlap (`AtWorkInv`).
* `EdgeProofs`, identities.  A revocation is as good as what may be written over
  it: `SealedInv` and `BarredInv` say that nobody is about to write a token or a
  principal as he was before; `SeenInv` that who decides was active when he was
  authenticated.
  The vault.  `RotationInv` says how far a rotation is: which rows open with the new
  key, and which are still as they were listed and open with the old one.  `ValueInv`
  says that values stay what was last put, through every step of it, deaths included:
  it needs no more than that nobody runs into the rotation.  With
  `PutInv` (a put under way has the key there is) and `AtRestInv` (at rest every row
  opens with the key, and that key is on record) nothing is lost.
  Senders.  `SilentInv`: a silenced sender has a principal who is not active, and
  nobody is about to write one who is; `RhythmInv` counts, besides the messages
  answered in this minute, those under way.  `CommandsInv`: an approval that was asked
  of a channel was asked of somebody who may decide (`AskedInv`), and is still there.
  Files, updates, exports.  `DiskInv`: two callers write to one name only if one of
  them overtook the other (`raced`), and `BehindInv`: a file a caller is done with
  comes before the one in his hands, so that none is stored twice.  `LoopInv`: what was
  confirmed, or comes before the offset, was handled, and what is left of an answer
  follows on from it (`BatchInv`).  `ExportInv`: what an export has read are rows of
  the ledger, in order, and all of them up to where it is; nobody makes up a hash
  (`Known`), so a file nobody edited is valid and one that says it is complete is.
  Tools.  `FirstDecides`: the decision is that of the first rule that matches, which
  is all that is needed of the order of rules; what an execution did is then right
  (`Deed`), whatever the settings of the process that resumes it.  `CallInv`: a call
  in hand was let through by what its connector allows; `MemoryInv`: what a process
  nobody outran remembers is the table, but for what one thread is changing.
  `WroteInv` and `CollectInv`: what differs from the picture of the directory is
  what the script wrote, and what is collected so far is that, up to what is left.

Only model-checked:

* Liveness, which is out of the prover's reach: `CallsReturn`, `EveryJobEnds`.
* `PoliciesDecide`: conditions are trees, evaluated by a `RECURSIVE` operator,
  which the prover cannot handle.
* `WorkIsShared` of `Work` (section 7).

## 5. Where code and documents differ

Three differences are shown by a run that must find its property violated
(`findings` in `PROJECT.json`):

* `WorkflowRun_approved`, `StepDoneOnce`: `approve` runs the waiting task of a
  step to its end, outside the run; `resume` then gives the step a new task, and
  the approved work is done a second time.
* `ReleaseGovernance_gates`, `DeployedWasClean`: the gates look at the file as it
  is in the workspace, `deploy` writes the revision captured by `create`.
* `Edge_rotation`, `RotationKeepsSecrets`: a forced rotation while the key comes
  from the environment ciphers the secrets with a key that is never loaded.

The others were met while modelling.  Where a property of section 3 names a
condition, the bullet here says what happens without it.

### Tasks, approvals, workflows

* `resume_after_approval` executes the pending step of the row
  (`agent_engine.py:341`) and does not compare it with the step of the approval
  that was decided.  An approval decided twice, or by two callers at once, runs
  another step than the one approved (`runtime/runtime.py:739` and `:783` do not
  look at the status).  One caller is enough where policies change: the task
  waits for its first step, the policy stops asking, the task is run again and
  waits at its second step; the approval of the first is still open, and
  approving it executes the second, which nobody has decided.
* `egr task run` and `resume` run a task in any status, finished ones too;
  callers that overlap lose each other's records.  Cancelling a run or a task
  overwrites whatever its row says, so that work which was done in the moment of the
  cancel is cancelled in its row while the step of the run says completed; an engine
  at work overwrites the cancel.
* A plan whose steps share an id executes, on approval, the first of them
  (`agent_engine.py:342`; nothing makes the ids of a plan unique,
  `planner.py:49`): two steps of one id, each approved, act as the first one
  twice, against "continua exatamente de onde parou" (`docs/ARCHITECTURE.md:91`).
* The cost of a tool that ran after an approval is never added to the task
  (`agent_engine.py:373-407`, against line 294): the `cost_per_send` of
  `email.send` "entra no custo total da task" (`email_tool.py`) only where no
  approval was asked for.
* A plan that does not parse may raise the `ValidationError` of pydantic, which
  is no `PlanParseError`.
* A failure and a wait in the same level of a workflow: the wait is looked at
  first (`workflow_engine.py:163-166`), and on `resume` the level is behind it,
  so the run goes on over the failure; `docs/PHASE6_ORCHESTRATION.md:64` and
  ADR-026 stop it.
* A compensator runs in its own level as well.
* Two overlapping ticks start a workflow twice in a minute: the check and the
  insertion are two steps.
* `bind_triggers` (`runtime.py:859`) has no caller under `src/egr`.
* `handoff` leaves the plan, the pending step and the open approval of the task,
  so the new agent goes on with the old plan (`coordination.py:216-219` and
  `docs/PHASE13_LACUNAS_FECHADAS.md:305` say it plans anew).
* Negotiation: `candidates` of the gateway never raises, so the veto "sem
  provedor" never comes; the queue of an agent counts the newest 200 tasks only;
  the strategy "declarado" ignores the filter on agents; the API takes any
  decision but "deny" for an approval.

### Ledger and storage

* Two processes fork the chain: the lock of `ledger.py:32` is one per process,
  and the last hash is read before the insertion (line 47).  `seq` is not covered
  by the hash.
* The export reads the head after its scan: events recorded in between make a
  full export not "complete".  The manifest is not protected: a file cut short,
  with its head and count edited to match, counts as a complete export of less.
* A redelivered event leaves the shared connection in a transaction: the UNIQUE
  error is dropped without a rollback (`repositories.py:1600`), and other
  processes cannot write until this one commits something else.
* Two threads saving one memory record leave two rows in the text index; a
  statement that fails leaves half a save, which another thread's commit makes
  durable.
* `MemoryRepository.list` never excludes archived records: the filter
  (`repositories.py:363`) looks for `"archived":true`, the document is written
  with a space; the semantic search of a large collection
  (`memory/service.py:664-670`) takes them along, against
  `docs/PHASE5_MEMORY_SYSTEM.md:103`.
* The search reads `limit * 3` rows and filters afterwards; `get_by_code` looks at
  the newest 200 bindings; `count_tokens` counts expired tokens as active;
  recording a known key with `rotated=False` clears when it was rotated.

### Integrations

* A call whose answer is lost (a timeout) is a failed one: the job is tried again,
  and the other system may do twice what it was asked once.
* Two drains at once may both call for one job (it is RUNNING only in memory),
  and a job cancelled while it is called may end done.  `enqueue` with the key of
  a failed or cancelled job answers with that job; the promise is not made again.
* A refused delivery takes its id: a later good delivery of the same id is a
  duplicate.  Duplicates are not in the table, because their insert fails.
* A connector with `read_only` lets changes through, against "somente leitura":
  `WITH ... DELETE` and a `PRAGMA` that sets something count as reads
  (`domain/integration.py:19-21`) and take effect, and a GraphQL document whose
  `mutation` comes after a comment or a fragment is a `QUERY`
  (`service.py:476-478`).  `ReachesWhatIsAllowed` leaves exactly these out
  (`Disguised`).  `SELECT` followed by a newline is refused as a write.
* Switching a connector by the API leaves no entry in the trail, though the
  docstring says "fica na trilha"; a sync writes the flag of the YAML over the
  operator's; other processes keep the flag they loaded.  `test` of a GraphQL
  connector is refused unless POST is among `allowed_methods`.
* `integration.call` of an agent is judged without the fact `write` and calls with
  `preauthorized=True`, so its writes never ask; `integration.list` has no rule
  and is denied.

### Policies and tools

* In production the guard (priority 10) speaks before `http-forbidden` and
  `email-send-forbidden` (priority 0): with `external_ai: forbidden` both tools
  are only asked for, and an approval sends (`docs/PHASE3_TOOL_RUNTIME.md:74` and
  `:125`, `README.md:202`).  Likewise `http-restricted` asks for a
  `security_officer`, in production for an `operator`.  `forbidden` does not stop
  `browser.*`, `integration.call` or `email.read`.
* `defaults.py:3-5` says that side effects ask outside of development; staging
  allows `http.request`, `filesystem.write` and `email.read`.  `git_tool.py` says
  "fora de desenvolvimento", the rule asks everywhere.
* The `action` of a step replaces the tool's name for the rules
  (`planner.py:54`), and its arguments replace facts, all but the five reserved
  names.  A rule that denies or asks does not fire when a fact is missing.
* An approval given under one role is used although the process that resumes
  asks for another.
* A withdrawn policy stays in the table; processes decide by what they have read.
* `admin` "satisfaz qualquer papel - inclusive o exigido por uma política"
  (`rbac.py:10-11`, also the docstring of `role_satisfies`): the roles that
  `defaults.py` asks for include `security_officer` and `data_steward`, which no
  role inherits and no principal may be given; where an identity is required,
  nobody can decide such an approval.
* The sandbox falls from `auto` to `process` without the warning in the ledger
  that `sandbox.py:10-11` promises.  Runs that overlap collect each other's
  files; a file replaced by one with an older time is not collected; a second
  artifact of a name overwrites the file of the first.
* MCP (`tools/mcp.py`): an `initialize` that fails after a restart leaves the
  process alive and the next request goes out uninitialised; a broken pipe is an
  `OSError`; threads that share a client drop each other's answers.
  `cli/commands/mcp.py:97` passes `request_approval` a parameter it does not have.

### Releases, proposals, packs, evaluations

* A vote saved over a veto, by calls that overlap, takes the veto away
  (`docs/PHASE13_LACUNAS_FECHADAS.md` calls a refusal a veto).  Two snapshots
  that overlap take the same revision number, and the second writes over the
  first; a deployment does not compare the fingerprint.
* `rollback` restores the captured revision, which is also what `deploy` wrote,
  with its old environment; the docstring says the revision before the release.
* An approved release whose evidence changed can be neither deployed nor approved
  again: `approve` wants it submitted, `submit` wants a draft or `failed`, a
  status nothing sets.
* ADR-033 says that nothing reaches production without passing through staging.
  The gates ask whether some release of the artifact is deployed to staging, and
  which environment the file declares: it holds of artifacts, not of contents.
  A tool always counts as in development, so the ladder keeps it out of
  production.
* A trial takes a draft or a proposal that failed its verification, and when it
  goes well the row says `tested` (`workbench.py:193`), which may be approved:
  the static barrier of ADR-028 (`docs/DECISIONS.md:464`) can be walked around.
* Packs: edits made after the plan are overwritten (ADR-050, "ninguém perde
  ajuste local"); files a newer version drops are forgotten and never removed; a
  preserved file keeps its old checksum, or none, and is then deleted by
  `remove`; an update saves a stale copy over an approval; the workspace's
  manifest hides a newer builtin one; a removed pack's policies stay in force.
* A promoted baseline is never used: `egr eval baseline`
  (`cli/commands/evaluation.py:300`) and `server.py:606` write
  `metadata["baseline_run"]`, `_resolve_baseline` (`runner.py:570-581`) does not
  read it; nor is the promotion in the trail (ADR-031).  Only the last ten runs
  are searched; a given baseline is looked up when all cases have run.
* A judge without a judged case gives 0.0 and fails the run; its FAILED replaces
  ERROR and REGRESSED, and between its two saves the run may serve as a baseline.
  Two comparisons that overlap leave the agent with another provider.

### Models, memory, keys, identities, channels

* Parallel calls each see room in the budget.  A conversation without system
  messages is not cut; `max(256, ...)` may exceed the window; `overflow: deny`
  ends the call even where a later provider would fit.  `candidates` puts the
  providers without the capability last and then sorts all of them again, so the
  capability decides nothing (`gateway.py:190-202`, against "routing by capability",
  line 4).
* A search writes a record back that was forgotten meanwhile; of two
  duplicates, consolidations that overlap may archive both.  Near-duplicates of
  two namespaces are merged into one of them (`docs/PHASE5_MEMORY_SYSTEM.md:6`
  says "isolada por namespace").
* The new master key is written before the secrets are ciphered again: a crash in
  between loses them.  A put during a rotation is lost too.  `egr key init --force`
  (`runtime.py:1085`) writes a new key over the old one and ciphers nothing again.  The error for an
  environment key tells the operator to run `egr key rotate`, which refuses.
* `authenticate` writes back the token and the principal it read, over a
  revocation.  `identity.py:404` says "Nunca levanta": two first logins of one
  person through SSO overlap, and the second raises.
* Messaging: a denied message is logged twice as "in", so it counts twice; after
  `unpair` the code is empty and any code pairs; the first message of a sender
  can overwrite a pairing; `unpair` without `--block` is undone by a message under
  way.  Pairing a blocked sender again ("desbloqueie com --role",
  `service.py:180`) leaves his principal disabled, so he is still refused.
* Attachments: "o que não está na lista, não entra" (`attachments.py:9`) and "o que
  não foi declarado, não entra" (line 166), but a file with neither extension nor
  type passes (lines 171-178) and is fetched.  Two messages that choose one name
  at once write over each other (`raced` leaves them out).
* Buttons appear only where `allow_attachments` is on (`_choices_for`).  A button
  pressed after the approval was decided decides it again.  A person disabled
  between his message and the decision still decides where no identity is
  required, and without the check of his area.  `_decide` answers "não foi
  possível" when the task raises, although the decision was saved.
* A reply that cannot be delivered is lost; after a restart the last batch of
  updates is handled again.  Slack's events are not told apart by id: an event
  sent again, because the first took too long, is another task (`slack.py` says
  "replay de mensagem é ataque, não conversa").

## 6. Not modelled, and why

* **API, CLI, TUI, Slack**: they call the runtime; what they may ask for is what
  the other modules take as input.  Rendering, wording, listings and their limits.
* **Cryptography**: hashes, HMAC and ciphers are ideal.  How a JWT is verified;
  the facts of an SSO login are its groups.
* **HTTP, SMTP, providers of models, container runtimes**: an outcome.  The stdio
  protocol of MCP, a tool of `Authorization` without its transport.
* **Data**: outputs and interpolation of workflow steps, search, ranking and media
  of the memory, how rubrics and judge models come to a score, what the security
  scan and the validators of proposals look for, the validation of workflow files.
* **Storage**: the rollback by `transaction()` of what another thread began, the
  migrations, the order and limits of lists.
* **Facts** `task_id` and `data_residency` of a policy decision; the list of tools
  an agent may use is in `PolicyEngine` only.  The pinned provider of a model
  call; `dry_run`, which only the trial harness sets.
* `Identity` leaves out the areas of principals; `ChannelCommands` has them.

## 7. What is left

Proofs of the part of `Work` that is only model-checked: delegation and
negotiation.

Then models: the client of MCP with its restarts, `transaction()` on the shared
connection, the areas of principals in `Identity`.  New runs will take the place
of violation runs whose point is settled.
