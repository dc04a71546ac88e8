-------------------------------- MODULE Edge --------------------------------
(***************************************************************************)
(* The edge of the runtime: who may ask (Identity), over which channel     *)
(* and with what commands (Messaging, ChannelLoop, Attachments,            *)
(* ChannelCommands), what is always asked of tools (Authorization), the    *)
(* secrets behind it (Secrets), the systems (Connectors) and scripts       *)
(* (Sandbox) it reaches, and the evidence it hands out (AuditExport).      *)
(* They are checked one at a time: `part` says which of them moves.        *)
(***************************************************************************)
EXTENDS Integers, Sequences, FiniteSets, TLC

CONSTANTS
  Caller,
  SecretName, MaxKeys, MaxPuts, MaxDeletes, MaxMishaps, MaxOverlaps,
  Principal, Token, Holder, FromIdP, AllowAgents, MaxCalls, MaxGroups,
  Correspondent, RequirePairing, Limit, MaxCommands, MaxMessages, MaxMinutes,
  FileName, Extension, Offers, MaxFiles, MaxOffered, MaxReceived, MaxDeaths,
  MaxUpdates, MaxFailures, MaxLoopDeaths,
  Process, Thread, Home, Connector, Declaration, Asked, MaxRequests,
  Settings, Planned, MaxSteps, MaxConfigs,
  TaskOf, Names, Configured, MaxScripts, MaxWrites,
  AuditKind, Chunk, MaxRows, MaxTampering,
  Sender, DeskFile, OutboundRoots, Area, Required, Folk, MaxShifts, MaxApprovals

VARIABLES
  part,
  env, keyFile, secrets, keyHistory, keeper, written, keys, puts, deletes, mishaps, overlaps,
  principals, tokens, groups, login, sealed, barred, decided, raised, logins, changes,
  bindings, senders, hits, handler, silenced, late, answered, commands, messages, minutes,
  disk, rows, receiver, raced, fetched, received, deaths,
  sent, confirmed, offset, batch, at, begun, replied, failures, loopDeaths,
  row, registry, connecting, called, onTrail, reached, making, dropped, apart, requests,
  config, settings, pending, last, steps, changesOfConfig,
  mode, docker, sandbox, artifacts, run, result, orphans, scripts, clock,
  ledger, export, file, edited, tampering,
  channel, people, area, tasks, approvals, kept, workspace, screen, talking, judged, told, left, said, shifts

secrecy == <<env, keyFile, secrets, keyHistory, keeper, written, keys, puts, deletes, mishaps, overlaps>>
identity == <<principals, tokens, groups, login, sealed, barred, decided, raised, logins, changes>>
messaging == <<bindings, senders, hits, handler, silenced, late, answered, commands, messages, minutes>>
attaching == <<disk, rows, receiver, raced, fetched, received, deaths>>
polling == <<sent, confirmed, offset, batch, at, begun, replied, failures, loopDeaths>>
connectors == <<row, registry, connecting, called, onTrail, reached, making, dropped, apart, requests>>
authorizing == <<config, settings, pending, last, steps, changesOfConfig>>
scripting == <<mode, docker, sandbox, artifacts, run, result, orphans, scripts, clock>>
exporting == <<ledger, export, file, edited, tampering>>
commanding == <<channel, people, area, tasks, approvals, kept, workspace, screen, talking, judged, told, left, said, shifts>>

-----------------------------------------------------------------------------
S == INSTANCE Secrets WITH Name <- SecretName, history <- keyHistory, caller <- keeper

I == INSTANCE Identity WITH caller <- login, calls <- logins

M == INSTANCE Messaging WITH Sender <- Correspondent, principals <- senders, caller <- handler

A == INSTANCE Attachments WITH
       Name <- FileName, Files <- Offers, MaxMessages <- MaxReceived, MaxCrashes <- MaxDeaths,
       caller <- receiver, messages <- received, crashes <- deaths

L == INSTANCE ChannelLoop WITH MaxDeaths <- MaxLoopDeaths, deaths <- loopDeaths

C == INSTANCE Connectors WITH
       Caller <- Thread, Request <- Asked,
       caller <- connecting, calls <- called, sent <- reached, begun <- making, lost <- dropped

T == INSTANCE Authorization WITH Process <- Caller, Step <- Planned, MaxEdits <- MaxConfigs, edits <- changesOfConfig

B == INSTANCE Sandbox WITH MaxRuns <- MaxScripts, runs <- scripts

X == INSTANCE AuditExport WITH Kind <- AuditKind, MaxEdits <- MaxTampering, edits <- tampering

K == INSTANCE ChannelCommands WITH
       File <- DeskFile, MaxMessages <- MaxRequests, MaxChanges <- MaxShifts,
       config <- channel, caller <- talking, decided <- judged, messages <- said, changes <- shifts

-----------------------------------------------------------------------------
ASSUME IdentityAssumption ==
  /\ Principal # {} /\ Token # {} /\ Holder \in [Token -> Principal] /\ FromIdP \subseteq Principal
  /\ AllowAgents \in BOOLEAN /\ {MaxCalls, MaxGroups} \subseteq Nat

\* The environment may bring a key.
ASSUME SecretsAssumption ==
  SecretName # {} /\ MaxKeys \in Nat \ {0} /\ {MaxPuts, MaxDeletes, MaxMishaps, MaxOverlaps} \subseteq Nat

\* Every thread is of a process; a statement that changes something begins with
\* a word for it, or with WITH or PRAGMA.  (What SELECT or EXPLAIN would change
\* is not committed; sqlite is the only driver there is.)
ASSUME ConnectorsAssumption ==
  /\ Home \in [Thread -> Process] /\ MaxRequests \in Nat
  /\ \A i \in Connector : \A q \in Asked[i] :
       Declaration[i].kind = "sql" /\ q.query.changes => q.query.word \notin (C!READ_OPERATIONS \ {"WITH", "PRAGMA"}) \cup {C!Nothing}

ASSUME AuthorizationAssumption == {MaxSteps, MaxConfigs} \subseteq Nat

\* Paths have an order.
ASSUME SandboxAssumption == DOMAIN Names \subseteq Nat /\ {MaxScripts, MaxWrites} \subseteq Nat


\* Somebody writes and something may be sent; whoever a sender may be is a person.
ASSUME CommandsAssumption ==
  /\ Sender # {} /\ DeskFile # {} /\ K!NoArea \in Area /\ {MaxRequests, MaxShifts, MaxApprovals} \subseteq Nat
  /\ \A s \in Sender : Folk[s] \subseteq K!Person

\* Of a message it is known who handles it.
ASSUME MessagingAssumption ==
  /\ IsFiniteSet(Caller) /\ Correspondent # {} /\ RequirePairing \in BOOLEAN
  /\ {Limit, MaxCommands, MaxMessages, MaxMinutes} \subseteq Nat

ASSUME LoopAssumption == {MaxUpdates, MaxFailures, MaxLoopDeaths} \subseteq Nat

\* A query reads something.
ASSUME ExportAssumption == Chunk \in Nat \ {0} /\ {MaxRows, MaxTampering} \subseteq Nat

\* A message brings something, and no more than is counted; of a name it is known
\* how its extension stands.
ASSUME AttachmentsAssumption ==
  /\ FileName # {} /\ {MaxReceived, MaxOffered} \subseteq Nat \ {0} /\ {MaxFiles, MaxDeaths} \subseteq Nat
  /\ Extension \in [FileName -> A!Listing]
  /\ \A files \in Offers : files \in Seq(A!Offer) /\ files # <<>> /\ Len(files) <= MaxOffered
-----------------------------------------------------------------------------
\* security/vault.py and keystore.py: no rotation brings an old value back, also
\* where it dies; and what was put can be read, where nothing died and the key
\* of the file is the one there is.
SecretsAreKept == part = "secrets" => S!TypeOK /\ S!SecretsAreReadable

\* security/keystore.py: a rotation ciphers every secret again ("recifra todos os segredos").
RotationKeepsSecrets == part = "secrets" => S!RotationKeepsSecrets

\* security/identity.py, runtime._authorize_decision: what was revoked or
\* disabled stays so, and whoever decided an approval was entitled to.
AccessIsDecided == part = "identity" => I!TypeOK /\ I!AccessIsWithdrawn /\ I!DecidedByTheRightOnes

\* gateway/service.py: a blocked sender is not served, and nobody more often
\* than the limit; a decision of the channel is taken by somebody entitled to
\* it, and nobody is shown another's attachment or a file outside the roots.
SendersAreHeld ==
  /\ part = "messaging" => M!TypeOK /\ M!BlockedIsSilent /\ M!RhythmIsKept
  /\ part = "commands" => K!TypeOK /\ K!DecidedByThoseWhoMay /\ K!EachHisOwn

\* gateway/attachments.py, telegram.py, loop.py and audit/export.py: a row points
\* at its own content and nothing is fetched that was declared too large or of an
\* extension or type off the list, no update is passed over, and an export that
\* says it is complete is.
NothingIsDropped ==
  /\ part = "attachments" => A!TypeOK /\ A!StoredIsOnDisk /\ A!FetchedWasDeclared
  /\ part = "loop" => L!TypeOK /\ L!NoUpdateIsSkipped
  /\ part = "export" => X!TypeOK /\ X!CompleteIsAll /\ X!UntouchedIsValid

\* policies/defaults.py, integrations/service.py and tools/sandbox.py: what is
\* risky in production waits for a human, what is forbidden or switched off is
\* not done, what is always asked is asked; a call is on record, reaches only the
\* hosts of its connector and changes nothing behind one that only reads, but
\* in disguise; the registry of a process is the table; a script
\* runs where it was asked to and its files are kept as its own.
ToolsStayInside ==
  /\ part = "authorization" => T!TypeOK /\ T!HighRiskIsDecided /\ T!ForbiddenStaysInside /\ T!SwitchedOffIsIdle /\ T!AlwaysAsked
  /\ part = "connectors" => C!TypeOK /\ C!CallsAreOnRecord /\ C!ReachesWhatIsAllowed /\ C!MemoryIsTheTable
  /\ part = "scripts" => B!TypeOK /\ B!NeverFallsBack /\ B!CollectsItsOwn
=============================================================================
