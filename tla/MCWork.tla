------------------------------- MODULE MCWork -------------------------------
(***************************************************************************)
(* What the work of agents uses and changes: delegation, handoff and       *)
(* negotiation (Supervision, Negotiation), models and their budget         *)
(* (ModelGateway), memory (Memory), proposals of change (Workbench),       *)
(* vertical packs (VerticalPacks), evaluations (Evaluation) and the rows   *)
(* all of it is kept in (Repositories).                                    *)
(* They are checked one at a time: `part` says which of them moves, the    *)
(* others stay in their initial state.                                     *)
(***************************************************************************)
EXTENDS Workbench, Sequences, TLC

CONSTANTS
  Agent, Task,
  MAX_DELEGATE_DEPTH, MAX_ROUNDS_CAP, MaxHandoffs, MaxSteps,
  MaxRoots, MaxTasks, MaxByHand, MaxTaskMishaps, MaxTaskOverlaps,
  Order, External, ContextWindow, Conversations, PerTask, PerDay, MinTokens, Reserve,
  MaxCallCost, MaxModelCalls, MaxModelCrashes,
  Namespace, Alike, MaxScan, MaxRecords, MaxMemoryCalls, MaxUses,
  PackProposal, PackPath, PackVersion, PackFiles, MaxPackCalls, MaxPackEdits, MaxPackCrashes,
  Bidder, ByName, Profiles, OwnEnvironment, Offered, UnitCost, DefaultBidder, WantedBidders,
  QueueWindow, MaxQueued, MaxNegotiations, MaxOff,
  Suite, SuiteKind, Answers, ModelProvider, DeclaredProvider, MinPassed, MaxRunCost, MaxP95, MaxRegressions, MaxDrift,
  Comparisons, BaselineWindow, Loads, MaxEvaluations,
  MaxSaves, MaxAccidents

VARIABLES
  part,
  tasks, open, stack, delivered, handed, byHand, taskMishaps, taskOverlaps,
  config, booked, today, paid, completing, completions, lostCalls,
  records, vectors, remembering, merged, forgotten, gone, twice, memoryCalls,
  manifest, builtin, packFile, installed, packProposals, packager, planned, lost, dropped, shared, packCalls, packEdits, packCrashes,
  queued, off, round, negotiations, moved,
  kind, runs, provider, evaluator, judging, crossed,
  table, now, stored, saving, spoiled, saves, accidents

tasking == <<tasks, open, stack, delivered, handed, byHand, taskMishaps, taskOverlaps>>
modelling == <<config, booked, today, paid, completing, completions, lostCalls>>
memory == <<records, vectors, remembering, merged, forgotten, gone, twice, memoryCalls>>
packs == <<manifest, builtin, packFile, installed, packProposals, packager, planned, lost, dropped, shared, packCalls, packEdits, packCrashes>>
bidding == <<queued, off, round, negotiations, moved>>
evaluating == <<kind, runs, provider, evaluator, judging, crossed>>
storing == <<table, now, stored, saving, spoiled, saves, accidents>>

-----------------------------------------------------------------------------
S == INSTANCE Supervision WITH
       MaxMishaps <- MaxTaskMishaps, MaxOverlaps <- MaxTaskOverlaps,
       mishaps <- taskMishaps, overlaps <- taskOverlaps

G == INSTANCE ModelGateway WITH
       Window <- ContextWindow, MaxCost <- MaxCallCost, MaxCalls <- MaxModelCalls, MaxCrashes <- MaxModelCrashes,
       caller <- completing, calls <- completions, crashes <- lostCalls

M == INSTANCE Memory WITH
       MaxCalls <- MaxMemoryCalls,
       caller <- remembering, byHand <- forgotten, calls <- memoryCalls

V == INSTANCE VerticalPacks WITH
       Proposal <- PackProposal, Path <- PackPath, Version <- PackVersion, Files <- PackFiles,
       MaxCalls <- MaxPackCalls, MaxEdits <- MaxPackEdits, MaxCrashes <- MaxPackCrashes,
       file <- packFile, proposals <- packProposals, caller <- packager,
       calls <- packCalls, edits <- packEdits, crashes <- packCrashes

N == INSTANCE Negotiation WITH
       Agent <- Bidder, Declared <- Profiles, Environment <- OwnEnvironment, Providers <- Offered,
       DefaultAgent <- DefaultBidder, Wanted <- WantedBidders, Window <- QueueWindow,
       MaxTasks <- MaxQueued, MaxRounds <- MaxNegotiations,
       tasks <- queued

E == INSTANCE Evaluation WITH
       Kind <- SuiteKind, Answer <- Answers, Provider <- ModelProvider, Declared <- DeclaredProvider,
       MaxCost <- MaxRunCost, Window <- BaselineWindow, MaxRuns <- MaxEvaluations,
       caller <- evaluator

R == INSTANCE Repositories WITH
       Thread <- Caller, MaxCalls <- MaxSaves, MaxMishaps <- MaxAccidents,
       thread <- saving, disk <- stored, calls <- saves, mishaps <- accidents

\* A version of a pack is a number that is none of the other things a path may hold.
ASSUME PacksAssumption ==
  /\ PackProposal # {} /\ PackVersion \subseteq Nat \ {0} /\ PackFiles \in [PackVersion -> SUBSET PackPath]
  /\ {MaxPackCalls, MaxPackEdits, MaxPackCrashes} \subseteq Nat

\* A suite has cases (runner.run raises on one that has none); the agent's own provider is one.
ASSUME EvaluationAssumption ==
  /\ Suite \in Seq([expect_ok : STRING, max_cost : Nat, max_time : Nat]) /\ Suite # <<>>
  /\ Answers \in [SuiteKind -> SUBSET [result : STRING, cost : Nat, time : Nat]]
  /\ DeclaredProvider \in ModelProvider /\ Comparisons \subseteq Seq(STRING)
  /\ {MinPassed, MaxRunCost, MaxP95, MaxRegressions, MaxDrift, BaselineWindow, MaxEvaluations} \subseteq Nat
  /\ Loads \subseteq [requests : Nat, errors : Nat, denied : Nat, slow : BOOLEAN]

\* Whoever calls is one of many but not endlessly many, and a call costs something.
ASSUME GatewayAssumption ==
  /\ IsFiniteSet(Caller) /\ Caller # {} /\ Task # {}
  /\ Order \in Seq(G!Provider) /\ ContextWindow \in [G!Provider -> Nat]
  /\ Conversations \subseteq Seq([system : BOOLEAN, size : Nat, private : BOOLEAN])
  /\ {PerTask, PerDay, MinTokens, Reserve, MaxModelCalls, MaxModelCrashes} \subseteq Nat /\ MaxCallCost \in Nat \ {0}

\* There is a namespace, and room for a record.
ASSUME MemoryAssumption == Namespace # {} /\ MaxRecords \in Nat \ {0} /\ {MaxMemoryCalls, MaxUses} \subseteq Nat

-----------------------------------------------------------------------------
(* Values for TLC.                                                         *)

\* Two proposals for one file of tools, the second with a finding, and one that is not code.
MCTarget == [p1 |-> "f", p2 |-> "f", p3 |-> "g"]

\* A provider outside, one inside that declares no window, one inside with a small one.
MCOrder == <<"cloud", "local", "small">>
MCWindow == [cloud |-> 6, local |-> 0, small |-> 5]
Message(system, size, private) == [system |-> system, size |-> size, private |-> private]
MCConversations ==
  {<<Message(FALSE, 1, TRUE)>>,
   <<Message(TRUE, 1, FALSE), Message(FALSE, 1, FALSE), Message(FALSE, 3, TRUE), Message(FALSE, 1, TRUE)>>}

MCAlike == {<<1, 2>>, <<2, 3>>}

\* The second version drops a file and brings another.
MCPackFiles == <<{"a", "b"}, {"a", "n"}>>

\* One agent of another environment; of the others, one is cheaper.
MCByName == <<"a", "b", "c">>
Profile(environment, capability, named) == [environment |-> environment, capability |-> capability, provider |-> named]
MCProfiles == [a |-> Profile("", "code", "dear"), b |-> Profile("dev", "", ""), c |-> Profile("prod", "code", "cheap")]
MCOffered == <<"cheap", "dear">>
MCUnitCost == [cheap |-> 1, dear |-> 3]
MCWanted == {{}, {"a", "b"}}

\* Two cases, and answers that pass both, one or none of them; one that costs
\* and takes what a case may, but longer than 95 of 100 may.
Case(expect, cost, time) == [expect_ok |-> expect, max_cost |-> cost, max_time |-> time]
Given(answer, cost, time) == [result |-> answer, cost |-> cost, time |-> time]
MCSuite == <<Case("yes", 2, 9), Case("any", 1, 6)>>
MCAnswers == [agent |-> {Given("completed", 1, 4), Given("completed", 1, 6), Given("completed", 2, 6), Given("raised", 0, 1)},
              policy |-> {Given("allow", 1, 4), Given("deny", 1, 4)}]
MCComparisons == {<<"unknown", "other">>}
MCLoads == [requests : {1, 20}, errors : {0, 1, 11, 20}, denied : {0, 1}, slow : BOOLEAN]

-----------------------------------------------------------------------------
Similar == Permutations(Caller) \cup Permutations(Agent)

MCInit == /\ part \in {"delegation", "models", "memory", "proposals", "packs",
                    "negotiation", "evaluation", "storage"}
          /\ S!Init /\ G!Init /\ M!Init /\ Init /\ V!Init /\ N!Init /\ E!Init /\ R!Init
          /\ part # "models" => config = [external_ai |-> "allowed", overflow |-> "deny", on_exceeded |-> "deny"]
          /\ part # "packs" => builtin = 1
          /\ part # "proposals" => file = [f |-> "nothing", g |-> "nothing"]
          /\ part # "evaluation" => kind = "agent"
          /\ part # "storage" => table = "tasks"

\* Calls that overlap or a mishap, not both.
Few == mishaps + overlaps <= 1

\* Three calls exceed the budget when none is lost; where it only warns, or with
\* one that is lost, two show what there is.
FewCompletions == config.on_exceeded = "warn" \/ lostCalls > 0 => completions <= 2

MCNext == \/ part = "delegation" /\ S!Next /\ UNCHANGED <<part, modelling, memory, vars, packs, bidding, evaluating, storing>>
          \/ part = "models" /\ G!Next /\ FewCompletions' /\ UNCHANGED <<part, tasking, memory, vars, packs, bidding, evaluating, storing>>
          \/ part = "memory" /\ M!Next /\ UNCHANGED <<part, tasking, modelling, vars, packs, bidding, evaluating, storing>>
          \/ part = "proposals" /\ Next /\ Few' /\ UNCHANGED <<part, tasking, modelling, memory, packs, bidding, evaluating, storing>>
          \/ part = "packs" /\ V!Next /\ UNCHANGED <<part, tasking, modelling, memory, vars, bidding, evaluating, storing>>
          \/ part = "negotiation" /\ N!Next /\ UNCHANGED <<part, tasking, modelling, memory, vars, packs, evaluating, storing>>
          \/ part = "evaluation" /\ E!Next /\ UNCHANGED <<part, tasking, modelling, memory, vars, packs, bidding, storing>>
          \/ part = "storage" /\ R!Next /\ UNCHANGED <<part, tasking, modelling, memory, vars, packs, bidding, evaluating>>

MCSpec == MCInit /\ [][MCNext]_<<part, tasking, modelling, memory, vars, packs, bidding, evaluating, storing>>

-----------------------------------------------------------------------------
\* tools/builtins/delegate.py, orchestration/coordination.py: delegation stays
\* within its depth and its rounds, what was delivered to a parent stays as it
\* was delivered, handoffs are counted, and a negotiation chooses nobody worse
\* than another who could have been chosen.
WorkIsShared ==
  /\ part = "delegation" => S!TypeOK /\ S!DelegationIsBounded /\ S!DeliveryStands /\ S!HandoffsAreCounted
  /\ part = "negotiation" => N!TypeOK /\ N!ChoiceIsBest /\ N!ShortestIsChosen

\* models/gateway.py, security/data_boundary.py: a budget is exceeded only by
\* what was under way, nothing leaves that must not, and a conversation that is
\* cut keeps its tail.
ModelsAreGoverned == part = "models" => G!TypeOK /\ G!OverrunIsBounded /\ G!DataStaysInside /\ G!TailIsKept

\* memory/service.py, storage/repositories.py: consolidation leaves one of what
\* it merges, what was forgotten leaves no vector, and the copies and indexes by
\* which rows are found agree with the rows.
RecordsAreKept ==
  /\ part = "memory" => M!TypeOK /\ M!ConsolidationKeepsOne /\ M!ForgetIsClean
  /\ part = "storage" => R!TypeOK /\ R!ListsAreTrue /\ R!SearchFindsOnce

\* packs/service.py: no plan and no removal costs somebody his edits, and the
\* record tells what is on the disk.
PacksKeepEdits == part = "packs" => V!TypeOK /\ V!EditsSurvive /\ V!DiskIsOnRecord

\* evaluation/runner.py, metrics.py, load.py: a run that passed met every
\* threshold, a comparison gives the agent its provider back, and the verdict
\* on a load is the one its numbers ask for.
EvaluationsAreHonest ==
  part = "evaluation" => E!TypeOK /\ E!PassedIsGood /\ E!ProviderIsReturned /\ E!LoadsAreTold
=============================================================================
