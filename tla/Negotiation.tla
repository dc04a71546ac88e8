---------------------------- MODULE Negotiation ----------------------------
(***************************************************************************)
(* Who is to do a task (orchestration/coordination.py negotiate): each     *)
(* agent bids what it would cost and how many tasks it already has, and    *)
(* the strategy picks one.  The bids are made one after the other, each    *)
(* from its own reading of the tasks; the outcome is recorded and nobody   *)
(* is bound by it.                                                         *)
(***************************************************************************)
EXTENDS Integers, Sequences, FiniteSets

CONSTANTS
  Agent, ByName,          \* the agents and their order by name: a sequence
  Declared,               \* Declared[a]: [environment, capability, provider]; "": none
  Environment,            \* config.environment
  Providers, UnitCost,    \* gateway.candidates in its order, and unit_cost of each
  DefaultAgent,           \* coordination.default_agent
  Wanted,                 \* the agents that may be asked for: sets, {} for all
  Window,                 \* the tasks queue_of reads, newest first (200)
  MaxTasks, MaxRounds,    \* bounds: tasks, negotiations,
  MaxOff                  \* agents that are disabled at a time

VARIABLES
  tasks,                  \* the tasks, oldest first: [agent, alive]
  off,                    \* agents that are disabled
  round,                  \* the negotiation under way
  negotiations,           \* the table, oldest first
  moved                   \* ghost: tasks or agents changed since the round began

vars == <<tasks, off, round, negotiations, moved>>

-----------------------------------------------------------------------------
STRATEGIES == {"equilibrado", "menor_custo", "menor_fila", "declarado"}
NoRound == [pc |-> "none"]

\* estimate_cost: the price of the agent's provider, or else of the first one;
\* what the objective adds is the same for all.
estimate_cost(a) ==
  LET named == {k \in DOMAIN Providers : Providers[k] = Declared[a].provider}
  IN IF named # {} THEN UnitCost[Declared[a].provider]
     ELSE IF Providers # <<>> THEN UnitCost[Providers[1]] ELSE 0

\* queue_of: the tasks that are not over, among the newest.
Newest == {t \in DOMAIN tasks : t > Len(tasks) - Window}
queue_of_All(a) == Cardinality({t \in Newest : tasks[t].agent = a})        \* mutant: those that are over too
queue_of(a) == Cardinality({t \in Newest : tasks[t].agent = a /\ tasks[t].alive})

\* _veto: candidates() of the gateway never raises, so that having no provider
\* is no veto.
Vetoed(a, disabled, capability) ==
  \/ a \in disabled
  \/ Declared[a].environment \notin {"", Environment}
  \/ capability # "" /\ Declared[a].capability # capability

\* bid
Bid(a, disabled, capability) ==
  IF Vetoed(a, disabled, capability)
  THEN [agent |-> a, cost |-> 0, queue |-> 0, allowed |-> FALSE]
  ELSE [agent |-> a, cost |-> estimate_cost(a), queue |-> queue_of(a), allowed |-> TRUE]

\* _score, times both maxima: cost and queue, each in parts of the largest one
\* that is allowed.
Largest(S) == CHOOSE n \in S : \A m \in S : m <= n
Allowed(bids) == {k \in DOMAIN bids : bids[k].allowed}
Score_Cost(bid, bids, strategy) == bid.cost                               \* mutant: whatever the strategy
Score(bid, bids, strategy) ==
  LET top(f) == Largest({1} \cup {f[k] : k \in Allowed(bids)})
      costs == top([k \in DOMAIN bids |-> bids[k].cost])
      queues == top([k \in DOMAIN bids |-> bids[k].queue])
  IN CASE strategy = "menor_custo" -> bid.cost * queues
       [] strategy = "menor_fila" -> bid.queue * costs
       [] OTHER -> bid.cost * queues + bid.queue * costs

\* The smallest score, the first by name among equals.
Contenders_All(bids) == DOMAIN bids                                       \* mutant: the vetoed too
Contenders(bids) == Allowed(bids)
Winner(bids, strategy) ==
  CHOOSE k \in Contenders(bids) : \A o \in Contenders(bids) \ {k} :
    LET mine == Score(bids[k], bids, strategy)
        other == Score(bids[o], bids, strategy)
    IN mine < other \/ (mine = other /\ k < o)

-----------------------------------------------------------------------------
TypeOK ==
  /\ tasks \in Seq([agent : Agent, alive : BOOLEAN]) /\ Len(tasks) <= MaxTasks
  /\ off \subseteq Agent
  /\ round.pc \in {"none", "bids"}
  /\ Len(negotiations) <= MaxRounds
  /\ \A n \in DOMAIN negotiations : negotiations[n].strategy \in STRATEGIES
  /\ moved \in BOOLEAN

Init == tasks = <<>> /\ off = {} /\ round = NoRound /\ negotiations = <<>> /\ moved = FALSE

\* negotiate: the pool, in the order of names, is every agent or those that are
\* wanted; who may not take part bids nevertheless, and is vetoed.
Begin(strategy, capability, wanted) ==
  /\ round = NoRound
  /\ strategy # "declarado"
  /\ Len(negotiations) < MaxRounds
  /\ round' = [pc |-> "bids", strategy |-> strategy, capability |-> capability, disabled |-> off,
               pool |-> SelectSeq(ByName, LAMBDA a : wanted = {} \/ a \in wanted), bids |-> <<>>]
  /\ moved' = FALSE
  /\ UNCHANGED <<tasks, off, negotiations>>

NextBid ==
  /\ round.pc = "bids"
  /\ Len(round.bids) < Len(round.pool)
  /\ round' = [round EXCEPT !.bids =
       Append(@, Bid(round.pool[Len(round.bids) + 1], round.disabled, round.capability))]
  /\ UNCHANGED <<tasks, off, negotiations, moved>>

\* The outcome; with nobody to choose it names none.
Outcome(strategy, bids, chosen) == [strategy |-> strategy, bids |-> bids, chosen |-> chosen, moved |-> moved, tasks |-> tasks]
Choose ==
  /\ round.pc = "bids"
  /\ Len(round.bids) = Len(round.pool)
  /\ negotiations' = Append(negotiations,
       Outcome(round.strategy, round.bids,
               IF Contenders(round.bids) = {} THEN "none" ELSE round.bids[Winner(round.bids, round.strategy)].agent))
  /\ round' = NoRound
  /\ UNCHANGED <<tasks, off, moved>>

\* declarado: the one bid of the agent the configuration names, wanted or not;
\* an agent that is not loaded raises.
Declare(capability) ==
  LET bid == Bid(DefaultAgent, off, capability) IN
  /\ round = NoRound
  /\ DefaultAgent \in Agent
  /\ Len(negotiations) < MaxRounds
  /\ negotiations' = Append(negotiations,
       Outcome("declarado", <<bid>>, IF bid.allowed THEN DefaultAgent ELSE "none"))
  /\ UNCHANGED <<tasks, off, round, moved>>

-----------------------------------------------------------------------------
\* What goes on meanwhile: tasks come and end, agents are switched on and off.
\* What comes after the last negotiation is of no interest.
Open == Len(negotiations) < MaxRounds

Submit(a) ==
  /\ Open
  /\ Len(tasks) < MaxTasks
  /\ tasks' = Append(tasks, [agent |-> a, alive |-> TRUE])
  /\ moved' = TRUE
  /\ UNCHANGED <<off, round, negotiations>>

End(t) ==
  /\ Open
  /\ tasks[t].alive
  /\ tasks' = [tasks EXCEPT ![t].alive = FALSE]
  /\ moved' = TRUE
  /\ UNCHANGED <<off, round, negotiations>>

Switch(a) ==
  /\ Open
  /\ a \in off \/ Cardinality(off) < MaxOff
  /\ off' = IF a \in off THEN off \ {a} ELSE off \cup {a}
  /\ moved' = TRUE
  /\ UNCHANGED <<tasks, round, negotiations>>

Next ==
  \/ \E strategy \in STRATEGIES, capability \in {""} \cup {Declared[a].capability : a \in Agent}, wanted \in Wanted :
       Begin(strategy, capability, wanted)
  \/ NextBid \/ Choose
  \/ \E capability \in {Declared[a].capability : a \in Agent} : Declare(capability)
  \/ \E a \in Agent : Submit(a) \/ Switch(a)
  \/ \E t \in DOMAIN tasks : End(t)

Spec == Init /\ [][Next]_vars

-----------------------------------------------------------------------------
\* The chosen one may do the task, and by what the strategy looks at nobody who
\* may is better: nobody cheaper, nobody with fewer tasks, nobody who is as
\* good in both and better in one (coordination.negotiate, _score).
ChoiceIsBest ==
  \A n \in DOMAIN negotiations :
    LET o == negotiations[n]
        mine == {k \in DOMAIN o.bids : o.bids[k].agent = o.chosen}
        better(b, m) == CASE o.strategy = "menor_custo" -> b.cost < m.cost
                          [] o.strategy = "menor_fila" -> b.queue < m.queue
                          [] o.strategy = "equilibrado" ->
                               b.cost <= m.cost /\ b.queue <= m.queue /\ (b.cost < m.cost \/ b.queue < m.queue)
                          [] OTHER -> FALSE
    IN IF o.chosen = "none" THEN Allowed(o.bids) = {}
       ELSE \A m \in mine : o.bids[m].allowed /\ ~\E k \in Allowed(o.bids) : better(o.bids[k], o.bids[m])

\* By the shortest queue, when nothing moved since the round began and the
\* tasks are no more than are read, nobody who took part has fewer tasks to do
\* than the chosen one (coordination.queue_of: "Quantas tasks vivas o agente já tem").
ShortestIsChosen ==
  \A n \in DOMAIN negotiations :
    LET o == negotiations[n]
        living(a) == Cardinality({t \in DOMAIN o.tasks : o.tasks[t].agent = a /\ o.tasks[t].alive})
    IN o.strategy = "menor_fila" /\ ~o.moved /\ o.chosen # "none" /\ Len(o.tasks) <= Window =>
         \A k \in Allowed(o.bids) : living(o.chosen) <= living(o.bids[k].agent)
=============================================================================
