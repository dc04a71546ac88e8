------------------------------ MODULE Scheduler -----------------------------
(***************************************************************************)
(* The scheduler (runtime/scheduler.py) over cron expressions              *)
(* (orchestration/cron.py).  A tick reads the clock, lists the workflows   *)
(* due in that minute and starts them one after the other; a start runs    *)
(* the whole workflow, so that the minute may be over before the next one. *)
(***************************************************************************)
EXTENDS Integers, Sequences, FiniteSets, FiniteSetsExt

CONSTANTS
  Ticker,              \* processes that call tick: cron of the host, daemon
  Loaded,              \* the workflows, in the order they are loaded
  Trigger,             \* [workflow -> [type, enabled, cron]]
  Startable,           \* the workflows that validate finds no problem in
  FieldRanges,         \* the least and the greatest value of each cron field
  Calendar,            \* [minute -> the value of each field]
  MaxTicks, MaxManual, MaxCrashes

Workflow == {Loaded[i] : i \in DOMAIN Loaded}
Minute == DOMAIN Calendar

VARIABLES
  now,                 \* the clock, in minutes
  runs,                \* table workflow_runs, oldest first; `for` is a ghost: the minute it was due
  ticker,              \* each ticker: where in tick, its moment, what is left of the workflows that
                       \* are due, by their place (ghost `alone`: it has met no other)
  starts,              \* ghost: what ticks that had met no other started, and for which minute
  ended,               \* ghost: the moments of the ticks that came to their end
  ticks, crashes

vars == <<now, runs, ticker, starts, ended, ticks, crashes>>

\* What the proofs need to know: a workflow is loaded once (a dict), time begins.
SchedulerAssumption ==
  /\ Loaded \in Seq(Workflow) /\ \A i, j \in DOMAIN Loaded : Loaded[i] = Loaded[j] => i = j
  /\ Startable \subseteq Workflow
  /\ Minute \subseteq Int /\ \E first \in Minute : \A m \in Minute : first <= m
  /\ {MaxTicks, MaxCrashes} \subseteq Nat

Idle == [at |-> "idle", moment |-> Min(Minute), left |-> {}, alone |-> TRUE]

TypeOK ==
  /\ now \in Minute
  /\ runs \in Seq([workflow : Workflow, trigger : {"cron", "manual"}, created : Minute,
                  for : Minute \cup {-1}])
  /\ ticker \in [Ticker -> [at : {"idle", "due", "start"}, moment : Minute, left : SUBSET DOMAIN Loaded,
                            alone : BOOLEAN]]
  /\ starts \in Seq(Workflow \X Minute)
  /\ ended \subseteq Minute
  /\ ticks \in 0..MaxTicks /\ crashes \in 0..MaxCrashes

-----------------------------------------------------------------------------
(* Cron expressions: a set of chunks [first, last, step] for each field.   *)

InRange(chunk, range) == /\ range[1] <= chunk.first /\ chunk.last <= range[2]
                         /\ chunk.first <= chunk.last
                         /\ chunk.step > 0

IsValid(cron) == /\ Len(cron) = Len(FieldRanges)
                 /\ \A i \in DOMAIN cron : /\ cron[i] # {}
                                           /\ \A chunk \in cron[i] : InRange(chunk, FieldRanges[i])

Allowed(field) == UNION {{v \in chunk.first..chunk.last : (v - chunk.first) % chunk.step = 0} : chunk \in field}

Matches(cron, minute) == \A i \in DOMAIN cron : Calendar[minute][i] \in Allowed(cron[i])

-----------------------------------------------------------------------------
OnClock(w) == Trigger[w].type = "cron" /\ Trigger[w].enabled

\* RunRepository.last_run(workflow, trigger="cron")
LastRun_Any(w) ==                                     \* mutant: last_run without its trigger
  LET of == {i \in DOMAIN runs : runs[i].workflow = w}
  IN  IF of = {} THEN {} ELSE {runs[Max(of)]}
LastRun(w) ==
  LET of == {i \in DOMAIN runs : runs[i].workflow = w /\ runs[i].trigger = "cron"}
  IN  IF of = {} THEN {} ELSE {runs[Max(of)]}

\* A workflow whose expression does not parse is listed as an error, and passed over.
IsDue_Again(w, moment) == OnClock(w) /\ IsValid(Trigger[w].cron) /\ Matches(Trigger[w].cron, moment)  \* mutant: the last run is not looked at
IsDue(w, moment) ==
  /\ OnClock(w) /\ IsValid(Trigger[w].cron)
  /\ Matches(Trigger[w].cron, moment)
  /\ \A run \in LastRun(w) : run.created # moment

\* From here on the tick has met whoever is in one, and they have met it.
Tick(t) == /\ ticker[t].at = "idle" /\ ticks < MaxTicks
           /\ LET met == {u \in Ticker \ {t} : ticker[u].at # "idle"}
              IN  ticker' = [u \in Ticker |->
                    IF u = t THEN [at |-> "due", moment |-> now, left |-> {}, alone |-> met = {}]
                    ELSE [ticker[u] EXCEPT !.alone = @ /\ u \notin met]]
           /\ ticks' = ticks + 1
           /\ UNCHANGED <<now, runs, starts, ended, crashes>>

Due(t) ==
  /\ ticker[t].at = "due"
  /\ ticker' = [ticker EXCEPT ![t].at = "start",
                             ![t].left = {i \in DOMAIN Loaded : IsDue(Loaded[i], ticker[t].moment)}]
  /\ UNCHANGED <<now, runs, starts, ended, ticks, crashes>>

CronRow_By(w, created, moment) ==                 \* mutant: the trigger left at its default
  [workflow |-> w, trigger |-> "manual", created |-> created, for |-> moment]
CronRow(w, created, moment) == [workflow |-> w, trigger |-> "cron", created |-> created, for |-> moment]

\* The next of the list, in the order in which workflows are loaded.
NextDue(t) == {i \in ticker[t].left : \A j \in ticker[t].left : i <= j}

\* orchestrator.start saves the run and then executes it: the clock moves on
\* (Advance) before the tick takes the next of its list.
Start(t) ==
  /\ ticker[t].at = "start"
  /\ \E i \in NextDue(t) :
       LET w == Loaded[i]
           moment == ticker[t].moment
       IN  /\ w \in Startable
           /\ runs' = Append(runs, CronRow(w, now, moment))
           /\ starts' = IF ticker[t].alone THEN Append(starts, <<w, moment>>) ELSE starts
           /\ ticker' = [ticker EXCEPT ![t].left = @ \ {i}]
  /\ UNCHANGED <<now, ended, ticks, crashes>>

\* start raises ConfigError, nothing in tick catches it: the rest of the list is not started.
StartRaises(t) ==
  /\ ticker[t].at = "start" /\ \E i \in NextDue(t) : Loaded[i] \notin Startable
  /\ ticker' = [ticker EXCEPT ![t] = Idle]
  /\ UNCHANGED <<now, runs, starts, ended, ticks, crashes>>

EndTick(t) ==
  /\ ticker[t].at = "start" /\ ticker[t].left = {}
  /\ ticker' = [ticker EXCEPT ![t] = Idle]
  /\ ended' = ended \cup {ticker[t].moment}
  /\ UNCHANGED <<now, runs, starts, ticks, crashes>>

Crash(t) == /\ ticker[t].at # "idle" /\ crashes < MaxCrashes
            /\ crashes' = crashes + 1
            /\ ticker' = [ticker EXCEPT ![t] = Idle]
            /\ UNCHANGED <<now, runs, starts, ended, ticks>>

\* Somebody starts a workflow by hand, or an event does.
StartByHand == /\ Cardinality({i \in DOMAIN runs : runs[i].trigger = "manual"}) < MaxManual
               /\ \E w \in Startable : runs' = Append(runs, [workflow |-> w, trigger |-> "manual", created |-> now, for |-> -1])
               /\ UNCHANGED <<now, ticker, starts, ended, ticks, crashes>>

Advance == now + 1 \in Minute /\ now' = now + 1 /\ UNCHANGED <<runs, ticker, starts, ended, ticks, crashes>>

Init == /\ now = Min(Minute) /\ runs = <<>>
        /\ ticker = [t \in Ticker |-> Idle]
        /\ starts = <<>> /\ ended = {} /\ ticks = 0 /\ crashes = 0

Next == \/ \E t \in Ticker : Tick(t) \/ Due(t) \/ Start(t) \/ StartRaises(t) \/ EndTick(t) \/ Crash(t)
        \/ StartByHand
        \/ Advance

Spec == Init /\ [][Next]_vars

-----------------------------------------------------------------------------
DueMinutes == {due \in Workflow \X Minute :
                 LET cron == Trigger[due[1]].cron IN OnClock(due[1]) /\ IsValid(cron) /\ Matches(cron, due[2])}

Once == INSTANCE OnceAMinute WITH Scheduled <- DueMinutes

\* Ticks that have met no other start a workflow at most once for a minute, and
\* only in minutes its expression names, whatever dies, lasts longer than a
\* minute or is started by hand (scheduler.py, "Idempotência").
StartedOnce == Once!Spec

\* A tick that came to its end left no workflow of its minute behind: each has
\* a run that was started for the minute, or one that was started in it (for
\* an earlier minute, by a tick that took long), which hides it.
NothingIsMissed ==
  \A m \in ended : \A due \in {d \in DueMinutes : d[2] = m} :
    \E i \in DOMAIN runs : /\ runs[i].trigger = "cron" /\ runs[i].workflow = due[1]
                           /\ m \in {runs[i].for, runs[i].created}
=============================================================================
