------------------------------ MODULE MCStarts ------------------------------
(***************************************************************************)
(* What starts work by itself: events of other systems (InboundEvents),    *)
(* the clock (Scheduler) and changes of rows (DbTriggers).  The three      *)
(* share nothing but the workflows they start, and are checked one at a    *)
(* time: `part` says which of them moves.                                  *)
(***************************************************************************)
EXTENDS InboundEvents, TLC

CONSTANTS
  Ticker, Loaded, Startable, Trigger, FieldRanges, Calendar, MaxTicks, MaxManual,
  Caller, DbTrigger, Limit, MaxChanges, MaxCalls, MaxDeaths

VARIABLES
  part,
  now, runs, ticker, starts, ended, ticks, tickerDeaths,
  tableRows, installed, queue, published, caller, raised, dropped, shared, calls, deaths

clock == <<now, runs, ticker, starts, ended, ticks, tickerDeaths>>
changes == <<tableRows, installed, queue, published, caller, raised, dropped, shared, calls, deaths>>

-----------------------------------------------------------------------------
Chunk(first, last, step) == [first |-> first, last |-> last, step |-> step]

\* Two minutes in each of two hours; expressions that name one hour, one
\* minute, every minute, and one that does not parse.
MCRanges == <<<<0, 1>>, <<0, 1>>>>
Every(i) == {Chunk(MCRanges[i][1], MCRanges[i][2], 1)}
MCCalendar == [m \in 0..3 |-> <<m % 2, m \div 2>>]
MCCron == [daily       |-> <<{Chunk(0, 1, 2)}, {Chunk(0, 0, 1)}>>,
           every       |-> <<Every(1), Every(2)>>,
           unstartable |-> <<{Chunk(1, 1, 1)}, Every(2)>>,
           mistyped    |-> <<{Chunk(1, 2, 1)}, Every(2)>>,
           on_event    |-> <<>>]
MCTrigger == [w \in DOMAIN MCCron |->
                [type |-> IF w = "on_event" THEN "event" ELSE "cron", enabled |-> TRUE, cron |-> MCCron[w]]]

MCLoaded == <<"daily", "every", "unstartable", "mistyped", "on_event">>

Clock == INSTANCE Scheduler WITH MaxCrashes <- MaxDeaths, crashes <- tickerDeaths

ASSUME ClockAssumption == Clock!SchedulerAssumption

DB == INSTANCE DbTriggers WITH rows <- tableRows, MaxCrashes <- MaxDeaths, crashes <- deaths

ASSUME ChangesAssumption == DB!DbAssumption

Similar == Permutations(Ext) \cup Permutations(Ticker) \cup Permutations(Caller)

MCInit == /\ part \in {"webhook", "clock", "changes"}
          /\ Init /\ Clock!Init /\ DB!Init
          /\ part # "webhook" => listens = {} /\ ~enabled

\* A start by hand or the death of a tick, not both.
Few == Cardinality({i \in DOMAIN runs : runs[i].trigger = "manual"}) + tickerDeaths <= 1

MCNext == \/ part = "webhook" /\ Next /\ UNCHANGED <<part, clock, changes>>
          \/ part = "clock" /\ Clock!Next /\ Few' /\ UNCHANGED <<part, vars, changes>>
          \/ part = "changes" /\ DB!Next /\ UNCHANGED <<part, vars, clock>>

MCSpec == MCInit /\ [][MCNext]_<<part, vars, clock, changes>>

-----------------------------------------------------------------------------
\* runtime/scheduler.py: ticks that have met no other start a workflow once
\* for a minute its expression names: the scheduler implements OnceAMinute.
StartedOnce == Clock!StartedOnce

\* tick leaves no workflow of its minute behind.
NothingIsMissed == part = "clock" => Clock!TypeOK /\ Clock!NothingIsMissed

\* storage/triggers.py: no event is lost, they are published in the order of
\* the changes and again only after a death, and install, uninstall and boot
\* leave SQLite and the table of one mind.
ChangesAreDrained == part = "changes" => DB!TypeOK /\ DB!NothingIsLost /\ DB!PublishedInOrder /\ DB!TableIsTrue
=============================================================================
