----------------------------- MODULE Evaluation -----------------------------
(***************************************************************************)
(* Evaluation of one suite (evaluation/runner.py, metrics.py, load.py,     *)
(* quality.py): its cases are run one after the other against an agent,    *)
(* the run is compared with its baseline and gets a verdict.  judge runs   *)
(* the suite and may turn the verdict it has saved; compare runs it with   *)
(* other providers, which it sets in the agent all callers share; load     *)
(* repeats cases and leaves no run.                                        *)
(***************************************************************************)
EXTENDS Integers, Sequences, FiniteSets, TLC

CONSTANTS
  Caller,
  Suite,                  \* its cases: [expect_ok, max_cost, max_time]
  Kind,                   \* what the suite may evaluate
  Answer,                 \* per kind: what a case may bring, [result, cost, time]
  Provider, Declared,     \* providers; agent.model.provider as declared
  MinPassed, MaxCost,     \* thresholds: cases that must pass (min_pass_rate), cost, ...
  MaxP95,                 \* ... and time (max_p95_duration_ms); one not set is one never reached
  MaxRegressions, MaxDrift, \* thresholds: regressions, and how much slower in percent
  Comparisons,            \* what compare is called with: lists of names of providers
  Window,                 \* runs that are looked at for a baseline (10)
  Loads,                  \* loads of interest: [requests, errors, denied, slow]
  MaxRuns                 \* bound

VARIABLES
  kind,                   \* what the suite evaluates
  runs,                   \* evaluation_runs, oldest first
  provider,               \* agent.model.provider in memory
  caller,                 \* each caller: what it runs and how far it is
  judging,                \* ghost: runs whose judgement is still to be saved
  crossed                 \* ghost: two callers were at it at once, one of them comparing

vars == <<kind, runs, provider, caller, judging, crossed>>

-----------------------------------------------------------------------------
Case == DOMAIN Suite
Status == {"passed", "failed", "regressed", "error"}

\* _case_tool, _case_workflow, _case_agent, _case_policy: what the answer of the
\* target comes to; "missing" and "raised" are failures of the evaluation.
Good == [tool |-> "ran", workflow |-> "completed", agent |-> "completed", policy |-> "allow"]
context(answer) ==
  [ok |-> answer.result = Good[kind], fatal |-> answer.result \in {"missing", "raised"},
   cost |-> IF kind = "policy" THEN 0 ELSE answer.cost, time |-> answer.time]

\* _check and _run_case: a case passes that meets what its suite expects.
meets(case, c) ==
  /\ case.expect_ok # "any" => c.ok = (case.expect_ok = "yes")
  /\ c.cost <= case.max_cost /\ c.time <= case.max_time
result(case, c) == [ok |-> meets(case, c) /\ ~c.fatal, fatal |-> c.fatal, cost |-> c.cost, time |-> c.time]

\* metrics.aggregate, of what the cases came to.
passed(cases) == {k \in DOMAIN cases : cases[k].ok}
total_cost(cases) == LET sum[k \in 0..Len(cases)] == IF k = 0 THEN 0 ELSE sum[k - 1] + cases[k].cost IN sum[Len(cases)]
total_time(cases) == LET sum[k \in 0..Len(cases)] == IF k = 0 THEN 0 ELSE sum[k - 1] + cases[k].time IN sum[Len(cases)]

\* metrics.percentile: the least time that 95 of 100 cases stay within.
within(cases, t) == {k \in DOMAIN cases : cases[k].time <= t}
mostly_within(cases, t) == 100 * Cardinality(within(cases, t)) >= 95 * Len(cases)
p95_duration_ms(cases) ==
  LET enough == {k \in DOMAIN cases : mostly_within(cases, cases[k].time)}
  IN cases[CHOOSE k \in enough : \A j \in enough : cases[k].time <= cases[j].time].time

\* metrics.compare: cases that passed and fail now, and one more when the cases
\* take longer by more than the drift that is allowed.
new_failures(cases, base) == passed(base) \ passed(cases)
Drifted(cases, base) ==
  total_time(base) > 0 /\ (total_time(cases) - total_time(base)) * 100 > MaxDrift * total_time(base)
regressions_Fixed(cases, base) ==                  \* mutant: those that were mended
  Cardinality(passed(cases) \ passed(base)) + (IF Drifted(cases, base) THEN 1 ELSE 0)
regressions(cases, base) == Cardinality(new_failures(cases, base)) + (IF Drifted(cases, base) THEN 1 ELSE 0)

\* metrics.verdict, and run: an error when not one case could be evaluated.
exceeds(cases) ==
  Cardinality(passed(cases)) < MinPassed \/ total_cost(cases) > MaxCost \/ p95_duration_ms(cases) > MaxP95
verdict_Order(cases, critical, base) ==            \* mutant: a limit that is broken hides a regression
  IF \A k \in Case : cases[k].fatal THEN "error"
  ELSE IF critical \/ exceeds(cases) THEN "failed"
  ELSE IF base # <<>> /\ regressions(cases, base) > MaxRegressions THEN "regressed"
  ELSE "passed"
verdict_Slow(cases, critical, base) ==             \* mutant: the time is not looked at
  IF \A k \in Case : cases[k].fatal THEN "error"
  ELSE IF base # <<>> /\ regressions(cases, base) > MaxRegressions THEN "regressed"
  ELSE IF critical \/ Cardinality(passed(cases)) < MinPassed \/ total_cost(cases) > MaxCost THEN "failed"
  ELSE "passed"
verdict(cases, critical, base) ==
  IF \A k \in Case : cases[k].fatal THEN "error"
  ELSE IF base # <<>> /\ regressions(cases, base) > MaxRegressions THEN "regressed"
  ELSE IF critical \/ exceeds(cases) THEN "failed"
  ELSE "passed"

\* _resolve_baseline: the newest of the last runs that passed; 0: there is none.
Passed_Any == DOMAIN runs                          \* mutant: whatever its verdict
Passed == {n \in DOMAIN runs : runs[n].status = "passed" /\ n > Len(runs) - Window}
Baseline(explicit) == IF explicit # 0 THEN explicit
                      ELSE IF Passed = {} THEN 0 ELSE CHOOSE n \in Passed : \A m \in Passed : m <= n

-----------------------------------------------------------------------------
Idle == [pc |-> "idle"]

TypeOK ==
  /\ Len(runs) <= MaxRuns
  /\ \A n \in DOMAIN runs : runs[n].status \in Status /\ runs[n].baseline \in 0..n - 1
  /\ provider \in Provider
  /\ kind \in Kind
  /\ \A c \in Caller : caller[c].pc \in {"idle", "case", "verdict", "judge", "next", "restore"}
  /\ judging \subseteq DOMAIN runs /\ crossed \in BOOLEAN

Init ==
  /\ kind \in Kind /\ runs = <<>> /\ provider = Declared
  /\ caller = [c \in Caller |-> Idle]
  /\ judging = {} /\ crossed = FALSE

Active == {c \in Caller : caller[c].pc # "idle"}
Begins(c, op) ==                                    \* the ghost, when c begins op
  crossed' = (crossed \/ \E d \in Active \ {c} : op = "compare" \/ caller[d].op = "compare")

\* How many runs the callers may still save: the bound.
Room == Len(runs) + Cardinality(Active) < MaxRuns

Work(op, explicit, names) ==
  [pc |-> IF op = "compare" THEN "next" ELSE "case", op |-> op, explicit |-> explicit,
   names |-> names, previous |-> provider, cases |-> <<>>, used |-> {}]

\* run and judge; a baseline that is named must be there.
Run(c, op, explicit) ==
  /\ caller[c] = Idle
  /\ Room
  /\ op \in {"run", "judge"} /\ (op = "judge" => explicit = 0)
  /\ explicit \in {0} \cup DOMAIN runs
  /\ caller' = [caller EXCEPT ![c] = Work(op, explicit, <<>>)]
  /\ Begins(c, op)
  /\ UNCHANGED <<kind, runs, provider, judging>>

\* compare: it remembers the provider of the agent.
Compare(c, names) ==
  /\ caller[c] = Idle
  /\ Room
  /\ caller' = [caller EXCEPT ![c] = Work("compare", 0, names)]
  /\ Begins(c, "compare")
  /\ UNCHANGED <<kind, runs, provider, judging>>

\* _compare_one: a name that is no provider is noted and passed over.
NextProvider(c) ==
  LET w == caller[c] IN
  /\ w.pc = "next"
  /\ IF w.names = <<>> THEN caller' = [caller EXCEPT ![c].pc = "restore"] /\ UNCHANGED provider
     ELSE IF Head(w.names) \notin Provider
     THEN caller' = [caller EXCEPT ![c].names = Tail(@)] /\ UNCHANGED provider
     ELSE /\ provider' = IF kind = "agent" THEN Head(w.names) ELSE provider
          /\ caller' = [caller EXCEPT ![c] = [w EXCEPT !.pc = "case", !.names = Tail(@), !.cases = <<>>, !.used = {}]]
  /\ UNCHANGED <<kind, runs, judging, crossed>>

Restore_Declared(c) ==                              \* mutant: only when nothing was compared
  /\ caller[c].pc = "restore"
  /\ provider' = provider
  /\ caller' = [caller EXCEPT ![c] = Idle]
  /\ UNCHANGED <<kind, runs, judging, crossed>>
Restore(c) ==
  /\ caller[c].pc = "restore"
  /\ provider' = IF kind = "agent" THEN caller[c].previous ELSE provider
  /\ caller' = [caller EXCEPT ![c] = Idle]
  /\ UNCHANGED <<kind, runs, judging, crossed>>

\* _run_case: a task with the agent as it is then; an exception is an outcome.
RunCase(c) ==
  LET w == caller[c] IN
  /\ w.pc = "case"
  /\ \E answer \in Answer[kind] :
       caller' = [caller EXCEPT ![c] =
         [w EXCEPT !.cases = Append(@, result(Suite[Len(w.cases) + 1], context(answer))), !.used = @ \cup {provider},
                   !.pc = IF Len(w.cases) + 1 = Len(Suite) THEN "verdict" ELSE "case"]]
  /\ UNCHANGED <<kind, runs, provider, judging, crossed>>

\* run: the scan, the baseline, the verdict, the row.
Verdict(c) ==
  LET w == caller[c]
      b == Baseline(w.explicit)
      base == IF b = 0 THEN <<>> ELSE runs[b].cases IN
  /\ w.pc = "verdict"
  /\ Len(runs) < MaxRuns
  /\ \E critical \in BOOLEAN :
       runs' = Append(runs, [cases |-> w.cases, critical |-> critical, status |-> verdict(w.cases, critical, base),
                             baseline |-> b, implicit |-> w.explicit = 0, doubtful |-> b \in judging,
                             used |-> w.used, op |-> w.op])
  /\ judging' = IF w.op = "judge" THEN judging \cup {Len(runs) + 1} ELSE judging
  /\ caller' = [caller EXCEPT ![c] =
       CASE w.op = "judge" -> [w EXCEPT !.pc = "judge", !.explicit = Len(runs) + 1]
         [] w.op = "compare" -> [w EXCEPT !.pc = "next"]
         [] OTHER -> Idle]
  /\ UNCHANGED <<kind, provider, crossed>>

\* judge: answers that are worse than min_quality make the run a failure, with
\* a second save.
Judge(c) ==
  LET n == caller[c].explicit IN
  /\ caller[c].pc = "judge"
  /\ \E good \in BOOLEAN : runs' = IF good THEN runs ELSE [runs EXCEPT ![n].status = "failed"]
  /\ judging' = judging \ {n}
  /\ caller' = [caller EXCEPT ![c] = Idle]
  /\ UNCHANGED <<kind, provider, crossed>>

-----------------------------------------------------------------------------
\* LoadRunner._verdict, of what was measured.
load_verdict_Errors(load) ==                        \* mutant: refusals are not looked at
  IF load.errors * 20 <= load.requests /\ ~load.slow THEN "passed"
  ELSE IF 2 * load.errors <= load.requests THEN "degraded" ELSE "failed"
load_verdict(load) ==
  IF load.errors * 20 <= load.requests /\ load.denied = 0 /\ ~load.slow THEN "passed"
  ELSE IF load.denied = 0 /\ 2 * load.errors <= load.requests THEN "degraded" ELSE "failed"

Next ==
  \/ \E c \in Caller, op \in {"run", "judge"}, explicit \in 0..MaxRuns : Run(c, op, explicit)
  \/ \E c \in Caller, names \in Comparisons : Compare(c, names)
  \/ \E c \in Caller : NextProvider(c) \/ Restore(c) \/ RunCase(c) \/ Verdict(c) \/ Judge(c)

Spec == Init /\ [][Next]_vars

-----------------------------------------------------------------------------
\* What passes is good: enough cases passed, nothing critical was found, it
\* stays within its cost, 95 of 100 cases within their time, and no case fails that passed in its baseline; and what
\* it was compared with had passed, unless it was named or its judgement was
\* still to come (runner.run, metrics.verdict, ADR-031).
PassedIsGood ==
  \A n \in DOMAIN runs :
    LET r == runs[n] IN
    /\ r.status = "passed" =>
         /\ Cardinality(passed(r.cases)) >= MinPassed /\ ~r.critical
         /\ total_cost(r.cases) <= MaxCost /\ mostly_within(r.cases, MaxP95)
         /\ r.baseline # 0 => Cardinality(new_failures(r.cases, runs[r.baseline].cases)) <= MaxRegressions
    /\ r.implicit /\ r.baseline # 0 /\ ~r.doubtful => runs[r.baseline].status = "passed"
    /\ r.status = "failed" /\ r.op # "judge" /\ r.baseline # 0 =>
         Cardinality(new_failures(r.cases, runs[r.baseline].cases)) <= MaxRegressions

\* Unless callers crossed while one of them compared, the agent has its own
\* provider again once nobody compares, and a run that compares nothing used it
\* throughout (runner.compare: "devolvido ao valor original no fim").
ProviderIsReturned ==
  ~crossed =>
    /\ (\A c \in Active : caller[c].op # "compare") => provider = Declared
    /\ \A n \in DOMAIN runs : runs[n].op # "compare" => runs[n].used \subseteq {Declared}
    /\ \A n \in DOMAIN runs : Cardinality(runs[n].used) = 1

\* A load that passed had nothing refused by the budget, and what failed for
\* the budget is never only "degraded" (load.py).
LoadsAreTold ==
  \A load \in Loads :
    /\ load_verdict(load) = "passed" => load.denied = 0 /\ 20 * load.errors <= load.requests
    /\ load.denied > 0 => load_verdict(load) = "failed"
=============================================================================
