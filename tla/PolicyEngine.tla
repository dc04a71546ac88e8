---------------------------- MODULE PolicyEngine ----------------------------
(***************************************************************************)
(* The policy engine (policies/engine.py), the conditions of its rules     *)
(* (policies/conditions.py), and the way policies come into force: from    *)
(* the files of the workspace into the table, and from the table into the  *)
(* memory of each process (Runtime.__init__ and sync_policies).            *)
(***************************************************************************)
EXTENDS Integers, Sequences, FiniteSets, FiniteSetsExt, SequencesExt, TLC

CONSTANTS
  Process,
  Default,             \* policies/defaults.py: the policies the program brings
  Version,             \* the policies a file may hold; the file bears the id
  Request,             \* what may be asked of the engine
  Allowed,             \* [agent -> the patterns of tools it may use]
  NoAgent,
  MaxEdits, MaxSyncs, MaxCrashes

VARIABLES
  files,               \* the policies the workspace has
  table,               \* table policies, one row for an id
  engine,              \* each process: PolicyEngine.policies, in their order
  syncing,             \* each process: idle, or the policies sync_policies has left to save
  loaded,              \* ghost, each process: the table when it was last read
  edits, syncs, crashes

vars == <<files, table, engine, syncing, loaded, edits, syncs, crashes>>

-----------------------------------------------------------------------------
(* Values are pairs of a kind and a datum; Python's booleans are numbers.  *)

None == <<"none">>
Raises == <<"raises">>                    \* a ConditionError
Num(n) == <<"num", n>>
Text(t) == <<"text", t>>
List(s) == <<"list", s>>
Truth(b) == Num(IF b THEN 1 ELSE 0)

Holds(v) == v \notin {None, Raises, Num(0), Text(""), List(<<>>)}

\* Condition._compare: nothing but a missing fact equals a missing fact, and
\* operands that cannot be compared are not in the relation.
Compare_Missing(op, left, right) ==       \* mutant: what is missing counts as zero
  LET n(v) == IF v = None THEN 0 ELSE v[2]
  IN  CASE op = "==" -> left = right
        [] op = "!=" -> left # right
        [] op = "<"  -> {left[1], right[1]} \subseteq {"none", "num"} /\ n(left) < n(right)
        [] op = ">=" -> {left[1], right[1]} \subseteq {"none", "num"} /\ n(left) >= n(right)
        [] op = "in" -> right[1] = "list" /\ left \in Range(right[2])
        [] op = "not in" -> right[1] = "list" /\ left \notin Range(right[2])
Compare(op, left, right) ==
  CASE op = "==" -> left = right
    [] op = "!=" -> left # right
    [] op = "<"  -> left[1] = "num" /\ right[1] = "num" /\ left[2] < right[2]
    [] op = ">=" -> left[1] = "num" /\ right[1] = "num" /\ left[2] >= right[2]
    [] op = "in" -> left # None /\ right[1] = "list" /\ left \in Range(right[2])
    [] op = "not in" -> left # None /\ right[1] = "list" /\ left \notin Range(right[2])

Applied(op, vs) ==
  CASE op = "and" -> Truth(\A i \in DOMAIN vs : Holds(vs[i]))
    [] op = "or"  -> Truth(\E i \in DOMAIN vs : Holds(vs[i]))
    [] op = "not" -> Truth(~Holds(vs[1]))
    [] op = "+"   -> IF \A i \in {1, 2} : vs[i][1] = "num" THEN Num(vs[1][2] + vs[2][2]) ELSE Raises
    [] op = "len" -> IF vs[1][1] = "list" THEN Num(Len(vs[1][2])) ELSE Raises

\* A chain of comparisons stops at the first that fails, before it evaluates
\* the rest.
Chain(ops, vs) ==
  LET reached(k) == \A i \in 1..(k - 2) : Compare(ops[i], vs[i], vs[i + 1])
      bad == {k \in DOMAIN vs : vs[k] = Raises}
  IN  IF bad # {} /\ reached(Min(bad)) THEN Raises
      ELSE Truth(bad = {} /\ \A i \in DOMAIN ops : Compare(ops[i], vs[i], vs[i + 1]))

\* Condition._eval.  Operands of `and` and `or` are all evaluated, and one
\* that raises makes the whole condition raise.
RECURSIVE Eval(_, _)
Eval(c, facts) ==
  CASE c.op = "const" -> c.value
    [] c.op = "name"  -> IF c.name \in DOMAIN facts THEN facts[c.name] ELSE None
    [] c.op = "compare" -> Chain(c.ops, [i \in DOMAIN c.args |-> Eval(c.args[i], facts)])
    [] c.op \in {"and", "or", "not", "+", "len"} ->
         LET vs == [i \in DOMAIN c.args |-> Eval(c.args[i], facts)]
         IN  IF Raises \in Range(vs) THEN Raises ELSE Applied(c.op, vs)
    [] OTHER -> Raises                    \* what the evaluator does not know

-----------------------------------------------------------------------------
(* An action is <<noun, verb>>; a pattern may leave either open.           *)

Matches(pattern, action) == \A i \in {1, 2} : pattern[i] \in {"*", action[i]}

\* PolicyEngine._build_evaluation_context: arguments come last, but for the
\* names that are kept for the runtime.
Reserved == {"environment", "agent", "risk", "tool", "action"}
Facts(q) == [n \in DOMAIN q.args \ Reserved |-> q.args[n]] @@ q.security
            @@ [environment |-> Text(q.environment), risk |-> Text(q.risk),
                agent |-> IF q.agent = NoAgent THEN None ELSE Text(q.agent)]

\* AgentSpec.allows_tool: no pattern leaves the decision to the policies.
MayUse(q) == q.agent = NoAgent \/ Allowed[q.agent] = {} \/ \E pattern \in Allowed[q.agent] : Matches(pattern, q.action)

Concerns(rule, q) == /\ Matches(rule.action, q.action)
                     /\ rule.environments = {} \/ q.environment \in rule.environments
                     /\ rule.agents = {} \/ q.agent \in rule.agents

\* A rule that raises decides too.
Speaks(rule, q) == Concerns(rule, q) /\ (Eval(rule.condition, Facts(q)) = Raises \/ Holds(Eval(rule.condition, Facts(q))))

Says(rule, q) == [decision |-> IF Eval(rule.condition, Facts(q)) = Raises THEN "deny" ELSE rule.decision,
                  rule |-> rule.id]

\* PolicyEngine.evaluate
Decision(policies, q) ==
  LET on(pol) == pol.enabled
      rules == FlattenSeq([i \in DOMAIN SelectSeq(policies, on) |-> SelectSeq(policies, on)[i].rules])
      speaking == {i \in DOMAIN rules : Speaks(rules[i], q)}
  IN  CASE ~MayUse(q) -> [decision |-> "deny", rule |-> "agent-allowlist"]
        [] MayUse(q) /\ speaking # {} -> Says(rules[Min(speaking)], q)
        [] OTHER -> [decision |-> "deny", rule |-> "default"]

\* The order of list_policies: the highest priority first, then by id.
Precedes(a, b) == a.priority > b.priority \/ (a.priority = b.priority /\ a.id < b.id)

\* PolicyEngine.set_policies: of two policies with one id the later stays.
Merged_First(policies, new) ==            \* mutant: the first of the two stays
  LET kept(pol) == pol.builtin
      all == SelectSeq(policies, kept) \o new
      first(i) == \A j \in DOMAIN all : j < i => all[j].id # all[i].id
  IN  SetToSortSeq({all[i] : i \in {i \in DOMAIN all : first(i)}}, Precedes)
Merged(policies, new) ==
  LET kept(pol) == pol.builtin
      all == SelectSeq(policies, kept) \o new
      last(i) == \A j \in DOMAIN all : j > i => all[j].id # all[i].id
  IN  SetToSortSeq({all[i] : i \in {i \in DOMAIN all : last(i)}}, Precedes)

-----------------------------------------------------------------------------
Idle == [at |-> "idle", todo |-> <<>>]
Down == [at |-> "down", todo |-> <<>>]

\* PolicyEngine() and set_policies, over the default policies and the table.
Start(p) == /\ syncing[p].at = "down"
            /\ engine' = [engine EXCEPT ![p] = Merged(Default, Default \o SetToSeq(table))]
            /\ loaded' = [loaded EXCEPT ![p] = table]
            /\ syncing' = [syncing EXCEPT ![p] = Idle]
            /\ UNCHANGED <<files, table, edits, syncs, crashes>>

\* sync_policies reads every file before it saves any (a file that is not
\* valid ends it there) ...
Sync(p) == /\ syncing[p].at = "idle" /\ syncs < MaxSyncs
           /\ syncing' = [syncing EXCEPT ![p] = [at |-> "save", todo |-> SetToSortSeq(files, LAMBDA a, b : a.id < b.id)]]
           /\ syncs' = syncs + 1
           /\ UNCHANGED <<files, table, engine, loaded, edits, crashes>>

\* ... commits them one by one ...
SavePolicy(p) ==
  /\ syncing[p].at = "save" /\ syncing[p].todo # <<>>
  /\ LET new == Head(syncing[p].todo)
     IN  table' = {pol \in table : pol.id # new.id} \cup {new}
  /\ syncing' = [syncing EXCEPT ![p].todo = Tail(@)]
  /\ UNCHANGED <<files, engine, loaded, edits, syncs, crashes>>

\* ... and hands the table to the engine of its own process.
Install(p) ==
  /\ syncing[p].at = "save" /\ syncing[p].todo = <<>>
  /\ engine' = [engine EXCEPT ![p] = Merged(engine[p], Default \o SetToSeq(table))]
  /\ loaded' = [loaded EXCEPT ![p] = table]
  /\ syncing' = [syncing EXCEPT ![p] = Idle]
  /\ UNCHANGED <<files, table, edits, syncs, crashes>>

Die(p) == /\ syncing[p].at # "down" /\ crashes < MaxCrashes
          /\ crashes' = crashes + 1
          /\ syncing' = [syncing EXCEPT ![p] = Down]
          /\ engine' = [engine EXCEPT ![p] = <<>>]
          /\ loaded' = [loaded EXCEPT ![p] = {}]
          /\ UNCHANGED <<files, table, edits, syncs>>

\* Somebody writes a file, or takes it away.
Edit == /\ edits < MaxEdits /\ edits' = edits + 1
        /\ \E pol \in Version : LET others == {f \in files : f.id # pol.id}
                                IN  files' \in {others, others \cup {pol}} \ {files}
        /\ UNCHANGED <<table, engine, syncing, loaded, syncs, crashes>>

Init == /\ files = {} /\ table = {}
        /\ engine = [p \in Process |-> <<>>]
        /\ syncing = [p \in Process |-> Down]
        /\ loaded = [p \in Process |-> {}]
        /\ edits = 0 /\ syncs = 0 /\ crashes = 0

Next == \/ \E p \in Process : Start(p) \/ Sync(p) \/ SavePolicy(p) \/ Install(p) \/ Die(p)
        \/ Edit

Spec == Init /\ [][Next]_vars

-----------------------------------------------------------------------------
TypeOK == /\ files \subseteq Version /\ table \subseteq Version
          /\ \A p \in Process : Range(engine[p]) \subseteq Version \cup Range(Default)
          /\ \A p \in Process : syncing[p].at \in {"down", "idle", "save"} /\ Range(syncing[p].todo) \subseteq Version
          /\ \A p \in Process : loaded[p] \subseteq Version
          /\ edits \in 0..MaxEdits /\ syncs \in 0..MaxSyncs /\ crashes \in 0..MaxCrashes

Running(p) == syncing[p].at # "down"

\* What process p is to decide by: the table it read, and the default policies
\* the table has no other version of.
InForce(p) == {pol \in loaded[p] \cup {d \in Range(Default) : \A t \in loaded[p] : t.id # d.id} : pol.enabled}

\* Whatever was edited, saved or interrupted, by whomever, a process that
\* answers decides by the table it read last and the default policies: the
\* first rule that speaks decides, in the order of priorities and ids; if it
\* cannot be evaluated the answer is deny, as when no rule speaks or the agent
\* may not use the tool (docs/ARCHITECTURE.md, "Default deny", "Fail closed").
FirstRuleDecides ==
  \A p \in {p \in Process : Running(p)}, q \in Request :
    LET speaking == {<<pol, i>> \in InForce(p) \X (1..4) : i \in DOMAIN pol.rules /\ Speaks(pol.rules[i], q)}
        before(a, b) == Precedes(a[1], b[1]) \/ (a[1] = b[1] /\ a[2] < b[2])
        d == Decision(engine[p], q).decision
    IN  IF ~MayUse(q) \/ speaking = {} THEN d = "deny"
        ELSE \E s \in speaking :
               /\ \A o \in speaking \ {s} : before(s, o)
               /\ d = IF Eval(s[1].rules[s[2]].condition, Facts(q)) = Raises THEN "deny"
                      ELSE s[1].rules[s[2]].decision

\* No `not`, no inequality, nothing compared with None.
RECURSIVE Positive(_)
Positive(c) == CASE c.op = "const" -> c.value # None
                 [] c.op = "name" -> TRUE
                 [] c.op = "compare" -> /\ \A i \in DOMAIN c.ops : c.ops[i] # "!="
                                        /\ \A i \in DOMAIN c.args : c.args[i].op \in {"const", "name"} /\ Positive(c.args[i])
                                        /\ \E i \in DOMAIN c.args : c.args[i].op = "const"
                 [] c.op \in {"and", "or"} -> \A i \in DOMAIN c.args : Positive(c.args[i])
                 [] OTHER -> FALSE

\* A condition that says what must be so holds no more when fewer facts are
\* known: "unknown facts do not authorize" (conditions.py, _compare).
UnknownFactsDoNotHold ==
  \A p \in Process : \A k \in DOMAIN engine[p] : \A i \in DOMAIN engine[p][k].rules :
    LET c == engine[p][k].rules[i].condition
    IN  Positive(c) => \A q \in Request : \A unknown \in DOMAIN Facts(q) :
          Holds(Eval(c, [n \in DOMAIN Facts(q) \ {unknown} |-> Facts(q)[n]])) => Holds(Eval(c, Facts(q)))
=============================================================================
