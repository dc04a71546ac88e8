----------------------------- MODULE Connectors -----------------------------
(***************************************************************************)
(* Calls to other systems (integrations/service.py, transports.py).  Each  *)
(* process keeps the connectors in memory (registry) and reads the table   *)
(* only at its start, on a sync and for a connector it does not know.  A   *)
(* call is checked against the connector, then by policy, then made, then  *)
(* recorded; whatever happens to it becomes a row.                         *)
(***************************************************************************)
EXTENDS Integers, Sequences, FiniteSets, TLC

CONSTANTS
  Process, Caller, Home,   \* Home[c]: the process the thread c belongs to
  Connector, Declaration,  \* Declaration[i]: what is declared of i
  Request,                 \* Request[i]: what is asked of i: [method, path, query]
  MaxRequests              \* bound: calls, switches, syncs and restarts

VARIABLES
  row,          \* the table: "on" (enabled), "off", or "none": it has no such connector
  registry,     \* each process: the same, as it remembers it
  caller,       \* each thread: where it is and what it has in hand
  calls,        \* integration_calls, by the number of the call
  onTrail,      \* calls with an entry in the audit ledger
  sent,         \* ghost: what reached another system, by the number of the call
  begun, lost,  \* ghost: calls that began, calls whose process stopped under them
  apart,        \* ghost: processes whose memory another thread or process outran
  requests

vars == <<row, registry, caller, calls, onTrail, sent, begun, lost, apart, requests>>

-----------------------------------------------------------------------------
READ_OPERATIONS == {"GET", "HEAD", "OPTIONS", "QUERY", "SELECT", "WITH", "PRAGMA", "EXPLAIN"}

\* A statement is its first word as the code finds it and what it does.
Nothing == ""
Kind(i) == Declaration[i].kind
Host(i, path) == IF path = Nothing THEN Declaration[i].host ELSE path     \* _url, host_of

\* _operation: what policy judges.
operation(i, q) == CASE Kind(i) = "graphql" -> IF q.query.word = "mutation" THEN "MUTATION" ELSE "QUERY"
                     [] Kind(i) = "sql" -> IF q.query.word = Nothing THEN "SELECT" ELSE q.query.word
                     [] OTHER -> q.method

\* _precheck: what the connector allows, whatever policy says.
MethodAllowed(i, q) == Kind(i) = "sql" \/ q.method \in Declaration[i].allowed_methods
HostAllowed(i, q) == Host(i, q.path) # Nothing /\ Host(i, q.path) \in Declaration[i].allowed_hosts
Precheck_Writes(i, q, enabled) ==                 \* mutant: read_only is not looked at
  /\ enabled /\ MethodAllowed(i, q)
  /\ IF Kind(i) = "sql" THEN Declaration[i].dsn ELSE HostAllowed(i, q)
Precheck(i, q, enabled) ==
  /\ enabled
  /\ Declaration[i].read_only => operation(i, q) \in READ_OPERATIONS
  /\ MethodAllowed(i, q)
  /\ IF Kind(i) = "sql" THEN Declaration[i].dsn ELSE HostAllowed(i, q)

\* What the other system is asked to do: what a document or a statement really
\* changes, whatever word it begins with.  is_write: everything but these words
\* is committed; a statement the driver does not know as a change takes effect
\* with no commit.
Changes(i, q) == IF Kind(i) \in {"graphql", "sql"} THEN q.query.changes ELSE q.method \notin READ_OPERATIONS

\* A change that _operation takes for reading: a mutation behind a comment or a
\* fragment, a statement behind WITH, a PRAGMA that sets something.
Disguised(i, q) == \/ Kind(i) = "graphql" /\ q.query.changes /\ q.query.word # "mutation"
                   \/ Kind(i) = "sql" /\ q.query.changes /\ q.query.word \in {"WITH", "PRAGMA"}

\* Transport.request: whether the request left and how it ended.  What raises
\* may have left; a status below 400 is an answer that is ok.
Unsent == [made |-> FALSE, ok |-> FALSE]
Failed == [made |-> TRUE, ok |-> FALSE]
Answered == [made |-> TRUE, ok |-> TRUE]
HttpAnswer == {Unsent, Failed, Answered}

\* graphql_call: the same, and errors in the body make an answer that is not ok.
GraphqlAnswer == HttpAnswer

\* sql_call: a dsn whose driver is unknown or not allowed, and a connection
\* that fails, ask nothing; a statement that raises is not committed.
SqlAnswer(i) == IF Declaration[i].driver THEN {Unsent, Answered} ELSE {Unsent}

Answer(i) == CASE Kind(i) = "graphql" -> GraphqlAnswer [] Kind(i) = "sql" -> SqlAnswer(i) [] OTHER -> HttpAnswer

\* test: what is asked when a connector is tried out.
TestRequest_Post(i) == [method |-> "POST", path |-> Nothing, query |-> [word |-> Nothing, changes |-> FALSE]]  \* mutant
TestRequest(i) ==
  CASE Kind(i) = "graphql" -> [method |-> "POST", path |-> Nothing, query |-> [word |-> "{", changes |-> FALSE]]
    [] Kind(i) = "sql" -> [method |-> "GET", path |-> Nothing, query |-> [word |-> "SELECT", changes |-> FALSE]]
    [] OTHER -> [method |-> "GET", path |-> Nothing, query |-> [word |-> Nothing, changes |-> FALSE]]

-----------------------------------------------------------------------------
Free == [pc |-> "free"]
Calls == 1..MaxRequests
States == {"none", "on", "off"}

Call(pc, c) == [pc |-> pc, n |-> c.n, i |-> c.i, q |-> c.q, trial |-> c.trial,
                ok |-> c.ok, denied |-> c.denied, allowed |-> c.allowed]

With(f, x, e) == [y \in DOMAIN f \cup {x} |-> IF y = x THEN e ELSE f[y]]

\* A record of a call; cost_per_call is charged for what went well.
Entry(c) == [i |-> c.i, op |-> operation(c.i, c.q), ok |-> c.ok, denied |-> c.denied,
             allowed |-> c.allowed, cost |-> IF c.ok THEN 1 ELSE 0]

TypeOK ==
  /\ row \in [Connector -> States]
  /\ registry \in [Process -> [Connector -> States]]
  /\ \A c \in Caller : caller[c].pc \in {"free", "authorize", "execute", "finish", "record", "register", "sync", "assign"}
  /\ DOMAIN calls \subseteq Calls /\ DOMAIN sent \subseteq Calls
  /\ onTrail \subseteq DOMAIN calls /\ begun \cup lost \subseteq Calls /\ apart \subseteq Process
  /\ requests \in 0..MaxRequests

Init ==
  /\ row \in [Connector -> States]
  /\ registry = [p \in Process |-> row]
  /\ caller = [c \in Caller |-> Free]
  /\ calls = <<>> /\ onTrail = {} /\ sent = <<>> /\ begun = {} /\ lost = {} /\ apart = {}
  /\ requests = 0

-----------------------------------------------------------------------------
\* call: get, _operation and _precheck.  A connector that is not in memory is
\* read from the table and remembered; one that is nowhere raises, unrecorded.
Known(p, i) == IF registry[p][i] = "none" THEN row[i] ELSE registry[p][i]

Begin(c, i, q, trial) ==
  LET p == Home[c]
      passed == Precheck(i, q, Known(p, i) = "on")
      call == [n |-> requests + 1, i |-> i, q |-> q, trial |-> trial, ok |-> FALSE, denied |-> ~passed, allowed |-> FALSE]
  IN /\ caller[c].pc = "free"
     /\ Known(p, i) # "none"
     /\ requests < MaxRequests /\ requests' = requests + 1
     /\ registry' = [registry EXCEPT ![p][i] = Known(p, i)]
     /\ caller' = [caller EXCEPT ![c] = Call(IF passed THEN "authorize" ELSE "finish", call)]
     /\ begun' = begun \cup {requests + 1}
     /\ UNCHANGED <<row, calls, onTrail, sent, lost, apart>>

Test(c, i) == Begin(c, i, TestRequest(i), TRUE)

\* _authorize: policy allows, refuses or wants an approval, and the last two
\* are refusals here; preauthorized calls pass by.  A dry run ends well, unsent.
Authorize(c) ==
  /\ caller[c].pc = "authorize"
  /\ \E allowed, dry \in BOOLEAN :
       caller' = [caller EXCEPT ![c] =
         IF ~allowed THEN Call("finish", [@ EXCEPT !.denied = TRUE])
         ELSE IF dry THEN Call("finish", [@ EXCEPT !.allowed = TRUE, !.ok = TRUE])
         ELSE Call("execute", [@ EXCEPT !.allowed = TRUE])]
  /\ UNCHANGED <<row, registry, calls, onTrail, sent, begun, lost, apart, requests>>

\* _execute: the request is made; what raises ends the call as an error does.
Execute(c) ==
  LET call == caller[c] IN
  /\ call.pc = "execute"
  /\ \E a \in Answer(call.i) :
       /\ sent' = IF a.made THEN With(sent, call.n, [i |-> call.i, q |-> call.q, trial |-> call.trial]) ELSE sent
       /\ caller' = [caller EXCEPT ![c] = Call("finish", [@ EXCEPT !.ok = a.ok])]
  /\ UNCHANGED <<row, registry, calls, onTrail, begun, lost, apart, requests>>

\* _finish: the row, then the entry in the ledger.
Finish_Sent(c) ==                                  \* mutant: what was refused leaves no row
  /\ caller[c].pc = "finish"
  /\ calls' = IF caller[c].denied THEN calls ELSE With(calls, caller[c].n, Entry(caller[c]))
  /\ caller' = [caller EXCEPT ![c] = IF caller[c].denied THEN Free ELSE Call("record", @)]
  /\ UNCHANGED <<row, registry, onTrail, sent, begun, lost, apart, requests>>
Finish(c) ==
  /\ caller[c].pc = "finish"
  /\ calls' = With(calls, caller[c].n, Entry(caller[c]))
  /\ caller' = [caller EXCEPT ![c] = Call("record", @)]
  /\ UNCHANGED <<row, registry, onTrail, sent, begun, lost, apart, requests>>

Record(c) ==
  /\ caller[c].pc = "record"
  /\ onTrail' = onTrail \cup {caller[c].n}
  /\ caller' = [caller EXCEPT ![c] = Free]
  /\ UNCHANGED <<row, registry, calls, sent, begun, lost, apart, requests>>

-----------------------------------------------------------------------------
\* What other threads and processes change while this one is at it.
Others(p) == Process \ {p}
Altering == {"register", "sync", "assign"}
Busy(c, pcs) == \E d \in Caller \ {c} : Home[d] = Home[c] /\ caller[d].pc \in pcs

\* `enable` (API and CLI): the connector in memory is switched at once, then
\* register saves it.
Switch(c, i, on) ==
  LET p == Home[c] IN
  /\ caller[c].pc = "free"
  /\ Known(p, i) # "none"
  /\ requests < MaxRequests /\ requests' = requests + 1
  /\ registry' = [registry EXCEPT ![p][i] = on]
  /\ caller' = [caller EXCEPT ![c] = [pc |-> "register", i |-> i, on |-> on]]
  /\ UNCHANGED <<row, calls, onTrail, sent, begun, lost, apart>>

Register_Row(c) ==                                  \* mutant: only the table
  /\ caller[c].pc = "register"
  /\ row' = [row EXCEPT ![caller[c].i] = caller[c].on]
  /\ registry' = [registry EXCEPT ![Home[c]][caller[c].i] = "on"]
  /\ apart' = apart \cup Others(Home[c]) \cup (IF Busy(c, Altering) THEN {Home[c]} ELSE {})
  /\ caller' = [caller EXCEPT ![c] = Free]
  /\ UNCHANGED <<calls, onTrail, sent, begun, lost, requests>>
Register(c) ==
  /\ caller[c].pc = "register"
  /\ row' = [row EXCEPT ![caller[c].i] = caller[c].on]
  /\ registry' = [registry EXCEPT ![Home[c]][caller[c].i] = caller[c].on]
  /\ apart' = apart \cup Others(Home[c]) \cup (IF Busy(c, Altering) THEN {Home[c]} ELSE {})
  /\ caller' = [caller EXCEPT ![c] = Free]
  /\ UNCHANGED <<calls, onTrail, sent, begun, lost, requests>>

\* sync: the files are read; what they declare is saved, one connector after the
\* other, over the switch its row had, and the other rows are left alone ...
Sync(c) ==
  /\ caller[c].pc = "free"
  /\ requests < MaxRequests /\ requests' = requests + 1
  /\ caller' = [caller EXCEPT ![c] = [pc |-> "sync", left |-> {i \in Connector : Declaration[i].declared}]]
  /\ UNCHANGED <<row, registry, calls, onTrail, sent, begun, lost, apart>>

SaveDeclared(c) ==
  /\ caller[c].pc = "sync"
  /\ \E i \in caller[c].left :
       /\ row' = [row EXCEPT ![i] = "on"]
       /\ caller' = [caller EXCEPT ![c] = [pc |-> "sync", left |-> @.left \ {i}]]
  /\ apart' = apart \cup Others(Home[c]) \cup (IF Busy(c, Altering) THEN {Home[c]} ELSE {})
  /\ UNCHANGED <<registry, calls, onTrail, sent, begun, lost, requests>>

\* ... then load reads the table and replaces what the process remembers.
ReadTable(c) ==
  /\ caller[c].pc = "sync" /\ caller[c].left = {}
  /\ caller' = [caller EXCEPT ![c] = [pc |-> "assign", found |-> row]]
  /\ UNCHANGED <<row, registry, calls, onTrail, sent, begun, lost, apart, requests>>

Load(c) ==
  /\ caller[c].pc = "assign"
  /\ registry' = [registry EXCEPT ![Home[c]] = caller[c].found]
  /\ apart' = IF Busy(c, Altering) THEN apart \cup {Home[c]} ELSE apart
  /\ caller' = [caller EXCEPT ![c] = Free]
  /\ UNCHANGED <<row, calls, onTrail, sent, begun, lost, requests>>

\* A process stops, with its threads, and starts again: its memory is the table.
Restart(p) ==
  LET here == {c \in Caller : Home[c] = p} IN
  /\ requests < MaxRequests /\ requests' = requests + 1
  /\ lost' = lost \cup {caller[c].n : c \in {d \in here : caller[d].pc \notin {"free"} \cup Altering}}
  /\ caller' = [c \in Caller |-> IF c \in here THEN Free ELSE caller[c]]
  /\ registry' = [registry EXCEPT ![p] = row]
  /\ apart' = apart \ {p}
  /\ UNCHANGED <<row, calls, onTrail, sent, begun>>

Next ==
  \/ \E c \in Caller : Authorize(c) \/ Execute(c) \/ Finish(c) \/ Record(c) \/ Register(c) \/ Load(c)
  \/ \E c \in Caller, i \in Connector : \E q \in Request[i] : Begin(c, i, q, FALSE)
  \/ \E c \in Caller, i \in Connector : Test(c, i)
  \/ \E c \in Caller, i \in Connector, on \in {"on", "off"} : Switch(c, i, on)
  \/ \E c \in Caller : Sync(c) \/ SaveDeclared(c) \/ ReadTable(c)
  \/ \E p \in Process : Restart(p)

Spec == Init /\ [][Next]_vars

-----------------------------------------------------------------------------
\* Every call that came back left its row and its entry in the ledger, however
\* it ended; what was refused was not made, and what went well was allowed
\* (service.call, _finish: "fica registrado que alguém tentou").
InHand == {caller[c].n : c \in {d \in Caller : caller[d].pc \in {"authorize", "execute", "finish", "record"}}}
CallsAreOnRecord ==
  /\ begun \ (InHand \cup lost) \subseteq onTrail
  /\ DOMAIN sent \subseteq begun
  /\ \A n \in DOMAIN calls : /\ calls[n].denied => n \notin DOMAIN sent /\ calls[n].cost = 0
                             /\ calls[n].ok => calls[n].allowed

\* Nothing reaches another system that its connector does not allow: through one
\* that only reads no change but a disguised one, no host off its list, and a
\* trial changes nothing, in disguise or not (service._precheck, test).
\* "somente leitura" itself does not hold: what Disguised names goes through.
ReachesWhatIsAllowed ==
  \A n \in DOMAIN sent :
    LET r == sent[n] IN
    /\ Declaration[r.i].read_only /\ Changes(r.i, r.q) => Disguised(r.i, r.q)
    /\ Kind(r.i) # "sql" => Host(r.i, r.q.path) \in Declaration[r.i].allowed_hosts
    /\ r.trial => ~Changes(r.i, r.q)

\* What a process remembers of a connector is what the table says, unless
\* another thread or process has changed it in between (register, sync, load).
MemoryIsTheTable ==
  \A p \in Process \ apart : \A i \in Connector :
    (\A c \in Caller : Home[c] = p => caller[c].pc \notin Altering)
      => registry[p][i] \in {"none", row[i]}
=============================================================================
