------------------------------- MODULE MCEdge -------------------------------
(***************************************************************************)
(* Edge for TLC: the values of its constants, the policies (PolicyEngine), *)
(* and a next-state relation in which `part` says which component moves;   *)
(* the others stay in their initial state.                                 *)
(***************************************************************************)
EXTENDS Edge

CONSTANT MaxEdits, MaxSyncs

VARIABLES files, table, engine, syncing, loaded, edits, syncs, stops

policing == <<files, table, engine, syncing, loaded, edits, syncs, stops>>

-----------------------------------------------------------------------------
\* p1 has a token and comes through the provider of identities too.
MCHolder == [t1 |-> "p1"]

\* Good files, one of them past the limit; one with neither extension nor type; an
\* extension, a type and sizes that are refused; a download that fails.
MCExtension == [txt |-> "listed", exe |-> "other", note |-> "none"]
Good == [name |-> "txt", mime |-> "listed", declared |-> "fits", size |-> "fits", fetch |-> "works"]
Bare == [Good EXCEPT !.name = "note", !.mime = "none"]
MCOffers == {<<Good, Good, Good>>, <<Good>>, <<Bare, [Good EXCEPT !.name = "exe"]>>,
             <<[Good EXCEPT !.declared = "none", !.size = "big"], [Bare EXCEPT !.mime = "other"]>>,
             <<[Good EXCEPT !.fetch = "raises"], [Good EXCEPT !.declared = "big"], Good>>}

\* The policies: two the program brings; versions of one of them and of two others.
Const(kind, datum) == [op |-> "const", value |-> <<kind, datum>>]
Name(n) == [op |-> "name", name |-> n]
Cond(op, args) == [op |-> op, args |-> args]
Comparison(ops, args) == [op |-> "compare", ops |-> ops, args |-> args]
Always == Const("num", 1)
Rule(id, action, condition, decision) ==
  [id |-> id, action |-> action, condition |-> condition, decision |-> decision, environments |-> {}, agents |-> {}]
Policy(id, priority, rules) == [id |-> id, priority |-> priority, enabled |-> TRUE, builtin |-> FALSE, rules |-> rules]

MCDefault ==
  <<[Policy(2, 10, <<Rule("guard", <<"*", "*">>,
       Cond("and", <<Comparison(<<"==">>, <<Name("environment"), Const("text", "production")>>),
                     Comparison(<<"in">>, <<Name("risk"), Const("list", <<<<"text", "high">>>>)>>)>>), "ask")>>)
     EXCEPT !.builtin = TRUE],
    [Policy(1, 0, <<Rule("write", <<"integration", "call">>, Comparison(<<"==">>, <<Name("write"), Always>>), "ask"),
                    Rule("read", <<"integration", "*">>, Always, "allow"),
                    [Rule("dev", <<"code", "run">>, Always, "allow") EXCEPT !.environments = {"development"}]>>)
     EXCEPT !.builtin = TRUE]>>
MCVersion ==
  {Policy(3, 5, <<Rule("limit", <<"*", "call">>, Comparison(<<"<", "<">>, <<Const("num", 0), Name("amount"), Const("num", 5)>>), "allow"),
                  Rule("over", <<"integration", "call">>, Comparison(<<">=">>, <<Name("amount"), Const("num", 5)>>), "deny")>>),
   Policy(3, 20, <<Rule("broken", <<"*", "run">>, Cond("or", <<Always, [op |-> "attribute"]>>), "allow"),
                   Rule("sum", <<"integration", "call">>,
                        Comparison(<<"<">>, <<Cond("+", <<Name("amount"), Const("num", 1)>>), Const("num", 3)>>), "allow")>>),
   Policy(1, 0, <<Rule("unwritten", <<"*", "*">>, Cond("not", <<Name("write")>>), "deny"),
                  [Rule("mine", <<"*", "*">>, Always, "allow") EXCEPT !.agents = {"a1"}]>>),
   [Policy(1, 0, <<Rule("off", <<"*", "*">>, Always, "allow")>>) EXCEPT !.enabled = FALSE],
   Policy(4, 5, <<Rule("small", <<"integration", "call">>, Comparison(<<"<">>, <<Name("amount"), Const("num", 5)>>), "deny")>>)}

Ask(action, agent, environment, args) ==
  [action |-> action, agent |-> agent, environment |-> environment, risk |-> "high", args |-> args, security |-> <<>>]
MCRequest ==
  {Ask(<<"integration", "call">>, agent, "development", args) :
     agent \in {"a1", "none"}, args \in {<<>>, [amount |-> <<"num", 3>>],
                                         [write |-> <<"num", 1>>, amount |-> <<"num", 7>>, risk |-> <<"text", "low">>]}}
  \cup {Ask(<<"code", "run">>, agent, "development", <<>>) : agent \in {"a1", "a2", "none"}}
  \cup {Ask(<<"code", "run">>, "none", "production", <<>>)}

P == INSTANCE PolicyEngine WITH
       Process <- Caller, Default <- MCDefault, Version <- MCVersion, Request <- MCRequest,
       Allowed <- [a1 |-> {}, a2 |-> {<<"integration", "*">>}], NoAgent <- "none", MaxCrashes <- 1,
       crashes <- stops

\* Two threads of one process and one of another; a connector by HTTP, one of
\* the database that only reads, and one whose declaration no file holds.
MCHome == [t1 |-> "p", t2 |-> "p", t3 |-> "q"]
Connection(kind) == [kind |-> kind, read_only |-> FALSE, allowed_methods |-> {}, allowed_hosts |-> {}, host |-> "in",
                     dsn |-> FALSE, driver |-> FALSE, external |-> TRUE, declared |-> TRUE]
Query(method, path, word, write) == [method |-> method, path |-> path, query |-> [word |-> word, changes |-> write]]
MCDeclaration ==
  [rest |-> [Connection("rest") EXCEPT !.allowed_methods = {"GET", "POST"}, !.allowed_hosts = {"in"}],
   sql |-> [Connection("sql") EXCEPT !.read_only = TRUE, !.host = "", !.dsn = TRUE, !.driver = TRUE],
   ql |-> [Connection("graphql") EXCEPT !.read_only = TRUE, !.allowed_methods = {"POST"},
                                        !.allowed_hosts = {"in"}, !.declared = FALSE]]
MCAsked == [rest |-> {Query("POST", "", "", FALSE), Query("GET", "out", "", FALSE)},
            ql |-> {Query("POST", "", "mutation", TRUE), Query("POST", "", "fragment", TRUE)},
            sql |-> {Query("GET", "", "WITH", TRUE), Query("GET", "", "INSERT", TRUE), Query("GET", "", "PRAGMA", TRUE)}]

\* Settings that leave everything open, one thing forbidden, some restricted, and much switched off.
Usual == [external_ai |-> "allowed", python_exec_enabled |-> TRUE, allow_network_tools |-> TRUE, git_enabled |-> TRUE,
          email |-> TRUE, browser |-> FALSE, integrations |-> TRUE, auto_approve_in_development |-> FALSE]
Plan(tool, environment) == [tool |-> tool, action |-> "", environment |-> environment, args |-> "fit", facts |-> <<>>]
MCPlanned ==
  {Plan(tool, e) : tool \in {"python.execute", "http.request", "git.commit", "email.send"}, e \in {"development", "production"}}
  \cup {Plan(tool, "staging") : tool \in {"http.request", "process.run", "browser.navigate", "database.query"}}
  \cup {[Plan(tool, "production") EXCEPT !.action = "memory.search"] : tool \in {"http.request", "process.run", "none.such"}}
  \cup {[Plan("python.execute", "development") EXCEPT !.facts = [python_exec_enabled |-> TRUE]],
        [Plan("http.request", "development") EXCEPT !.facts = [external_ai |-> "allowed"]],
        [Plan("http.request", "production") EXCEPT !.facts = [risk |-> "low"]],
        [Plan("integration.call", "development") EXCEPT !.facts = [write |-> TRUE]],
        [Plan("filesystem.write", "development") EXCEPT !.args = "unfit"],
        [Plan("task.delegate", "development") EXCEPT !.args = "missing"],
        Plan("mcp.tool", "development")}
MCSettings == {Usual, [Usual EXCEPT !.external_ai = "forbidden"],
               [Usual EXCEPT !.external_ai = "restricted", !.browser = TRUE, !.auto_approve_in_development = TRUE],
               [Usual EXCEPT !.python_exec_enabled = FALSE, !.git_enabled = FALSE, !.email = FALSE, !.allow_network_tools = FALSE]}

\* Two paths that end in one name.
MCNames == <<"x", "x">>
MCTaskOf == [c \in Caller |-> "t"]

\* One sender is an operator, an approver or an administrator, these of another
\* area than the agent may come to have; the other sender is an operator.
Open == [identity_required |-> FALSE, allow_decisions |-> TRUE, allow_attachments |-> TRUE]
Operator == [role |-> "operator", areas |-> {}, active |-> TRUE]
Approver == [role |-> "approver", areas |-> {"fin"}, active |-> TRUE]
MCFolk == [s1 |-> {Operator, Approver, [Approver EXCEPT !.role = "admin"]}, s2 |-> {Operator}]

-----------------------------------------------------------------------------
Callers == Permutations(Caller)

MCInit == /\ part \in {"secrets", "identity", "messaging", "attachments", "loop", "policies",
                    "connectors", "authorization", "scripts", "export", "commands"}
          /\ S!Init /\ I!Init /\ M!Init /\ A!Init /\ L!Init /\ P!Init
          /\ C!Init /\ T!Init /\ B!Init /\ X!Init /\ K!Init
          /\ part # "secrets" => env = 0
          /\ part # "identity" => groups = [p1 |-> {"viewer"}]
          /\ row \in IF part = "connectors" THEN {[rest |-> "on", sql |-> "on", ql |-> "none"], [rest |-> "off", sql |-> "on", ql |-> "on"]}
                    ELSE {[rest |-> "on", sql |-> "on", ql |-> "on"]}
          /\ part # "authorization" => config = Usual
          /\ part # "scripts" => mode = "auto"
          /\ channel \in {Open} \cup IF part # "commands" THEN {}
                                  ELSE {[Open EXCEPT ![setting] = ~@] : setting \in DOMAIN Open}
          /\ people["s1"] # Operator /\ (part # "commands" => people["s1"] = Approver)

\* Where no backend may take the place of another, a run that writes once shows
\* it; so does one file of a container that went on.
Few == /\ mode = "container" => scripts <= 1 /\ clock <= 1
       /\ orphans # {} => clock <= 1

\* Where the channel takes no decision or has no buttons, none that is taken is overtaken.
FewShifts == ~channel.allow_decisions \/ ~channel.allow_attachments => shifts = 0

MCNext == \/ part = "secrets" /\ S!Next
             /\ UNCHANGED <<part, identity, messaging, attaching, polling, policing, connectors, authorizing, scripting, exporting, commanding>>
          \/ part = "identity" /\ I!Next
             /\ UNCHANGED <<part, secrecy, messaging, attaching, polling, policing, connectors, authorizing, scripting, exporting, commanding>>
          \/ part = "messaging" /\ M!Next
             /\ UNCHANGED <<part, secrecy, identity, attaching, polling, policing, connectors, authorizing, scripting, exporting, commanding>>
          \/ part = "attachments" /\ A!Next
             /\ UNCHANGED <<part, secrecy, identity, messaging, polling, policing, connectors, authorizing, scripting, exporting, commanding>>
          \/ part = "loop" /\ L!Next
             /\ UNCHANGED <<part, secrecy, identity, messaging, attaching, policing, connectors, authorizing, scripting, exporting, commanding>>
          \/ part = "policies" /\ P!Next
             /\ UNCHANGED <<part, secrecy, identity, messaging, attaching, polling, connectors, authorizing, scripting, exporting, commanding>>
          \/ part = "connectors" /\ C!Next
             /\ UNCHANGED <<part, secrecy, identity, messaging, attaching, polling, policing, authorizing, scripting, exporting, commanding>>
          \/ part = "authorization" /\ T!Next
             /\ UNCHANGED <<part, secrecy, identity, messaging, attaching, polling, policing, connectors, scripting, exporting, commanding>>
          \/ part = "scripts" /\ B!Next /\ Few'
             /\ UNCHANGED <<part, secrecy, identity, messaging, attaching, polling, policing, connectors, authorizing, exporting, commanding>>
          \/ part = "export" /\ X!Next
             /\ UNCHANGED <<part, secrecy, identity, messaging, attaching, polling, policing, connectors, authorizing, scripting, commanding>>
          \/ part = "commands" /\ K!Next /\ FewShifts'
             /\ UNCHANGED <<part, secrecy, identity, messaging, attaching, polling, policing, connectors, authorizing, scripting, exporting>>

MCSpec == MCInit /\ [][MCNext]_<<part, secrecy, identity, messaging, attaching, polling, policing, connectors, authorizing, scripting, exporting,
                                 commanding>>

-----------------------------------------------------------------------------
\* policies/engine.py and conditions.py: the first rule that speaks decides,
\* and what is not known does not make a condition hold.
PoliciesDecide == part = "policies" => P!TypeOK /\ P!FirstRuleDecides /\ P!UnknownFactsDoNotHold
=============================================================================
