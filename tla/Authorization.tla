--------------------------- MODULE Authorization ---------------------------
(***************************************************************************)
(* What the policies the program brings (policies/defaults.py) make of the *)
(* tools it brings (tools/builtins): a step is authorized, waits for a     *)
(* human where a rule says so, is authorized again by the process that     *)
(* resumes it, and is executed, where each tool has guards of its own.     *)
(* The settings are those a process read when it started; the file they    *)
(* come from changes meanwhile.  How rules are ordered, merged and         *)
(* evaluated in general is in PolicyEngine.                                *)
(***************************************************************************)
EXTENDS Integers, Sequences, FiniteSetsExt

CONSTANTS
  Process,
  Settings,            \* what the file may say
  Step,                \* what a plan may hold
  MaxSteps, MaxEdits

VARIABLES
  config,              \* the file
  settings,            \* what each process read of it
  pending,             \* the step that waits for a human, with the role asked for; or NoStep
  last,                \* ghost: what was just executed, and under which settings; or NoStep
  steps, edits

vars == <<config, settings, pending, last, steps, edits>>

-----------------------------------------------------------------------------
(* The default policies.  A rule speaks of an action under a condition,    *)
(* here the values it wants of some facts.                                 *)

Rule(action, when, decision, role) == [action |-> action, when |-> when, decision |-> decision, role |-> role]
NoRole == ""
Allow(action, when) == Rule(action, when, "allow", NoRole)
Ask(action, when, role) == Rule(action, when, "ask", role)
Forbid(action, when) == Rule(action, when, "deny", NoRole)
Always == <<>>
In(environment) == [environment |-> {environment}]

HttpRules_Late ==                         \* mutant: what is allowed outside production comes first
  <<Ask("http.request", In("production"), "operator"),
    Allow("http.request", [environment |-> {"development", "staging"}]),
    Forbid("http.request", [external_ai |-> {"forbidden"}])>>
HttpRules == <<Forbid("http.request", [external_ai |-> {"forbidden"}]),
               Ask("http.request", [external_ai |-> {"restricted"}], "security_officer"),
               Ask("http.request", In("production"), "operator"),
               Allow("http.request", Always)>>

CodeRules == <<Forbid("python.execute", [python_exec_enabled |-> {FALSE}]),
               Ask("python.execute", In("production"), "operator"),
               Ask("python.execute", In("staging"), "operator"),
               Allow("python.execute", In("development")),
               Ask("process.run", Always, "operator")>>

FileRules == <<Ask("filesystem.write", In("production"), "operator"),
               Allow("filesystem.write", Always),
               Allow("filesystem.read", Always),
               Allow("filesystem.list", Always)>>

DataRules == <<Ask("database.query", In("production"), "data_steward"),
               Allow("database.query", Always)>>

IntegrationRules == <<Ask("integration.call", [write |-> {TRUE}, environment |-> {"production"}], "operator"),
                      Ask("integration.call", [write |-> {TRUE}], "operator"),
                      Allow("integration.call", Always),
                      Allow("integration.receive", Always)>>

GitRules == <<Allow("git.status", Always), Allow("git.diff", Always), Allow("git.log", Always),
              Ask("git.commit", Always, "operator")>>

EmailRules == <<Forbid("email.send", [external_ai |-> {"forbidden"}]),
                Ask("email.send", Always, "operator"),
                Ask("email.read", In("production"), "operator"),
                Allow("email.read", Always)>>

\* What development does freely, and the rest asks for.
Guarded(action) == <<Allow(action, In("development")), Ask(action, Always, "operator")>>

BrowserRules == Guarded("browser.navigate") \o Guarded("browser.extract")
DevRules == Guarded("dev.propose") \o <<Allow("dev.proposals", Always)>> \o Guarded("dev.trial")
DelegateRules == Guarded("task.delegate")
MemoryRules == <<Allow("memory.write", Always), Allow("memory.search", Always)>>

baseline_policy == HttpRules \o CodeRules \o FileRules \o DataRules \o IntegrationRules \o GitRules
                   \o EmailRules \o BrowserRules \o DevRules \o DelegateRules \o MemoryRules

production_guard_policy_Critical ==       \* mutant: high risk is left out
  <<Ask("*", [environment |-> {"production"}, risk |-> {"critical"}], "operator")>>
production_guard_policy ==
  <<Ask("*", [environment |-> {"production"}, risk |-> {"high", "critical"}], "operator")>>

\* The guard has the higher priority.
default_policies == production_guard_policy \o baseline_policy

-----------------------------------------------------------------------------
(* The tools: a risk for each, and what calling it may do.                 *)

LowRisk == {"filesystem.list", "filesystem.read", "integration.list", "dev.proposals", "git.status", "git.diff", "git.log"}
MediumRisk == {"filesystem.write", "integration.call", "database.query", "task.delegate", "dev.propose", "email.read", "mcp.tool"}
HighRisk == {"python.execute", "http.request", "dev.trial", "git.commit", "email.send", "browser.navigate", "browser.extract"}
CriticalRisk == {"process.run"}
Risk == [t \in LowRisk \cup MediumRisk \cup HighRisk \cup CriticalRisk |->
           CASE t \in LowRisk -> "low" [] t \in MediumRisk -> "medium" [] t \in HighRisk -> "high" [] OTHER -> "critical"]

Outcome(ok, did) == [ok |-> ok, did |-> did]
Refusal == Outcome(FALSE, {})
Done(did) == Outcome(TRUE, did)
Broken(did) == Outcome(FALSE, did)        \* it failed after it had begun

\* Reading stays inside the workspace, or in a database opened to be read.
Reads(fits) == IF fits THEN {Done({}), Refusal} ELSE {Refusal}

\* Inside the roots files may be written to.
FilesystemWrite(fits) == IF fits THEN {Done({"file"}), Refusal} ELSE {Refusal}

PythonExecute_Unguarded(enabled) == {Done({"process"}), Broken({"process"}), Refusal}   \* mutant: the policy will have looked
PythonExecute(enabled) == IF enabled THEN {Done({"process"}), Broken({"process"}), Refusal} ELSE {Refusal}

\* No shell, a directory inside the workspace, an argument at least.
ProcessRun(fits) == IF fits THEN {Done({"process"}), Broken({"process"}), Refusal} ELSE {Refusal}

HttpRequest(enabled) == IF enabled THEN {Done({"out"}), Broken({"out"})} ELSE {Refusal}

\* git add, then git commit: the second may fail after the first.
GitCommit(enabled, fits) == IF enabled /\ fits THEN {Done({"commit"}), Broken({"staged"}), Refusal} ELSE {Refusal}
GitRead(enabled, fits) == IF enabled THEN Reads(fits) ELSE {Refusal}

\* Enabled, and with a host; the server may take the message and then fail.
EmailSend(enabled) == IF enabled THEN {Done({"out"}), Broken({"out"}), Refusal} ELSE {Refusal}
EmailRead(enabled) == IF enabled THEN {Done({"in"}), Broken({"in"}), Refusal} ELSE {Refusal}

\* Enabled, and a domain that is on the list where there is one.
Browse(enabled, fits) == IF enabled /\ fits THEN {Done({"out"}), Broken({"out"}), Refusal} ELSE {Refusal}

\* The connector has guards of its own (Connectors).
IntegrationCall(enabled, fits) == IF enabled /\ fits THEN {Done({"out"}), Broken({"out"})} ELSE {Refusal}

\* A proposal is a row and nothing else; its trial runs in the sandbox.
DevPropose(fits) == IF fits THEN {Done({"proposal"})} ELSE {Refusal}
DevTrial(fits) == IF fits THEN {Done({"process"})} ELSE {Refusal}

Delegate(fits) == IF fits THEN {Done({"task"}), Broken({"task"})} ELSE {Refusal}
McpTool == {Done({"out"}), Broken({"out"})}

Called(tool, fits, s) ==
  CASE tool \in {"filesystem.list", "filesystem.read", "database.query", "dev.proposals", "integration.list"} -> Reads(fits)
    [] tool = "filesystem.write" -> FilesystemWrite(fits)
    [] tool = "python.execute" -> PythonExecute(s.python_exec_enabled)
    [] tool = "process.run" -> ProcessRun(fits)
    [] tool = "http.request" -> HttpRequest(s.allow_network_tools)
    [] tool = "git.commit" -> GitCommit(s.git_enabled, fits)
    [] tool \in {"git.status", "git.diff", "git.log"} -> GitRead(s.git_enabled, fits)
    [] tool = "email.send" -> EmailSend(s.email)
    [] tool = "email.read" -> EmailRead(s.email)
    [] tool \in {"browser.navigate", "browser.extract"} -> Browse(s.browser, fits)
    [] tool = "integration.call" -> IntegrationCall(s.integrations, fits)
    [] tool = "dev.propose" -> DevPropose(fits)
    [] tool = "dev.trial" -> DevTrial(fits)
    [] tool = "task.delegate" -> Delegate(fits)
    [] tool = "mcp.tool" -> McpTool

\* ToolRegistry.execute: a tool that is not there and arguments that are
\* missing are failures like any other.
execute(q, s) == IF q.tool \in DOMAIN Risk /\ q.args # "missing" THEN Called(q.tool, q.args = "fit", s) ELSE {Refusal}

-----------------------------------------------------------------------------
(* Runtime.authorize.  A plan may give its step an action of another name  *)
(* than the tool's.  Arguments are facts and take the place of others, but  *)
(* not of the environment nor of the risk, which is the tool's.            *)

NoAction == ""
policy_action(q) == IF q.action = NoAction THEN q.tool ELSE q.action

Reserved == {"environment", "risk"}
Known(q, s) == [environment |-> q.environment, risk |-> IF q.tool \in DOMAIN Risk THEN Risk[q.tool] ELSE "low",
                external_ai |-> s.external_ai, python_exec_enabled |-> s.python_exec_enabled]
Facts(q, s) == LET known == Known(q, s)
               IN  [n \in DOMAIN known \cup DOMAIN q.facts |->
                      IF n \in DOMAIN q.facts \ Reserved THEN q.facts[n] ELSE known[n]]

Speaks(rule, q, facts) == /\ rule.action \in {"*", policy_action(q)}
                          /\ \A n \in DOMAIN rule.when : n \in DOMAIN facts /\ facts[n] \in rule.when[n]

Speaking(rules, q, s) == LET facts == Facts(q, s) IN {i \in DOMAIN rules : Speaks(rules[i], q, facts)}
authorize(q, s) == LET rules == default_policies
                       speaking == Speaking(rules, q, s)
                   IN  IF speaking = {} THEN Forbid(q.tool, Always) ELSE rules[Min(speaking)]

NoStep == <<>>

\* What is seen of an execution.
Ran(q, s, outcome, approved) == [step |-> q, settings |-> s, did |-> outcome.did, approved |-> approved]

auto_approve(q, s) == s.auto_approve_in_development /\ q.environment = "development"

\* AgentEngine.run: one step of a plan.
Propose(p) ==
  /\ pending = NoStep /\ steps < MaxSteps /\ steps' = steps + 1
  /\ \E q \in Step :
       LET s == settings[p]
           rule == authorize(q, s)
       IN  \/ /\ rule.decision = "ask" /\ ~auto_approve(q, s)
              /\ pending' = [step |-> q, role |-> rule.role]
              /\ last' = NoStep
           \/ rule.decision = "deny" /\ last' = NoStep /\ UNCHANGED pending
           \/ /\ rule.decision = "allow" \/ (rule.decision = "ask" /\ auto_approve(q, s))
              /\ \E outcome \in execute(q, s) : last' = Ran(q, s, outcome, FALSE)
              /\ UNCHANGED pending
  /\ UNCHANGED <<config, settings, edits>>

\* `egr tool test --execute`: the approval it asks for belongs to no task, and
\* deciding it executes nothing.
ByHand(p) ==
  /\ steps < MaxSteps /\ steps' = steps + 1
  /\ \E q \in Step : /\ q.action = NoAction /\ authorize(q, settings[p]).decision = "allow"
                     /\ \E outcome \in execute(q, settings[p]) : last' = Ran(q, settings[p], outcome, FALSE)
  /\ UNCHANGED <<config, settings, pending, edits>>

\* Runtime.approve and resume_after_approval: authorized once more, by the
\* process that decides; what would be asked has been.
Stands_Approved(q, s) == TRUE             \* mutant: the human has spoken
Stands(q, s) == authorize(q, s).decision # "deny"
Approve(p) ==
  /\ pending # NoStep
  /\ LET q == pending.step
         s == settings[p]
     IN  IF Stands(q, s) THEN \E outcome \in execute(q, s) : last' = Ran(q, s, outcome, TRUE)
         ELSE last' = NoStep
  /\ pending' = NoStep
  /\ UNCHANGED <<config, settings, steps, edits>>

Deny == /\ pending # NoStep /\ pending' = NoStep /\ last' = NoStep
        /\ UNCHANGED <<config, settings, steps, edits>>

\* Somebody edits egr.yaml; a process reads it when it starts.
Edit == /\ edits < MaxEdits /\ edits' = edits + 1
        /\ config' \in Settings \ {config} /\ last' = NoStep
        /\ UNCHANGED <<settings, pending, steps>>

Restart(p) == /\ settings[p] # config
              /\ settings' = [settings EXCEPT ![p] = config] /\ last' = NoStep
              /\ UNCHANGED <<config, pending, steps, edits>>

Init == /\ config \in Settings
        /\ settings = [p \in Process |-> config]
        /\ pending = NoStep /\ last = NoStep
        /\ steps = 0 /\ edits = 0

Next == \/ \E p \in Process : Propose(p) \/ ByHand(p) \/ Approve(p) \/ Restart(p)
        \/ Deny \/ Edit

Spec == Init /\ [][Next]_vars

-----------------------------------------------------------------------------
TypeOK == /\ config \in Settings /\ settings \in [Process -> Settings]
          /\ pending # NoStep => pending.step \in Step /\ pending.role \in {"operator", "security_officer", "data_steward"}
          /\ last # NoStep => last.step \in Step /\ last.settings \in Settings
          /\ steps \in 0..MaxSteps /\ edits \in 0..MaxEdits

Acted == last # NoStep /\ last.did # {}

\* "High/critical risk actions in production always need a human"
\* (policies/defaults.py, production_guard_policy): under whatever name a plan
\* asks for them, and whatever its arguments claim.
HighRiskIsDecided ==
  Acted /\ last.step.environment = "production" /\ Risk[last.step.tool] \in {"high", "critical"} => last.approved

\* The plan gives the action its own name and its arguments decide nothing.
Plain(q) == q.action = NoAction /\ DOMAIN q.facts \cap {"external_ai", "python_exec_enabled"} = {}

\* A company that forbids sending data out (external_ai) sends nothing by
\* http.request or email.send: not even what a human approved before the
\* process that resumes it was told so.  In production the guard, which has the
\* higher priority, speaks first, and asks.
ForbiddenStaysInside ==
  Acted /\ last.settings.external_ai = "forbidden" /\ Plain(last.step) /\ last.step.environment # "production"
    => last.step.tool \notin {"http.request", "email.send"}

\* A tool that is switched off in the settings does nothing, whatever was
\* decided, approved or claimed.
SwitchedOffIsIdle ==
  Acted => /\ last.step.tool = "python.execute" => last.settings.python_exec_enabled
           /\ last.step.tool = "http.request" => last.settings.allow_network_tools
           /\ last.step.tool = "git.commit" => last.settings.git_enabled
           /\ last.step.tool = "email.send" => last.settings.email

\* Processes, commits and mail wait for a human in every environment
\* (process_run.py: "always requires approval"), unless development approves
\* by itself.
AlwaysAsked ==
  Acted /\ Plain(last.step) /\ last.step.tool \in {"process.run", "git.commit", "email.send"}
    => last.approved \/ auto_approve(last.step, last.settings)
=============================================================================
