------------------------------ MODULE Identity ------------------------------
(***************************************************************************)
(* Who may act (security/identity.py, security/rbac.py, security/sso.py):  *)
(* principals, their tokens, logins through the company's identity         *)
(* provider, and the authority to decide an approval                       *)
(* (EnterpriseRuntime._authorize_decision).  Every operation reads whole   *)
(* rows and writes whole rows back, an authentication too: it notes when   *)
(* the token and the principal were last seen.                             *)
(***************************************************************************)
EXTENDS Integers, FiniteSets

CONSTANTS
  Caller, Principal, Token,
  Holder,              \* [Token -> Principal]
  FromIdP,             \* the principals that come through SSO
  AllowAgents,         \* security.allow_agent_approval
  MaxCalls, MaxGroups  \* bounds: calls, changes of the groups in the IdP

VARIABLES
  principals,          \* table principals
  tokens,              \* table identity_tokens
  groups,              \* what the IdP says: the roles its groups map to
  caller,              \* each caller: where it is, and the rows it has read
  sealed,              \* ghost: tokens revoked while no authentication had read them
  barred,              \* ghost: principals disabled while nobody else had read them
  decided,             \* ghost: who decided an approval, and what was known of him then
  raised,              \* ghost: a login that raised anything but AuthenticationError
  calls, changes

vars == <<principals, tokens, groups, caller, sealed, barred, decided, raised, calls, changes>>

ROLES == {"viewer", "operator", "approver", "auditor", "security_admin", "admin"}
ROLE_INHERITS == [r \in ROLES |-> CASE r = "admin"          -> ROLES \ {"admin"}
                                    [] r = "security_admin" -> {"operator", "viewer"}
                                    [] r = "approver"       -> {"operator", "viewer"}
                                    [] r \in {"operator", "auditor"} -> {"viewer"}
                                    [] r = "viewer"         -> {}]
\* expand_roles: the inheritance is written out, one level closes it.
expand_roles(roles) == roles \cup UNION {ROLE_INHERITS[r] : r \in roles}
\* approval.decide is granted to approvers and administrators only.
MayDecide(roles) == expand_roles(roles) \cap {"approver", "admin"} # {}
role_satisfies(held, required) == required \in expand_roles(held)

RoleSets == {{"viewer"}, {"security_admin"}, {"approver"}, {"admin"}}
Person == [kind : {"human", "agent"}, roles : RoleSets, active : BOOLEAN]
NoPerson == [kind |-> "human", roles |-> {"viewer"}, active |-> FALSE]
Nobody == [there |-> FALSE, person |-> NoPerson]
Somebody(person) == [there |-> TRUE, person |-> person]
Entry == [there : BOOLEAN, person : Person]
TokenStatus == {"none", "active", "revoked", "expired"}

Idle == [at |-> "idle", p |-> CHOOSE p \in Principal : TRUE, t |-> CHOOSE t \in Token : TRUE,
         entry |-> Nobody, token |-> "none", roles |-> {"viewer"}]

TypeOK ==
  /\ principals \in [Principal -> Entry]
  /\ tokens \in [Token -> TokenStatus]
  /\ groups \in [FromIdP -> RoleSets]
  /\ caller \in [Caller -> [at : {"idle", "token", "principal", "seen", "noted", "revoke", "status", "roles", "create",
                                  "sync", "synced", "reread", "login"},
                            p : Principal, t : Token, entry : Entry, token : TokenStatus, roles : RoleSets]]
  /\ sealed \subseteq Token /\ barred \subseteq Principal
  /\ decided \subseteq [who : Principal, person : Person, required : ROLES]
  /\ raised \in BOOLEAN
  /\ calls \in 0..MaxCalls /\ changes \in 0..MaxGroups

ghosts == <<sealed, barred, decided, raised>>
bounds == <<calls, changes>>

-----------------------------------------------------------------------------
Enter(c) == /\ caller[c].at = "idle" /\ calls < MaxCalls
            /\ calls' = calls + 1 /\ UNCHANGED changes
Goto(c, at) == caller' = [caller EXCEPT ![c].at = at]
Return(c) == caller' = [caller EXCEPT ![c] = Idle]

\* Who holds a copy of a row that will be written back.
Reading(c, t) == \E d \in Caller \ {c} : caller[d].t = t /\ caller[d].at \in {"principal", "seen", "revoke"}
Holding(c, p) == \E d \in Caller \ {c} : caller[d].p = p /\ caller[d].at # "idle"

\* create_principal: the row is looked for, then written.
Create(c, p, person) ==
  /\ Enter(c) /\ ~principals[p].there
  /\ caller' = [caller EXCEPT ![c] = [Idle EXCEPT !.at = "create", !.p = p, !.entry = Somebody(person)]]
  /\ UNCHANGED <<principals, tokens, groups, ghosts>>

\* set_status and set_roles read the row, and write it back.
Change(c, p, at, entry) ==
  /\ Enter(c) /\ principals[p].there
  /\ caller' = [caller EXCEPT ![c] = [Idle EXCEPT !.at = at, !.p = p, !.entry = entry]]
  /\ barred' = IF at = "status" /\ entry.person.active THEN barred \ {p} ELSE barred
  /\ UNCHANGED <<principals, tokens, groups, sealed, decided, raised>>

SetStatus(c, p, active) == Change(c, p, "status", [principals[p] EXCEPT !.person.active = active])
SetRoles(c, p, roles) == Change(c, p, "roles", [principals[p] EXCEPT !.person.roles = roles])

SavePrincipal(c) ==
  /\ caller[c].at \in {"create", "status", "roles"}
  /\ LET p == caller[c].p
     IN  /\ principals' = [principals EXCEPT ![p] = caller[c].entry]
         /\ barred' = CASE caller[c].at = "status" /\ ~caller[c].entry.person.active /\ ~Holding(c, p) -> barred \cup {p}
                        [] OTHER -> barred
  /\ Return(c)
  /\ UNCHANGED <<tokens, groups, sealed, decided, raised, bounds>>

\* delete_principal takes the tokens along.
Remove(c, p) ==
  /\ Enter(c) /\ principals[p].there
  /\ principals' = [principals EXCEPT ![p] = Nobody]
  /\ tokens' = [t \in Token |-> IF Holder[t] = p THEN "none" ELSE tokens[t]]
  /\ barred' = barred \ {p}
  /\ UNCHANGED <<groups, caller, sealed, decided, raised>>

\* A token's id is never used twice.
Issue(c, t) ==
  /\ Enter(c) /\ tokens[t] = "none" /\ principals[Holder[t]].there /\ t \notin sealed
  /\ tokens' = [tokens EXCEPT ![t] = "active"]
  /\ UNCHANGED <<principals, groups, caller, ghosts>>

Revoke(c, t) ==
  /\ Enter(c) /\ tokens[t] # "none"
  /\ caller' = [caller EXCEPT ![c] = [Idle EXCEPT !.at = "revoke", !.t = t]]
  /\ UNCHANGED <<principals, tokens, groups, ghosts>>

SaveRevoked(c) ==
  /\ caller[c].at = "revoke"
  /\ tokens' = [tokens EXCEPT ![caller[c].t] = "revoked"]
  /\ sealed' = IF Reading(c, caller[c].t) THEN sealed ELSE sealed \cup {caller[c].t}
  /\ Return(c)
  /\ UNCHANGED <<principals, groups, barred, decided, raised, bounds>>

Expire == /\ \E t \in Token : tokens[t] = "active" /\ tokens' = [tokens EXCEPT ![t] = "expired"]
          /\ UNCHANGED <<principals, groups, caller, ghosts, bounds>>

-----------------------------------------------------------------------------
\* authenticate: the token, its principal, and both written back.
Usable_Unexpired(token) == token \in {"active", "revoked"}    \* mutant: only the expiry is looked at
Usable(token) == token = "active"

Authenticate(c, t) ==
  /\ Enter(c) /\ Usable(tokens[t])
  /\ caller' = [caller EXCEPT ![c] = [Idle EXCEPT !.at = "principal", !.p = Holder[t], !.t = t, !.token = "active"]]
  /\ UNCHANGED <<principals, tokens, groups, ghosts>>

ReadPrincipal(c) ==
  /\ caller[c].at = "principal"
  /\ LET entry == principals[caller[c].p]
     IN  IF entry.there /\ entry.person.active
         THEN caller' = [caller EXCEPT ![c].at = "seen", ![c].entry = entry]
         ELSE Return(c)
  /\ UNCHANGED <<principals, tokens, groups, ghosts, bounds>>

SaveToken(c) ==
  /\ caller[c].at = "seen"
  /\ tokens' = [tokens EXCEPT ![caller[c].t] = caller[c].token]
  /\ Goto(c, "noted")
  /\ UNCHANGED <<principals, groups, ghosts, bounds>>

\* _authorize_decision: the principal is authenticated, and must be allowed to.
Authorized_AnyRole(person, required) == AllowAgents \/ person.kind # "agent"      \* mutant: the role is not asked for
Authorized(person, required) == /\ MayDecide(person.roles)
                                /\ AllowAgents \/ person.kind # "agent"
                                /\ role_satisfies(person.roles, required)

SaveSeen(c) ==
  /\ caller[c].at = "noted"
  /\ LET me == caller[c]
     IN  /\ principals' = [principals EXCEPT ![me.p] = me.entry]
         /\ \E required \in {"approver", "security_admin"} :
              decided' = IF Authorized(me.entry.person, required)
                         THEN decided \cup {[who |-> me.p, person |-> me.entry.person, required |-> required]}
                         ELSE decided
  /\ Return(c)
  /\ UNCHANGED <<tokens, groups, sealed, barred, raised, bounds>>

-----------------------------------------------------------------------------
\* authenticate_sso: the claims are verified, the principal read.
Login(c, p) ==
  /\ Enter(c) /\ p \in FromIdP
  /\ LET entry == principals[p]
     IN  caller' = [caller EXCEPT ![c] = [Idle EXCEPT !.at = CASE ~entry.there -> "sync"
                                                               [] entry.there /\ ~entry.person.active -> "idle"
                                                               [] entry.there /\ entry.person.active /\ entry.person.roles # groups[p] -> "reread"
                                                               [] OTHER -> "login",
                                                    !.p = p, !.entry = entry, !.roles = groups[p]]]
  /\ UNCHANGED <<principals, tokens, groups, ghosts>>

\* _provision_sso, through create_principal: who came first is not waited for.
Provision(c) ==
  /\ caller[c].at = "sync"
  /\ LET p == caller[c].p
         person == [kind |-> "human", roles |-> caller[c].roles, active |-> TRUE]
     IN  IF principals[p].there
         THEN raised' = TRUE /\ Return(c) /\ UNCHANGED principals
         ELSE /\ principals' = [principals EXCEPT ![p] = Somebody(person)]
              /\ caller' = [caller EXCEPT ![c].at = "login", ![c].entry = Somebody(person)]
              /\ UNCHANGED raised
  /\ UNCHANGED <<tokens, groups, sealed, barred, decided, bounds>>

\* set_roles reads the row again; a principal removed meanwhile is an AuthenticationError.
ReadAgain(c) ==
  /\ caller[c].at = "reread"
  /\ LET entry == principals[caller[c].p]
     IN  IF entry.there
         THEN caller' = [caller EXCEPT ![c].at = "synced", ![c].entry = [entry EXCEPT !.person.roles = caller[c].roles]]
         ELSE Return(c)
  /\ UNCHANGED <<principals, tokens, groups, ghosts, bounds>>

SaveRoles(c) ==
  /\ caller[c].at = "synced"
  /\ principals' = [principals EXCEPT ![caller[c].p] = caller[c].entry]
  /\ Goto(c, "login")
  /\ UNCHANGED <<tokens, groups, ghosts, bounds>>

SaveLogin(c) ==
  /\ caller[c].at = "login"
  /\ principals' = [principals EXCEPT ![caller[c].p] = caller[c].entry]
  /\ Return(c)
  /\ UNCHANGED <<tokens, groups, ghosts, bounds>>

ChangeGroups == /\ changes < MaxGroups /\ changes' = changes + 1
                /\ \E p \in FromIdP, roles \in {{"viewer"}, {"approver"}} :
                     roles # groups[p] /\ groups' = [groups EXCEPT ![p] = roles]
                /\ UNCHANGED <<principals, tokens, caller, ghosts, calls>>

Init == /\ principals = [p \in Principal |-> Nobody] /\ tokens = [t \in Token |-> "none"]
        /\ groups \in [FromIdP -> {{"viewer"}, {"approver"}}]
        /\ caller = [c \in Caller |-> Idle]
        /\ sealed = {} /\ barred = {} /\ decided = {} /\ raised = FALSE
        /\ calls = 0 /\ changes = 0

People == {[kind |-> "human", roles |-> {"approver"}, active |-> TRUE],
           [kind |-> "human", roles |-> {"security_admin"}, active |-> TRUE],
           [kind |-> "agent", roles |-> {"admin"}, active |-> TRUE]}

Next == \/ \E c \in Caller :
             \/ \E p \in Principal : \/ \E person \in People : Create(c, p, person)
                                     \/ \E active \in BOOLEAN : SetStatus(c, p, active)
                                     \/ SetRoles(c, p, {"viewer"})
                                     \/ Remove(c, p) \/ Login(c, p)
             \/ \E t \in Token : Issue(c, t) \/ Revoke(c, t) \/ Authenticate(c, t)
             \/ SavePrincipal(c) \/ SaveRevoked(c)
             \/ ReadPrincipal(c) \/ SaveToken(c) \/ SaveSeen(c)
             \/ Provision(c) \/ ReadAgain(c) \/ SaveRoles(c) \/ SaveLogin(c)
        \/ Expire
        \/ ChangeGroups

Spec == Init /\ [][Next]_vars

-----------------------------------------------------------------------------
\* What was withdrawn while nobody held a copy of it stays withdrawn, through
\* logins, synchronised roles and removals: a revoked token is never active
\* again, a disabled principal not before somebody enables him (identity.py).
AccessIsWithdrawn == /\ \A t \in sealed : tokens[t] # "active"
                     /\ \A p \in barred : ~principals[p].there \/ ~principals[p].person.active

\* An approval is decided by a human, and one who held the role that was
\* required or one that inherits it when he was authenticated; an agent, even
\* an administrator, never decides unless that is configured (rbac.py).
DecidedByTheRightOnes ==
  \A d \in decided : /\ d.person.active /\ (AllowAgents \/ d.person.kind = "human")
                     /\ d.required = "approver" => d.person.roles \cap {"approver", "admin"} # {}
                     /\ d.required = "security_admin" => d.person.roles \cap {"admin"} # {}

\* "Nunca levanta" (identity.py, resolve): whatever overlaps, a login either
\* finds its principal or finds nobody.
ResolveNeverRaises == ~raised
=============================================================================
