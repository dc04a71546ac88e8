----------------------------- MODULE EdgeProofs -----------------------------
(***************************************************************************)
(* Proofs about the components of Edge, one after the other: for each the  *)
(* inductive invariant, what it says of a step, one lemma per action, and  *)
(* the theorem.                                                            *)
(***************************************************************************)
EXTENDS Edge, FiniteSetTheorems, WellFoundedInduction, TLAPS

-----------------------------------------------------------------------------
(* Identity: the inductive invariant *)

Login == [at : {"idle", "token", "principal", "seen", "noted", "revoke", "status", "roles", "create",
                "sync", "synced", "reread", "login"},
          p : Principal, t : Token, entry : I!Entry, token : I!TokenStatus, roles : I!RoleSets]

\* A sealed token is not active, and nobody is about to write that it is.
SealedInv ==
  \A t \in sealed : /\ tokens[t] # "active"
                    /\ \A c \in Caller : login[c].t = t => login[c].at \notin {"principal", "seen"}

Disabled(entry) == entry.there /\ ~entry.person.active

\* A barred principal is disabled, and who will write his row writes that he is.
BarredInv ==
  \A p \in barred : /\ Disabled(principals[p])
                    /\ \A c \in Caller : login[c].p = p =>
                         \/ login[c].at \in {"idle", "principal", "revoke"}
                         \/ login[c].at \in {"status", "roles"} /\ Disabled(login[c].entry)

\* Whoever decides was active when he was authenticated.
SeenInv == \A c \in Caller : login[c].at \in {"seen", "noted"} => login[c].entry.person.active

\* Whoever changes a status or roles had a principal before him.
EntryInv == \A c \in Caller : login[c].at \in {"status", "roles"} => login[c].entry.there

IdentityInv == I!TypeOK /\ SealedInv /\ BarredInv /\ SeenInv /\ EntryInv /\ I!DecidedByTheRightOnes

LEMMA IdentityValues ==
  ASSUME IdentityAssumption
  PROVE  /\ I!Idle \in Login /\ I!Idle.at = "idle"
         /\ I!NoPerson \in I!Person /\ I!Nobody \in I!Entry
<1>1. (CHOOSE p \in Principal : TRUE) \in Principal /\ (CHOOSE t \in Token : TRUE) \in Token
  BY IdentityAssumption
<1>2. {"viewer"} \in I!RoleSets
  BY DEF I!RoleSets
<1>3. I!NoPerson \in I!Person /\ I!Nobody \in I!Entry
  BY <1>2 DEF I!NoPerson, I!Person, I!Nobody, I!Entry
<1> QED
  BY <1>1, <1>2, <1>3 DEF I!Idle, Login, I!TokenStatus

\* Who may decide for the role that is required.
LEMMA RolesThatDecide ==
  ASSUME NEW roles \in I!RoleSets, NEW required \in {"approver", "security_admin"},
         I!MayDecide(roles), I!role_satisfies(roles, required)
  PROVE  /\ required = "approver" => roles \cap {"approver", "admin"} # {}
         /\ required = "security_admin" => roles \cap {"admin"} # {}
<1>1. PICK r \in {"viewer", "security_admin", "approver", "admin"} : roles = {r}
  BY DEF I!RoleSets
<1>2. I!expand_roles(roles) = {r} \cup I!ROLE_INHERITS[r]
  BY <1>1 DEF I!expand_roles
<1>3. /\ I!ROLE_INHERITS["viewer"] = {}
      /\ I!ROLE_INHERITS["security_admin"] = {"operator", "viewer"}
      /\ I!ROLE_INHERITS["approver"] = {"operator", "viewer"}
  BY DEF I!ROLE_INHERITS, I!ROLES
<1> QED
  BY <1>1, <1>2, <1>3 DEF I!MayDecide, I!role_satisfies

\* A caller reads, and is about to write nothing that was withdrawn.
LEMMA IdentityReads ==
  ASSUME IdentityAssumption, IdentityInv, NEW c \in Caller, NEW r \in Login,
         login' = [login EXCEPT ![c] = r],
         UNCHANGED <<principals, tokens, groups, sealed, decided, raised, changes>>,
         barred' \subseteq barred, logins' \in 0..MaxCalls,
         r.at \in {"principal", "seen"} => tokens[r.t] = "active" \/ (r.t = login[c].t /\ login[c].at = "principal"),
         r.at \in {"seen", "noted"} => r.entry.person.active,
         r.at \in {"status", "roles"} => r.entry.there,
         r.p \in barred' => \/ r.at \in {"idle", "principal", "revoke"}
                            \/ r.at \in {"status", "roles"} /\ Disabled(r.entry)
  PROVE  IdentityInv'
<1>1. login \in [Caller -> Login] /\ login' \in [Caller -> Login] /\ login'[c] = r
      /\ \A d \in Caller \ {c} : login'[d] = login[d]
  BY DEF IdentityInv, I!TypeOK, Login
<1>2. I!TypeOK'
  BY <1>1 DEF IdentityInv, I!TypeOK, Login
<1>3. SealedInv'
  BY <1>1 DEF IdentityInv, SealedInv
<1>4. BarredInv'
  BY <1>1 DEF IdentityInv, BarredInv
<1>5. SeenInv'
  BY <1>1 DEF IdentityInv, SeenInv
<1>7. EntryInv'
  BY <1>1 DEF IdentityInv, EntryInv
<1>6. I!DecidedByTheRightOnes'
  BY DEF IdentityInv, I!DecidedByTheRightOnes
<1> QED
  BY <1>2, <1>3, <1>4, <1>5, <1>6, <1>7 DEF IdentityInv

\* The roles of a record of a principal are replaced.
LEMMA RolesSet ==
  ASSUME NEW e \in I!Entry, NEW roles \in I!RoleSets
  PROVE  [e EXCEPT !.person.roles = roles] \in I!Entry
<1>1. e.person \in I!Person /\ e \in [there : BOOLEAN, person : I!Person]
  BY DEF I!Entry
<1> DEFINE q == [e.person EXCEPT !.roles = roles]
<1>2. q \in I!Person
  BY <1>1 DEF I!Person
<1>3. [e EXCEPT !.person.roles = roles] = [e EXCEPT !.person = q]
  BY <1>1
<1> HIDE DEF q
<1>4. [e EXCEPT !.person = q] \in [there : BOOLEAN, person : I!Person]
  BY <1>1, <1>2
<1> QED
  BY <1>3, <1>4 DEF I!Entry

LEMMA IdentityReadSteps ==
  ASSUME IdentityAssumption, IdentityInv, NEW c \in Caller, NEW p \in Principal, NEW t \in Token,
         NEW person \in I!People, NEW active \in BOOLEAN,
         \/ I!Create(c, p, person) \/ I!SetStatus(c, p, active) \/ I!SetRoles(c, p, {"viewer"})
         \/ I!Login(c, p) \/ I!Revoke(c, t) \/ I!Authenticate(c, t) \/ I!ReadPrincipal(c) \/ I!ReadAgain(c)
  PROVE  IdentityInv'
<1>1. /\ login \in [Caller -> Login] /\ principals \in [Principal -> I!Entry] /\ groups \in [FromIdP -> I!RoleSets]
      /\ logins \in 0..MaxCalls /\ barred \subseteq Principal
      /\ I!Enter(c) => logins' \in 0..MaxCalls /\ UNCHANGED changes
  <2>1. I!Enter(c) => logins < MaxCalls /\ logins' = logins + 1 /\ UNCHANGED changes
    BY DEF I!Enter
  <2>2. logins \in 0..MaxCalls /\ MaxCalls \in Nat
    BY IdentityAssumption DEF IdentityInv, I!TypeOK
  <2>3. I!Enter(c) => logins' \in 0..MaxCalls
    BY <2>1, <2>2
  <2>4. /\ login \in [Caller -> Login] /\ principals \in [Principal -> I!Entry] /\ groups \in [FromIdP -> I!RoleSets]
        /\ barred \subseteq Principal
    BY DEF IdentityInv, I!TypeOK, Login
  <2> QED
    BY <2>1, <2>2, <2>3, <2>4
<1>2. /\ login[c] \in Login /\ principals[p] \in I!Entry /\ I!Idle \in Login
      /\ principals[p].person \in I!Person /\ principals[p].there \in BOOLEAN
      /\ person \in I!Person /\ {"viewer"} \in I!RoleSets
  <2>1. person \in I!Person /\ {"viewer"} \in I!RoleSets
    <3>1. {{"approver"}, {"security_admin"}, {"admin"}, {"viewer"}} \subseteq I!RoleSets
      BY DEF I!RoleSets
    <3>2. \A kind \in {"human", "agent"}, roles \in I!RoleSets :
            [kind |-> kind, roles |-> roles, active |-> TRUE] \in I!Person
      BY DEF I!Person
    <3> QED
      BY <3>1, <3>2 DEF I!People
  <2>2. login[c] \in Login /\ principals[p] \in I!Entry /\ I!Idle \in Login
    BY <1>1, IdentityValues
  <2>3. \A e \in I!Entry : e.person \in I!Person /\ e.there \in BOOLEAN
    BY DEF I!Entry
  <2> QED
    BY <2>1, <2>2, <2>3
<1>3. CASE I!Create(c, p, person)
  <2> DEFINE r == [I!Idle EXCEPT !.at = "create", !.p = p, !.entry = I!Somebody(person)]
  <2>1. I!Somebody(person) \in I!Entry
    BY <1>2 DEF I!Somebody, I!Entry
  <2>2. r \in Login /\ r.at = "create" /\ r.p = p
    BY <1>2, <2>1 DEF Login
  <2>3. p \notin barred
    BY <1>3 DEF I!Create, IdentityInv, BarredInv, Disabled
  <2>4. /\ login' = [login EXCEPT ![c] = r] /\ logins' \in 0..MaxCalls
        /\ UNCHANGED <<principals, tokens, groups, sealed, barred, decided, raised, changes>>
    BY <1>1, <1>3 DEF I!Create, I!ghosts
  <2> HIDE DEF r
  <2> QED
    BY <2>2, <2>3, <2>4, IdentityReads
<1>4. ASSUME NEW stage \in {"status", "roles"}, NEW entry \in I!Entry, I!Change(c, p, stage, entry),
             entry.there, stage = "roles" => entry.person.active = principals[p].person.active
      PROVE  IdentityInv'
  <2> DEFINE r == [I!Idle EXCEPT !.at = stage, !.p = p, !.entry = entry]
  <2>1. r \in Login /\ r.at = stage /\ r.p = p /\ r.entry = entry
    BY <1>2, <1>4 DEF Login
  <2>2. /\ login' = [login EXCEPT ![c] = r] /\ logins' \in 0..MaxCalls
        /\ UNCHANGED <<principals, tokens, groups, sealed, decided, raised, changes>>
        /\ barred' = IF stage = "status" /\ entry.person.active THEN barred \ {p} ELSE barred
    BY <1>1, <1>4 DEF I!Change
  <2>3. r.p \in barred' => Disabled(r.entry)
    BY <1>4, <2>1, <2>2 DEF IdentityInv, BarredInv, Disabled
  <2> HIDE DEF r
  <2> QED
    BY <1>4, <2>1, <2>2, <2>3, IdentityReads
<1>5. CASE I!SetStatus(c, p, active)
  <2> DEFINE e == [principals[p] EXCEPT !.person.active = active]
  <2>1. I!Change(c, p, "status", e)
    BY <1>5 DEF I!SetStatus
  <2>2. e \in I!Entry /\ e.there
    BY <1>2, <2>1 DEF I!Entry, I!Person, I!Change
  <2> HIDE DEF e
  <2> QED
    BY <1>4, <2>1, <2>2
<1>6. CASE I!SetRoles(c, p, {"viewer"})
  <2> DEFINE e == [principals[p] EXCEPT !.person.roles = {"viewer"}]
  <2>1. I!Change(c, p, "roles", e)
    BY <1>6 DEF I!SetRoles
  <2>2. e \in I!Entry /\ e.there /\ e.person.active = principals[p].person.active
    BY <1>2, <2>1 DEF I!Entry, I!Person, I!Change
  <2> HIDE DEF e
  <2> QED
    BY <1>4, <2>1, <2>2
<1>7. CASE I!Login(c, p)
  <2>1. PICK stage \in {"sync", "idle", "reread", "login"} :
          /\ stage = "sync" => ~principals[p].there
          /\ stage \in {"reread", "login"} => principals[p].person.active
          /\ login' = [login EXCEPT ![c] = [I!Idle EXCEPT !.at = stage, !.p = p, !.entry = principals[p], !.roles = groups[p]]]
          /\ groups[p] \in I!RoleSets
    BY <1>1, <1>2, <1>7 DEF I!Login, I!Entry, I!Person
  <2> DEFINE r == [I!Idle EXCEPT !.at = stage, !.p = p, !.entry = principals[p], !.roles = groups[p]]
  <2>2. r \in Login /\ r.at = stage /\ r.p = p
    BY <1>2, <2>1 DEF Login
  <2>3. r.p \in barred => stage = "idle"
    BY <2>1, <2>2 DEF IdentityInv, BarredInv, Disabled
  <2>4. logins' \in 0..MaxCalls /\ UNCHANGED <<principals, tokens, groups, sealed, barred, decided, raised, changes>>
    BY <1>1, <1>7 DEF I!Login, I!ghosts
  <2>5. login' = [login EXCEPT ![c] = r]
    BY <2>1
  <2> HIDE DEF r
  <2> QED
    BY <2>1, <2>2, <2>3, <2>4, <2>5, IdentityReads
<1>8. CASE I!Revoke(c, t)
  <2> DEFINE r == [I!Idle EXCEPT !.at = "revoke", !.t = t]
  <2>1. r \in Login /\ r.at = "revoke"
    BY <1>2 DEF Login
  <2>2. /\ login' = [login EXCEPT ![c] = r] /\ logins' \in 0..MaxCalls
        /\ UNCHANGED <<principals, tokens, groups, sealed, barred, decided, raised, changes>>
    BY <1>1, <1>8 DEF I!Revoke, I!ghosts
  <2> HIDE DEF r
  <2> QED
    BY <2>1, <2>2, IdentityReads
<1>9. CASE I!Authenticate(c, t)
  <2> DEFINE r == [I!Idle EXCEPT !.at = "principal", !.p = Holder[t], !.t = t, !.token = "active"]
  <2>1. r \in Login /\ r.at = "principal" /\ r.t = t /\ tokens[t] = "active"
    BY <1>2, <1>9, IdentityAssumption DEF Login, I!TokenStatus, I!Authenticate, I!Usable
  <2>2. /\ login' = [login EXCEPT ![c] = r] /\ logins' \in 0..MaxCalls
        /\ UNCHANGED <<principals, tokens, groups, sealed, barred, decided, raised, changes>>
    BY <1>1, <1>9 DEF I!Authenticate, I!ghosts
  <2> HIDE DEF r
  <2> QED
    BY <2>1, <2>2, IdentityReads
<1>10. CASE I!ReadPrincipal(c)
  <2>1. /\ UNCHANGED <<principals, tokens, groups, sealed, barred, decided, raised, changes, logins>>
        /\ login[c].at = "principal"
    BY <1>10 DEF I!ReadPrincipal, I!ghosts, I!bounds
  <2> DEFINE entry == principals[login[c].p]
  <2>2. CASE entry.there /\ entry.person.active
    <3> DEFINE r == [login[c] EXCEPT !.at = "seen", !.entry = entry]
    <3>1. r \in Login /\ r.at = "seen" /\ r.p = login[c].p /\ r.t = login[c].t /\ r.entry = entry
      BY <1>1, <1>2 DEF Login
    <3>2. login' = [login EXCEPT ![c] = r]
      BY <1>1, <1>10, <2>2 DEF I!ReadPrincipal
    <3>3. r.p \notin barred
      BY <2>2, <3>1 DEF IdentityInv, BarredInv, Disabled
    <3> HIDE DEF r
    <3> QED
      BY <1>1, <2>1, <2>2, <3>1, <3>2, <3>3, IdentityReads
  <2>3. CASE ~(entry.there /\ entry.person.active)
    <3>1. login' = [login EXCEPT ![c] = I!Idle]
      BY <1>10, <2>3 DEF I!ReadPrincipal, I!Return
    <3> QED
      BY <1>1, <1>2, <2>1, <3>1, IdentityReads, IdentityValues
  <2> QED
    BY <2>2, <2>3
<1>11. CASE I!ReadAgain(c)
  <2>1. /\ UNCHANGED <<principals, tokens, groups, sealed, barred, decided, raised, changes, logins>>
        /\ login[c].at = "reread"
    BY <1>11 DEF I!ReadAgain, I!ghosts, I!bounds
  <2> DEFINE entry == principals[login[c].p]
  <2>2. CASE entry.there
    <3> DEFINE r == [login[c] EXCEPT !.at = "synced", !.entry = [entry EXCEPT !.person.roles = login[c].roles]]
    <3>1. entry \in I!Entry /\ [entry EXCEPT !.person.roles = login[c].roles] \in I!Entry
      <4>1. login[c].roles \in I!RoleSets /\ login[c].p \in Principal
        BY <1>1, <1>2 DEF Login
      <4>2. entry \in I!Entry
        BY <1>1, <1>2, <4>1
      <4> HIDE DEF entry
      <4> QED
        BY <4>1, <4>2, RolesSet
    <3>2. r \in Login /\ r.at = "synced" /\ r.p = login[c].p
      BY <1>1, <1>2, <3>1 DEF Login
    <3>3. login' = [login EXCEPT ![c] = r]
      BY <1>1, <1>11, <2>2 DEF I!ReadAgain
    <3>4. r.p \notin barred
      BY <2>1, <3>2 DEF IdentityInv, BarredInv
    <3> HIDE DEF r
    <3> QED
      BY <1>1, <2>1, <3>2, <3>3, <3>4, IdentityReads
  <2>3. CASE ~entry.there
    <3>1. login' = [login EXCEPT ![c] = I!Idle]
      BY <1>11, <2>3 DEF I!ReadAgain, I!Return
    <3> QED
      BY <1>1, <1>2, <2>1, <3>1, IdentityReads, IdentityValues
  <2> QED
    BY <2>2, <2>3
<1> QED
  BY <1>3, <1>5, <1>6, <1>7, <1>8, <1>9, <1>10, <1>11

\* What is written is what was read, or Nobody.
LEMMA IdentityWrites ==
  ASSUME IdentityAssumption, IdentityInv, NEW c \in Caller,
         \/ I!SavePrincipal(c) \/ I!SaveRevoked(c) \/ I!SaveToken(c) \/ I!SaveSeen(c)
         \/ I!Provision(c) \/ I!SaveRoles(c) \/ I!SaveLogin(c)
  PROVE  IdentityInv'
<1> DEFINE me == login[c]
<1>1. /\ login \in [Caller -> Login] /\ principals \in [Principal -> I!Entry] /\ tokens \in [Token -> I!TokenStatus]
      /\ me \in Login /\ I!Idle \in Login /\ I!Idle.at = "idle" /\ sealed \subseteq Token /\ barred \subseteq Principal
      /\ me.p \in Principal /\ me.t \in Token /\ me.entry \in I!Entry /\ me.token \in I!TokenStatus /\ me.roles \in I!RoleSets
  <2>1. login \in [Caller -> Login] /\ principals \in [Principal -> I!Entry] /\ tokens \in [Token -> I!TokenStatus]
        /\ sealed \subseteq Token /\ barred \subseteq Principal
    BY DEF IdentityInv, I!TypeOK, Login
  <2> QED
    BY <2>1, IdentityValues DEF Login
<1>2. /\ \A t \in sealed : /\ tokens[t] # "active"
                           /\ \A d \in Caller : login[d].t = t => login[d].at \notin {"principal", "seen"}
      /\ \A p \in barred : /\ Disabled(principals[p])
                           /\ \A d \in Caller : login[d].p = p =>
                                \/ login[d].at \in {"idle", "principal", "revoke"}
                                \/ login[d].at \in {"status", "roles"} /\ Disabled(login[d].entry)
      /\ SeenInv
  BY DEF IdentityInv, SealedInv, BarredInv
\* Where the caller goes to.
<1>3. ASSUME NEW r \in Login, login' = [login EXCEPT ![c] = r],
             r.at \in {"idle", "noted", "login"},
             r.at = "noted" => r.entry.person.active,
             r.at \in {"noted", "login"} => r.p \notin barred',
             principals' \in [Principal -> I!Entry], tokens' \in [Token -> I!TokenStatus],
             UNCHANGED <<groups, logins, changes>>, raised' \in BOOLEAN,
             sealed' \subseteq Token, barred' \subseteq Principal,
             \A t \in sealed' : /\ tokens'[t] # "active"
                                /\ \A d \in Caller \ {c} : login[d].t = t => login[d].at \notin {"principal", "seen"},
             \A p \in barred' : /\ Disabled(principals'[p])
                                /\ \A d \in Caller \ {c} : login[d].p = p =>
                                     \/ login[d].at \in {"idle", "principal", "revoke"}
                                     \/ login[d].at \in {"status", "roles"} /\ Disabled(login[d].entry),
             decided' \subseteq [who : Principal, person : I!Person, required : I!ROLES],
             I!DecidedByTheRightOnes'
      PROVE  IdentityInv'
  <2>1. login' \in [Caller -> Login] /\ login'[c] = r /\ \A d \in Caller \ {c} : login'[d] = login[d]
    BY <1>1, <1>3
  <2>2. I!TypeOK'
    <3>1. groups' \in [FromIdP -> I!RoleSets] /\ logins' \in 0..MaxCalls /\ changes' \in 0..MaxGroups
      BY <1>3 DEF IdentityInv, I!TypeOK
    <3> QED
      BY <1>3, <2>1, <3>1 DEF I!TypeOK, Login
  <2>3. SealedInv'
    BY <1>3, <2>1 DEF SealedInv
  <2>4. BarredInv'
    BY <1>3, <2>1 DEF BarredInv
  <2>5. SeenInv'
    BY <1>2, <1>3, <2>1 DEF SeenInv
  <2>6. EntryInv'
    BY <1>3, <2>1 DEF IdentityInv, EntryInv
  <2> QED
    BY <1>3, <2>2, <2>3, <2>4, <2>5, <2>6 DEF IdentityInv
<1>4. /\ raised \in BOOLEAN /\ decided \subseteq [who : Principal, person : I!Person, required : I!ROLES]
      /\ I!DecidedByTheRightOnes
  BY DEF IdentityInv, I!TypeOK
<1>5. decided' = decided => I!DecidedByTheRightOnes'
  BY <1>4 DEF I!DecidedByTheRightOnes
<1> HIDE DEF me
<1>6. CASE I!SavePrincipal(c)
  <2>1. /\ me.at \in {"create", "status", "roles"}
        /\ principals' = [principals EXCEPT ![me.p] = me.entry]
        /\ barred' = IF me.at = "status" /\ ~me.entry.person.active /\ ~I!Holding(c, me.p) THEN barred \cup {me.p} ELSE barred
        /\ login' = [login EXCEPT ![c] = I!Idle]
        /\ UNCHANGED <<tokens, groups, sealed, decided, raised, logins, changes>>
    BY <1>6 DEF I!SavePrincipal, I!Return, I!bounds, me
  <2>2. principals' \in [Principal -> I!Entry] /\ principals'[me.p] = me.entry
        /\ \A p \in Principal \ {me.p} : principals'[p] = principals[p]
    BY <1>1, <2>1
  <2>3. me.p \in barred => Disabled(me.entry)
    BY <1>2, <2>1 DEF me
  <2>4. me.at = "status" => me.entry.there
    BY <2>1 DEF IdentityInv, EntryInv, me
  <2>5. \A p \in barred' :
          /\ Disabled(principals'[p])
          /\ \A d \in Caller \ {c} : login[d].p = p =>
               \/ login[d].at \in {"idle", "principal", "revoke"}
               \/ login[d].at \in {"status", "roles"} /\ Disabled(login[d].entry)
    <3>1. \A p \in barred : Disabled(principals'[p])
      BY <1>1, <1>2, <2>2, <2>3
    <3>2. ~I!Holding(c, me.p) => \A d \in Caller \ {c} : login[d].p = me.p => login[d].at = "idle"
      BY DEF I!Holding
    <3> QED
      BY <1>2, <2>1, <2>2, <2>4, <3>1, <3>2 DEF Disabled
  <2>6. barred' \subseteq Principal
    BY <1>1, <2>1
  <2> QED
    BY <1>1, <1>2, <1>3, <1>4, <1>5, <2>1, <2>2, <2>5, <2>6
<1>7. CASE I!SaveRevoked(c)
  <2>1. /\ tokens' = [tokens EXCEPT ![me.t] = "revoked"]
        /\ sealed' = IF I!Reading(c, me.t) THEN sealed ELSE sealed \cup {me.t}
        /\ login' = [login EXCEPT ![c] = I!Idle]
        /\ UNCHANGED <<principals, groups, barred, decided, raised, logins, changes>>
    BY <1>7 DEF I!SaveRevoked, I!Return, I!bounds, me
  <2>2. tokens' \in [Token -> I!TokenStatus] /\ tokens'[me.t] = "revoked"
        /\ \A t \in Token \ {me.t} : tokens'[t] = tokens[t]
    BY <1>1, <2>1 DEF I!TokenStatus
  <2>3. ~I!Reading(c, me.t) => \A d \in Caller \ {c} : login[d].t = me.t => login[d].at \notin {"principal", "seen"}
    BY DEF I!Reading
  <2>4. \A t \in sealed' : /\ tokens'[t] # "active"
                           /\ \A d \in Caller \ {c} : login[d].t = t => login[d].at \notin {"principal", "seen"}
    BY <1>1, <1>2, <2>1, <2>2, <2>3
  <2> QED
    BY <1>1, <1>2, <1>3, <1>4, <1>5, <2>1, <2>2, <2>4
<1>8. CASE I!SaveToken(c)
  <2> DEFINE r == [me EXCEPT !.at = "noted"]
  <2>1. /\ me.at = "seen" /\ tokens' = [tokens EXCEPT ![me.t] = me.token] /\ login' = [login EXCEPT ![c] = r]
        /\ UNCHANGED <<principals, groups, sealed, barred, decided, raised, logins, changes>>
    BY <1>1, <1>8 DEF I!SaveToken, I!Goto, I!bounds, I!ghosts, me
  <2>2. r \in Login /\ r.at = "noted" /\ r.p = me.p /\ r.entry = me.entry
    BY <1>1 DEF Login
  <2>3. me.t \notin sealed /\ me.p \notin barred /\ me.entry.person.active
    BY <1>2, <2>1 DEF me, SeenInv
  <2>4. tokens' \in [Token -> I!TokenStatus] /\ \A t \in Token \ {me.t} : tokens'[t] = tokens[t]
    BY <1>1, <2>1
  <2>5. \A t \in sealed' : tokens'[t] # "active"
    BY <1>1, <1>2, <2>1, <2>3, <2>4
  <2> HIDE DEF r
  <2> QED
    BY <1>1, <1>2, <1>3, <1>4, <1>5, <2>1, <2>2, <2>3, <2>4, <2>5
<1>9. ASSUME me.at \in {"noted", "login", "synced", "sync"} PROVE me.p \notin barred
  BY <1>2, <1>9 DEF me
<1>10. ASSUME NEW entry \in I!Entry, principals' = [principals EXCEPT ![me.p] = entry], me.p \notin barred, barred' = barred
       PROVE  /\ principals' \in [Principal -> I!Entry]
              /\ \A p \in barred' : Disabled(principals'[p])
  <2>1. principals' \in [Principal -> I!Entry] /\ \A p \in Principal \ {me.p} : principals'[p] = principals[p]
    BY <1>1, <1>10
  <2> QED
    BY <1>1, <1>2, <1>10, <2>1 DEF Disabled
<1>11. CASE I!SaveSeen(c)
  <2>1. /\ me.at = "noted" /\ principals' = [principals EXCEPT ![me.p] = me.entry] /\ login' = [login EXCEPT ![c] = I!Idle]
        /\ UNCHANGED <<tokens, groups, sealed, barred, raised, logins, changes>>
    BY <1>11 DEF I!SaveSeen, I!Return, I!bounds, me
  <2>2. PICK required \in {"approver", "security_admin"} :
          decided' = IF I!Authorized(me.entry.person, required)
                     THEN decided \cup {[who |-> me.p, person |-> me.entry.person, required |-> required]} ELSE decided
    BY <1>11 DEF I!SaveSeen, me
  <2>3. me.entry.person.active /\ me.entry.person \in I!Person
    BY <1>1, <1>2, <2>1 DEF SeenInv, I!Entry, me
  <2>4. decided' \subseteq [who : Principal, person : I!Person, required : I!ROLES]
    BY <1>1, <1>4, <2>2, <2>3 DEF I!ROLES
  <2>5. I!DecidedByTheRightOnes'
    <3> SUFFICES ASSUME I!Authorized(me.entry.person, required)
                 PROVE  LET person == me.entry.person
                        IN  /\ AllowAgents \/ person.kind = "human"
                            /\ required = "approver" => person.roles \cap {"approver", "admin"} # {}
                            /\ required = "security_admin" => person.roles \cap {"admin"} # {}
      BY <1>4, <2>2, <2>3 DEF I!DecidedByTheRightOnes
    <3>1. me.entry.person.roles \in I!RoleSets /\ me.entry.person.kind \in {"human", "agent"}
      BY <2>3 DEF I!Person
    <3> QED
      BY <3>1, RolesThatDecide DEF I!Authorized
  <2>6. me.p \notin barred
    BY <1>9, <2>1
  <2>7. /\ principals' \in [Principal -> I!Entry] /\ \A p \in barred' : Disabled(principals'[p])
    BY <1>1, <1>10, <2>1, <2>6
  <2> QED
    BY <1>1, <1>2, <1>3, <1>4, <2>1, <2>4, <2>5, <2>7
<1>12. CASE I!Provision(c)
  <2> DEFINE e == I!Somebody([kind |-> "human", roles |-> me.roles, active |-> TRUE])
  <2>1. /\ me.at = "sync" /\ UNCHANGED <<tokens, groups, sealed, barred, decided, logins, changes>>
    BY <1>12 DEF I!Provision, I!bounds, me
  <2>2. me.p \notin barred
    BY <1>9, <2>1
  <2>3. CASE principals[me.p].there
    <3>1. raised' = TRUE /\ login' = [login EXCEPT ![c] = I!Idle] /\ UNCHANGED principals
      BY <1>12, <2>3 DEF I!Provision, I!Return, me
    <3> QED
      BY <1>1, <1>2, <1>3, <1>4, <1>5, <2>1, <3>1
  <2>4. CASE ~principals[me.p].there
    <3> DEFINE r == [me EXCEPT !.at = "login", !.entry = e]
    <3>1. /\ principals' = [principals EXCEPT ![me.p] = e] /\ login' = [login EXCEPT ![c] = r] /\ UNCHANGED raised
      BY <1>1, <1>12, <2>4 DEF I!Provision, me
    <3>2. e \in I!Entry
      BY <1>1 DEF I!Somebody, I!Entry, I!Person
    <3> HIDE DEF e
    <3>3. r \in Login /\ r.at = "login" /\ r.p = me.p
      BY <1>1, <3>2 DEF Login
    <3>4. /\ principals' \in [Principal -> I!Entry] /\ \A p \in barred' : Disabled(principals'[p])
      BY <1>10, <2>1, <2>2, <3>1, <3>2
    <3> HIDE DEF r
    <3> QED
      BY <1>1, <1>2, <1>3, <1>4, <1>5, <2>1, <2>2, <3>1, <3>3, <3>4
  <2> QED
    BY <2>3, <2>4
<1>13. CASE I!SaveRoles(c)
  <2> DEFINE r == [me EXCEPT !.at = "login"]
  <2>1. /\ me.at = "synced" /\ principals' = [principals EXCEPT ![me.p] = me.entry] /\ login' = [login EXCEPT ![c] = r]
        /\ UNCHANGED <<tokens, groups, sealed, barred, decided, raised, logins, changes>>
    BY <1>1, <1>13 DEF I!SaveRoles, I!Goto, I!bounds, I!ghosts, me
  <2>2. r \in Login /\ r.at = "login" /\ r.p = me.p
    BY <1>1 DEF Login
  <2>3. me.p \notin barred
    BY <1>9, <2>1
  <2>4. /\ principals' \in [Principal -> I!Entry] /\ \A p \in barred' : Disabled(principals'[p])
    BY <1>1, <1>10, <2>1, <2>3
  <2> HIDE DEF r
  <2> QED
    BY <1>1, <1>2, <1>3, <1>4, <1>5, <2>1, <2>2, <2>3, <2>4
<1>14. CASE I!SaveLogin(c)
  <2>1. /\ me.at = "login" /\ principals' = [principals EXCEPT ![me.p] = me.entry] /\ login' = [login EXCEPT ![c] = I!Idle]
        /\ UNCHANGED <<tokens, groups, sealed, barred, decided, raised, logins, changes>>
    BY <1>14 DEF I!SaveLogin, I!Return, I!bounds, I!ghosts, me
  <2>2. me.p \notin barred
    BY <1>9, <2>1
  <2>3. /\ principals' \in [Principal -> I!Entry] /\ \A p \in barred' : Disabled(principals'[p])
    BY <1>1, <1>10, <2>1, <2>2
  <2> QED
    BY <1>1, <1>2, <1>3, <1>4, <1>5, <2>1, <2>3
<1> QED
  BY <1>6, <1>7, <1>8, <1>11, <1>12, <1>13, <1>14

LEMMA IdentityRest ==
  ASSUME IdentityAssumption, IdentityInv,
         \/ \E c \in Caller, p \in Principal : I!Remove(c, p)
         \/ \E c \in Caller, t \in Token : I!Issue(c, t)
         \/ I!Expire \/ I!ChangeGroups \/ UNCHANGED I!vars
  PROVE  IdentityInv'
<1>1. /\ principals \in [Principal -> I!Entry] /\ tokens \in [Token -> I!TokenStatus]
      /\ sealed \subseteq Token /\ barred \subseteq Principal /\ groups \in [FromIdP -> I!RoleSets]
      /\ I!Nobody \in I!Entry
  BY IdentityValues DEF IdentityInv, I!TypeOK
<1>2. UNCHANGED <<login, sealed, decided, raised>>
  BY DEF I!Remove, I!Issue, I!Expire, I!ChangeGroups, I!vars, I!ghosts, I!Enter
<1>3. logins' \in 0..MaxCalls /\ changes' \in 0..MaxGroups
  <2>1. logins \in 0..MaxCalls /\ changes \in 0..MaxGroups /\ MaxCalls \in Nat /\ MaxGroups \in Nat
    BY IdentityAssumption DEF IdentityInv, I!TypeOK
  <2>2. \/ UNCHANGED <<logins, changes>>
        \/ logins < MaxCalls /\ logins' = logins + 1 /\ changes' = changes
        \/ changes < MaxGroups /\ changes' = changes + 1 /\ logins' = logins
    BY DEF I!Remove, I!Issue, I!Expire, I!ChangeGroups, I!vars, I!bounds, I!Enter
  <2> QED
    BY <2>1, <2>2
<1>4. ASSUME principals' \in [Principal -> I!Entry], tokens' \in [Token -> I!TokenStatus], barred' \subseteq barred,
             groups' \in [FromIdP -> I!RoleSets],
             \A s \in sealed : tokens'[s] # "active", \A q \in barred' : principals'[q] = principals[q]
      PROVE  IdentityInv'
  <2>1. I!TypeOK'
    BY <1>1, <1>2, <1>3, <1>4 DEF IdentityInv, I!TypeOK
  <2>2. SealedInv' /\ SeenInv' /\ EntryInv'
    BY <1>2, <1>4 DEF IdentityInv, SealedInv, SeenInv, EntryInv
  <2>3. BarredInv'
    BY <1>2, <1>4 DEF IdentityInv, BarredInv
  <2>4. I!DecidedByTheRightOnes'
    BY <1>2 DEF IdentityInv, I!DecidedByTheRightOnes
  <2> QED
    BY <2>1, <2>2, <2>3, <2>4 DEF IdentityInv
<1>5. \A s \in sealed : tokens[s] # "active"
  BY DEF IdentityInv, SealedInv
<1>6. ASSUME NEW c \in Caller, NEW p \in Principal, I!Remove(c, p) PROVE IdentityInv'
  <2>1. /\ principals' = [principals EXCEPT ![p] = I!Nobody] /\ barred' = barred \ {p} /\ groups' = groups
        /\ tokens' = [s \in Token |-> IF Holder[s] = p THEN "none" ELSE tokens[s]]
    BY <1>6 DEF I!Remove
  <2>2. tokens' \in [Token -> I!TokenStatus] /\ \A s \in Token : tokens'[s] \in {"none", tokens[s]}
    BY <1>1, <2>1 DEF I!TokenStatus
  <2>3. principals' \in [Principal -> I!Entry] /\ \A q \in barred' : principals'[q] = principals[q]
    BY <1>1, <2>1
  <2> QED
    BY <1>1, <1>4, <1>5, <2>1, <2>2, <2>3
<1>7. ASSUME NEW c \in Caller, NEW t \in Token, I!Issue(c, t) PROVE IdentityInv'
  <2>1. t \notin sealed /\ tokens' = [tokens EXCEPT ![t] = "active"] /\ UNCHANGED <<principals, groups, barred>>
    BY <1>7 DEF I!Issue, I!ghosts
  <2>2. tokens' \in [Token -> I!TokenStatus] /\ \A s \in sealed : tokens'[s] # "active"
    BY <1>1, <1>5, <2>1 DEF I!TokenStatus
  <2> QED
    BY <1>1, <1>4, <2>1, <2>2
<1>8. CASE I!Expire
  <2>1. PICK s \in Token : tokens' = [tokens EXCEPT ![s] = "expired"] /\ UNCHANGED <<principals, groups, barred>>
    BY <1>8 DEF I!Expire, I!ghosts
  <2>2. tokens' \in [Token -> I!TokenStatus] /\ \A u \in sealed : tokens'[u] # "active"
    BY <1>1, <1>5, <2>1 DEF I!TokenStatus
  <2> QED
    BY <1>1, <1>4, <2>1, <2>2
<1>9. CASE I!ChangeGroups
  <2>1. PICK q \in FromIdP, roles \in {{"viewer"}, {"approver"}} : groups' = [groups EXCEPT ![q] = roles]
    BY <1>9 DEF I!ChangeGroups
  <2>2. groups' \in [FromIdP -> I!RoleSets] /\ UNCHANGED <<principals, tokens, barred>>
    BY <1>1, <1>9, <2>1 DEF I!ChangeGroups, I!ghosts, I!RoleSets
  <2> QED
    BY <1>1, <1>4, <1>5, <2>2
<1>10. CASE UNCHANGED I!vars
  BY <1>1, <1>4, <1>5, <1>10 DEF I!vars
<1> QED
  BY <1>6, <1>7, <1>8, <1>9, <1>10

LEMMA IdentityStarts == I!Init => IdentityInv
<1> SUFFICES ASSUME I!Init PROVE IdentityInv
  OBVIOUS
<1>1. I!Nobody \in I!Entry /\ I!Idle \in Login /\ I!Idle.at = "idle"
  BY IdentityAssumption, IdentityValues
<1>2. login \in [Caller -> Login] /\ principals \in [Principal -> I!Entry] /\ tokens \in [Token -> I!TokenStatus]
  BY <1>1 DEF I!Init, I!TokenStatus
<1>3. groups \in [FromIdP -> I!RoleSets]
  BY DEF I!Init, I!RoleSets
<1>4. I!TypeOK
  <2>1. logins \in 0..MaxCalls /\ changes \in 0..MaxGroups
    BY IdentityAssumption DEF I!Init
  <2>2. sealed = {} /\ barred = {} /\ decided = {} /\ raised = FALSE
    BY DEF I!Init
  <2> QED
    BY <1>2, <1>3, <2>1, <2>2 DEF I!TypeOK, Login
<1>5. \A c \in Caller : login[c].at = "idle"
  BY <1>1 DEF I!Init
<1>6. sealed = {} /\ barred = {} /\ decided = {}
  BY DEF I!Init
<1> QED
  BY <1>4, <1>5, <1>6 DEF IdentityInv, SealedInv, BarredInv, SeenInv, EntryInv, I!DecidedByTheRightOnes

\* What was revoked or disabled stays so, through logins, synchronised roles and
\* removals (security/identity.py), and whoever decided an approval was a
\* human with the role that was required (runtime.py, _authorize_decision):
\* for any principals, tokens, and callers that overlap.
THEOREM AccessDecided == I!Spec => []AccessIsDecided
<1>1. IdentityInv /\ [I!Next]_I!vars => IdentityInv'
  <2> SUFFICES ASSUME IdentityInv, [I!Next]_I!vars PROVE IdentityInv'
    OBVIOUS
  <2>1. PICK p0 \in Principal, t0 \in Token : TRUE
    BY IdentityAssumption
  <2>2. PICK person0 \in I!People : TRUE
    BY DEF I!People
  <2>3. CASE UNCHANGED I!vars \/ I!Expire \/ I!ChangeGroups
    BY <2>1, <2>3, IdentityAssumption, IdentityRest
  <2>4. ASSUME NEW c \in Caller, NEW p \in Principal,
               \/ \E person \in I!People : I!Create(c, p, person)
               \/ \E active \in BOOLEAN : I!SetStatus(c, p, active)
               \/ I!SetRoles(c, p, {"viewer"}) \/ I!Remove(c, p) \/ I!Login(c, p)
        PROVE  IdentityInv'
    BY <2>1, <2>2, <2>4, IdentityAssumption, IdentityReadSteps, IdentityRest
  <2>5. ASSUME NEW c \in Caller, NEW t \in Token, I!Issue(c, t) \/ I!Revoke(c, t) \/ I!Authenticate(c, t)
        PROVE  IdentityInv'
    BY <2>1, <2>2, <2>5, IdentityAssumption, IdentityReadSteps, IdentityRest
  <2>6. ASSUME NEW c \in Caller, I!ReadPrincipal(c) \/ I!ReadAgain(c)
        PROVE  IdentityInv'
    BY <2>1, <2>2, <2>6, IdentityAssumption, IdentityReadSteps
  <2> QED
    BY <2>3, <2>4, <2>5, <2>6, IdentityAssumption, IdentityWrites DEF I!Next
<1>2. IdentityInv => AccessIsDecided
  BY DEF IdentityInv, SealedInv, BarredInv, Disabled, AccessIsDecided, I!AccessIsWithdrawn
<1> QED
  BY <1>1, <1>2, IdentityStarts, PTL DEF I!Spec

-----------------------------------------------------------------------------
(* Secrets: the inductive invariant *)

Keeper == [at : {"idle", "put", "key", "list", "recipher", "record"}, name : SecretName, key : S!Key,
           previous : S!Key, row : S!Row, snapshot : S!Snapshot, todo : SUBSET SecretName]

\* There is nothing under the name, or it opens with the key.
OpensWith(n, key) == secrets[n] = S!NoRow \/ (secrets[n].key = key /\ key # 0)

\* What a put is about to write opens with the key there is.
PutInv(c) == keeper[c].at = "put" => keeper[c].row.key = keyFile /\ keyFile # 0

\* The rotation of c: which rows it has ciphered with its key, and which not yet.
RotationInv(c) ==
  LET me == keeper[c]
  IN  /\ S!Rotating(c) => me.key # 0 /\ (me.at # "key" => keyFile = me.key)
      /\ me.at = "key" => me.previous = keyFile /\ \A n \in SecretName : OpensWith(n, keyFile)
      /\ me.at = "list" => \A n \in SecretName : OpensWith(n, me.previous)
      /\ me.at = "recipher" =>
           \A n \in SecretName : IF n \in me.todo THEN /\ secrets[n] = me.snapshot[n]
                                                       /\ secrets[n] # S!NoRow /\ secrets[n].key = me.previous
                                 ELSE OpensWith(n, me.key)
      /\ me.at = "record" => \A n \in SecretName : OpensWith(n, me.key)

\* While nobody rotates the key, every row opens with it and it is on record.
AtRestInv == (\A c \in Caller : ~S!Rotating(c)) =>
               /\ \A n \in SecretName : OpensWith(n, keyFile)
               /\ keyFile # 0 => keyFile \in keyHistory

Undisturbed == overlaps = 0 /\ mishaps = 0 /\ env = 0

VaultInv == /\ \A c, d \in Caller : S!Rotating(c) /\ c # d => keeper[d].at = "idle"
            /\ \A n \in SecretName : secrets[n].value = written[n]
            /\ \A c \in Caller : PutInv(c) /\ RotationInv(c)
            /\ AtRestInv

\* Versions count the puts.
VersionInv == /\ \A n \in SecretName : secrets[n].version <= puts
              /\ \A c \in Caller : keeper[c].row.version <= puts
              /\ \A c \in Caller, n \in SecretName : keeper[c].snapshot[n].version <= puts

SecretsInv == S!TypeOK /\ VersionInv /\ (Undisturbed => VaultInv)

\* Who rotates is alone and has listed the values there are, whatever stopped
\* before and whatever key there is.
ValueInv == /\ \A c, d \in Caller : S!Rotating(c) /\ c # d => keeper[d].at = "idle"
            /\ \A n \in SecretName : secrets[n].value = written[n]
            /\ \A c \in Caller : keeper[c].at = "recipher" =>
                 \A n \in keeper[c].todo : keeper[c].snapshot[n].value = secrets[n].value

LEMMA SecretsValues ==
  ASSUME SecretsAssumption
  PROVE  /\ S!NoRow \in S!Row /\ S!NoRow.version = 0 /\ S!NoRow.value = 0 /\ S!NoRow.key = 0
         /\ S!Idle \in Keeper /\ S!Idle.at = "idle" /\ S!Idle.row = S!NoRow
         /\ \A n \in SecretName : S!Idle.snapshot[n] = S!NoRow
<1>1. S!NoRow \in S!Row /\ S!NoRow.version = 0 /\ S!NoRow.value = 0 /\ S!NoRow.key = 0 /\ 0 \in S!Key
  BY SecretsAssumption DEF S!NoRow, S!Row, S!Key
<1>2. (CHOOSE n \in SecretName : TRUE) \in SecretName /\ [n \in SecretName |-> S!NoRow] \in S!Snapshot
  BY <1>1, SecretsAssumption DEF S!Snapshot
<1> QED
  BY <1>1, <1>2 DEF S!Idle, Keeper

LEMMA SecretsTypes ==
  ASSUME SecretsAssumption, S!TypeOK
  PROVE  /\ keeper \in [Caller -> Keeper] /\ secrets \in [SecretName -> S!Row] /\ written \in [SecretName -> 0..MaxPuts]
         /\ keyFile \in S!Key /\ env \in S!Key /\ keyHistory \subseteq S!Key /\ S!Key \subseteq Int
         /\ keys \in S!Key /\ puts \in 0..MaxPuts /\ deletes \in 0..MaxDeletes
         /\ mishaps \in 0..MaxMishaps /\ overlaps \in 0..MaxOverlaps
BY SecretsAssumption DEF S!TypeOK, Keeper, S!Snapshot, S!Key

\* A keeper goes on: what has to be shown of a step.
LEMMA KeeperStep ==
  ASSUME SecretsAssumption, SecretsInv, NEW c \in Caller, NEW r \in Keeper, keeper' = [keeper EXCEPT ![c] = r],
         secrets' \in [SecretName -> S!Row], written' \in [SecretName -> 0..MaxPuts],
         env' = env, keyFile' \in S!Key, keyHistory' \subseteq S!Key,
         keys' \in S!Key, puts' \in 0..MaxPuts, deletes' \in 0..MaxDeletes,
         mishaps' \in 0..MaxMishaps, overlaps' \in 0..MaxOverlaps,
         puts <= puts', r.row.version <= puts',
         \A n \in SecretName : secrets'[n].version <= puts' /\ r.snapshot[n].version <= puts',
         Undisturbed' => VaultInv'
  PROVE  SecretsInv'
<1>1. keeper \in [Caller -> Keeper] /\ puts \in Int /\ puts' \in Int
  BY SecretsTypes, SecretsAssumption DEF SecretsInv
<1>2. keeper' \in [Caller -> Keeper] /\ keeper'[c] = r /\ \A d \in Caller \ {c} : keeper'[d] = keeper[d]
  BY <1>1
<1>3. S!TypeOK'
  BY <1>2 DEF SecretsInv, S!TypeOK, Keeper, S!Snapshot
<1>4. \A d \in Caller : keeper[d].row.version \in Int /\ \A n \in SecretName : keeper[d].snapshot[n].version \in Int
  BY <1>1, SecretsAssumption DEF Keeper, S!Snapshot, S!Row
<1>5. \A d \in Caller : keeper[d].row.version <= puts' /\ \A n \in SecretName : keeper[d].snapshot[n].version <= puts'
  BY <1>1, <1>4 DEF SecretsInv, VersionInv
<1>6. VersionInv'
  BY <1>2, <1>5 DEF VersionInv
<1> QED
  BY <1>3, <1>6 DEF SecretsInv

\* When a call begins nobody rotates the key, or they overlap.
LEMMA EnterAlone ==
  ASSUME SecretsAssumption, SecretsInv, NEW c \in Caller, NEW rotation \in BOOLEAN, S!Enter(c, rotation)
  PROVE  /\ keeper[c].at = "idle" /\ overlaps' \in 0..MaxOverlaps
         /\ overlaps' = 0 => /\ overlaps = 0 /\ \A d \in Caller : ~S!Rotating(d)
                             /\ rotation => \A d \in Caller : keeper[d].at = "idle"
<1>1. overlaps \in 0..MaxOverlaps /\ MaxOverlaps \in Nat
  BY SecretsTypes, SecretsAssumption DEF SecretsInv
<1>2. CASE \E d \in Caller \ {c} : S!Rotating(d) \/ (rotation /\ keeper[d].at # "idle")
  <2>1. overlaps' = overlaps + 1 /\ overlaps' <= MaxOverlaps /\ keeper[c].at = "idle"
    BY <1>2 DEF S!Enter
  <2> QED
    BY <1>1, <2>1
<1>3. CASE ~\E d \in Caller \ {c} : S!Rotating(d) \/ (rotation /\ keeper[d].at # "idle")
  <2>1. overlaps' = overlaps + 0 /\ overlaps' <= MaxOverlaps /\ keeper[c].at = "idle"
    BY <1>3 DEF S!Enter
  <2>2. ~S!Rotating(c)
    BY <2>1 DEF S!Rotating
  <2> QED
    BY <1>1, <1>3, <2>1, <2>2
<1> QED
  BY <1>2, <1>3

\* A call that is not a rotation comes or goes, and leaves keys and rows alone.
LEMMA VaultStays ==
  ASSUME VaultInv, NEW c \in Caller, keeper \in [Caller -> Keeper], NEW r \in Keeper, keeper' = [keeper EXCEPT ![c] = r],
         ~S!Rotating(c), r.at \in {"idle", "put"},
         r.at = "put" => (\A d \in Caller : ~S!Rotating(d)) /\ r.row.key = keyFile /\ keyFile # 0,
         UNCHANGED <<secrets, written, keyFile, keyHistory>>
  PROVE  VaultInv'
<1>1. keeper'[c] = r /\ \A d \in Caller \ {c} : keeper'[d] = keeper[d]
  OBVIOUS
<1>2. ~S!Rotating(c)' /\ \A d \in Caller \ {c} : S!Rotating(d)' <=> S!Rotating(d)
  BY <1>1 DEF S!Rotating
<1>3. \A d, e \in Caller : S!Rotating(d)' /\ d # e => keeper'[e].at = "idle"
  BY <1>1, <1>2 DEF VaultInv
<1>4. \A d \in Caller \ {c} : PutInv(d)' /\ RotationInv(d)'
  BY <1>1, <1>2 DEF VaultInv, PutInv, RotationInv, OpensWith
<1>5. PutInv(c)' /\ RotationInv(c)'
  BY <1>1, <1>2 DEF PutInv, RotationInv
<1>6. AtRestInv'
  BY <1>2 DEF VaultInv, AtRestInv, OpensWith
<1> QED
  BY <1>3, <1>4, <1>5, <1>6 DEF VaultInv

LEMMA SecretsPut ==
  ASSUME SecretsAssumption, SecretsInv, NEW c \in Caller, NEW n \in SecretName, S!Put(c, n)
  PROVE  SecretsInv'
<1> DEFINE mine == [id |-> IF secrets[n] = S!NoRow THEN puts + 1 ELSE secrets[n].id,
                   key |-> S!Load, value |-> puts + 1, version |-> secrets[n].version + 1]
           r == [S!Idle EXCEPT !.at = "put", !.name = n, !.row = mine]
<1>1. /\ S!Enter(c, FALSE) /\ puts < MaxPuts /\ puts' = puts + 1 /\ S!Load # 0 /\ keeper' = [keeper EXCEPT ![c] = r]
      /\ UNCHANGED <<env, keyFile, secrets, keyHistory, written, keys, deletes, mishaps>>
  BY DEF S!Put
<1>2. /\ keeper \in [Caller -> Keeper] /\ secrets \in [SecretName -> S!Row] /\ S!Load \in S!Key
      /\ puts \in 0..MaxPuts /\ puts' \in 0..MaxPuts /\ puts <= puts' /\ puts \in Int
  BY <1>1, SecretsTypes, SecretsAssumption DEF SecretsInv, S!Load
<1>3. \A k \in SecretName : secrets[k].version \in 0..MaxPuts /\ secrets[k].id \in 0..MaxPuts /\ secrets[k].version <= puts'
  BY <1>1, <1>2, SecretsAssumption DEF SecretsInv, VersionInv, S!Row
<1>4. mine \in S!Row /\ mine.version <= puts' /\ mine.key = S!Load
  BY <1>1, <1>2, <1>3, SecretsAssumption DEF S!Row, SecretsInv, VersionInv
<1> HIDE DEF mine
<1>5. r \in Keeper /\ r.row = mine /\ r.at = "put" /\ \A k \in SecretName : r.snapshot[k] = S!NoRow
  BY <1>4, SecretsValues DEF Keeper
<1>6. Undisturbed' => VaultInv'
  <2> SUFFICES ASSUME Undisturbed' PROVE VaultInv'
    OBVIOUS
  <2>1. Undisturbed /\ (\A d \in Caller : ~S!Rotating(d)) /\ S!Load = keyFile
    BY <1>1, EnterAlone DEF Undisturbed, S!Load
  <2> HIDE DEF r
  <2> QED
    BY <1>1, <1>2, <1>4, <1>5, <2>1, VaultStays DEF SecretsInv
<1>7. /\ env' = env /\ secrets' \in [SecretName -> S!Row] /\ written' \in [SecretName -> 0..MaxPuts] /\ keyFile' \in S!Key
      /\ keyHistory' \subseteq S!Key /\ keys' \in S!Key /\ deletes' \in 0..MaxDeletes /\ mishaps' \in 0..MaxMishaps
      /\ overlaps' \in 0..MaxOverlaps
  BY <1>1, SecretsTypes, EnterAlone DEF SecretsInv
<1>8. \A k \in SecretName : secrets'[k].version <= puts' /\ r.snapshot[k].version <= puts'
  BY <1>1, <1>2, <1>3, <1>5, SecretsValues
<1> HIDE DEF r
<1> QED
  BY <1>1, <1>2, <1>4, <1>5, <1>6, <1>7, <1>8, KeeperStep

\* The row is written by its id, or not at all; it opens with the key there is.
LEMMA SecretsSavePut ==
  ASSUME SecretsAssumption, SecretsInv, NEW c \in Caller, S!SavePut(c)
  PROVE  SecretsInv'
<1> DEFINE n == keeper[c].name
           mine == keeper[c].row
<1>1. /\ keeper[c].at = "put" /\ keeper' = [keeper EXCEPT ![c] = S!Idle]
      /\ \/ secrets' = [secrets EXCEPT ![n] = mine] /\ written' = [written EXCEPT ![n] = mine.value]
         \/ UNCHANGED <<secrets, written>>
      /\ UNCHANGED <<env, keyFile, keyHistory, keys, puts, deletes, mishaps, overlaps>>
  BY DEF S!SavePut, S!Return, S!bounds
<1>2. /\ keeper \in [Caller -> Keeper] /\ secrets \in [SecretName -> S!Row] /\ written \in [SecretName -> 0..MaxPuts]
      /\ n \in SecretName /\ mine \in S!Row /\ mine.value \in 0..MaxPuts /\ puts \in Int
  BY SecretsTypes, SecretsAssumption DEF SecretsInv, Keeper, S!Row
<1>3. \A k \in SecretName : secrets[k].version <= puts
  BY DEF SecretsInv, VersionInv
<1>4. mine.version <= puts
  BY DEF SecretsInv, VersionInv
<1>5. S!Idle \in Keeper /\ S!Idle.at = "idle" /\ S!Idle.row.version <= puts /\ \A k \in SecretName : S!Idle.snapshot[k].version <= puts
  BY SecretsValues, SecretsTypes, SecretsAssumption DEF SecretsInv
<1>6. /\ secrets' \in [SecretName -> S!Row] /\ written' \in [SecretName -> 0..MaxPuts]
      /\ \A k \in SecretName : secrets'[k].version <= puts
  BY <1>1, <1>2, <1>3, <1>4
<1>7. Undisturbed' => VaultInv'
  <2> SUFFICES ASSUME Undisturbed' PROVE VaultInv'
    OBVIOUS
  <2>1. Undisturbed /\ VaultInv /\ ~S!Rotating(c)
    BY <1>1 DEF Undisturbed, SecretsInv, S!Rotating
  <2>2. \A d \in Caller : ~S!Rotating(d)
    BY <1>1, <2>1 DEF VaultInv
  <2>3. mine.key = keyFile /\ keyFile # 0
    BY <1>1, <2>1 DEF VaultInv, PutInv
  <2>4. keeper'[c] = S!Idle /\ \A d \in Caller \ {c} : keeper'[d] = keeper[d]
    BY <1>1, <1>2
  <2>5. \A d \in Caller : ~S!Rotating(d)'
    BY <1>5, <2>2, <2>4 DEF S!Rotating
  <2>6. \A k \in SecretName : OpensWith(k, keyFile)'
    <3>1. \A k \in SecretName : OpensWith(k, keyFile)
      BY <2>1, <2>2 DEF VaultInv, AtRestInv
    <3> QED
      BY <1>1, <1>2, <2>3, <3>1 DEF OpensWith
  <2>7. \A k \in SecretName : secrets'[k].value = written'[k]
    BY <1>1, <1>2, <2>1 DEF VaultInv
  <2>8. \A d \in Caller : PutInv(d)'
    BY <1>1, <1>5, <2>1, <2>4 DEF VaultInv, PutInv
  <2>9. \A d \in Caller : RotationInv(d)'
    BY <2>5 DEF RotationInv, S!Rotating
  <2>10. AtRestInv'
    BY <1>1, <2>1, <2>2, <2>6 DEF VaultInv, AtRestInv
  <2> QED
    BY <2>5, <2>7, <2>8, <2>9, <2>10 DEF VaultInv
<1>8. /\ env' = env /\ keyFile' \in S!Key /\ keyHistory' \subseteq S!Key /\ keys' \in S!Key
      /\ puts' \in 0..MaxPuts /\ puts' = puts /\ deletes' \in 0..MaxDeletes /\ mishaps' \in 0..MaxMishaps
      /\ overlaps' \in 0..MaxOverlaps /\ puts <= puts
  BY <1>1, <1>2, SecretsTypes DEF SecretsInv
<1> HIDE DEF n, mine
<1> QED
  BY <1>1, <1>2, <1>5, <1>6, <1>7, <1>8, KeeperStep

\* What is deleted or kept without a rotation.
LEMMA SecretsDelete ==
  ASSUME SecretsAssumption, SecretsInv, NEW c \in Caller, NEW n \in SecretName, S!Delete(c, n)
  PROVE  SecretsInv'
<1>1. /\ S!Enter(c, FALSE) /\ deletes < MaxDeletes /\ deletes' = deletes + 1
      /\ secrets' = [secrets EXCEPT ![n] = S!NoRow] /\ written' = [written EXCEPT ![n] = 0]
      /\ UNCHANGED <<env, keyFile, keyHistory, keeper, keys, puts, mishaps>>
  BY DEF S!Delete
<1>2. /\ keeper \in [Caller -> Keeper] /\ secrets \in [SecretName -> S!Row] /\ written \in [SecretName -> 0..MaxPuts]
      /\ keeper' = [keeper EXCEPT ![c] = keeper[c]] /\ keeper[c] \in Keeper /\ puts \in Int
  BY <1>1, SecretsTypes, SecretsAssumption DEF SecretsInv
<1>3. deletes' \in 0..MaxDeletes /\ 0 <= puts /\ puts <= puts
  BY <1>1, SecretsTypes, SecretsAssumption DEF SecretsInv
<1>4. /\ keeper[c].row.version <= puts
      /\ \A k \in SecretName : secrets[k].version <= puts /\ keeper[c].snapshot[k].version <= puts
  BY DEF SecretsInv, VersionInv
<1>5. /\ secrets' \in [SecretName -> S!Row] /\ written' \in [SecretName -> 0..MaxPuts]
      /\ \A k \in SecretName : secrets'[k].version <= puts
  BY <1>1, <1>2, <1>3, <1>4, SecretsValues, SecretsAssumption
<1>6. Undisturbed' => VaultInv'
  <2> SUFFICES ASSUME Undisturbed' PROVE VaultInv'
    OBVIOUS
  <2>1. Undisturbed /\ VaultInv /\ \A d \in Caller : ~S!Rotating(d)
    BY <1>1, EnterAlone DEF Undisturbed, SecretsInv
  <2>2. \A d \in Caller : ~S!Rotating(d)'
    BY <1>1, <2>1 DEF S!Rotating
  <2>3. \A k \in SecretName : OpensWith(k, keyFile)'
    <3>1. \A k \in SecretName : OpensWith(k, keyFile)
      BY <2>1 DEF VaultInv, AtRestInv
    <3> QED
      BY <1>1, <1>2, <3>1 DEF OpensWith
  <2>4. \A k \in SecretName : secrets'[k].value = written'[k]
    BY <1>1, <1>2, <2>1, SecretsValues DEF VaultInv
  <2>5. \A d \in Caller : PutInv(d)' /\ RotationInv(d)'
    BY <1>1, <2>1, <2>2 DEF VaultInv, PutInv, RotationInv, S!Rotating
  <2>6. AtRestInv'
    BY <1>1, <2>1, <2>3 DEF VaultInv, AtRestInv
  <2> QED
    BY <2>2, <2>4, <2>5, <2>6 DEF VaultInv
<1>7. /\ env' = env /\ keyFile' \in S!Key /\ keyHistory' \subseteq S!Key /\ keys' \in S!Key /\ mishaps' \in 0..MaxMishaps
      /\ overlaps' \in 0..MaxOverlaps /\ puts' \in 0..MaxPuts /\ puts' = puts
  BY <1>1, SecretsTypes, EnterAlone DEF SecretsInv
<1> QED
  BY <1>2, <1>3, <1>4, <1>5, <1>6, <1>7, KeeperStep

\* An operator makes the first key of the vault, keeps the one there is, or
\* throws it away.
LEMMA SecretsInitKey ==
  ASSUME SecretsAssumption, SecretsInv, NEW c \in Caller, NEW force \in BOOLEAN, S!InitKey(c, force)
  PROVE  SecretsInv'
<1>1. /\ S!Enter(c, FALSE) /\ keys < MaxKeys
      /\ \/ S!Load # 0 /\ keyHistory' = keyHistory \cup {S!Load} /\ UNCHANGED <<keyFile, keys, mishaps>>
         \/ /\ keys' = keys + 1 /\ keyFile' = keys + 1 /\ keyHistory' = keyHistory \cup {keys + 1}
            /\ mishaps' = mishaps + (IF S!Load # 0 THEN 1 ELSE 0) /\ mishaps' <= MaxMishaps
      /\ UNCHANGED <<env, secrets, keeper, written, puts, deletes>>
  BY DEF S!InitKey
<1>2. /\ keeper \in [Caller -> Keeper] /\ keeper' = [keeper EXCEPT ![c] = keeper[c]] /\ keeper[c] \in Keeper
      /\ S!Load \in S!Key /\ puts \in Int /\ puts <= puts
  BY <1>1, SecretsTypes, SecretsAssumption DEF SecretsInv, S!Load
<1>3. keys' \in S!Key /\ keyFile' \in S!Key /\ keyHistory' \subseteq S!Key /\ keys + 1 # 0
  BY <1>1, <1>2, SecretsTypes, SecretsAssumption DEF SecretsInv, S!Key
<1>7. mishaps' \in 0..MaxMishaps /\ (mishaps' = 0 => mishaps = 0 /\ (S!Load # 0 => UNCHANGED <<keyFile, keys>> /\ keyHistory' = keyHistory \cup {S!Load}))
  <2>1. mishaps \in 0..MaxMishaps /\ MaxMishaps \in Nat
    BY SecretsTypes, SecretsAssumption DEF SecretsInv
  <2>2. CASE UNCHANGED <<keyFile, keys, mishaps>> /\ keyHistory' = keyHistory \cup {S!Load}
    BY <2>1, <2>2
  <2>3. CASE mishaps' = mishaps + (IF S!Load # 0 THEN 1 ELSE 0) /\ mishaps' <= MaxMishaps
    BY <2>1, <2>3
  <2> QED
    BY <1>1, <2>2, <2>3
<1>4. Undisturbed' => VaultInv'
  <2> SUFFICES ASSUME Undisturbed' PROVE VaultInv'
    OBVIOUS
  <2>1. Undisturbed /\ VaultInv /\ (\A d \in Caller : ~S!Rotating(d)) /\ S!Load = keyFile
    BY <1>1, <1>7, EnterAlone DEF Undisturbed, SecretsInv, S!Load
  <2>2. \A d \in Caller : ~S!Rotating(d)'
    BY <1>1, <2>1 DEF S!Rotating
  <2>3. \A k \in SecretName : OpensWith(k, keyFile)
    BY <2>1 DEF VaultInv, AtRestInv
  <2>4. AtRestInv'
    <3>1. CASE keyFile # 0
      <4>1. keyFile' = keyFile /\ keyHistory' = keyHistory \cup {keyFile} /\ secrets' = secrets
        BY <1>1, <1>7, <2>1, <3>1 DEF Undisturbed
      <4> QED
        BY <2>3, <4>1 DEF AtRestInv, OpensWith
    <3>2. CASE keyFile = 0
      <4>1. \A k \in SecretName : secrets[k] = S!NoRow
        BY <2>3, <3>2 DEF OpensWith
      <4>2. keyFile' # 0 => keyFile' \in keyHistory'
        BY <1>1, <3>2
      <4> QED
        BY <1>1, <4>1, <4>2 DEF AtRestInv, OpensWith
    <3> QED
      BY <3>1, <3>2
  <2>5. \A d \in Caller : PutInv(d)' /\ RotationInv(d)'
    BY <1>1, <1>7, <2>1, <2>2 DEF VaultInv, PutInv, RotationInv, S!Rotating, Undisturbed
  <2> QED
    BY <1>1, <2>1, <2>2, <2>4, <2>5 DEF VaultInv
<1>5. /\ keeper[c].row.version <= puts'
      /\ \A k \in SecretName : secrets'[k].version <= puts' /\ keeper[c].snapshot[k].version <= puts'
  BY <1>1 DEF SecretsInv, VersionInv
<1>6. /\ env' = env /\ secrets' \in [SecretName -> S!Row] /\ written' \in [SecretName -> 0..MaxPuts]
      /\ puts' \in 0..MaxPuts /\ puts' = puts /\ deletes' \in 0..MaxDeletes /\ mishaps' \in 0..MaxMishaps
      /\ overlaps' \in 0..MaxOverlaps
  BY <1>1, <1>7, SecretsTypes, EnterAlone DEF SecretsInv
<1> QED
  BY <1>2, <1>3, <1>4, <1>5, <1>6, KeeperStep

-----------------------------------------------------------------------------
(* Secrets: the rotation *)

LEMMA SecretsRotate ==
  ASSUME SecretsAssumption, SecretsInv, NEW c \in Caller, NEW force \in BOOLEAN, S!Rotate(c, force)
  PROVE  SecretsInv'
<1> DEFINE r == [S!Idle EXCEPT !.at = "key", !.previous = S!Load, !.key = keys + 1]
<1>1. /\ S!Enter(c, TRUE) /\ keys < MaxKeys /\ keys' = keys + 1 /\ keeper' = [keeper EXCEPT ![c] = r]
      /\ UNCHANGED <<env, keyFile, secrets, keyHistory, written, puts, deletes, mishaps>>
  BY DEF S!Rotate
<1>2. /\ keeper \in [Caller -> Keeper] /\ S!Load \in S!Key /\ keys \in S!Key /\ puts \in 0..MaxPuts /\ keyFile \in S!Key
  BY <1>1, SecretsTypes DEF SecretsInv, S!Load
<1>3. keys + 1 \in S!Key /\ keys + 1 # 0 /\ puts <= puts /\ 0 <= puts /\ puts \in Int
  BY <1>1, <1>2, SecretsAssumption DEF S!Key
<1>4. /\ r \in Keeper /\ r.at = "key" /\ r.key = keys + 1 /\ r.previous = S!Load /\ r.row = S!NoRow
      /\ \A k \in SecretName : r.snapshot[k] = S!NoRow
  BY <1>2, <1>3, SecretsValues DEF Keeper
<1> HIDE DEF r
<1>5. Undisturbed' => VaultInv'
  <2> SUFFICES ASSUME Undisturbed' PROVE VaultInv'
    OBVIOUS
  <2>1. Undisturbed /\ VaultInv /\ (\A d \in Caller : keeper[d].at = "idle") /\ S!Load = keyFile
    BY <1>1, EnterAlone DEF Undisturbed, SecretsInv, S!Load
  <2>2. keeper'[c] = r /\ \A d \in Caller \ {c} : keeper'[d] = keeper[d]
    BY <1>1, <1>2
  <2>3. S!Rotating(c)' /\ \A d \in Caller \ {c} : ~S!Rotating(d)' /\ keeper'[d].at = "idle"
    BY <1>4, <2>1, <2>2 DEF S!Rotating
  <2>4. \A n \in SecretName : OpensWith(n, keyFile)
    BY <2>1 DEF VaultInv, AtRestInv, S!Rotating
  <2>5. RotationInv(c)' /\ PutInv(c)'
    BY <1>1, <1>3, <1>4, <2>1, <2>2, <2>4 DEF RotationInv, OpensWith, PutInv
  <2>6. \A d \in Caller \ {c} : PutInv(d)' /\ RotationInv(d)'
    BY <2>3 DEF PutInv, RotationInv, S!Rotating
  <2> QED
    BY <1>1, <2>1, <2>3, <2>5, <2>6 DEF VaultInv, AtRestInv
<1>6. /\ env' = env /\ secrets' \in [SecretName -> S!Row] /\ written' \in [SecretName -> 0..MaxPuts] /\ keyFile' \in S!Key
      /\ keyHistory' \subseteq S!Key /\ keys' \in S!Key /\ deletes' \in 0..MaxDeletes /\ mishaps' \in 0..MaxMishaps
      /\ overlaps' \in 0..MaxOverlaps /\ puts' \in 0..MaxPuts /\ puts <= puts'
  BY <1>1, <1>3, SecretsTypes, EnterAlone DEF SecretsInv
<1>7. /\ r.row.version <= puts'
      /\ \A k \in SecretName : secrets'[k].version <= puts' /\ r.snapshot[k].version <= puts'
  BY <1>1, <1>3, <1>4, SecretsValues DEF SecretsInv, VersionInv
<1> QED
  BY <1>1, <1>2, <1>4, <1>5, <1>6, <1>7, KeeperStep

\* While a rotation is alone, only it and the rows matter.
LEMMA RotationAlone ==
  ASSUME VaultInv, NEW c \in Caller, S!Rotating(c), keeper \in [Caller -> Keeper], NEW r \in Keeper,
         keeper' = [keeper EXCEPT ![c] = r], r.at # "put",
         \A n \in SecretName : secrets'[n].value = written'[n],
         RotationInv(c)', r.at = "idle" => AtRestInv'
  PROVE  VaultInv'
<1>1. keeper'[c] = r /\ \A d \in Caller \ {c} : keeper'[d] = keeper[d] /\ keeper[d].at = "idle"
  BY DEF VaultInv
<1>2. \A d \in Caller \ {c} : ~S!Rotating(d)' /\ PutInv(d)' /\ RotationInv(d)'
  BY <1>1 DEF PutInv, RotationInv, S!Rotating
<1>3. PutInv(c)'
  BY <1>1 DEF PutInv
<1>4. AtRestInv'
  <2>1. CASE S!Rotating(c)'
    BY <2>1 DEF AtRestInv
  <2>2. CASE ~S!Rotating(c)'
    BY <1>1, <2>2 DEF S!Rotating, Keeper
  <2> QED
    BY <2>1, <2>2
<1> QED
  BY <1>1, <1>2, <1>3, <1>4 DEF VaultInv

LEMMA SecretsWriteKey ==
  ASSUME SecretsAssumption, SecretsInv, NEW c \in Caller, S!WriteKey(c)
  PROVE  SecretsInv'
<1> DEFINE r == [keeper[c] EXCEPT !.at = "list"]
<1>1. keeper \in [Caller -> Keeper] /\ keeper[c] \in Keeper /\ puts \in Int /\ puts <= puts
  BY SecretsTypes, SecretsAssumption DEF SecretsInv
<1>2. /\ keeper[c].at = "key" /\ keyFile' = keeper[c].key /\ keeper' = [keeper EXCEPT ![c] = r]
      /\ UNCHANGED <<env, secrets, keyHistory, written, keys, puts, deletes, mishaps, overlaps>>
  BY <1>1 DEF S!WriteKey, S!bounds
<1>3. /\ r \in Keeper /\ r.at = "list" /\ r.key = keeper[c].key /\ r.previous = keeper[c].previous
      /\ r.row = keeper[c].row /\ r.snapshot = keeper[c].snapshot
  BY <1>1 DEF Keeper
<1> HIDE DEF r
<1>4. Undisturbed' => VaultInv'
  <2> SUFFICES ASSUME Undisturbed' PROVE VaultInv'
    OBVIOUS
  <2>1. VaultInv /\ RotationInv(c) /\ S!Rotating(c)
    BY <1>2 DEF Undisturbed, SecretsInv, VaultInv, S!Rotating
  <2>2. keeper'[c] = r
    BY <1>1, <1>2
  <2>3. RotationInv(c)'
    BY <1>2, <1>3, <2>1, <2>2 DEF RotationInv, OpensWith
  <2> QED
    BY <1>1, <1>2, <1>3, <2>1, <2>3, RotationAlone DEF VaultInv
<1>5. /\ env' = env /\ secrets' \in [SecretName -> S!Row] /\ written' \in [SecretName -> 0..MaxPuts]
      /\ keyHistory' \subseteq S!Key /\ keys' \in S!Key /\ deletes' \in 0..MaxDeletes /\ mishaps' \in 0..MaxMishaps
      /\ overlaps' \in 0..MaxOverlaps /\ puts' \in 0..MaxPuts /\ puts <= puts'
  BY <1>1, <1>2, SecretsTypes DEF SecretsInv
<1>6. keyFile' \in S!Key
  BY <1>1, <1>2 DEF Keeper
<1>7. /\ r.row.version <= puts'
      /\ \A k \in SecretName : secrets'[k].version <= puts' /\ r.snapshot[k].version <= puts'
  BY <1>2, <1>3 DEF SecretsInv, VersionInv
<1> QED
  BY <1>1, <1>2, <1>3, <1>4, <1>5, <1>6, <1>7, KeeperStep

LEMMA SecretsListRecords ==
  ASSUME SecretsAssumption, SecretsInv, NEW c \in Caller, S!ListRecords(c)
  PROVE  SecretsInv'
<1> DEFINE todo == {n \in SecretName : secrets[n] # S!NoRow}
           r == [keeper[c] EXCEPT !.snapshot = secrets, !.todo = todo,
                                  !.at = IF todo = {} \/ keeper[c].previous = 0 THEN "record" ELSE "recipher"]
<1>1. /\ keeper \in [Caller -> Keeper] /\ keeper[c] \in Keeper /\ puts \in Int /\ puts <= puts
      /\ secrets \in S!Snapshot
  BY SecretsTypes, SecretsAssumption DEF SecretsInv, S!Snapshot
<1>2. /\ keeper[c].at = "list" /\ keeper' = [keeper EXCEPT ![c] = r]
      /\ UNCHANGED <<env, keyFile, secrets, keyHistory, written, keys, puts, deletes, mishaps, overlaps>>
  BY <1>1 DEF S!ListRecords, S!bounds
<1>3. /\ r \in Keeper /\ r.at = (IF todo = {} \/ keeper[c].previous = 0 THEN "record" ELSE "recipher")
      /\ r.key = keeper[c].key /\ r.previous = keeper[c].previous
      /\ r.row = keeper[c].row /\ r.snapshot = secrets /\ r.todo = todo
  BY <1>1 DEF Keeper
<1> HIDE DEF r
<1>4. Undisturbed' => VaultInv'
  <2> SUFFICES ASSUME Undisturbed' PROVE VaultInv'
    OBVIOUS
  <2>1. VaultInv /\ RotationInv(c) /\ S!Rotating(c)
    BY <1>2 DEF Undisturbed, SecretsInv, VaultInv, S!Rotating
  <2>2. keeper'[c] = r
    BY <1>1, <1>2
  <2>3. /\ \A n \in SecretName : OpensWith(n, keeper[c].previous)
        /\ keeper[c].key # 0 /\ keyFile = keeper[c].key
    BY <1>2, <2>1 DEF RotationInv
  <2>4. keeper[c].previous = 0 => \A n \in SecretName : secrets[n] = S!NoRow
    BY <2>3 DEF OpensWith
  <2>5. RotationInv(c)'
    BY <1>2, <1>3, <2>2, <2>3, <2>4 DEF RotationInv, OpensWith
  <2> QED
    BY <1>1, <1>2, <1>3, <2>1, <2>5, RotationAlone DEF VaultInv
<1>5. /\ env' = env /\ secrets' \in [SecretName -> S!Row] /\ written' \in [SecretName -> 0..MaxPuts] /\ keyFile' \in S!Key
      /\ keyHistory' \subseteq S!Key /\ keys' \in S!Key /\ deletes' \in 0..MaxDeletes /\ mishaps' \in 0..MaxMishaps
      /\ overlaps' \in 0..MaxOverlaps /\ puts' \in 0..MaxPuts /\ puts <= puts'
  BY <1>1, <1>2, SecretsTypes DEF SecretsInv
<1>6. /\ r.row.version <= puts'
      /\ \A k \in SecretName : secrets'[k].version <= puts' /\ r.snapshot[k].version <= puts'
  BY <1>2, <1>3 DEF SecretsInv, VersionInv
<1> QED
  BY <1>1, <1>2, <1>3, <1>4, <1>5, <1>6, KeeperStep

\* Each row is ciphered as it was listed: nothing came in between.
LEMMA SecretsRecipher ==
  ASSUME SecretsAssumption, SecretsInv, NEW c \in Caller, S!Recipher(c)
  PROVE  SecretsInv'
<1> DEFINE me == keeper[c]
<1>1. PICK n \in me.todo :
        IF me.snapshot[n].key # me.previous \/ ~S!Upsert(n, me.snapshot[n])
        THEN S!Return(c) /\ UNCHANGED secrets
        ELSE /\ secrets' = [secrets EXCEPT ![n] = S!Reciphered(me.snapshot[n], me.key)]
             /\ keeper' = [keeper EXCEPT ![c].todo = @ \ {n}, ![c].at = IF me.todo = {n} THEN "record" ELSE "recipher"]
  BY DEF S!Recipher
<1>2. me.at = "recipher" /\ UNCHANGED <<env, keyFile, keyHistory, written, keys, puts, deletes, mishaps, overlaps>>
  BY DEF S!Recipher, S!bounds
<1>3. /\ keeper \in [Caller -> Keeper] /\ me \in Keeper /\ puts \in Int /\ puts <= puts /\ 0 <= puts
      /\ secrets \in [SecretName -> S!Row]
  BY SecretsTypes, SecretsAssumption DEF SecretsInv
<1>4. n \in SecretName /\ me.snapshot \in [SecretName -> S!Row] /\ me.key \in S!Key /\ me.todo \subseteq SecretName
  BY <1>1, <1>3 DEF Keeper, S!Snapshot
<1>5. me.snapshot[n] \in S!Row
  BY <1>4
<1> DEFINE mine == me.snapshot[n]
           new == S!Reciphered(mine, me.key)
           r == [me EXCEPT !.todo = @ \ {n}, !.at = IF me.todo = {n} THEN "record" ELSE "recipher"]
<1>6. new \in S!Row /\ new.key = me.key /\ new.value = mine.value /\ new.version = mine.version
  BY <1>4, <1>5 DEF S!Reciphered, S!Row
<1>7. /\ r \in Keeper /\ r.at = (IF me.todo = {n} THEN "record" ELSE "recipher") /\ r.key = me.key
      /\ r.previous = me.previous /\ r.row = me.row /\ r.snapshot = me.snapshot /\ r.todo = me.todo \ {n}
  BY <1>3 DEF Keeper
<1>8. /\ env' = env /\ written' \in [SecretName -> 0..MaxPuts] /\ keyFile' \in S!Key
      /\ keyHistory' \subseteq S!Key /\ keys' \in S!Key /\ deletes' \in 0..MaxDeletes /\ mishaps' \in 0..MaxMishaps
      /\ overlaps' \in 0..MaxOverlaps /\ puts' \in 0..MaxPuts /\ puts <= puts' /\ puts' = puts
  BY <1>2, <1>3, SecretsTypes DEF SecretsInv
<1>9. /\ me.row.version <= puts
      /\ \A k \in SecretName : secrets[k].version <= puts /\ me.snapshot[k].version <= puts
  BY DEF SecretsInv, VersionInv
<1>10. ASSUME Undisturbed'
       PROVE  /\ VaultInv /\ RotationInv(c) /\ S!Rotating(c) /\ secrets[n] = mine /\ mine.key = me.previous
              /\ me.key # 0 /\ keyFile = me.key
  <2>1. VaultInv /\ RotationInv(c) /\ S!Rotating(c)
    BY <1>2, <1>10 DEF Undisturbed, SecretsInv, VaultInv, S!Rotating
  <2>2. secrets[n] = mine /\ mine.key = me.previous
    BY <1>1, <1>2, <1>4, <2>1 DEF RotationInv
  <2>3. me.key # 0 /\ keyFile = me.key
    BY <1>2, <2>1 DEF RotationInv
  <2> QED
    BY <2>1, <2>2, <2>3
<1>11. CASE mine.key # me.previous \/ ~S!Upsert(n, mine)
  <2>1. keeper' = [keeper EXCEPT ![c] = S!Idle] /\ UNCHANGED secrets
    BY <1>1, <1>11 DEF S!Return
  <2>2. Undisturbed' => VaultInv'
    BY <1>10, <1>11 DEF S!Upsert
  <2>3. S!Idle \in Keeper /\ S!Idle.row.version <= puts /\ \A k \in SecretName : S!Idle.snapshot[k].version <= puts
    BY <1>3, SecretsValues
  <2> HIDE DEF me, mine
  <2> QED
    BY <1>3, <1>8, <1>9, <2>1, <2>2, <2>3, KeeperStep
<1>12. CASE ~(mine.key # me.previous \/ ~S!Upsert(n, mine))
  <2>1. secrets' = [secrets EXCEPT ![n] = new] /\ keeper' = [keeper EXCEPT ![c] = r]
    <3>1. secrets' = [secrets EXCEPT ![n] = new]
      BY <1>1, <1>12
    <3>2. keeper' = [keeper EXCEPT ![c].todo = @ \ {n}, ![c].at = IF me.todo = {n} THEN "record" ELSE "recipher"]
      BY <1>1, <1>12
    <3>3. keeper' = [keeper EXCEPT ![c] = r]
      BY <1>3, <3>2
    <3> QED
      BY <3>1, <3>3
  <2> HIDE DEF new, r
  <2>2. /\ secrets' \in [SecretName -> S!Row] /\ secrets'[n] = new
        /\ \A k \in SecretName \ {n} : secrets'[k] = secrets[k]
    BY <1>3, <1>4, <1>6, <2>1
  <2>3. ASSUME Undisturbed' PROVE VaultInv'
    <3>1. keeper'[c] = r
      BY <1>3, <2>1
    <3>2. new # S!NoRow
      BY <1>6, <1>10, <2>3, SecretsValues
    <3>3. \A k \in SecretName : IF k \in me.todo THEN /\ secrets[k] = me.snapshot[k]
                                                      /\ secrets[k] # S!NoRow /\ secrets[k].key = me.previous
                                ELSE OpensWith(k, me.key)
      BY <1>2, <1>10, <2>3 DEF RotationInv
    <3>4. \A k \in SecretName : IF k \in r.todo THEN /\ secrets'[k] = r.snapshot[k]
                                                     /\ secrets'[k] # S!NoRow /\ secrets'[k].key = r.previous
                                ELSE secrets'[k] = S!NoRow \/ (secrets'[k].key = r.key /\ r.key # 0)
      BY <1>4, <1>6, <1>7, <1>10, <2>2, <2>3, <3>3 DEF OpensWith
    <3>5. r.at = "record" => r.todo = {}
      BY <1>7
    <3>6. keyFile' = r.key /\ r.key # 0 /\ r.at \in {"record", "recipher"}
      BY <1>2, <1>7, <1>10, <2>3
    <3>7. RotationInv(c)'
      BY <3>1, <3>4, <3>5, <3>6 DEF RotationInv, OpensWith
    <3>8. \A k \in SecretName : secrets'[k].value = written'[k]
      BY <1>2, <1>4, <1>6, <1>10, <2>2, <2>3 DEF VaultInv
    <3> QED
      BY <1>3, <1>7, <1>10, <2>1, <2>3, <3>6, <3>7, <3>8, RotationAlone
  <2>4. \A k \in SecretName : secrets'[k].version <= puts
    BY <1>4, <1>6, <1>9, <2>2
  <2> HIDE DEF me, mine
  <2> QED
    BY <1>3, <1>7, <1>8, <1>9, <2>1, <2>2, <2>3, <2>4, KeeperStep
<1> QED
  BY <1>11, <1>12

LEMMA SecretsRecordKey ==
  ASSUME SecretsAssumption, SecretsInv, NEW c \in Caller, S!RecordKey(c) \/ S!Crash(c)
  PROVE  SecretsInv'
<1>1. /\ keeper' = [keeper EXCEPT ![c] = S!Idle]
      /\ UNCHANGED <<env, keyFile, secrets, written, keys, puts, deletes, overlaps>>
      /\ \/ S!RecordKey(c) /\ keyHistory' = keyHistory \cup {keeper[c].key} /\ UNCHANGED mishaps
         \/ mishaps < MaxMishaps /\ mishaps' = mishaps + 1 /\ UNCHANGED keyHistory
  BY DEF S!RecordKey, S!Crash, S!Return, S!bounds
<1>2. /\ keeper \in [Caller -> Keeper] /\ keeper[c] \in Keeper /\ puts \in Int /\ puts <= puts /\ 0 <= puts
      /\ mishaps \in 0..MaxMishaps
  BY SecretsTypes, SecretsAssumption DEF SecretsInv
<1>3. mishaps' \in 0..MaxMishaps /\ (mishaps' = 0 => S!RecordKey(c) /\ mishaps = 0 /\ keyHistory' = keyHistory \cup {keeper[c].key})
  BY <1>1, <1>2, SecretsAssumption
<1>4. keeper[c].key \in S!Key /\ keyHistory' \subseteq S!Key
  BY <1>1, <1>2, SecretsTypes DEF SecretsInv, Keeper
<1>5. /\ S!Idle \in Keeper /\ S!Idle.at = "idle" /\ S!Idle.row.version <= puts
      /\ \A k \in SecretName : S!Idle.snapshot[k].version <= puts
  BY <1>2, SecretsValues
<1>6. ASSUME Undisturbed' PROVE VaultInv'
  <2>1. VaultInv /\ keeper[c].at = "record" /\ RotationInv(c) /\ S!Rotating(c)
    BY <1>1, <1>3, <1>6 DEF Undisturbed, SecretsInv, VaultInv, S!RecordKey, S!Rotating
  <2>2. keyFile = keeper[c].key /\ \A n \in SecretName : OpensWith(n, keyFile)
    BY <2>1 DEF RotationInv
  <2>3. AtRestInv'
    BY <1>1, <1>3, <1>6, <2>2 DEF AtRestInv, OpensWith, Undisturbed
  <2>4. keeper'[c] = S!Idle
    BY <1>1, <1>2
  <2>5. RotationInv(c)'
    BY <1>5, <2>4 DEF RotationInv, S!Rotating
  <2> QED
    BY <1>1, <1>2, <1>5, <2>1, <2>3, <2>5, RotationAlone DEF VaultInv
<1>7. /\ env' = env /\ secrets' \in [SecretName -> S!Row] /\ written' \in [SecretName -> 0..MaxPuts] /\ keyFile' \in S!Key
      /\ keys' \in S!Key /\ deletes' \in 0..MaxDeletes
      /\ overlaps' \in 0..MaxOverlaps /\ puts' \in 0..MaxPuts /\ puts' = puts
  BY <1>1, SecretsTypes DEF SecretsInv
<1>8. \A k \in SecretName : secrets'[k].version <= puts
  BY <1>1 DEF SecretsInv, VersionInv
<1> QED
  BY <1>1, <1>2, <1>3, <1>4, <1>5, <1>6, <1>7, <1>8, KeeperStep

-----------------------------------------------------------------------------
(* Secrets: the values, whatever happens *)

\* One keeper goes on and no value changes.
LEMMA ValuesStay ==
  ASSUME ValueInv, keeper \in [Caller -> Keeper], NEW c \in Caller, NEW r \in Keeper, keeper' = [keeper EXCEPT ![c] = r],
         written' = written, \A n \in SecretName : secrets'[n].value = secrets[n].value,
         r.at \in {"key", "list", "recipher", "record"} => S!Rotating(c) \/ \A d \in Caller : keeper[d].at = "idle",
         S!Rotating(c) \/ r.at = "idle" \/ \A d \in Caller : ~S!Rotating(d),
         r.at = "recipher" => \A n \in r.todo : r.snapshot[n].value = secrets[n].value
  PROVE  ValueInv'
<1>1. keeper'[c] = r /\ \A d \in Caller \ {c} : keeper'[d] = keeper[d]
  OBVIOUS
<1>2. \A d \in Caller : keeper'[d].todo \subseteq SecretName
  BY <1>1 DEF Keeper
<1>3. ASSUME NEW d \in Caller, NEW e \in Caller, S!Rotating(d)', d # e
      PROVE  keeper'[e].at = "idle"
  <2>1. CASE d = c
    <3>1. r.at \in {"key", "list", "recipher", "record"}
      BY <1>1, <1>3, <2>1 DEF S!Rotating
    <3> QED
      BY <1>1, <1>3, <2>1, <3>1 DEF ValueInv
  <2>2. CASE d # c
    <3>1. S!Rotating(d)
      BY <1>1, <1>3, <2>2 DEF S!Rotating
    <3>2. ~S!Rotating(c)
      BY <2>2, <3>1 DEF ValueInv, S!Rotating
    <3> QED
      BY <1>1, <1>3, <3>1, <3>2 DEF ValueInv
  <2> QED
    BY <2>1, <2>2
<1>4. ASSUME NEW d \in Caller, keeper'[d].at = "recipher", NEW n \in keeper'[d].todo
      PROVE  keeper'[d].snapshot[n].value = secrets'[n].value
  <2>1. secrets'[n].value = secrets[n].value
    BY <1>2, <1>4
  <2>2. CASE d = c
    BY <1>1, <1>4, <2>1, <2>2
  <2>3. CASE d # c
    BY <1>1, <1>4, <2>1, <2>3 DEF ValueInv
  <2> QED
    BY <2>2, <2>3
<1>5. \A n \in SecretName : secrets'[n].value = written'[n]
  BY DEF ValueInv
<1> QED
  BY <1>3, <1>4, <1>5 DEF ValueInv

\* Nobody rotates, and what is put or deleted is noted.
LEMMA ValuesPut ==
  ASSUME ValueInv, \A d \in Caller : ~S!Rotating(d), keeper \in [Caller -> Keeper],
         \A d \in Caller : keeper'[d] = keeper[d] \/ keeper'[d] = S!Idle,
         \A n \in SecretName : secrets'[n].value = written'[n]
  PROVE  ValueInv'
<1>1. S!Idle.at = "idle"
  BY SecretsAssumption, SecretsValues
<1>2. \A d \in Caller : ~S!Rotating(d)'
  BY <1>1 DEF S!Rotating
<1>3. \A d \in Caller : keeper'[d].at # "recipher"
  BY <1>2 DEF S!Rotating
<1> QED
  BY <1>2, <1>3 DEF ValueInv

LEMMA ValuesKept ==
  ASSUME SecretsAssumption, SecretsInv, overlaps = 0 => ValueInv, S!Next, overlaps' = 0
  PROVE  ValueInv'
<1>1. /\ keeper \in [Caller -> Keeper] /\ secrets \in [SecretName -> S!Row] /\ written \in [SecretName -> 0..MaxPuts]
      /\ S!Idle \in Keeper /\ S!Idle.at = "idle" /\ S!NoRow.value = 0 /\ \A c \in Caller : keeper[c] \in Keeper
  BY SecretsTypes, SecretsValues DEF SecretsInv
<1>2. ASSUME NEW c \in Caller, NEW force \in BOOLEAN, S!InitKey(c, force)
      PROVE  ValueInv'
  <2>1. S!Enter(c, FALSE) /\ UNCHANGED <<secrets, keeper, written>>
    BY <1>2 DEF S!InitKey
  <2>2. ValueInv /\ \A d \in Caller : ~S!Rotating(d)
    BY <2>1, EnterAlone
  <2>3. \A n \in SecretName : secrets'[n].value = written'[n]
    BY <2>1, <2>2 DEF ValueInv
  <2> QED
    BY <1>1, <2>1, <2>2, <2>3, ValuesPut
<1>3. ASSUME NEW c \in Caller, NEW force \in BOOLEAN, S!Rotate(c, force)
      PROVE  ValueInv'
  <2> DEFINE r == [S!Idle EXCEPT !.at = "key", !.previous = S!Load, !.key = keys + 1]
  <2>1. S!Enter(c, TRUE) /\ keys < MaxKeys /\ keeper' = [keeper EXCEPT ![c] = r] /\ UNCHANGED <<secrets, written>>
    BY <1>3 DEF S!Rotate
  <2>2. ValueInv /\ (\A d \in Caller : keeper[d].at = "idle") /\ \A d \in Caller : ~S!Rotating(d)
    BY <2>1, EnterAlone
  <2>3. S!Load \in S!Key /\ keys + 1 \in S!Key
    BY <2>1, SecretsTypes, SecretsAssumption DEF SecretsInv, S!Load, S!Key
  <2>4. r \in Keeper /\ r.at = "key"
    BY <1>1, <2>3 DEF Keeper
  <2>5. \A n \in SecretName : secrets'[n].value = secrets[n].value
    BY <2>1
  <2> HIDE DEF r
  <2> QED
    BY <1>1, <2>1, <2>2, <2>4, <2>5, ValuesStay
<1>4. ASSUME NEW c \in Caller, NEW n \in SecretName, S!Put(c, n)
      PROVE  ValueInv'
  <2>1. S!Enter(c, FALSE) /\ UNCHANGED <<secrets, written>>
    BY <1>4 DEF S!Put
  <2>2. PICK mine : keeper' = [keeper EXCEPT ![c] = [S!Idle EXCEPT !.at = "put", !.name = n, !.row = mine]]
    BY <1>4 DEF S!Put
  <2>3. ValueInv /\ \A d \in Caller : ~S!Rotating(d)
    BY <2>1, EnterAlone
  <2>4. keeper'[c].at = "put" /\ \A d \in Caller \ {c} : keeper'[d] = keeper[d]
    BY <1>1, <2>2 DEF S!Idle
  <2>5. \A d \in Caller : ~S!Rotating(d)' /\ keeper'[d].at # "recipher"
    BY <2>3, <2>4 DEF S!Rotating
  <2> QED
    BY <2>1, <2>3, <2>5 DEF ValueInv
<1>5. ASSUME NEW c \in Caller, NEW n \in SecretName, S!Delete(c, n)
      PROVE  ValueInv'
  <2>1. S!Enter(c, FALSE) /\ secrets' = [secrets EXCEPT ![n] = S!NoRow] /\ written' = [written EXCEPT ![n] = 0] /\ keeper' = keeper
    BY <1>5 DEF S!Delete
  <2>2. ValueInv /\ \A d \in Caller : ~S!Rotating(d)
    BY <2>1, EnterAlone
  <2>3. \A k \in SecretName : secrets'[k].value = written'[k]
    BY <1>1, <2>1, <2>2 DEF ValueInv
  <2> QED
    BY <1>1, <2>1, <2>2, <2>3, ValuesPut
<1>6. ASSUME NEW c \in Caller, S!SavePut(c)
      PROVE  ValueInv'
  <2> DEFINE n == keeper[c].name
             mine == keeper[c].row
  <2>1. /\ keeper[c].at = "put" /\ keeper' = [keeper EXCEPT ![c] = S!Idle] /\ overlaps' = overlaps
        /\ \/ secrets' = [secrets EXCEPT ![n] = mine] /\ written' = [written EXCEPT ![n] = mine.value]
           \/ UNCHANGED <<secrets, written>>
    BY <1>6 DEF S!SavePut, S!Return, S!bounds
  <2>2. ValueInv /\ \A d \in Caller : ~S!Rotating(d)
    BY <2>1 DEF ValueInv, S!Rotating
  <2>3. n \in SecretName
    BY <1>1 DEF Keeper
  <2>4. \A k \in SecretName : secrets'[k].value = written'[k]
    BY <1>1, <2>1, <2>2, <2>3 DEF ValueInv
  <2>5. \A d \in Caller : keeper'[d] = keeper[d] \/ keeper'[d] = S!Idle
    BY <1>1, <2>1
  <2> QED
    BY <1>1, <2>2, <2>4, <2>5, ValuesPut
<1>7. ASSUME NEW c \in Caller, S!WriteKey(c)
      PROVE  ValueInv'
  <2> DEFINE r == [keeper[c] EXCEPT !.at = "list"]
  <2>1. /\ keeper[c].at = "key" /\ keeper' = [keeper EXCEPT ![c] = r] /\ UNCHANGED <<secrets, written, overlaps>>
    BY <1>1, <1>7 DEF S!WriteKey, S!bounds
  <2>2. r \in Keeper /\ r.at = "list" /\ S!Rotating(c)
    BY <1>1, <2>1 DEF Keeper, S!Rotating
  <2>3. ValueInv /\ \A n \in SecretName : secrets'[n].value = secrets[n].value
    BY <2>1
  <2> HIDE DEF r
  <2> QED
    BY <1>1, <2>1, <2>2, <2>3, ValuesStay
<1>8. ASSUME NEW c \in Caller, S!ListRecords(c)
      PROVE  ValueInv'
  <2> DEFINE todo == {n \in SecretName : secrets[n] # S!NoRow}
             r == [keeper[c] EXCEPT !.snapshot = secrets, !.todo = todo,
                                    !.at = IF todo = {} \/ keeper[c].previous = 0 THEN "record" ELSE "recipher"]
  <2>1. /\ keeper[c].at = "list" /\ keeper' = [keeper EXCEPT ![c] = r] /\ UNCHANGED <<secrets, written, overlaps>>
    BY <1>1, <1>8 DEF S!ListRecords, S!bounds
  <2>2. r \in Keeper /\ r.snapshot = secrets /\ S!Rotating(c)
    BY <1>1, <2>1 DEF Keeper, S!Rotating, S!Snapshot
  <2>3. ValueInv /\ \A n \in SecretName : secrets'[n].value = secrets[n].value
    BY <2>1
  <2> HIDE DEF r, todo
  <2> QED
    BY <1>1, <2>1, <2>2, <2>3, ValuesStay
<1>9. ASSUME NEW c \in Caller, S!Recipher(c)
      PROVE  ValueInv'
  <2> DEFINE me == keeper[c]
  <2>1. PICK n \in me.todo :
          IF me.snapshot[n].key # me.previous \/ ~S!Upsert(n, me.snapshot[n])
          THEN S!Return(c) /\ UNCHANGED secrets
          ELSE /\ secrets' = [secrets EXCEPT ![n] = S!Reciphered(me.snapshot[n], me.key)]
               /\ keeper' = [keeper EXCEPT ![c].todo = @ \ {n}, ![c].at = IF me.todo = {n} THEN "record" ELSE "recipher"]
    BY <1>9 DEF S!Recipher
  <2>2. me.at = "recipher" /\ written' = written /\ overlaps' = overlaps /\ S!Rotating(c) /\ ValueInv
    BY <1>9 DEF S!Recipher, S!bounds, S!Rotating
  <2>3. n \in SecretName /\ me \in Keeper /\ me.snapshot[n] \in S!Row /\ me.snapshot[n].value = secrets[n].value
    BY <1>1, <2>1, <2>2 DEF Keeper, S!Snapshot, ValueInv
  <2>4. CASE me.snapshot[n].key # me.previous \/ ~S!Upsert(n, me.snapshot[n])
    <3>1. keeper' = [keeper EXCEPT ![c] = S!Idle] /\ UNCHANGED secrets
      BY <2>1, <2>4 DEF S!Return
    <3>2. \A k \in SecretName : secrets'[k].value = secrets[k].value
      BY <3>1
    <3> QED
      BY <1>1, <2>2, <3>1, <3>2, ValuesStay
  <2>5. CASE ~(me.snapshot[n].key # me.previous \/ ~S!Upsert(n, me.snapshot[n]))
    <3> DEFINE new == S!Reciphered(me.snapshot[n], me.key)
               r == [me EXCEPT !.todo = @ \ {n}, !.at = IF me.todo = {n} THEN "record" ELSE "recipher"]
    <3>1. secrets' = [secrets EXCEPT ![n] = new]
      BY <2>1, <2>5
    <3>2. keeper' = [keeper EXCEPT ![c].todo = @ \ {n}, ![c].at = IF me.todo = {n} THEN "record" ELSE "recipher"]
      BY <2>1, <2>5
    <3>3. keeper' = [keeper EXCEPT ![c] = r]
      BY <1>1, <3>2
    <3>4. new.value = secrets[n].value
      BY <2>3 DEF S!Reciphered, S!Row
    <3> HIDE DEF new
    <3>5. \A k \in SecretName : secrets'[k].value = secrets[k].value
      BY <1>1, <2>3, <3>1, <3>4
    <3>6. r \in Keeper /\ r.todo = me.todo \ {n} /\ r.snapshot = me.snapshot
      BY <2>3 DEF Keeper
    <3>7. \A k \in r.todo : r.snapshot[k].value = secrets[k].value
      BY <2>2, <3>6 DEF ValueInv
    <3> HIDE DEF r
    <3> QED
      BY <1>1, <2>2, <3>3, <3>5, <3>6, <3>7, ValuesStay
  <2> QED
    BY <2>4, <2>5
<1>10. ASSUME NEW c \in Caller, S!RecordKey(c) \/ S!Crash(c)
       PROVE  ValueInv'
  <2>1. keeper' = [keeper EXCEPT ![c] = S!Idle] /\ UNCHANGED <<secrets, written, overlaps>>
    BY <1>10 DEF S!RecordKey, S!Crash, S!Return, S!bounds
  <2>2. ValueInv /\ \A n \in SecretName : secrets'[n].value = secrets[n].value
    BY <2>1
  <2> QED
    BY <1>1, <2>1, <2>2, ValuesStay
<1> QED
  BY <1>2, <1>3, <1>4, <1>5, <1>6, <1>7, <1>8, <1>9, <1>10 DEF S!Next

LEMMA SecretsStart == S!Init => SecretsInv /\ ValueInv
<1> SUFFICES ASSUME S!Init PROVE SecretsInv /\ ValueInv
  OBVIOUS
<1>1. /\ S!NoRow \in S!Row /\ S!NoRow.version = 0 /\ S!NoRow.value = 0
      /\ S!Idle \in Keeper /\ S!Idle.at = "idle" /\ S!Idle.row = S!NoRow
      /\ \A n \in SecretName : S!Idle.snapshot[n] = S!NoRow
  BY SecretsAssumption, SecretsValues
<1>2. /\ keeper \in [Caller -> Keeper] /\ \A c \in Caller : keeper[c] = S!Idle
      /\ secrets \in [SecretName -> S!Row] /\ written \in [SecretName -> 0..MaxPuts]
      /\ \A n \in SecretName : secrets[n] = S!NoRow /\ written[n] = 0
  BY <1>1, SecretsAssumption DEF S!Init
<1>3. env \in S!Key /\ keyFile \in S!Key /\ keys \in S!Key /\ keyHistory = {} /\ keyFile = 0
  BY SecretsAssumption DEF S!Init, S!Key
<1>4. puts = 0 /\ puts \in 0..MaxPuts /\ deletes \in 0..MaxDeletes /\ mishaps \in 0..MaxMishaps /\ overlaps \in 0..MaxOverlaps
  BY SecretsAssumption DEF S!Init
<1>5. S!TypeOK
  BY <1>2, <1>3, <1>4 DEF S!TypeOK, Keeper, S!Snapshot
<1>6. VersionInv
  BY <1>1, <1>2, <1>4 DEF VersionInv
<1>7. VaultInv
  BY <1>1, <1>2, <1>3 DEF VaultInv, PutInv, RotationInv, AtRestInv, OpensWith, S!Rotating
<1>8. ValueInv
  BY <1>1, <1>2 DEF ValueInv, S!Rotating
<1> QED
  BY <1>5, <1>6, <1>7, <1>8 DEF SecretsInv

\* No rotation, finished or dead in the middle, brings an old value or a deleted
\* one back, unless another call runs into it; and where there was no mishap and
\* no key of the environment, at rest every secret opens with the key there is
\* (security/vault.py, keystore.py, runtime.py rotate_master_key): for any
\* names, keys and callers.
THEOREM SecretsKept == S!Spec => []SecretsAreKept
<1> DEFINE Inv == SecretsInv /\ (overlaps = 0 => ValueInv)
<1>1. Inv /\ [S!Next]_S!vars => Inv'
  <2> SUFFICES ASSUME SecretsInv, overlaps = 0 => ValueInv, [S!Next]_S!vars PROVE SecretsInv' /\ (overlaps' = 0 => ValueInv')
    OBVIOUS
  <2>1. CASE UNCHANGED S!vars
    <3>1. S!TypeOK' /\ VersionInv'
      BY <2>1 DEF S!vars, SecretsInv, S!TypeOK, VersionInv
    <3>2. Undisturbed' => VaultInv'
      BY <2>1 DEF S!vars, SecretsInv, Undisturbed, VaultInv, PutInv, RotationInv, AtRestInv, OpensWith, S!Rotating
    <3>3. overlaps' = 0 => ValueInv'
      BY <2>1 DEF S!vars, ValueInv, S!Rotating
    <3> QED
      BY <3>1, <3>2, <3>3 DEF SecretsInv
  <2>2. CASE S!Next
    <3>1. SecretsInv'
      BY <2>2, SecretsAssumption, SecretsPut, SecretsSavePut, SecretsDelete, SecretsInitKey, SecretsRotate, SecretsWriteKey,
         SecretsListRecords, SecretsRecipher, SecretsRecordKey DEF S!Next
    <3> QED
      BY <2>2, <3>1, SecretsAssumption, ValuesKept
  <2> QED
    BY <2>1, <2>2
<1>2. Inv => SecretsAreKept
  BY DEF SecretsInv, Undisturbed, VaultInv, ValueInv, AtRestInv, OpensWith, S!Rotating, SecretsAreKept, S!SecretsAreReadable, S!AtRest, S!Load
<1>3. S!Init => Inv
  BY SecretsStart
<1> QED
  BY <1>1, <1>2, <1>3, PTL DEF S!Spec

-----------------------------------------------------------------------------
(* Numbers *)

LEMMA NumbersUpTo == ASSUME NEW max \in Nat, NEW k \in 0..max PROVE 1..k \subseteq 1..max /\ k \in Nat
OBVIOUS

LEMMA NextNumber ==
  ASSUME NEW max \in Nat, NEW k \in 0..max, NEW next, next = k + 1
  PROVE  /\ next \notin 1..k /\ 1..k \cup {next} \subseteq 1..next /\ 1..k \subseteq 1..next
         /\ k < max => next \in 1..max /\ next \in 0..max
OBVIOUS

-----------------------------------------------------------------------------
(* Connectors: the inductive invariant *)

Calling == {"authorize", "execute", "finish", "record"}
Altering == {"register", "sync", "assign"}

Queries == (UNION {Asked[i] : i \in Connector}) \cup {C!TestRequest(i) : i \in Connector}
CallRecord == [pc : Calling, n : 1..MaxRequests, i : Connector, q : Queries, trial : BOOLEAN,
               ok : BOOLEAN, denied : BOOLEAN, allowed : BOOLEAN]
Hand == {C!Free} \cup CallRecord \cup [pc : {"register"}, i : Connector, on : {"on", "off"}]
        \cup [pc : {"sync"}, left : SUBSET Connector]
        \cup [pc : {"assign"}, found : [Connector -> C!States]]

\* A call in hand: until it is made it is on no list; it was let through by
\* what the connector allows, and asks what was asked of it.
CallInv(c) ==
  LET k == connecting[c]
  IN  k.pc \in Calling =>
        /\ k.n \in making
        /\ k.pc \in {"authorize", "execute"} => k.n \notin DOMAIN reached /\ ~k.ok /\ ~k.denied /\ C!Precheck(k.i, k.q, TRUE)
        /\ k.pc = "execute" => k.allowed
        /\ k.pc = "record" <=> k.n \in DOMAIN called
        /\ k.denied => k.n \notin DOMAIN reached /\ ~k.ok
        /\ k.ok => k.allowed
        /\ IF k.trial THEN k.q = C!TestRequest(k.i) ELSE k.q \in Asked[k.i]

HandInv == connecting \in [Thread -> Hand]

BookInv ==
  /\ making \cup dropped \subseteq 1..requests
  /\ DOMAIN called \subseteq making
  /\ \A c \in Thread : CallInv(c)
  /\ \A c, d \in Thread : c # d /\ connecting[c].pc \in Calling /\ connecting[d].pc \in Calling
                            => connecting[c].n # connecting[d].n
  /\ C!CallsAreOnRecord /\ C!ReachesWhatIsAllowed

Agrees(p, i) == registry[p][i] \in {"none", row[i]}
Alters(c, p) == Home[c] = p /\ connecting[c].pc \in Altering

\* What a process nobody outran remembers, while at most one of its threads
\* changes it; after two of them at once it counts as outrun.
MemoryInv ==
  \A p \in Process \ apart :
    /\ (\A c \in Thread : ~Alters(c, p)) => \A i \in Connector : Agrees(p, i)
    /\ \A c \in Thread : Alters(c, p) /\ (\A d \in Thread \ {c} : ~Alters(d, p)) =>
         /\ connecting[c].pc = "register" => \A i \in Connector \ {connecting[c].i} : Agrees(p, i)
         /\ connecting[c].pc = "assign" => connecting[c].found = row

ConnectorsInv == C!TypeOK /\ HandInv /\ BookInv /\ MemoryInv

LEMMA HandKinds ==
  ASSUME NEW r \in Hand
  PROVE  /\ r.pc \in {"free"} \cup Calling \cup Altering
         /\ r.pc = "free" => r = C!Free
         /\ r.pc \in Calling => r \in CallRecord
         /\ r.pc = "register" => r.i \in Connector /\ r.on \in {"on", "off"}
         /\ r.pc = "sync" => r.left \subseteq Connector
         /\ r.pc = "assign" => r.found \in [Connector -> C!States]
<1>1. CASE r = C!Free
  BY <1>1 DEF C!Free, Calling, Altering
<1>2. CASE r \in CallRecord
  BY <1>2 DEF CallRecord, Calling, Altering
<1>3. CASE r \in [pc : {"register"}, i : Connector, on : {"on", "off"}]
  BY <1>3 DEF Calling, Altering
<1>4. CASE r \in [pc : {"assign"}, found : [Connector -> C!States]]
  BY <1>4 DEF Calling, Altering
<1>5. CASE r \in [pc : {"sync"}, left : SUBSET Connector]
  BY <1>5 DEF Calling, Altering
<1> QED
  BY <1>1, <1>2, <1>3, <1>4, <1>5 DEF Hand

\* What is let through is allowed: what only reads reads, the host is on the
\* list, and a trial changes nothing.
LEMMA PrecheckHolds ==
  ASSUME ConnectorsAssumption, NEW i \in Connector, NEW q, NEW trial \in BOOLEAN, C!Precheck(i, q, TRUE),
         IF trial THEN q = C!TestRequest(i) ELSE q \in Asked[i]
  PROVE  /\ Declaration[i].read_only /\ C!Changes(i, q) => C!Disguised(i, q)
         /\ C!Kind(i) # "sql" => C!Host(i, q.path) \in Declaration[i].allowed_hosts
         /\ trial => ~C!Changes(i, q)
<1>1. C!Kind(i) # "sql" => C!Host(i, q.path) \in Declaration[i].allowed_hosts
  BY DEF C!Precheck, C!HostAllowed
<1>2. trial => ~C!Changes(i, q)
  <2> SUFFICES ASSUME trial PROVE ~C!Changes(i, q)
    OBVIOUS
  <2> DEFINE t == C!TestRequest(i)
  <2>1. CASE C!Kind(i) = "graphql"
    <3>1. t.query.changes = FALSE
      BY <2>1 DEF C!TestRequest
    <3> HIDE DEF t
    <3> QED
      BY <2>1, <3>1 DEF C!Changes, t
  <2>2. CASE C!Kind(i) = "sql"
    <3>1. t.query.changes = FALSE
      BY <2>2 DEF C!TestRequest
    <3> HIDE DEF t
    <3> QED
      BY <2>2, <3>1 DEF C!Changes, t
  <2>3. CASE C!Kind(i) \notin {"graphql", "sql"}
    <3>1. t.method = "GET"
      BY <2>3 DEF C!TestRequest
    <3> HIDE DEF t
    <3> QED
      BY <2>3, <3>1 DEF C!Changes, C!READ_OPERATIONS, t
  <2> QED
    BY <2>1, <2>2, <2>3
<1>3. ASSUME Declaration[i].read_only, C!Changes(i, q), ~trial
      PROVE  C!Disguised(i, q)
  <2>1. C!operation(i, q) \in C!READ_OPERATIONS /\ q \in Asked[i]
    BY <1>3 DEF C!Precheck
  <2>2. CASE C!Kind(i) = "graphql"
    <3>1. q.query.word # "mutation"
      BY <2>1, <2>2 DEF C!operation, C!READ_OPERATIONS
    <3> QED
      BY <1>3, <2>2, <3>1 DEF C!Changes, C!Disguised
  <2>3. CASE C!Kind(i) = "sql"
    <3>1. q.query.changes
      BY <1>3, <2>3 DEF C!Changes
    <3>2. q.query.word \notin (C!READ_OPERATIONS \ {"WITH", "PRAGMA"}) \cup {C!Nothing}
      BY <2>1, <2>3, <3>1, ConnectorsAssumption DEF C!Kind
    <3>3. q.query.word \in C!READ_OPERATIONS
      BY <2>1, <2>3, <3>2 DEF C!operation
    <3> QED
      BY <2>3, <3>1, <3>2, <3>3 DEF C!Disguised
  <2>4. CASE C!Kind(i) \notin {"graphql", "sql"}
    BY <1>3, <2>1, <2>4 DEF C!operation, C!READ_OPERATIONS, C!Changes
  <2> QED
    BY <2>2, <2>3, <2>4
<1> QED
  BY <1>1, <1>2, <1>3

\* What c does with its own call leaves the calls of the others as they are.
LEMMA OthersCalls ==
  ASSUME BookInv, HandInv, NEW c \in Thread, NEW r \in Hand, connecting' = [connecting EXCEPT ![c] = r], NEW m,
         \A d \in Thread \ {c} : connecting[d].pc \in Calling => connecting[d].n # m,
         making \subseteq making', DOMAIN reached' \subseteq DOMAIN reached \cup {m},
         DOMAIN called \subseteq DOMAIN called', DOMAIN called' \subseteq DOMAIN called \cup {m}
  PROVE  \A d \in Thread \ {c} : CallInv(d)' /\ connecting'[d] = connecting[d]
<1> TAKE d \in Thread \ {c}
<1>1. connecting'[d] = connecting[d]
  BY DEF HandInv
<1>2. CallInv(d)
  BY DEF BookInv
<1> QED
  BY <1>1, <1>2 DEF CallInv, Calling

\* A thread that changes nothing of what is remembered of a connector.
LEMMA MemoryStays ==
  ASSUME MemoryInv, HandInv, NEW c \in Thread, NEW r \in Hand, connecting' = [connecting EXCEPT ![c] = r],
         connecting[c].pc \notin Altering, r.pc \notin Altering, UNCHANGED <<row, apart>>,
         \A p \in Process, i \in Connector : registry'[p][i] = registry[p][i] \/ registry'[p][i] = row[i]
  PROVE  MemoryInv'
<1>1. connecting'[c] = r /\ \A d \in Thread \ {c} : connecting'[d] = connecting[d]
  BY DEF HandInv
<1>2. \A d \in Thread, p \in Process : Alters(d, p)' <=> Alters(d, p)
  BY <1>1 DEF Alters
<1>3. \A p \in Process, i \in Connector : Agrees(p, i) => Agrees(p, i)'
  BY DEF Agrees
<1>4. ASSUME NEW p \in Process \ apart', NEW d \in Thread, Alters(d, p)'
      PROVE  connecting'[d] = connecting[d]
  BY <1>1, <1>4 DEF Alters
<1> QED
  BY <1>2, <1>3, <1>4 DEF MemoryInv

\* A call goes on in the hands of c; `m` is its number.
LEMMA CallGoesOn ==
  ASSUME ConnectorsAssumption, ConnectorsInv, NEW c \in Thread, connecting[c].pc \in Calling,
         NEW r \in CallRecord, r.n = connecting[c].n, connecting' = [connecting EXCEPT ![c] = r],
         UNCHANGED <<row, registry, onTrail, making, dropped, apart, requests>>,
         DOMAIN reached \subseteq DOMAIN reached', DOMAIN reached' \subseteq DOMAIN reached \cup {r.n},
         DOMAIN called \subseteq DOMAIN called', DOMAIN called' \subseteq DOMAIN called \cup {r.n},
         CallInv(c)',
         \A n \in DOMAIN called \ {r.n} : called'[n] = called[n],
         r.n \in DOMAIN called' => /\ called'[r.n].denied => r.n \notin DOMAIN reached' /\ called'[r.n].cost = 0
                                   /\ called'[r.n].ok => called'[r.n].allowed,
         C!ReachesWhatIsAllowed'
  PROVE  ConnectorsInv'
<1>1. /\ r \in Hand /\ r.pc \in Calling /\ connecting \in [Thread -> Hand] /\ r.n \in making
      /\ making \subseteq 1..MaxRequests
  <2>1. making \subseteq 1..MaxRequests
    BY DEF ConnectorsInv, C!TypeOK, C!Calls
  <2> QED
    BY <2>1 DEF Hand, CallRecord, ConnectorsInv, HandInv, BookInv, CallInv
<1>2. connecting'[c] = r
  BY <1>1
<1>3. \A d \in Thread \ {c} : CallInv(d)' /\ connecting'[d] = connecting[d]
  <2>1. \A d \in Thread \ {c} : connecting[d].pc \in Calling => connecting[d].n # r.n
    BY DEF ConnectorsInv, BookInv
  <2>2. BookInv /\ HandInv /\ making \subseteq making'
    BY DEF ConnectorsInv
  <2> DEFINE m == r.n
  <2>3. /\ \A d \in Thread \ {c} : connecting[d].pc \in Calling => connecting[d].n # m
        /\ DOMAIN reached' \subseteq DOMAIN reached \cup {m}
        /\ DOMAIN called \subseteq DOMAIN called' /\ DOMAIN called' \subseteq DOMAIN called \cup {m}
    BY <2>1
  <2>4. r \in Hand /\ connecting' = [connecting EXCEPT ![c] = r]
    BY <1>1
  <2> HIDE DEF m
  <2> QED
    BY <2>2, <2>3, <2>4, OthersCalls
<1>4. HandInv'
  BY <1>1 DEF HandInv
<1>5. C!TypeOK'
  <2>1. \A d \in Thread : connecting'[d].pc \in {"free", "authorize", "execute", "finish", "record", "register", "sync", "assign"}
    BY <1>1, <1>2, <1>3 DEF ConnectorsInv, C!TypeOK, Calling
  <2>2. DOMAIN called' \subseteq 1..MaxRequests /\ DOMAIN reached' \subseteq 1..MaxRequests
    BY <1>1 DEF ConnectorsInv, C!TypeOK, C!Calls
  <2> QED
    BY <2>1, <2>2 DEF ConnectorsInv, C!TypeOK, C!Calls
<1>6. C!InHand' = C!InHand
  <2>1. \A d \in Thread : connecting'[d].pc \in Calling <=> connecting[d].pc \in Calling
    BY <1>1, <1>2, <1>3
  <2>2. \A d \in Thread : connecting[d].pc \in Calling => connecting'[d].n = connecting[d].n
    BY <1>1, <1>2, <1>3
  <2> QED
    BY <2>1, <2>2 DEF C!InHand, Calling
<1>7. C!CallsAreOnRecord'
  <2>1. making' \ (C!InHand' \cup dropped') \subseteq onTrail'
    BY <1>6 DEF ConnectorsInv, BookInv, C!CallsAreOnRecord
  <2>2. DOMAIN reached' \subseteq making'
    BY <1>1 DEF ConnectorsInv, BookInv, C!CallsAreOnRecord
  <2>3. ASSUME NEW n \in DOMAIN called', n # r.n
        PROVE  /\ called'[n].denied => n \notin DOMAIN reached' /\ called'[n].cost = 0
               /\ called'[n].ok => called'[n].allowed
    BY <2>3 DEF ConnectorsInv, BookInv, C!CallsAreOnRecord
  <2> QED
    BY <2>1, <2>2, <2>3 DEF C!CallsAreOnRecord
<1>8. BookInv'
  <2>1. making' \cup dropped' \subseteq 1..requests' /\ DOMAIN called' \subseteq making'
    BY <1>1 DEF ConnectorsInv, BookInv
  <2>2. \A d \in Thread : CallInv(d)'
    BY <1>3
  <2>3. \A d, e \in Thread : d # e /\ connecting'[d].pc \in Calling /\ connecting'[e].pc \in Calling
                               => connecting'[d].n # connecting'[e].n
    <3>1. \A d, e \in Thread : d # e /\ connecting[d].pc \in Calling /\ connecting[e].pc \in Calling
                               => connecting[d].n # connecting[e].n
      BY DEF ConnectorsInv, BookInv
    <3>2. \A d \in Thread : connecting'[d].n = connecting[d].n /\ (connecting'[d].pc \in Calling <=> connecting[d].pc \in Calling)
      BY <1>1, <1>2, <1>3
    <3> QED
      <4> TAKE d, e \in Thread
      <4> HAVE d # e /\ connecting'[d].pc \in Calling /\ connecting'[e].pc \in Calling
      <4>1. connecting[d].pc \in Calling /\ connecting[e].pc \in Calling
        BY <3>2
      <4>2. connecting[d].n # connecting[e].n
        BY <3>1, <4>1
      <4> QED
        BY <3>2, <4>2
  <2> QED
    BY <1>7, <2>1, <2>2, <2>3 DEF BookInv
<1>9. MemoryInv'
  BY <1>1, MemoryStays DEF ConnectorsInv, Calling, Altering
<1> QED
  BY <1>4, <1>5, <1>8, <1>9 DEF ConnectorsInv

LEMMA ConnectorsAuthorize ==
  ASSUME ConnectorsAssumption, ConnectorsInv, NEW c \in Thread, C!Authorize(c)
  PROVE  ConnectorsInv'
<1> DEFINE k == connecting[c]
<1>1. PICK allowed \in BOOLEAN, dry \in BOOLEAN :
        connecting' = [connecting EXCEPT ![c] =
          IF ~allowed THEN C!Call("finish", [k EXCEPT !.denied = TRUE])
          ELSE IF dry THEN C!Call("finish", [k EXCEPT !.allowed = TRUE, !.ok = TRUE])
          ELSE C!Call("execute", [k EXCEPT !.allowed = TRUE])]
  BY DEF C!Authorize
<1>2. k.pc = "authorize" /\ UNCHANGED <<row, registry, called, onTrail, reached, making, dropped, apart, requests>>
  BY DEF C!Authorize
<1>3. k \in CallRecord /\ CallInv(c) /\ connecting \in [Thread -> Hand]
  BY <1>2, HandKinds DEF ConnectorsInv, HandInv, BookInv, Calling
<1> DEFINE r == [pc |-> IF allowed /\ ~dry THEN "execute" ELSE "finish", n |-> k.n, i |-> k.i, q |-> k.q, trial |-> k.trial,
                 ok |-> allowed /\ dry, denied |-> ~allowed, allowed |-> allowed \/ k.allowed]
<1>4. ~k.ok /\ ~k.denied
  BY <1>2, <1>3 DEF CallInv, Calling
<1>5. connecting' = [connecting EXCEPT ![c] = r]
  <2>1. CASE ~allowed
    <3> DEFINE ended == [k EXCEPT !.denied = TRUE]
    <3>1. /\ ended.n = k.n /\ ended.i = k.i /\ ended.q = k.q /\ ended.trial = k.trial /\ ended.ok = k.ok
          /\ ended.denied = TRUE /\ ended.allowed = k.allowed
      BY <1>3 DEF CallRecord
    <3>2. connecting' = [connecting EXCEPT ![c] = C!Call("finish", ended)]
      BY <1>1, <2>1
    <3>3. k.ok = FALSE /\ k.allowed \in BOOLEAN
      BY <1>3, <1>4 DEF CallRecord
    <3> HIDE DEF ended
    <3>4. C!Call("finish", ended) = r
      BY <2>1, <3>1, <3>3 DEF C!Call
    <3> QED
      BY <3>2, <3>4
  <2>2. CASE allowed /\ dry
    <3> DEFINE ended == [k EXCEPT !.allowed = TRUE, !.ok = TRUE]
    <3>1. /\ ended.n = k.n /\ ended.i = k.i /\ ended.q = k.q /\ ended.trial = k.trial /\ ended.denied = k.denied
          /\ ended.ok = TRUE /\ ended.allowed = TRUE
      BY <1>3 DEF CallRecord
    <3>2. connecting' = [connecting EXCEPT ![c] = C!Call("finish", ended)]
      BY <1>1, <2>2
    <3>3. k.denied = FALSE
      BY <1>3, <1>4 DEF CallRecord
    <3> HIDE DEF ended
    <3>4. C!Call("finish", ended) = r
      BY <2>2, <3>1, <3>3 DEF C!Call
    <3> QED
      BY <3>2, <3>4
  <2>3. CASE allowed /\ ~dry
    BY <1>1, <1>2, <1>3, <1>4, <2>3 DEF C!Call, CallRecord
  <2> QED
    BY <2>1, <2>2, <2>3
<1>6. r \in CallRecord /\ r.n = k.n
  BY <1>3 DEF CallRecord, Calling
<1>7. CallInv(c)'
  <2>1. connecting'[c] = r
    BY <1>3, <1>5
  <2>2. /\ r.pc \in {"execute", "finish"} /\ (r.pc = "execute" => r.allowed /\ ~r.ok /\ ~r.denied)
        /\ (r.denied => ~r.ok) /\ (r.ok => r.allowed) /\ r.i = k.i /\ r.q = k.q /\ r.trial = k.trial /\ r.n = k.n
    OBVIOUS
  <2>3. /\ k.n \in making /\ k.n \notin DOMAIN reached /\ k.n \notin DOMAIN called /\ C!Precheck(k.i, k.q, TRUE)
        /\ IF k.trial THEN k.q = C!TestRequest(k.i) ELSE k.q \in Asked[k.i]
    BY <1>2, <1>3 DEF CallInv, Calling
  <2> HIDE DEF r, k
  <2> QED
    BY <1>2, <2>1, <2>2, <2>3 DEF CallInv, Calling
<1>8. r.n \notin DOMAIN called
  BY <1>2, <1>3 DEF CallInv, Calling
<1>9. C!ReachesWhatIsAllowed'
  BY <1>2 DEF ConnectorsInv, BookInv, C!ReachesWhatIsAllowed
<1> HIDE DEF r
<1> QED
  BY <1>2, <1>5, <1>6, <1>7, <1>8, <1>9, CallGoesOn DEF Calling

LEMMA ConnectorsExecute ==
  ASSUME ConnectorsAssumption, ConnectorsInv, NEW c \in Thread, C!Execute(c)
  PROVE  ConnectorsInv'
<1> DEFINE k == connecting[c]
           asked == [i |-> k.i, q |-> k.q, trial |-> k.trial]
<1>1. PICK a \in C!Answer(k.i) :
        /\ reached' = IF a.made THEN C!With(reached, k.n, asked) ELSE reached
        /\ connecting' = [connecting EXCEPT ![c] = C!Call("finish", [k EXCEPT !.ok = a.ok])]
  BY DEF C!Execute
<1>2. k.pc = "execute" /\ UNCHANGED <<row, registry, called, onTrail, making, dropped, apart, requests>>
  BY DEF C!Execute
<1>3. k \in CallRecord /\ CallInv(c) /\ connecting \in [Thread -> Hand]
  BY <1>2, HandKinds DEF ConnectorsInv, HandInv, BookInv, Calling
<1>4. a.made \in BOOLEAN /\ a.ok \in BOOLEAN
  <2> DEFINE Ended == [made : BOOLEAN, ok : BOOLEAN]
  <2>1. C!Unsent \in Ended /\ C!Failed \in Ended /\ C!Answered \in Ended
    BY DEF C!Unsent, C!Failed, C!Answered
  <2>2. a \in {C!Unsent, C!Failed, C!Answered}
    BY DEF C!Answer, C!GraphqlAnswer, C!HttpAnswer, C!SqlAnswer
  <2> QED
    BY <2>1, <2>2
<1> DEFINE r == [pc |-> "finish", n |-> k.n, i |-> k.i, q |-> k.q, trial |-> k.trial,
                 ok |-> a.ok, denied |-> k.denied, allowed |-> k.allowed]
<1>5. connecting' = [connecting EXCEPT ![c] = r]
  BY <1>1, <1>2, <1>3 DEF C!Call, CallRecord
<1>6. r \in CallRecord /\ r.n = k.n
  BY <1>3, <1>4 DEF CallRecord, Calling
<1>7. /\ DOMAIN reached \subseteq DOMAIN reached' /\ DOMAIN reached' \subseteq DOMAIN reached \cup {k.n}
      /\ \A n \in DOMAIN reached' : IF n = k.n THEN reached'[n] = asked ELSE reached'[n] = reached[n]
  <2>1. k.n \notin DOMAIN reached
    BY <1>2, <1>3 DEF CallInv, Calling
  <2> QED
    BY <1>1, <2>1 DEF C!With
<1>8. k.n \notin DOMAIN called /\ ~k.denied /\ k.allowed /\ C!Precheck(k.i, k.q, TRUE)
  BY <1>2, <1>3 DEF CallInv, Calling
<1>9. CallInv(c)'
  <2>1. connecting'[c] = r
    BY <1>3, <1>5
  <2>2. /\ r.pc = "finish" /\ r.denied = k.denied /\ r.allowed = k.allowed /\ r.i = k.i /\ r.q = k.q
        /\ r.trial = k.trial /\ r.n = k.n
    OBVIOUS
  <2>3. k.n \in making /\ IF k.trial THEN k.q = C!TestRequest(k.i) ELSE k.q \in Asked[k.i]
    BY <1>2, <1>3 DEF CallInv, Calling
  <2> HIDE DEF r, k
  <2> QED
    BY <1>2, <1>8, <2>1, <2>2, <2>3 DEF CallInv, Calling
<1>10. C!ReachesWhatIsAllowed'
  <2>1. C!ReachesWhatIsAllowed
    BY DEF ConnectorsInv, BookInv
  <2>2. /\ Declaration[k.i].read_only /\ C!Changes(k.i, k.q) => C!Disguised(k.i, k.q)
        /\ C!Kind(k.i) # "sql" => C!Host(k.i, k.q.path) \in Declaration[k.i].allowed_hosts
        /\ k.trial => ~C!Changes(k.i, k.q)
    <3>1. k.i \in Connector /\ k.trial \in BOOLEAN /\ IF k.trial THEN k.q = C!TestRequest(k.i) ELSE k.q \in Asked[k.i]
      BY <1>2, <1>3 DEF CallInv, Calling, CallRecord
    <3> QED
      BY <1>8, <3>1, PrecheckHolds
  <2> SUFFICES ASSUME NEW n \in DOMAIN reached'
               PROVE  LET s == reached'[n] IN
                      /\ Declaration[s.i].read_only /\ C!Changes(s.i, s.q) => C!Disguised(s.i, s.q)
                      /\ C!Kind(s.i) # "sql" => C!Host(s.i, s.q.path) \in Declaration[s.i].allowed_hosts
                      /\ s.trial => ~C!Changes(s.i, s.q)
    BY DEF C!ReachesWhatIsAllowed, C!Kind, C!Changes, C!Disguised, C!Host
  <2>3. CASE n = k.n
    <3>1. reached'[n] = asked /\ asked.i = k.i /\ asked.q = k.q /\ asked.trial = k.trial
      BY <1>7, <2>3
    <3> QED
      BY <2>2, <3>1
  <2>4. CASE n # k.n
    BY <1>7, <2>1, <2>4 DEF C!ReachesWhatIsAllowed
  <2> QED
    BY <2>3, <2>4
<1> HIDE DEF r, asked
<1> QED
  BY <1>2, <1>5, <1>6, <1>7, <1>8, <1>9, <1>10, CallGoesOn DEF Calling

LEMMA ConnectorsFinish ==
  ASSUME ConnectorsAssumption, ConnectorsInv, NEW c \in Thread, C!Finish(c)
  PROVE  ConnectorsInv'
<1> DEFINE k == connecting[c]
           r == C!Call("record", k)
<1>1. /\ k.pc = "finish" /\ called' = C!With(called, k.n, C!Entry(k)) /\ connecting' = [connecting EXCEPT ![c] = r]
      /\ UNCHANGED <<row, registry, onTrail, reached, making, dropped, apart, requests>>
  BY DEF C!Finish
<1>2. k \in CallRecord /\ CallInv(c) /\ connecting \in [Thread -> Hand]
  BY <1>1, HandKinds DEF ConnectorsInv, HandInv, BookInv, Calling
<1>3. /\ r \in CallRecord /\ r.n = k.n /\ r.pc = "record" /\ r.ok = k.ok /\ r.denied = k.denied /\ r.allowed = k.allowed
      /\ r.i = k.i /\ r.q = k.q /\ r.trial = k.trial
  BY <1>2 DEF C!Call, CallRecord, Calling
<1>4. /\ DOMAIN called \subseteq DOMAIN called' /\ DOMAIN called' = DOMAIN called \cup {k.n}
      /\ called'[k.n] = C!Entry(k) /\ \A n \in DOMAIN called \ {k.n} : called'[n] = called[n]
  BY <1>1 DEF C!With
<1>5. C!Entry(k).denied = k.denied /\ C!Entry(k).ok = k.ok /\ C!Entry(k).allowed = k.allowed /\ (~k.ok => C!Entry(k).cost = 0)
  BY DEF C!Entry
<1>6. (k.denied => k.n \notin DOMAIN reached /\ ~k.ok) /\ (k.ok => k.allowed)
  BY <1>1, <1>2 DEF CallInv, Calling
<1>7. CallInv(c)'
  <2>1. connecting'[c] = r
    BY <1>1, <1>2
  <2> HIDE DEF r
  <2> QED
    BY <1>1, <1>2, <1>3, <1>4, <2>1 DEF CallInv, Calling
<1>8. C!ReachesWhatIsAllowed'
  BY <1>1 DEF ConnectorsInv, BookInv, C!ReachesWhatIsAllowed
<1> HIDE DEF r
<1> QED
  <2>1. /\ k.pc \in Calling /\ r \in CallRecord /\ r.n = k.n /\ connecting' = [connecting EXCEPT ![c] = r]
        /\ UNCHANGED <<row, registry, onTrail, making, dropped, apart, requests>> /\ reached' = reached
    BY <1>1, <1>3 DEF Calling
  <2>2. /\ DOMAIN called \subseteq DOMAIN called' /\ DOMAIN called' \subseteq DOMAIN called \cup {r.n}
        /\ \A n \in DOMAIN called \ {r.n} : called'[n] = called[n]
    BY <1>3, <1>4
  <2>3. /\ called'[r.n].denied => r.n \notin DOMAIN reached' /\ called'[r.n].cost = 0
        /\ called'[r.n].ok => called'[r.n].allowed
    BY <1>1, <1>3, <1>4, <1>5, <1>6
  <2>4. DOMAIN reached \subseteq DOMAIN reached' /\ DOMAIN reached' \subseteq DOMAIN reached \cup {r.n}
    BY <2>1
  <2> QED
    BY <1>7, <1>8, <2>1, <2>2, <2>3, <2>4, CallGoesOn

LEMMA ConnectorsRecord ==
  ASSUME ConnectorsAssumption, ConnectorsInv, NEW c \in Thread, C!Record(c)
  PROVE  ConnectorsInv'
<1> DEFINE k == connecting[c]
<1>1. /\ k.pc = "record" /\ onTrail' = onTrail \cup {k.n} /\ connecting' = [connecting EXCEPT ![c] = C!Free]
      /\ UNCHANGED <<row, registry, called, reached, making, dropped, apart, requests>>
  BY DEF C!Record
<1>2. k \in CallRecord /\ CallInv(c) /\ connecting \in [Thread -> Hand]
  BY <1>1, HandKinds DEF ConnectorsInv, HandInv, BookInv, Calling
<1>3. C!Free \in Hand /\ C!Free.pc = "free" /\ C!Free.pc \notin Calling \cup Altering
  BY DEF Hand, C!Free, Calling, Altering
<1>4. connecting'[c] = C!Free /\ HandInv'
  BY <1>1, <1>2, <1>3 DEF HandInv
<1>5. \A d \in Thread \ {c} : CallInv(d)' /\ connecting'[d] = connecting[d]
  <2>1. \A d \in Thread \ {c} : connecting[d].pc \in Calling => connecting[d].n # k.n
    BY <1>1 DEF ConnectorsInv, BookInv, Calling
  <2>2. /\ BookInv /\ HandInv /\ making \subseteq making' /\ DOMAIN reached' \subseteq DOMAIN reached \cup {k.n}
        /\ DOMAIN called \subseteq DOMAIN called' /\ DOMAIN called' \subseteq DOMAIN called \cup {k.n}
    BY <1>1 DEF ConnectorsInv
  <2> QED
    BY <1>1, <1>3, <2>1, <2>2, OthersCalls
<1>6. k.n \in DOMAIN called
  BY <1>1, <1>2 DEF CallInv, Calling
<1>7. C!TypeOK'
  <2>1. \A d \in Thread : connecting'[d].pc \in {"free", "authorize", "execute", "finish", "record", "register", "sync", "assign"}
    BY <1>3, <1>4, <1>5 DEF ConnectorsInv, C!TypeOK
  <2> QED
    BY <1>1, <1>6, <2>1 DEF ConnectorsInv, C!TypeOK, C!Calls
<1>8. C!CallsAreOnRecord'
  <2>1. C!InHand \subseteq C!InHand' \cup {k.n}
    BY <1>5 DEF C!InHand
  <2> QED
    BY <1>1, <2>1 DEF ConnectorsInv, BookInv, C!CallsAreOnRecord
<1>9. BookInv'
  <2>1. \A d \in Thread : CallInv(d)'
    BY <1>3, <1>4, <1>5 DEF CallInv
  <2>2. ASSUME NEW d \in Thread, NEW e \in Thread, d # e, connecting'[d].pc \in Calling, connecting'[e].pc \in Calling
        PROVE  connecting'[d].n # connecting'[e].n
    <3>1. connecting'[d] = connecting[d] /\ connecting'[e] = connecting[e]
      BY <1>3, <1>4, <1>5, <2>2
    <3> QED
      BY <2>2, <3>1 DEF ConnectorsInv, BookInv
  <2> QED
    BY <1>1, <1>8, <2>1, <2>2 DEF ConnectorsInv, BookInv, C!ReachesWhatIsAllowed
<1>10. MemoryInv'
  BY <1>1, <1>3, MemoryStays DEF ConnectorsInv, Altering
<1> QED
  BY <1>4, <1>7, <1>9, <1>10 DEF ConnectorsInv

\* A call begins: its number is new.
LEMMA ConnectorsBegin ==
  ASSUME ConnectorsAssumption, ConnectorsInv, NEW c \in Thread, NEW i \in Connector, NEW q \in Queries, NEW trial \in BOOLEAN,
         IF trial THEN q = C!TestRequest(i) ELSE q \in Asked[i],
         C!Begin(c, i, q, trial)
  PROVE  ConnectorsInv'
<1> DEFINE p == Home[c]
           n == requests + 1
           passed == C!Precheck(i, q, C!Known(p, i) = "on")
           r == [pc |-> IF passed THEN "authorize" ELSE "finish", n |-> n, i |-> i, q |-> q, trial |-> trial,
                 ok |-> FALSE, denied |-> ~passed, allowed |-> FALSE]
<1>1. /\ connecting[c].pc = "free" /\ requests < MaxRequests /\ requests' = n
      /\ registry' = [registry EXCEPT ![p][i] = C!Known(p, i)]
      /\ making' = making \cup {n} /\ UNCHANGED <<row, called, onTrail, reached, dropped, apart>>
  BY DEF C!Begin
<1>2. connecting' = [connecting EXCEPT ![c] = r]
  BY DEF C!Begin, C!Call
<1>3. /\ p \in Process /\ requests \in 0..MaxRequests /\ n \in 1..MaxRequests /\ requests' \in 0..MaxRequests
      /\ registry \in [Process -> [Connector -> C!States]] /\ row \in [Connector -> C!States]
      /\ making \cup dropped \subseteq 1..requests /\ connecting \in [Thread -> Hand]
      /\ C!Known(p, i) \in {registry[p][i], row[i]} /\ C!Known(p, i) \in C!States
  <2>1. MaxRequests \in Nat /\ p \in Process
    BY ConnectorsAssumption
  <2>2. requests \in 0..MaxRequests
    BY DEF ConnectorsInv, C!TypeOK
  <2>3. n \in 1..MaxRequests /\ requests' \in 0..MaxRequests
    BY <1>1, <2>1, <2>2, NextNumber
  <2>4. registry \in [Process -> [Connector -> C!States]] /\ row \in [Connector -> C!States]
    BY DEF ConnectorsInv, C!TypeOK
  <2>5. making \cup dropped \subseteq 1..requests /\ connecting \in [Thread -> Hand]
    BY DEF ConnectorsInv, BookInv, HandInv
  <2>6. C!Known(p, i) \in {registry[p][i], row[i]}
    BY DEF C!Known
  <2>7. registry[p][i] \in C!States /\ row[i] \in C!States
    BY <2>1, <2>4
  <2> QED
    BY <2>1, <2>2, <2>3, <2>4, <2>5, <2>6, <2>7
<1>4. n \notin making \cup dropped \cup DOMAIN called \cup DOMAIN reached
  <2>1. n \notin 1..requests
    BY <1>3, ConnectorsAssumption, NextNumber
  <2>2. n \notin making \cup dropped
    BY <1>3, <2>1
  <2> HIDE DEF n
  <2> QED
    BY <2>2 DEF ConnectorsInv, BookInv, C!CallsAreOnRecord
<1>5. /\ r \in CallRecord /\ r \in Hand /\ r.n = n /\ r.pc \in Calling /\ r.pc \notin Altering /\ r.pc # "record"
      /\ r.pc # "execute" /\ (r.pc = "authorize" => passed) /\ ~r.ok /\ (r.pc = "authorize" => ~r.denied)
      /\ r.i = i /\ r.q = q /\ r.trial = trial
  BY <1>3 DEF CallRecord, Hand, Calling, Altering
<1>6. passed => C!Precheck(i, q, TRUE)
  BY DEF C!Precheck
<1> HIDE DEF r, passed
<1>7. connecting'[c] = r /\ HandInv'
  BY <1>2, <1>3, <1>5 DEF HandInv
<1>8. \A d \in Thread \ {c} : CallInv(d)' /\ connecting'[d] = connecting[d]
  <2>1. \A d \in Thread \ {c} : connecting[d].pc \in Calling => connecting[d].n # n
    BY <1>4 DEF ConnectorsInv, BookInv, CallInv
  <2>2. /\ BookInv /\ HandInv /\ making \subseteq making' /\ DOMAIN reached' \subseteq DOMAIN reached \cup {n}
        /\ DOMAIN called \subseteq DOMAIN called' /\ DOMAIN called' \subseteq DOMAIN called \cup {n}
    BY <1>1 DEF ConnectorsInv
  <2> QED
    BY <1>2, <1>5, <2>1, <2>2, OthersCalls
<1>9. CallInv(c)'
  BY <1>1, <1>4, <1>5, <1>6, <1>7 DEF CallInv, Calling
<1>10. C!TypeOK'
  <2>1. \A d \in Thread : connecting'[d].pc \in {"free", "authorize", "execute", "finish", "record", "register", "sync", "assign"}
    BY <1>5, <1>7, <1>8 DEF ConnectorsInv, C!TypeOK, Calling
  <2>2. registry' \in [Process -> [Connector -> C!States]]
    BY <1>1, <1>3
  <2>3. making' \cup dropped' \subseteq C!Calls
    BY <1>1, <1>3 DEF ConnectorsInv, C!TypeOK, C!Calls
  <2> QED
    BY <1>1, <1>3, <2>1, <2>2, <2>3 DEF ConnectorsInv, C!TypeOK, C!Calls
<1>11. C!CallsAreOnRecord'
  <2>1. C!InHand \cup {n} \subseteq C!InHand'
    <3>1. \A d \in Thread : connecting[d].pc \in Calling => connecting'[d] = connecting[d]
      BY <1>1, <1>8 DEF Calling
    <3>2. connecting'[c].pc \in Calling /\ connecting'[c].n = n
      BY <1>5, <1>7
    <3> QED
      BY <3>1, <3>2 DEF C!InHand, Calling
  <2> QED
    BY <1>1, <2>1 DEF ConnectorsInv, BookInv, C!CallsAreOnRecord
<1>12. BookInv'
  <2>1. \A d \in Thread : CallInv(d)'
    BY <1>8, <1>9
  <2>2. ASSUME NEW d \in Thread, NEW e \in Thread, d # e, connecting'[d].pc \in Calling, connecting'[e].pc \in Calling
        PROVE  connecting'[d].n # connecting'[e].n
    <3>1. ASSUME NEW f \in Thread \ {c}, connecting'[f].pc \in Calling
          PROVE  connecting'[f].n # n
      <4>1. CallInv(f) /\ connecting'[f] = connecting[f]
        BY <1>8 DEF ConnectorsInv, BookInv
      <4>2. connecting[f].n \in making
        BY <3>1, <4>1 DEF CallInv
      <4> QED
        BY <1>4, <4>1, <4>2
    <3>2. CASE d # c /\ e # c
      <4>1. connecting'[d] = connecting[d] /\ connecting'[e] = connecting[e]
        BY <1>8, <3>2
      <4> QED
        BY <2>2, <4>1 DEF ConnectorsInv, BookInv
    <3>3. CASE d = c \/ e = c
      BY <1>5, <1>7, <2>2, <3>1, <3>3
    <3> QED
      BY <3>2, <3>3
  <2>3. making' \cup dropped' \subseteq 1..requests' /\ DOMAIN called' \subseteq making'
    <3>1. 1..requests \cup {n} \subseteq 1..requests'
      BY <1>1, <1>3, ConnectorsAssumption, NextNumber
    <3> HIDE DEF n
    <3>2. making' \cup dropped' \subseteq 1..requests'
      BY <1>1, <1>3, <3>1
    <3> QED
      BY <1>1, <3>2 DEF ConnectorsInv, BookInv
  <2> QED
    BY <1>1, <1>11, <2>1, <2>2, <2>3 DEF ConnectorsInv, BookInv, C!ReachesWhatIsAllowed
<1>13. MemoryInv'
  <2>1. \A s \in Process, j \in Connector : registry'[s][j] = registry[s][j] \/ registry'[s][j] = row[j]
    BY <1>1, <1>3
  <2> QED
    BY <1>1, <1>2, <1>5, <2>1, MemoryStays DEF ConnectorsInv, Altering
<1> QED
  BY <1>7, <1>10, <1>12, <1>13 DEF ConnectorsInv

\* A thread that has no call in hand changes a connector: the calls stay as they are.
LEMMA CallsStay ==
  ASSUME ConnectorsAssumption, ConnectorsInv, NEW c \in Thread, NEW r \in Hand, connecting' = [connecting EXCEPT ![c] = r],
         connecting[c].pc \notin Calling, r.pc \notin Calling,
         UNCHANGED <<called, onTrail, reached, making, dropped>>, requests' = requests \/ requests' = requests + 1
  PROVE  /\ HandInv' /\ BookInv' /\ connecting'[c] = r /\ \A d \in Thread \ {c} : connecting'[d] = connecting[d]
         /\ \A d \in Thread : connecting'[d].pc \in {"free", "authorize", "execute", "finish", "record", "register", "sync", "assign"}
<1>1. /\ connecting \in [Thread -> Hand] /\ connecting'[c] = r /\ \A d \in Thread \ {c} : connecting'[d] = connecting[d]
      /\ HandInv'
  BY DEF ConnectorsInv, HandInv
<1>2. \A d \in Thread : connecting'[d].pc \in {"free", "authorize", "execute", "finish", "record", "register", "sync", "assign"}
  BY <1>1, HandKinds DEF HandInv, Calling, Altering
<1>3. \A d \in Thread : connecting'[d].pc \in Calling => connecting'[d] = connecting[d]
  BY <1>1
<1>4. C!InHand' = C!InHand
  <2>1. \A d \in Thread : connecting[d].pc \in Calling => connecting'[d] = connecting[d]
    BY <1>1
  <2> QED
    BY <1>3, <2>1 DEF C!InHand, Calling
<1>5. making' \cup dropped' \subseteq 1..requests'
  <2>1. requests \in 0..MaxRequests /\ MaxRequests \in Nat
    BY ConnectorsAssumption DEF ConnectorsInv, C!TypeOK
  <2>2. 1..requests \subseteq 1..requests'
    BY <2>1, NextNumber
  <2>3. making \cup dropped \subseteq 1..requests
    BY DEF ConnectorsInv, BookInv
  <2> QED
    BY <2>2, <2>3
<1>6. \A d \in Thread : CallInv(d)'
  <2>1. \A d \in Thread : CallInv(d)
    BY DEF ConnectorsInv, BookInv
  <2> QED
    <3> TAKE d \in Thread
    <3>1. CASE connecting'[d].pc \in Calling
      <4>1. connecting'[d] = connecting[d] /\ CallInv(d)
        BY <1>3, <2>1, <3>1
      <4>2. making' = making /\ reached' = reached /\ called' = called
        OBVIOUS
      <4> DEFINE k == connecting[d]
      <4>3. /\ k.n \in making
            /\ k.pc \in {"authorize", "execute"} => k.n \notin DOMAIN reached /\ ~k.ok /\ ~k.denied /\ C!Precheck(k.i, k.q, TRUE)
            /\ k.pc = "execute" => k.allowed
            /\ k.pc = "record" <=> k.n \in DOMAIN called
            /\ k.denied => k.n \notin DOMAIN reached /\ ~k.ok
            /\ k.ok => k.allowed
            /\ IF k.trial THEN k.q = C!TestRequest(k.i) ELSE k.q \in Asked[k.i]
        BY <3>1, <4>1 DEF CallInv
      <4> QED
        BY <4>1, <4>2, <4>3 DEF CallInv
    <3>2. CASE connecting'[d].pc \notin Calling
      BY <3>2 DEF CallInv
    <3> QED
      BY <3>1, <3>2
<1>7. C!CallsAreOnRecord' /\ C!ReachesWhatIsAllowed'
  BY <1>4 DEF ConnectorsInv, BookInv, C!CallsAreOnRecord, C!ReachesWhatIsAllowed
<1>8. ASSUME NEW d \in Thread, NEW e \in Thread, d # e, connecting'[d].pc \in Calling, connecting'[e].pc \in Calling
      PROVE  connecting'[d].n # connecting'[e].n
  <2>1. connecting'[d] = connecting[d] /\ connecting'[e] = connecting[e]
    BY <1>3, <1>8
  <2> QED
    BY <1>8, <2>1 DEF ConnectorsInv, BookInv
<1>9. BookInv'
  BY <1>5, <1>6, <1>7, <1>8 DEF ConnectorsInv, BookInv
<1> QED
  BY <1>1, <1>2, <1>9

LEMMA ConnectorsTypes ==
  ASSUME ConnectorsAssumption, ConnectorsInv
  PROVE  /\ registry \in [Process -> [Connector -> C!States]] /\ row \in [Connector -> C!States]
         /\ connecting \in [Thread -> Hand] /\ requests \in 0..MaxRequests /\ MaxRequests \in Nat /\ Home \in [Thread -> Process]
         /\ apart \subseteq Process
BY ConnectorsAssumption DEF ConnectorsInv, C!TypeOK, HandInv

\* One more request is counted.
LEMMA OneMore ==
  ASSUME ConnectorsAssumption, ConnectorsInv, requests < MaxRequests, requests' = requests + 1
  PROVE  requests' \in 0..MaxRequests
BY ConnectorsTypes, NextNumber

LEMMA ConnectorsSwitch ==
  ASSUME ConnectorsAssumption, ConnectorsInv, NEW c \in Thread, NEW i \in Connector, NEW on \in {"on", "off"}, C!Switch(c, i, on)
  PROVE  ConnectorsInv'
<1> DEFINE r == [pc |-> "register", i |-> i, on |-> on]
           h == Home[c]
<1>1. /\ connecting[c].pc = "free" /\ requests < MaxRequests /\ requests' = requests + 1
      /\ registry' = [registry EXCEPT ![h][i] = on] /\ connecting' = [connecting EXCEPT ![c] = r]
      /\ UNCHANGED <<row, called, onTrail, reached, making, dropped, apart>>
  BY DEF C!Switch
<1>2. r \in Hand /\ r.pc = "register" /\ r.i = i /\ r.pc \notin Calling /\ r.pc \in Altering
  BY DEF Hand, Calling, Altering
<1> HIDE DEF r
<1>3. /\ HandInv' /\ BookInv' /\ connecting'[c] = r /\ \A d \in Thread \ {c} : connecting'[d] = connecting[d]
      /\ \A d \in Thread : connecting'[d].pc \in {"free", "authorize", "execute", "finish", "record", "register", "sync", "assign"}
  BY <1>1, <1>2, CallsStay DEF Calling
<1>4. C!TypeOK'
  <2>1. registry' \in [Process -> [Connector -> C!States]]
    BY <1>1, ConnectorsTypes DEF C!States
  <2> QED
    BY <1>1, <1>3, <2>1, OneMore DEF ConnectorsInv, C!TypeOK
<1>5. MemoryInv'
  <2>1. \A q \in Process, j \in Connector : q # h \/ j # i => registry'[q][j] = registry[q][j]
    BY <1>1, ConnectorsTypes
  <2>2. \A q \in Process : q # h => /\ \A d \in Thread : Alters(d, q)' <=> Alters(d, q)
                                    /\ \A j \in Connector : Agrees(q, j)' <=> Agrees(q, j)
                                    /\ \A d \in Thread : Alters(d, q) => connecting'[d] = connecting[d]
    BY <1>1, <1>3, <2>1 DEF Alters, Agrees
  <2>3. \A d \in Thread \ {c} : Alters(d, h)' <=> Alters(d, h)
    BY <1>3 DEF Alters
  <2>4. Alters(c, h)' /\ ~Alters(c, h)
    BY <1>1, <1>2, <1>3 DEF Alters, Altering
  <2>5. \A j \in Connector \ {i} : Agrees(h, j) => Agrees(h, j)'
    BY <1>1, <2>1, ConnectorsTypes DEF Agrees
  <2> SUFFICES ASSUME NEW q \in Process \ apart'
               PROVE  /\ (\A d \in Thread : ~Alters(d, q)') => \A j \in Connector : Agrees(q, j)'
                      /\ \A d \in Thread : Alters(d, q)' /\ (\A e \in Thread \ {d} : ~Alters(e, q)') =>
                           /\ connecting'[d].pc = "register" => \A j \in Connector \ {connecting'[d].i} : Agrees(q, j)'
                           /\ connecting'[d].pc = "assign" => connecting'[d].found = row'
    BY DEF MemoryInv
  <2>6. CASE q # h
    <3>1. row' = row /\ q \in Process \ apart
      BY <1>1
    <3> QED
      BY <2>2, <2>6, <3>1 DEF ConnectorsInv, MemoryInv
  <2>7. CASE q = h
    <3>1. \A j \in Connector \ {i} : (\A d \in Thread : ~Alters(d, h)) => Agrees(h, j)'
      BY <1>1, <2>5, <2>7 DEF ConnectorsInv, MemoryInv
    <3>2. ASSUME NEW d \in Thread, Alters(d, q)', \A e \in Thread \ {d} : ~Alters(e, q)'
          PROVE  d = c /\ \A e \in Thread : ~Alters(e, h)
      BY <2>3, <2>4, <2>7, <3>2
    <3> QED
      BY <1>2, <1>3, <2>4, <2>7, <3>1, <3>2
  <2> QED
    BY <2>6, <2>7
<1> QED
  BY <1>3, <1>4, <1>5 DEF ConnectorsInv

\* Another process, or a thread of this one, is in the middle of a change.
LEMMA OutrunNow ==
  ASSUME ConnectorsAssumption, NEW c \in Thread, NEW q \in Process,
         q \notin C!Others(Home[c]) \cup (IF C!Busy(c, C!Altering) THEN {Home[c]} ELSE {})
  PROVE  q = Home[c] /\ \A d \in Thread \ {c} : ~Alters(d, q)
BY ConnectorsAssumption DEF C!Others, C!Busy, Alters, Altering, C!Altering

LEMMA ConnectorsRegister ==
  ASSUME ConnectorsAssumption, ConnectorsInv, NEW c \in Thread, C!Register(c)
  PROVE  ConnectorsInv'
<1> DEFINE k == connecting[c]
           h == Home[c]
<1>1. /\ k.pc = "register" /\ row' = [row EXCEPT ![k.i] = k.on] /\ registry' = [registry EXCEPT ![h][k.i] = k.on]
      /\ apart' = apart \cup C!Others(h) \cup (IF C!Busy(c, C!Altering) THEN {h} ELSE {})
      /\ connecting' = [connecting EXCEPT ![c] = C!Free]
      /\ UNCHANGED <<called, onTrail, reached, making, dropped, requests>>
  BY DEF C!Register
<1>2. /\ C!Free \in Hand /\ C!Free.pc = "free" /\ C!Free.pc \notin Calling \cup Altering /\ k.pc \notin Calling
      /\ k.i \in Connector /\ k.on \in {"on", "off"} /\ h \in Process
  BY <1>1, HandKinds, ConnectorsTypes DEF Hand, C!Free, Calling, Altering
<1>3. /\ HandInv' /\ BookInv' /\ connecting'[c] = C!Free /\ \A d \in Thread \ {c} : connecting'[d] = connecting[d]
      /\ \A d \in Thread : connecting'[d].pc \in {"free", "authorize", "execute", "finish", "record", "register", "sync", "assign"}
  BY <1>1, <1>2, CallsStay
<1>4. C!TypeOK'
  <2>1. registry' \in [Process -> [Connector -> C!States]] /\ row' \in [Connector -> C!States]
    BY <1>1, <1>2, ConnectorsTypes DEF C!States
  <2>2. apart' \subseteq Process
    BY <1>1, <1>2, ConnectorsTypes DEF C!Others
  <2> QED
    BY <1>1, <1>3, <2>1, <2>2 DEF ConnectorsInv, C!TypeOK
<1>5. MemoryInv'
  <2> SUFFICES ASSUME NEW q \in Process \ apart'
               PROVE  /\ (\A d \in Thread : ~Alters(d, q)') /\ \A j \in Connector : Agrees(q, j)'
    BY DEF MemoryInv
  <2>1. q \in Process \ apart /\ q = h /\ \A d \in Thread \ {c} : ~Alters(d, q)
    BY <1>1, OutrunNow
  <2>2. \A d \in Thread : ~Alters(d, q)'
    BY <1>2, <1>3, <2>1 DEF Alters
  <2>3. Alters(c, q)
    BY <1>1, <2>1 DEF Alters, Altering
  <2>4. \A j \in Connector \ {k.i} : Agrees(q, j)
    BY <1>1, <2>1, <2>3 DEF ConnectorsInv, MemoryInv
  <2>5. \A j \in Connector : Agrees(q, j)'
    BY <1>1, <1>2, <2>1, <2>4, ConnectorsTypes DEF Agrees
  <2> QED
    BY <2>2, <2>5
<1> QED
  BY <1>3, <1>4, <1>5 DEF ConnectorsInv

\* A sync goes on and nothing is changed: it begins, or it reads the table.
LEMMA SyncGoesOn ==
  ASSUME ConnectorsAssumption, ConnectorsInv, NEW c \in Thread, connecting[c].pc \in {"free", "sync"},
         NEW r \in Hand, r.pc \in {"sync", "assign"}, r.pc = "assign" => r.found = row,
         connecting' = [connecting EXCEPT ![c] = r],
         requests' = requests \/ (requests < MaxRequests /\ requests' = requests + 1),
         UNCHANGED <<row, registry, called, onTrail, reached, making, dropped, apart>>
  PROVE  ConnectorsInv'
<1> DEFINE h == Home[c]
<1>1. r.pc \notin Calling /\ r.pc \in Altering /\ connecting[c].pc \notin Calling /\ r.pc # "register"
  BY DEF Calling, Altering
<1>2. /\ HandInv' /\ BookInv' /\ connecting'[c] = r /\ \A d \in Thread \ {c} : connecting'[d] = connecting[d]
      /\ \A d \in Thread : connecting'[d].pc \in {"free", "authorize", "execute", "finish", "record", "register", "sync", "assign"}
  <2>1. requests' = requests \/ requests' = requests + 1
    OBVIOUS
  <2> QED
    BY <1>1, <2>1, CallsStay
<1>3. C!TypeOK'
  <2>1. requests' \in 0..MaxRequests
    BY OneMore, ConnectorsTypes
  <2> QED
    BY <1>2, <2>1 DEF ConnectorsInv, C!TypeOK
<1>4. MemoryInv'
  <2> SUFFICES ASSUME NEW q \in Process \ apart'
               PROVE  /\ (\A d \in Thread : ~Alters(d, q)') => \A j \in Connector : Agrees(q, j)'
                      /\ \A d \in Thread : Alters(d, q)' /\ (\A e \in Thread \ {d} : ~Alters(e, q)') =>
                           /\ connecting'[d].pc = "register" => \A j \in Connector \ {connecting'[d].i} : Agrees(q, j)'
                           /\ connecting'[d].pc = "assign" => connecting'[d].found = row'
    BY DEF MemoryInv
  <2>1. q \in Process \ apart /\ row' = row
    OBVIOUS
  <2>2. CASE q = h
    <3>1. Alters(c, q)'
      BY <1>1, <1>2, <2>2 DEF Alters
    <3>2. \A d \in Thread : (\A e \in Thread \ {d} : ~Alters(e, q)') => d = c
      BY <3>1
    <3> QED
      BY <1>1, <1>2, <2>1, <3>1, <3>2
  <2>3. CASE q # h
    <3>1. /\ \A d \in Thread : Alters(d, q)' <=> Alters(d, q)
          /\ \A d \in Thread : Alters(d, q) => connecting'[d] = connecting[d]
      BY <1>2, <2>3 DEF Alters
    <3>2. \A j \in Connector : Agrees(q, j)' <=> Agrees(q, j)
      BY DEF Agrees
    <3> QED
      BY <2>1, <3>1, <3>2 DEF ConnectorsInv, MemoryInv
  <2> QED
    BY <2>2, <2>3
<1> QED
  BY <1>2, <1>3, <1>4 DEF ConnectorsInv

LEMMA ConnectorsSync ==
  ASSUME ConnectorsAssumption, ConnectorsInv, NEW c \in Thread, C!Sync(c)
  PROVE  ConnectorsInv'
<1> DEFINE all == {i \in Connector : Declaration[i].declared}
           r == [pc |-> "sync", left |-> all]
<1>1. all \subseteq Connector
  OBVIOUS
<1> HIDE DEF all
<1>2. r \in Hand /\ r.pc = "sync"
  BY <1>1 DEF Hand
<1>3. /\ connecting[c].pc = "free" /\ requests < MaxRequests /\ requests' = requests + 1
      /\ connecting' = [connecting EXCEPT ![c] = r]
      /\ UNCHANGED <<row, registry, called, onTrail, reached, making, dropped, apart>>
  BY DEF C!Sync, all
<1> HIDE DEF r
<1> QED
  BY <1>2, <1>3, SyncGoesOn

LEMMA ConnectorsReadTable ==
  ASSUME ConnectorsAssumption, ConnectorsInv, NEW c \in Thread, C!ReadTable(c)
  PROVE  ConnectorsInv'
<1> DEFINE r == [pc |-> "assign", found |-> row]
<1>1. r \in Hand /\ r.pc = "assign" /\ r.found = row
  BY ConnectorsTypes DEF Hand
<1>2. /\ connecting[c].pc = "sync" /\ requests' = requests /\ connecting' = [connecting EXCEPT ![c] = r]
      /\ UNCHANGED <<row, registry, called, onTrail, reached, making, dropped, apart>>
  BY DEF C!ReadTable
<1> HIDE DEF r
<1> QED
  BY <1>1, <1>2, SyncGoesOn

LEMMA ConnectorsSaveDeclared ==
  ASSUME ConnectorsAssumption, ConnectorsInv, NEW c \in Thread, C!SaveDeclared(c)
  PROVE  ConnectorsInv'
<1> DEFINE k == connecting[c]
           h == Home[c]
<1>1. PICK i \in k.left : /\ row' = [row EXCEPT ![i] = "on"]
                         /\ connecting' = [connecting EXCEPT ![c] = [pc |-> "sync", left |-> @.left \ {i}]]
  BY DEF C!SaveDeclared
<1> DEFINE r == [pc |-> "sync", left |-> k.left \ {i}]
<1>2. /\ k.pc = "sync" /\ connecting \in [Thread -> Hand]
      /\ apart' = apart \cup C!Others(h) \cup (IF C!Busy(c, C!Altering) THEN {h} ELSE {})
      /\ UNCHANGED <<registry, called, onTrail, reached, making, dropped, requests>>
  BY ConnectorsTypes DEF C!SaveDeclared
<1>3. connecting' = [connecting EXCEPT ![c] = r]
  BY <1>1, <1>2
<1>4. k.left \subseteq Connector /\ i \in Connector /\ h \in Process /\ k.pc \notin Calling
  BY <1>1, <1>2, HandKinds, ConnectorsTypes DEF Calling
<1>5. r \in Hand /\ r.pc = "sync" /\ r.pc \notin Calling /\ r.pc \in Altering
  BY <1>4 DEF Hand, Calling, Altering
<1> HIDE DEF r
<1>6. /\ HandInv' /\ BookInv' /\ connecting'[c] = r /\ \A d \in Thread \ {c} : connecting'[d] = connecting[d]
      /\ \A d \in Thread : connecting'[d].pc \in {"free", "authorize", "execute", "finish", "record", "register", "sync", "assign"}
  BY <1>2, <1>3, <1>4, <1>5, CallsStay
<1>7. C!TypeOK'
  <2>1. row' \in [Connector -> C!States]
    BY <1>1, <1>4, ConnectorsTypes DEF C!States
  <2>2. apart' \subseteq Process
    BY <1>2, <1>4, ConnectorsTypes DEF C!Others
  <2> QED
    BY <1>2, <1>6, <2>1, <2>2 DEF ConnectorsInv, C!TypeOK
<1>8. MemoryInv'
  <2> SUFFICES ASSUME NEW q \in Process \ apart'
               PROVE  Alters(c, q)' /\ \A d \in Thread \ {c} : ~Alters(d, q)'
    BY <1>5, <1>6 DEF MemoryInv
  <2>1. q = h /\ \A d \in Thread \ {c} : ~Alters(d, q)
    BY <1>2, OutrunNow
  <2> QED
    BY <1>5, <1>6, <2>1 DEF Alters
<1> QED
  BY <1>6, <1>7, <1>8 DEF ConnectorsInv

LEMMA ConnectorsLoad ==
  ASSUME ConnectorsAssumption, ConnectorsInv, NEW c \in Thread, C!Load(c)
  PROVE  ConnectorsInv'
<1> DEFINE k == connecting[c]
           h == Home[c]
<1>1. /\ k.pc = "assign" /\ registry' = [registry EXCEPT ![h] = k.found]
      /\ apart' = IF C!Busy(c, C!Altering) THEN apart \cup {h} ELSE apart
      /\ connecting' = [connecting EXCEPT ![c] = C!Free]
      /\ UNCHANGED <<row, called, onTrail, reached, making, dropped, requests>>
  BY DEF C!Load
<1>2. /\ C!Free \in Hand /\ C!Free.pc = "free" /\ C!Free.pc \notin Calling \cup Altering /\ k.pc \notin Calling
      /\ k.found \in [Connector -> C!States] /\ h \in Process
  BY <1>1, HandKinds, ConnectorsTypes DEF Hand, C!Free, Calling, Altering
<1>3. /\ HandInv' /\ BookInv' /\ connecting'[c] = C!Free /\ \A d \in Thread \ {c} : connecting'[d] = connecting[d]
      /\ \A d \in Thread : connecting'[d].pc \in {"free", "authorize", "execute", "finish", "record", "register", "sync", "assign"}
  BY <1>1, <1>2, CallsStay
<1>4. C!TypeOK'
  <2>1. registry' \in [Process -> [Connector -> C!States]]
    BY <1>1, <1>2, ConnectorsTypes
  <2>2. apart' \subseteq Process
    BY <1>1, <1>2, ConnectorsTypes
  <2> QED
    BY <1>1, <1>3, <2>1, <2>2 DEF ConnectorsInv, C!TypeOK
<1>5. MemoryInv'
  <2> SUFFICES ASSUME NEW q \in Process \ apart'
               PROVE  /\ (\A d \in Thread : ~Alters(d, q)') => \A j \in Connector : Agrees(q, j)'
                      /\ \A d \in Thread : Alters(d, q)' /\ (\A e \in Thread \ {d} : ~Alters(e, q)') =>
                           /\ connecting'[d].pc = "register" => \A j \in Connector \ {connecting'[d].i} : Agrees(q, j)'
                           /\ connecting'[d].pc = "assign" => connecting'[d].found = row'
    BY DEF MemoryInv
  <2>1. q \in Process \ apart
    BY <1>1
  <2>2. CASE q = h
    <3>1. \A d \in Thread \ {c} : ~Alters(d, q)
      BY <1>1, <2>2 DEF C!Busy, Alters, Altering, C!Altering
    <3>2. \A d \in Thread : ~Alters(d, q)'
      BY <1>2, <1>3, <3>1 DEF Alters
    <3>3. Alters(c, q) /\ k.found = row
      BY <1>1, <2>1, <2>2, <3>1 DEF Alters, Altering, ConnectorsInv, MemoryInv
    <3>4. \A j \in Connector : Agrees(q, j)'
      BY <1>1, <2>2, <3>3, ConnectorsTypes DEF Agrees
    <3> QED
      BY <3>2, <3>4
  <2>3. CASE q # h
    <3>1. /\ \A d \in Thread : Alters(d, q)' <=> Alters(d, q)
          /\ \A d \in Thread : Alters(d, q) => connecting'[d] = connecting[d]
      BY <1>2, <1>3, <2>3 DEF Alters
    <3>2. \A j \in Connector : Agrees(q, j)' <=> Agrees(q, j)
      BY <1>1, <2>3, ConnectorsTypes DEF Agrees
    <3> QED
      BY <1>1, <2>1, <3>1, <3>2 DEF ConnectorsInv, MemoryInv
  <2> QED
    BY <2>2, <2>3
<1> QED
  BY <1>3, <1>4, <1>5 DEF ConnectorsInv

LEMMA ConnectorsRestart ==
  ASSUME ConnectorsAssumption, ConnectorsInv, NEW p \in Process, C!Restart(p)
  PROVE  ConnectorsInv'
<1> DEFINE here == {c \in Thread : Home[c] = p}
<1>1. /\ requests < MaxRequests /\ requests' = requests + 1
      /\ dropped' = dropped \cup {connecting[c].n : c \in {d \in here : connecting[d].pc \notin ({"free"} \cup C!Altering)}}
      /\ connecting' = [c \in Thread |-> IF c \in here THEN C!Free ELSE connecting[c]]
      /\ registry' = [registry EXCEPT ![p] = row] /\ apart' = apart \ {p}
      /\ UNCHANGED <<row, called, onTrail, reached, making>>
  BY DEF C!Restart
<1>2. C!Free \in Hand /\ C!Free.pc = "free" /\ C!Free.pc \notin Calling \cup Altering
  BY DEF Hand, C!Free, Calling, Altering
<1>3. \A c \in here : connecting'[c] = C!Free
  BY <1>1
<1>4. \A c \in Thread \ here : connecting'[c] = connecting[c]
  BY <1>1
<1>5. HandInv'
  BY <1>1, <1>2, ConnectorsTypes DEF HandInv
<1>6. \A c \in Thread : connecting[c].pc \in {"free", "authorize", "execute", "finish", "record", "register", "sync", "assign"}
  BY DEF ConnectorsInv, C!TypeOK
<1>7. \A c \in Thread : connecting'[c].pc \in Calling \cup Altering => connecting'[c] = connecting[c] /\ c \notin here
  BY <1>2, <1>3, <1>4
<1>8. making \cup dropped' \subseteq 1..requests
  <2>1. \A c \in here : connecting[c].pc \notin ({"free"} \cup C!Altering) => connecting[c].n \in making
    <3>1. \A c \in Thread : CallInv(c)
      BY DEF ConnectorsInv, BookInv
    <3> QED
      BY <1>6, <3>1 DEF CallInv, Calling, C!Altering
  <2>2. making \cup dropped \subseteq 1..requests
    BY DEF ConnectorsInv, BookInv
  <2> QED
    BY <1>1, <2>1, <2>2
<1>9. 1..requests \subseteq 1..requests' /\ 1..requests' \subseteq 1..MaxRequests
  <2>1. requests' \in 0..MaxRequests /\ MaxRequests \in Nat /\ 1..requests \subseteq 1..requests'
    BY <1>1, ConnectorsTypes, NextNumber
  <2> QED
    BY <2>1, NumbersUpTo
<1>10. C!TypeOK'
  <2>1. registry' \in [Process -> [Connector -> C!States]]
    BY <1>1, ConnectorsTypes
  <2>2. \A c \in Thread : connecting'[c].pc \in {"free", "authorize", "execute", "finish", "record", "register", "sync", "assign"}
    BY <1>2, <1>3, <1>4, <1>6
  <2>3. making' \cup dropped' \subseteq C!Calls
    BY <1>1, <1>8, <1>9 DEF C!Calls
  <2> QED
    BY <1>1, <2>1, <2>2, <2>3, OneMore DEF ConnectorsInv, C!TypeOK
<1>11. BookInv'
  <2>1. making' \cup dropped' \subseteq 1..requests'
    BY <1>1, <1>8, <1>9
  <2>2. \A c \in Thread : CallInv(c)'
    <3>1. \A c \in Thread : CallInv(c)
      BY DEF ConnectorsInv, BookInv
    <3> QED
      BY <1>1, <1>7, <3>1 DEF CallInv
  <2>3. ASSUME NEW d \in Thread, NEW e \in Thread, d # e, connecting'[d].pc \in Calling, connecting'[e].pc \in Calling
        PROVE  connecting'[d].n # connecting'[e].n
    <3>1. connecting'[d] = connecting[d] /\ connecting'[e] = connecting[e]
      BY <1>7, <2>3
    <3> QED
      BY <2>3, <3>1 DEF ConnectorsInv, BookInv
  <2>4. C!InHand \subseteq C!InHand' \cup dropped'
    <3> SUFFICES ASSUME NEW c \in Thread, connecting[c].pc \in {"authorize", "execute", "finish", "record"}
                 PROVE  connecting[c].n \in C!InHand' \cup dropped'
      BY DEF C!InHand
    <3>1. CASE c \in here
      <4>1. connecting[c].pc \notin {"free"} \cup C!Altering
        BY DEF C!Altering
      <4> QED
        BY <1>1, <3>1, <4>1
    <3>2. CASE c \notin here
      BY <1>4, <3>2 DEF C!InHand
    <3> QED
      BY <3>1, <3>2
  <2>5. C!CallsAreOnRecord'
    BY <1>1, <2>4 DEF ConnectorsInv, BookInv, C!CallsAreOnRecord
  <2> QED
    BY <1>1, <2>1, <2>2, <2>3, <2>5 DEF ConnectorsInv, BookInv, C!ReachesWhatIsAllowed
<1>12. MemoryInv'
  <2> SUFFICES ASSUME NEW q \in Process \ apart'
               PROVE  /\ (\A d \in Thread : ~Alters(d, q)') => \A j \in Connector : Agrees(q, j)'
                      /\ \A d \in Thread : Alters(d, q)' /\ (\A e \in Thread \ {d} : ~Alters(e, q)') =>
                           /\ connecting'[d].pc = "register" => \A j \in Connector \ {connecting'[d].i} : Agrees(q, j)'
                           /\ connecting'[d].pc = "assign" => connecting'[d].found = row'
    BY DEF MemoryInv
  <2>1. CASE q = p
    <3>1. \A d \in Thread : ~Alters(d, q)'
      BY <1>2, <1>3, <2>1 DEF Alters
    <3>2. \A j \in Connector : Agrees(q, j)'
      BY <1>1, <2>1, ConnectorsTypes DEF Agrees
    <3> QED
      BY <3>1, <3>2
  <2>2. CASE q # p
    <3>1. /\ \A d \in Thread : Alters(d, q)' <=> Alters(d, q)
          /\ \A d \in Thread : Alters(d, q) => connecting'[d] = connecting[d]
      BY <1>4, <2>2, <1>3, <1>2 DEF Alters
    <3>2. \A j \in Connector : Agrees(q, j)' <=> Agrees(q, j)
      BY <1>1, <2>2, ConnectorsTypes DEF Agrees
    <3>3. q \in Process \ apart
      BY <1>1, <2>2
    <3> QED
      BY <1>1, <3>1, <3>2, <3>3 DEF ConnectorsInv, MemoryInv
  <2> QED
    BY <2>1, <2>2
<1> QED
  BY <1>5, <1>10, <1>11, <1>12 DEF ConnectorsInv

LEMMA ConnectorsInitially == ASSUME ConnectorsAssumption, C!Init PROVE ConnectorsInv
<1>1. /\ row \in [Connector -> C!States] /\ registry = [p \in Process |-> row] /\ connecting = [c \in Thread |-> C!Free]
      /\ DOMAIN called = {} /\ DOMAIN reached = {} /\ onTrail = {} /\ making = {} /\ dropped = {} /\ apart = {}
      /\ requests = 0 /\ MaxRequests \in Nat
  <2>1. DOMAIN <<>> = {}
    <3>1. <<>> \in Seq({}) /\ Len(<<>>) = 0
      OBVIOUS
    <3> QED
      BY <3>1
  <2> QED
    BY <2>1, ConnectorsAssumption DEF C!Init
<1>2. C!Free \in Hand /\ C!Free.pc = "free" /\ C!Free.pc \notin Calling \cup Altering
  BY DEF Hand, C!Free, Calling, Altering
<1>3. \A c \in Thread : connecting[c] = C!Free
  BY <1>1
<1>4. HandInv
  BY <1>1, <1>2 DEF HandInv
<1>5. C!TypeOK
  <2>1. registry \in [Process -> [Connector -> C!States]]
    BY <1>1
  <2>3. requests \in 0..MaxRequests
    BY <1>1
  <2>2. \A c \in Thread : connecting[c].pc = "free"
    BY <1>2, <1>3
  <2> QED
    BY <1>1, <2>1, <2>2, <2>3 DEF C!TypeOK
<1>6. BookInv
  BY <1>1, <1>2, <1>3 DEF BookInv, CallInv, C!CallsAreOnRecord, C!ReachesWhatIsAllowed
<1>7. MemoryInv
  BY <1>1, <1>2, <1>3 DEF MemoryInv, Alters, Agrees
<1> QED
  BY <1>4, <1>5, <1>6, <1>7 DEF ConnectorsInv

LEMMA ConnectorsSteps ==
  ASSUME ConnectorsAssumption, ConnectorsInv, [C!Next]_C!vars
  PROVE  ConnectorsInv'
<1>1. CASE UNCHANGED C!vars
  <2>1. UNCHANGED <<row, registry, connecting, called, onTrail, reached, making, dropped, apart, requests>>
    BY <1>1 DEF C!vars
  <2>2. C!TypeOK' /\ HandInv'
    BY <2>1 DEF ConnectorsInv, C!TypeOK, HandInv
  <2>3. C!CallsAreOnRecord' /\ C!ReachesWhatIsAllowed'
    BY <2>1 DEF ConnectorsInv, BookInv, C!CallsAreOnRecord, C!ReachesWhatIsAllowed, C!InHand
  <2>4. \A c \in Thread : CallInv(c)'
    BY <2>1 DEF ConnectorsInv, BookInv, CallInv
  <2>5. BookInv'
    BY <2>1, <2>3, <2>4 DEF ConnectorsInv, BookInv
  <2>6. MemoryInv'
    BY <2>1 DEF ConnectorsInv, MemoryInv, Agrees, Alters
  <2> QED
    BY <2>2, <2>5, <2>6 DEF ConnectorsInv
<1>2. ASSUME NEW c \in Thread, C!Authorize(c) \/ C!Execute(c) \/ C!Finish(c) \/ C!Record(c) \/ C!Register(c) \/ C!Load(c)
      PROVE  ConnectorsInv'
  BY <1>2, ConnectorsAuthorize, ConnectorsExecute, ConnectorsFinish, ConnectorsRecord, ConnectorsRegister, ConnectorsLoad
<1>3. ASSUME NEW c \in Thread, NEW i \in Connector, NEW q \in Asked[i], C!Begin(c, i, q, FALSE)
      PROVE  ConnectorsInv'
  <2>1. q \in Queries
    BY DEF Queries
  <2> QED
    BY <1>3, <2>1, ConnectorsBegin
<1>4. ASSUME NEW c \in Thread, NEW i \in Connector, C!Test(c, i)
      PROVE  ConnectorsInv'
  <2>1. C!Begin(c, i, C!TestRequest(i), TRUE)
    BY <1>4 DEF C!Test
  <2>2. C!TestRequest(i) \in Queries
    BY DEF Queries
  <2> QED
    BY <2>1, <2>2, ConnectorsBegin
<1>5. ASSUME NEW c \in Thread, NEW i \in Connector, NEW on \in {"on", "off"}, C!Switch(c, i, on)
      PROVE  ConnectorsInv'
  BY <1>5, ConnectorsSwitch
<1>6. ASSUME NEW c \in Thread, C!Sync(c) \/ C!SaveDeclared(c) \/ C!ReadTable(c)
      PROVE  ConnectorsInv'
  BY <1>6, ConnectorsSync, ConnectorsSaveDeclared, ConnectorsReadTable
<1>7. ASSUME NEW p \in Process, C!Restart(p)
      PROVE  ConnectorsInv'
  BY <1>7, ConnectorsRestart
<1> QED
  BY <1>1, <1>2, <1>3, <1>4, <1>5, <1>6, <1>7 DEF C!Next

LEMMA MemoryIsTrue == ASSUME ConnectorsInv PROVE C!MemoryIsTheTable
BY DEF ConnectorsInv, MemoryInv, C!MemoryIsTheTable, Alters, Agrees, Altering, C!Altering

-----------------------------------------------------------------------------
(* Sandbox: the inductive invariant *)

Modes == Configured \cup {"container", "process"}
Pictures == UNION {[paths -> Nat] : paths \in SUBSET DOMAIN Names}
Running == [at : {"snapshot", "backend", "script", "collect"}, id : 1..MaxScripts, mode : Modes, before : Pictures,
            ran : Modes \cup {"none"}, ok : BOOLEAN, left : SUBSET DOMAIN Names, wrote : SUBSET DOMAIN Names,
            found : SUBSET DOMAIN Names, mixed : BOOLEAN]

Busy(c) == run[c].at # "idle"

\* A run is in the mode that was decided when it began.
ModeInv(c) == Busy(c) => /\ run[c].ran \in {"none", run[c].mode}
                         /\ mode = "container" => run[c].mode = "container"

\* A run nobody has mixed with is alone, and nothing is left of another.
AloneInv(c) == Busy(c) /\ ~run[c].mixed => (\A d \in Caller \ {c} : ~Busy(d)) /\ orphans = {}

\* What differs from the picture is what the script wrote.
WroteInv(c) ==
  Busy(c) /\ ~run[c].mixed =>
    LET k == run[c]
    IN  /\ k.at = "snapshot" => k.wrote = {}
        /\ k.at # "snapshot" => \A p \in DOMAIN k.before : k.before[p] <= clock
        /\ k.at # "snapshot" => \A p \in DOMAIN Names : p \in k.wrote <=> p \in DOMAIN sandbox /\ B!produced(k.before, p)
        /\ \A p \in k.wrote : sandbox[p].by = k.id
        /\ k.at = "backend" => DOMAIN k.before = DOMAIN sandbox /\ \A p \in DOMAIN sandbox : k.before[p] = sandbox[p].stamp

\* The artifact under the name of a path that was collected.
Kept(c, p) ==
  LET k == run[c]
      key == <<TaskOf[c], Names[p]>>
  IN  key \in DOMAIN artifacts /\ artifacts[key].by = k.id /\ artifacts[key].path >= p
        /\ artifacts[key].path \in k.wrote /\ Names[artifacts[key].path] = Names[p]

\* What has been collected so far: of what was written, the paths before those that are left.
CollectInv(c) ==
  Busy(c) =>
    LET k == run[c]
    IN  /\ k.left \subseteq DOMAIN sandbox
        /\ ~k.mixed => /\ k.at # "collect" => k.found = {}
                       /\ k.at = "collect" => /\ \A p \in DOMAIN sandbox \ k.left, q \in k.left : p <= q
                                              /\ k.found = k.wrote \ k.left
                                              /\ \A p \in k.wrote \ k.left : Kept(c, p)

RunsInv == /\ run \in [Caller -> {B!Idle} \cup Running] /\ \A c \in Caller : Busy(c) => run[c].id <= scripts
           /\ DOMAIN result = Caller /\ scripts \in 0..MaxScripts /\ clock \in 0..MaxWrites

SandboxInv == /\ B!TypeOK /\ RunsInv
              /\ \A c \in Caller : ModeInv(c) /\ AloneInv(c) /\ WroteInv(c) /\ CollectInv(c)
              /\ B!CollectsItsOwn

LEMMA RunKinds ==
  ASSUME NEW r \in {B!Idle} \cup Running
  PROVE  r.at \in {"idle", "snapshot", "backend", "script", "collect"} /\ (r.at = "idle" => r = B!Idle) /\ (r.at # "idle" => r \in Running)
<1>1. CASE r = B!Idle
  BY <1>1 DEF B!Idle
<1>2. CASE r \in Running
  BY <1>2 DEF Running
<1> QED
  BY <1>1, <1>2

LEMMA SandboxTypes ==
  ASSUME SandboxAssumption, SandboxInv
  PROVE  /\ run \in [Caller -> {B!Idle} \cup Running] /\ DOMAIN result = Caller /\ scripts \in 0..MaxScripts /\ clock \in 0..MaxWrites
         /\ MaxScripts \in Nat /\ MaxWrites \in Nat /\ DOMAIN sandbox \subseteq DOMAIN Names /\ DOMAIN Names \subseteq Nat
         /\ \A p \in DOMAIN sandbox : sandbox[p].by \in 1..scripts /\ sandbox[p].stamp \in 0..clock
BY SandboxAssumption DEF SandboxInv, RunsInv, B!TypeOK, B!Path

\* While c is at it, whoever else is has been mixed with.
LEMMA OthersAreMixed ==
  ASSUME SandboxInv, NEW c \in Caller, Busy(c), NEW d \in Caller \ {c}, Busy(d)
  PROVE  run[d].mixed
BY DEF SandboxInv, AloneInv

\* c goes on or stops; others that are at it are mixed with and notice nothing.
LEMMA RunGoesOn ==
  ASSUME SandboxAssumption, SandboxInv, NEW c \in Caller, Busy(c), NEW r \in {B!Idle} \cup Running,
         run' = [run EXCEPT ![c] = r], r.at # "idle" => r.id <= scripts,
         UNCHANGED <<mode, scripts>>, clock' \in 0..MaxWrites, DOMAIN sandbox \subseteq DOMAIN sandbox',
         DOMAIN result' = Caller, docker' \in BOOLEAN, DOMAIN sandbox' \subseteq DOMAIN Names,
         \A p \in DOMAIN sandbox' : sandbox'[p].by \in 1..scripts /\ sandbox'[p].stamp \in 0..clock',
         DOMAIN artifacts' \subseteq {TaskOf[d] : d \in Caller} \X B!Range(Names), orphans' \subseteq 1..scripts,
         ModeInv(c)', AloneInv(c)', WroteInv(c)', CollectInv(c)', B!CollectsItsOwn'
  PROVE  SandboxInv'
<1>1. run \in [Caller -> {B!Idle} \cup Running] /\ run'[c] = r /\ \A d \in Caller \ {c} : run'[d] = run[d]
  BY SandboxTypes
<1>2. RunsInv'
  <2>1. run' \in [Caller -> {B!Idle} \cup Running]
    BY <1>1
  <2>2. \A d \in Caller : Busy(d)' => run'[d].id <= scripts
    BY <1>1 DEF Busy, SandboxInv, RunsInv
  <2> QED
    BY <2>1, <2>2, SandboxTypes DEF RunsInv
<1>3. B!TypeOK'
  <2>1. \A d \in Caller : run'[d].at \in {"idle", "snapshot", "backend", "script", "collect"}
    BY <1>2, RunKinds DEF RunsInv
  <2>2. mode' \in Configured
    BY DEF SandboxInv, B!TypeOK
  <2> QED
    BY <2>1, <2>2 DEF B!TypeOK, B!Path
<1>4. ASSUME NEW d \in Caller \ {c}
      PROVE  ModeInv(d)' /\ AloneInv(d)' /\ WroteInv(d)' /\ CollectInv(d)'
  <2>1. run'[d] = run[d] /\ (Busy(d) => run[d].mixed)
    BY <1>1, OthersAreMixed
  <2> QED
    BY <2>1 DEF SandboxInv, ModeInv, AloneInv, WroteInv, CollectInv, Busy
<1> QED
  BY <1>2, <1>3, <1>4 DEF SandboxInv

LEMMA SandboxBegin ==
  ASSUME SandboxAssumption, SandboxInv, NEW c \in Caller, B!Begin(c)
  PROVE  SandboxInv'
<1> DEFINE mixed == B!Active # {} \/ orphans # {}
           r == [at |-> "snapshot", id |-> scripts + 1, mode |-> B!resolved_mode, before |-> <<>>, ran |-> "none",
                 ok |-> FALSE, left |-> {}, wrote |-> {}, found |-> {}, mixed |-> mixed]
<1>1. /\ run[c] = B!Idle /\ scripts < MaxScripts /\ scripts' = scripts + 1
      /\ run' = [d \in Caller |-> IF d = c THEN r ELSE IF d \in B!Active THEN [run[d] EXCEPT !.mixed = TRUE] ELSE run[d]]
      /\ UNCHANGED <<mode, docker, sandbox, artifacts, result, orphans, clock>>
  BY DEF B!Begin
<1>2. /\ \A d \in Caller : d \in B!Active <=> Busy(d)
      /\ ~Busy(c)
  BY <1>1 DEF B!Active, Busy, B!Idle
<1>3. scripts' \in 0..MaxScripts /\ scripts' \in 1..MaxScripts /\ 1..scripts \subseteq 1..scripts' /\ scripts <= scripts'
  BY <1>1, SandboxTypes, NextNumber
<1>4. r \in Running
  <2>1. <<>> \in Pictures
    <3>1. <<>> \in [{} -> Nat]
      <4>1. <<>> \in Seq({}) /\ Len(<<>>) = 0
        OBVIOUS
      <4>2. DOMAIN <<>> = {}
        BY <4>1
      <4> QED
        BY <4>2
    <3> QED
      BY <3>1 DEF Pictures
  <2>2. B!resolved_mode \in Modes
    BY DEF B!resolved_mode, Modes, SandboxInv, B!TypeOK
  <2>3. mixed \in BOOLEAN
    OBVIOUS
  <2>4. scripts + 1 \in 1..MaxScripts
    BY <1>1, <1>3
  <2> HIDE DEF mixed
  <2> QED
    BY <2>1, <2>2, <2>3, <2>4 DEF Running
<1>5. /\ run'[c] = r /\ r.at = "snapshot" /\ r.mode = B!resolved_mode /\ r.ran = "none" /\ r.left = {} /\ r.wrote = {}
      /\ r.found = {} /\ r.id = scripts' /\ (r.mixed <=> mixed)
  BY <1>1
<1> HIDE DEF r, mixed
<1>6. ASSUME NEW d \in Caller \ {c}, Busy(d)
      PROVE  /\ run'[d] \in Running /\ run'[d].mixed /\ run'[d].id = run[d].id /\ run'[d].ran = run[d].ran
             /\ run'[d].mode = run[d].mode /\ run'[d].left = run[d].left
  <2>1. run[d] \in Running
    BY <1>6, SandboxTypes, RunKinds DEF Busy
  <2>2. run'[d] = [run[d] EXCEPT !.mixed = TRUE]
    BY <1>1, <1>2, <1>6
  <2> QED
    BY <2>1, <2>2 DEF Running
<1>7. \A d \in Caller \ {c} : ~Busy(d) => run'[d] = run[d]
  BY <1>1, <1>2
<1>8. \A d \in Caller \ {c} : Busy(d)' => Busy(d)
  BY <1>7 DEF Busy
<1>9. RunsInv'
  <2>1. run' \in [Caller -> {B!Idle} \cup Running]
    BY <1>1, <1>4, <1>5, <1>6, <1>7, SandboxTypes
  <2>2. ASSUME NEW d \in Caller, Busy(d)' PROVE run'[d].id <= scripts'
    <3>1. CASE d = c
      BY <1>3, <1>5, <3>1
    <3>2. CASE d # c
      <4>1. run'[d].id = run[d].id /\ run[d].id <= scripts /\ run[d].id \in Int
        <5>1. Busy(d)
          BY <1>8, <2>2, <3>2
        <5>2. run[d] \in Running
          BY <5>1, SandboxTypes, RunKinds DEF Busy
        <5>3. run[d].id \in Int
          BY <5>2, SandboxTypes DEF Running
        <5> QED
          BY <1>6, <3>2, <5>1, <5>3 DEF SandboxInv, RunsInv
      <4> QED
        BY <1>1, <4>1, SandboxTypes
    <3> QED
      BY <3>1, <3>2
  <2> QED
    BY <1>1, <1>3, <2>1, <2>2, SandboxTypes DEF RunsInv
<1>10. B!TypeOK'
  <2>1. \A d \in Caller : run'[d].at \in {"idle", "snapshot", "backend", "script", "collect"}
    BY <1>9, RunKinds DEF RunsInv
  <2> QED
    BY <1>1, <1>3, <2>1 DEF SandboxInv, B!TypeOK
<1>11. ModeInv(c)' /\ AloneInv(c)' /\ WroteInv(c)' /\ CollectInv(c)'
  <2>1. mode = "container" => B!resolved_mode = "container"
    BY DEF B!resolved_mode
  <2>2. ~mixed => orphans = {} /\ \A d \in Caller : ~Busy(d)
    BY <1>2 DEF mixed
  <2>3. ModeInv(c)'
    BY <1>1, <1>5, <2>1 DEF ModeInv
  <2>4. AloneInv(c)'
    BY <1>1, <1>5, <1>8, <2>2 DEF AloneInv
  <2>5. WroteInv(c)' /\ CollectInv(c)'
    BY <1>5 DEF WroteInv, CollectInv
  <2> QED
    BY <2>3, <2>4, <2>5
<1>12. ASSUME NEW d \in Caller \ {c}
       PROVE  ModeInv(d)' /\ AloneInv(d)' /\ WroteInv(d)' /\ CollectInv(d)'
  <2>1. CASE ~Busy(d)'
    BY <2>1 DEF ModeInv, AloneInv, WroteInv, CollectInv
  <2>2. CASE Busy(d)'
    BY <1>1, <1>6, <1>8, <2>2 DEF SandboxInv, ModeInv, AloneInv, WroteInv, CollectInv
  <2> QED
    BY <2>1, <2>2
<1>13. B!CollectsItsOwn'
  BY <1>1 DEF SandboxInv, B!CollectsItsOwn
<1> QED
  BY <1>9, <1>10, <1>11, <1>12, <1>13 DEF SandboxInv

LEMMA SandboxSnapshot ==
  ASSUME SandboxAssumption, SandboxInv, NEW c \in Caller, B!Snapshot(c)
  PROVE  SandboxInv'
<1> DEFINE k == run[c]
<1>1. k.at = "snapshot" /\ UNCHANGED <<mode, docker, sandbox, artifacts, orphans, scripts, clock>>
  BY DEF B!Snapshot
<1>2. Busy(c) /\ k \in Running /\ run \in [Caller -> {B!Idle} \cup Running]
  BY <1>1, SandboxTypes, RunKinds DEF Busy
<1>3. /\ docker \in BOOLEAN /\ orphans \subseteq 1..scripts /\ DOMAIN artifacts \subseteq {TaskOf[d] : d \in Caller} \X B!Range(Names)
  BY DEF SandboxInv, B!TypeOK
<1>4. CASE run' = [run EXCEPT ![c].at = "backend", ![c].before = [p \in DOMAIN sandbox |-> sandbox[p].stamp]] /\ result' = result
  <2> DEFINE picture == [p \in DOMAIN sandbox |-> sandbox[p].stamp]
             r == [k EXCEPT !.at = "backend", !.before = picture]
  <2>1. run' = [run EXCEPT ![c] = r]
    BY <1>2, <1>4
  <2>2. picture \in Pictures
    <3>1. picture \in [DOMAIN sandbox -> Nat]
      BY SandboxTypes
    <3> QED
      BY <3>1, SandboxTypes DEF Pictures
  <2>3. DOMAIN picture = DOMAIN sandbox /\ \A p \in DOMAIN sandbox : picture[p] = sandbox[p].stamp
    OBVIOUS
  <2> HIDE DEF picture
  <2>4. /\ r \in Running /\ r.at = "backend" /\ r.before = picture /\ r.id = k.id /\ r.mode = k.mode /\ r.ran = k.ran
        /\ r.left = k.left /\ r.wrote = k.wrote /\ r.found = k.found /\ r.mixed = k.mixed
    BY <1>2, <2>2 DEF Running
  <2> HIDE DEF r
  <2>5. run'[c] = r /\ \A d \in Caller \ {c} : run'[d] = run[d]
    BY <1>2, <2>1
  <2>6. ModeInv(c)' /\ AloneInv(c)'
    BY <1>1, <1>2, <2>4, <2>5 DEF SandboxInv, ModeInv, AloneInv, Busy
  <2>7. WroteInv(c)'
    <3>1. ~k.mixed => k.wrote = {}
      BY <1>1, <1>2 DEF SandboxInv, WroteInv
    <3>2. \A p \in DOMAIN sandbox : picture[p] <= clock /\ ~B!produced(picture, p)
      BY <2>3, SandboxTypes DEF B!produced
    <3>3. \A p \in DOMAIN sandbox : B!produced(picture, p)' <=> B!produced(picture, p)
      BY <1>1 DEF B!produced, picture
    <3> QED
      BY <1>1, <2>3, <2>4, <2>5, <3>1, <3>2, <3>3 DEF WroteInv, B!produced
  <2>8. CollectInv(c)'
    BY <1>1, <1>2, <2>4, <2>5 DEF SandboxInv, CollectInv
  <2>9. B!CollectsItsOwn'
    BY <1>4 DEF SandboxInv, B!CollectsItsOwn
  <2>10. r.id <= scripts
    BY <1>2, <2>4 DEF SandboxInv, RunsInv
  <2> QED
    BY <1>1, <1>2, <1>3, <1>4, <2>1, <2>4, <2>6, <2>7, <2>8, <2>9, <2>10, RunGoesOn, SandboxTypes
<1>5. CASE run' = [run EXCEPT ![c] = B!Idle] /\ result' = [result EXCEPT ![c] = B!Never]
  <2>1. run'[c] = B!Idle /\ ~Busy(c)' /\ B!Idle.at = "idle"
    BY <1>2, <1>5 DEF Busy, B!Idle
  <2>2. ModeInv(c)' /\ AloneInv(c)' /\ WroteInv(c)' /\ CollectInv(c)'
    BY <2>1 DEF ModeInv, AloneInv, WroteInv, CollectInv
  <2>3. B!CollectsItsOwn'
    <3>1. result'[c].id = 0 /\ \A d \in Caller \ {c} : result'[d] = result[d]
      BY <1>5, SandboxTypes DEF B!Never
    <3> QED
      BY <3>1 DEF SandboxInv, B!CollectsItsOwn
  <2>4. DOMAIN result' = Caller
    BY <1>5, SandboxTypes
  <2> QED
    BY <1>1, <1>2, <1>3, <1>5, <2>1, <2>2, <2>3, <2>4, RunGoesOn, SandboxTypes
<1> QED
  BY <1>4, <1>5 DEF B!Snapshot

LEMMA SandboxBackend ==
  ASSUME SandboxAssumption, SandboxInv, NEW c \in Caller, B!Backend(c)
  PROVE  SandboxInv'
<1> DEFINE k == run[c]
           fails == k.mode = "container" /\ ~docker
           r == [k EXCEPT !.at = IF fails THEN "collect" ELSE "script",
                          !.left = IF fails THEN DOMAIN sandbox ELSE k.left, !.ran = IF fails THEN k.ran ELSE k.mode]
<1>1. k.at = "backend" /\ UNCHANGED <<mode, docker, sandbox, artifacts, result, orphans, scripts, clock>>
  BY DEF B!Backend
<1>2. Busy(c) /\ k \in Running /\ run \in [Caller -> {B!Idle} \cup Running] /\ DOMAIN sandbox \subseteq DOMAIN Names
  BY <1>1, SandboxTypes, RunKinds DEF Busy
<1>3. /\ docker \in BOOLEAN /\ orphans \subseteq 1..scripts /\ DOMAIN artifacts \subseteq {TaskOf[d] : d \in Caller} \X B!Range(Names)
  BY DEF SandboxInv, B!TypeOK
<1>4. run' = [run EXCEPT ![c] = r]
  <2>1. CASE fails
    <3>1. r = [k EXCEPT !.at = "collect", !.left = DOMAIN sandbox]
      BY <1>2, <2>1 DEF Running
    <3> QED
      BY <1>2, <2>1, <3>1 DEF B!Backend
  <2>2. CASE ~fails
    <3>1. r = [k EXCEPT !.at = "script", !.ran = k.mode]
      BY <1>2, <2>2 DEF Running
    <3> QED
      BY <1>2, <2>2, <3>1 DEF B!Backend
  <2> QED
    BY <2>1, <2>2
<1>5. /\ r \in Running /\ r.at \in {"collect", "script"} /\ r.before = k.before /\ r.id = k.id /\ r.mode = k.mode
      /\ r.ran \in {k.ran, k.mode} /\ r.wrote = k.wrote /\ r.found = k.found /\ r.mixed = k.mixed
      /\ r.left \in {k.left, DOMAIN sandbox} /\ (r.at = "collect" => r.left = DOMAIN sandbox)
  BY <1>2 DEF Running
<1> HIDE DEF r
<1>6. run'[c] = r /\ \A d \in Caller \ {c} : run'[d] = run[d]
  BY <1>2, <1>4
<1>7. ModeInv(c)' /\ AloneInv(c)'
  BY <1>1, <1>2, <1>5, <1>6 DEF SandboxInv, ModeInv, AloneInv, Busy
<1>8. WroteInv(c)'
  <2>1. WroteInv(c)
    BY DEF SandboxInv
  <2> QED
    BY <1>1, <1>2, <1>5, <1>6, <2>1 DEF WroteInv, B!produced, Busy
<1>9. CollectInv(c)'
  <2>1. k.left \subseteq DOMAIN sandbox /\ (~k.mixed => k.found = {})
    BY <1>1, <1>2 DEF SandboxInv, CollectInv
  <2>2. ~k.mixed => k.wrote \subseteq DOMAIN sandbox
    BY <1>1, <1>2 DEF SandboxInv, WroteInv, Running
  <2> QED
    BY <1>1, <1>5, <1>6, <2>1, <2>2 DEF CollectInv
<1>10. B!CollectsItsOwn' /\ r.id <= scripts
  BY <1>1, <1>2, <1>5 DEF SandboxInv, RunsInv, B!CollectsItsOwn
<1> QED
  BY <1>1, <1>2, <1>3, <1>4, <1>5, <1>7, <1>8, <1>9, <1>10, RunGoesOn, SandboxTypes

\* Something is written under a path.
LEMMA Written ==
  ASSUME SandboxAssumption, SandboxInv, NEW id \in 1..scripts, NEW p \in DOMAIN Names, NEW old \in BOOLEAN, B!WriteFile(id, p, old)
  PROVE  /\ clock' = clock + 1 /\ clock' \in 0..MaxWrites /\ DOMAIN sandbox' = DOMAIN sandbox \cup {p}
         /\ \A q \in DOMAIN sandbox \ {p} : sandbox'[q] = sandbox[q]
         /\ sandbox'[p].by = id /\ sandbox'[p].stamp = IF old THEN 0 ELSE clock + 1
         /\ \A q \in DOMAIN sandbox' : sandbox'[q].by \in 1..scripts /\ sandbox'[q].stamp \in 0..clock'
<1>1. clock < MaxWrites /\ clock' = clock + 1 /\ sandbox' = B!With(sandbox, p, [by |-> id, stamp |-> IF old THEN 0 ELSE clock + 1])
  BY DEF B!WriteFile
<1>2. clock' \in 0..MaxWrites /\ clock \in 0..MaxWrites /\ MaxWrites \in Nat
  BY <1>1, SandboxTypes
<1>3. /\ DOMAIN sandbox' = DOMAIN sandbox \cup {p}
      /\ \A q \in DOMAIN sandbox \ {p} : sandbox'[q] = sandbox[q]
      /\ sandbox'[p].by = id /\ sandbox'[p].stamp = IF old THEN 0 ELSE clock + 1
  BY <1>1 DEF B!With
<1>4. sandbox'[p].stamp \in 0..clock'
  BY <1>1, <1>2, <1>3
<1>5. \A q \in DOMAIN sandbox \ {p} : sandbox[q].stamp \in 0..clock'
  <2>1. \A q \in DOMAIN sandbox : sandbox[q].stamp \in 0..clock
    BY SandboxTypes
  <2>2. 0..clock \subseteq 0..clock'
    BY <1>1, <1>2
  <2> QED
    BY <2>1, <2>2
<1> QED
  BY <1>1, <1>2, <1>3, <1>4, <1>5, SandboxTypes

LEMMA SandboxScript ==
  ASSUME SandboxAssumption, SandboxInv, NEW c \in Caller, NEW p \in DOMAIN Names, NEW old \in BOOLEAN, B!Script(c, p, old)
  PROVE  SandboxInv'
<1> DEFINE k == run[c]
           wrote == IF old /\ p \in DOMAIN k.before THEN k.wrote \ {p} ELSE k.wrote \cup {p}
           r == [k EXCEPT !.wrote = wrote]
<1>1. /\ k.at = "script" /\ B!WriteFile(k.id, p, old) /\ run' = [run EXCEPT ![c] = r]
      /\ UNCHANGED <<mode, docker, artifacts, result, orphans, scripts>>
  BY DEF B!Script
<1>2. Busy(c) /\ k \in Running /\ run \in [Caller -> {B!Idle} \cup Running]
  BY <1>1, SandboxTypes, RunKinds DEF Busy
<1>3. k.id \in 1..scripts
  <2>1. k.id \in 1..MaxScripts /\ k.id <= scripts /\ scripts \in 0..MaxScripts /\ MaxScripts \in Nat
    BY <1>2, SandboxTypes DEF Running, SandboxInv, RunsInv
  <2> QED
    BY <2>1
<1>4. /\ docker \in BOOLEAN /\ orphans \subseteq 1..scripts /\ DOMAIN artifacts \subseteq {TaskOf[d] : d \in Caller} \X B!Range(Names)
  BY DEF SandboxInv, B!TypeOK
<1>5. /\ clock' = clock + 1 /\ clock' \in 0..MaxWrites /\ DOMAIN sandbox' = DOMAIN sandbox \cup {p}
      /\ \A q \in DOMAIN sandbox \ {p} : sandbox'[q] = sandbox[q]
      /\ sandbox'[p].by = k.id /\ sandbox'[p].stamp = IF old THEN 0 ELSE clock + 1
      /\ \A q \in DOMAIN sandbox' : sandbox'[q].by \in 1..scripts /\ sandbox'[q].stamp \in 0..clock'
  BY <1>1, <1>3, Written
<1>6. /\ r \in Running /\ r.at = "script" /\ r.before = k.before /\ r.id = k.id /\ r.mode = k.mode /\ r.left = k.left
      /\ r.ran = k.ran /\ r.wrote = wrote /\ r.found = k.found /\ r.mixed = k.mixed
  BY <1>1, <1>2 DEF Running
<1> HIDE DEF r
<1>7. run'[c] = r /\ \A d \in Caller \ {c} : run'[d] = run[d]
  BY <1>1, <1>2
<1>8. ModeInv(c)' /\ AloneInv(c)'
  BY <1>1, <1>2, <1>6, <1>7 DEF SandboxInv, ModeInv, AloneInv, Busy
<1>9. WroteInv(c)'
  <2> SUFFICES ASSUME ~k.mixed PROVE WroteInv(c)'
    BY <1>6, <1>7 DEF WroteInv
  <2>1. /\ \A q \in DOMAIN k.before : k.before[q] <= clock /\ k.before[q] \in Nat
        /\ \A q \in DOMAIN Names : q \in k.wrote <=> q \in DOMAIN sandbox /\ B!produced(k.before, q)
        /\ \A q \in k.wrote : sandbox[q].by = k.id
    BY <1>1, <1>2 DEF SandboxInv, WroteInv, Running, Pictures
  <2>2. clock \in Nat
    BY SandboxTypes
  <2>3. \A q \in DOMAIN k.before : k.before[q] <= clock'
    BY <1>5, <2>1, <2>2
  <2>4. p \in wrote <=> B!produced(k.before, p)'
    <3>1. p \in DOMAIN k.before => (sandbox'[p].stamp > k.before[p] <=> ~old)
      BY <1>5, <2>1, <2>2
    <3>2. B!produced(k.before, p)' <=> p \notin DOMAIN k.before \/ sandbox'[p].stamp > k.before[p]
      BY <1>1, <1>2, <1>6, <1>7 DEF B!produced
    <3> QED
      BY <3>1, <3>2
  <2>5. \A q \in DOMAIN sandbox \ {p} : q \notin DOMAIN k.before \/ sandbox'[q].stamp > k.before[q] <=> B!produced(k.before, q)
    BY <1>5 DEF B!produced
  <2>6. \A q \in DOMAIN Names : q \in wrote <=> q \in DOMAIN sandbox' /\ (q \notin DOMAIN k.before \/ sandbox'[q].stamp > k.before[q])
    <3> TAKE q \in DOMAIN Names
    <3>1. CASE q = p
      BY <1>5, <2>1, <2>2, <3>1
    <3>2. CASE q # p
      <4>1. q \in wrote <=> q \in k.wrote
        BY <3>2
      <4>2. q \in DOMAIN sandbox' <=> q \in DOMAIN sandbox
        BY <1>5, <3>2
      <4> QED
        BY <2>1, <2>5, <3>2, <4>1, <4>2
    <3> QED
      BY <3>1, <3>2
  <2>7. \A q \in wrote : sandbox'[q].by = k.id
    <3>1. k.wrote \subseteq DOMAIN sandbox
      BY <1>2, <2>1 DEF Running
    <3> QED
      BY <1>5, <2>1, <3>1
  <2> HIDE DEF wrote
  <2> QED
    BY <1>6, <1>7, <2>3, <2>6, <2>7 DEF WroteInv, B!produced
<1>10. CollectInv(c)'
  <2>1. k.left \subseteq DOMAIN sandbox /\ (~k.mixed => k.found = {})
    BY <1>1, <1>2 DEF SandboxInv, CollectInv
  <2> QED
    BY <1>5, <1>6, <1>7, <2>1 DEF CollectInv
<1>11. B!CollectsItsOwn' /\ r.id <= scripts
  BY <1>1, <1>2, <1>6 DEF SandboxInv, RunsInv, B!CollectsItsOwn
<1>12. DOMAIN sandbox' \subseteq DOMAIN Names /\ DOMAIN sandbox \subseteq DOMAIN sandbox' /\ DOMAIN result' = Caller
  BY <1>1, <1>5, SandboxTypes
<1> HIDE DEF wrote
<1> QED
  BY <1>1, <1>2, <1>4, <1>5, <1>6, <1>8, <1>9, <1>10, <1>11, <1>12, RunGoesOn, SandboxTypes

LEMMA SandboxEnds ==
  ASSUME SandboxAssumption, SandboxInv, NEW c \in Caller, B!Ends(c)
  PROVE  SandboxInv'
<1> DEFINE k == run[c]
<1>1. k.at = "script" /\ UNCHANGED <<mode, docker, sandbox, artifacts, result, scripts, clock>>
  BY DEF B!Ends
<1>2. Busy(c) /\ k \in Running /\ run \in [Caller -> {B!Idle} \cup Running] /\ DOMAIN sandbox \subseteq DOMAIN Names
  BY <1>1, SandboxTypes, RunKinds DEF Busy
<1>3. /\ docker \in BOOLEAN /\ orphans \subseteq 1..scripts /\ DOMAIN artifacts \subseteq {TaskOf[d] : d \in Caller} \X B!Range(Names)
  BY DEF SandboxInv, B!TypeOK
<1>4. k.id \in 1..scripts /\ k.id <= scripts
  <2>1. k.id \in 1..MaxScripts /\ k.id <= scripts /\ scripts \in 0..MaxScripts /\ MaxScripts \in Nat
    BY <1>2, SandboxTypes DEF Running, SandboxInv, RunsInv
  <2> QED
    BY <2>1
<1>5. ASSUME NEW ok \in BOOLEAN, NEW timeout \in BOOLEAN,
             run' = [run EXCEPT ![c] = [k EXCEPT !.at = "collect", !.left = DOMAIN sandbox, !.ok = ok,
                                                 !.mixed = k.mixed \/ (timeout /\ k.ran = "container")]],
             orphans' = IF timeout /\ k.ran = "container" THEN orphans \cup {k.id} ELSE orphans
      PROVE  SandboxInv'
  <2> DEFINE r == [k EXCEPT !.at = "collect", !.left = DOMAIN sandbox, !.ok = ok, !.mixed = k.mixed \/ (timeout /\ k.ran = "container")]
  <2>1. run' = [run EXCEPT ![c] = r]
    BY <1>5
  <2>2. /\ r \in Running /\ r.at = "collect" /\ r.before = k.before /\ r.id = k.id /\ r.mode = k.mode
        /\ r.ran = k.ran /\ r.wrote = k.wrote /\ r.found = k.found /\ r.left = DOMAIN sandbox
        /\ (r.mixed <=> k.mixed \/ (timeout /\ k.ran = "container"))
    BY <1>2 DEF Running
  <2> HIDE DEF r
  <2>3. run'[c] = r /\ \A d \in Caller \ {c} : run'[d] = run[d]
    BY <1>2, <2>1
  <2>4. ~r.mixed => ~k.mixed /\ orphans' = orphans
    BY <1>5, <2>2
  <2>5. ModeInv(c)' /\ AloneInv(c)'
    BY <1>1, <1>2, <2>2, <2>3, <2>4 DEF SandboxInv, ModeInv, AloneInv, Busy
  <2>6. WroteInv(c)'
    <3>1. WroteInv(c)
      BY DEF SandboxInv
    <3> QED
      BY <1>1, <1>2, <2>2, <2>3, <2>4, <3>1 DEF WroteInv, B!produced, Busy
  <2>7. CollectInv(c)'
    <3>1. ~k.mixed => k.found = {} /\ k.wrote \subseteq DOMAIN sandbox
      BY <1>1, <1>2 DEF SandboxInv, CollectInv, WroteInv, Running
    <3> QED
      BY <1>1, <2>2, <2>3, <2>4, <3>1 DEF CollectInv
  <2>8. B!CollectsItsOwn' /\ r.id <= scripts /\ orphans' \subseteq 1..scripts
    BY <1>1, <1>3, <1>4, <1>5, <2>2 DEF SandboxInv, B!CollectsItsOwn
  <2> QED
    BY <1>1, <1>2, <1>3, <2>1, <2>2, <2>5, <2>6, <2>7, <2>8, RunGoesOn, SandboxTypes
<1>6. CASE orphans' = orphans /\ \E ok \in BOOLEAN : run' = [run EXCEPT ![c].at = "collect", ![c].left = DOMAIN sandbox, ![c].ok = ok]
  <2>1. PICK ok \in BOOLEAN : run' = [run EXCEPT ![c] = [k EXCEPT !.at = "collect", !.left = DOMAIN sandbox, !.ok = ok]]
    BY <1>2, <1>6
  <2>2. [k EXCEPT !.at = "collect", !.left = DOMAIN sandbox, !.ok = ok]
          = [k EXCEPT !.at = "collect", !.left = DOMAIN sandbox, !.ok = ok, !.mixed = k.mixed \/ (FALSE /\ k.ran = "container")]
    BY <1>2 DEF Running
  <2> QED
    BY <1>5, <1>6, <2>1, <2>2
<1>7. CASE /\ run' = [run EXCEPT ![c].at = "collect", ![c].left = DOMAIN sandbox, ![c].mixed = @ \/ run[c].ran = "container"]
           /\ orphans' = IF run[c].ran = "container" THEN orphans \cup {run[c].id} ELSE orphans
  <2>1. run' = [run EXCEPT ![c] = [k EXCEPT !.at = "collect", !.left = DOMAIN sandbox, !.mixed = k.mixed \/ k.ran = "container"]]
    BY <1>2, <1>7
  <2>2. [k EXCEPT !.at = "collect", !.left = DOMAIN sandbox, !.mixed = k.mixed \/ k.ran = "container"]
          = [k EXCEPT !.at = "collect", !.left = DOMAIN sandbox, !.ok = k.ok, !.mixed = k.mixed \/ (TRUE /\ k.ran = "container")]
    BY <1>2 DEF Running
  <2>3. k.ok \in BOOLEAN
    BY <1>2 DEF Running
  <2> QED
    BY <1>5, <1>7, <2>1, <2>2, <2>3
<1> QED
  BY <1>6, <1>7 DEF B!Ends

\* A container that was given up writes, or ends: no run that is going on is unmixed.
LEMMA SandboxOrphan ==
  ASSUME SandboxAssumption, SandboxInv, NEW id \in orphans, B!Orphan(id)
  PROVE  SandboxInv'
<1>1. UNCHANGED <<mode, docker, artifacts, run, result, scripts>>
  BY DEF B!Orphan
<1>2. \A c \in Caller : Busy(c) => run[c].mixed
  BY DEF SandboxInv, AloneInv
<1>3. orphans \subseteq 1..scripts
  BY DEF SandboxInv, B!TypeOK
<1>4. /\ orphans' \subseteq orphans /\ clock' \in 0..MaxWrites /\ DOMAIN sandbox \subseteq DOMAIN sandbox'
      /\ DOMAIN sandbox' \subseteq DOMAIN Names
      /\ \A q \in DOMAIN sandbox' : sandbox'[q].by \in 1..scripts /\ sandbox'[q].stamp \in 0..clock'
  <2>1. CASE orphans' = orphans /\ \E p \in DOMAIN Names : B!WriteFile(id, p, FALSE)
    <3>1. PICK p \in DOMAIN Names : B!WriteFile(id, p, FALSE)
      BY <2>1
    <3>2. id \in 1..scripts /\ FALSE \in BOOLEAN
      BY <1>3
    <3>3. /\ clock' \in 0..MaxWrites /\ DOMAIN sandbox' = DOMAIN sandbox \cup {p}
          /\ \A q \in DOMAIN sandbox' : sandbox'[q].by \in 1..scripts /\ sandbox'[q].stamp \in 0..clock'
      BY <3>1, <3>2, Written
    <3> QED
      BY <2>1, <3>3, SandboxTypes
  <2>2. CASE orphans' = orphans \ {id} /\ UNCHANGED <<sandbox, clock>>
    BY <2>2, SandboxTypes
  <2> QED
    BY <2>1, <2>2 DEF B!Orphan, B!Path
<1>5. \A c \in Caller : ModeInv(c)' /\ AloneInv(c)' /\ WroteInv(c)' /\ CollectInv(c)'
  BY <1>1, <1>2, <1>4 DEF SandboxInv, ModeInv, AloneInv, WroteInv, CollectInv, Busy
<1>6. RunsInv' /\ B!CollectsItsOwn'
  BY <1>1, <1>4 DEF SandboxInv, RunsInv, B!CollectsItsOwn, Busy
<1>7. B!TypeOK'
  BY <1>1, <1>3, <1>4 DEF SandboxInv, B!TypeOK, B!Path
<1> QED
  BY <1>5, <1>6, <1>7 DEF SandboxInv

LEMMA SandboxCollect ==
  ASSUME SandboxAssumption, SandboxInv, NEW c \in Caller, B!Collect(c)
  PROVE  SandboxInv'
<1> DEFINE k == run[c]
<1>1. k.at = "collect" /\ UNCHANGED <<mode, docker, sandbox, result, orphans, scripts, clock>>
  BY DEF B!Collect
<1>2. Busy(c) /\ k \in Running /\ run \in [Caller -> {B!Idle} \cup Running] /\ DOMAIN sandbox \subseteq DOMAIN Names
  BY <1>1, SandboxTypes, RunKinds DEF Busy
<1>3. /\ docker \in BOOLEAN /\ orphans \subseteq 1..scripts /\ DOMAIN artifacts \subseteq {TaskOf[d] : d \in Caller} \X B!Range(Names)
  BY DEF SandboxInv, B!TypeOK
<1>4. PICK p \in k.left :
        /\ \A q \in k.left : p <= q
        /\ IF B!produced(k.before, p)
           THEN /\ artifacts' = B!With(artifacts, <<TaskOf[c], Names[p]>>, [by |-> sandbox[p].by, path |-> p])
                /\ run' = [run EXCEPT ![c].left = @ \ {p}, ![c].found = @ \cup {p}]
           ELSE run' = [run EXCEPT ![c].left = @ \ {p}] /\ UNCHANGED artifacts
  BY DEF B!Collect
<1>5. k.left \subseteq DOMAIN sandbox /\ p \in DOMAIN sandbox /\ p \in DOMAIN Names
  BY <1>2, <1>4 DEF SandboxInv, CollectInv
<1> DEFINE taken == B!produced(k.before, p)
           r == [k EXCEPT !.left = k.left \ {p}, !.found = IF taken THEN k.found \cup {p} ELSE k.found]
           key == <<TaskOf[c], Names[p]>>
<1>6. run' = [run EXCEPT ![c] = r]
  <2>1. CASE taken
    BY <1>2, <1>4, <2>1
  <2>2. CASE ~taken
    <3>1. r = [k EXCEPT !.left = k.left \ {p}]
      BY <1>2, <2>2 DEF Running
    <3> QED
      BY <1>2, <1>4, <2>2, <3>1
  <2> QED
    BY <2>1, <2>2
<1>7. /\ r \in Running /\ r.at = "collect" /\ r.before = k.before /\ r.id = k.id /\ r.mode = k.mode
      /\ r.ran = k.ran /\ r.wrote = k.wrote /\ r.mixed = k.mixed /\ r.left = k.left \ {p}
      /\ r.found = IF taken THEN k.found \cup {p} ELSE k.found
  BY <1>1, <1>2, <1>5 DEF Running
<1> HIDE DEF r
<1>8. run'[c] = r /\ \A d \in Caller \ {c} : run'[d] = run[d]
  BY <1>2, <1>6
<1>9. ModeInv(c)' /\ AloneInv(c)'
  BY <1>1, <1>2, <1>7, <1>8 DEF SandboxInv, ModeInv, AloneInv, Busy
<1>10. WroteInv(c)'
  <2>1. WroteInv(c)
    BY DEF SandboxInv
  <2> QED
    BY <1>1, <1>2, <1>7, <1>8, <2>1 DEF WroteInv, B!produced, Busy
<1>11. /\ taken => /\ DOMAIN artifacts' = DOMAIN artifacts \cup {key} /\ artifacts'[key] = [by |-> sandbox[p].by, path |-> p]
                   /\ \A other \in DOMAIN artifacts \ {key} : artifacts'[other] = artifacts[other]
       /\ ~taken => artifacts' = artifacts
  BY <1>4 DEF B!With
<1>12. DOMAIN artifacts' \subseteq {TaskOf[d] : d \in Caller} \X B!Range(Names)
  <2>1. key \in {TaskOf[d] : d \in Caller} \X B!Range(Names)
    BY <1>5 DEF B!Range
  <2> HIDE DEF key
  <2> QED
    BY <1>3, <1>11, <2>1
<1>13. CollectInv(c)'
  <2> SUFFICES ASSUME ~k.mixed
               PROVE  /\ \A q \in DOMAIN sandbox \ r.left, s \in r.left : q <= s
                      /\ r.found = k.wrote \ r.left
                      /\ \A q \in k.wrote \ r.left : Kept(c, q)'
    BY <1>1, <1>5, <1>7, <1>8 DEF CollectInv
  <2>1. /\ \A q \in DOMAIN sandbox \ k.left, s \in k.left : q <= s
        /\ k.found = k.wrote \ k.left
        /\ \A q \in k.wrote \ k.left : Kept(c, q)
    BY <1>1, <1>2 DEF SandboxInv, CollectInv
  <2>2. p \in k.wrote <=> taken
    BY <1>1, <1>2, <1>5 DEF SandboxInv, WroteInv
  <2>3. p \in k.wrote => sandbox[p].by = k.id
    BY <1>2 DEF SandboxInv, WroteInv
  <2>4. \A q \in DOMAIN sandbox \ r.left, s \in r.left : q <= s
    BY <1>4, <1>7, <2>1
  <2>5. r.found = k.wrote \ r.left
    BY <1>4, <1>7, <2>1, <2>2
  <2>6. ASSUME NEW q \in k.wrote \ r.left
        PROVE  Kept(c, q)'
    <3>1. q \in DOMAIN Names /\ q \in Nat /\ p \in Nat /\ q \in DOMAIN sandbox
      BY <1>1, <1>2, <1>5, SandboxTypes DEF SandboxInv, WroteInv, Running
    <3>2. q = p \/ q \in k.wrote \ k.left
      BY <1>7
    <3>3. ASSUME taken, <<TaskOf[c], Names[q]>> = key
          PROVE  Kept(c, q)'
      <4>1. Names[q] = Names[p] /\ q <= p /\ p \in k.wrote
        <5>1. q = p \/ q <= p
          BY <1>4, <2>1, <3>1, <3>2
        <5> QED
          BY <2>2, <3>1, <3>3, <5>1
      <4>2. artifacts'[key].by = k.id /\ artifacts'[key].path = p /\ key \in DOMAIN artifacts'
        BY <1>11, <2>3, <3>3, <4>1
      <4> HIDE DEF key
      <4> QED
        BY <1>7, <1>8, <3>1, <3>3, <4>1, <4>2 DEF Kept
    <3>4. ASSUME ~(taken /\ <<TaskOf[c], Names[q]>> = key)
          PROVE  Kept(c, q)'
      <4>1. Kept(c, q)
        BY <2>1, <2>2, <3>2, <3>4
      <4> DEFINE mine == <<TaskOf[c], Names[q]>>
      <4>2. mine \in DOMAIN artifacts /\ mine \in DOMAIN artifacts' /\ artifacts'[mine] = artifacts[mine]
        BY <1>11, <3>4, <4>1 DEF Kept
      <4>3. /\ artifacts[mine].by = k.id /\ artifacts[mine].path >= q /\ artifacts[mine].path \in k.wrote
            /\ Names[artifacts[mine].path] = Names[q]
        BY <4>1 DEF Kept
      <4> HIDE DEF key
      <4> QED
        BY <1>7, <1>8, <4>2, <4>3 DEF Kept
    <3> QED
      BY <3>3, <3>4
  <2> QED
    BY <2>4, <2>5, <2>6
<1>14. B!CollectsItsOwn' /\ r.id <= scripts
  BY <1>1, <1>2, <1>7 DEF SandboxInv, RunsInv, B!CollectsItsOwn
<1> HIDE DEF taken, key
<1> QED
  BY <1>1, <1>2, <1>3, <1>6, <1>7, <1>9, <1>10, <1>12, <1>13, <1>14, RunGoesOn, SandboxTypes

LEMMA SandboxReturn ==
  ASSUME SandboxAssumption, SandboxInv, NEW c \in Caller, B!Return(c)
  PROVE  SandboxInv'
<1> DEFINE k == run[c]
           mine == {name \in B!Range(Names) : <<TaskOf[c], name>> \in DOMAIN artifacts}
           s == [id |-> k.id, ok |-> k.ok, ran |-> k.ran, mixed |-> k.mixed, wrote |-> k.wrote, found |-> k.found,
                 artifacts |-> IF k.ok THEN k.found ELSE {},
                 kept |-> {artifacts[<<TaskOf[c], name>>] : name \in mine}]
<1>1. /\ k.at = "collect" /\ k.left = {} /\ result' = [result EXCEPT ![c] = s] /\ run' = [run EXCEPT ![c] = B!Idle]
      /\ UNCHANGED <<mode, docker, sandbox, artifacts, orphans, scripts, clock>>
  BY DEF B!Return
<1>2. Busy(c) /\ k \in Running /\ run \in [Caller -> {B!Idle} \cup Running]
  BY <1>1, SandboxTypes, RunKinds DEF Busy
<1>3. /\ docker \in BOOLEAN /\ orphans \subseteq 1..scripts /\ DOMAIN artifacts \subseteq {TaskOf[d] : d \in Caller} \X B!Range(Names)
  BY DEF SandboxInv, B!TypeOK
<1>4. run'[c] = B!Idle /\ ~Busy(c)' /\ B!Idle.at = "idle"
  BY <1>1, <1>2 DEF Busy, B!Idle
<1>5. ModeInv(c)' /\ AloneInv(c)' /\ WroteInv(c)' /\ CollectInv(c)'
  BY <1>4 DEF ModeInv, AloneInv, WroteInv, CollectInv
<1>6. result'[c] = s /\ (\A d \in Caller \ {c} : result'[d] = result[d]) /\ DOMAIN result' = Caller
  BY <1>1, SandboxTypes
<1>7. ASSUME ~k.mixed
      PROVE  /\ s.found = s.wrote
             /\ \A p \in s.wrote : \E a \in s.kept : a.by = s.id /\ a.path >= p /\ Names[a.path] = Names[p] /\ a.path \in s.wrote
             /\ s.artifacts \in {{}, s.wrote}
  <2>1. k.found = k.wrote /\ \A p \in k.wrote : Kept(c, p)
    BY <1>1, <1>2, <1>7 DEF SandboxInv, CollectInv
  <2>2. ASSUME NEW p \in k.wrote
        PROVE  \E a \in s.kept : a.by = k.id /\ a.path >= p /\ Names[a.path] = Names[p] /\ a.path \in k.wrote
    <3>1. Names[p] \in mine
      <4>1. p \in DOMAIN Names
        BY <1>2 DEF Running
      <4> QED
        BY <2>1, <2>2, <4>1 DEF Kept, B!Range
    <3>2. artifacts[<<TaskOf[c], Names[p]>>] \in s.kept
      BY <3>1
    <3> QED
      BY <2>1, <2>2, <3>2 DEF Kept
  <2> QED
    BY <2>1, <2>2
<1>8. B!CollectsItsOwn'
  <2>1. s.id = k.id /\ s.mixed = k.mixed
    OBVIOUS
  <2> HIDE DEF s
  <2> QED
    BY <1>6, <1>7, <2>1 DEF SandboxInv, B!CollectsItsOwn
<1> QED
  BY <1>1, <1>2, <1>3, <1>4, <1>5, <1>6, <1>8, RunGoesOn, SandboxTypes

LEMMA SandboxInitially == ASSUME SandboxAssumption, B!Init PROVE SandboxInv
<1>1. DOMAIN <<>> = {}
  <2>1. <<>> \in Seq({}) /\ Len(<<>>) = 0
    OBVIOUS
  <2> QED
    BY <2>1
<1>2. /\ mode \in Configured /\ docker = TRUE /\ DOMAIN sandbox = {} /\ DOMAIN artifacts = {}
      /\ run = [c \in Caller |-> B!Idle] /\ result = [c \in Caller |-> B!Never]
      /\ orphans = {} /\ scripts = 0 /\ clock = 0 /\ MaxScripts \in Nat /\ MaxWrites \in Nat
  BY <1>1, SandboxAssumption DEF B!Init
<1>3. \A c \in Caller : run[c] = B!Idle /\ run[c].at = "idle" /\ ~Busy(c) /\ result[c].id = 0
  BY <1>2 DEF B!Idle, B!Never, Busy
<1>4. B!TypeOK
  BY <1>2, <1>3 DEF B!TypeOK
<1>5. RunsInv
  BY <1>2, <1>3 DEF RunsInv
<1>6. \A c \in Caller : ModeInv(c) /\ AloneInv(c) /\ WroteInv(c) /\ CollectInv(c)
  BY <1>3 DEF ModeInv, AloneInv, WroteInv, CollectInv
<1>7. B!CollectsItsOwn
  BY <1>3 DEF B!CollectsItsOwn
<1> QED
  BY <1>4, <1>5, <1>6, <1>7 DEF SandboxInv

LEMMA SandboxSteps ==
  ASSUME SandboxAssumption, SandboxInv, [B!Next]_B!vars
  PROVE  SandboxInv'
<1>1. ASSUME UNCHANGED <<mode, sandbox, artifacts, run, result, orphans, scripts, clock>>, docker' \in BOOLEAN
      PROVE  SandboxInv'
  <2>1. \A c \in Caller : ModeInv(c)' /\ AloneInv(c)' /\ CollectInv(c)'
    BY <1>1 DEF SandboxInv, ModeInv, AloneInv, CollectInv, Busy, Kept
  <2>2. \A c \in Caller : WroteInv(c)'
    BY <1>1 DEF SandboxInv, WroteInv, Busy, B!produced
  <2>3. RunsInv' /\ B!CollectsItsOwn' /\ B!TypeOK'
    BY <1>1 DEF SandboxInv, RunsInv, B!CollectsItsOwn, Busy, B!TypeOK
  <2> QED
    BY <2>1, <2>2, <2>3 DEF SandboxInv
<1>2. CASE UNCHANGED B!vars \/ B!Daemon
  <2>1. docker \in BOOLEAN
    BY DEF SandboxInv, B!TypeOK
  <2> QED
    BY <1>1, <1>2, <2>1 DEF B!vars, B!Daemon
<1>3. ASSUME NEW c \in Caller, B!Begin(c) \/ B!Snapshot(c) \/ B!Backend(c) \/ B!Ends(c) \/ B!Collect(c) \/ B!Return(c)
      PROVE  SandboxInv'
  BY <1>3, SandboxBegin, SandboxSnapshot, SandboxBackend, SandboxEnds, SandboxCollect, SandboxReturn
<1>4. ASSUME NEW c \in Caller, NEW p \in DOMAIN Names, NEW old \in BOOLEAN, B!Script(c, p, old)
      PROVE  SandboxInv'
  BY <1>4, SandboxScript
<1>5. ASSUME NEW id \in orphans, B!Orphan(id)
      PROVE  SandboxInv'
  BY <1>5, SandboxOrphan
<1> QED
  BY <1>2, <1>3, <1>4, <1>5 DEF B!Next, B!Path

LEMMA NothingFallsBack == ASSUME SandboxInv PROVE B!NeverFallsBack
BY DEF SandboxInv, ModeInv, Busy, B!NeverFallsBack, B!Active

-----------------------------------------------------------------------------
(* Sequences *)

LEMMA Retyped ==
  ASSUME NEW set, NEW other, NEW q \in Seq(set), \A i \in 1..Len(q) : q[i] \in other
  PROVE  q \in Seq(other)
<1>1. Len(q) \in Nat /\ DOMAIN q = 1..Len(q) /\ q = [i \in 1..Len(q) |-> q[i]]
  OBVIOUS
<1>2. q \in [1..Len(q) -> other]
  BY <1>1
<1> QED
  BY <1>1, <1>2

LEMMA Longer ==
  ASSUME NEW set, NEW q \in Seq(set), NEW e \in set
  PROVE  /\ Append(q, e) \in Seq(set) /\ Len(q) \in Nat /\ Len(Append(q, e)) = Len(q) + 1 /\ Len(Append(q, e)) \in Nat
         /\ DOMAIN q = 1..Len(q) /\ DOMAIN Append(q, e) = 1..(Len(q) + 1) /\ DOMAIN q \subseteq DOMAIN Append(q, e)
         /\ \A i \in DOMAIN q : Append(q, e)[i] = q[i] /\ q[i] \in set
         /\ Append(q, e)[Len(q) + 1] = e /\ Len(q) + 1 \in DOMAIN Append(q, e) /\ Len(q) + 1 \notin DOMAIN q
         /\ \A i \in DOMAIN Append(q, e) : i \in DOMAIN q \/ i = Len(q) + 1
OBVIOUS

-----------------------------------------------------------------------------
(* The least of some numbers *)

LEMMA LeastNumber ==
  ASSUME NEW set, set \subseteq Nat, set # {}
  PROVE  \E k \in set : \A j \in set : k <= j
<1>1. \E k \in set : \A j \in set : ~(<<j, k>> \in OpToRel(<, Nat))
  BY NatLessThanWellFounded, WFMin
<1>2. PICK k \in set : \A j \in set : ~(<<j, k>> \in OpToRel(<, Nat))
  BY <1>1
<1>3. ASSUME NEW j \in set
      PROVE  k <= j
  <2>1. j \in Nat /\ k \in Nat
    OBVIOUS
  <2>2. ~(<<j, k>> \in OpToRel(<, Nat))
    BY <1>2
  <2>3. ~(j < k)
    BY <2>1, <2>2 DEF OpToRel
  <2> QED
    BY <2>1, <2>3
<1> QED
  BY <1>3

-----------------------------------------------------------------------------
(* Cardinalities *)

LEMMA CountMore ==
  ASSUME NEW set, NEW x, IsFiniteSet(set), Cardinality(set) \in Nat
  PROVE  /\ IsFiniteSet(set \cup {x}) /\ Cardinality(set \cup {x}) \in Nat /\ Cardinality(set \cup {x}) <= Cardinality(set) + 1
<1>1. IsFiniteSet(set \cup {x})
  BY FS_AddElement
<1>2. Cardinality(set \cup {x}) = IF x \in set THEN Cardinality(set) ELSE Cardinality(set) + 1
  BY FS_AddElement
<1> QED
  BY <1>1, <1>2

LEMMA CountLess ==
  ASSUME NEW set, NEW x \in set, IsFiniteSet(set), Cardinality(set) \in Nat
  PROVE  IsFiniteSet(set \ {x}) /\ Cardinality(set \ {x}) = Cardinality(set) - 1
<1>1. IsFiniteSet(set \ {x})
  BY FS_RemoveElement
<1>2. Cardinality(set \ {x}) = IF x \in set THEN Cardinality(set) - 1 ELSE Cardinality(set)
  BY FS_RemoveElement
<1> QED
  BY <1>1, <1>2

LEMMA Numbered ==
  ASSUME NEW max \in Nat
  PROVE  IsFiniteSet(1..max) /\ Cardinality(1..max) = max
<1>1. IsFiniteSet(1..max)
  BY FS_Interval
<1>2. Cardinality(1..max) = IF 1 > max THEN 0 ELSE max - 1 + 1
  BY FS_Interval
<1> QED
  BY <1>1, <1>2

-----------------------------------------------------------------------------
(* ChannelCommands: the inductive invariant *)

Asking == [at : {"idle", "command", "choices", "authorize", "save", "resume", "send"}, s : Sender, who : K!Person,
           command : K!Commands, n : Nat, file : DeskFile, size : {"none", "small", "big"}]
Item == [of : Sender, task : Nat]

\* Who is past being asked came with the permission, to a channel that takes
\* decisions, with an approval there is; what is about to be sent was checked.
AskedInv(r) ==
  /\ r.at \in {"authorize", "save", "resume"} => channel.allow_decisions /\ K!Decides(r.who) /\ r.n \in DOMAIN approvals
  /\ r.at = "send" => r.file \in OutboundRoots /\ r.size = "small"

TablesInv ==
  /\ tasks \in Seq(K!Task) /\ approvals \in Seq(K!Approval) /\ kept \in Seq(Item)
  /\ \A a \in DOMAIN approvals : approvals[a].task \in DOMAIN tasks
  /\ \A a \in DOMAIN kept : kept[a].task <= Len(tasks)
  /\ screen \in [Sender -> SUBSET DOMAIN approvals]

WorldInv == people \in [Sender -> K!Person] /\ area \in Area /\ workspace \in [DeskFile -> {"none", "small", "big"}]
BoundsInv == said \in 0..MaxRequests /\ shifts \in 0..MaxShifts

CommandsInv ==
  /\ channel \in [identity_required : BOOLEAN, allow_decisions : BOOLEAN, allow_attachments : BOOLEAN]
  /\ WorldInv /\ TablesInv /\ BoundsInv
  /\ talking \in [Caller -> Asking] /\ \A c \in Caller : AskedInv(talking[c])
  /\ K!DecidedByThoseWhoMay /\ K!EachHisOwn /\ \A show \in told : show[1] \in DOMAIN kept

LEMMA CommandsTyped == ASSUME CommandsInv PROVE K!TypeOK
<1>1. kept \in Seq([of : Sender, task : 0..Len(tasks)])
  <2>1. kept \in Seq(Item) /\ tasks \in Seq(K!Task) /\ \A a \in DOMAIN kept : kept[a].task <= Len(tasks)
    BY DEF CommandsInv, TablesInv
  <2>2. DOMAIN kept = 1..Len(kept) /\ Len(tasks) \in Nat /\ \A a \in 1..Len(kept) : kept[a] \in Item
    BY <2>1
  <2>3. \A a \in 1..Len(kept) : kept[a] \in [of : Sender, task : 0..Len(tasks)]
    BY <2>1, <2>2 DEF Item
  <2> QED
    BY <2>1, <2>3, Retyped
<1> QED
  BY <1>1 DEF CommandsInv, TablesInv, WorldInv, BoundsInv, Asking, K!TypeOK

LEMMA IdleCommand == ASSUME CommandsAssumption PROVE K!Idle \in Asking /\ AskedInv(K!Idle) /\ K!NoFile \in DeskFile
<1>1. K!Somebody \in Sender /\ K!NoFile \in DeskFile
  BY CommandsAssumption DEF K!Somebody, K!NoFile
<1> QED
  BY <1>1 DEF K!Idle, Asking, AskedInv, K!Person, K!ROLES, K!Commands

\* c goes on; the tables only grow.
LEMMA CommandGoesOn ==
  ASSUME CommandsInv, NEW c \in Caller, NEW r \in Asking, talking' = [talking EXCEPT ![c] = r], AskedInv(talking[c])',
         UNCHANGED <<channel, people, area, workspace>>, TablesInv', BoundsInv',
         DOMAIN approvals \subseteq DOMAIN approvals', K!DecidedByThoseWhoMay', K!EachHisOwn',
         \A show \in told' : show[1] \in DOMAIN kept'
  PROVE  CommandsInv'
<1>1. talking' \in [Caller -> Asking] /\ talking'[c] = r /\ \A d \in Caller \ {c} : talking'[d] = talking[d]
  BY DEF CommandsInv
<1>2. ASSUME NEW d \in Caller
      PROVE  AskedInv(talking[d])'
  <2>1. CASE d = c
    BY <2>1, <1>1
  <2>2. CASE d # c
    BY <2>2, <1>1 DEF CommandsInv, AskedInv
  <2> QED
    BY <2>1, <2>2
<1> QED
  BY <1>1, <1>2 DEF CommandsInv, WorldInv

\* c goes on, and touches only the buttons, if anything.
LEMMA CommandGoesOnAlone ==
  ASSUME CommandsInv, NEW c \in Caller, NEW r \in Asking, talking' = [talking EXCEPT ![c] = r], AskedInv(r),
         UNCHANGED <<channel, people, area, tasks, approvals, kept, workspace, screen, judged, told, left>>, BoundsInv'
  PROVE  CommandsInv'
<1>1. talking'[c] = r
  BY DEF CommandsInv
<1>3. AskedInv(talking[c])'
  BY <1>1 DEF AskedInv
<1>2. TablesInv' /\ K!DecidedByThoseWhoMay' /\ K!EachHisOwn' /\ \A show \in told' : show[1] \in DOMAIN kept'
  BY DEF CommandsInv, TablesInv, K!DecidedByThoseWhoMay, K!EachHisOwn
<1> QED
  BY <1>2, <1>3, CommandGoesOn

LEMMA CommandTypes ==
  ASSUME CommandsInv, NEW c \in Caller
  PROVE  /\ talking \in [Caller -> Asking] /\ talking[c] \in Asking /\ AskedInv(talking[c])
         /\ talking[c].s \in Sender /\ talking[c].n \in Nat /\ talking[c].file \in DeskFile /\ talking[c].who \in K!Person
         /\ Len(approvals) \in Nat /\ DOMAIN approvals = 1..Len(approvals)
         /\ Len(tasks) \in Nat /\ DOMAIN tasks = 1..Len(tasks) /\ Len(kept) \in Nat /\ DOMAIN kept = 1..Len(kept)
<1>1. talking \in [Caller -> Asking] /\ AskedInv(talking[c])
  BY DEF CommandsInv
<1>2. talking[c] \in Asking
  BY <1>1
<1>3. talking[c].s \in Sender /\ talking[c].n \in Nat /\ talking[c].file \in DeskFile /\ talking[c].who \in K!Person
  BY <1>2 DEF Asking
<1> QED
  BY <1>1, <1>2, <1>3 DEF CommandsInv, TablesInv

-----------------------------------------------------------------------------
(* ChannelCommands: the steps *)

LEMMA CommandMessage ==
  ASSUME CommandsAssumption, CommandsInv, NEW c \in Caller, NEW s \in Sender, NEW command \in K!Commands, NEW n \in Nat,
         NEW f \in DeskFile, K!Message(c, s, command, n, f)
  PROVE  CommandsInv'
<1> DEFINE r == [K!Idle EXCEPT !.at = "command", !.s = s, !.who = people[s], !.command = command, !.n = n, !.file = f]
<1>1. /\ talking' = [talking EXCEPT ![c] = r] /\ said < MaxRequests /\ said' = said + 1
      /\ UNCHANGED <<channel, people, area, tasks, approvals, kept, workspace, screen, judged, told, left, shifts>>
  BY DEF K!Message, K!ghosts
<1>2. r \in Asking /\ AskedInv(r)
  <2>1. people[s] \in K!Person
    BY DEF CommandsInv, WorldInv
  <2> QED
    BY <2>1, IdleCommand DEF Asking, AskedInv
<1>3. BoundsInv'
  BY <1>1, CommandsAssumption DEF CommandsInv, BoundsInv
<1> HIDE DEF r
<1> QED
  BY <1>1, <1>2, <1>3, CommandGoesOnAlone

LEMMA CommandPress ==
  ASSUME CommandsAssumption, CommandsInv, NEW c \in Caller, NEW s \in Sender, K!Press(c, s)
  PROVE  CommandsInv'
<1>1. PICK a \in screen[s], action \in K!INTERACTION_ACTIONS : K!Message(c, s, action, a, K!NoFile)
  BY DEF K!Press
<1>2. a \in Nat
  BY CommandTypes DEF CommandsInv, TablesInv
<1>3. action \in K!Commands
  BY DEF K!INTERACTION_ACTIONS, K!Commands
<1> QED
  BY <1>1, <1>2, <1>3, IdleCommand, CommandMessage

LEMMA CommandRun ==
  ASSUME CommandsAssumption, CommandsInv, NEW c \in Caller, K!Run(c)
  PROVE  CommandsInv'
<1> DEFINE me == talking[c]
           item(t) == [of |-> me.s, task |-> t]
<1>1. UNCHANGED <<channel, people, area, workspace, screen, judged, told, left, said, shifts>>
  BY DEF K!Run, K!ghosts, K!bounds
<1>2. /\ me \in Asking /\ me.s \in Sender /\ talking \in [Caller -> Asking]
      /\ tasks \in Seq(K!Task) /\ approvals \in Seq(K!Approval) /\ kept \in Seq(Item)
      /\ DOMAIN tasks = 1..Len(tasks) /\ Len(tasks) \in Nat
  BY CommandTypes DEF CommandsInv, TablesInv
<1>3. BoundsInv' /\ K!DecidedByThoseWhoMay'
  BY <1>1 DEF CommandsInv, BoundsInv, K!DecidedByThoseWhoMay
<1>4. /\ \A a \in DOMAIN kept : kept[a].task <= Len(tasks)
      /\ \A a \in DOMAIN approvals : approvals[a].task \in DOMAIN tasks
      /\ screen \in [Sender -> SUBSET DOMAIN approvals]
  BY DEF CommandsInv, TablesInv
<1>5. /\ \A show \in told : show[1] \in DOMAIN kept /\ kept[show[1]].of = show[2]
      /\ \A s \in left : s.file \in OutboundRoots /\ s.checked = "small"
  BY DEF CommandsInv, K!EachHisOwn
<1>6. ASSUME NEW t \in Nat, t <= Len(tasks'), Len(tasks) <= Len(tasks'), Len(tasks') \in Nat,
             kept' = kept \/ kept' = Append(kept, item(t))
      PROVE  /\ kept' \in Seq(Item) /\ \A a \in DOMAIN kept' : kept'[a].task <= Len(tasks')
             /\ K!EachHisOwn' /\ \A show \in told' : show[1] \in DOMAIN kept'
  <2>1. item(t) \in Item
    BY <1>2 DEF Item
  <2>2. \A a \in DOMAIN kept : kept[a] \in Item /\ kept[a].task \in Nat
    <3>1. \A a \in DOMAIN kept : kept[a] \in Item
      BY <1>2
    <3> QED
      BY <3>1 DEF Item
  <2>3. CASE kept' = kept
    <3>1. \A a \in DOMAIN kept' : kept'[a].task <= Len(tasks')
      <4> SUFFICES ASSUME NEW a \in DOMAIN kept PROVE kept[a].task <= Len(tasks')
        BY <2>3
      <4>1. kept[a].task <= Len(tasks) /\ kept[a].task \in Nat
        BY <1>4, <2>2
      <4> QED
        BY <4>1, <1>2, <1>6
    <3> QED
      BY <3>1, <2>3, <1>1, <1>2, <1>5 DEF K!EachHisOwn
  <2>4. CASE kept' = Append(kept, item(t))
    <3>1. kept' \in Seq(Item) /\ DOMAIN kept \subseteq DOMAIN kept' /\ \A a \in DOMAIN kept : kept'[a] = kept[a]
      BY <1>2, <2>1, <2>4, Longer
    <3>2. \A a \in DOMAIN kept' : a \in DOMAIN kept \/ kept'[a] = item(t)
      BY <1>2, <2>1, <2>4, Longer
    <3>3. \A a \in DOMAIN kept' : kept'[a].task <= Len(tasks')
      <4> SUFFICES ASSUME NEW a \in DOMAIN kept' PROVE kept'[a].task <= Len(tasks')
        OBVIOUS
      <4>1. CASE a \in DOMAIN kept
        BY <4>1, <3>1, <2>2, <1>4, <1>2, <1>6
      <4>2. CASE kept'[a] = item(t)
        BY <4>2, <1>6
      <4> QED
        BY <4>1, <4>2, <3>2
    <3>4. K!EachHisOwn' /\ \A show \in told' : show[1] \in DOMAIN kept'
      BY <3>1, <1>1, <1>5 DEF K!EachHisOwn
    <3> QED
      BY <3>1, <3>3, <3>4
  <2> QED
    BY <2>3, <2>4, <1>6
<1>7. CASE ~K!Submits(me.who)
  <2>1. /\ talking' = [talking EXCEPT ![c] = K!Idle] /\ UNCHANGED <<tasks, approvals>>
        /\ kept' = kept \/ kept' = Append(kept, item(0))
    BY <1>7 DEF K!Run, K!Return
  <2>2. TablesInv'
    BY <2>1, <1>1, <1>2, <1>4, <1>6 DEF TablesInv
  <2>3. K!EachHisOwn' /\ \A show \in told' : show[1] \in DOMAIN kept'
    BY <2>1, <1>2, <1>6
  <2>4. K!Idle \in Asking /\ AskedInv(talking[c])'
    BY IdleCommand, <1>2, <2>1 DEF AskedInv, K!Idle
  <2> QED
    BY <1>1, <1>3, <2>1, <2>2, <2>3, <2>4, CommandGoesOn
<1>8. CASE K!Submits(me.who)
  <2>1. PICK status \in {"completed", "failed", "requires_approval"}, required \in Required :
          /\ tasks' = Append(tasks, [by |-> me.s, status |-> status])
          /\ approvals' = IF status = "requires_approval"
                          THEN Append(approvals, [task |-> Len(tasks'), status |-> "pending", required |-> required])
                          ELSE approvals
          /\ kept' = kept \/ kept' = Append(kept, item(Len(tasks')))
          /\ talking' = [talking EXCEPT ![c].at = "choices", ![c].n = Len(tasks')]
    BY <1>8 DEF K!Run
  <2> DEFINE r == [me EXCEPT !.at = "choices", !.n = Len(tasks')]
             task == [by |-> me.s, status |-> status]
             asked == [task |-> Len(tasks'), status |-> "pending", required |-> required]
  <2>2. task \in K!Task
    BY <1>2 DEF K!Task
  <2>3. /\ tasks' \in Seq(K!Task) /\ Len(tasks') = Len(tasks) + 1 /\ Len(tasks') \in Nat /\ DOMAIN tasks' = 1..(Len(tasks) + 1)
        /\ DOMAIN tasks \subseteq DOMAIN tasks' /\ Len(tasks') \in DOMAIN tasks' /\ Len(tasks) <= Len(tasks')
    BY <2>1, <2>2, <1>2, Longer
  <2>4. asked \in K!Approval
    BY <2>3 DEF K!Approval
  <2>5. /\ approvals' \in Seq(K!Approval) /\ DOMAIN approvals \subseteq DOMAIN approvals'
        /\ \A a \in DOMAIN approvals' : (a \in DOMAIN approvals /\ approvals'[a] = approvals[a]) \/ approvals'[a] = asked
    BY <2>1, <2>4, <1>2, Longer
  <2>6. \A a \in DOMAIN approvals' : approvals'[a].task \in DOMAIN tasks'
    BY <2>3, <2>5, <1>4
  <2>7. screen' \in [Sender -> SUBSET DOMAIN approvals']
    BY <2>5, <1>1, <1>4
  <2>8. /\ kept' \in Seq(Item) /\ \A a \in DOMAIN kept' : kept'[a].task <= Len(tasks')
        /\ K!EachHisOwn' /\ \A show \in told' : show[1] \in DOMAIN kept'
    BY <2>1, <2>3, <1>6
  <2>9. TablesInv'
    BY <2>3, <2>5, <2>6, <2>7, <2>8 DEF TablesInv
  <2>10. r \in Asking /\ r.at = "choices"
    BY <2>3, <1>2 DEF Asking
  <2>11. talking' = [talking EXCEPT ![c] = r]
    BY <2>1, <1>2
  <2>12. AskedInv(talking[c])'
    BY <1>2, <2>10, <2>11 DEF AskedInv
  <2> HIDE DEF r
  <2> QED
    BY <1>1, <1>3, <2>5, <2>8, <2>9, <2>10, <2>11, <2>12, CommandGoesOn
<1> QED
  BY <1>7, <1>8

LEMMA CommandChoices ==
  ASSUME CommandsAssumption, CommandsInv, NEW c \in Caller, K!Choices(c)
  PROVE  CommandsInv'
<1> DEFINE me == talking[c]
<1>1. /\ talking' = [talking EXCEPT ![c] = K!Idle]
      /\ UNCHANGED <<channel, people, area, tasks, approvals, kept, workspace, judged, told, left, said, shifts>>
      /\ screen' = screen \/ screen' = [screen EXCEPT ![me.s] = @ \cup K!Pending(me.n)]
  BY DEF K!Choices, K!ghosts, K!bounds, K!Return
<1>2. talking \in [Caller -> Asking] /\ screen \in [Sender -> SUBSET DOMAIN approvals] /\ K!Pending(me.n) \subseteq DOMAIN approvals
  BY CommandTypes DEF CommandsInv, TablesInv, K!Pending
<1>3. screen' \in [Sender -> SUBSET DOMAIN approvals']
  <2> HIDE DEF me
  <2> QED
    BY <1>1, <1>2
<1>4. TablesInv' /\ BoundsInv' /\ K!DecidedByThoseWhoMay' /\ K!EachHisOwn' /\ \A show \in told' : show[1] \in DOMAIN kept'
  BY <1>1, <1>3 DEF CommandsInv, TablesInv, BoundsInv, K!DecidedByThoseWhoMay, K!EachHisOwn
<1>5. K!Idle \in Asking /\ AskedInv(talking[c])'
  BY <1>1, <1>2, IdleCommand DEF AskedInv, K!Idle
<1> QED
  BY <1>1, <1>4, <1>5, CommandGoesOn

LEMMA CommandDecide ==
  ASSUME CommandsAssumption, CommandsInv, NEW c \in Caller, K!Decide(c)
  PROVE  CommandsInv'
<1> DEFINE me == talking[c]
           r == [me EXCEPT !.at = "authorize"]
<1>1. UNCHANGED <<channel, people, area, tasks, approvals, kept, workspace, screen, judged, told, left, said, shifts>>
  BY DEF K!Decide, K!ghosts, K!bounds
<1>2. BoundsInv'
  BY <1>1 DEF CommandsInv, BoundsInv
<1>3. me \in Asking /\ talking \in [Caller -> Asking]
  BY CommandTypes
<1>4. CASE K!MayAsk(c) /\ me.n \in DOMAIN approvals
  <2>1. talking' = [talking EXCEPT ![c] = r]
    BY <1>3, <1>4 DEF K!Decide, K!Goto
  <2>2. r \in Asking /\ r.at = "authorize" /\ r.n = me.n /\ r.who = me.who
    BY <1>3 DEF Asking
  <2>3. AskedInv(r)
    BY <1>4, <2>2 DEF AskedInv, K!MayAsk
  <2> HIDE DEF r
  <2> QED
    BY <1>1, <1>2, <2>1, <2>2, <2>3, CommandGoesOnAlone
<1>5. CASE ~(K!MayAsk(c) /\ me.n \in DOMAIN approvals)
  <2>1. talking' = [talking EXCEPT ![c] = K!Idle]
    BY <1>5 DEF K!Decide, K!Return
  <2> QED
    BY <1>1, <1>2, <2>1, IdleCommand, CommandGoesOnAlone
<1> QED
  BY <1>4, <1>5

LEMMA CommandAuthorize ==
  ASSUME CommandsAssumption, CommandsInv, NEW c \in Caller, K!Authorize(c)
  PROVE  CommandsInv'
<1> DEFINE me == talking[c]
           r == [me EXCEPT !.at = "save"]
           person == people[me.s]
           required == approvals[me.n].required
           record == [asked |-> me.who, now |-> person, area |-> area, required |-> required]
<1>1. me.at = "authorize" /\ UNCHANGED <<channel, people, area, tasks, approvals, kept, workspace, screen, told, left, said, shifts>>
  BY DEF K!Authorize, K!bounds
<1>2. BoundsInv'
  BY <1>1 DEF CommandsInv, BoundsInv
<1>3. me \in Asking /\ talking \in [Caller -> Asking] /\ AskedInv(me) /\ me.s \in Sender /\ people \in [Sender -> K!Person]
  BY CommandTypes DEF CommandsInv, WorldInv
<1>4. CASE K!Authorized(person, required)
  <2>1. talking' = [talking EXCEPT ![c] = r] /\ judged' = judged \cup {record}
    BY <1>3, <1>4 DEF K!Authorize, K!Goto
  <2>2. r \in Asking /\ r.at = "save" /\ r.n = me.n /\ r.who = me.who
    BY <1>3 DEF Asking
  <2>3. channel.allow_decisions /\ K!Decides(me.who) /\ me.n \in DOMAIN approvals
    BY <1>1, <1>3 DEF AskedInv
  <2>4. AskedInv(talking[c])'
    BY <1>1, <1>3, <2>1, <2>2, <2>3 DEF AskedInv
  <2>5. /\ person.active => area \in {K!NoArea} \cup person.areas \/ person.areas = {} \/ person.role = "admin"
        /\ channel.identity_required => person.active /\ K!Decides(person) /\ K!role_satisfies(person.role, required)
    BY <1>4 DEF K!Authorized, K!in_area
  <2>6. record.asked = me.who /\ record.now = person /\ record.area = area /\ record.required = required
    OBVIOUS
  <2> HIDE DEF record, r, person, required
  <2>7. K!DecidedByThoseWhoMay'
    <3>1. \A d \in judged' : d \in judged \/ d = record
      BY <2>1
    <3> SUFFICES ASSUME NEW d \in judged'
                 PROVE  /\ channel.allow_decisions /\ K!Decides(d.asked)
                        /\ d.now.active => d.area \in {K!NoArea} \cup d.now.areas \/ d.now.areas = {} \/ d.now.role = "admin"
                        /\ channel.identity_required => d.now.active /\ K!Decides(d.now) /\ K!role_satisfies(d.now.role, d.required)
      BY <1>1 DEF K!DecidedByThoseWhoMay, K!Decides, K!role_satisfies, K!expand_roles, K!ROLE_INHERITS, K!ROLES
    <3>2. CASE d \in judged
      BY <3>2 DEF CommandsInv, K!DecidedByThoseWhoMay
    <3>3. CASE d = record
      BY <3>3, <2>3, <2>5, <2>6
    <3> QED
      BY <3>1, <3>2, <3>3
  <2>8. TablesInv' /\ K!EachHisOwn' /\ \A show \in told' : show[1] \in DOMAIN kept'
    BY <1>1 DEF CommandsInv, TablesInv, K!EachHisOwn
  <2> QED
    BY <1>1, <1>2, <2>1, <2>2, <2>4, <2>7, <2>8, CommandGoesOn
<1>5. CASE ~K!Authorized(person, required)
  <2>1. talking' = [talking EXCEPT ![c] = K!Idle] /\ judged' = judged
    BY <1>5 DEF K!Authorize, K!Return
  <2> QED
    BY <1>1, <1>2, <2>1, IdleCommand, CommandGoesOnAlone
<1> QED
  BY <1>4, <1>5

LEMMA CommandSave ==
  ASSUME CommandsAssumption, CommandsInv, NEW c \in Caller, K!SaveDecision(c)
  PROVE  CommandsInv'
<1> DEFINE me == talking[c]
           r == [me EXCEPT !.at = "resume"]
           status == IF me.command = "aprovar" THEN "approved" ELSE "denied"
           saved == [approvals[me.n] EXCEPT !.status = status]
<1>1. /\ me.at = "save" /\ approvals' = [approvals EXCEPT ![me.n].status = status] /\ talking' = [talking EXCEPT ![c].at = "resume"]
      /\ UNCHANGED <<channel, people, area, tasks, kept, workspace, screen, judged, told, left, said, shifts>>
  BY DEF K!SaveDecision, K!ghosts, K!bounds, K!Goto
<1>2. me \in Asking /\ talking \in [Caller -> Asking] /\ AskedInv(me) /\ approvals \in Seq(K!Approval)
  BY CommandTypes DEF CommandsInv, TablesInv
<1>3. channel.allow_decisions /\ K!Decides(me.who) /\ me.n \in DOMAIN approvals
  BY <1>1, <1>2 DEF AskedInv
<1>4. talking' = [talking EXCEPT ![c] = r] /\ r \in Asking /\ r.at = "resume" /\ r.n = me.n /\ r.who = me.who
  BY <1>1, <1>2 DEF Asking
<1>5. saved \in K!Approval /\ saved.task = approvals[me.n].task
  <2>1. approvals[me.n] \in K!Approval
    BY <1>2, <1>3
  <2> QED
    BY <2>1 DEF K!Approval
<1>6. approvals' = [approvals EXCEPT ![me.n] = saved]
  BY <1>1, <1>2
<1> HIDE DEF saved, r, status
<1>7. /\ approvals' \in Seq(K!Approval) /\ DOMAIN approvals' = DOMAIN approvals
      /\ \A a \in DOMAIN approvals : approvals'[a].task = approvals[a].task
  BY <1>2, <1>3, <1>5, <1>6
<1>8. AskedInv(talking[c])'
  BY <1>1, <1>2, <1>3, <1>4, <1>7 DEF AskedInv
<1>9. TablesInv'
  BY <1>1, <1>7 DEF CommandsInv, TablesInv
<1>10. BoundsInv' /\ K!DecidedByThoseWhoMay' /\ K!EachHisOwn' /\ \A show \in told' : show[1] \in DOMAIN kept'
  BY <1>1 DEF CommandsInv, BoundsInv, K!DecidedByThoseWhoMay, K!EachHisOwn
<1> QED
  BY <1>1, <1>4, <1>7, <1>8, <1>9, <1>10, CommandGoesOn

LEMMA CommandResume ==
  ASSUME CommandsAssumption, CommandsInv, NEW c \in Caller, K!Resume(c)
  PROVE  CommandsInv'
<1> DEFINE me == talking[c]
           t == approvals[me.n].task
<1>1. /\ me.at = "resume" /\ talking' = [talking EXCEPT ![c] = K!Idle]
      /\ UNCHANGED <<channel, people, area, kept, workspace, screen, judged, told, left, said, shifts>>
  BY DEF K!Resume, K!ghosts, K!bounds, K!Return
<1>2. PICK status \in {"completed", "failed", "requires_approval"}, required \in Required :
        /\ tasks' = [tasks EXCEPT ![t].status = status]
        /\ approvals' = IF status = "requires_approval"
                        THEN Append(approvals, [task |-> t, status |-> "pending", required |-> required])
                        ELSE approvals
  BY DEF K!Resume
<1> DEFINE ended == [tasks[t] EXCEPT !.status = status]
           asked == [task |-> t, status |-> "pending", required |-> required]
<1>3. /\ talking \in [Caller -> Asking] /\ tasks \in Seq(K!Task) /\ approvals \in Seq(K!Approval) /\ kept \in Seq(Item)
      /\ me.n \in DOMAIN approvals /\ t \in DOMAIN tasks /\ screen \in [Sender -> SUBSET DOMAIN approvals]
      /\ \A a \in DOMAIN approvals : approvals[a].task \in DOMAIN tasks
      /\ \A a \in DOMAIN kept : kept[a].task <= Len(tasks)
  BY <1>1, CommandTypes DEF CommandsInv, TablesInv, AskedInv
<1>4. ended \in K!Task /\ tasks' = [tasks EXCEPT ![t] = ended]
  <2>1. tasks[t] \in K!Task
    BY <1>3
  <2> QED
    BY <2>1, <1>2, <1>3 DEF K!Task
<1>5. asked \in K!Approval /\ asked.task = t
  <2>1. t \in Nat
    BY <1>3
  <2> QED
    BY <2>1 DEF K!Approval
<1> HIDE DEF ended, asked, t
<1>6. tasks' \in Seq(K!Task) /\ DOMAIN tasks' = DOMAIN tasks /\ Len(tasks') = Len(tasks)
  BY <1>3, <1>4
<1>7. approvals' = approvals \/ approvals' = Append(approvals, asked)
  BY <1>2 DEF asked
<1>8. /\ approvals' \in Seq(K!Approval) /\ DOMAIN approvals \subseteq DOMAIN approvals'
      /\ \A a \in DOMAIN approvals' : (a \in DOMAIN approvals /\ approvals'[a] = approvals[a]) \/ approvals'[a] = asked
  <2>1. CASE approvals' = approvals
    BY <2>1, <1>3
  <2>2. CASE approvals' = Append(approvals, asked)
    BY <2>2, <1>3, <1>5, Longer
  <2> QED
    BY <2>1, <2>2, <1>7
<1>9. TablesInv'
  <2>1. \A a \in DOMAIN approvals' : approvals'[a].task \in DOMAIN tasks'
    BY <1>3, <1>5, <1>6, <1>8
  <2>2. screen' \in [Sender -> SUBSET DOMAIN approvals']
    BY <1>1, <1>3, <1>8
  <2> QED
    BY <2>1, <2>2, <1>1, <1>3, <1>6, <1>8 DEF TablesInv
<1>10. BoundsInv' /\ K!DecidedByThoseWhoMay' /\ K!EachHisOwn' /\ \A show \in told' : show[1] \in DOMAIN kept'
  BY <1>1 DEF CommandsInv, BoundsInv, K!DecidedByThoseWhoMay, K!EachHisOwn
<1>11. K!Idle \in Asking /\ AskedInv(talking[c])'
  BY <1>1, <1>3, IdleCommand DEF AskedInv, K!Idle
<1> QED
  BY <1>1, <1>8, <1>9, <1>10, <1>11, CommandGoesOn

LEMMA CommandAttachment ==
  ASSUME CommandsAssumption, CommandsInv, NEW c \in Caller, K!Attachment(c)
  PROVE  CommandsInv'
<1> DEFINE me == talking[c]
           show == <<me.n, me.s>>
<1>1. /\ talking' = [talking EXCEPT ![c] = K!Idle]
      /\ UNCHANGED <<channel, people, area, tasks, approvals, kept, workspace, screen, judged, left, said, shifts>>
      /\ told' = told \/ (told' = told \cup {show} /\ me.n \in DOMAIN kept /\ kept[me.n].of = me.s)
  BY DEF K!Attachment, K!bounds, K!Return, K!IsOwn
<1>2. \A one \in told' : one \in told \/ (one = show /\ me.n \in DOMAIN kept /\ kept[me.n].of = me.s)
  BY <1>1
<1>3. show[1] = me.n /\ show[2] = me.s
  OBVIOUS
<1> HIDE DEF show
<1>4. K!EachHisOwn' /\ \A one \in told' : one[1] \in DOMAIN kept'
  BY <1>1, <1>2, <1>3 DEF CommandsInv, K!EachHisOwn
<1>5. TablesInv' /\ BoundsInv' /\ K!DecidedByThoseWhoMay'
  BY <1>1 DEF CommandsInv, TablesInv, BoundsInv, K!DecidedByThoseWhoMay
<1>6. K!Idle \in Asking /\ AskedInv(talking[c])'
  BY <1>1, CommandTypes, IdleCommand DEF AskedInv, K!Idle
<1> QED
  BY <1>1, <1>4, <1>5, <1>6, CommandGoesOn

LEMMA CommandFileChecked ==
  ASSUME CommandsAssumption, CommandsInv, NEW c \in Caller, K!FileChecked(c)
  PROVE  CommandsInv'
<1> DEFINE me == talking[c]
           r == [me EXCEPT !.at = "send", !.size = workspace[me.file]]
<1>1. UNCHANGED <<channel, people, area, tasks, approvals, kept, workspace, screen, judged, told, left, said, shifts>>
  BY DEF K!FileChecked, K!ghosts, K!bounds
<1>2. BoundsInv'
  BY <1>1 DEF CommandsInv, BoundsInv
<1>3. me \in Asking /\ talking \in [Caller -> Asking]
  BY CommandTypes
<1>4. CASE K!Outbound(me.file)
  <2>1. talking' = [talking EXCEPT ![c] = r]
    BY <1>3, <1>4 DEF K!FileChecked
  <2>2. workspace[me.file] = "small" /\ me.file \in OutboundRoots
    BY <1>4 DEF K!Outbound
  <2>3. r \in Asking /\ AskedInv(r)
    BY <1>3, <2>2 DEF Asking, AskedInv
  <2> HIDE DEF r
  <2> QED
    BY <1>1, <1>2, <2>1, <2>3, CommandGoesOnAlone
<1>5. CASE ~K!Outbound(me.file)
  <2>1. talking' = [talking EXCEPT ![c] = K!Idle]
    BY <1>5 DEF K!FileChecked, K!Return
  <2> QED
    BY <1>1, <1>2, <2>1, IdleCommand, CommandGoesOnAlone
<1> QED
  BY <1>4, <1>5

LEMMA CommandDeliver ==
  ASSUME CommandsAssumption, CommandsInv, NEW c \in Caller, K!Deliver(c)
  PROVE  CommandsInv'
<1> DEFINE me == talking[c]
           going == [file |-> me.file, checked |-> me.size, size |-> workspace[me.file]]
<1>1. /\ me.at = "send" /\ talking' = [talking EXCEPT ![c] = K!Idle]
      /\ UNCHANGED <<channel, people, area, tasks, approvals, kept, workspace, screen, judged, told, said, shifts>>
      /\ \A one \in left' : one \in left \/ one = going
  BY DEF K!Deliver, K!bounds, K!Return
<1>2. AskedInv(me)
  BY CommandTypes
<1>3. going.file \in OutboundRoots /\ going.checked = "small"
  BY <1>1, <1>2 DEF AskedInv
<1> HIDE DEF going
<1>4. K!EachHisOwn' /\ \A one \in told' : one[1] \in DOMAIN kept'
  BY <1>1, <1>3 DEF CommandsInv, K!EachHisOwn
<1>5. TablesInv' /\ BoundsInv' /\ K!DecidedByThoseWhoMay'
  BY <1>1 DEF CommandsInv, TablesInv, BoundsInv, K!DecidedByThoseWhoMay
<1>6. K!Idle \in Asking /\ AskedInv(talking[c])'
  BY <1>1, CommandTypes, IdleCommand DEF AskedInv, K!Idle
<1> QED
  BY <1>1, <1>4, <1>5, <1>6, CommandGoesOn

\* What happens meanwhile touches nobody who is at it.
LEMMA CommandMeanwhile ==
  ASSUME CommandsAssumption, CommandsInv, K!ChangePerson \/ K!ChangeArea \/ K!DecideElsewhere \/ K!ChangeFile
  PROVE  CommandsInv'
<1>1. shifts < MaxShifts /\ shifts' = shifts + 1 /\ UNCHANGED <<channel, kept, screen, talking, judged, told, left, said>>
  BY DEF K!ChangePerson, K!ChangeArea, K!DecideElsewhere, K!ChangeFile, K!Change, K!ghosts
<1>2. BoundsInv'
  BY <1>1, CommandsAssumption DEF CommandsInv, BoundsInv
<1>3. K!DecidedByThoseWhoMay' /\ K!EachHisOwn' /\ \A show \in told' : show[1] \in DOMAIN kept'
  BY <1>1 DEF CommandsInv, K!DecidedByThoseWhoMay, K!EachHisOwn
<1>4. ASSUME WorldInv', TablesInv', DOMAIN approvals' = DOMAIN approvals
      PROVE  CommandsInv'
  BY <1>1, <1>2, <1>3, <1>4 DEF CommandsInv, AskedInv
<1>5. /\ tasks \in Seq(K!Task) /\ approvals \in Seq(K!Approval) /\ kept \in Seq(Item)
      /\ \A a \in DOMAIN approvals : approvals[a].task \in DOMAIN tasks
      /\ \A a \in DOMAIN kept : kept[a].task <= Len(tasks)
      /\ screen \in [Sender -> SUBSET DOMAIN approvals]
      /\ people \in [Sender -> K!Person] /\ area \in Area /\ workspace \in [DeskFile -> {"none", "small", "big"}]
  BY DEF CommandsInv, TablesInv, WorldInv
<1>6. CASE K!ChangePerson
  <2>1. PICK s \in Sender : \E person \in Folk[s] \cup {[people[s] EXCEPT !.active = FALSE]} : people' = [people EXCEPT ![s] = person]
    BY <1>6 DEF K!ChangePerson
  <2>2. PICK person \in Folk[s] \cup {[people[s] EXCEPT !.active = FALSE]} : people' = [people EXCEPT ![s] = person]
    BY <2>1
  <2>3. person \in K!Person
    <3>1. people[s] \in K!Person
      BY <1>5
    <3>2. [people[s] EXCEPT !.active = FALSE] \in K!Person
      BY <3>1 DEF K!Person
    <3> QED
      BY <3>2, CommandsAssumption
  <2>4. people' \in [Sender -> K!Person] /\ UNCHANGED <<area, workspace, tasks, approvals>>
    BY <1>5, <1>6, <2>2, <2>3 DEF K!ChangePerson
  <2> QED
    BY <1>1, <1>4, <1>5, <2>4 DEF WorldInv, TablesInv
<1>7. CASE K!ChangeArea
  BY <1>1, <1>4, <1>5, <1>7 DEF WorldInv, TablesInv, K!ChangeArea
<1>8. CASE K!ChangeFile
  <2>1. workspace' \in [DeskFile -> {"none", "small", "big"}] /\ UNCHANGED <<people, area, tasks, approvals>>
    BY <1>5, <1>8 DEF K!ChangeFile
  <2> QED
    BY <1>1, <1>4, <1>5, <2>1 DEF WorldInv, TablesInv
<1>9. CASE K!DecideElsewhere
  <2>1. PICK a \in DOMAIN approvals : /\ approvals' = [approvals EXCEPT ![a].status = "denied"]
                                      /\ tasks' = [tasks EXCEPT ![approvals[a].task].status = "completed"]
    BY <1>9 DEF K!DecideElsewhere
  <2> DEFINE t == approvals[a].task
             denied == [approvals[a] EXCEPT !.status = "denied"]
             done == [tasks[t] EXCEPT !.status = "completed"]
  <2>2. approvals[a] \in K!Approval /\ t \in DOMAIN tasks
    BY <1>5
  <2>3. tasks[t] \in K!Task
    BY <1>5, <2>2
  <2>4. denied \in K!Approval /\ denied.task = t /\ approvals' = [approvals EXCEPT ![a] = denied]
    BY <1>5, <2>1, <2>2 DEF K!Approval
  <2>5. done \in K!Task /\ tasks' = [tasks EXCEPT ![t] = done]
    BY <1>5, <2>1, <2>2, <2>3 DEF K!Task
  <2> HIDE DEF denied, done
  <2>6. /\ approvals' \in Seq(K!Approval) /\ DOMAIN approvals' = DOMAIN approvals
        /\ \A b \in DOMAIN approvals : approvals'[b].task = approvals[b].task
    BY <1>5, <2>4
  <2>7. tasks' \in Seq(K!Task) /\ DOMAIN tasks' = DOMAIN tasks /\ Len(tasks') = Len(tasks)
    BY <1>5, <2>2, <2>5
  <2>8. UNCHANGED <<people, area, workspace>>
    BY <1>9 DEF K!DecideElsewhere
  <2> QED
    BY <1>1, <1>4, <1>5, <2>6, <2>7, <2>8 DEF WorldInv, TablesInv
<1> QED
  BY <1>6, <1>7, <1>8, <1>9

LEMMA CommandsInitially == ASSUME CommandsAssumption, K!Init PROVE CommandsInv
<1>1. /\ tasks \in Seq(K!Task) /\ approvals \in Seq(K!Approval) /\ kept \in Seq(Item)
      /\ DOMAIN tasks = {} /\ DOMAIN approvals = {} /\ DOMAIN kept = {}
  BY DEF K!Init
<1>2. screen \in [Sender -> SUBSET DOMAIN approvals]
  BY DEF K!Init
<1>3. people \in [Sender -> K!Person]
  BY CommandsAssumption DEF K!Init
<1>4. WorldInv /\ TablesInv /\ BoundsInv
  BY <1>1, <1>2, <1>3, CommandsAssumption DEF WorldInv, TablesInv, BoundsInv, K!Init
<1>5. K!DecidedByThoseWhoMay /\ K!EachHisOwn /\ \A show \in told : show[1] \in DOMAIN kept
  BY DEF K!Init, K!DecidedByThoseWhoMay, K!EachHisOwn
<1>6. talking \in [Caller -> Asking] /\ \A c \in Caller : AskedInv(talking[c])
  BY IdleCommand DEF K!Init
<1>7. channel \in [identity_required : BOOLEAN, allow_decisions : BOOLEAN, allow_attachments : BOOLEAN]
  BY DEF K!Init
<1> QED
  BY <1>4, <1>5, <1>6, <1>7 DEF CommandsInv

LEMMA CommandsSteps ==
  ASSUME CommandsAssumption, CommandsInv, [K!Next]_K!vars
  PROVE  CommandsInv'
<1>1. CASE UNCHANGED K!vars
  BY <1>1 DEF K!vars, CommandsInv, WorldInv, TablesInv, BoundsInv, AskedInv, K!DecidedByThoseWhoMay, K!EachHisOwn
<1>2. ASSUME NEW c \in Caller, NEW s \in Sender,
             \/ K!Message(c, s, "run", 0, K!NoFile) \/ K!Press(c, s)
             \/ \E n \in 1..(Len(approvals) + 1), command \in {"aprovar", "recusar"} : K!Message(c, s, command, n, K!NoFile)
             \/ \E n \in 1..(Len(kept) + 1) : K!Message(c, s, "anexo", n, K!NoFile)
             \/ \E f \in DeskFile : K!Message(c, s, "arquivo", 0, f)
      PROVE  CommandsInv'
  <2>1. {"run", "aprovar", "recusar", "anexo", "arquivo"} \subseteq K!Commands /\ K!NoFile \in DeskFile
    BY IdleCommand DEF K!Commands
  <2>2. Len(approvals) + 1 \in Nat /\ Len(kept) + 1 \in Nat
    BY <1>2, CommandTypes
  <2>3. /\ \A n \in 1..(Len(approvals) + 1) : n \in Nat
        /\ \A n \in 1..(Len(kept) + 1) : n \in Nat
    BY <2>2
  <2> QED
    BY <1>2, <2>1, <2>3, CommandMessage, CommandPress
<1>3. ASSUME NEW c \in Caller,
             \/ K!Run(c) \/ K!Choices(c) \/ K!Decide(c) \/ K!Authorize(c) \/ K!SaveDecision(c) \/ K!Resume(c)
             \/ K!Attachment(c) \/ K!FileChecked(c) \/ K!Deliver(c)
      PROVE  CommandsInv'
  BY <1>3, CommandRun, CommandChoices, CommandDecide, CommandAuthorize, CommandSave, CommandResume,
     CommandAttachment, CommandFileChecked, CommandDeliver
<1> QED
  BY <1>1, <1>2, <1>3, CommandMeanwhile DEF K!Next

-----------------------------------------------------------------------------
(* Messaging: the inductive invariant *)

Handling == [at : {"idle", "discover", "in", "deny", "count", "who", "again", "ensure", "create", "roles",
                   "serve", "check", "bind", "unbind", "disable", "disabling"},
             goal : {"message", "pair", "block", "unpair"}, s : Correspondent, b : M!Binding, who : M!Entry,
             roles : BOOLEAN, wrong : BOOLEAN, fresh : BOOLEAN]

\* What is about to be written of a principal.
HandledInv(r) ==
  /\ r.at \in {"create", "roles"} => r.who.there
  /\ r.goal = "pair" => ~r.fresh
  /\ r.at = "check" => r.goal = "pair"
  /\ r.at = "in" => r.goal # "pair"
  /\ r.at = "disabling" => r.who.there /\ ~r.who.active

\* A silenced sender has a principal who is not active, and nobody who is at it
\* is about to write one who is.
StillInv(r) ==
  r.at # "idle" /\ r.s \in silenced => r.goal # "pair" /\ r.at # "create" /\ (r.at = "roles" => ~r.who.active)
SilentInv ==
  /\ \A s \in silenced : senders[s].there /\ ~senders[s].active
  /\ \A c \in Caller : StillInv(handler[c])
LateInv == \A c \in late : handler[c].at \notin {"idle", "serve"} /\ handler[c].s \in silenced

\* Every message of this minute is one of its hits; those that were let in were
\* not yet too many, with all that are under way and were counted before.
LetIn == {"who", "again", "ensure", "create", "roles", "serve"}
Fresh(s) == {c \in Caller : handler[c].s = s /\ handler[c].fresh}
Past(s) == {c \in Fresh(s) : handler[c].at \in LetIn}
RhythmInv ==
  \A s \in Correspondent : /\ answered[s] + Cardinality(Fresh(s)) <= hits[s]
                           /\ answered[s] + Cardinality(Past(s)) <= Limit

MessagingInv ==
  /\ bindings \in [Correspondent -> M!Binding] /\ senders \in [Correspondent -> M!Entry]
  /\ hits \in [Correspondent -> Nat] /\ answered \in [Correspondent -> Nat]
  /\ handler \in [Caller -> Handling] /\ silenced \subseteq Correspondent /\ late \subseteq Caller
  /\ commands \in 0..MaxCommands /\ messages \in 0..MaxMessages /\ minutes \in 0..MaxMinutes
  /\ \A c \in Caller : HandledInv(handler[c])
  /\ SilentInv /\ LateInv /\ RhythmInv

LEMMA Counted ==
  ASSUME MessagingAssumption, NEW s
  PROVE  /\ IsFiniteSet(Fresh(s)) /\ IsFiniteSet(Past(s)) /\ Past(s) \subseteq Fresh(s)
         /\ Cardinality(Fresh(s)) \in Nat /\ Cardinality(Past(s)) \in Nat /\ Cardinality(Past(s)) <= Cardinality(Fresh(s))
<1>1. Fresh(s) \subseteq Caller /\ Past(s) \subseteq Fresh(s)
  BY DEF Fresh, Past
<1>2. IsFiniteSet(Fresh(s)) /\ IsFiniteSet(Past(s))
  BY <1>1, MessagingAssumption, FS_Subset
<1> QED
  BY <1>1, <1>2, FS_Subset, FS_CardinalityType

LEMMA HandlingTypes ==
  ASSUME MessagingAssumption, MessagingInv, NEW c \in Caller
  PROVE  /\ handler \in [Caller -> Handling] /\ handler[c] \in Handling /\ handler[c].s \in Correspondent /\ handler[c].who \in M!Entry
         /\ handler[c].b \in M!Binding /\ senders[handler[c].s] \in M!Entry /\ bindings[handler[c].s] \in M!Binding
         /\ HandledInv(handler[c]) /\ StillInv(handler[c])
         /\ MaxCommands \in Nat /\ MaxMessages \in Nat /\ MaxMinutes \in Nat /\ Limit \in Nat
<1>1. handler \in [Caller -> Handling] /\ HandledInv(handler[c]) /\ StillInv(handler[c])
  BY DEF MessagingInv, SilentInv
<1>2. handler[c] \in Handling
  BY <1>1
<1>3. handler[c].s \in Correspondent /\ handler[c].who \in M!Entry /\ handler[c].b \in M!Binding
  BY <1>2 DEF Handling
<1>4. senders[handler[c].s] \in M!Entry /\ bindings[handler[c].s] \in M!Binding
  BY <1>3 DEF MessagingInv
<1> QED
  BY <1>1, <1>2, <1>3, <1>4, MessagingAssumption

LEMMA IdleHandler ==
  ASSUME MessagingAssumption
  PROVE  /\ M!Idle \in Handling /\ M!Idle.at = "idle" /\ ~M!Idle.fresh /\ HandledInv(M!Idle) /\ M!NoBinding \in M!Binding
         /\ M!Idle.goal = "message"
<1>1. (CHOOSE s \in Correspondent : TRUE) \in Correspondent
  BY MessagingAssumption
<1>2. M!NoBinding \in M!Binding /\ M!Nobody \in M!Entry
  BY DEF M!NoBinding, M!Binding, M!Nobody, M!Entry
<1>3. M!Idle \in Handling
  BY <1>1, <1>2 DEF M!Idle, Handling
<1> QED
  BY <1>2, <1>3 DEF M!Idle, HandledInv

\* No caller more is counted: the rhythm is kept.
LEMMA RhythmStays ==
  ASSUME MessagingAssumption, MessagingInv, NEW c \in Caller, NEW r \in Handling, handler' = [handler EXCEPT ![c] = r],
         r.fresh => handler[c].fresh /\ r.s = handler[c].s /\ (r.at \in LetIn => handler[c].at \in LetIn),
         hits' \in [Correspondent -> Nat], \A s \in Correspondent : hits[s] <= hits'[s], answered' = answered
  PROVE  RhythmInv'
<1> SUFFICES ASSUME NEW s \in Correspondent
             PROVE  /\ answered'[s] + Cardinality(Fresh(s)') <= hits'[s]
                    /\ answered'[s] + Cardinality(Past(s)') <= Limit
  BY DEF RhythmInv
<1>1. handler \in [Caller -> Handling] /\ handler'[c] = r /\ \A d \in Caller \ {c} : handler'[d] = handler[d]
  BY HandlingTypes
<1>2. Fresh(s)' \subseteq Fresh(s)
  BY <1>1 DEF Fresh
<1>3. Past(s)' \subseteq Past(s)
  BY <1>1, <1>2 DEF Past, Fresh
<1>4. /\ Cardinality(Fresh(s)') <= Cardinality(Fresh(s)) /\ Cardinality(Past(s)') <= Cardinality(Past(s))
      /\ Cardinality(Fresh(s)') \in Nat /\ Cardinality(Past(s)') \in Nat
  BY <1>2, <1>3, Counted, FS_Subset, FS_CardinalityType
<1>5. Cardinality(Fresh(s)) \in Nat /\ Cardinality(Past(s)) \in Nat /\ hits[s] \in Nat /\ hits'[s] \in Nat /\ answered[s] \in Nat
      /\ Limit \in Nat /\ hits[s] <= hits'[s]
  BY Counted, HandlingTypes DEF MessagingInv
<1>6. answered[s] + Cardinality(Fresh(s)) <= hits[s] /\ answered[s] + Cardinality(Past(s)) <= Limit
  BY DEF MessagingInv, RhythmInv
<1> HIDE DEF Fresh, Past
<1> QED
  BY <1>4, <1>5, <1>6

\* c goes on, and writes no binding but of its sender and no principal.
LEMMA HandlerGoesOn ==
  ASSUME MessagingAssumption, MessagingInv, NEW c \in Caller, NEW r \in Handling, handler' = [handler EXCEPT ![c] = r],
         HandledInv(r), StillInv(r), late' \subseteq late, c \in late' => r.at \notin {"idle", "serve"} /\ r.s = handler[c].s,
         bindings' \in [Correspondent -> M!Binding], UNCHANGED <<senders, silenced, commands, messages, minutes>>,
         hits' \in [Correspondent -> Nat], answered' \in [Correspondent -> Nat], RhythmInv'
  PROVE  MessagingInv'
<1>1. handler' \in [Caller -> Handling] /\ handler'[c] = r /\ \A d \in Caller \ {c} : handler'[d] = handler[d]
  BY HandlingTypes
<1>2. \A d \in Caller : HandledInv(handler'[d])
  BY <1>1, HandlingTypes
<1>3. ASSUME NEW d \in Caller
      PROVE  StillInv(handler[d])'
  <2>1. StillInv(handler[d]) /\ StillInv(r)
    BY HandlingTypes
  <2>2. handler'[d] = r \/ handler'[d] = handler[d]
    BY <1>1
  <2> QED
    BY <2>1, <2>2 DEF StillInv
<1>4. SilentInv'
  BY <1>3 DEF SilentInv, MessagingInv
<1>5. LateInv'
  BY <1>1 DEF LateInv, MessagingInv
<1>6. \A d \in Caller : HandledInv(handler[d])'
  BY <1>2 DEF HandledInv
<1> QED
  BY <1>1, <1>4, <1>5, <1>6 DEF MessagingInv

-----------------------------------------------------------------------------
(* Messaging: the steps *)

\* c goes on with another stage, and neither counts nor is counted anew.
LEMMA HandlerMoves ==
  ASSUME MessagingAssumption, MessagingInv, NEW c \in Caller, handler[c].at # "idle", NEW r \in Handling,
         handler' = [handler EXCEPT ![c] = r], r.s = handler[c].s, r.goal = handler[c].goal, r.at # "idle",
         r.fresh = handler[c].fresh, r.at \in LetIn => handler[c].at \in LetIn, HandledInv(r), StillInv(r),
         late' = late, c \in late => r.at # "serve", bindings' \in [Correspondent -> M!Binding],
         UNCHANGED <<senders, hits, silenced, answered, commands, messages, minutes>>
  PROVE  MessagingInv'
<1>1. RhythmInv'
  <2>1. hits \in [Correspondent -> Nat] /\ \A s \in Correspondent : hits[s] <= hits[s]
    BY DEF MessagingInv
  <2> QED
    BY <2>1, RhythmStays
<1>2. hits' \in [Correspondent -> Nat] /\ answered' \in [Correspondent -> Nat]
  BY DEF MessagingInv
<1> QED
  BY <1>1, <1>2, HandlerGoesOn

\* c is done.
LEMMA HandlerReturns ==
  ASSUME MessagingAssumption, MessagingInv, NEW c \in Caller, M!Return(c), bindings' \in [Correspondent -> M!Binding],
         UNCHANGED <<senders, silenced, commands, messages, minutes, answered>>,
         hits' \in [Correspondent -> Nat], \A s \in Correspondent : hits[s] <= hits'[s]
  PROVE  MessagingInv'
<1>1. handler' = [handler EXCEPT ![c] = M!Idle] /\ late' = late \ {c}
  BY DEF M!Return
<1>2. M!Idle \in Handling /\ HandledInv(M!Idle) /\ StillInv(M!Idle) /\ ~M!Idle.fresh
  BY IdleHandler DEF StillInv
<1>3. RhythmInv'
  BY <1>1, <1>2, RhythmStays
<1>4. answered' \in [Correspondent -> Nat]
  BY DEF MessagingInv
<1> QED
  BY <1>1, <1>2, <1>3, <1>4, HandlerGoesOn

LEMMA SameHits ==
  ASSUME MessagingInv, hits' = hits
  PROVE  hits' \in [Correspondent -> Nat] /\ \A s \in Correspondent : hits[s] <= hits'[s]
BY DEF MessagingInv

LEMMA BindingSaved ==
  ASSUME MessagingAssumption, MessagingInv, NEW c \in Caller, M!SaveBinding(c, handler[c].b)
  PROVE  bindings' \in [Correspondent -> M!Binding]
BY HandlingTypes DEF MessagingInv, M!SaveBinding

LEMMA HandlerDiscovers ==
  ASSUME MessagingAssumption, MessagingInv, NEW c \in Caller, M!Discover(c)
  PROVE  MessagingInv'
<1> DEFINE me == handler[c]
           r == [me EXCEPT !.at = IF me.goal = "pair" THEN "check" ELSE "in"]
<1>1. /\ me.at = "discover" /\ M!SaveBinding(c, me.b) /\ handler' = [handler EXCEPT ![c] = r] /\ late' = late
      /\ UNCHANGED <<senders, hits, silenced, answered, commands, messages, minutes>>
  BY HandlingTypes DEF M!Discover, M!Goto, M!bounds
<1>2. me \in Handling /\ StillInv(me) /\ HandledInv(me)
  BY HandlingTypes
<1>3. r \in Handling /\ r.s = me.s /\ r.goal = me.goal /\ r.fresh = me.fresh /\ r.at \in {"check", "in"}
  BY <1>2 DEF Handling
<1>4. HandledInv(r) /\ StillInv(r) /\ r.at \notin LetIn
  BY <1>1, <1>2, <1>3 DEF HandledInv, StillInv, LetIn
<1> HIDE DEF r
<1> QED
  BY <1>1, <1>3, <1>4, BindingSaved, HandlerMoves

LEMMA HandlerEnsures ==
  ASSUME MessagingAssumption, MessagingInv, NEW c \in Caller, M!Ensure(c)
  PROVE  MessagingInv'
<1> DEFINE me == handler[c]
           entry == senders[me.s]
           who == [there |-> TRUE, active |-> entry.there => entry.active]
           r == [me EXCEPT !.at = IF entry.there THEN "roles" ELSE "create", !.who = who]
<1>1. /\ me.at = "ensure" /\ late' = late /\ handler' = [handler EXCEPT ![c] = r]
      /\ UNCHANGED <<bindings, senders, hits, silenced, answered, commands, messages, minutes>>
  BY HandlingTypes DEF M!Ensure, M!bounds
<1>2. me \in Handling /\ me.s \in Correspondent /\ StillInv(me) /\ HandledInv(me) /\ entry \in M!Entry
  BY HandlingTypes
<1>3. who \in M!Entry /\ who.there /\ (who.active <=> (entry.there => entry.active))
  BY DEF M!Entry
<1> HIDE DEF who
<1>4. /\ r \in Handling /\ r.s = me.s /\ r.goal = me.goal /\ r.fresh = me.fresh /\ r.who = who
      /\ r.at = IF entry.there THEN "roles" ELSE "create"
  BY <1>2, <1>3 DEF Handling
<1>5. me.s \in silenced => entry.there /\ ~entry.active
  BY DEF MessagingInv, SilentInv
<1> HIDE DEF entry, r
<1>6. HandledInv(r) /\ r.at \in {"roles", "create"}
  BY <1>1, <1>2, <1>3, <1>4 DEF HandledInv
<1>7. StillInv(r)
  BY <1>1, <1>2, <1>3, <1>4, <1>5 DEF StillInv
<1>8. me.at \in LetIn /\ bindings' \in [Correspondent -> M!Binding]
  BY <1>1 DEF LetIn, MessagingInv
<1> QED
  BY <1>1, <1>4, <1>6, <1>7, <1>8, HandlerMoves

LEMMA HandlerRaises ==
  ASSUME MessagingAssumption, MessagingInv, NEW c \in Caller, M!EnsureRaises(c) \/ (M!Serve(c) /\ ~handler[c].fresh)
  PROVE  MessagingInv'
<1>1. M!Return(c) /\ UNCHANGED <<senders, hits, silenced, commands, messages, minutes>>
  BY DEF M!EnsureRaises, M!Serve, M!bounds
<1>2. bindings' \in [Correspondent -> M!Binding]
  <2>1. CASE M!EnsureRaises(c)
    BY <2>1 DEF M!EnsureRaises, MessagingInv
  <2>2. CASE M!Serve(c)
    BY <2>2, BindingSaved DEF M!Serve
  <2> QED
    BY <2>1, <2>2
<1>3. answered' = answered
  <2>1. CASE M!EnsureRaises(c)
    BY <2>1 DEF M!EnsureRaises
  <2>2. CASE M!Serve(c) /\ ~handler[c].fresh
    <3>1. answered \in [Correspondent -> Nat] /\ answered' = [answered EXCEPT ![handler[c].s] = @ + 0]
      BY <2>2 DEF M!Serve, MessagingInv
    <3> QED
      BY <3>1
  <2> QED
    BY <2>1, <2>2
<1> QED
  BY <1>1, <1>2, <1>3, SameHits, HandlerReturns

LEMMA HandlerDenies ==
  ASSUME MessagingAssumption, MessagingInv, NEW c \in Caller, M!Deny(c)
  PROVE  MessagingInv'
<1>1. /\ hits' = [hits EXCEPT ![handler[c].s] = @ + 1] /\ M!Return(c)
      /\ UNCHANGED <<bindings, senders, silenced, answered, commands, messages, minutes>>
  BY DEF M!Deny, M!bounds
<1>2. hits' \in [Correspondent -> Nat] /\ \A s \in Correspondent : hits[s] <= hits'[s]
  <2>1. hits \in [Correspondent -> Nat] /\ handler[c].s \in Correspondent
    BY HandlingTypes DEF MessagingInv
  <2> QED
    BY <1>1, <2>1
<1>3. bindings' \in [Correspondent -> M!Binding]
  BY <1>1 DEF MessagingInv
<1> QED
  BY <1>1, <1>2, <1>3, HandlerReturns

LEMMA HandlerAsksWho ==
  ASSUME MessagingAssumption, MessagingInv, NEW c \in Caller, M!Who(c)
  PROVE  MessagingInv'
<1> DEFINE me == handler[c]
           entry == IF me.b.linked THEN senders[me.s] ELSE M!Nobody
           stage == IF me.at = "who" /\ ~entry.there THEN "ensure" ELSE IF M!MayTalk(entry) THEN "serve" ELSE "deny"
           r == [me EXCEPT !.who = entry, !.at = stage]
<1>1. /\ me.at \in {"who", "again"} /\ late' = late /\ handler' = [handler EXCEPT ![c] = r]
      /\ UNCHANGED <<bindings, senders, hits, silenced, answered, commands, messages, minutes>>
  BY HandlingTypes DEF M!Who, M!bounds
<1>2. me \in Handling /\ me.s \in Correspondent /\ StillInv(me) /\ HandledInv(me) /\ entry \in M!Entry
  BY HandlingTypes DEF M!Nobody, M!Entry
<1>3. M!Nobody.there = FALSE
  BY DEF M!Nobody
<1>4. me.s \in silenced => ~M!MayTalk(entry)
  BY <1>3 DEF MessagingInv, SilentInv, M!MayTalk
<1> HIDE DEF entry
<1>5. stage \in {"ensure", "serve", "deny"} /\ (stage = "serve" => M!MayTalk(entry))
  OBVIOUS
<1> HIDE DEF stage
<1>6. r \in Handling /\ r.s = me.s /\ r.goal = me.goal /\ r.fresh = me.fresh /\ r.at = stage
  BY <1>2, <1>5 DEF Handling
<1> HIDE DEF r
<1>7. HandledInv(r) /\ StillInv(r) /\ r.at # "idle"
  BY <1>1, <1>2, <1>5, <1>6 DEF HandledInv, StillInv
<1>8. c \in late => r.at # "serve"
  BY <1>4, <1>5, <1>6 DEF MessagingInv, LateInv
<1>9. me.at \in LetIn /\ bindings' \in [Correspondent -> M!Binding]
  BY <1>1 DEF LetIn, MessagingInv
<1> QED
  BY <1>1, <1>6, <1>7, <1>8, <1>9, HandlerMoves

\* The message is one more, of its sender and of this minute.
LEMMA HandlerLogsIn ==
  ASSUME MessagingAssumption, MessagingInv, NEW c \in Caller, M!LogIn(c)
  PROVE  MessagingInv'
<1> DEFINE me == handler[c]
           stage == IF me.b.status = "blocked" \/ (RequirePairing /\ me.b.status # "active") THEN "deny" ELSE "count"
           r == [me EXCEPT !.fresh = TRUE, !.at = stage]
<1>1. /\ me.at = "in" /\ hits' = [hits EXCEPT ![me.s] = @ + 1] /\ handler' = [handler EXCEPT ![c] = r]
      /\ UNCHANGED <<late, bindings, senders, silenced, answered, commands, messages, minutes>>
  BY HandlingTypes DEF M!LogIn, M!bounds
<1>2. me \in Handling /\ me.s \in Correspondent /\ StillInv(me) /\ HandledInv(me) /\ handler \in [Caller -> Handling]
  BY HandlingTypes
<1>3. stage \in {"deny", "count"}
  OBVIOUS
<1> HIDE DEF stage
<1>4. r \in Handling /\ r.s = me.s /\ r.goal = me.goal /\ r.at = stage
  BY <1>2, <1>3 DEF Handling
<1> HIDE DEF r
<1>5. HandledInv(r) /\ StillInv(r) /\ r.at \notin {"idle", "serve"} /\ r.at \notin LetIn
  BY <1>1, <1>2, <1>3, <1>4 DEF HandledInv, StillInv, LetIn
<1>6. handler'[c] = r /\ \A d \in Caller \ {c} : handler'[d] = handler[d]
  BY <1>1, <1>2
<1>7. hits \in [Correspondent -> Nat] /\ answered \in [Correspondent -> Nat] /\ hits' \in [Correspondent -> Nat]
  BY <1>1, <1>2 DEF MessagingInv
<1>8. RhythmInv'
  <2> SUFFICES ASSUME NEW s \in Correspondent
               PROVE  /\ answered'[s] + Cardinality(Fresh(s)') <= hits'[s]
                      /\ answered'[s] + Cardinality(Past(s)') <= Limit
    BY DEF RhythmInv
  <2>1. Fresh(s)' \subseteq Fresh(s) \cup (IF s = me.s THEN {c} ELSE {})
    BY <1>4, <1>6 DEF Fresh
  <2>2. Past(s)' \subseteq Past(s)
    BY <1>4, <1>5, <1>6 DEF Past, Fresh
  <2>3. Cardinality(Fresh(s)') \in Nat /\ Cardinality(Fresh(s)') <= Cardinality(Fresh(s)) + (IF s = me.s THEN 1 ELSE 0)
    <3>0. IsFiniteSet(Fresh(s)) /\ Cardinality(Fresh(s)) \in Nat
      BY Counted
    <3>1. IsFiniteSet(Fresh(s) \cup {c}) /\ Cardinality(Fresh(s) \cup {c}) <= Cardinality(Fresh(s)) + 1
          /\ Cardinality(Fresh(s) \cup {c}) \in Nat
      <4> HIDE DEF Fresh
      <4> QED
        BY <3>0, CountMore
    <3>2. CASE s = me.s
      BY <2>1, <3>1, <3>2, FS_Subset, FS_CardinalityType, Counted
    <3>3. CASE s # me.s
      BY <2>1, <3>3, FS_Subset, FS_CardinalityType, Counted
    <3> QED
      BY <3>2, <3>3
  <2>4. Cardinality(Past(s)') \in Nat /\ Cardinality(Past(s)') <= Cardinality(Past(s))
    BY <2>2, FS_Subset, FS_CardinalityType, Counted
  <2>5. Cardinality(Fresh(s)) \in Nat /\ Cardinality(Past(s)) \in Nat /\ hits[s] \in Nat /\ answered[s] \in Nat /\ Limit \in Nat
    BY <1>7, Counted, HandlingTypes
  <2>6. answered[s] + Cardinality(Fresh(s)) <= hits[s] /\ answered[s] + Cardinality(Past(s)) <= Limit /\ answered'[s] = answered[s]
    BY <1>1 DEF MessagingInv, RhythmInv
  <2>7. hits'[s] = hits[s] + (IF s = me.s THEN 1 ELSE 0)
    BY <1>1, <1>7
  <2> HIDE DEF Fresh, Past
  <2> QED
    BY <2>3, <2>4, <2>5, <2>6, <2>7
<1>9. bindings' \in [Correspondent -> M!Binding] /\ answered' \in [Correspondent -> Nat]
  BY <1>1 DEF MessagingInv
<1> QED
  BY <1>1, <1>4, <1>5, <1>7, <1>8, <1>9, HandlerGoesOn

\* Who is counted while the hits are within the limit is let in: with all that
\* were let in or are about to be, he is among the hits.
LEMMA HandlerCounts ==
  ASSUME MessagingAssumption, MessagingInv, NEW c \in Caller, M!Count(c)
  PROVE  MessagingInv'
<1> DEFINE me == handler[c]
           stage == IF M!Limited(me.s) THEN "deny" ELSE "who"
           r == [me EXCEPT !.at = stage]
<1>1. /\ me.at = "count" /\ handler' = [handler EXCEPT ![c] = r] /\ late' = late
      /\ UNCHANGED <<bindings, senders, hits, silenced, answered, commands, messages, minutes>>
  BY HandlingTypes DEF M!Count, M!Goto, M!bounds
<1>2. me \in Handling /\ me.s \in Correspondent /\ StillInv(me) /\ HandledInv(me) /\ handler \in [Caller -> Handling]
  BY HandlingTypes
<1>3. stage \in {"deny", "who"} /\ (stage = "who" => ~(hits[me.s] > Limit))
  BY DEF M!Limited
<1> HIDE DEF stage
<1>4. r \in Handling /\ r.s = me.s /\ r.goal = me.goal /\ r.at = stage /\ r.fresh = me.fresh
  BY <1>2, <1>3 DEF Handling
<1> HIDE DEF r
<1>5. HandledInv(r) /\ StillInv(r) /\ r.at \notin {"idle", "serve"}
  BY <1>1, <1>2, <1>3, <1>4 DEF HandledInv, StillInv
<1>6. handler'[c] = r /\ \A d \in Caller \ {c} : handler'[d] = handler[d]
  BY <1>1, <1>2
<1>7. hits \in [Correspondent -> Nat] /\ answered \in [Correspondent -> Nat]
  BY DEF MessagingInv
<1>8. RhythmInv'
  <2> SUFFICES ASSUME NEW s \in Correspondent
               PROVE  /\ answered'[s] + Cardinality(Fresh(s)') <= hits'[s]
                      /\ answered'[s] + Cardinality(Past(s)') <= Limit
    BY DEF RhythmInv
  <2>1. Fresh(s)' = Fresh(s)
    BY <1>4, <1>6 DEF Fresh
  <2>2. Cardinality(Fresh(s)) \in Nat /\ Cardinality(Past(s)) \in Nat /\ hits[s] \in Nat /\ answered[s] \in Nat /\ Limit \in Nat
    BY <1>7, Counted, HandlingTypes
  <2>3. /\ answered[s] + Cardinality(Fresh(s)) <= hits[s] /\ answered[s] + Cardinality(Past(s)) <= Limit
        /\ answered'[s] = answered[s] /\ hits'[s] = hits[s]
    BY <1>1 DEF MessagingInv, RhythmInv
  <2>4. Past(s)' \subseteq Fresh(s)
    BY <2>1 DEF Past
  <2>5. CASE s = me.s /\ stage = "who"
    <3>1. Cardinality(Past(s)') \in Nat /\ Cardinality(Past(s)') <= Cardinality(Fresh(s))
      BY <2>4, FS_Subset, FS_CardinalityType, Counted
    <3>2. hits[s] <= Limit
      BY <1>3, <2>2, <2>5
    <3> HIDE DEF Fresh, Past
    <3> QED
      BY <2>1, <2>2, <2>3, <3>1, <3>2
  <2>6. CASE ~(s = me.s /\ stage = "who")
    <3>1. Past(s)' \subseteq Past(s)
      BY <1>3, <1>4, <1>6, <2>1, <2>6 DEF Past, Fresh, LetIn
    <3>2. Cardinality(Past(s)') \in Nat /\ Cardinality(Past(s)') <= Cardinality(Past(s))
      BY <3>1, FS_Subset, FS_CardinalityType, Counted
    <3> HIDE DEF Fresh, Past
    <3> QED
      BY <2>1, <2>2, <2>3, <3>2
  <2> QED
    BY <2>5, <2>6
<1>9. bindings' \in [Correspondent -> M!Binding] /\ answered' \in [Correspondent -> Nat] /\ hits' \in [Correspondent -> Nat]
  BY <1>1 DEF MessagingInv
<1> QED
  BY <1>1, <1>4, <1>5, <1>8, <1>9, HandlerGoesOn

\* Who is answered was let in, and is not under way any more.
LEMMA HandlerServes ==
  ASSUME MessagingAssumption, MessagingInv, NEW c \in Caller, M!Serve(c), handler[c].fresh
  PROVE  MessagingInv'
<1> DEFINE me == handler[c]
<1>1. /\ me.at = "serve" /\ M!SaveBinding(c, me.b) /\ answered' = [answered EXCEPT ![me.s] = @ + 1]
      /\ handler' = [handler EXCEPT ![c] = M!Idle] /\ late' = late \ {c}
      /\ UNCHANGED <<senders, hits, silenced, commands, messages, minutes>>
  BY DEF M!Serve, M!Return, M!bounds
<1>2. me.s \in Correspondent /\ handler \in [Caller -> Handling]
  BY HandlingTypes
<1>3. hits \in [Correspondent -> Nat] /\ answered \in [Correspondent -> Nat] /\ answered' \in [Correspondent -> Nat]
  BY <1>1, <1>2 DEF MessagingInv
<1>4. M!Idle \in Handling /\ HandledInv(M!Idle) /\ StillInv(M!Idle) /\ ~M!Idle.fresh
  BY IdleHandler DEF StillInv
<1>5. handler'[c] = M!Idle /\ \A d \in Caller \ {c} : handler'[d] = handler[d]
  BY <1>1, <1>2
<1>6. RhythmInv'
  <2> SUFFICES ASSUME NEW s \in Correspondent
               PROVE  /\ answered'[s] + Cardinality(Fresh(s)') <= hits'[s]
                      /\ answered'[s] + Cardinality(Past(s)') <= Limit
    BY DEF RhythmInv
  <2>1. Fresh(s)' \subseteq Fresh(s) \ {c} /\ Past(s)' \subseteq Past(s) \ {c}
    BY <1>4, <1>5 DEF Past, Fresh
  <2>2. Cardinality(Fresh(s)) \in Nat /\ Cardinality(Past(s)) \in Nat /\ hits[s] \in Nat /\ answered[s] \in Nat /\ Limit \in Nat
    BY <1>3, Counted, HandlingTypes
  <2>3. /\ answered[s] + Cardinality(Fresh(s)) <= hits[s] /\ answered[s] + Cardinality(Past(s)) <= Limit /\ hits'[s] = hits[s]
    BY <1>1 DEF MessagingInv, RhythmInv
  <2>4. answered'[s] = answered[s] + (IF s = me.s THEN 1 ELSE 0)
    BY <1>1, <1>3
  <2>5. s = me.s => c \in Fresh(s) /\ c \in Past(s)
    BY <1>1 DEF Past, Fresh, LetIn
  <2>6. /\ IsFiniteSet(Fresh(s) \ {c}) /\ Cardinality(Fresh(s) \ {c}) = Cardinality(Fresh(s)) - (IF s = me.s THEN 1 ELSE 0)
        /\ IsFiniteSet(Past(s) \ {c}) /\ Cardinality(Past(s) \ {c}) = Cardinality(Past(s)) - (IF s = me.s THEN 1 ELSE 0)
    <3>1. IsFiniteSet(Fresh(s)) /\ Cardinality(Fresh(s)) \in Nat /\ IsFiniteSet(Past(s)) /\ Cardinality(Past(s)) \in Nat
      BY Counted
    <3>2. CASE s = me.s
      BY <2>5, <3>1, <3>2, CountLess
    <3>3. CASE s # me.s
      <4>1. c \notin Fresh(s) /\ c \notin Past(s)
        BY <3>3 DEF Past, Fresh
      <4>2. Fresh(s) \ {c} = Fresh(s) /\ Past(s) \ {c} = Past(s)
        BY <4>1
      <4> HIDE DEF Fresh, Past
      <4> QED
        BY <3>1, <3>3, <4>2
    <3> QED
      BY <3>2, <3>3
  <2>7. /\ Cardinality(Fresh(s)') \in Nat /\ Cardinality(Fresh(s)') <= Cardinality(Fresh(s) \ {c})
        /\ Cardinality(Past(s)') \in Nat /\ Cardinality(Past(s)') <= Cardinality(Past(s) \ {c})
    BY <2>1, <2>6, FS_Subset, FS_CardinalityType
  <2> HIDE DEF Fresh, Past
  <2> QED
    BY <2>2, <2>3, <2>4, <2>5, <2>6, <2>7
<1>7. bindings' \in [Correspondent -> M!Binding] /\ hits' \in [Correspondent -> Nat]
  BY <1>1, <1>3, BindingSaved
<1> QED
  BY <1>1, <1>3, <1>4, <1>6, <1>7, HandlerGoesOn

\* Somebody begins, and is not counted yet.
LEMMA HandlerBegins ==
  ASSUME MessagingAssumption, MessagingInv, NEW c \in Caller, NEW r \in Handling, handler' = [handler EXCEPT ![c] = r],
         ~r.fresh, HandledInv(r), StillInv(handler[c])', silenced' \subseteq silenced, late' \subseteq Caller, LateInv',
         UNCHANGED <<bindings, senders, hits, answered, minutes>>, commands' \in 0..MaxCommands, messages' \in 0..MaxMessages
  PROVE  MessagingInv'
<1>1. handler' \in [Caller -> Handling] /\ handler'[c] = r /\ \A d \in Caller \ {c} : handler'[d] = handler[d]
  BY HandlingTypes
<1>2. \A d \in Caller : HandledInv(handler[d])'
  BY <1>1, HandlingTypes DEF HandledInv
<1>3. ASSUME NEW d \in Caller \ {c}
      PROVE  StillInv(handler[d])'
  BY <1>1, HandlingTypes DEF StillInv
<1>4. SilentInv'
  BY <1>3 DEF SilentInv, MessagingInv
<1>5. RhythmInv'
  <2>1. hits \in [Correspondent -> Nat] /\ \A s \in Correspondent : hits[s] <= hits[s]
    BY DEF MessagingInv
  <2> QED
    BY <2>1, RhythmStays
<1> QED
  BY <1>1, <1>2, <1>4, <1>5 DEF MessagingInv

\* Nobody who is idle is late; a sender who is freed has nobody late any more.
LEMMA LateAreBusy == ASSUME MessagingInv, NEW c \in Caller, handler[c].at = "idle" PROVE c \notin late
BY DEF MessagingInv, LateInv

LEMMA BindingsFor ==
  ASSUME MessagingAssumption, MessagingInv, NEW c \in Caller, NEW call \in Handling, NEW known \in {"in", "check"},
         M!BindingFor(c, call, known), ~call.fresh, known = "check" <=> call.goal = "pair"
  PROVE  \E r \in Handling : /\ handler' = [handler EXCEPT ![c] = r] /\ ~r.fresh /\ r.s = call.s /\ r.goal = call.goal
                             /\ r.at \in {known, "discover"} /\ HandledInv(r)
<1> DEFINE b == bindings[call.s]
           stage == IF b.there THEN known ELSE "discover"
           copy == IF b.there THEN b ELSE M!NewBinding
           r == [call EXCEPT !.at = stage, !.b = copy]
<1>1. handler' = [handler EXCEPT ![c] = r]
  BY DEF M!BindingFor
<1>2. stage \in {known, "discover"}
  OBVIOUS
<1>3. copy \in M!Binding
  <2>1. b \in M!Binding
    BY DEF MessagingInv, Handling
  <2>2. M!NewBinding \in M!Binding
    BY DEF M!NewBinding, M!NoBinding, M!Binding
  <2> QED
    BY <2>1, <2>2
<1> HIDE DEF stage, copy
<1>4. r \in Handling /\ r.fresh = call.fresh /\ r.s = call.s /\ r.goal = call.goal /\ r.at = stage
  BY <1>2, <1>3 DEF Handling
<1>5. HandledInv(r)
  BY <1>2, <1>4 DEF HandledInv
<1> HIDE DEF r
<1> QED
  BY <1>1, <1>2, <1>4, <1>5

LEMMA HandlerReceives ==
  ASSUME MessagingAssumption, MessagingInv, NEW c \in Caller, NEW s \in Correspondent, M!Receive(c, s)
  PROVE  MessagingInv'
<1> DEFINE call == [M!Idle EXCEPT !.s = s]
<1>1. /\ handler[c].at = "idle" /\ messages < MaxMessages /\ messages' = messages + 1 /\ M!BindingFor(c, call, "in")
      /\ late' = IF s \in silenced THEN late \cup {c} ELSE late
      /\ UNCHANGED <<bindings, senders, hits, silenced, answered, commands, minutes>>
  BY DEF M!Receive
<1>2. call \in Handling /\ ~call.fresh /\ call.s = s /\ call.goal = "message"
  BY IdleHandler DEF Handling
<1> HIDE DEF call
<1>3. PICK r \in Handling : /\ handler' = [handler EXCEPT ![c] = r] /\ ~r.fresh /\ r.s = s /\ r.goal = "message"
                            /\ r.at \in {"in", "discover"} /\ HandledInv(r)
  BY <1>1, <1>2, BindingsFor
<1>4. handler'[c] = r /\ \A d \in Caller \ {c} : handler'[d] = handler[d]
  BY <1>3, HandlingTypes
<1>5. StillInv(handler[c])'
  BY <1>3, <1>4 DEF StillInv
<1>6. late' \subseteq Caller /\ LateInv'
  <2>1. \A d \in late' : d \in late \ {c} \/ (d = c /\ s \in silenced)
    BY <1>1, LateAreBusy
  <2> QED
    BY <2>1, <1>1, <1>3, <1>4 DEF LateInv, MessagingInv
<1>7. messages' \in 0..MaxMessages /\ commands' \in 0..MaxCommands
  BY <1>1, HandlingTypes DEF MessagingInv
<1> QED
  BY <1>1, <1>3, <1>5, <1>6, <1>7, HandlerBegins

LEMMA HandlerPairs ==
  ASSUME MessagingAssumption, MessagingInv, NEW c \in Caller, NEW s \in Correspondent, NEW roles \in BOOLEAN, NEW wrong \in BOOLEAN,
         M!Pair(c, s, roles, wrong)
  PROVE  MessagingInv'
<1> DEFINE call == [M!Idle EXCEPT !.goal = "pair", !.s = s, !.roles = roles, !.wrong = wrong]
<1>1. /\ handler[c].at = "idle" /\ commands < MaxCommands /\ commands' = commands + 1 /\ M!BindingFor(c, call, "check")
      /\ silenced' = silenced \ {s} /\ late' = {d \in late : handler[d].s # s}
      /\ UNCHANGED <<bindings, senders, hits, answered, messages, minutes>>
  BY DEF M!Pair, M!Command, M!Freed
<1>2. call \in Handling /\ ~call.fresh /\ call.s = s /\ call.goal = "pair"
  BY IdleHandler DEF Handling
<1> HIDE DEF call
<1>3. PICK r \in Handling : /\ handler' = [handler EXCEPT ![c] = r] /\ ~r.fresh /\ r.s = s /\ r.goal = "pair"
                            /\ r.at \in {"check", "discover"} /\ HandledInv(r)
  BY <1>1, <1>2, BindingsFor
<1>4. handler'[c] = r /\ \A d \in Caller \ {c} : handler'[d] = handler[d]
  BY <1>3, HandlingTypes
<1>5. StillInv(handler[c])'
  BY <1>1, <1>3, <1>4 DEF StillInv
<1>6. late' \subseteq Caller /\ LateInv'
  <2>1. \A d \in late' : d \in late \ {c} /\ handler[d].s # s
    BY <1>1, LateAreBusy DEF MessagingInv
  <2> QED
    BY <2>1, <1>1, <1>4 DEF LateInv, MessagingInv
<1>7. messages' \in 0..MaxMessages /\ commands' \in 0..MaxCommands /\ silenced' \subseteq silenced
  BY <1>1, HandlingTypes DEF MessagingInv
<1> QED
  BY <1>1, <1>3, <1>5, <1>6, <1>7, HandlerBegins

LEMMA HandlerUnpairs ==
  ASSUME MessagingAssumption, MessagingInv, NEW c \in Caller, NEW s \in Correspondent, NEW block \in BOOLEAN, M!Unpair(c, s, block)
  PROVE  MessagingInv'
<1> DEFINE goal == IF block THEN "block" ELSE "unpair"
           status == IF block THEN "blocked" ELSE "pending"
           b == [bindings[s] EXCEPT !.status = status, !.coded = FALSE]
           r == [M!Idle EXCEPT !.at = "unbind", !.goal = goal, !.s = s, !.b = b]
<1>1. /\ handler[c].at = "idle" /\ commands < MaxCommands /\ commands' = commands + 1 /\ handler' = [handler EXCEPT ![c] = r]
      /\ UNCHANGED <<late, bindings, senders, hits, silenced, answered, messages, minutes>>
  BY DEF M!Unpair, M!Command
<1>2. goal \in {"block", "unpair"} /\ status \in {"blocked", "pending"}
  OBVIOUS
<1> HIDE DEF goal, status
<1>3. b \in M!Binding
  <2>1. bindings[s] \in M!Binding
    BY DEF MessagingInv
  <2> QED
    BY <2>1, <1>2 DEF M!Binding
<1> HIDE DEF b
<1>4. r \in Handling /\ r.at = "unbind" /\ r.goal = goal /\ ~r.fresh
  BY <1>2, <1>3, IdleHandler DEF Handling
<1> HIDE DEF r
<1>5. handler'[c] = r /\ \A d \in Caller \ {c} : handler'[d] = handler[d]
  BY <1>1, HandlingTypes
<1>6. HandledInv(r) /\ StillInv(handler[c])'
  BY <1>2, <1>4, <1>5 DEF StillInv, HandledInv
<1>7. late' \subseteq Caller /\ LateInv'
  BY <1>1, <1>5, LateAreBusy DEF LateInv, MessagingInv
<1>8. messages' \in 0..MaxMessages /\ commands' \in 0..MaxCommands /\ silenced' \subseteq silenced
  BY <1>1, HandlingTypes DEF MessagingInv
<1> QED
  BY <1>1, <1>4, <1>6, <1>7, <1>8, HandlerBegins

\* Enabling and removing free the sender.
LEMMA HandlerFrees ==
  ASSUME MessagingAssumption, MessagingInv, NEW c \in Caller, NEW s \in Correspondent, M!Enable(c, s) \/ M!Remove(c, s)
  PROVE  MessagingInv'
<1>1. /\ commands < MaxCommands /\ commands' = commands + 1 /\ silenced' = silenced \ {s} /\ late' = {d \in late : handler[d].s # s}
      /\ UNCHANGED <<bindings, hits, handler, answered, messages, minutes>> /\ senders \in [Correspondent -> M!Entry]
  BY DEF M!Enable, M!Remove, M!Command, M!Freed, MessagingInv
<1>2. \E e \in M!Entry : senders' = [senders EXCEPT ![s] = e]
  <2>1. CASE M!Enable(c, s)
    <3>1. senders[s] \in M!Entry /\ senders' = [senders EXCEPT ![s].active = TRUE]
      BY <1>1, <2>1 DEF M!Enable
    <3>2. [senders[s] EXCEPT !.active = TRUE] \in M!Entry /\ senders' = [senders EXCEPT ![s] = [senders[s] EXCEPT !.active = TRUE]]
      BY <3>1, <1>1 DEF M!Entry
    <3> QED
      BY <3>2
  <2>2. CASE M!Remove(c, s)
    <3>1. M!Nobody \in M!Entry
      BY DEF M!Nobody, M!Entry
    <3> QED
      BY <2>2, <3>1 DEF M!Remove
  <2> QED
    BY <2>1, <2>2
<1>3. senders' \in [Correspondent -> M!Entry] /\ \A t \in Correspondent \ {s} : senders'[t] = senders[t]
  BY <1>1, <1>2
<1>4. SilentInv'
  <2>1. \A t \in silenced' : t \in silenced /\ senders'[t] = senders[t]
    BY <1>1, <1>3 DEF MessagingInv
  <2>2. \A d \in Caller : StillInv(handler[d])'
    BY <1>1 DEF MessagingInv, SilentInv, StillInv
  <2> QED
    BY <2>1, <2>2 DEF MessagingInv, SilentInv
<1>5. LateInv'
  BY <1>1 DEF MessagingInv, LateInv
<1>6. RhythmInv'
  BY <1>1 DEF MessagingInv, RhythmInv, Past, Fresh
<1>7. messages' \in 0..MaxMessages /\ commands' \in 0..MaxCommands /\ silenced' \subseteq Correspondent /\ late' \subseteq Caller
  BY <1>1, HandlingTypes DEF MessagingInv
<1>8. \A d \in Caller : HandledInv(handler[d])'
  BY <1>1 DEF MessagingInv, HandledInv
<1> QED
  BY <1>1, <1>3, <1>4, <1>5, <1>6, <1>7, <1>8 DEF MessagingInv

LEMMA HandlerChecks ==
  ASSUME MessagingAssumption, MessagingInv, NEW c \in Caller, M!Check(c)
  PROVE  MessagingInv'
<1> DEFINE me == handler[c]
           b == [me.b EXCEPT !.status = "active"]
           r == [me EXCEPT !.at = "ensure", !.b = b]
           refused == (me.wrong /\ me.b.coded) \/ (me.b.status = "blocked" /\ ~me.roles)
<1>1. /\ me.at = "check" /\ UNCHANGED <<bindings, senders, hits, silenced, answered, commands, messages, minutes>>
      /\ IF refused THEN M!Return(c) ELSE handler' = [handler EXCEPT ![c].at = "ensure", ![c].b.status = "active"] /\ late' = late
  BY DEF M!Check, M!bounds
<1>2. me \in Handling /\ StillInv(me) /\ HandledInv(me) /\ me.b \in M!Binding /\ handler \in [Caller -> Handling]
  BY HandlingTypes
<1>3. bindings' \in [Correspondent -> M!Binding] /\ me.at # "idle"
  BY <1>1 DEF MessagingInv
<1> HIDE DEF refused
<1>4. CASE refused
  BY <1>1, <1>3, <1>4, SameHits, HandlerReturns
<1>5. CASE ~refused
  <2>1. handler' = [handler EXCEPT ![c] = r] /\ late' = late
    <3>1. handler' = [handler EXCEPT ![c].at = "ensure", ![c].b.status = "active"] /\ late' = late
      BY <1>1, <1>5
    <3>2. [handler EXCEPT ![c].at = "ensure", ![c].b.status = "active"] = [handler EXCEPT ![c] = r]
      BY <1>2
    <3> QED
      BY <3>1, <3>2
  <2>2. b \in M!Binding
    BY <1>2 DEF M!Binding
  <2> HIDE DEF b
  <2>3. r \in Handling /\ r.s = me.s /\ r.goal = me.goal /\ r.fresh = me.fresh /\ r.at = "ensure"
    BY <1>2, <2>2 DEF Handling
  <2>4. HandledInv(r) /\ StillInv(r)
    BY <1>1, <1>2, <2>3 DEF HandledInv, StillInv
  <2>5. ~r.fresh
    BY <1>1, <2>3, HandlingTypes DEF HandledInv
  <2> HIDE DEF r
  <2>6. RhythmInv'
    <3>1. hits \in [Correspondent -> Nat] /\ \A s \in Correspondent : hits[s] <= hits[s]
      BY DEF MessagingInv
    <3> QED
      BY <1>1, <2>1, <2>3, <2>5, <3>1, RhythmStays
  <2>7. hits' \in [Correspondent -> Nat] /\ answered' \in [Correspondent -> Nat]
    BY <1>1 DEF MessagingInv
  <2> QED
    BY <1>1, <1>3, <2>1, <2>3, <2>4, <2>6, <2>7, HandlerGoesOn
<1> QED
  BY <1>4, <1>5

\* What is written of a silenced sender is that he is not active.
LEMMA HandlerSaves ==
  ASSUME MessagingAssumption, MessagingInv, NEW c \in Caller, M!SavePrincipal(c)
  PROVE  MessagingInv'
<1> DEFINE me == handler[c]
           b == [me.b EXCEPT !.linked = TRUE]
           stage == IF me.goal = "pair" THEN "bind" ELSE "again"
           r == [me EXCEPT !.at = stage, !.b = b]
<1>1. /\ me.at \in {"create", "roles"} /\ senders' = [senders EXCEPT ![me.s] = me.who] /\ handler' = [handler EXCEPT ![c] = r]
      /\ UNCHANGED <<late, bindings, hits, silenced, answered, commands, messages, minutes>>
  BY HandlingTypes DEF M!SavePrincipal, M!bounds
<1>2. me \in Handling /\ StillInv(me) /\ HandledInv(me) /\ me.b \in M!Binding /\ me.who \in M!Entry /\ me.s \in Correspondent
      /\ handler \in [Caller -> Handling] /\ senders \in [Correspondent -> M!Entry]
  BY HandlingTypes DEF MessagingInv
<1>3. b \in M!Binding /\ stage \in {"bind", "again"}
  BY <1>2 DEF M!Binding
<1> HIDE DEF b, stage
<1>4. r \in Handling /\ r.s = me.s /\ r.goal = me.goal /\ r.fresh = me.fresh /\ r.at = stage
  BY <1>2, <1>3 DEF Handling
<1> HIDE DEF r
<1>5. HandledInv(r) /\ StillInv(r)
  BY <1>1, <1>2, <1>3, <1>4 DEF HandledInv, StillInv
<1>6. senders' \in [Correspondent -> M!Entry] /\ senders'[me.s] = me.who /\ \A t \in Correspondent \ {me.s} : senders'[t] = senders[t]
  BY <1>1, <1>2
<1>7. handler' \in [Caller -> Handling] /\ handler'[c] = r /\ \A d \in Caller \ {c} : handler'[d] = handler[d]
  BY <1>1, <1>2, <1>4
<1>8. SilentInv'
  <2>1. me.s \in silenced => me.who.there /\ ~me.who.active
    BY <1>1, <1>2 DEF StillInv, HandledInv
  <2>2. \A d \in Caller : StillInv(handler[d])'
    BY <1>1, <1>5, <1>7, HandlingTypes DEF StillInv
  <2>3. \A t \in silenced' : senders'[t].there /\ ~senders'[t].active
    BY <1>1, <1>6, <2>1 DEF MessagingInv, SilentInv
  <2> QED
    BY <2>2, <2>3 DEF SilentInv
<1>9. LateInv'
  BY <1>1, <1>3, <1>4, <1>7 DEF MessagingInv, LateInv
<1>10. RhythmInv'
  <2>1. hits \in [Correspondent -> Nat] /\ \A s \in Correspondent : hits[s] <= hits[s]
    BY DEF MessagingInv
  <2>2. me.at \in LetIn
    BY <1>1 DEF LetIn
  <2> QED
    BY <1>1, <1>4, <2>1, <2>2, RhythmStays
<1>11. \A d \in Caller : HandledInv(handler[d])'
  BY <1>5, <1>7, HandlingTypes DEF HandledInv
<1> QED
  BY <1>1, <1>6, <1>7, <1>8, <1>9, <1>10, <1>11 DEF MessagingInv

LEMMA HandlerBinds ==
  ASSUME MessagingAssumption, MessagingInv, NEW c \in Caller, M!Bind(c)
  PROVE  MessagingInv'
<1>1. /\ M!SaveBinding(c, handler[c].b) /\ M!Return(c)
      /\ UNCHANGED <<senders, hits, silenced, answered, commands, messages, minutes>>
  BY DEF M!Bind, M!bounds
<1> QED
  BY <1>1, SameHits, BindingSaved, HandlerReturns

LEMMA HandlerUnbinds ==
  ASSUME MessagingAssumption, MessagingInv, NEW c \in Caller, M!Unbind(c)
  PROVE  MessagingInv'
<1> DEFINE me == handler[c]
           r == [me EXCEPT !.at = "disable"]
<1>1. /\ me.at = "unbind" /\ M!SaveBinding(c, me.b) /\ UNCHANGED <<senders, hits, silenced, answered, commands, messages, minutes>>
      /\ M!Goto(c, "disable") \/ M!Return(c)
  BY DEF M!Unbind, M!bounds
<1>2. me \in Handling /\ StillInv(me) /\ HandledInv(me) /\ handler \in [Caller -> Handling]
  BY HandlingTypes
<1>3. CASE M!Return(c)
  BY <1>1, <1>3, SameHits, BindingSaved, HandlerReturns
<1>4. CASE M!Goto(c, "disable")
  <2>1. handler' = [handler EXCEPT ![c] = r] /\ late' = late
    BY <1>2, <1>4 DEF M!Goto
  <2>2. r \in Handling /\ r.s = me.s /\ r.goal = me.goal /\ r.fresh = me.fresh /\ r.at = "disable"
    BY <1>2 DEF Handling
  <2>3. HandledInv(r) /\ StillInv(r) /\ r.at \notin LetIn
    BY <1>1, <1>2, <2>2 DEF HandledInv, StillInv, LetIn
  <2> HIDE DEF r
  <2> QED
    BY <1>1, <2>1, <2>2, <2>3, BindingSaved, HandlerMoves
<1> QED
  BY <1>1, <1>3, <1>4

LEMMA HandlerReadsDisabled ==
  ASSUME MessagingAssumption, MessagingInv, NEW c \in Caller, M!ReadDisabled(c)
  PROVE  MessagingInv'
<1> DEFINE me == handler[c]
           entry == senders[me.s]
           who == [entry EXCEPT !.active = FALSE]
           r == [me EXCEPT !.at = "disabling", !.who = who]
<1>1. /\ me.at = "disable" /\ UNCHANGED <<bindings, senders, hits, silenced, answered, commands, messages, minutes>>
      /\ IF entry.there THEN handler' = [handler EXCEPT ![c].at = "disabling", ![c].who = who] /\ late' = late ELSE M!Return(c)
  BY DEF M!ReadDisabled, M!bounds
<1>2. me \in Handling /\ StillInv(me) /\ HandledInv(me) /\ entry \in M!Entry /\ handler \in [Caller -> Handling]
  BY HandlingTypes
<1>3. bindings' \in [Correspondent -> M!Binding]
  BY <1>1 DEF MessagingInv
<1>4. CASE ~entry.there
  <2> HIDE DEF entry
  <2> QED
    BY <1>1, <1>3, <1>4, SameHits, HandlerReturns
<1>5. CASE entry.there
  <2>1. handler' = [handler EXCEPT ![c] = r] /\ late' = late
    <3> HIDE DEF who, entry
    <3> QED
      BY <1>1, <1>2, <1>5
  <2>2. who \in M!Entry /\ who.there /\ ~who.active
    BY <1>2, <1>5 DEF M!Entry
  <2> HIDE DEF who
  <2>3. r \in Handling /\ r.s = me.s /\ r.goal = me.goal /\ r.fresh = me.fresh /\ r.at = "disabling" /\ r.who = who
    BY <1>2, <2>2 DEF Handling
  <2>4. HandledInv(r) /\ StillInv(r) /\ r.at \notin LetIn
    BY <1>1, <1>2, <2>2, <2>3 DEF HandledInv, StillInv, LetIn
  <2> HIDE DEF r, entry
  <2> QED
    BY <1>1, <1>3, <2>1, <2>3, <2>4, HandlerMoves
<1> QED
  BY <1>4, <1>5

\* From here on the sender is silenced, unless somebody is about to change that.
LEMMA HandlerDisables ==
  ASSUME MessagingAssumption, MessagingInv, NEW c \in Caller, M!SaveDisabled(c)
  PROVE  MessagingInv'
<1> DEFINE me == handler[c]
<1>1. /\ me.at = "disabling" /\ senders' = [senders EXCEPT ![me.s] = me.who]
      /\ silenced' = IF M!Disturbed(c) THEN silenced ELSE silenced \cup {me.s}
      /\ handler' = [handler EXCEPT ![c] = M!Idle] /\ late' = late \ {c}
      /\ UNCHANGED <<bindings, hits, answered, commands, messages, minutes>>
  BY DEF M!SaveDisabled, M!Return, M!bounds
<1>2. me.who.there /\ ~me.who.active /\ me.who \in M!Entry /\ me.s \in Correspondent
      /\ handler \in [Caller -> Handling] /\ senders \in [Correspondent -> M!Entry]
  BY <1>1, HandlingTypes DEF MessagingInv, HandledInv
<1>3. M!Idle \in Handling /\ HandledInv(M!Idle) /\ ~M!Idle.fresh /\ M!Idle.at = "idle"
  BY IdleHandler
<1>4. senders' \in [Correspondent -> M!Entry] /\ senders'[me.s] = me.who /\ \A t \in Correspondent \ {me.s} : senders'[t] = senders[t]
  BY <1>1, <1>2
<1>5. handler' \in [Caller -> Handling] /\ handler'[c] = M!Idle /\ \A d \in Caller \ {c} : handler'[d] = handler[d]
  BY <1>1, <1>2, <1>3
<1>6. SilentInv'
  <2>1. \A t \in silenced' : senders'[t].there /\ ~senders'[t].active
    BY <1>1, <1>2, <1>4 DEF MessagingInv, SilentInv
  <2>2. ASSUME NEW d \in Caller \ {c}
        PROVE  StillInv(handler[d])'
    <3>1. handler'[d] = handler[d] /\ StillInv(handler[d])
      BY <1>5, HandlingTypes
    <3>2. handler[d].s \in silenced' => handler[d].s \in silenced \/ (handler[d].s = me.s /\ ~M!Disturbed(c))
      BY <1>1
    <3>3. handler[d].at # "idle" /\ handler[d].s = me.s /\ ~M!Disturbed(c) => handler[d].goal = "message" /\ handler[d].at \notin {"create", "roles"}
      BY DEF M!Disturbed
    <3> QED
      BY <3>1, <3>2, <3>3 DEF StillInv
  <2>3. StillInv(handler[c])'
    BY <1>3, <1>5 DEF StillInv
  <2> QED
    BY <2>1, <2>2, <2>3 DEF SilentInv
<1>7. LateInv'
  BY <1>1, <1>5 DEF MessagingInv, LateInv
<1>8. RhythmInv'
  <2>1. hits \in [Correspondent -> Nat] /\ \A s \in Correspondent : hits[s] <= hits[s]
    BY DEF MessagingInv
  <2> QED
    BY <1>1, <1>3, <2>1, RhythmStays
<1>9. \A d \in Caller : HandledInv(handler[d])'
  BY <1>3, <1>5, HandlingTypes DEF HandledInv
<1>10. silenced' \subseteq Correspondent /\ late' \subseteq Caller
  BY <1>1, <1>2 DEF MessagingInv
<1> QED
  BY <1>1, <1>4, <1>5, <1>6, <1>7, <1>8, <1>9, <1>10 DEF MessagingInv

\* With the minute the count begins anew.
LEMMA HandlerTicks == ASSUME MessagingAssumption, MessagingInv, M!Tick PROVE MessagingInv'
<1>1. /\ minutes < MaxMinutes /\ minutes' = minutes + 1
      /\ hits' = [s \in Correspondent |-> 0] /\ answered' = [s \in Correspondent |-> 0]
      /\ handler' = [c \in Caller |-> [handler[c] EXCEPT !.fresh = FALSE]]
      /\ UNCHANGED <<late, bindings, senders, silenced, commands, messages>>
  BY DEF M!Tick
<1>2. ASSUME NEW c \in Caller
      PROVE  /\ handler'[c] \in Handling /\ ~handler'[c].fresh /\ HandledInv(handler'[c]) /\ StillInv(handler'[c])
             /\ handler'[c].s = handler[c].s /\ handler'[c].at = handler[c].at
  <2> DEFINE r == [handler[c] EXCEPT !.fresh = FALSE]
  <2>1. handler[c] \in Handling /\ handler'[c] = r /\ StillInv(handler[c]) /\ HandledInv(handler[c])
    BY <1>1, HandlingTypes
  <2>2. /\ r \in Handling /\ ~r.fresh /\ r.at = handler[c].at /\ r.s = handler[c].s /\ r.goal = handler[c].goal
        /\ r.who = handler[c].who
    BY <2>1 DEF Handling
  <2> HIDE DEF r
  <2>3. HandledInv(r) /\ StillInv(r)
    BY <2>1, <2>2 DEF HandledInv, StillInv
  <2> QED
    BY <2>1, <2>2, <2>3
<1>3. handler' \in [Caller -> Handling]
  <2>1. \A c \in Caller : handler'[c] \in Handling
    BY <1>2
  <2> QED
    BY <1>1, <2>1
<1>4. \A c \in Caller : StillInv(handler[c])' /\ HandledInv(handler[c])'
  BY <1>1, <1>2 DEF StillInv, HandledInv
<1>5. SilentInv' /\ LateInv'
  BY <1>1, <1>2, <1>4 DEF MessagingInv, SilentInv, LateInv
<1>6. RhythmInv'
  <2> SUFFICES ASSUME NEW s \in Correspondent
               PROVE  /\ answered'[s] + Cardinality(Fresh(s)') <= hits'[s]
                      /\ answered'[s] + Cardinality(Past(s)') <= Limit
    BY DEF RhythmInv
  <2>1. Fresh(s)' = {} /\ Past(s)' = {}
    BY <1>2 DEF Fresh, Past
  <2>2. Cardinality(Fresh(s)') = 0 /\ Cardinality(Past(s)') = 0
    BY <2>1, FS_EmptySet
  <2>3. answered'[s] = 0 /\ hits'[s] = 0 /\ Limit \in Nat
    BY <1>1, MessagingAssumption
  <2> HIDE DEF Fresh, Past
  <2> QED
    BY <2>2, <2>3
<1>7. minutes' \in 0..MaxMinutes /\ hits' \in [Correspondent -> Nat] /\ answered' \in [Correspondent -> Nat]
  BY <1>1, MessagingAssumption DEF MessagingInv
<1> QED
  BY <1>1, <1>3, <1>4, <1>5, <1>6, <1>7 DEF MessagingInv

LEMMA MessagingInitially == ASSUME MessagingAssumption, M!Init PROVE MessagingInv
<1>1. handler = [c \in Caller |-> M!Idle] /\ silenced = {} /\ late = {} /\ \A c \in Caller : handler[c] = M!Idle
  BY DEF M!Init
<1>2. handler \in [Caller -> Handling] /\ \A c \in Caller : HandledInv(handler[c]) /\ StillInv(handler[c]) /\ ~handler[c].fresh
  BY <1>1, IdleHandler DEF StillInv
<1>3. bindings \in [Correspondent -> M!Binding] /\ senders \in [Correspondent -> M!Entry]
  <2>1. M!Nobody \in M!Entry
    BY DEF M!Nobody, M!Entry
  <2> QED
    BY <2>1, IdleHandler DEF M!Init
<1>4. /\ hits \in [Correspondent -> Nat] /\ answered \in [Correspondent -> Nat]
      /\ commands \in 0..MaxCommands /\ messages \in 0..MaxMessages /\ minutes \in 0..MaxMinutes
  BY MessagingAssumption DEF M!Init
<1>5. SilentInv /\ LateInv
  BY <1>1, <1>2 DEF SilentInv, LateInv
<1>6. RhythmInv
  <2> SUFFICES ASSUME NEW s \in Correspondent
               PROVE  answered[s] + Cardinality(Fresh(s)) <= hits[s] /\ answered[s] + Cardinality(Past(s)) <= Limit
    BY DEF RhythmInv
  <2>1. Fresh(s) = {} /\ Past(s) = {}
    BY <1>2 DEF Fresh, Past
  <2>2. Cardinality(Fresh(s)) = 0 /\ Cardinality(Past(s)) = 0
    BY <2>1, FS_EmptySet
  <2>3. answered[s] = 0 /\ hits[s] = 0 /\ Limit \in Nat
    BY MessagingAssumption DEF M!Init
  <2> HIDE DEF Fresh, Past
  <2> QED
    BY <2>2, <2>3
<1> QED
  BY <1>1, <1>2, <1>3, <1>4, <1>5, <1>6 DEF MessagingInv

LEMMA MessagingSteps ==
  ASSUME MessagingAssumption, MessagingInv, [M!Next]_M!vars
  PROVE  MessagingInv'
<1>1. CASE UNCHANGED M!vars
  BY <1>1 DEF M!vars, M!bounds, MessagingInv, HandledInv, SilentInv, StillInv, LateInv, RhythmInv, Past, Fresh
<1>2. ASSUME NEW c \in Caller, NEW s \in Correspondent,
             \/ M!Receive(c, s) \/ M!Enable(c, s) \/ M!Remove(c, s)
             \/ \E roles, wrong \in BOOLEAN : M!Pair(c, s, roles, wrong)
             \/ \E block \in BOOLEAN : M!Unpair(c, s, block)
      PROVE  MessagingInv'
  BY <1>2, HandlerReceives, HandlerFrees, HandlerPairs, HandlerUnpairs
<1>3. ASSUME NEW c \in Caller,
             \/ M!Discover(c) \/ M!Ensure(c) \/ M!SavePrincipal(c) \/ M!EnsureRaises(c)
             \/ M!LogIn(c) \/ M!Count(c) \/ M!Who(c) \/ M!Serve(c) \/ M!Deny(c)
      PROVE  MessagingInv'
  BY <1>3, HandlerDiscovers, HandlerEnsures, HandlerSaves, HandlerRaises, HandlerLogsIn, HandlerCounts, HandlerAsksWho,
     HandlerServes, HandlerDenies
<1>4. ASSUME NEW c \in Caller, M!Check(c) \/ M!Bind(c) \/ M!Unbind(c) \/ M!ReadDisabled(c) \/ M!SaveDisabled(c)
      PROVE  MessagingInv'
  BY <1>4, HandlerChecks, HandlerBinds, HandlerUnbinds, HandlerReadsDisabled, HandlerDisables
<1> QED
  BY <1>1, <1>2, <1>3, <1>4, HandlerTicks DEF M!Next

LEMMA MessagingHolds == ASSUME MessagingAssumption, MessagingInv PROVE M!TypeOK /\ M!BlockedIsSilent /\ M!RhythmIsKept
<1>1. M!TypeOK
  BY DEF MessagingInv, M!TypeOK, Handling
<1>2. M!BlockedIsSilent
  BY DEF MessagingInv, LateInv, M!BlockedIsSilent
<1>3. ASSUME NEW s \in Correspondent
      PROVE  answered[s] <= Limit
  <2>1. answered[s] \in Nat /\ answered[s] + Cardinality(Past(s)) <= Limit
    BY DEF MessagingInv, RhythmInv
  <2> QED
    BY <2>1, Counted, MessagingAssumption
<1> QED
  BY <1>1, <1>2, <1>3 DEF M!RhythmIsKept

\* gateway/service.py: from the moment a sender's blocking has returned, no
\* message sent after it is served, and in no minute are more messages let in
\* than the limit; a decision of the channel was taken by somebody who might, and
\* nobody is shown what is another's or sent what is outside the declared roots.
THEOREM SendersHeld == M!Spec /\ K!Spec => []SendersAreHeld
<1>1. M!Init => MessagingInv
  BY MessagingAssumption, MessagingInitially
<1>2. MessagingInv /\ [M!Next]_M!vars => MessagingInv'
  BY MessagingAssumption, MessagingSteps
<1>3. K!Init => CommandsInv
  BY CommandsAssumption, CommandsInitially
<1>4. CommandsInv /\ [K!Next]_K!vars => CommandsInv'
  BY CommandsAssumption, CommandsSteps
<1>5. MessagingInv /\ CommandsInv => SendersAreHeld
  BY MessagingAssumption, MessagingHolds, CommandsTyped DEF CommandsInv, SendersAreHeld
<1> QED
  BY <1>1, <1>2, <1>3, <1>4, <1>5, PTL DEF M!Spec, K!Spec

\* FiniteSets as AuditExport knows it.
LEMMA SameCount == \A set : X!Cardinality(set) = Cardinality(set)
BY DEF X!Cardinality, Cardinality

-----------------------------------------------------------------------------
(* ChannelLoop: the inductive invariant *)

\* What is left of an answer follows on from the offset, or from what the Bot
\* API still keeps; what came before it was handled.
BatchInv ==
  /\ at = "poll" <=> batch = <<>>
  /\ \A i \in DOMAIN batch : batch[i] = batch[1] + i - 1
  /\ at = "handle" => offset <= batch[1] /\ \A u \in L!Update : u < batch[1] => begun[u] > 0
  /\ at = "deliver" => offset = batch[1] + 1

LoopInv ==
  /\ sent \in 0..MaxUpdates /\ confirmed \in 1..(MaxUpdates + 1) /\ offset \in 0..(MaxUpdates + 1)
  /\ batch \in Seq(L!Update) /\ at \in {"poll", "handle", "deliver"}
  /\ begun \in [L!Update -> Nat] /\ replied \in [L!Update -> Nat]
  /\ failures \in 0..MaxFailures /\ loopDeaths \in 0..MaxLoopDeaths
  /\ BatchInv
  /\ \A u \in L!Update : u < confirmed \/ u < offset => begun[u] > 0
  /\ \A u, v \in L!Update : u < v /\ begun[v] > 0 => begun[u] > 0
  /\ \A u \in L!Update : begun[u] <= loopDeaths + (IF u < offset THEN 1 ELSE 0)

LEMMA LoopTypes ==
  ASSUME LoopAssumption, LoopInv
  PROVE  /\ MaxUpdates \in Nat /\ MaxFailures \in Nat /\ MaxLoopDeaths \in Nat
         /\ sent \in Nat /\ confirmed \in Nat /\ offset \in Nat /\ failures \in Nat /\ loopDeaths \in Nat
         /\ Len(batch) \in Nat /\ DOMAIN batch = 1..Len(batch)
         /\ batch # <<>> => /\ 1 \in DOMAIN batch /\ batch[1] \in L!Update /\ batch[1] \in Nat /\ Head(batch) = batch[1]
                            /\ Len(batch) >= 1
<1>1. MaxUpdates \in Nat /\ MaxFailures \in Nat /\ MaxLoopDeaths \in Nat
  BY LoopAssumption
<1>2. batch \in Seq(L!Update)
  BY DEF LoopInv
<1>3. Len(batch) \in Nat /\ DOMAIN batch = 1..Len(batch) /\ (batch # <<>> => Len(batch) >= 1 /\ Head(batch) = batch[1])
  BY <1>2
<1>4. batch # <<>> => 1 \in DOMAIN batch /\ batch[1] \in L!Update
  BY <1>2, <1>3
<1> QED
  BY <1>1, <1>3, <1>4 DEF LoopInv, L!Update

LEMMA LoopFacts ==
  ASSUME LoopInv
  PROVE  /\ begun \in [L!Update -> Nat] /\ replied \in [L!Update -> Nat]
         /\ \A u \in L!Update : u \in Nat /\ u >= 1
         /\ \A u \in L!Update : begun[u] \in Nat
         /\ \A u \in L!Update : u < confirmed => begun[u] > 0
         /\ \A u \in L!Update : u < offset => begun[u] > 0
         /\ \A u, v \in L!Update : u < v /\ begun[v] > 0 => begun[u] > 0
         /\ \A u \in L!Update : begun[u] <= loopDeaths + (IF u < offset THEN 1 ELSE 0)
<1>1. begun \in [L!Update -> Nat] /\ replied \in [L!Update -> Nat]
  BY DEF LoopInv
<1>2. \A u \in L!Update : u \in Nat /\ u >= 1
  BY DEF L!Update
<1>3. \A u \in L!Update : begun[u] \in Nat
  BY <1>1
<1>4. \A u \in L!Update : u < confirmed => begun[u] > 0
  BY DEF LoopInv
<1>5. \A u \in L!Update : u < offset => begun[u] > 0
  BY DEF LoopInv
<1>6. \A u, v \in L!Update : u < v /\ begun[v] > 0 => begun[u] > 0
  BY DEF LoopInv
<1>7. \A u \in L!Update : begun[u] <= loopDeaths + (IF u < offset THEN 1 ELSE 0)
  BY DEF LoopInv
<1> QED
  BY <1>1, <1>2, <1>3, <1>4, <1>5, <1>6, <1>7

\* Something is asked for: from the offset on, or from where the API has got to.
LEMMA LoopPolls == ASSUME LoopAssumption, LoopInv, L!Poll PROVE LoopInv'
<1> DEFINE from == L!Larger(confirmed, offset)
           n == sent + 1 - from
<1>1. /\ at = "poll" /\ from <= sent /\ confirmed' = from /\ batch' = [i \in 1..n |-> from + i - 1] /\ at' = "handle"
      /\ UNCHANGED <<sent, offset, begun, replied, failures, loopDeaths>>
  BY DEF L!Poll, L!Confirmed
<1>2. /\ from \in Nat /\ from >= 1 /\ from >= confirmed /\ from >= offset /\ from \in {confirmed, offset} /\ sent <= MaxUpdates
      /\ from \in 1..(MaxUpdates + 1)
  BY LoopTypes DEF L!Larger, LoopInv
<1> HIDE DEF from
<1>3. n \in Nat /\ n >= 1
  BY <1>1, <1>2, LoopTypes
<1>4. \A i \in 1..n : from + i - 1 \in L!Update
  BY <1>1, <1>2, <1>3, LoopTypes DEF L!Update
<1>5. batch' \in Seq(L!Update) /\ DOMAIN batch' = 1..n /\ Len(batch') = n
  <2> HIDE DEF n
  <2> QED
    BY <1>1, <1>3, <1>4
<1>6. batch'[1] = from /\ batch' # <<>> /\ \A i \in DOMAIN batch' : batch'[i] = batch'[1] + i - 1
  <2>1. 1 \in 1..n
    BY <1>3
  <2> HIDE DEF n
  <2>2. batch'[1] = from
    BY <2>1, <1>1, <1>2
  <2> QED
    BY <2>1, <2>2, <1>1, <1>2, <1>3, <1>5
<1>7. \A u \in L!Update : u < from => begun[u] > 0
  BY <1>2, LoopFacts
<1>8. BatchInv'
  BY <1>1, <1>2, <1>6, <1>7 DEF BatchInv
<1>9. \A u \in L!Update : u < confirmed' \/ u < offset' => begun'[u] > 0
  BY <1>1, <1>2, <1>7 DEF LoopInv
<1> QED
  BY <1>1, <1>2, <1>5, <1>8, <1>9 DEF LoopInv

LEMMA LoopHandles == ASSUME LoopAssumption, LoopInv, L!Handle PROVE LoopInv'
<1> DEFINE h == batch[1]
<1>1. /\ at = "handle" /\ batch # <<>> /\ offset' = L!Larger(offset, h + 1) /\ begun' = [begun EXCEPT ![h] = @ + 1] /\ at' = "deliver"
      /\ UNCHANGED <<sent, confirmed, batch, replied, failures, loopDeaths>>
  BY LoopTypes DEF L!Handle
<1>2. /\ h \in L!Update /\ h \in Nat /\ h <= MaxUpdates /\ offset <= h /\ offset \in Nat
      /\ \A u \in L!Update : u < h => begun[u] > 0
  BY <1>1, LoopTypes DEF LoopInv, BatchInv, L!Update
<1>3. offset' = h + 1
  BY <1>1, <1>2 DEF L!Larger
<1>4. begun \in [L!Update -> Nat] /\ begun' \in [L!Update -> Nat] /\ begun'[h] = begun[h] + 1 /\ \A u \in L!Update \ {h} : begun'[u] = begun[u]
  <2> HIDE DEF h
  <2> QED
    BY <1>1, <1>2, LoopFacts
<1> HIDE DEF h
<1>5. \A u \in L!Update : u \in Nat /\ begun[u] \in Nat /\ begun'[u] \in Nat /\ begun[u] <= begun'[u]
  BY <1>4 DEF L!Update
<1>6. \A u \in L!Update : u < h + 1 => begun'[u] > 0
  BY <1>2, <1>4, <1>5
<1>7. \A u \in L!Update : u < confirmed' \/ u < offset' => begun'[u] > 0
  <2>1. \A u \in L!Update : u < confirmed => begun[u] > 0
    BY DEF LoopInv
  <2> QED
    BY <1>1, <1>3, <1>5, <1>6, <2>1
<1>8. ASSUME NEW u \in L!Update, NEW v \in L!Update, u < v, begun'[v] > 0
      PROVE  begun'[u] > 0
  <2>1. CASE v = h
    BY <1>2, <1>5, <1>6, <1>8, <2>1
  <2>2. CASE v # h
    <3>1. begun[u] > 0
      <4>1. begun[v] > 0
        BY <1>4, <1>8, <2>2
      <4> QED
        BY <4>1, <1>8, LoopFacts
    <3> QED
      BY <3>1, <1>5
  <2> QED
    BY <2>1, <2>2
<1>9. ASSUME NEW u \in L!Update
      PROVE  begun'[u] <= loopDeaths' + (IF u < offset' THEN 1 ELSE 0)
  <2>1. begun[u] <= loopDeaths + (IF u < offset THEN 1 ELSE 0)
    BY DEF LoopInv
  <2>2. loopDeaths' = loopDeaths /\ loopDeaths \in Nat /\ u \in Nat /\ begun[u] \in Nat
    BY <1>1, <1>5, LoopTypes
  <2>3. CASE u = h
    <3>1. begun[u] <= loopDeaths
      BY <1>2, <2>1, <2>2, <2>3
    <3>2. begun'[u] = begun[u] + 1 /\ u < offset'
      BY <1>2, <1>3, <1>4, <2>3
    <3> QED
      BY <2>2, <3>1, <3>2
  <2>4. CASE u # h
    <3>1. begun'[u] = begun[u]
      BY <1>4, <2>4
    <3>2. u < offset => u < offset'
      BY <1>2, <1>3, <2>2
    <3> QED
      BY <2>1, <2>2, <3>1, <3>2
  <2> QED
    BY <2>3, <2>4
<1>10. offset' \in 0..(MaxUpdates + 1)
  BY <1>2, <1>3, LoopTypes
<1>11. BatchInv'
  BY <1>1, <1>3 DEF LoopInv, BatchInv, h
<1> QED
  BY <1>1, <1>4, <1>7, <1>8, <1>9, <1>10, <1>11 DEF LoopInv

LEMMA LoopDelivers == ASSUME LoopAssumption, LoopInv, L!Deliver PROVE LoopInv'
<1> DEFINE h == batch[1]
<1>1. /\ at = "deliver" /\ replied' = [replied EXCEPT ![h] = @ + 1] /\ batch' = Tail(batch)
      /\ at' = (IF batch' = <<>> THEN "poll" ELSE "handle")
      /\ UNCHANGED <<sent, confirmed, offset, begun, failures, loopDeaths>> /\ batch # <<>>
  BY LoopTypes DEF L!Deliver, LoopInv, BatchInv
<1>2. h \in L!Update /\ h \in Nat /\ offset = h + 1 /\ batch \in Seq(L!Update) /\ Len(batch) >= 1 /\ Len(batch) \in Nat
  BY <1>1, LoopTypes DEF LoopInv, BatchInv
<1>3. /\ batch' \in Seq(L!Update) /\ Len(batch') = Len(batch) - 1 /\ DOMAIN batch' = 1..(Len(batch) - 1)
      /\ \A i \in DOMAIN batch' : batch'[i] = batch[i + 1] /\ i + 1 \in DOMAIN batch
  BY <1>1, <1>2
<1>4. replied' \in [L!Update -> Nat]
  <2> HIDE DEF h
  <2> QED
    BY <1>1, <1>2, LoopFacts
<1>5. \A i \in DOMAIN batch : batch[i] = h + i - 1
  BY DEF LoopInv, BatchInv
<1> HIDE DEF h
<1>6. \A i \in DOMAIN batch' : i \in Nat /\ batch'[i] = h + i
  BY <1>2, <1>3, <1>5
<1>7. batch' # <<>> => 1 \in DOMAIN batch'
  BY <1>3
<1>8. batch' # <<>> => batch'[1] = h + 1
  BY <1>6, <1>7
<1>9. BatchInv'
  <2>1. \A i \in DOMAIN batch' : batch'[i] = batch'[1] + i - 1
    <3> SUFFICES ASSUME NEW i \in DOMAIN batch' PROVE batch'[i] = batch'[1] + i - 1
      OBVIOUS
    <3>1. batch' # <<>>
      BY <1>3
    <3>2. i \in Nat /\ h \in Nat /\ batch'[i] = h + i /\ batch'[1] = h + 1
      BY <3>1, <1>2, <1>6, <1>8
    <3>3. h + i = (h + 1) + i - 1
      BY <3>2
    <3> QED
      BY <3>2, <3>3
  <2>2. at' = "handle" => offset' <= batch'[1] /\ \A u \in L!Update : u < batch'[1] => begun'[u] > 0
    <3> SUFFICES ASSUME batch' # <<>>
                 PROVE  offset' <= batch'[1] /\ \A u \in L!Update : u < batch'[1] => begun'[u] > 0
      BY <1>1
    <3>1. offset' = h + 1 /\ batch'[1] = h + 1 /\ h \in Nat /\ begun' = begun /\ offset = h + 1
      BY <1>1, <1>2, <1>8
    <3>2. offset' <= batch'[1]
      BY <3>1
    <3>3. \A u \in L!Update : u < offset => begun[u] > 0
      BY LoopFacts
    <3> QED
      BY <3>1, <3>2, <3>3
  <2>3. at' # "deliver" /\ (at' = "poll" <=> batch' = <<>>)
    BY <1>1
  <2> QED
    BY <2>1, <2>2, <2>3 DEF BatchInv
<1>10. at' \in {"poll", "handle"}
  BY <1>1
<1> QED
  BY <1>1, <1>3, <1>4, <1>9, <1>10 DEF LoopInv

LEMMA LoopStops == ASSUME LoopAssumption, LoopInv, L!Fail \/ L!Die \/ L!Send PROVE LoopInv'
<1>1. BatchInv'
  <2>1. CASE L!Fail \/ L!Die
    <3>1. batch' = <<>> /\ at' = "poll" /\ DOMAIN batch' = {}
      BY <2>1 DEF L!Fail, L!Die
    <3> QED
      BY <3>1 DEF BatchInv
  <2>2. CASE L!Send
    BY <2>2 DEF LoopInv, BatchInv, L!Send
  <2> QED
    BY <2>1, <2>2
<1>2. CASE L!Fail
  <2>1. failures' \in 0..MaxFailures /\ batch' \in Seq(L!Update)
    BY <1>2, LoopTypes DEF L!Fail
  <2> QED
    BY <1>1, <1>2, <2>1 DEF LoopInv, L!Fail
<1>3. CASE L!Die
  <2>1. /\ loopDeaths' = loopDeaths + 1 /\ loopDeaths' \in 0..MaxLoopDeaths /\ batch' \in Seq(L!Update) /\ offset' = 0
        /\ UNCHANGED <<sent, confirmed, begun, replied, failures>> /\ at' = "poll"
    BY <1>3, LoopTypes DEF L!Die
  <2>2. 0 \in 0..(MaxUpdates + 1)
    BY LoopTypes
  <2>3. ASSUME NEW u \in L!Update
        PROVE  begun'[u] <= loopDeaths' + (IF u < offset' THEN 1 ELSE 0)
    <3>1. begun[u] \in Nat /\ u \in Nat /\ begun[u] <= loopDeaths + (IF u < offset THEN 1 ELSE 0)
      BY LoopFacts
    <3> QED
      BY <2>1, <3>1, LoopTypes
  <2>4. \A u \in L!Update : u < confirmed' \/ u < offset' => begun'[u] > 0
    <3>1. \A u \in L!Update : ~(u < 0)
      BY DEF L!Update
    <3> QED
      BY <2>1, <3>1 DEF LoopInv
  <2> QED
    BY <1>1, <2>1, <2>2, <2>3, <2>4 DEF LoopInv
<1>4. CASE L!Send
  <2>1. sent' \in 0..MaxUpdates
    BY <1>4, LoopTypes DEF L!Send
  <2> QED
    BY <1>1, <1>4, <2>1 DEF LoopInv, L!Send
<1> QED
  BY <1>2, <1>3, <1>4

LEMMA LoopInitially == ASSUME LoopAssumption, L!Init PROVE LoopInv
<1>1. /\ sent = 0 /\ confirmed = 1 /\ offset = 0 /\ batch = <<>> /\ at = "poll" /\ failures = 0 /\ loopDeaths = 0
      /\ begun = [u \in L!Update |-> 0] /\ replied = [u \in L!Update |-> 0]
  BY DEF L!Init
<1>2. batch \in Seq(L!Update) /\ DOMAIN batch = {}
  BY <1>1
<1>3. BatchInv
  BY <1>1, <1>2 DEF BatchInv
<1>4. \A u \in L!Update : u \in Nat /\ u >= 1 /\ begun[u] = 0
  BY <1>1 DEF L!Update
<1>5. MaxUpdates \in Nat /\ MaxFailures \in Nat /\ MaxLoopDeaths \in Nat
  BY LoopAssumption
<1> QED
  BY <1>1, <1>2, <1>3, <1>4, <1>5 DEF LoopInv

LEMMA LoopSteps == ASSUME LoopAssumption, LoopInv, [L!Next]_L!vars PROVE LoopInv'
<1>1. CASE UNCHANGED L!vars
  BY <1>1 DEF L!vars, LoopInv, BatchInv
<1> QED
  BY <1>1, LoopPolls, LoopHandles, LoopDelivers, LoopStops DEF L!Next

LEMMA LoopHolds == ASSUME LoopAssumption, LoopInv PROVE L!TypeOK /\ L!NoUpdateIsSkipped
<1>1. L!TypeOK
  BY DEF LoopInv, L!TypeOK
<1>2. ASSUME NEW u \in L!Update
      PROVE  begun[u] <= 1 + loopDeaths
  <2>1. begun[u] \in Nat /\ begun[u] <= loopDeaths + (IF u < offset THEN 1 ELSE 0)
    BY DEF LoopInv
  <2> QED
    BY <2>1, LoopTypes
<1> QED
  BY <1>1, <1>2 DEF LoopInv, L!NoUpdateIsSkipped

-----------------------------------------------------------------------------
(* AuditExport: the inductive invariant *)

\* The hashes there are, and the rows one can put together without making one up.
Known == {ledger[i].hash : i \in DOMAIN ledger}
Entry == [seq : Nat, content : AuditKind \X Nat, prev_hash : Known \cup {X!GENESIS}, hash : Known]
Recorded(lines) == lines \in Seq(Entry) /\ \A i \in DOMAIN lines : \E j \in DOMAIN ledger : lines[i] = ledger[j]

LedgerInv ==
  /\ ledger \in Seq(Entry)
  /\ \A i \in DOMAIN ledger : /\ ledger[i].seq = i /\ ledger[i].content[2] = i - 1
                              /\ ledger[i].hash = <<ledger[i].prev_hash, ledger[i].content>>
                              /\ ledger[i].prev_hash = IF i = 1 THEN X!GENESIS ELSE ledger[i - 1].hash

ExportInv ==
  /\ LedgerInv
  /\ export \in [at : {"idle", "scan", "head"}, kinds : SUBSET AuditKind, rows : Seq(Entry)]
  /\ Recorded(export.rows) /\ Len(export.rows) <= Len(ledger)
  /\ file \in [written : BOOLEAN, count : Nat, head : Known \cup {X!GENESIS}, rows : Seq(Entry)]
  /\ Len(file.rows) <= Len(ledger)
  /\ edited \in BOOLEAN /\ tampering \in 0..MaxTampering
  /\ ~edited => Recorded(file.rows) /\ file.count = Len(file.rows)

\* Every place in the order of a set of numbers is taken.
Rank(set, i) == Cardinality({j \in set : j <= i})

LEMMA Ranked ==
  ASSUME NEW max \in Nat, NEW set, set \subseteq 1..max
  PROVE  /\ IsFiniteSet(set) /\ Cardinality(set) \in Nat /\ Cardinality(set) <= max
         /\ \A n \in 1..Cardinality(set) : \E i \in set : Rank(set, i) = n
<1> DEFINE upto(k) == {j \in set : j <= k}
<1>1. IsFiniteSet(1..max) /\ Cardinality(1..max) = max
  BY Numbered
<1>2. ASSUME NEW some, some \subseteq 1..max
      PROVE  IsFiniteSet(some) /\ Cardinality(some) \in Nat /\ Cardinality(some) <= max
  BY <1>1, <1>2, FS_Subset, FS_CardinalityType
<1> HIDE DEF upto
<1>3. \A k \in Nat : upto(k) \subseteq 1..max /\ (\A j : j \in upto(k) <=> j \in set /\ j <= k)
  BY DEF upto
<1>4. \A j \in set : j \in 1..max /\ j \in Nat /\ 1 <= j /\ j <= max
  OBVIOUS
<1>5. ASSUME NEW n \in 1..Cardinality(set)
      PROVE  \E i \in set : Cardinality(upto(i)) = n
  <2>0. Cardinality(set) \in Nat /\ Cardinality(set) <= max
    BY <1>2
  <2>1. n \in Nat /\ n >= 1 /\ n <= Cardinality(set) /\ Cardinality(set) \in Nat /\ Cardinality(set) <= max
    BY <2>0
  <2>2. \A k \in Nat : IsFiniteSet(upto(k)) /\ Cardinality(upto(k)) \in Nat
    <3> SUFFICES ASSUME NEW k \in Nat PROVE IsFiniteSet(upto(k)) /\ Cardinality(upto(k)) \in Nat
      OBVIOUS
    <3>1. upto(k) \subseteq 1..max
      BY <1>3
    <3> QED
      BY <1>2, <3>1
  <2> DEFINE enough == {k \in 1..max : Cardinality(upto(k)) >= n}
  <2>3. max \in enough
    <3>1. upto(max) = set
      BY <1>4, <1>3
    <3>2. max >= 1 /\ Cardinality(upto(max)) >= n
      BY <3>1, <2>1
    <3> QED
      BY <3>2
  <2>4. PICK k \in enough : \A j \in enough : k <= j
    <3>1. enough \subseteq Nat /\ enough # {}
      <4>1. enough \subseteq Nat
        OBVIOUS
      <4> HIDE DEF enough
      <4> QED
        BY <4>1, <2>3
    <3> HIDE DEF enough
    <3> QED
      BY <3>1, LeastNumber
  <2>5. k \in 1..max /\ k \in Nat /\ k - 1 \in Nat /\ Cardinality(upto(k)) >= n
    OBVIOUS
  <2>6. Cardinality(upto(k - 1)) < n
    <3>1. CASE k = 1
      <4>1. upto(k - 1) = {}
        BY <3>1, <1>4, <1>3
      <4> QED
        BY <4>1, <2>1, FS_EmptySet
    <3>2. CASE k # 1
      <4>1. k - 1 \in 1..max /\ ~(k <= k - 1)
        BY <2>5, <3>2
      <4>2. k - 1 \notin enough
        BY <4>1, <2>4
      <4>3. ~(Cardinality(upto(k - 1)) >= n)
        BY <4>1, <4>2
      <4>4. Cardinality(upto(k - 1)) \in Nat
        BY <2>2, <2>5
      <4> QED
        BY <4>3, <4>4, <2>1
    <3> QED
      BY <3>1, <3>2
  <2>7. k \in set
    <3> SUFFICES ASSUME k \notin set PROVE FALSE
      OBVIOUS
    <3>1. upto(k) = upto(k - 1)
      BY <2>5, <1>4, <1>3
    <3>2. Cardinality(upto(k)) = Cardinality(upto(k - 1)) /\ Cardinality(upto(k)) \in Nat
      BY <3>1, <2>2, <2>5
    <3> QED
      BY <3>2, <2>1, <2>5, <2>6
  <2>8. upto(k) = upto(k - 1) \cup {k}
    BY <2>5, <2>7, <1>4, <1>3
  <2>9. Cardinality(upto(k)) <= Cardinality(upto(k - 1)) + 1
    <3>1. IsFiniteSet(upto(k - 1)) /\ Cardinality(upto(k - 1)) \in Nat
      BY <2>2, <2>5
    <3> QED
      BY <3>1, <2>8, CountMore
  <2>10. Cardinality(upto(k)) \in Nat /\ Cardinality(upto(k - 1)) \in Nat
    BY <2>2, <2>5
  <2>11. Cardinality(upto(k)) = n
    <3> QED
      BY <2>1, <2>5, <2>6, <2>9, <2>10
  <2> QED
    BY <2>7, <2>11
<1>6. IsFiniteSet(set) /\ Cardinality(set) \in Nat /\ Cardinality(set) <= max
  BY <1>2
<1> QED
  BY <1>5, <1>6 DEF upto, Rank

LEMMA ExportTypes ==
  ASSUME LedgerInv
  PROVE  /\ Len(ledger) \in Nat /\ DOMAIN ledger = 1..Len(ledger) /\ ledger \in Seq(Entry)
         /\ \A i \in DOMAIN ledger : /\ i \in Nat /\ 1 <= i /\ i <= Len(ledger) /\ ledger[i] \in Entry /\ ledger[i].seq = i
                                     /\ ledger[i].content[2] = i - 1
                                     /\ ledger[i].hash = <<ledger[i].prev_hash, ledger[i].content>>
                                     /\ i = 1 => ledger[i].prev_hash = X!GENESIS
                                     /\ i # 1 => i - 1 \in DOMAIN ledger /\ ledger[i].prev_hash = ledger[i - 1].hash
<1>1. ledger \in Seq(Entry)
  BY DEF LedgerInv
<1>2. Len(ledger) \in Nat /\ DOMAIN ledger = 1..Len(ledger) /\ \A i \in DOMAIN ledger : ledger[i] \in Entry
  BY <1>1
<1>3. \A i \in DOMAIN ledger : i \in Nat /\ 1 <= i /\ i <= Len(ledger) /\ (i # 1 => i - 1 \in DOMAIN ledger)
  BY <1>2
<1> QED
  BY <1>1, <1>2, <1>3 DEF LedgerInv

LEMMA ExportRecords ==
  ASSUME LedgerInv, NEW kind \in AuditKind, ledger' = X!Recorded(kind)
  PROVE  /\ LedgerInv' /\ Len(ledger') = Len(ledger) + 1 /\ Entry \subseteq Entry' /\ Known \subseteq Known'
         /\ \A i \in DOMAIN ledger : i \in DOMAIN ledger' /\ ledger'[i] = ledger[i]
<1> DEFINE n == Len(ledger)
           r == X!Row(n + 1, <<kind, n>>, X!LedgerHead)
<1>1. n \in Nat /\ DOMAIN ledger = 1..n /\ ledger \in Seq(Entry) /\ ledger' = Append(ledger, r)
  BY ExportTypes DEF X!Recorded
<1>2. r = [seq |-> n + 1, content |-> <<kind, n>>, prev_hash |-> X!LedgerHead, hash |-> <<X!LedgerHead, <<kind, n>>>>]
  BY DEF X!Row, X!chain_hash
<1>3. X!LedgerHead = IF n = 0 THEN X!GENESIS ELSE ledger[n].hash
  BY <1>1 DEF X!LedgerHead, X!Last
<1> HIDE DEF r
<1>4. r.seq = n + 1 /\ r.content = <<kind, n>> /\ r.prev_hash = X!LedgerHead /\ r.hash = <<r.prev_hash, r.content>> /\ r.content \in AuditKind \X Nat
  BY <1>1, <1>2
<1>5. /\ ledger' \in Seq(Entry \cup {r}) /\ Len(ledger') = n + 1 /\ DOMAIN ledger' = 1..(n + 1) /\ DOMAIN ledger \subseteq DOMAIN ledger'
      /\ \A i \in DOMAIN ledger : ledger'[i] = ledger[i]
      /\ ledger'[n + 1] = r /\ n + 1 \in DOMAIN ledger' /\ n + 1 \notin DOMAIN ledger
      /\ \A i \in DOMAIN ledger' : i \in DOMAIN ledger \/ i = n + 1
  <2>1. ledger \in Seq(Entry \cup {r})
    <3>1. \A i \in 1..Len(ledger) : ledger[i] \in Entry \cup {r}
      BY <1>1
    <3> QED
      BY <1>1, <3>1, Retyped
  <2> QED
    BY <1>1, <2>1, Longer
<1>6. Known \subseteq Known' /\ r.hash \in Known'
  <2>1. \A i \in DOMAIN ledger : i \in DOMAIN ledger' /\ ledger'[i].hash = ledger[i].hash
    BY <1>5
  <2> QED
    BY <1>5, <2>1 DEF Known
<1>7. Entry \subseteq Entry'
  BY <1>6 DEF Entry
<1>8. r \in Entry'
  <2>1. r.prev_hash \in Known' \cup {X!GENESIS}
    <3>1. CASE n = 0
      BY <1>3, <1>4, <3>1
    <3>2. CASE n # 0
      <4>1. n \in DOMAIN ledger
        BY <1>1, <3>2
      <4>2. ledger[n].hash \in Known
        BY <4>1 DEF Known
      <4> QED
        BY <1>3, <1>4, <1>6, <3>2, <4>2
    <3> QED
      BY <3>1, <3>2
  <2>2. r = [seq |-> r.seq, content |-> r.content, prev_hash |-> r.prev_hash, hash |-> r.hash]
    BY <1>2, <1>4
  <2>3. r.seq \in Nat
    BY <1>1, <1>4
  <2> QED
    BY <1>4, <1>6, <2>1, <2>2, <2>3 DEF Entry
<1>9. ledger' \in Seq(Entry')
  <2>1. \A i \in 1..Len(ledger') : ledger'[i] \in Entry'
    <3> SUFFICES ASSUME NEW i \in DOMAIN ledger' PROVE ledger'[i] \in Entry'
      BY <1>5
    <3> QED
      BY <1>1, <1>5, <1>7, <1>8
  <2> QED
    BY <1>5, <2>1, Retyped
<1>10. ASSUME NEW i \in DOMAIN ledger'
       PROVE  /\ ledger'[i].seq = i /\ ledger'[i].content[2] = i - 1
              /\ ledger'[i].hash = <<ledger'[i].prev_hash, ledger'[i].content>>
              /\ ledger'[i].prev_hash = IF i = 1 THEN X!GENESIS ELSE ledger'[i - 1].hash
  <2>1. CASE i \in DOMAIN ledger
    <3>1. i # 1 => i - 1 \in DOMAIN ledger /\ ledger'[i - 1] = ledger[i - 1]
      BY <1>5, <2>1, ExportTypes
    <3> QED
      BY <1>5, <2>1, <3>1, ExportTypes
  <2>2. CASE i = n + 1
    <3>1. n # 0 => n \in DOMAIN ledger
      BY <1>1
    <3>2. n # 0 => ledger'[n] = ledger[n]
      <4> HIDE DEF n
      <4> QED
        BY <1>5, <3>1
    <3>3. r.content[2] = n
      BY <1>4
    <3>4. i - 1 = n /\ ledger'[i] = r /\ (i = 1 <=> n = 0)
      BY <1>1, <1>5, <2>2
    <3> HIDE DEF n
    <3> QED
      BY <1>3, <1>4, <2>2, <3>1, <3>2, <3>3, <3>4
  <2> QED
    BY <1>5, <2>1, <2>2
<1>11. LedgerInv'
  BY <1>9, <1>10 DEF LedgerInv
<1> QED
  BY <1>5, <1>6, <1>7, <1>11

\* What was read or written before a row was recorded is what it was.
LEMMA ExportKeeps ==
  ASSUME LedgerInv, NEW kind \in AuditKind, ledger' = X!Recorded(kind), NEW lines \in Seq(Entry), Len(lines) <= Len(ledger)
  PROVE  lines \in Seq(Entry') /\ Len(lines) <= Len(ledger') /\ (Recorded(lines) => \A i \in DOMAIN lines : \E j \in DOMAIN ledger' : lines[i] = ledger'[j])
<1>1. Len(ledger) \in Nat /\ Len(lines) \in Nat /\ DOMAIN lines = 1..Len(lines) /\ \A i \in DOMAIN lines : lines[i] \in Entry
  BY ExportTypes
<1>2. /\ Len(ledger') = Len(ledger) + 1 /\ Entry \subseteq Entry'
      /\ \A i \in DOMAIN ledger : i \in DOMAIN ledger' /\ ledger'[i] = ledger[i]
  BY ExportRecords
<1>3. lines \in Seq(Entry')
  <2>1. \A i \in 1..Len(lines) : lines[i] \in Entry'
    BY <1>1, <1>2
  <2> QED
    BY <2>1, Retyped
<1>4. Recorded(lines) => \A i \in DOMAIN lines : \E j \in DOMAIN ledger' : lines[i] = ledger'[j]
  BY <1>2 DEF Recorded
<1> QED
  BY <1>1, <1>2, <1>3, <1>4

LEMMA ExportFacts ==
  ASSUME ExportInv
  PROVE  /\ LedgerInv
         /\ export = [at |-> export.at, kinds |-> export.kinds, rows |-> export.rows]
         /\ export.at \in {"idle", "scan", "head"} /\ export.kinds \in SUBSET AuditKind /\ export.rows \in Seq(Entry)
         /\ file = [written |-> file.written, count |-> file.count, head |-> file.head, rows |-> file.rows]
         /\ file.written \in BOOLEAN /\ file.count \in Nat /\ file.head \in Known \cup {X!GENESIS} /\ file.rows \in Seq(Entry)
         /\ Recorded(export.rows) /\ Len(export.rows) <= Len(ledger) /\ Len(file.rows) <= Len(ledger)
         /\ edited \in BOOLEAN /\ tampering \in 0..MaxTampering
         /\ ~edited => Recorded(file.rows) /\ file.count = Len(file.rows)
BY DEF ExportInv

\* Where a row is recorded, the file and the export come along.
LEMMA ExportGoesOn ==
  ASSUME ExportInv, NEW kind \in AuditKind, ledger' = X!Recorded(kind), UNCHANGED <<edited, tampering>>,
         \/ UNCHANGED <<export, file>>
         \/ /\ export' = X!Idle
            /\ file' = [written |-> TRUE, count |-> Len(export.rows), head |-> X!LedgerHead, rows |-> export.rows]
  PROVE  ExportInv'
<1>1. /\ LedgerInv' /\ Known \subseteq Known' /\ Len(ledger') = Len(ledger) + 1 /\ Len(ledger) \in Nat /\ Len(ledger') \in Nat
  BY ExportFacts, ExportRecords, ExportTypes
<1>2. ASSUME NEW lines \in Seq(Entry), Len(lines) <= Len(ledger)
      PROVE  /\ lines \in Seq(Entry') /\ Len(lines) <= Len(ledger')
             /\ Recorded(lines) => \A i \in DOMAIN lines : \E j \in DOMAIN ledger' : lines[i] = ledger'[j]
  BY <1>2, ExportFacts, ExportKeeps
<1>3. /\ export.rows \in Seq(Entry') /\ Len(export.rows) <= Len(ledger')
      /\ \A i \in DOMAIN export.rows : \E j \in DOMAIN ledger' : export.rows[i] = ledger'[j]
  BY <1>2, ExportFacts
<1>4. /\ file.rows \in Seq(Entry') /\ Len(file.rows) <= Len(ledger')
      /\ ~edited => \A i \in DOMAIN file.rows : \E j \in DOMAIN ledger' : file.rows[i] = ledger'[j]
  BY <1>2, ExportFacts
<1>5. edited' = edited /\ edited' \in BOOLEAN /\ tampering' \in 0..MaxTampering
  BY ExportFacts
<1>6. CASE UNCHANGED <<export, file>>
  <2>1. export' = export /\ file' = file
    BY <1>6
  <2>2. Recorded(export.rows)' /\ (~edited' => Recorded(file.rows)')
    BY <1>3, <1>4, <1>5, <2>1 DEF Recorded
  <2>3. /\ export' \in [at : {"idle", "scan", "head"}, kinds : SUBSET AuditKind, rows : Seq(Entry')]
        /\ file' \in [written : BOOLEAN, count : Nat, head : Known' \cup {X!GENESIS}, rows : Seq(Entry')]
    BY <1>1, <1>3, <1>4, <2>1, ExportFacts
  <2>4. Len(export'.rows) <= Len(ledger') /\ Len(file'.rows) <= Len(ledger') /\ (~edited' => file'.count = Len(file'.rows))
    BY <1>3, <1>4, <1>5, <2>1, ExportFacts
  <2> QED
    BY <1>1, <1>5, <2>2, <2>3, <2>4 DEF ExportInv
<1>7. CASE /\ export' = X!Idle
           /\ file' = [written |-> TRUE, count |-> Len(export.rows), head |-> X!LedgerHead, rows |-> export.rows]
  <2>1. export' = [at |-> "idle", kinds |-> AuditKind, rows |-> <<>>]
    BY <1>7 DEF X!Idle
  <2>2. export'.rows = <<>> /\ export'.at = "idle" /\ export'.kinds = AuditKind /\ <<>> \in Seq(Entry') /\ DOMAIN <<>> = {} /\ Len(<<>>) = 0
    BY <2>1
  <2>3. file'.written = TRUE /\ file'.count = Len(export.rows) /\ file'.head = X!LedgerHead /\ file'.rows = export.rows
    BY <1>7
  <2>4. X!LedgerHead \in Known \cup {X!GENESIS}
    <3>1. ledger \in Seq(Entry) /\ LedgerInv
      BY ExportTypes, ExportFacts
    <3>2. ledger # <<>> => Len(ledger) \in DOMAIN ledger
      BY <3>1
    <3> QED
      BY <3>2 DEF X!LedgerHead, X!Last, Known
  <2>5. Len(export.rows) \in Nat
    BY ExportFacts
  <2>6. Recorded(export.rows)' /\ Recorded(file.rows)'
    BY <1>3, <2>2, <2>3 DEF Recorded
  <2>7. export' \in [at : {"idle", "scan", "head"}, kinds : SUBSET AuditKind, rows : Seq(Entry')]
    BY <2>1, <2>2
  <2>8. file' \in [written : BOOLEAN, count : Nat, head : Known' \cup {X!GENESIS}, rows : Seq(Entry')]
    BY <1>1, <1>3, <1>7, <2>4, <2>5
  <2>9. Len(export'.rows) <= Len(ledger') /\ Len(file'.rows) <= Len(ledger') /\ file'.count = Len(file'.rows)
    BY <1>1, <1>3, <2>2, <2>3
  <2> QED
    BY <1>1, <1>5, <2>6, <2>7, <2>8, <2>9 DEF ExportInv
<1> QED
  BY <1>6, <1>7

\* Where no row is, the rest has its type.
LEMMA ExportTyped ==
  ASSUME ExportInv, UNCHANGED ledger,
         export' \in [at : {"idle", "scan", "head"}, kinds : SUBSET AuditKind, rows : Seq(Entry)],
         Recorded(export'.rows), Len(export'.rows) <= Len(ledger),
         file' \in [written : BOOLEAN, count : Nat, head : Known \cup {X!GENESIS}, rows : Seq(Entry)],
         Len(file'.rows) <= Len(ledger), edited' \in BOOLEAN, tampering' \in 0..MaxTampering,
         ~edited' => Recorded(file'.rows) /\ file'.count = Len(file'.rows)
  PROVE  ExportInv'
<1>1. LedgerInv' /\ Known' = Known /\ Entry' = Entry
  <2>1. Known' = Known
    BY DEF Known
  <2>2. Entry' = Entry
    BY <2>1 DEF Entry
  <2> QED
    BY <2>1, <2>2, ExportFacts DEF LedgerInv
<1>2. \A lines : Recorded(lines) => lines \in Seq(Entry) /\ \A i \in DOMAIN lines : \E j \in DOMAIN ledger' : lines[i] = ledger'[j]
  BY DEF Recorded
<1>3. Recorded(export.rows)' /\ (~edited' => Recorded(file.rows)')
  BY <1>1, <1>2 DEF Recorded
<1> QED
  BY <1>1, <1>3 DEF ExportInv

LEMMA ExportBegins == ASSUME ExportInv, NEW kinds \in SUBSET AuditKind, X!Begin(kinds) PROVE ExportInv'
<1>1. export' = [at |-> "scan", kinds |-> kinds, rows |-> <<>>] /\ UNCHANGED <<ledger, file, edited, tampering>>
  BY DEF X!Begin, X!Idle
<1>2. export'.rows = <<>> /\ <<>> \in Seq(Entry) /\ DOMAIN <<>> = {} /\ Len(<<>>) = 0 /\ Len(ledger) \in Nat
  BY <1>1, ExportFacts, ExportTypes
<1>3. Recorded(export'.rows) /\ Len(export'.rows) <= Len(ledger)
  BY <1>2 DEF Recorded
<1>4. export' \in [at : {"idle", "scan", "head"}, kinds : SUBSET AuditKind, rows : Seq(Entry)]
  BY <1>1, <1>2
<1>5. file' \in [written : BOOLEAN, count : Nat, head : Known \cup {X!GENESIS}, rows : Seq(Entry)]
  BY <1>1, ExportFacts
<1> QED
  BY <1>1, <1>3, <1>4, <1>5, ExportFacts, ExportTyped

\* A page is of recorded rows, and of no more than there are.
LEMMA ExportPages ==
  ASSUME LedgerInv, ExportAssumption, NEW start \in Nat, start < X!Cardinality(X!Wanted)
  PROVE  /\ Recorded(X!Page(start)) /\ Len(X!Page(start)) + start <= Len(ledger)
<1>1. Len(ledger) \in Nat /\ X!Wanted \subseteq 1..Len(ledger) /\ DOMAIN ledger = 1..Len(ledger)
  BY ExportTypes DEF X!Wanted
<1> DEFINE all == X!Cardinality(X!Wanted)
           found == IF start + Chunk < all THEN Chunk ELSE all - start
<1>2. all \in Nat /\ all <= Len(ledger) /\ all = Cardinality(X!Wanted)
  <2>1. Cardinality(X!Wanted) \in Nat /\ Cardinality(X!Wanted) <= Len(ledger)
    BY <1>1, Ranked
  <2> QED
    BY <2>1, SameCount
<1>3. \A n \in 1..all : \E i \in X!Wanted : X!Cardinality({j \in X!Wanted : j <= i}) = n
  <2>1. \A n \in 1..Cardinality(X!Wanted) : \E i \in X!Wanted : Rank(X!Wanted, i) = n
    BY <1>1, Ranked
  <2>2. \A i : Rank(X!Wanted, i) = X!Cardinality({j \in X!Wanted : j <= i})
    BY SameCount DEF Rank
  <2> QED
    BY <1>2, <2>1, <2>2
<1>4. found \in Nat /\ start + found <= all
  BY <1>2 DEF ExportAssumption
<1>5. X!Page(start) = [n \in 1..found |-> X!Nth(start + n)]
  BY DEF X!Page
<1> HIDE DEF found, all
<1>6. ASSUME NEW n \in 1..found
      PROVE  \E j \in DOMAIN ledger : X!Nth(start + n) = ledger[j]
  <2>1. start + n \in 1..all
    BY <1>2, <1>4
  <2>2. \E i \in X!Wanted : X!Cardinality({j \in X!Wanted : j <= i}) = start + n
    BY <1>3, <2>1
  <2> QED
    BY <1>1, <2>2 DEF X!Nth
<1>7. \A n \in 1..found : X!Nth(start + n) \in Entry
  BY <1>6, ExportTypes
<1>8. X!Page(start) \in Seq(Entry) /\ Len(X!Page(start)) = found /\ DOMAIN X!Page(start) = 1..found
  BY <1>4, <1>5, <1>7
<1>9. Recorded(X!Page(start))
  BY <1>5, <1>6, <1>8 DEF Recorded
<1> QED
  BY <1>1, <1>2, <1>4, <1>8, <1>9

LEMMA ExportScans == ASSUME ExportInv, ExportAssumption, X!Scan PROVE ExportInv'
<1>1. UNCHANGED <<ledger, file, edited, tampering>>
  BY DEF X!Scan
<1>2. file' \in [written : BOOLEAN, count : Nat, head : Known \cup {X!GENESIS}, rows : Seq(Entry)]
  BY <1>1, ExportFacts
<1>3. /\ export'.at \in {"idle", "scan", "head"} /\ export'.kinds = export.kinds /\ Recorded(export'.rows) /\ Len(export'.rows) <= Len(ledger)
      /\ export' = [at |-> export'.at, kinds |-> export'.kinds, rows |-> export'.rows]
  <2> DEFINE o == export.rows
             page == X!Page(Len(o))
  <2>1. o \in Seq(Entry) /\ Len(o) \in Nat /\ Recorded(o) /\ Len(o) <= Len(ledger) /\ LedgerInv
    BY ExportFacts
  <2>2. CASE Len(o) < X!Cardinality(X!Wanted)
    <3>1. export' = [at |-> export.at, kinds |-> export.kinds, rows |-> o \o page]
      BY <2>2, ExportFacts DEF X!Scan
    <3>2. Recorded(page) /\ Len(page) + Len(o) <= Len(ledger)
      BY <2>1, <2>2, ExportPages
    <3> HIDE DEF o, page
    <3>3. page \in Seq(Entry)
      BY <3>2 DEF Recorded
    <3>4. /\ o \o page \in Seq(Entry) /\ Len(o \o page) = Len(o) + Len(page) /\ Len(page) \in Nat
          /\ \A i \in DOMAIN (o \o page) : \/ i \in DOMAIN o /\ (o \o page)[i] = o[i]
                                           \/ i - Len(o) \in DOMAIN page /\ (o \o page)[i] = page[i - Len(o)]
      BY <2>1, <3>3
    <3>5. Recorded(o \o page)
      BY <2>1, <3>2, <3>4 DEF Recorded
    <3>6. Len(o \o page) <= Len(ledger)
      BY <2>1, <3>2, <3>4
    <3> QED
      BY <3>1, <3>5, <3>6, ExportFacts
  <2>3. CASE ~(Len(o) < X!Cardinality(X!Wanted))
    <3>1. export' = [at |-> "head", kinds |-> export.kinds, rows |-> o]
      BY <2>3, ExportFacts DEF X!Scan
    <3> QED
      BY <3>1, <2>1
  <2> QED
    BY <2>2, <2>3
<1>4. export' \in [at : {"idle", "scan", "head"}, kinds : SUBSET AuditKind, rows : Seq(Entry)]
  BY <1>3, ExportFacts DEF Recorded
<1> QED
  BY <1>1, <1>2, <1>3, <1>4, ExportFacts, ExportTyped

\* A changed file is put together from hashes there are.
LEMMA Removed ==
  ASSUME NEW set, NEW q \in Seq(set), NEW i \in DOMAIN q
  PROVE  X!RemoveAt(q, i) \in Seq(set) /\ Len(X!RemoveAt(q, i)) \in Nat /\ Len(X!RemoveAt(q, i)) <= Len(q)
<1> DEFINE before == SubSeq(q, 1, i - 1)
           after == SubSeq(q, i + 1, Len(q))
<1>1. Len(q) \in Nat /\ DOMAIN q = 1..Len(q) /\ i \in Nat /\ 1 <= i /\ i <= Len(q)
  OBVIOUS
<1>2. before \in Seq(set) /\ Len(before) = i - 1
  BY <1>1
<1>3. after \in Seq(set) /\ Len(after) = Len(q) - i
  BY <1>1
<1>4. X!RemoveAt(q, i) = before \o after
  BY DEF X!RemoveAt
<1> HIDE DEF before, after
<1> QED
  BY <1>1, <1>2, <1>3, <1>4

LEMMA ExportChanges ==
  ASSUME LedgerInv, NEW lines \in Seq(Entry), NEW other \in X!Changed(lines)
  PROVE  other \in Seq(Entry) /\ Len(other) \in Nat /\ Len(other) <= Len(lines)
<1>1. Len(lines) \in Nat /\ DOMAIN lines = 1..Len(lines) /\ \A i \in DOMAIN lines : lines[i] \in Entry
  OBVIOUS
<1>2. PICK i \in DOMAIN lines :
        \/ \E k \in AuditKind : other = [lines EXCEPT ![i].content = <<k, 9>>]
        \/ \E n \in 1..Len(lines) : other = [lines EXCEPT ![i].seq = n]
        \/ other = [lines EXCEPT ![i].prev_hash = X!GENESIS]
        \/ other = X!RemoveAt(lines, i)
        \/ \E j \in DOMAIN lines : other = [lines EXCEPT ![i] = lines[j], ![j] = lines[i]]
  BY DEF X!Changed
<1>3. ASSUME NEW e \in Entry, other = [lines EXCEPT ![i] = e]
      PROVE  other \in Seq(Entry) /\ Len(other) \in Nat /\ Len(other) <= Len(lines)
  BY <1>1, <1>3
<1>4. lines[i] = [seq |-> lines[i].seq, content |-> lines[i].content, prev_hash |-> lines[i].prev_hash, hash |-> lines[i].hash]
      /\ lines[i].seq \in Nat /\ lines[i].content \in AuditKind \X Nat /\ lines[i].prev_hash \in Known \cup {X!GENESIS} /\ lines[i].hash \in Known
  BY <1>1 DEF Entry
<1>5. CASE \E k \in AuditKind : other = [lines EXCEPT ![i].content = <<k, 9>>]
  <2>1. PICK k \in AuditKind : other = [lines EXCEPT ![i] = [lines[i] EXCEPT !.content = <<k, 9>>]]
    BY <1>5
  <2>2. [lines[i] EXCEPT !.content = <<k, 9>>] \in Entry
    BY <1>4 DEF Entry
  <2> QED
    BY <1>3, <2>1, <2>2
<1>6. CASE \E n \in 1..Len(lines) : other = [lines EXCEPT ![i].seq = n]
  <2>1. PICK n \in 1..Len(lines) : other = [lines EXCEPT ![i] = [lines[i] EXCEPT !.seq = n]]
    BY <1>6
  <2>2. n \in Nat
    BY <1>1
  <2>3. [lines[i] EXCEPT !.seq = n] \in Entry
    BY <1>4, <2>2 DEF Entry
  <2> QED
    BY <1>3, <2>1, <2>3
<1>7. CASE other = [lines EXCEPT ![i].prev_hash = X!GENESIS]
  <2>1. other = [lines EXCEPT ![i] = [lines[i] EXCEPT !.prev_hash = X!GENESIS]]
    BY <1>7
  <2>2. [lines[i] EXCEPT !.prev_hash = X!GENESIS] \in Entry
    BY <1>4 DEF Entry
  <2> QED
    BY <1>3, <2>1, <2>2
<1>8. CASE other = X!RemoveAt(lines, i)
  BY <1>8, Removed
<1>9. CASE \E j \in DOMAIN lines : other = [lines EXCEPT ![i] = lines[j], ![j] = lines[i]]
  BY <1>1, <1>9
<1> QED
  BY <1>2, <1>5, <1>6, <1>7, <1>8, <1>9

LEMMA ExportEdits == ASSUME ExportAssumption, ExportInv, X!Edit PROVE ExportInv'
<1>1. UNCHANGED <<ledger, export>> /\ edited' = TRUE /\ tampering < MaxTampering /\ tampering' = tampering + 1
  BY DEF X!Edit
<1>2. tampering' \in 0..MaxTampering
  BY <1>1, ExportFacts DEF ExportAssumption
<1>3. /\ file' = [written |-> file'.written, count |-> file'.count, head |-> file'.head, rows |-> file'.rows]
      /\ file'.written = file.written /\ file'.count \in Nat /\ file'.head \in Known \cup {X!GENESIS}
      /\ file'.rows \in Seq(Entry) /\ Len(file'.rows) <= Len(ledger)
  <2>1. CASE \E lines \in X!Changed(file.rows) : \E count \in {file.count, Len(lines)} : file' = [file EXCEPT !.rows = lines, !.count = count]
    <3>1. PICK lines \in X!Changed(file.rows) : \E count \in {file.count, Len(lines)} : file' = [file EXCEPT !.rows = lines, !.count = count]
      BY <2>1
    <3>2. PICK count \in {file.count, Len(lines)} : file' = [file EXCEPT !.rows = lines, !.count = count]
      BY <3>1
    <3>3. lines \in Seq(Entry) /\ Len(lines) \in Nat /\ Len(lines) <= Len(file.rows)
      BY ExportFacts, ExportChanges
    <3>4. file' = [written |-> file.written, count |-> count, head |-> file.head, rows |-> lines]
      BY <3>2, ExportFacts
    <3>5. Len(file.rows) \in Nat /\ Len(file.rows) <= Len(ledger) /\ Len(ledger) \in Nat
      BY ExportFacts, ExportTypes
    <3>6. count \in Nat
      BY <3>2, <3>3, ExportFacts
    <3> QED
      BY <3>3, <3>4, <3>5, <3>6, ExportFacts
  <2>2. CASE \E line \in X!Range(file.rows) : file' = [file EXCEPT !.head = line.hash]
    <3>1. PICK line \in X!Range(file.rows) : file' = [file EXCEPT !.head = line.hash]
      BY <2>2
    <3>2. line \in Entry
      BY ExportFacts DEF X!Range
    <3>3. line.hash \in Known
      BY <3>2 DEF Entry
    <3>4. file' = [written |-> file.written, count |-> file.count, head |-> line.hash, rows |-> file.rows]
      BY <3>1, ExportFacts
    <3> QED
      BY <3>3, <3>4, ExportFacts
  <2> QED
    BY <2>1, <2>2 DEF X!Edit
<1>4. file' \in [written : BOOLEAN, count : Nat, head : Known \cup {X!GENESIS}, rows : Seq(Entry)]
  BY <1>3, ExportFacts
<1>5. export' \in [at : {"idle", "scan", "head"}, kinds : SUBSET AuditKind, rows : Seq(Entry)] /\ Recorded(export'.rows) /\ Len(export'.rows) <= Len(ledger)
  <2>1. export' = export
    BY <1>1
  <2> QED
    BY <2>1, ExportFacts
<1> QED
  BY <1>1, <1>2, <1>3, <1>4, <1>5, ExportTyped

LEMMA ExportInitially == ASSUME ExportAssumption, X!Init PROVE ExportInv
<1>1. /\ ledger = <<>> /\ export = [at |-> "idle", kinds |-> AuditKind, rows |-> <<>>]
      /\ file = [written |-> FALSE, count |-> 0, head |-> X!GENESIS, rows |-> <<>>] /\ edited = FALSE /\ tampering = 0
  BY DEF X!Init, X!Idle, X!NoFile
<1>2. <<>> \in Seq(Entry) /\ DOMAIN <<>> = {} /\ Len(<<>>) = 0
  OBVIOUS
<1>3. LedgerInv
  BY <1>1, <1>2 DEF LedgerInv
<1>4. export.rows = <<>> /\ file.rows = <<>> /\ file.count = 0
  BY <1>1
<1>5. Recorded(export.rows) /\ Recorded(file.rows)
  BY <1>2, <1>4 DEF Recorded
<1>6. /\ export \in [at : {"idle", "scan", "head"}, kinds : SUBSET AuditKind, rows : Seq(Entry)]
      /\ file \in [written : BOOLEAN, count : Nat, head : Known \cup {X!GENESIS}, rows : Seq(Entry)]
  BY <1>1, <1>2
<1>7. tampering \in 0..MaxTampering
  BY <1>1 DEF ExportAssumption
<1>8. Len(export.rows) <= Len(ledger) /\ Len(file.rows) <= Len(ledger) /\ file.count = Len(file.rows) /\ edited = FALSE
  BY <1>1, <1>2, <1>4
<1> QED
  BY <1>3, <1>5, <1>6, <1>7, <1>8 DEF ExportInv

LEMMA ExportSteps == ASSUME ExportAssumption, ExportInv, [X!Next]_X!vars PROVE ExportInv'
<1>1. CASE UNCHANGED X!vars
  <2>1. UNCHANGED <<ledger, export, file, edited, tampering>>
    BY <1>1 DEF X!vars
  <2>2. /\ export' \in [at : {"idle", "scan", "head"}, kinds : SUBSET AuditKind, rows : Seq(Entry)]
        /\ file' \in [written : BOOLEAN, count : Nat, head : Known \cup {X!GENESIS}, rows : Seq(Entry)]
        /\ Recorded(export'.rows) /\ Len(export'.rows) <= Len(ledger) /\ Len(file'.rows) <= Len(ledger)
        /\ edited' \in BOOLEAN /\ tampering' \in 0..MaxTampering
        /\ ~edited' => Recorded(file'.rows) /\ file'.count = Len(file'.rows)
    BY <2>1, ExportFacts
  <2> QED
    BY <2>1, <2>2, ExportTyped
<1>2. CASE X!Record
  <2>1. PICK kind \in AuditKind : ledger' = X!Recorded(kind)
    BY <1>2 DEF X!Record
  <2>2. UNCHANGED <<export, file, edited, tampering>>
    BY <1>2 DEF X!Record
  <2> QED
    BY <2>1, <2>2, ExportGoesOn
<1>3. CASE \E kinds \in SUBSET AuditKind \ {{}} : X!Begin(kinds)
  BY <1>3, ExportBegins
<1>4. CASE X!Write
  <2>1. PICK kind \in AuditKind : ledger' = X!Recorded(kind)
    BY <1>4 DEF X!Write
  <2>2. /\ file' = [written |-> TRUE, count |-> Len(export.rows), head |-> X!LedgerHead, rows |-> export.rows]
        /\ export' = X!Idle /\ UNCHANGED <<edited, tampering>>
    BY <1>4 DEF X!Write
  <2>3. CASE ~edited \/ edited
    BY <2>1, <2>2, ExportGoesOn
  <2> QED
    BY <2>3, ExportFacts
<1> QED
  BY <1>1, <1>2, <1>3, <1>4, ExportScans, ExportEdits DEF X!Next

-----------------------------------------------------------------------------
(* AuditExport: what a valid file tells *)

LEMMA ValidRows ==
  ASSUME LedgerInv, NEW lines \in Seq(Entry), X!broken(lines) = {}
  PROVE  /\ \A i \in DOMAIN lines : /\ lines[i].hash = <<lines[i].prev_hash, lines[i].content>>
                                    /\ \E j \in DOMAIN ledger : lines[i].hash = ledger[j].hash /\ lines[i].content = ledger[j].content
                                                                /\ lines[i].prev_hash = ledger[j].prev_hash
         /\ X!contiguous(lines) => \A i \in DOMAIN lines : i > 1 => lines[i].prev_hash = lines[i - 1].hash
<1>1. \A i \in DOMAIN lines : lines[i].hash = <<lines[i].prev_hash, lines[i].content>>
  BY DEF X!broken, X!chain_hash
<1>2. ASSUME NEW i \in DOMAIN lines
      PROVE  \E j \in DOMAIN ledger : lines[i].hash = ledger[j].hash /\ lines[i].content = ledger[j].content
                                      /\ lines[i].prev_hash = ledger[j].prev_hash
  <2>1. lines[i] \in Entry
    OBVIOUS
  <2>2. lines[i].hash \in Known
    BY <2>1 DEF Entry
  <2>3. PICK j \in DOMAIN ledger : lines[i].hash = ledger[j].hash
    BY <2>2 DEF Known
  <2>4. <<lines[i].prev_hash, lines[i].content>> = <<ledger[j].prev_hash, ledger[j].content>>
    BY <1>1, <2>3, ExportTypes
  <2>5. lines[i].content = ledger[j].content /\ lines[i].prev_hash = ledger[j].prev_hash
    BY <2>4
  <2> QED
    BY <2>3, <2>5
<1>3. X!contiguous(lines) => \A i \in DOMAIN lines : i > 1 => lines[i].prev_hash = lines[i - 1].hash
  BY DEF X!broken
<1> QED
  BY <1>1, <1>2, <1>3

LEMMA HashIsLong ==
  ASSUME LedgerInv, NEW i \in DOMAIN ledger
  PROVE  ledger[i].hash # X!GENESIS /\ Len(ledger[i].hash) = 2
<1>1. ledger[i].hash = <<ledger[i].prev_hash, ledger[i].content>>
  BY ExportTypes
<1>2. Len(<<ledger[i].prev_hash, ledger[i].content>>) = 2 /\ Len(<<>>) = 0
  OBVIOUS
<1> QED
  BY <1>1, <1>2 DEF X!GENESIS

\* No hash is that of two rows.
LEMMA HashTellsRow ==
  ASSUME LedgerInv, NEW i \in DOMAIN ledger, NEW j \in DOMAIN ledger, ledger[i].hash = ledger[j].hash
  PROVE  i = j
<1>1. <<ledger[i].prev_hash, ledger[i].content>> = <<ledger[j].prev_hash, ledger[j].content>>
  BY ExportTypes
<1>2. ledger[i].content = ledger[j].content
  BY <1>1
<1>3. i - 1 = j - 1 /\ i \in Nat /\ j \in Nat
  BY <1>2, ExportTypes
<1> QED
  BY <1>3

\* A chain from the first row on is the ledger's.
LEMMA ChainIsLedger ==
  ASSUME LedgerInv, NEW lines \in Seq(Entry), X!broken(lines) = {}, X!contiguous(lines), X!from_genesis(lines),
         Len(lines) <= Len(ledger)
  PROVE  \A i \in DOMAIN lines : lines[i].hash = ledger[i].hash /\ lines[i].content = ledger[i].content
<1>1. /\ Len(lines) \in Nat /\ DOMAIN lines = 1..Len(lines) /\ lines[1].prev_hash = X!GENESIS
      /\ Len(ledger) \in Nat /\ DOMAIN ledger = 1..Len(ledger)
  BY ExportTypes DEF X!from_genesis
<1>2. \A i \in DOMAIN lines : i \in Nat /\ i >= 1 /\ i \in DOMAIN ledger /\ (i # 1 => i > 1 /\ i - 1 \in DOMAIN lines /\ i - 1 < i)
  BY <1>1
<1>3. ASSUME NEW i \in DOMAIN lines, NEW j \in DOMAIN ledger,
             lines[i].hash = ledger[j].hash, lines[i].prev_hash = ledger[j].prev_hash,
             i # 1 => lines[i - 1].hash = ledger[i - 1].hash
      PROVE  i = j
  <2>1. CASE i = 1
    <3>1. ledger[j].prev_hash = X!GENESIS
      BY <1>1, <1>3, <2>1
    <3>2. j = 1
      <4> SUFFICES ASSUME j # 1 PROVE FALSE
        OBVIOUS
      <4>1. j - 1 \in DOMAIN ledger /\ ledger[j].prev_hash = ledger[j - 1].hash
        BY ExportTypes
      <4> QED
        BY <3>1, <4>1, HashIsLong
    <3> QED
      BY <2>1, <3>2
  <2>2. CASE i # 1
    <3>1. lines[i].prev_hash = lines[i - 1].hash /\ i - 1 \in DOMAIN ledger
      BY <1>2, <2>2, ValidRows
    <3>2. ledger[j].prev_hash = ledger[i - 1].hash
      BY <1>3, <2>2, <3>1
    <3>3. j # 1
      BY <3>1, <3>2, ExportTypes, HashIsLong
    <3>4. j - 1 \in DOMAIN ledger /\ ledger[j - 1].hash = ledger[i - 1].hash
      BY <3>2, <3>3, ExportTypes
    <3>5. j - 1 = i - 1
      BY <3>1, <3>4, HashTellsRow
    <3>6. i \in Nat /\ j \in Nat
      BY <1>2, ExportTypes
    <3> QED
      BY <3>5, <3>6
  <2> QED
    BY <2>1, <2>2
<1>4. ASSUME NEW i \in DOMAIN lines, i # 1 => lines[i - 1].hash = ledger[i - 1].hash
      PROVE  lines[i].hash = ledger[i].hash /\ lines[i].content = ledger[i].content
  <2>1. PICK j \in DOMAIN ledger : lines[i].hash = ledger[j].hash /\ lines[i].content = ledger[j].content
                                   /\ lines[i].prev_hash = ledger[j].prev_hash
    BY ValidRows
  <2>2. i = j
    BY <1>3, <1>4, <2>1
  <2> QED
    BY <2>1, <2>2
<1> DEFINE wrong == {i \in DOMAIN lines : lines[i].hash # ledger[i].hash}
<1>5. wrong = {}
  <2> SUFFICES ASSUME wrong # {} PROVE FALSE
    OBVIOUS
  <2>1. wrong \subseteq Nat
    BY <1>2
  <2> HIDE DEF wrong
  <2>2. PICK k \in wrong : \A j \in wrong : k <= j
    BY <2>1, LeastNumber
  <2>3. k \in DOMAIN lines /\ k \in Nat /\ lines[k].hash # ledger[k].hash
    BY <1>2 DEF wrong
  <2>4. ASSUME k # 1
        PROVE  lines[k - 1].hash = ledger[k - 1].hash
    <3>1. k - 1 \in DOMAIN lines /\ ~(k <= k - 1)
      BY <1>2, <2>3, <2>4
    <3>2. k - 1 \notin wrong
      BY <2>2, <3>1
    <3> QED
      BY <3>1, <3>2 DEF wrong
  <2> QED
    BY <1>4, <2>3, <2>4
<1>6. \A i \in DOMAIN lines : i # 1 => lines[i - 1].hash = ledger[i - 1].hash
  BY <1>2, <1>5
<1> QED
  BY <1>4, <1>6

LEMMA ContentsOf ==
  ASSUME LedgerInv, NEW lines \in Seq(Entry), Len(lines) <= Len(ledger)
  PROVE  X!Contents(lines) = X!Contents(SubSeq(ledger, 1, Len(lines))) <=> \A i \in DOMAIN lines : lines[i].content = ledger[i].content
<1>1. Len(lines) \in Nat /\ DOMAIN lines = 1..Len(lines) /\ Len(ledger) \in Nat /\ ledger \in Seq(Entry)
  BY ExportTypes
<1> DEFINE first == SubSeq(ledger, 1, Len(lines))
<1>2. DOMAIN first = 1..Len(lines) /\ \A i \in 1..Len(lines) : first[i] = ledger[i]
  BY <1>1
<1> HIDE DEF first
<1>3. X!Contents(lines) = [i \in 1..Len(lines) |-> lines[i].content]
  BY <1>1 DEF X!Contents
<1>4. X!Contents(first) = [i \in 1..Len(lines) |-> ledger[i].content]
  BY <1>2 DEF X!Contents
<1> QED
  BY <1>1, <1>3, <1>4 DEF first

LEMMA ExportIsComplete == ASSUME ExportInv PROVE X!CompleteIsAll
<1>1. file.rows \in Seq(Entry) /\ Len(file.rows) <= Len(ledger) /\ LedgerInv
  BY ExportFacts
<1>2. ASSUME X!valid
      PROVE  X!Range(X!Contents(file.rows)) \subseteq X!Recordings
  <2>1. X!broken(file.rows) = {}
    BY <1>2 DEF X!valid
  <2>2. \A i \in DOMAIN file.rows : \E j \in DOMAIN ledger : file.rows[i].content = ledger[j].content
    BY <1>1, <2>1, ValidRows
  <2> QED
    BY <2>2 DEF X!Range, X!Contents, X!Recordings
<1>3. ASSUME X!complete
      PROVE  X!Contents(file.rows) = X!Contents(SubSeq(ledger, 1, Len(file.rows)))
  <2>1. X!broken(file.rows) = {} /\ X!contiguous(file.rows) /\ X!from_genesis(file.rows)
    BY <1>3 DEF X!complete, X!valid
  <2>2. \A i \in DOMAIN file.rows : file.rows[i].content = ledger[i].content
    BY <1>1, <2>1, ChainIsLedger
  <2> QED
    BY <1>1, <2>2, ContentsOf
<1> QED
  BY <1>2, <1>3 DEF X!CompleteIsAll

LEMMA ExportIsValid == ASSUME ExportInv PROVE X!UntouchedIsValid
<1> SUFFICES ASSUME file.written, ~edited
             PROVE  /\ X!valid
                    /\ X!complete <=> /\ file.rows # <<>> /\ file.head = X!Last(file.rows).hash
                                      /\ X!Contents(file.rows) = X!Contents(SubSeq(ledger, 1, Len(file.rows)))
  BY DEF X!UntouchedIsValid
<1> DEFINE lines == file.rows
<1>1. /\ lines \in Seq(Entry) /\ Len(lines) <= Len(ledger) /\ LedgerInv /\ file.count = Len(lines)
      /\ \A i \in DOMAIN lines : \E j \in DOMAIN ledger : lines[i] = ledger[j]
  BY ExportFacts DEF Recorded
<1>2. Len(lines) \in Nat /\ DOMAIN lines = 1..Len(lines) /\ Len(ledger) \in Nat /\ DOMAIN ledger = 1..Len(ledger)
  BY <1>1, ExportTypes
<1> HIDE DEF lines
<1>3. \A i \in DOMAIN lines : /\ i \in Nat /\ lines[i].seq \in DOMAIN ledger /\ lines[i] = ledger[lines[i].seq]
                              /\ lines[i].hash = <<lines[i].prev_hash, lines[i].content>>
  BY <1>1, <1>2, ExportTypes
<1>4. ASSUME X!contiguous(lines), NEW i \in DOMAIN lines, i > 1
      PROVE  lines[i].prev_hash = lines[i - 1].hash
  <2>1. i \in Nat /\ i - 1 \in DOMAIN lines /\ 1 \in DOMAIN lines
    BY <1>2, <1>4
  <2>2. lines[i].seq = lines[1].seq + i - 1 /\ lines[i - 1].seq = lines[1].seq + (i - 1) - 1
    BY <1>4, <2>1 DEF X!contiguous
  <2>3. lines[1].seq \in Nat /\ lines[i - 1].seq \in Nat /\ lines[i - 1].seq >= 1
    BY <1>2, <1>3, <2>1
  <2>4. lines[i].seq # 1 /\ lines[i].seq - 1 = lines[i - 1].seq
    BY <2>1, <2>2, <2>3
  <2>5. ledger[lines[i].seq].prev_hash = ledger[lines[i].seq - 1].hash
    BY <1>1, <1>3, <2>4, ExportTypes
  <2> QED
    BY <1>3, <2>1, <2>4, <2>5
<1>5. X!broken(lines) = {}
  BY <1>3, <1>4 DEF X!broken, X!chain_hash
<1>6. X!valid
  BY <1>1, <1>5 DEF X!valid, lines
<1>7. ASSUME lines # <<>>, file.head = X!Last(lines).hash, \A i \in DOMAIN lines : lines[i].content = ledger[i].content
      PROVE  X!complete
  <2>1. \A i \in DOMAIN lines : lines[i].seq = i
    <3> SUFFICES ASSUME NEW i \in DOMAIN lines PROVE lines[i].seq = i
      OBVIOUS
    <3>1. lines[i].seq \in DOMAIN ledger /\ i \in DOMAIN ledger
      BY <1>1, <1>2, <1>3
    <3>2. ledger[lines[i].seq].content[2] = ledger[i].content[2]
      BY <1>3, <1>7
    <3>3. lines[i].seq - 1 = i - 1 /\ lines[i].seq \in Nat /\ i \in Nat
      BY <1>1, <3>1, <3>2, ExportTypes
    <3> QED
      BY <3>3
  <2>2. 1 \in DOMAIN lines /\ 1 \in DOMAIN ledger
    BY <1>1, <1>2, <1>7
  <2>3. X!contiguous(lines)
    <3>1. \A i \in DOMAIN lines : i = 1 + i - 1
      BY <1>2
    <3> QED
      BY <1>7, <2>1, <2>2, <3>1 DEF X!contiguous
  <2>4. lines[1] = ledger[1]
    BY <1>3, <2>1, <2>2
  <2>5. X!from_genesis(lines)
    BY <1>1, <1>7, <2>2, <2>4, ExportTypes DEF X!from_genesis
  <2> QED
    BY <1>6, <1>7, <2>3, <2>5 DEF X!complete, lines
<1>8. ASSUME X!complete
      PROVE  lines # <<>> /\ file.head = X!Last(lines).hash
  BY <1>8 DEF X!complete, X!contiguous, lines
<1>9. X!complete => X!Contents(lines) = X!Contents(SubSeq(ledger, 1, Len(lines)))
  BY ExportIsComplete DEF X!CompleteIsAll, lines
<1>10. X!Contents(lines) = X!Contents(SubSeq(ledger, 1, Len(lines))) <=> \A i \in DOMAIN lines : lines[i].content = ledger[i].content
  BY <1>1, ContentsOf
<1> QED
  BY <1>6, <1>7, <1>8, <1>9, <1>10 DEF lines

LEMMA ExportHolds == ASSUME ExportInv PROVE X!TypeOK /\ X!CompleteIsAll /\ X!UntouchedIsValid
<1>1. \A i \in DOMAIN ledger : ledger[i].seq = i /\ ledger[i].content[1] \in AuditKind
  <2> SUFFICES ASSUME NEW i \in DOMAIN ledger PROVE ledger[i].seq = i /\ ledger[i].content[1] \in AuditKind
    OBVIOUS
  <2>1. ledger[i] \in Entry /\ ledger[i].seq = i
    BY ExportFacts, ExportTypes
  <2>2. ledger[i].content \in AuditKind \X Nat
    BY <2>1 DEF Entry
  <2> QED
    BY <2>1, <2>2
<1>2. X!TypeOK
  BY <1>1, ExportFacts DEF X!TypeOK
<1> QED
  BY <1>2, ExportIsComplete, ExportIsValid

-----------------------------------------------------------------------------
(* Attachments: the callers and their files *)

Taken == {"name", "write", "row"}
Doing == {"next"} \cup Taken
FileOf(q) == q.files[q.i]
ThisOf(q) == <<q.m, q.i>>
Places == MaxReceived * MaxOffered

ReceiverOk(q, latest) ==
  /\ q \in [at : {"idle", "link"} \cup Doing, m : Nat, files : Seq(A!Offer), i : Nat, path : A!Target]
  /\ Len(q.files) <= MaxOffered /\ 1 <= q.i /\ q.i <= MaxOffered + 1
  /\ IF q.at = "idle" THEN q.m = 0 ELSE 1 <= q.m /\ q.m <= latest
  /\ q.at \in Doing => q.i <= Len(q.files)
  /\ q.at \in Taken => q.i <= MaxFiles /\ A!ContentPolicy(FileOf(q)) /\ FileOf(q).size = "fits"

ReceiversInv ==
  /\ receiver = [c \in Caller |-> receiver[c]]
  /\ \A c \in Caller : ReceiverOk(receiver[c], received)
  /\ \A c, d \in Caller : c # d /\ receiver[c].at # "idle" /\ receiver[d].at # "idle" => receiver[c].m # receiver[d].m
  /\ received \in 0..MaxReceived /\ deaths \in 0..MaxDeaths

LEMMA AttachNumbers ==
  ASSUME AttachmentsAssumption
  PROVE  /\ MaxReceived \in Nat /\ MaxReceived >= 1 /\ MaxOffered \in Nat /\ MaxOffered >= 1 /\ Places \in Nat /\ Places >= 1
         /\ MaxFiles \in Nat /\ MaxDeaths \in Nat /\ A!NoTarget \in A!Target
         /\ A!Content = (1..MaxReceived) \X (1..MaxOffered) /\ A!Target = FileName \X (1..Places)
         /\ A!NoFile = <<0, 0>> /\ A!NoFile \notin A!Content
<1>1. MaxReceived \in Nat /\ MaxReceived >= 1 /\ MaxOffered \in Nat /\ MaxOffered >= 1 /\ MaxFiles \in Nat /\ MaxDeaths \in Nat
  BY DEF AttachmentsAssumption
<1>2. Places \in Nat /\ Places >= 1
  BY <1>1 DEF Places
<1>3. A!Content = (1..MaxReceived) \X (1..MaxOffered) /\ A!Target = FileName \X (1..Places) /\ A!NoFile = <<0, 0>>
  BY DEF A!Content, A!Target, A!NoFile, Places
<1>4. A!NoFile \notin A!Content
  BY <1>3
<1>5. (CHOOSE n \in FileName : TRUE) \in FileName
  BY DEF AttachmentsAssumption
<1>6. A!NoTarget \in A!Target
  BY <1>2, <1>3, <1>5 DEF A!NoTarget
<1> QED
  BY <1>1, <1>2, <1>3, <1>4, <1>6

LEMMA ReceiverFacts ==
  ASSUME AttachmentsAssumption, NEW latest \in Nat, latest <= MaxReceived, NEW q, ReceiverOk(q, latest)
  PROVE  /\ q = [at |-> q.at, m |-> q.m, files |-> q.files, i |-> q.i, path |-> q.path]
         /\ q.at \in {"idle", "link"} \cup Doing /\ q.m \in Nat /\ q.files \in Seq(A!Offer) /\ q.i \in Nat /\ q.path \in A!Target
         /\ q.m <= latest /\ q.m <= MaxReceived /\ Len(q.files) \in Nat /\ Len(q.files) <= MaxOffered /\ 1 <= q.i /\ q.i <= MaxOffered + 1
         /\ q.at # "idle" => 1 <= q.m
         /\ q.at \in Doing => /\ FileOf(q) \in A!Offer /\ ThisOf(q) \in A!Content /\ q.i <= Len(q.files) /\ q.at # "idle"
                              /\ ThisOf(q) # A!NoFile /\ ThisOf(q)[1] = q.m /\ ThisOf(q)[2] = q.i
         /\ q.at \in Taken => q.i <= MaxFiles /\ A!ContentPolicy(FileOf(q)) /\ FileOf(q).size = "fits" /\ q.at \in Doing
<1>1. /\ q = [at |-> q.at, m |-> q.m, files |-> q.files, i |-> q.i, path |-> q.path]
      /\ q.at \in {"idle", "link"} \cup Doing /\ q.m \in Nat /\ q.files \in Seq(A!Offer) /\ q.i \in Nat /\ q.path \in A!Target
  BY DEF ReceiverOk
<1>2. /\ Len(q.files) <= MaxOffered /\ 1 <= q.i /\ q.i <= MaxOffered + 1
      /\ (IF q.at = "idle" THEN q.m = 0 ELSE 1 <= q.m /\ q.m <= latest)
      /\ q.at \in Doing => q.i <= Len(q.files)
      /\ q.at \in Taken => q.i <= MaxFiles /\ A!ContentPolicy(FileOf(q)) /\ FileOf(q).size = "fits"
  BY DEF ReceiverOk
<1>3. Len(q.files) \in Nat /\ q.m <= latest /\ q.m <= MaxReceived
  BY <1>1, <1>2, AttachNumbers
<1>4. q.at \in Doing => q.at # "idle"
  BY DEF Doing, Taken
<1>5. q.at \in Doing => FileOf(q) \in A!Offer
  <2> SUFFICES ASSUME q.at \in Doing PROVE FileOf(q) \in A!Offer
    OBVIOUS
  <2>1. q.i \in 1..Len(q.files)
    BY <1>1, <1>2, <1>3
  <2> QED
    BY <1>1, <2>1 DEF FileOf
<1>6. q.at \in Doing => ThisOf(q) \in A!Content /\ ThisOf(q) # A!NoFile /\ ThisOf(q)[1] = q.m /\ ThisOf(q)[2] = q.i
  <2> SUFFICES ASSUME q.at \in Doing PROVE ThisOf(q) \in A!Content /\ ThisOf(q) # A!NoFile /\ ThisOf(q)[1] = q.m /\ ThisOf(q)[2] = q.i
    OBVIOUS
  <2>1. q.m \in 1..MaxReceived /\ q.i \in 1..MaxOffered
    BY <1>1, <1>2, <1>3, <1>4, AttachNumbers
  <2>2. ThisOf(q) \in A!Content
    BY <2>1, AttachNumbers DEF ThisOf
  <2> QED
    BY <2>2, AttachNumbers DEF ThisOf
<1>7. q.at \in Taken => q.at \in Doing
  BY DEF Doing
<1> QED
  BY <1>1, <1>2, <1>3, <1>4, <1>5, <1>6, <1>7

LEMMA ReceiversFacts ==
  ASSUME AttachmentsAssumption, ReceiversInv
  PROVE  /\ received \in Nat /\ received <= MaxReceived /\ deaths \in Nat /\ DOMAIN receiver = Caller
         /\ \A c \in Caller : ReceiverOk(receiver[c], received)
         /\ \A c, d \in Caller : c # d /\ receiver[c].at # "idle" /\ receiver[d].at # "idle" => receiver[c].m # receiver[d].m
BY AttachNumbers DEF ReceiversInv

\* A caller goes on with his message, or is done with it.
LEMMA ReceiversGoOn ==
  ASSUME AttachmentsAssumption, ReceiversInv, NEW c \in Caller, NEW q, receiver' = [receiver EXCEPT ![c] = q], ReceiverOk(q, received),
         q.at # "idle" => receiver[c].at # "idle" /\ q.m = receiver[c].m, UNCHANGED <<received, deaths>>
  PROVE  ReceiversInv' /\ receiver'[c] = q /\ \A d \in Caller \ {c} : receiver'[d] = receiver[d]
<1>1. receiver'[c] = q /\ \A d \in Caller \ {c} : receiver'[d] = receiver[d]
  BY DEF ReceiversInv
<1>2. receiver' = [d \in Caller |-> receiver'[d]]
  BY DEF ReceiversInv
<1>3. received' = received /\ deaths' = deaths
  OBVIOUS
<1>4. \A d \in Caller : ReceiverOk(receiver'[d], received')
  BY <1>1, <1>3 DEF ReceiversInv
<1>5. \A d, e \in Caller : d # e /\ receiver'[d].at # "idle" /\ receiver'[e].at # "idle" => receiver'[d].m # receiver'[e].m
  BY <1>1 DEF ReceiversInv
<1>6. \A d \in Caller : ReceiverOk(receiver[d], received)'
  BY <1>4 DEF ReceiverOk
<1> QED
  BY <1>1, <1>2, <1>3, <1>5, <1>6 DEF ReceiversInv

-----------------------------------------------------------------------------
(* Attachments: what a caller's step makes of his record *)

NextOf(q) == [at |-> IF q.i = Len(q.files) THEN "link" ELSE "next", m |-> q.m, files |-> q.files, i |-> q.i + 1, path |-> q.path]
IdleReceiver == [at |-> "idle", m |-> 0, files |-> <<>>, i |-> 1, path |-> A!NoTarget]

LEMMA NextOk ==
  ASSUME AttachmentsAssumption, NEW latest \in Nat, latest <= MaxReceived, NEW q, ReceiverOk(q, latest), q.at \in Doing
  PROVE  /\ ReceiverOk(NextOf(q), latest) /\ NextOf(q).at \in {"next", "link"} /\ NextOf(q).at \notin Taken
         /\ NextOf(q).i = q.i + 1 /\ NextOf(q).m = q.m
<1> DEFINE n == NextOf(q)
<1>1. n = [at |-> IF q.i = Len(q.files) THEN "link" ELSE "next", m |-> q.m, files |-> q.files, i |-> q.i + 1, path |-> q.path]
  BY DEF NextOf
<1>2. n.at = (IF q.i = Len(q.files) THEN "link" ELSE "next") /\ n.m = q.m /\ n.files = q.files /\ n.i = q.i + 1 /\ n.path = q.path
  BY <1>1
<1>3. n = [at |-> n.at, m |-> n.m, files |-> n.files, i |-> n.i, path |-> n.path]
  BY <1>1, <1>2
<1> HIDE DEF n
<1>4. n.at \in {"next", "link"} /\ n.at \notin Taken /\ n.at # "idle" /\ n.at \in {"idle", "link"} \cup Doing
  BY <1>2 DEF Doing, Taken
<1>5. n.i \in Nat /\ 1 <= n.i /\ n.i <= MaxOffered + 1 /\ n.m \in Nat /\ 1 <= n.m /\ n.m <= latest /\ n.files \in Seq(A!Offer) /\ n.path \in A!Target
      /\ Len(n.files) <= MaxOffered
  BY <1>2, ReceiverFacts, AttachNumbers
<1>6. n.at \in Doing => n.i <= Len(n.files)
  <2>1. "link" \notin Doing
    BY DEF Doing, Taken
  <2>2. q.i <= Len(q.files) /\ q.i \in Nat /\ Len(q.files) \in Nat
    BY ReceiverFacts
  <2>3. n.at \in Doing => q.i # Len(q.files)
    BY <1>2, <2>1
  <2> QED
    BY <1>2, <2>2, <2>3
<1>7. n \in [at : {"idle", "link"} \cup Doing, m : Nat, files : Seq(A!Offer), i : Nat, path : A!Target]
  BY <1>3, <1>4, <1>5
<1> QED
  BY <1>2, <1>4, <1>5, <1>6, <1>7 DEF ReceiverOk, n

LEMMA IdleOk ==
  ASSUME AttachmentsAssumption, NEW latest
  PROVE  ReceiverOk(IdleReceiver, latest) /\ IdleReceiver.at = "idle" /\ IdleReceiver = A!Idle
<1> DEFINE n == IdleReceiver
<1>1. n = [at |-> n.at, m |-> n.m, files |-> n.files, i |-> n.i, path |-> n.path]
      /\ n.at = "idle" /\ n.m = 0 /\ n.files = <<>> /\ n.i = 1 /\ n.path = A!NoTarget
  BY DEF IdleReceiver
<1>2. n = A!Idle
  BY DEF IdleReceiver, A!Idle
<1> HIDE DEF n
<1>3. n.files \in Seq(A!Offer) /\ Len(n.files) = 0 /\ n.path \in A!Target /\ n.at \notin Doing /\ n.at \notin Taken
  BY <1>1, AttachNumbers DEF Doing, Taken
<1>4. n \in [at : {"idle", "link"} \cup Doing, m : Nat, files : Seq(A!Offer), i : Nat, path : A!Target]
  <2>1. n.at \in {"idle", "link"} \cup Doing /\ n.m \in Nat /\ n.i \in Nat
    BY <1>1
  <2> QED
    BY <1>1, <1>3, <2>1
<1>5. 1 <= n.i /\ n.i <= MaxOffered + 1 /\ Len(n.files) <= MaxOffered
  BY <1>1, <1>3, AttachNumbers
<1>6. ReceiverOk(n, latest)
  BY <1>1, <1>3, <1>4, <1>5 DEF ReceiverOk
<1> QED
  BY <1>1, <1>2, <1>6 DEF n

LEMMA NextFileIs ==
  ASSUME AttachmentsAssumption, ReceiversInv, NEW c \in Caller, receiver[c].at \in Doing, A!NextFile(c)
  PROVE  receiver' = [receiver EXCEPT ![c] = NextOf(receiver[c])]
<1> DEFINE q == receiver[c]
           stage == IF q.i = Len(q.files) THEN "link" ELSE "next"
           n == [q EXCEPT !.at = stage, !.i = @ + 1]
<1>1. DOMAIN receiver = Caller /\ q \in [at : {"idle", "link"} \cup Doing, m : Nat, files : Seq(A!Offer), i : Nat, path : A!Target]
  BY ReceiversFacts DEF ReceiverOk
<1>2. receiver' = [receiver EXCEPT ![c] = n]
  BY <1>1 DEF A!NextFile
<1>3. n = NextOf(q)
  <2> HIDE DEF q
  <2>1. stage \in {"idle", "link"} \cup Doing
    BY DEF Doing
  <2> HIDE DEF stage
  <2>2. q.i + 1 \in Nat
    BY <1>1
  <2>3. n.at = stage /\ n.m = q.m /\ n.files = q.files /\ n.i = q.i + 1 /\ n.path = q.path
    BY <1>1
  <2>4. n \in [at : {"idle", "link"} \cup Doing, m : Nat, files : Seq(A!Offer), i : Nat, path : A!Target]
    BY <1>1, <2>1, <2>2
  <2> HIDE DEF n
  <2>5. n = [at |-> n.at, m |-> n.m, files |-> n.files, i |-> n.i, path |-> n.path]
    BY <2>4
  <2> QED
    BY <2>3, <2>5 DEF NextOf, stage
<1> QED
  BY <1>2, <1>3

LEMMA GotoIs ==
  ASSUME AttachmentsAssumption, ReceiversInv, NEW c \in Caller, NEW stage, A!Goto(c, stage)
  PROVE  receiver' = [receiver EXCEPT ![c] = [receiver[c] EXCEPT !.at = stage, !.path = receiver[c].path]]
<1> DEFINE q == receiver[c]
<1>1. ReceiverOk(q, received) /\ received \in Nat /\ received <= MaxReceived
  BY ReceiversFacts
<1>2. receiver' = [receiver EXCEPT ![c] = [q EXCEPT !.at = stage]]
  BY DEF A!Goto
<1>3. [q EXCEPT !.at = stage] = [q EXCEPT !.at = stage, !.path = q.path]
  BY <1>1, ReceiverFacts
<1> QED
  BY <1>2, <1>3

\* What a caller is about, in the words of the module.
LEMMA CallerWords ==
  ASSUME NEW c \in Caller
  PROVE  /\ A!File(c) = FileOf(receiver[c]) /\ A!This(c) = ThisOf(receiver[c])
         /\ A!Welcome(c) <=> receiver[c].i <= MaxFiles /\ A!ContentPolicy(FileOf(receiver[c]))
BY DEF A!File, A!This, A!Welcome, FileOf, ThisOf

\* What each action makes of the callers.
Refuses(c) == receiver[c].at \in Doing /\ receiver' = [receiver EXCEPT ![c] = NextOf(receiver[c])]
GoesTo(c, stage, target) == receiver' = [receiver EXCEPT ![c] = [receiver[c] EXCEPT !.at = stage, !.path = target]]

LEMMA RefusedGoesOn ==
  ASSUME AttachmentsAssumption, ReceiversInv, NEW c \in Caller, Refuses(c), UNCHANGED <<received, deaths>>
  PROVE  ReceiversInv' /\ receiver'[c] = NextOf(receiver[c]) /\ \A d \in Caller \ {c} : receiver'[d] = receiver[d]
<1>1. /\ ReceiverOk(receiver[c], received) /\ received \in Nat /\ received <= MaxReceived /\ receiver[c].at \in Doing
      /\ receiver' = [receiver EXCEPT ![c] = NextOf(receiver[c])]
  BY ReceiversFacts DEF Refuses
<1>2. ReceiverOk(NextOf(receiver[c]), received) /\ NextOf(receiver[c]).m = receiver[c].m /\ receiver[c].at # "idle"
  BY <1>1, NextOk, ReceiverFacts
<1> QED
  BY <1>1, <1>2, ReceiversGoOn

LEMMA StagedGoesOn ==
  ASSUME AttachmentsAssumption, ReceiversInv, NEW c \in Caller, NEW stage \in Taken, NEW target \in A!Target, GoesTo(c, stage, target),
         receiver[c].at \in Doing, receiver[c].i <= MaxFiles, A!ContentPolicy(FileOf(receiver[c])), FileOf(receiver[c]).size = "fits",
         UNCHANGED <<received, deaths>>
  PROVE  /\ ReceiversInv' /\ \A d \in Caller \ {c} : receiver'[d] = receiver[d]
         /\ receiver'[c].at = stage /\ receiver'[c].path = target /\ ThisOf(receiver'[c]) = ThisOf(receiver[c])
         /\ FileOf(receiver'[c]) = FileOf(receiver[c]) /\ receiver'[c].i = receiver[c].i /\ receiver'[c].m = receiver[c].m
<1> DEFINE q == receiver[c]
           n == [q EXCEPT !.at = stage, !.path = target]
<1>1. ReceiverOk(q, received) /\ received \in Nat /\ received <= MaxReceived /\ receiver' = [receiver EXCEPT ![c] = n] /\ q.at # "idle"
  BY ReceiversFacts, ReceiverFacts DEF GoesTo
<1>2. /\ ReceiverOk(n, received) /\ n.at = stage /\ n.path = target /\ ThisOf(n) = ThisOf(q) /\ FileOf(n) = FileOf(q) /\ n.i = q.i /\ n.m = q.m
  <2>1. q \in [at : {"idle", "link"} \cup Doing, m : Nat, files : Seq(A!Offer), i : Nat, path : A!Target] /\ stage \in {"idle", "link"} \cup Doing
    BY <1>1 DEF ReceiverOk, Doing
  <2>2. n.at = stage /\ n.m = q.m /\ n.files = q.files /\ n.i = q.i /\ n.path = target /\ n \in [at : {"idle", "link"} \cup Doing, m : Nat, files : Seq(A!Offer), i : Nat, path : A!Target]
    BY <2>1
  <2>3. n.at # "idle" /\ n.at \in Doing
    BY <2>2 DEF Doing, Taken
  <2>4. ThisOf(n) = ThisOf(q) /\ FileOf(n) = FileOf(q)
    BY <2>2 DEF ThisOf, FileOf
  <2>5. Len(n.files) <= MaxOffered /\ 1 <= n.i /\ n.i <= MaxOffered + 1 /\ 1 <= n.m /\ n.m <= received /\ n.i <= Len(n.files)
    BY <2>2, <1>1, ReceiverFacts
  <2>6. ReceiverOk(n, received)
    BY <2>2, <2>3, <2>4, <2>5 DEF ReceiverOk
  <2> QED
    BY <2>2, <2>4, <2>6
<1> HIDE DEF n
<1>3. ReceiversInv' /\ receiver'[c] = n /\ \A d \in Caller \ {c} : receiver'[d] = receiver[d]
  BY <1>1, <1>2, ReceiversGoOn
<1> QED
  BY <1>2, <1>3

LEMMA ReceiversBegin ==
  ASSUME AttachmentsAssumption, ReceiversInv, NEW c \in Caller, NEW files \in Offers, A!Begin(c, files)
  PROVE  /\ ReceiversInv' /\ receiver'[c].at = "next" /\ receiver'[c].m = received + 1 /\ receiver'[c].i = 1
         /\ received' = received + 1 /\ \A d \in Caller \ {c} : receiver'[d] = receiver[d]
<1> DEFINE n == [at |-> "next", m |-> received + 1, files |-> files, i |-> 1, path |-> A!NoTarget]
<1>1. /\ received < MaxReceived /\ received' = received + 1 /\ deaths' = deaths /\ receiver' = [receiver EXCEPT ![c] = n]
  <2>1. [A!Idle EXCEPT !.at = "next", !.m = received + 1, !.files = files] = n
    <3> DEFINE o == [A!Idle EXCEPT !.at = "next", !.m = received + 1, !.files = files]
    <3>1. A!Idle = IdleReceiver /\ received + 1 \in Nat /\ files \in Seq(A!Offer)
      <4>1. files \in Seq(A!Offer)
        BY DEF AttachmentsAssumption
      <4>2. received \in Nat /\ received + 1 \in Nat
        BY ReceiversFacts
      <4> QED
        BY <4>1, <4>2, IdleOk
    <3>2. A!Idle \in [at : {"idle", "next"}, m : Nat, files : Seq(A!Offer), i : Nat, path : A!Target]
          /\ A!Idle.i = 1 /\ A!Idle.path = A!NoTarget
      BY <3>1, AttachNumbers DEF IdleReceiver
    <3>3. o \in [at : {"idle", "next"}, m : Nat, files : Seq(A!Offer), i : Nat, path : A!Target]
      BY <3>1, <3>2
    <3>4. o.at = "next" /\ o.m = received + 1 /\ o.files = files /\ o.i = 1 /\ o.path = A!NoTarget
      BY <3>2
    <3> HIDE DEF o
    <3>5. o = [at |-> o.at, m |-> o.m, files |-> o.files, i |-> o.i, path |-> o.path]
      BY <3>3
    <3> QED
      BY <3>4, <3>5 DEF o
  <2> QED
    BY <2>1 DEF A!Begin
<1>2. n.at = "next" /\ n.m = received + 1 /\ n.files = files /\ n.i = 1 /\ n.path = A!NoTarget
  OBVIOUS
<1>3. files \in Seq(A!Offer) /\ Len(files) >= 1 /\ Len(files) \in Nat /\ Len(files) <= MaxOffered
  BY DEF AttachmentsAssumption
<1>4. received \in Nat /\ received + 1 \in Nat /\ "next" \in Doing /\ "next" \notin Taken /\ A!NoTarget \in A!Target /\ MaxReceived \in Nat /\ MaxOffered \in Nat
  BY ReceiversFacts, AttachNumbers DEF Doing, Taken
<1>5. n \in [at : {"idle", "link"} \cup Doing, m : Nat, files : Seq(A!Offer), i : Nat, path : A!Target]
  BY <1>3, <1>4
<1> HIDE DEF n
<1>6. ReceiverOk(n, received + 1)
  BY <1>2, <1>3, <1>4, <1>5 DEF ReceiverOk
<1>7. receiver'[c] = n /\ (\A d \in Caller \ {c} : receiver'[d] = receiver[d]) /\ receiver' = [d \in Caller |-> receiver'[d]]
  BY <1>1 DEF ReceiversInv
<1>8. ASSUME NEW d \in Caller
      PROVE  ReceiverOk(receiver'[d], received') /\ (d # c /\ receiver'[d].at # "idle" => receiver'[d].m <= received)
  <2>1. CASE d = c
    BY <1>1, <1>6, <1>7, <2>1
  <2>2. CASE d # c
    <3>1. ReceiverOk(receiver[d], received) /\ receiver'[d] = receiver[d] /\ received' = received + 1
      BY <1>1, <1>7, <2>2, ReceiversFacts
    <3>2. receiver[d].m \in Nat
      BY <1>4, <3>1, ReceiversFacts, ReceiverFacts
    <3> QED
      BY <1>4, <3>1, <3>2 DEF ReceiverOk
  <2> QED
    BY <2>1, <2>2
<1>9. \A d, e \in Caller : d # e /\ receiver'[d].at # "idle" /\ receiver'[e].at # "idle" => receiver'[d].m # receiver'[e].m
  <2> SUFFICES ASSUME NEW d \in Caller, NEW e \in Caller, d # e, receiver'[d].at # "idle", receiver'[e].at # "idle"
               PROVE  receiver'[d].m # receiver'[e].m
    OBVIOUS
  <2>1. CASE d # c /\ e # c
    BY <1>7, <2>1, ReceiversFacts
  <2>2. CASE d = c
    <3>1. receiver'[d].m = received + 1 /\ receiver'[e].m <= received
      BY <1>2, <1>7, <1>8, <2>2
    <3> QED
      BY <1>4, <3>1
  <2>3. CASE e = c
    <3>1. receiver'[e].m = received + 1 /\ receiver'[d].m <= received
      BY <1>2, <1>7, <1>8, <2>3
    <3> QED
      BY <1>4, <3>1
  <2> QED
    BY <2>1, <2>2, <2>3
<1>10. \A d \in Caller : ReceiverOk(receiver[d], received)'
  BY <1>8 DEF ReceiverOk
<1>11. received' \in 0..MaxReceived /\ deaths' \in 0..MaxDeaths
  BY <1>1, <1>4 DEF ReceiversInv
<1> QED
  BY <1>1, <1>2, <1>7, <1>9, <1>10, <1>11 DEF ReceiversInv

LEMMA ReceiversStop ==
  ASSUME AttachmentsAssumption, ReceiversInv, A!Crash
  PROVE  ReceiversInv' /\ \A c \in Caller : receiver'[c].at = "idle"
<1>1. receiver' = [c \in Caller |-> IdleReceiver] /\ received' = received /\ deaths < MaxDeaths /\ deaths' = deaths + 1
  BY IdleOk DEF A!Crash
<1>2. \A c \in Caller : receiver'[c] = IdleReceiver /\ receiver'[c].at = "idle"
  BY <1>1, IdleOk
<1>3. \A c \in Caller : ReceiverOk(receiver'[c], received')
  BY <1>2, IdleOk
<1>4. \A c \in Caller : ReceiverOk(receiver[c], received)'
  BY <1>3 DEF ReceiverOk
<1>5. received' \in 0..MaxReceived /\ deaths' \in 0..MaxDeaths
  BY <1>1, AttachNumbers DEF ReceiversInv
<1>6. receiver' = [c \in Caller |-> receiver'[c]]
  BY <1>1
<1> QED
  BY <1>2, <1>4, <1>5, <1>6 DEF ReceiversInv

LEMMA ReceiversLink ==
  ASSUME AttachmentsAssumption, ReceiversInv, NEW c \in Caller, A!Link(c)
  PROVE  /\ ReceiversInv' /\ receiver'[c].at = "idle" /\ UNCHANGED <<received, deaths>>
         /\ \A d \in Caller \ {c} : receiver'[d] = receiver[d]
<1>1. receiver' = [receiver EXCEPT ![c] = IdleReceiver] /\ UNCHANGED <<received, deaths>>
  BY IdleOk DEF A!Link
<1>2. ReceiverOk(IdleReceiver, received) /\ IdleReceiver.at = "idle"
  BY IdleOk
<1> HIDE DEF IdleReceiver
<1> QED
  BY <1>1, <1>2, ReceiversGoOn

-----------------------------------------------------------------------------
(* Attachments: what was done with a file is behind its caller *)

\* A file of his message that a caller has done with comes before the one he has.
Behind(q, x) == q.at # "idle" /\ x[1] = q.m => x[2] < q.i
AtHand(q, x, stages) == x = ThisOf(q) /\ q.at \in stages

FilesTyped ==
  /\ fetched \subseteq A!Content /\ raced \subseteq A!Content /\ rows \subseteq A!Row
  /\ disk \in [A!Target -> A!Content \cup {A!NoFile}]

BehindInv ==
  /\ \A x \in fetched : x[1] <= received /\ \A c \in Caller : Behind(receiver[c], x) \/ AtHand(receiver[c], x, Taken)
  /\ \A l \in rows : l.content[1] <= received /\ \A c \in Caller : Behind(receiver[c], l.content)
  /\ \A t \in A!Target : disk[t] # A!NoFile =>
       disk[t][1] <= received /\ \A c \in Caller : Behind(receiver[c], disk[t]) \/ AtHand(receiver[c], disk[t], {"row"})

LEMMA ContentIs ==
  ASSUME AttachmentsAssumption, NEW x \in A!Content
  PROVE  x = <<x[1], x[2]>> /\ x[1] \in Nat /\ x[2] \in Nat /\ x[1] >= 1 /\ x[1] <= MaxReceived /\ x[2] >= 1 /\ x[2] <= MaxOffered
<1>1. x \in (1..MaxReceived) \X (1..MaxOffered) /\ MaxReceived \in Nat /\ MaxOffered \in Nat
  BY AttachNumbers
<1> QED
  BY <1>1

LEMMA TypedFacts ==
  ASSUME AttachmentsAssumption, FilesTyped
  PROVE  /\ \A x \in fetched : x \in A!Content
         /\ \A l \in rows : l \in A!Row /\ l.content \in A!Content /\ l.offer \in A!Offer /\ l.path \in A!Target
         /\ \A t \in A!Target : disk[t] \in A!Content \cup {A!NoFile}
<1>1. \A l \in A!Row : l.content \in A!Content /\ l.offer \in A!Offer /\ l.path \in A!Target
  BY DEF A!Row
<1> QED
  BY <1>1 DEF FilesTyped

\* Other callers have other messages.
LEMMA OthersBehind ==
  ASSUME AttachmentsAssumption, ReceiversInv, NEW c \in Caller, NEW d \in Caller, c # d, receiver[c].at \in Doing
  PROVE  Behind(receiver[d], ThisOf(receiver[c]))
<1>1. receiver[c].at # "idle" /\ ThisOf(receiver[c])[1] = receiver[c].m
  BY ReceiversFacts, ReceiverFacts
<1>2. receiver[d].at # "idle" => receiver[c].m # receiver[d].m
  BY <1>1, ReceiversFacts
<1> QED
  BY <1>1, <1>2 DEF Behind

LEMMA StaysBehind ==
  ASSUME AttachmentsAssumption, NEW x \in A!Content, NEW o, NEW q, Behind(o, x), o.i \in Nat, q.i \in Nat,
         q.at # "idle" => o.at # "idle" /\ q.m = o.m /\ q.i >= o.i
  PROVE  Behind(q, x)
BY ContentIs DEF Behind

\* A caller goes on: what is new is his file, and he is past it or has it still.
LEMMA BehindGoesOn ==
  ASSUME AttachmentsAssumption, ReceiversInv, FilesTyped, BehindInv, ReceiversInv', FilesTyped',
         NEW c \in Caller, \A d \in Caller \ {c} : receiver'[d] = receiver[d], received' = received,
         receiver'[c].at # "idle" => receiver[c].at # "idle" /\ receiver'[c].m = receiver[c].m /\ receiver'[c].i >= receiver[c].i,
         \A x \in fetched' : x \in fetched \/ (receiver[c].at \in Doing /\ x = ThisOf(receiver[c])),
         \A l \in rows' : (\E k \in rows : k.content = l.content) \/ (receiver[c].at \in Doing /\ l.content = ThisOf(receiver[c])),
         \A t \in A!Target : disk'[t] = disk[t] \/ (receiver[c].at \in Doing /\ disk'[t] = ThisOf(receiver[c])),
         receiver'[c].at # "idle" =>
           /\ ThisOf(receiver[c]) \in fetched' => receiver'[c].i > receiver[c].i \/ receiver'[c].at \in Taken
           /\ \A l \in rows' : l.content = ThisOf(receiver[c]) => receiver'[c].i > receiver[c].i
           /\ \A t \in A!Target : disk'[t] = ThisOf(receiver[c]) => receiver'[c].i > receiver[c].i \/ receiver'[c].at = "row"
  PROVE  BehindInv'
<1> DEFINE o == receiver[c]
           q == receiver'[c]
<1>1. ReceiverOk(o, received) /\ received \in Nat /\ received <= MaxReceived /\ ReceiverOk(q, received') /\ received' = received
  <2>1. ReceiverOk(receiver[c], received)'
    BY DEF ReceiversInv
  <2>2. ReceiverOk(q, received')
    BY <2>1 DEF ReceiverOk
  <2> QED
    BY <2>2, ReceiversFacts
<1>2. o.i \in Nat /\ q.i \in Nat /\ o.m \in Nat /\ o.m <= received
  BY <1>1, ReceiverFacts
<1>3. o.at \in Doing => ThisOf(o)[1] = o.m /\ ThisOf(o)[2] = o.i /\ ThisOf(o) \in A!Content /\ ThisOf(o) # A!NoFile
  BY <1>1, ReceiverFacts
<1>4. /\ q.at # "idle" => o.at # "idle" /\ q.m = o.m /\ q.i >= o.i
      /\ \A x \in fetched' : x \in fetched \/ (o.at \in Doing /\ x = ThisOf(o))
      /\ \A l \in rows' : (\E k \in rows : k.content = l.content) \/ (o.at \in Doing /\ l.content = ThisOf(o))
      /\ \A t \in A!Target : disk'[t] = disk[t] \/ (o.at \in Doing /\ disk'[t] = ThisOf(o))
      /\ q.at # "idle" => /\ ThisOf(o) \in fetched' => q.i > o.i \/ q.at \in Taken
                          /\ \A l \in rows' : l.content = ThisOf(o) => q.i > o.i
                          /\ \A t \in A!Target : disk'[t] = ThisOf(o) => q.i > o.i \/ q.at = "row"
  OBVIOUS
<1>5. ASSUME NEW d \in Caller
      PROVE  d # c => receiver'[d] = receiver[d] /\ (o.at \in Doing => Behind(receiver'[d], ThisOf(o)))
  BY OthersBehind
<1>6. ASSUME NEW x, x = ThisOf(o), o.at \in Doing, q.at # "idle" => q.i > o.i
      PROVE  Behind(q, x)
  BY <1>3, <1>6 DEF Behind
<1>7. ASSUME NEW x, x = ThisOf(o), q.at # "idle", ~(q.i > o.i)
      PROVE  x = ThisOf(q)
  <2>1. q.m = o.m /\ q.i = o.i
    BY <1>2, <1>4, <1>7
  <2> QED
    BY <1>7, <2>1 DEF ThisOf
<1>8. ASSUME NEW x \in A!Content, Behind(o, x)
      PROVE  Behind(q, x)
  BY <1>2, <1>4, <1>8, StaysBehind
<1>9. ASSUME NEW x \in fetched'
      PROVE  x[1] <= received /\ \A d \in Caller : Behind(receiver'[d], x) \/ AtHand(receiver'[d], x, Taken)
  <2>1. CASE x \in fetched /\ ~(x = ThisOf(o) /\ o.at \in Doing)
    <3>1. x[1] <= received /\ \A d \in Caller : Behind(receiver[d], x) \/ AtHand(receiver[d], x, Taken)
      BY <2>1 DEF BehindInv
    <3>2. x \in A!Content
      BY <2>1, TypedFacts
    <3>3. Behind(o, x)
      BY <2>1, <3>1 DEF AtHand, Doing
    <3>4. Behind(q, x)
      BY <1>8, <3>2, <3>3
    <3> QED
      BY <1>5, <3>1, <3>4
  <2>2. CASE x = ThisOf(o) /\ o.at \in Doing
    <3>1. x[1] <= received
      BY <1>2, <1>3, <2>2
    <3>2. Behind(q, x) \/ AtHand(q, x, Taken)
      <4>1. CASE q.at = "idle"
        BY <4>1 DEF Behind
      <4>2. CASE q.at # "idle" /\ q.i > o.i
        BY <1>6, <2>2, <4>2
      <4>3. CASE q.at # "idle" /\ ~(q.i > o.i)
        BY <1>4, <1>7, <2>2, <4>3 DEF AtHand
      <4> QED
        BY <4>1, <4>2, <4>3
    <3> QED
      BY <1>5, <2>2, <3>1, <3>2
  <2> QED
    BY <1>4, <2>1, <2>2
<1>10. ASSUME NEW l \in rows'
       PROVE  l.content[1] <= received /\ \A d \in Caller : Behind(receiver'[d], l.content)
  <2>1. CASE \E k \in rows : k.content = l.content
    <3>1. PICK k \in rows : k.content = l.content
      BY <2>1
    <3>2. l.content[1] <= received /\ (\A d \in Caller : Behind(receiver[d], l.content)) /\ l.content \in A!Content
      BY <3>1, TypedFacts DEF BehindInv
    <3>3. Behind(q, l.content)
      BY <1>8, <3>2
    <3> QED
      BY <1>5, <3>2, <3>3
  <2>2. CASE o.at \in Doing /\ l.content = ThisOf(o)
    <3>1. l.content[1] <= received
      BY <1>2, <1>3, <2>2
    <3>2. Behind(q, l.content)
      BY <1>4, <1>6, <2>2
    <3> QED
      BY <1>5, <2>2, <3>1, <3>2
  <2> QED
    BY <1>4, <2>1, <2>2
<1>11. ASSUME NEW t \in A!Target, disk'[t] # A!NoFile
       PROVE  /\ disk'[t][1] <= received
              /\ \A d \in Caller : Behind(receiver'[d], disk'[t]) \/ AtHand(receiver'[d], disk'[t], {"row"})
  <2>1. CASE disk'[t] = disk[t] /\ ~(o.at \in Doing /\ disk'[t] = ThisOf(o))
    <3>1. disk[t][1] <= received /\ \A d \in Caller : Behind(receiver[d], disk[t]) \/ AtHand(receiver[d], disk[t], {"row"})
      BY <1>11, <2>1 DEF BehindInv
    <3>2. disk[t] \in A!Content
      BY <1>11, <2>1, TypedFacts
    <3>3. Behind(o, disk[t])
      BY <2>1, <3>1 DEF AtHand, Doing, Taken
    <3>4. Behind(q, disk[t])
      BY <1>8, <3>2, <3>3
    <3> QED
      BY <1>5, <2>1, <3>1, <3>4
  <2>2. CASE o.at \in Doing /\ disk'[t] = ThisOf(o)
    <3>1. disk'[t][1] <= received
      BY <1>2, <1>3, <2>2
    <3>2. Behind(q, disk'[t]) \/ AtHand(q, disk'[t], {"row"})
      <4>1. CASE q.at = "idle"
        BY <4>1 DEF Behind
      <4>2. CASE q.at # "idle" /\ q.i > o.i
        BY <1>6, <2>2, <4>2
      <4>3. CASE q.at # "idle" /\ ~(q.i > o.i)
        BY <1>4, <1>7, <2>2, <4>3 DEF AtHand
      <4> QED
        BY <4>1, <4>2, <4>3
    <3> QED
      BY <1>5, <2>2, <3>1, <3>2
  <2> QED
    BY <1>4, <2>1, <2>2
<1> QED
  BY <1>1, <1>9, <1>10, <1>11 DEF BehindInv

-----------------------------------------------------------------------------
(* Attachments: a name is free, and what is on disk leads to its row *)

DiskInv ==
  /\ \A t, v \in A!Target : disk[t] = disk[v] /\ disk[t] # A!NoFile => t = v
  /\ \A c \in Caller : receiver[c].at = "write" => disk[receiver[c].path] \in raced \cup {A!NoFile}
  /\ \A c \in Caller : receiver[c].at = "row" => disk[receiver[c].path] = ThisOf(receiver[c]) \/ ThisOf(receiver[c]) \in raced
  /\ \A c, d \in Caller : /\ c # d /\ receiver[c].at = "write" /\ receiver[d].at = "write"
                          /\ receiver[c].path = receiver[d].path
                          => ThisOf(receiver[c]) \in raced

AttachInv == ReceiversInv /\ FilesTyped /\ BehindInv /\ DiskInv /\ A!StoredIsOnDisk /\ A!FetchedWasDeclared

LEMMA AttachFacts ==
  ASSUME AttachmentsAssumption, AttachInv, NEW c \in Caller
  PROVE  /\ ReceiverOk(receiver[c], received) /\ received \in Nat /\ received <= MaxReceived
         /\ receiver[c].path \in A!Target /\ receiver[c].i \in Nat
         /\ receiver[c].at \in Doing => /\ FileOf(receiver[c]) \in A!Offer /\ ThisOf(receiver[c]) \in A!Content
                                        /\ ThisOf(receiver[c]) # A!NoFile /\ receiver[c].at # "idle" /\ ThisOf(receiver[c])[2] = receiver[c].i
         /\ receiver[c].at \in Taken => /\ receiver[c].i <= MaxFiles /\ A!ContentPolicy(FileOf(receiver[c]))
                                        /\ FileOf(receiver[c]).size = "fits" /\ receiver[c].at \in Doing
BY ReceiversFacts, ReceiverFacts DEF AttachInv

\* A file that is not written yet is nowhere on disk.
LEMMA NotYetWritten ==
  ASSUME AttachmentsAssumption, AttachInv, NEW c \in Caller, receiver[c].at \in Doing \ {"row"}, NEW t \in A!Target
  PROVE  disk[t] # ThisOf(receiver[c])
<1> SUFFICES ASSUME disk[t] = ThisOf(receiver[c]) PROVE FALSE
  OBVIOUS
<1>1. disk[t] # A!NoFile /\ ThisOf(receiver[c])[1] = receiver[c].m /\ ThisOf(receiver[c])[2] = receiver[c].i /\ receiver[c].i \in Nat
      /\ receiver[c].at # "idle"
  BY AttachFacts, ReceiverFacts
<1>2. Behind(receiver[c], disk[t]) \/ AtHand(receiver[c], disk[t], {"row"})
  BY <1>1 DEF AttachInv, BehindInv
<1>3. receiver[c].at # "row"
  OBVIOUS
<1> QED
  BY <1>1, <1>2, <1>3 DEF Behind, AtHand

LEMMA FreeIsThere ==
  ASSUME AttachmentsAssumption, AttachInv, NEW c \in Caller, receiver[c].at = "name"
  PROVE  A!FirstFree(FileOf(receiver[c]).name) \in A!Target /\ disk[A!FirstFree(FileOf(receiver[c]).name)] = A!NoFile
<1> DEFINE n == FileOf(receiver[c]).name
           x == ThisOf(receiver[c])
           free == {k \in 1..Places : disk[<<n, k>>] = A!NoFile}
<1>1. receiver[c].at \in Doing \ {"row"} /\ n \in FileName /\ x \in A!Content
  <2>1. receiver[c].at \in Doing \ {"row"}
    BY DEF Doing, Taken
  <2>2. FileOf(receiver[c]) \in A!Offer /\ x \in A!Content
    BY <2>1, AttachFacts
  <2> QED
    BY <2>1, <2>2 DEF A!Offer
<1>2. \A t \in A!Target : disk[t] # x
  BY <1>1, NotYetWritten
<1> HIDE DEF n, x
<1>3. \A k \in 1..Places : <<n, k>> \in A!Target
  BY <1>1, AttachNumbers
<1>4. free # {}
  <2> SUFFICES ASSUME free = {} PROVE FALSE
    OBVIOUS
  <2> DEFINE others == A!Content \ {x}
             f == [k \in 1..Places |-> disk[<<n, k>>]]
  <2>1. IsFiniteSet(A!Content) /\ Cardinality(A!Content) = Places /\ Places \in Nat
    <3>1. IsFiniteSet(1..MaxReceived) /\ Cardinality(1..MaxReceived) = MaxReceived /\ IsFiniteSet(1..MaxOffered) /\ Cardinality(1..MaxOffered) = MaxOffered
      BY AttachNumbers, Numbered
    <3> QED
      <4>1. IsFiniteSet((1..MaxReceived) \X (1..MaxOffered))
        BY <3>1, FS_Product
      <4>2. Cardinality((1..MaxReceived) \X (1..MaxOffered)) = Cardinality(1..MaxReceived) * Cardinality(1..MaxOffered)
        BY <3>1, FS_Product
      <4>3. Cardinality((1..MaxReceived) \X (1..MaxOffered)) = Places
        BY <3>1, <4>2 DEF Places
      <4> QED
        BY <4>1, <4>3, AttachNumbers
  <2>2. IsFiniteSet(others) /\ Cardinality(others) = Places - 1
    BY <1>1, <2>1, CountLess
  <2>3. IsFiniteSet(1..Places) /\ Cardinality(1..Places) = Places
    BY <2>1, Numbered
  <2>4. f \in [1..Places -> others]
    <3>1. \A k \in 1..Places : disk[<<n, k>>] \in others
      BY <1>2, <1>3, TypedFacts DEF AttachInv
    <3> QED
      BY <3>1
  <2> HIDE DEF f, others
  <2>5. \E i, k \in 1..Places : i # k /\ f[i] = f[k]
    BY <2>1, <2>2, <2>3, <2>4, FS_PigeonHole
  <2>6. PICK i \in 1..Places, k \in 1..Places : i # k /\ disk[<<n, i>>] = disk[<<n, k>>]
    BY <2>5 DEF f
  <2>7. disk[<<n, i>>] # A!NoFile
    OBVIOUS
  <2>8. <<n, i>> = <<n, k>>
    BY <1>3, <2>6, <2>7 DEF AttachInv, DiskInv
  <2> QED
    BY <2>6, <2>8
<1>5. free \subseteq Nat
  OBVIOUS
<1>6. PICK k \in free : \A j \in free : k <= j
  <2> HIDE DEF free
  <2> QED
    BY <1>4, <1>5, LeastNumber
<1>7. k \in 1..Places /\ disk[<<n, k>>] = A!NoFile /\ \A j \in 1..(k - 1) : disk[<<n, j>>] # A!NoFile
  <2>1. Places \in Nat
    BY AttachNumbers
  <2>2. \A j \in 1..(k - 1) : j \in 1..Places /\ ~(k <= j)
    BY <2>1
  <2> QED
    BY <1>6, <2>2
<1>8. A!FirstFree(n) = <<n, CHOOSE i \in 1..Places : disk[<<n, i>>] = A!NoFile /\ \A j \in 1..(i - 1) : disk[<<n, j>>] # A!NoFile>>
  BY DEF A!FirstFree, Places
<1>9. PICK i \in 1..Places : A!FirstFree(n) = <<n, i>> /\ disk[<<n, i>>] = A!NoFile
  BY <1>7, <1>8
<1> QED
  BY <1>3, <1>9 DEF n

\* Where nothing is chosen, written or stored, the disk leads where it led.
LEMMA DiskGoesOn ==
  ASSUME AttachmentsAssumption, AttachInv, UNCHANGED <<disk, raced>>,
         \A d \in Caller : receiver'[d] = receiver[d] \/ receiver'[d].at \notin {"write", "row"},
         \A l \in rows' : l.status = "stored" => \E k \in rows : k.status = "stored" /\ k.path = l.path /\ k.content = l.content
  PROVE  DiskInv' /\ A!StoredIsOnDisk'
<1>1. disk' = disk /\ raced' = raced
  OBVIOUS
<1>2. \A d \in Caller : receiver'[d].at \in {"write", "row"} => receiver'[d] = receiver[d]
  OBVIOUS
<1>3. DiskInv'
  BY <1>1, <1>2 DEF AttachInv, DiskInv
<1>4. A!StoredIsOnDisk'
  BY <1>1 DEF AttachInv, A!StoredIsOnDisk, A!Stored
<1> QED
  BY <1>3, <1>4

\* No row and, before it is taken, no download is of the file a caller has.
LEMMA NotYetInARow ==
  ASSUME AttachmentsAssumption, AttachInv, NEW c \in Caller, receiver[c].at \in Doing
  PROVE  /\ \A l \in rows : l.content # ThisOf(receiver[c])
         /\ receiver[c].at = "next" => ThisOf(receiver[c]) \notin fetched
<1>1. /\ ThisOf(receiver[c])[1] = receiver[c].m /\ ThisOf(receiver[c])[2] = receiver[c].i /\ receiver[c].i \in Nat
      /\ receiver[c].at # "idle"
  BY AttachFacts, ReceiverFacts
<1>2. ~Behind(receiver[c], ThisOf(receiver[c]))
  BY <1>1 DEF Behind
<1>3. \A l \in rows : Behind(receiver[c], l.content)
  BY DEF AttachInv, BehindInv
<1>4. \A x \in fetched : Behind(receiver[c], x) \/ AtHand(receiver[c], x, Taken)
  BY DEF AttachInv, BehindInv
<1>5. "next" \notin Taken
  BY DEF Taken
<1> QED
  BY <1>2, <1>3, <1>4, <1>5 DEF AtHand

LEMMA RowIs ==
  ASSUME NEW x \in A!Content, NEW offer \in A!Offer, NEW status \in {"stored", "rejected"}, NEW target \in A!Target,
         NEW l, l = [content |-> x, offer |-> offer, status |-> status, path |-> target, task |-> FALSE]
  PROVE  l \in A!Row /\ l.content = x /\ l.offer = offer /\ l.status = status /\ l.path = target
BY DEF A!Row

LEMMA PolicyAsks == ASSUME AttachmentsAssumption, NEW f \in A!Offer, A!ContentPolicy(f)
                    PROVE  /\ Extension[f.name] \in {"none", "listed"} /\ f.mime \in {"none", "listed"}
                           /\ f.declared # "big"
<1>1. f.name \in FileName /\ f.mime \in A!Listing
  BY DEF A!Offer
<1>2. Extension[f.name] \in A!Listing
  BY <1>1 DEF AttachmentsAssumption
<1> QED
  BY <1>1, <1>2 DEF A!ContentPolicy, A!Listed, A!Listing

LEMMA AttachRefuses ==
  ASSUME AttachmentsAssumption, AttachInv, NEW c \in Caller, receiver[c].at = "next", A!Refuse(c), UNCHANGED <<disk, raced, received, deaths>>,
         fetched' = fetched \/ (fetched' = fetched \cup {A!This(c)} /\ A!Welcome(c))
  PROVE  AttachInv'
<1> DEFINE o == receiver[c]
           x == ThisOf(o)
           l == [content |-> x, offer |-> FileOf(o), status |-> "rejected", path |-> A!NoTarget, task |-> FALSE]
<1>1. o.at \in Doing /\ o.at # "idle" /\ o.at \notin Taken /\ x \in A!Content /\ FileOf(o) \in A!Offer /\ o.i \in Nat /\ x[2] = o.i
  <2>1. "next" \in Doing /\ "next" \notin Taken
    BY DEF Doing, Taken
  <2> QED
    BY <2>1, AttachFacts
<1>2. A!This(c) = x /\ A!File(c) = FileOf(o) /\ (A!Welcome(c) => o.i <= MaxFiles /\ A!ContentPolicy(FileOf(o)))
  BY CallerWords
<1>3. rows' = rows \cup {l} /\ (fetched' = fetched \/ (fetched' = fetched \cup {x} /\ A!Welcome(c))) /\ disk' = disk /\ raced' = raced
      /\ received' = received /\ deaths' = deaths
  BY <1>2 DEF A!Refuse
<1>4. l \in A!Row /\ l.content = x /\ l.offer = FileOf(o) /\ l.status = "rejected"
  BY <1>1, AttachNumbers, RowIs
<1> HIDE DEF l, x, o
<1>5. Refuses(c)
  BY <1>1, NextFileIs DEF A!Refuse, Refuses, AttachInv, o
<1>6. ReceiversInv' /\ receiver'[c] = NextOf(o) /\ \A d \in Caller \ {c} : receiver'[d] = receiver[d]
  BY <1>3, <1>5, RefusedGoesOn DEF AttachInv, o
<1>7. receiver'[c].at \in {"next", "link"} /\ receiver'[c].i = o.i + 1 /\ receiver'[c].m = o.m
  BY <1>1, <1>6, AttachFacts, NextOk DEF o
<1>8. FilesTyped'
  BY <1>1, <1>3, <1>4 DEF AttachInv, FilesTyped
<1>9. BehindInv'
  <2>1. \A y \in fetched' : y \in fetched \/ (receiver[c].at \in Doing /\ y = ThisOf(receiver[c]))
    BY <1>1, <1>3 DEF x, o
  <2>2. \A k \in rows' : (\E j \in rows : j.content = k.content) \/ (receiver[c].at \in Doing /\ k.content = ThisOf(receiver[c]))
    BY <1>1, <1>3, <1>4 DEF x, o
  <2>3. receiver'[c].i > o.i /\ receiver'[c].i >= o.i
    BY <1>1, <1>7
  <2> QED
    BY <1>1, <1>3, <1>6, <1>7, <1>8, <2>1, <2>2, <2>3, BehindGoesOn DEF AttachInv, o
<1>10. DiskInv' /\ A!StoredIsOnDisk'
  <2>1. \A d \in Caller : receiver'[d] = receiver[d] \/ receiver'[d].at \notin {"write", "row"}
    BY <1>6, <1>7
  <2>2. \A k \in rows' : k.status = "stored" => \E j \in rows : j.status = "stored" /\ j.path = k.path /\ j.content = k.content
    BY <1>3, <1>4
  <2> QED
    BY <1>3, <2>1, <2>2, DiskGoesOn
<1>11. A!FetchedWasDeclared'
  <2>1. (\A k \in rows : k.content # x) /\ x \notin fetched
    BY <1>1, NotYetInARow DEF o, x
  <2>2. ASSUME NEW k \in rows', k.content \in fetched'
        PROVE  /\ Extension[k.offer.name] \in {"none", "listed"} /\ k.offer.mime \in {"none", "listed"}
               /\ k.offer.declared # "big" /\ k.content[2] <= MaxFiles
    <3>1. CASE k \in rows
      <4>1. k.content \in fetched
        BY <1>3, <2>1, <2>2, <3>1
      <4> QED
        BY <3>1, <4>1 DEF AttachInv, A!FetchedWasDeclared
    <3>2. CASE k = l
      <4>1. A!Welcome(c)
        BY <1>3, <1>4, <2>1, <2>2, <3>2
      <4> QED
        BY <1>1, <1>2, <1>4, <3>2, <4>1, PolicyAsks
    <3> QED
      BY <1>3, <3>1, <3>2
  <2>3. \A k \in rows' : k.status = "stored" => k.offer.size = "fits"
    BY <1>3, <1>4 DEF AttachInv, A!FetchedWasDeclared, A!Stored
  <2> QED
    BY <2>2, <2>3 DEF A!FetchedWasDeclared, A!Stored
<1> QED
  BY <1>6, <1>8, <1>9, <1>10, <1>11 DEF AttachInv

LEMMA AttachTakes ==
  ASSUME AttachmentsAssumption, AttachInv, NEW c \in Caller, receiver[c].at = "next", A!Welcome(c), A!File(c).size = "fits", A!Goto(c, "name"),
         fetched' = fetched \cup {A!This(c)}, UNCHANGED <<disk, rows, raced, received, deaths>>
  PROVE  AttachInv'
<1> DEFINE o == receiver[c]
           x == ThisOf(o)
<1>1. o.at \in Doing /\ o.at # "idle" /\ o.at \notin Taken /\ x \in A!Content /\ o.path \in A!Target /\ "name" \in Taken /\ o.i \in Nat
  <2>1. "next" \in Doing /\ "next" \notin Taken /\ "name" \in Taken
    BY DEF Doing, Taken
  <2> QED
    BY <2>1, AttachFacts
<1>2. o.i <= MaxFiles /\ A!ContentPolicy(FileOf(o)) /\ FileOf(o).size = "fits" /\ fetched' = fetched \cup {x}
      /\ disk' = disk /\ raced' = raced /\ rows' = rows /\ received' = received /\ deaths' = deaths
  BY CallerWords
<1>3. GoesTo(c, "name", o.path)
  BY GotoIs DEF GoesTo, AttachInv
<1> HIDE DEF o, x
<1>4. /\ ReceiversInv' /\ \A d \in Caller \ {c} : receiver'[d] = receiver[d]
      /\ receiver'[c].at = "name" /\ receiver'[c].i = o.i /\ receiver'[c].m = o.m
  BY <1>1, <1>2, <1>3, StagedGoesOn DEF AttachInv, o
<1>5. FilesTyped'
  BY <1>1, <1>2 DEF AttachInv, FilesTyped
<1>6. (\A l \in rows : l.content # x) /\ \A t \in A!Target : disk[t] # x
  <2>1. o.at \in Doing \ {"row"}
    BY <1>1 DEF Taken
  <2> QED
    BY <1>1, <2>1, NotYetInARow, NotYetWritten DEF o, x
<1>7. BehindInv'
  <2>1. \A y \in fetched' : y \in fetched \/ (receiver[c].at \in Doing /\ y = ThisOf(receiver[c]))
    BY <1>1, <1>2 DEF x, o
  <2>2. \A k \in rows' : \E j \in rows : j.content = k.content
    BY <1>2
  <2>3. receiver'[c].i >= receiver[c].i /\ receiver'[c].m = receiver[c].m /\ receiver[c].at # "idle" /\ receiver'[c].at \in Taken
    BY <1>1, <1>4 DEF o
  <2>4. (\A l \in rows' : l.content # ThisOf(receiver[c])) /\ \A t \in A!Target : disk'[t] # ThisOf(receiver[c])
    BY <1>2, <1>6 DEF o, x
  <2> QED
    BY <1>2, <1>4, <1>5, <2>1, <2>2, <2>3, <2>4, BehindGoesOn DEF AttachInv
<1>8. DiskInv' /\ A!StoredIsOnDisk'
  <2>1. \A d \in Caller : receiver'[d] = receiver[d] \/ receiver'[d].at \notin {"write", "row"}
    BY <1>4
  <2> QED
    BY <1>2, <2>1, DiskGoesOn
<1>9. A!FetchedWasDeclared'
  BY <1>2, <1>6 DEF AttachInv, A!FetchedWasDeclared, A!Stored
<1> QED
  BY <1>4, <1>5, <1>7, <1>8, <1>9 DEF AttachInv

LEMMA AttachFetches == ASSUME AttachmentsAssumption, AttachInv, NEW c \in Caller, A!RefuseUnread(c) \/ A!Fetch(c) PROVE AttachInv'
<1>1. CASE A!RefuseUnread(c)
  BY <1>1, AttachRefuses DEF A!RefuseUnread
<1>2. CASE A!Fetch(c) /\ A!File(c).fetch = "works" /\ A!File(c).size = "fits"
  BY <1>2, AttachTakes DEF A!Fetch
<1>3. CASE A!Fetch(c) /\ ~(A!File(c).fetch = "works" /\ A!File(c).size = "fits")
  <2>1. fetched' = fetched \/ (fetched' = fetched \cup {A!This(c)} /\ A!Welcome(c))
    BY <1>3 DEF A!Fetch
  <2> QED
    BY <1>3, <2>1, AttachRefuses DEF A!Fetch
<1> QED
  BY <1>1, <1>2, <1>3

\* A free name: who has chosen it too is noted, with the one who chooses now.
LEMMA AttachChooses == ASSUME AttachmentsAssumption, AttachInv, NEW c \in Caller, A!ChooseName(c) PROVE AttachInv'
<1> DEFINE o == receiver[c]
           x == ThisOf(o)
           target == A!FirstFree(FileOf(o).name)
<1>1. /\ o.at = "name" /\ o.at \in Taken /\ o.at \in Doing /\ o.at # "idle" /\ x \in A!Content /\ "write" \in Taken
      /\ o.i <= MaxFiles /\ A!ContentPolicy(FileOf(o)) /\ FileOf(o).size = "fits" /\ o.i \in Nat
  <2>1. o.at = "name" /\ o.at \in Taken /\ "write" \in Taken
    BY DEF A!ChooseName, Taken
  <2> QED
    BY <2>1, AttachFacts
<1>2. target \in A!Target /\ disk[target] = A!NoFile
  BY <1>1, FreeIsThere
<1>3. receiver' = [receiver EXCEPT ![c].at = "write", ![c].path = target]
  BY CallerWords DEF A!ChooseName
<1>4. disk' = disk /\ rows' = rows /\ fetched' = fetched /\ received' = received /\ deaths' = deaths
  BY DEF A!ChooseName
<1>5. raced' = raced \cup UNION {{x, ThisOf(receiver[d])} : d \in {e \in Caller \ {c} : receiver[e].at = "write" /\ receiver[e].path = target}}
  <2>1. raced' = raced \cup UNION {{A!This(c), A!This(d)} : d \in {e \in Caller \ {c} : receiver[e].at = "write" /\ receiver[e].path = target}}
    BY CallerWords DEF A!ChooseName
  <2> QED
    BY <2>1 DEF A!This, ThisOf
<1> HIDE DEF o, x, target
<1>6. GoesTo(c, "write", target)
  BY <1>3 DEF GoesTo
<1>7. /\ ReceiversInv' /\ \A d \in Caller \ {c} : receiver'[d] = receiver[d]
      /\ receiver'[c].at = "write" /\ receiver'[c].path = target /\ receiver'[c].i = o.i /\ receiver'[c].m = o.m /\ ThisOf(receiver'[c]) = x
  BY <1>1, <1>2, <1>4, <1>6, StagedGoesOn DEF AttachInv, o, x
<1>8. raced \subseteq raced' /\ raced' \subseteq A!Content
      /\ \A d \in Caller \ {c} : receiver[d].at = "write" /\ receiver[d].path = target => x \in raced' /\ ThisOf(receiver[d]) \in raced'
  <2>1. \A d \in Caller : receiver[d].at = "write" => ThisOf(receiver[d]) \in A!Content
    <3>1. "write" \in Doing
      BY DEF Doing, Taken
    <3> QED
      BY <3>1, AttachFacts
  <2>2. raced \subseteq A!Content
    BY DEF AttachInv, FilesTyped
  <2> QED
    BY <1>1, <1>5, <2>1, <2>2
<1>9. FilesTyped'
  BY <1>4, <1>8 DEF AttachInv, FilesTyped
<1>10. BehindInv'
  <2>1. \A k \in rows' : \E j \in rows : j.content = k.content
    BY <1>4
  <2>2. receiver'[c].i >= receiver[c].i /\ receiver'[c].m = receiver[c].m /\ receiver[c].at # "idle" /\ receiver'[c].at \in Taken
    BY <1>1, <1>7 DEF o
  <2>3. (\A l \in rows : l.content # x) /\ \A t \in A!Target : disk[t] # x
    <3>1. o.at \in Doing \ {"row"}
      BY <1>1
    <3> QED
      BY <1>1, <3>1, NotYetInARow, NotYetWritten DEF o, x
  <2>4. (\A l \in rows' : l.content # ThisOf(receiver[c])) /\ \A t \in A!Target : disk'[t] # ThisOf(receiver[c])
    BY <1>4, <2>3 DEF o, x
  <2> QED
    BY <1>4, <1>7, <1>9, <2>1, <2>2, <2>4, BehindGoesOn DEF AttachInv
<1>11. DiskInv'
  <2>1. \A t, v \in A!Target : disk'[t] = disk'[v] /\ disk'[t] # A!NoFile => t = v
    BY <1>4 DEF AttachInv, DiskInv
  <2>2. ASSUME NEW d \in Caller, receiver'[d].at = "write"
        PROVE  disk'[receiver'[d].path] \in raced' \cup {A!NoFile}
    BY <1>2, <1>4, <1>7, <1>8, <2>2 DEF AttachInv, DiskInv
  <2>3. ASSUME NEW d \in Caller, receiver'[d].at = "row"
        PROVE  disk'[receiver'[d].path] = ThisOf(receiver'[d]) \/ ThisOf(receiver'[d]) \in raced'
    <3>1. d # c
      BY <1>7, <2>3
    <3> QED
      BY <1>4, <1>7, <1>8, <2>3, <3>1 DEF AttachInv, DiskInv
  <2>4. ASSUME NEW d \in Caller, NEW e \in Caller, d # e, receiver'[d].at = "write", receiver'[e].at = "write",
               receiver'[d].path = receiver'[e].path
        PROVE  ThisOf(receiver'[d]) \in raced'
    <3>1. CASE d # c /\ e # c
      BY <1>7, <1>8, <2>4, <3>1 DEF AttachInv, DiskInv
    <3>2. CASE d = c
      BY <1>7, <1>8, <2>4, <3>2
    <3>3. CASE e = c
      BY <1>7, <1>8, <2>4, <3>3
    <3> QED
      BY <3>1, <3>2, <3>3
  <2> QED
    BY <2>1, <2>2, <2>3, <2>4 DEF DiskInv
<1>12. A!StoredIsOnDisk'
  BY <1>4, <1>8 DEF AttachInv, A!StoredIsOnDisk, A!Stored
<1>13. A!FetchedWasDeclared'
  BY <1>4 DEF AttachInv, A!FetchedWasDeclared, A!Stored
<1> QED
  BY <1>7, <1>9, <1>10, <1>11, <1>12, <1>13 DEF AttachInv

\* What is under the name by now is gone; who put it there is noted, and so is who writes next.
LEMMA AttachWrites == ASSUME AttachmentsAssumption, AttachInv, NEW c \in Caller, A!Write(c) PROVE AttachInv'
<1> DEFINE o == receiver[c]
           x == ThisOf(o)
           target == o.path
<1>1. /\ o.at = "write" /\ o.at \in Taken /\ o.at \in Doing /\ o.at # "idle" /\ x \in A!Content /\ x # A!NoFile /\ "row" \in Taken
      /\ o.i <= MaxFiles /\ A!ContentPolicy(FileOf(o)) /\ FileOf(o).size = "fits" /\ o.i \in Nat /\ target \in A!Target
  <2>1. o.at = "write" /\ o.at \in Taken /\ "row" \in Taken
    BY DEF A!Write, Taken
  <2> QED
    BY <2>1, AttachFacts
<1>2. GoesTo(c, "row", target)
  BY GotoIs DEF A!Write, GoesTo, AttachInv
<1>3. disk' = [disk EXCEPT ![target] = x] /\ rows' = rows /\ fetched' = fetched /\ raced' = raced /\ received' = received /\ deaths' = deaths
  BY CallerWords DEF A!Write
<1>4. disk[target] \in raced \cup {A!NoFile} /\ (\A l \in rows : l.content # x) /\ \A t \in A!Target : disk[t] # x
  <2>1. o.at \in Doing \ {"row"}
    BY <1>1
  <2> QED
    BY <1>1, <2>1, NotYetInARow, NotYetWritten DEF AttachInv, DiskInv
<1> HIDE DEF o, x, target
<1>5. /\ ReceiversInv' /\ \A d \in Caller \ {c} : receiver'[d] = receiver[d]
      /\ receiver'[c].at = "row" /\ receiver'[c].path = target /\ receiver'[c].i = o.i /\ receiver'[c].m = o.m /\ ThisOf(receiver'[c]) = x
  BY <1>1, <1>2, <1>3, StagedGoesOn DEF AttachInv, o, x
<1>6. /\ disk \in [A!Target -> A!Content \cup {A!NoFile}] /\ disk' \in [A!Target -> A!Content \cup {A!NoFile}]
      /\ disk'[target] = x /\ \A t \in A!Target \ {target} : disk'[t] = disk[t]
  BY <1>1, <1>3 DEF AttachInv, FilesTyped
<1>7. FilesTyped'
  BY <1>3, <1>6 DEF AttachInv, FilesTyped
<1>8. BehindInv'
  <2>1. \A k \in rows' : \E j \in rows : j.content = k.content
    BY <1>3
  <2>2. receiver'[c].i >= receiver[c].i /\ receiver'[c].m = receiver[c].m /\ receiver[c].at # "idle" /\ receiver'[c].at \in Taken
    BY <1>1, <1>5 DEF o
  <2>3. (\A l \in rows' : l.content # ThisOf(receiver[c]))
    BY <1>3, <1>4 DEF o, x
  <2>4. \A t \in A!Target : disk'[t] = disk[t] \/ (receiver[c].at \in Doing /\ disk'[t] = ThisOf(receiver[c]))
    BY <1>1, <1>6 DEF o, x
  <2> QED
    BY <1>3, <1>5, <1>7, <2>1, <2>2, <2>3, <2>4, BehindGoesOn DEF AttachInv
<1>9. DiskInv'
  <2>1. ASSUME NEW t \in A!Target, NEW v \in A!Target, disk'[t] = disk'[v], disk'[t] # A!NoFile
        PROVE  t = v
    BY <1>4, <1>6, <2>1 DEF AttachInv, DiskInv
  <2>2. ASSUME NEW d \in Caller, receiver'[d].at = "write"
        PROVE  disk'[receiver'[d].path] \in raced' \cup {A!NoFile}
    <3>1. d # c /\ receiver'[d] = receiver[d] /\ receiver[d].at = "write" /\ receiver[d].path \in A!Target
      BY <1>5, <2>2, AttachFacts
    <3>2. CASE receiver[d].path = target
      <4>1. ThisOf(receiver[c]) \in raced
        BY <1>1, <3>1, <3>2 DEF AttachInv, DiskInv, o, target
      <4> QED
        BY <1>3, <1>6, <3>1, <3>2, <4>1 DEF o, x
    <3>3. CASE receiver[d].path # target
      BY <1>3, <1>6, <3>1, <3>3 DEF AttachInv, DiskInv
    <3> QED
      BY <3>2, <3>3
  <2>3. ASSUME NEW d \in Caller, receiver'[d].at = "row"
        PROVE  disk'[receiver'[d].path] = ThisOf(receiver'[d]) \/ ThisOf(receiver'[d]) \in raced'
    <3>1. CASE d = c
      BY <1>5, <1>6, <3>1
    <3>2. CASE d # c
      <4>1. receiver'[d] = receiver[d] /\ receiver[d].at = "row" /\ receiver[d].path \in A!Target
        BY <1>5, <2>3, <3>2, AttachFacts
      <4>2. disk[receiver[d].path] = ThisOf(receiver[d]) \/ ThisOf(receiver[d]) \in raced
        BY <4>1 DEF AttachInv, DiskInv
      <4>3. "row" \in Doing /\ ThisOf(receiver[d]) # A!NoFile
        <5>1. "row" \in Doing
          BY DEF Doing, Taken
        <5> QED
          BY <4>1, <5>1, AttachFacts
      <4> QED
        BY <1>3, <1>4, <1>6, <4>1, <4>2, <4>3
    <3> QED
      BY <3>1, <3>2
  <2>4. ASSUME NEW d \in Caller, NEW e \in Caller, d # e, receiver'[d].at = "write", receiver'[e].at = "write",
               receiver'[d].path = receiver'[e].path
        PROVE  ThisOf(receiver'[d]) \in raced'
    <3>1. d # c /\ e # c
      BY <1>5, <2>4
    <3> QED
      BY <1>3, <1>5, <2>4, <3>1 DEF AttachInv, DiskInv
  <2> QED
    BY <2>1, <2>2, <2>3, <2>4 DEF DiskInv
<1>10. A!StoredIsOnDisk'
  <2> SUFFICES ASSUME NEW l \in rows, l.status = "stored"
               PROVE  disk'[l.path] = l.content \/ l.content \in raced
    BY <1>3 DEF A!StoredIsOnDisk, A!Stored
  <2>1. disk[l.path] = l.content \/ l.content \in raced
    BY DEF AttachInv, A!StoredIsOnDisk, A!Stored
  <2>2. l.path \in A!Target /\ l.content # A!NoFile
    BY TypedFacts, AttachNumbers DEF AttachInv
  <2> QED
    BY <1>4, <1>6, <2>1, <2>2
<1>11. A!FetchedWasDeclared'
  BY <1>3 DEF AttachInv, A!FetchedWasDeclared, A!Stored
<1> QED
  BY <1>5, <1>7, <1>8, <1>9, <1>10, <1>11 DEF AttachInv

LEMMA AttachSaves == ASSUME AttachmentsAssumption, AttachInv, NEW c \in Caller, A!SaveRow(c) PROVE AttachInv'
<1> DEFINE o == receiver[c]
           x == ThisOf(o)
           l == [content |-> x, offer |-> FileOf(o), status |-> "stored", path |-> o.path, task |-> FALSE]
<1>1. /\ o.at = "row" /\ o.at \in Taken /\ o.at \in Doing /\ o.at # "idle" /\ x \in A!Content /\ FileOf(o) \in A!Offer /\ o.path \in A!Target
      /\ o.i <= MaxFiles /\ A!ContentPolicy(FileOf(o)) /\ FileOf(o).size = "fits" /\ o.i \in Nat /\ x[2] = o.i
  <2>1. o.at = "row" /\ o.at \in Taken
    BY DEF A!SaveRow, Taken
  <2> QED
    BY <2>1, AttachFacts
<1>2. rows' = rows \cup {l} /\ fetched' = fetched /\ disk' = disk /\ raced' = raced /\ received' = received /\ deaths' = deaths
  BY CallerWords DEF A!SaveRow
<1>3. l \in A!Row /\ l.content = x /\ l.offer = FileOf(o) /\ l.status = "stored" /\ l.path = o.path
  BY <1>1, RowIs
<1>4. disk[o.path] = x \/ x \in raced
  BY <1>1 DEF AttachInv, DiskInv
<1> HIDE DEF l, x, o
<1>5. Refuses(c)
  BY <1>1, NextFileIs DEF A!SaveRow, Refuses, AttachInv, o
<1>6. ReceiversInv' /\ receiver'[c] = NextOf(o) /\ \A d \in Caller \ {c} : receiver'[d] = receiver[d]
  BY <1>2, <1>5, RefusedGoesOn DEF AttachInv, o
<1>7. receiver'[c].at \in {"next", "link"} /\ receiver'[c].i = o.i + 1 /\ receiver'[c].m = o.m
  BY <1>1, <1>6, AttachFacts, NextOk DEF o
<1>8. FilesTyped'
  BY <1>2, <1>3 DEF AttachInv, FilesTyped
<1>9. BehindInv'
  <2>1. \A k \in rows' : (\E j \in rows : j.content = k.content) \/ (receiver[c].at \in Doing /\ k.content = ThisOf(receiver[c]))
    BY <1>1, <1>2, <1>3 DEF x, o
  <2>2. receiver'[c].i > o.i /\ receiver'[c].i >= o.i
    BY <1>1, <1>7
  <2> QED
    BY <1>1, <1>2, <1>6, <1>7, <1>8, <2>1, <2>2, BehindGoesOn DEF AttachInv, o
<1>10. DiskInv'
  <2>1. \A d \in Caller : receiver'[d].at \in {"write", "row"} => receiver'[d] = receiver[d]
    BY <1>6, <1>7
  <2> QED
    BY <1>2, <2>1 DEF AttachInv, DiskInv
<1>11. A!StoredIsOnDisk'
  BY <1>2, <1>3, <1>4 DEF AttachInv, A!StoredIsOnDisk, A!Stored
<1>12. A!FetchedWasDeclared'
  <2>1. /\ Extension[FileOf(o).name] \in {"none", "listed"} /\ FileOf(o).mime \in {"none", "listed"}
        /\ FileOf(o).declared # "big"
    BY <1>1, PolicyAsks
  <2> QED
    BY <1>1, <1>2, <1>3, <2>1 DEF AttachInv, A!FetchedWasDeclared, A!Stored
<1> QED
  BY <1>6, <1>8, <1>9, <1>10, <1>11, <1>12 DEF AttachInv

LEMMA AttachLinks == ASSUME AttachmentsAssumption, AttachInv, NEW c \in Caller, A!Link(c) PROVE AttachInv'
<1>1. PICK task \in BOOLEAN :
        rows' = {IF l.content[1] = receiver[c].m /\ l.status = "stored" THEN [l EXCEPT !.task = task] ELSE l : l \in rows}
  BY DEF A!Link
<1>2. disk' = disk /\ raced' = raced /\ fetched' = fetched
  BY DEF A!Link
<1>3. ReceiversInv' /\ receiver'[c].at = "idle" /\ received' = received /\ \A d \in Caller \ {c} : receiver'[d] = receiver[d]
  BY ReceiversLink DEF AttachInv
<1>4. ASSUME NEW l \in A!Row
      PROVE  LET k == [l EXCEPT !.task = task]
             IN  k \in A!Row /\ k.content = l.content /\ k.offer = l.offer /\ k.status = l.status /\ k.path = l.path
  BY DEF A!Row
<1>5. \A k \in rows' : /\ k \in A!Row
                       /\ \E l \in rows : k.content = l.content /\ k.offer = l.offer /\ k.status = l.status /\ k.path = l.path
  <2> SUFFICES ASSUME NEW k \in rows'
               PROVE  /\ k \in A!Row
                      /\ \E l \in rows : k.content = l.content /\ k.offer = l.offer /\ k.status = l.status /\ k.path = l.path
    OBVIOUS
  <2>1. PICK l \in rows : k = IF l.content[1] = receiver[c].m /\ l.status = "stored" THEN [l EXCEPT !.task = task] ELSE l
    BY <1>1
  <2>2. l \in A!Row
    BY TypedFacts DEF AttachInv
  <2>3. CASE k = l
    BY <2>2, <2>3
  <2>4. CASE k = [l EXCEPT !.task = task]
    BY <1>4, <2>2, <2>4
  <2> QED
    BY <2>1, <2>3, <2>4
<1>6. FilesTyped'
  BY <1>2, <1>5 DEF AttachInv, FilesTyped
<1>7. BehindInv'
  <2>1. \A k \in rows' : \E l \in rows : l.content = k.content
    BY <1>5
  <2> QED
    BY <1>2, <1>3, <1>6, <2>1, BehindGoesOn DEF AttachInv
<1>8. DiskInv' /\ A!StoredIsOnDisk'
  <2>1. \A d \in Caller : receiver'[d] = receiver[d] \/ receiver'[d].at \notin {"write", "row"}
    BY <1>3
  <2>2. \A k \in rows' : k.status = "stored" => \E l \in rows : l.status = "stored" /\ l.path = k.path /\ l.content = k.content
    BY <1>5
  <2> QED
    BY <1>2, <2>1, <2>2, DiskGoesOn
<1>9. A!FetchedWasDeclared'
  <2>1. \A k \in rows' : \E l \in rows : k.content = l.content /\ k.offer = l.offer /\ k.status = l.status
    BY <1>5
  <2> QED
    BY <1>2, <2>1 DEF AttachInv, A!FetchedWasDeclared, A!Stored
<1> QED
  BY <1>3, <1>6, <1>7, <1>8, <1>9 DEF AttachInv

LEMMA AttachBegins == ASSUME AttachmentsAssumption, AttachInv, NEW c \in Caller, NEW files \in Offers, A!Begin(c, files) PROVE AttachInv'
<1>1. disk' = disk /\ rows' = rows /\ raced' = raced /\ fetched' = fetched
  BY DEF A!Begin
<1>2. /\ ReceiversInv' /\ receiver'[c].at = "next" /\ receiver'[c].m = received + 1 /\ receiver'[c].i = 1
      /\ received' = received + 1 /\ received \in Nat /\ \A d \in Caller \ {c} : receiver'[d] = receiver[d]
  BY ReceiversBegin, ReceiversFacts DEF AttachInv
<1>3. FilesTyped'
  BY <1>1 DEF AttachInv, FilesTyped
<1>4. ASSUME NEW x \in A!Content, x[1] <= received
      PROVE  Behind(receiver'[c], x) /\ x[1] <= received'
  <2>1. x[1] \in Nat
    BY ContentIs
  <2> QED
    BY <1>2, <1>4, <2>1 DEF Behind
<1>5. BehindInv'
  <2>1. \A x \in fetched' : x[1] <= received' /\ \A d \in Caller : Behind(receiver'[d], x) \/ AtHand(receiver'[d], x, Taken)
    <3> SUFFICES ASSUME NEW x \in fetched
                 PROVE  x[1] <= received' /\ \A d \in Caller : Behind(receiver'[d], x) \/ AtHand(receiver'[d], x, Taken)
      BY <1>1
    <3>1. x \in A!Content /\ x[1] <= received /\ \A d \in Caller : Behind(receiver[d], x) \/ AtHand(receiver[d], x, Taken)
      BY TypedFacts DEF AttachInv, BehindInv
    <3> QED
      BY <1>2, <1>4, <3>1
  <2>2. \A l \in rows' : l.content[1] <= received' /\ \A d \in Caller : Behind(receiver'[d], l.content)
    <3> SUFFICES ASSUME NEW l \in rows
                 PROVE  l.content[1] <= received' /\ \A d \in Caller : Behind(receiver'[d], l.content)
      BY <1>1
    <3>1. l.content \in A!Content /\ l.content[1] <= received /\ \A d \in Caller : Behind(receiver[d], l.content)
      BY TypedFacts DEF AttachInv, BehindInv
    <3> QED
      BY <1>2, <1>4, <3>1
  <2>3. ASSUME NEW t \in A!Target, disk'[t] # A!NoFile
        PROVE  disk'[t][1] <= received' /\ \A d \in Caller : Behind(receiver'[d], disk'[t]) \/ AtHand(receiver'[d], disk'[t], {"row"})
    <3>1. /\ disk'[t] = disk[t] /\ disk[t] \in A!Content /\ disk[t][1] <= received
          /\ \A d \in Caller : Behind(receiver[d], disk[t]) \/ AtHand(receiver[d], disk[t], {"row"})
      BY <1>1, <2>3, TypedFacts DEF AttachInv, BehindInv
    <3> QED
      BY <1>2, <1>4, <3>1
  <2> QED
    BY <2>1, <2>2, <2>3 DEF BehindInv
<1>6. DiskInv' /\ A!StoredIsOnDisk'
  <2>1. \A d \in Caller : receiver'[d] = receiver[d] \/ receiver'[d].at \notin {"write", "row"}
    BY <1>2
  <2> QED
    BY <1>1, <2>1, DiskGoesOn
<1>7. A!FetchedWasDeclared'
  BY <1>1 DEF AttachInv, A!FetchedWasDeclared, A!Stored
<1> QED
  BY <1>2, <1>3, <1>5, <1>6, <1>7 DEF AttachInv

LEMMA AttachCrashes == ASSUME AttachmentsAssumption, AttachInv, A!Crash PROVE AttachInv'
<1>1. disk' = disk /\ rows' = rows /\ raced' = raced /\ fetched' = fetched /\ received' = received
  BY DEF A!Crash
<1>2. ReceiversInv' /\ \A d \in Caller : receiver'[d].at = "idle"
  BY ReceiversStop DEF AttachInv
<1>3. FilesTyped'
  BY <1>1 DEF AttachInv, FilesTyped
<1>4. BehindInv'
  BY <1>1, <1>2 DEF AttachInv, BehindInv, Behind
<1>5. DiskInv' /\ A!StoredIsOnDisk'
  BY <1>1, <1>2, DiskGoesOn
<1>6. A!FetchedWasDeclared'
  BY <1>1 DEF AttachInv, A!FetchedWasDeclared, A!Stored
<1> QED
  BY <1>2, <1>3, <1>4, <1>5, <1>6 DEF AttachInv

LEMMA AttachInitially == ASSUME AttachmentsAssumption, A!Init PROVE AttachInv
<1>1. /\ disk = [t \in A!Target |-> A!NoFile] /\ rows = {} /\ receiver = [c \in Caller |-> IdleReceiver]
      /\ raced = {} /\ fetched = {} /\ received = 0 /\ deaths = 0
  BY IdleOk DEF A!Init
<1>2. \A c \in Caller : receiver[c] = IdleReceiver /\ receiver[c].at = "idle"
  BY <1>1, IdleOk
<1>3. ReceiversInv
  <2>1. \A c \in Caller : ReceiverOk(receiver[c], received)
    BY <1>2, IdleOk
  <2>2. received \in 0..MaxReceived /\ deaths \in 0..MaxDeaths
    BY <1>1, AttachNumbers
  <2>3. receiver = [c \in Caller |-> receiver[c]]
    BY <1>1
  <2> QED
    BY <1>2, <2>1, <2>2, <2>3 DEF ReceiversInv
<1>4. FilesTyped
  BY <1>1 DEF FilesTyped
<1>5. \A t \in A!Target : disk[t] = A!NoFile
  BY <1>1
<1>6. BehindInv
  BY <1>1, <1>5 DEF BehindInv
<1>7. DiskInv
  BY <1>2, <1>5 DEF DiskInv
<1>8. A!StoredIsOnDisk /\ A!FetchedWasDeclared
  BY <1>1 DEF A!StoredIsOnDisk, A!FetchedWasDeclared, A!Stored
<1> QED
  BY <1>3, <1>4, <1>6, <1>7, <1>8 DEF AttachInv

LEMMA AttachSteps == ASSUME AttachmentsAssumption, AttachInv, [A!Next]_A!vars PROVE AttachInv'
<1>1. CASE UNCHANGED A!vars
  <2>1. /\ disk' = disk /\ rows' = rows /\ receiver' = receiver /\ raced' = raced /\ fetched' = fetched
        /\ received' = received /\ deaths' = deaths
    BY <1>1 DEF A!vars
  <2>2. ReceiversInv'
    BY <2>1 DEF AttachInv, ReceiversInv, ReceiverOk
  <2>3. FilesTyped' /\ BehindInv' /\ DiskInv'
    BY <2>1 DEF AttachInv, FilesTyped, BehindInv, DiskInv
  <2>4. A!StoredIsOnDisk' /\ A!FetchedWasDeclared'
    BY <2>1 DEF AttachInv, A!StoredIsOnDisk, A!FetchedWasDeclared, A!Stored
  <2> QED
    BY <2>2, <2>3, <2>4 DEF AttachInv
<1>2. CASE A!Crash
  BY <1>2, AttachCrashes
<1>3. ASSUME NEW c \in Caller,
             \/ \E files \in Offers : A!Begin(c, files)
             \/ A!RefuseUnread(c) \/ A!Fetch(c) \/ A!ChooseName(c) \/ A!Write(c) \/ A!SaveRow(c) \/ A!Link(c)
      PROVE  AttachInv'
  BY <1>3, AttachBegins, AttachFetches, AttachChooses, AttachWrites, AttachSaves, AttachLinks
<1> QED
  BY <1>1, <1>2, <1>3 DEF A!Next

LEMMA AttachHolds == ASSUME AttachmentsAssumption, AttachInv PROVE A!TypeOK /\ A!StoredIsOnDisk /\ A!FetchedWasDeclared
<1>1. ASSUME NEW c \in Caller
      PROVE  /\ receiver[c].at \in {"idle", "next", "name", "write", "row", "link"}
             /\ receiver[c].files \in Seq(A!Offer) /\ Len(receiver[c].files) <= MaxOffered
             /\ receiver[c].m \in 0..MaxReceived /\ receiver[c].i \in 1..(MaxOffered + 1)
             /\ receiver[c].path \in A!Target
  <2>1. ReceiverOk(receiver[c], received) /\ received \in Nat /\ received <= MaxReceived
    BY ReceiversFacts DEF AttachInv
  <2>2. /\ receiver[c].at \in {"idle", "link"} \cup Doing /\ receiver[c].m \in Nat /\ receiver[c].files \in Seq(A!Offer) /\ receiver[c].i \in Nat
        /\ receiver[c].path \in A!Target /\ receiver[c].m <= MaxReceived /\ Len(receiver[c].files) <= MaxOffered
        /\ 1 <= receiver[c].i /\ receiver[c].i <= MaxOffered + 1
    BY <2>1, ReceiverFacts
  <2> QED
    BY <2>2, AttachNumbers DEF Doing, Taken
<1>2. A!TypeOK
  BY <1>1 DEF A!TypeOK, AttachInv, FilesTyped, ReceiversInv
<1> QED
  BY <1>2 DEF AttachInv

-----------------------------------------------------------------------------
\* Attachments, ChannelLoop, AuditExport (NothingIsDropped): whatever names two
\* messages choose at once and wherever the process dies, the row of a file
\* leads to its content, unless it was raced for its name, and nothing is
\* fetched that was not declared as it must be; no update is passed over; and
\* a file that is found complete tells the whole ledger up to its head.
THEOREM NothingDropped == A!Spec /\ L!Spec /\ X!Spec => []NothingIsDropped
<1>0. AttachmentsAssumption /\ LoopAssumption /\ ExportAssumption
  BY AttachmentsAssumption, LoopAssumption, ExportAssumption
<1>1. A!Init => AttachInv
  BY <1>0, AttachInitially
<1>2. AttachInv /\ [A!Next]_A!vars => AttachInv'
  BY <1>0, AttachSteps
<1>3. L!Init => LoopInv
  BY <1>0, LoopInitially
<1>4. LoopInv /\ [L!Next]_L!vars => LoopInv'
  BY <1>0, LoopSteps
<1>5. X!Init => ExportInv
  BY <1>0, ExportInitially
<1>6. ExportInv /\ [X!Next]_X!vars => ExportInv'
  BY <1>0, ExportSteps
<1>7. AttachInv /\ LoopInv /\ ExportInv => NothingIsDropped
  BY <1>0, AttachHolds, LoopHolds, ExportHolds DEF NothingIsDropped
<1> QED
  BY <1>1, <1>2, <1>3, <1>4, <1>5, <1>6, <1>7, PTL DEF A!Spec, L!Spec, X!Spec

-----------------------------------------------------------------------------
(* Authorization: the rules *)

Sensitive == {"*", "process.run", "git.commit", "email.send"}
Harmless == {"http.request", "python.execute", "filesystem.write", "filesystem.read", "filesystem.list", "database.query",
             "integration.call", "integration.receive", "git.status", "git.diff", "git.log", "email.read",
             "browser.navigate", "browser.extract", "dev.propose", "dev.proposals", "dev.trial", "task.delegate",
             "memory.write", "memory.search"}
Roles == {"operator", "security_officer", "data_steward"}
Forbidden == [external_ai |-> {"forbidden"}]

Whens == {T!Always, T!In("production"), T!In("staging"), T!In("development"), Forbidden, [external_ai |-> {"restricted"}],
          [python_exec_enabled |-> {FALSE}], [write |-> {TRUE}, environment |-> {"production"}], [write |-> {TRUE}],
          [environment |-> {"production"}, risk |-> {"high", "critical"}]}
Rules == [action : Sensitive \cup Harmless, when : Whens, decision : {"allow", "ask", "deny"}, role : Roles \cup {T!NoRole}]

\* A rule that never lets a sensitive action pass, and asks somebody when it asks.
Careful == {r \in Rules : (r.action \in Sensitive => r.decision # "allow") /\ (r.decision = "ask" => r.role \in Roles)}

\* One that says nothing of mail that is sent.
Quiet == {r \in Careful : r.action \notin {"*", "email.send"}}

LEMMA AllowIsQuiet == \A a \in Harmless, w \in Whens : T!Allow(a, w) \in Quiet /\ T!Allow(a, w) \in Careful
BY DEF T!Allow, T!Rule, Quiet, Careful, Rules, Sensitive, Harmless

LEMMA AskIsCareful == \A a \in Sensitive \cup Harmless, w \in Whens, r \in Roles : T!Ask(a, w, r) \in Careful
BY DEF T!Ask, T!Rule, Careful, Rules, Sensitive, Harmless

LEMMA AskIsQuiet == \A a \in Harmless \cup {"process.run", "git.commit"}, w \in Whens, r \in Roles : T!Ask(a, w, r) \in Quiet
BY DEF T!Ask, T!Rule, Quiet, Careful, Rules, Sensitive, Harmless

LEMMA ForbidIsCareful == \A a \in Sensitive \cup Harmless, w \in Whens : T!Forbid(a, w) \in Careful
BY DEF T!Forbid, T!Rule, Careful, Rules, Sensitive, Harmless

LEMMA ForbidIsQuiet == \A a \in Harmless, w \in Whens : T!Forbid(a, w) \in Quiet
BY DEF T!Forbid, T!Rule, Quiet, Careful, Rules, Sensitive, Harmless

LEMMA OfWhens ==
  /\ {T!Always, T!In("production"), T!In("staging"), T!In("development"), Forbidden} \subseteq Whens
  /\ {[external_ai |-> {"restricted"}], [python_exec_enabled |-> {FALSE}], [write |-> {TRUE}]} \subseteq Whens
  /\ [write |-> {TRUE}, environment |-> {"production"}] \in Whens
  /\ [environment |-> {"production"}, risk |-> {"high", "critical"}] \in Whens
BY DEF Whens

LEMMA OfRoles == "operator" \in Roles /\ "security_officer" \in Roles /\ "data_steward" \in Roles
BY DEF Roles

LEMMA OfActions ==
  /\ {"http.request", "python.execute", "filesystem.write", "filesystem.read", "filesystem.list"} \subseteq Harmless
  /\ {"database.query", "integration.call", "integration.receive", "git.status", "git.diff", "git.log"} \subseteq Harmless
  /\ {"email.read", "browser.navigate", "browser.extract", "dev.propose", "dev.proposals", "dev.trial"} \subseteq Harmless
  /\ {"task.delegate", "memory.write", "memory.search"} \subseteq Harmless
  /\ \A a \in Harmless : a \notin Sensitive
BY DEF Harmless, Sensitive

LEMMA Joined ==
  ASSUME NEW set, NEW first \in Seq(set), NEW second \in Seq(set)
  PROVE  /\ first \o second \in Seq(set) /\ Len(first \o second) = Len(first) + Len(second)
         /\ Len(first) \in Nat /\ Len(second) \in Nat
         /\ \A i \in 1..Len(first) : (first \o second)[i] = first[i]
         /\ \A i \in 1..Len(second) : (first \o second)[Len(first) + i] = second[i]
OBVIOUS

LEMMA QuietIsCareful == ASSUME NEW q \in Seq(Quiet) PROVE q \in Seq(Careful)
BY Retyped DEF Quiet

LEMMA QuietRules ==
  /\ T!HttpRules \in Seq(Quiet) /\ T!CodeRules \in Seq(Quiet) /\ T!FileRules \in Seq(Quiet)
  /\ T!DataRules \in Seq(Quiet) /\ T!IntegrationRules \in Seq(Quiet) /\ T!GitRules \in Seq(Quiet)
<1> USE AllowIsQuiet, AskIsQuiet, ForbidIsQuiet, OfWhens, OfRoles, OfActions DEF Forbidden
<1>0. T!Ask("git.commit", T!Always, "operator") \in Quiet /\ T!Ask("process.run", T!Always, "operator") \in Quiet
  OBVIOUS
<1>1. T!HttpRules \in Seq(Quiet)
  BY DEF T!HttpRules
<1>2. T!CodeRules \in Seq(Quiet)
  <2>1. /\ T!Forbid("python.execute", [python_exec_enabled |-> {FALSE}]) \in Quiet
        /\ T!Ask("python.execute", T!In("production"), "operator") \in Quiet
        /\ T!Ask("python.execute", T!In("staging"), "operator") \in Quiet
        /\ T!Allow("python.execute", T!In("development")) \in Quiet
    OBVIOUS
  <2> HIDE AllowIsQuiet, AskIsQuiet, ForbidIsQuiet, OfWhens, OfRoles, OfActions
  <2> QED
    BY <1>0, <2>1 DEF T!CodeRules
<1>3. T!FileRules \in Seq(Quiet)
  BY DEF T!FileRules
<1>4. T!DataRules \in Seq(Quiet)
  BY DEF T!DataRules
<1>5. T!IntegrationRules \in Seq(Quiet)
  BY DEF T!IntegrationRules
<1>6. T!GitRules \in Seq(Quiet)
  <2>1. T!Allow("git.status", T!Always) \in Quiet /\ T!Allow("git.diff", T!Always) \in Quiet /\ T!Allow("git.log", T!Always) \in Quiet
    OBVIOUS
  <2> HIDE AllowIsQuiet, AskIsQuiet, ForbidIsQuiet, OfWhens, OfRoles, OfActions
  <2> QED
    BY <1>0, <2>1 DEF T!GitRules
<1> QED
  BY <1>1, <1>2, <1>3, <1>4, <1>5, <1>6

LEMMA CarefulRules ==
  /\ T!EmailRules \in Seq(Careful) /\ T!BrowserRules \in Seq(Careful) /\ T!DevRules \in Seq(Careful)
  /\ T!DelegateRules \in Seq(Careful) /\ T!MemoryRules \in Seq(Careful) /\ T!production_guard_policy \in Seq(Careful)
<1>0. \A a \in Harmless : T!Guarded(a) \in Seq(Careful)
  BY AllowIsQuiet, AskIsCareful, OfWhens, OfRoles DEF T!Guarded
<1>1. T!EmailRules \in Seq(Careful)
  BY AllowIsQuiet, AskIsCareful, ForbidIsCareful, OfWhens, OfRoles, OfActions DEF T!EmailRules, Forbidden, Sensitive
<1>2. T!BrowserRules \in Seq(Careful)
  <2>1. T!Guarded("browser.navigate") \in Seq(Careful) /\ T!Guarded("browser.extract") \in Seq(Careful)
    BY <1>0 DEF Harmless
  <2> QED
    BY <2>1, Joined DEF T!BrowserRules
<1>3. T!DevRules \in Seq(Careful)
  <2>1. T!Guarded("dev.propose") \in Seq(Careful) /\ T!Guarded("dev.trial") \in Seq(Careful)
    BY <1>0 DEF Harmless
  <2>2. <<T!Allow("dev.proposals", T!Always)>> \in Seq(Careful)
    BY AllowIsQuiet, OfWhens DEF Harmless
  <2> QED
    BY <2>1, <2>2, Joined DEF T!DevRules
<1>4. T!DelegateRules \in Seq(Careful)
  BY <1>0 DEF T!DelegateRules, Sensitive, Harmless
<1>5. T!MemoryRules \in Seq(Careful)
  BY AllowIsQuiet, OfWhens DEF T!MemoryRules, Sensitive, Harmless
<1>6. T!production_guard_policy \in Seq(Careful)
  BY AskIsCareful, OfWhens, OfRoles DEF T!production_guard_policy, Sensitive
<1> QED
  BY <1>1, <1>2, <1>3, <1>4, <1>5, <1>6

\* What the rules begin with.
Begins(q) == q \in Seq(Quiet) /\ 1 \in 1..Len(q) /\ q[1] = T!Forbid("http.request", Forbidden)

LEMMA StillBegins ==
  ASSUME NEW q, Begins(q), NEW more \in Seq(Quiet)
  PROVE  Begins(q \o more)
<1>1. q \in Seq(Quiet) /\ 1 \in 1..Len(q) /\ q[1] = T!Forbid("http.request", Forbidden)
  BY DEF Begins
<1>2. /\ q \o more \in Seq(Quiet) /\ Len(q \o more) = Len(q) + Len(more) /\ Len(q) \in Nat /\ Len(more) \in Nat
      /\ \A i \in 1..Len(q) : (q \o more)[i] = q[i]
  BY <1>1, Joined
<1>3. 1 \in 1..Len(q \o more)
  BY <1>1, <1>2
<1> QED
  BY <1>1, <1>2, <1>3 DEF Begins

\* The first rule of q that speaks of mail that is sent is the k-th, and forbids it.
MailAt(q, k) == /\ q \in Seq(Careful) /\ k \in 2..Len(q) /\ q[k] = T!Forbid("email.send", Forbidden)
                /\ \A i \in 1..(k - 1) : q[i].action \notin {"*", "email.send"}
                /\ q[1] = T!Forbid("http.request", Forbidden)

LEMMA MailStays ==
  ASSUME NEW q, NEW k, MailAt(q, k), NEW more \in Seq(Careful)
  PROVE  MailAt(q \o more, k)
<1>1. q \in Seq(Careful) /\ k \in 2..Len(q) /\ Len(q) \in Nat
  BY DEF MailAt
<1>2. /\ q \o more \in Seq(Careful) /\ Len(q \o more) = Len(q) + Len(more) /\ Len(more) \in Nat
      /\ \A i \in 1..Len(q) : (q \o more)[i] = q[i]
  BY <1>1, Joined
<1>3. k \in 2..Len(q \o more) /\ \A i \in 1..k : (q \o more)[i] = q[i]
  BY <1>1, <1>2
<1>4. (q \o more)[k] = q[k] /\ (q \o more)[1] = q[1] /\ \A i \in 1..(k - 1) : (q \o more)[i] = q[i]
  BY <1>1, <1>3
<1> QED
  BY <1>1, <1>2, <1>3, <1>4 DEF MailAt

LEMMA MailFollows ==
  ASSUME NEW q, Begins(q)
  PROVE  MailAt(q \o T!EmailRules, Len(q) + 1)
<1>1. q \in Seq(Quiet) /\ 1 \in 1..Len(q) /\ q[1] = T!Forbid("http.request", Forbidden) /\ q \in Seq(Careful)
  BY QuietIsCareful DEF Begins
<1>2. T!EmailRules \in Seq(Careful)
  BY CarefulRules
<1>3. Len(T!EmailRules) = 4 /\ T!EmailRules[1] = T!Forbid("email.send", Forbidden)
  BY DEF T!EmailRules, Forbidden
<1>4. /\ q \o T!EmailRules \in Seq(Careful) /\ Len(q \o T!EmailRules) = Len(q) + 4 /\ Len(q) \in Nat
      /\ \A i \in 1..Len(q) : (q \o T!EmailRules)[i] = q[i]
      /\ \A i \in 1..4 : (q \o T!EmailRules)[Len(q) + i] = T!EmailRules[i]
  <2>1. /\ q \o T!EmailRules \in Seq(Careful) /\ Len(q \o T!EmailRules) = Len(q) + Len(T!EmailRules) /\ Len(q) \in Nat
        /\ \A i \in 1..Len(q) : (q \o T!EmailRules)[i] = q[i]
        /\ \A i \in 1..Len(T!EmailRules) : (q \o T!EmailRules)[Len(q) + i] = T!EmailRules[i]
    BY <1>1, <1>2, Joined
  <2> QED
    BY <1>3, <2>1
<1>5. \A i \in 1..Len(q) : q[i].action \notin {"*", "email.send"}
  <2>1. \A i \in 1..Len(q) : q[i] \in Quiet
    BY <1>1
  <2> QED
    BY <2>1 DEF Quiet
<1>6. (q \o T!EmailRules)[Len(q) + 1] = T!Forbid("email.send", Forbidden) /\ (q \o T!EmailRules)[1] = q[1]
  BY <1>1, <1>3, <1>4
<1>7. Len(q) + 1 \in 2..Len(q \o T!EmailRules) /\ \A i \in 1..(Len(q) + 1 - 1) : i \in 1..Len(q)
  BY <1>1, <1>4
<1> QED
  BY <1>1, <1>4, <1>5, <1>6, <1>7 DEF MailAt

LEMMA Baseline == \E k : MailAt(T!baseline_policy, k)
<1> DEFINE b1 == T!HttpRules \o T!CodeRules
           b2 == b1 \o T!FileRules
           b3 == b2 \o T!DataRules
           b4 == b3 \o T!IntegrationRules
           b5 == b4 \o T!GitRules
           m0 == b5 \o T!EmailRules
           m1 == m0 \o T!BrowserRules
           m2 == m1 \o T!DevRules
           m3 == m2 \o T!DelegateRules
           m4 == m3 \o T!MemoryRules
<1>0. T!baseline_policy = m4
  BY DEF T!baseline_policy
<1>1. Begins(T!HttpRules)
  BY QuietRules DEF Begins, T!HttpRules, Forbidden
<1>2. Begins(b1)
  BY <1>1, QuietRules, StillBegins
<1>3. Begins(b2)
  <2> HIDE DEF b1
  <2> QED
    BY <1>2, QuietRules, StillBegins
<1>4. Begins(b3)
  <2> HIDE DEF b2
  <2> QED
    BY <1>3, QuietRules, StillBegins
<1>5. Begins(b4)
  <2> HIDE DEF b3
  <2> QED
    BY <1>4, QuietRules, StillBegins
<1>6. Begins(b5)
  <2> HIDE DEF b4
  <2> QED
    BY <1>5, QuietRules, StillBegins
<1>7. MailAt(m0, Len(b5) + 1)
  <2> HIDE DEF b5
  <2> QED
    BY <1>6, MailFollows
<1>8. PICK k : MailAt(m0, k)
  BY <1>7
<1>9. MailAt(m1, k)
  <2> HIDE DEF m0
  <2> QED
    BY <1>8, CarefulRules, MailStays
<1>10. MailAt(m2, k)
  <2> HIDE DEF m1
  <2> QED
    BY <1>9, CarefulRules, MailStays
<1>11. MailAt(m3, k)
  <2> HIDE DEF m2
  <2> QED
    BY <1>10, CarefulRules, MailStays
<1>12. MailAt(m4, k)
  <2> HIDE DEF m3
  <2> QED
    BY <1>11, CarefulRules, MailStays
<1> QED
  BY <1>0, <1>12

Guard == [environment |-> {"production"}, risk |-> {"high", "critical"}]

\* What the proofs use of the policies: the guard, what is forbidden first, and
\* that no rule lets a sensitive action pass.
LEMMA Policies ==
  /\ T!default_policies \in Seq(Careful) /\ {1, 2} \subseteq DOMAIN T!default_policies /\ DOMAIN T!default_policies \subseteq Nat \ {0}
  /\ T!default_policies[1] = T!Ask("*", Guard, "operator") /\ T!default_policies[2] = T!Forbid("http.request", Forbidden)
  /\ \E k \in DOMAIN T!default_policies :
       /\ T!default_policies[k] = T!Forbid("email.send", Forbidden)
       /\ \A i \in DOMAIN T!default_policies : 1 < i /\ i < k => T!default_policies[i].action \notin {"*", "email.send"}
<1> DEFINE guard == T!production_guard_policy
           base == T!baseline_policy
           rules == guard \o base
<1>0. T!default_policies = rules
  BY DEF T!default_policies
<1>1. guard \in Seq(Careful) /\ Len(guard) = 1 /\ guard[1] = T!Ask("*", Guard, "operator")
  BY CarefulRules DEF T!production_guard_policy, Guard
<1>2. PICK k : MailAt(base, k)
  BY Baseline
<1>3. /\ base \in Seq(Careful) /\ k \in 2..Len(base) /\ base[k] = T!Forbid("email.send", Forbidden)
      /\ \A i \in 1..(k - 1) : base[i].action \notin {"*", "email.send"}
      /\ base[1] = T!Forbid("http.request", Forbidden)
  BY <1>2 DEF MailAt
<1> HIDE DEF guard, base
<1>4. /\ rules \in Seq(Careful) /\ Len(rules) = 1 + Len(base) /\ Len(base) \in Nat
      /\ rules[1] = guard[1] /\ \A i \in 1..Len(base) : rules[1 + i] = base[i]
  <2>1. /\ rules \in Seq(Careful) /\ Len(rules) = Len(guard) + Len(base) /\ Len(base) \in Nat
        /\ \A i \in 1..Len(guard) : rules[i] = guard[i]
        /\ \A i \in 1..Len(base) : rules[Len(guard) + i] = base[i]
    <3>1. guard \in Seq(Careful) /\ base \in Seq(Careful)
      BY <1>1, <1>3
    <3> QED
      BY <3>1, Joined
  <2> QED
    BY <1>1, <2>1
<1> HIDE DEF rules
<1>5. DOMAIN rules = 1..(1 + Len(base))
  BY <1>4
<1>6. rules[2] = base[1] /\ rules[1 + k] = base[k] /\ 1 + k \in DOMAIN rules /\ {1, 2} \subseteq DOMAIN rules
  <2>1. rules[1 + 1] = base[1]
    BY <1>3, <1>4
  <2> QED
    BY <1>3, <1>4, <1>5, <2>1
<1>7. ASSUME NEW i \in DOMAIN rules, 1 < i, i < 1 + k PROVE rules[i].action \notin {"*", "email.send"}
  <2>1. i - 1 \in 1..(k - 1) /\ i - 1 \in 1..Len(base) /\ 1 + (i - 1) = i
    BY <1>3, <1>4, <1>5, <1>7
  <2>2. rules[i] = base[i - 1]
    BY <1>4, <2>1
  <2> QED
    BY <1>3, <2>1, <2>2
<1>8. rules[1] = T!Ask("*", Guard, "operator") /\ rules[2] = T!Forbid("http.request", Forbidden)
  BY <1>1, <1>3, <1>4, <1>6
<1>9. rules \in Seq(Careful) /\ {1, 2} \subseteq DOMAIN rules /\ DOMAIN rules \subseteq Nat \ {0}
  BY <1>4, <1>5, <1>6
<1>10. 1 + k \in DOMAIN rules /\ rules[1 + k] = T!Forbid("email.send", Forbidden)
  BY <1>3, <1>6
<1>11. \A i \in DOMAIN rules : 1 < i /\ i < 1 + k => rules[i].action \notin {"*", "email.send"}
  BY <1>7
<1>12. \E n \in DOMAIN rules : /\ rules[n] = T!Forbid("email.send", Forbidden)
                               /\ \A i \in DOMAIN rules : 1 < i /\ i < n => rules[i].action \notin {"*", "email.send"}
  BY <1>10, <1>11
<1> QED
  BY <1>0, <1>8, <1>9, <1>12

-----------------------------------------------------------------------------
(* Authorization: the decision *)

Heard(i, q, s) == T!Speaks(T!default_policies[i], q, T!Facts(q, s))

\* The first rule that speaks decides, and where none does the answer is no.
LEMMA FirstDecides ==
  ASSUME NEW q, NEW s
  PROVE  \/ T!authorize(q, s) = T!Forbid(q.tool, T!Always) /\ \A i \in DOMAIN T!default_policies : ~Heard(i, q, s)
         \/ \E i \in DOMAIN T!default_policies :
              /\ T!authorize(q, s) = T!default_policies[i] /\ Heard(i, q, s)
              /\ \A j \in DOMAIN T!default_policies : Heard(j, q, s) => i <= j
<1> DEFINE speaking == T!Speaking(T!default_policies, q, s)
<1>1. speaking = {i \in DOMAIN T!default_policies : Heard(i, q, s)}
  BY DEF T!Speaking, Heard
<1>2. T!authorize(q, s) = IF speaking = {} THEN T!Forbid(q.tool, T!Always) ELSE T!default_policies[T!Min(speaking)]
  BY DEF T!authorize
<1> HIDE DEF speaking
<1>3. CASE speaking = {}
  BY <1>1, <1>2, <1>3
<1>4. CASE speaking # {}
  <2>1. speaking \subseteq Nat
    BY <1>1, Policies
  <2>2. \E k \in speaking : \A j \in speaking : k <= j
    BY <1>4, <2>1, LeastNumber
  <2>3. T!Min(speaking) \in speaking /\ \A j \in speaking : T!Min(speaking) <= j
    BY <2>2 DEF T!Min
  <2> QED
    BY <1>1, <1>2, <1>4, <2>3
<1> QED
  BY <1>3, <1>4

LEMMA WhatIsKnown ==
  ASSUME NEW q, NEW s
  PROVE  /\ {"environment", "risk", "external_ai"} \subseteq DOMAIN T!Facts(q, s)
         /\ T!Facts(q, s)["environment"] = q.environment
         /\ q.tool \in DOMAIN T!Risk => T!Facts(q, s)["risk"] = T!Risk[q.tool]
         /\ T!Plain(q) => T!Facts(q, s)["external_ai"] = s.external_ai
<1>1. DOMAIN T!Known(q, s) = {"environment", "risk", "external_ai", "python_exec_enabled"}
  BY DEF T!Known
<1>2. /\ T!Known(q, s)["environment"] = q.environment /\ T!Known(q, s)["external_ai"] = s.external_ai
      /\ q.tool \in DOMAIN T!Risk => T!Known(q, s)["risk"] = T!Risk[q.tool]
  BY DEF T!Known
<1>3. T!Plain(q) => "external_ai" \notin DOMAIN q.facts
  BY DEF T!Plain
<1> QED
  BY <1>1, <1>2, <1>3 DEF T!Facts, T!Reserved

\* A rule that wants one fact, and the guard, which wants two.
LEMMA GuardSpeaks ==
  ASSUME NEW q, NEW s
  PROVE  /\ Heard(1, q, s) => q.environment = "production"
         /\ q.environment = "production" /\ q.tool \in DOMAIN T!Risk /\ T!Risk[q.tool] \in {"high", "critical"} => Heard(1, q, s)
<1>1. DOMAIN Guard = {"environment", "risk"} /\ Guard["environment"] = {"production"} /\ Guard["risk"] = {"high", "critical"}
  BY DEF Guard
<1>2. T!default_policies[1].action = "*" /\ T!default_policies[1].when = Guard
  BY Policies DEF T!Ask, T!Rule
<1> QED
  BY <1>1, <1>2, WhatIsKnown DEF Heard, T!Speaks

LEMMA ForbiddenSpeaks ==
  ASSUME NEW q, NEW s, T!Plain(q), s.external_ai = "forbidden",
         NEW k, T!default_policies[k] = T!Forbid(q.tool, Forbidden)
  PROVE  Heard(k, q, s)
<1>1. DOMAIN Forbidden = {"external_ai"} /\ Forbidden["external_ai"] = {"forbidden"}
  BY DEF Forbidden
<1>2. T!default_policies[k].action = q.tool /\ T!default_policies[k].when = Forbidden
  BY DEF T!Forbid, T!Rule
<1>3. T!policy_action(q) = q.tool
  BY DEF T!policy_action, T!Plain
<1> QED
  BY <1>1, <1>2, <1>3, WhatIsKnown DEF Heard, T!Speaks

\* High risk in production is asked for, by a guard no argument takes away.
LEMMA GuardAsks ==
  ASSUME NEW q, NEW s, q.environment = "production", q.tool \in DOMAIN T!Risk, T!Risk[q.tool] \in {"high", "critical"}
  PROVE  T!authorize(q, s).decision = "ask"
<1>1. Heard(1, q, s) /\ 1 \in DOMAIN T!default_policies /\ \A i \in DOMAIN T!default_policies : i <= 1 => i = 1
  BY GuardSpeaks, Policies
<1>2. T!authorize(q, s) = T!default_policies[1]
  BY <1>1, FirstDecides
<1> QED
  BY <1>2, Policies DEF T!Ask, T!Rule

LEMMA ForbiddenIsDenied ==
  ASSUME NEW q, NEW s, T!Plain(q), s.external_ai = "forbidden", q.environment # "production", q.tool \in {"http.request", "email.send"}
  PROVE  T!authorize(q, s).decision = "deny"
<1>0. \A a, w : T!Forbid(a, w).decision = "deny"
  BY DEF T!Forbid, T!Rule
<1>1. PICK k \in DOMAIN T!default_policies :
        /\ T!default_policies[k] = T!Forbid(q.tool, Forbidden)
        /\ \A i \in DOMAIN T!default_policies : 1 < i /\ i < k => T!default_policies[i].action \notin {"*", q.tool}
  <2>1. CASE q.tool = "http.request"
    <3>1. 2 \in DOMAIN T!default_policies /\ T!default_policies[2] = T!Forbid(q.tool, Forbidden)
      BY <2>1, Policies
    <3>2. \A i \in DOMAIN T!default_policies : ~(1 < i /\ i < 2)
      BY Policies
    <3> QED
      BY <3>1, <3>2
  <2>2. CASE q.tool = "email.send"
    BY <2>2, Policies
  <2> QED
    BY <2>1, <2>2
<1>2. Heard(k, q, s)
  BY <1>1, ForbiddenSpeaks
<1>3. ~Heard(1, q, s)
  BY GuardSpeaks
<1>4. T!policy_action(q) = q.tool
  BY DEF T!policy_action, T!Plain
<1>5. \A i \in DOMAIN T!default_policies : 1 < i /\ i < k => ~Heard(i, q, s)
  BY <1>1, <1>4 DEF Heard, T!Speaks
<1>6. CASE T!authorize(q, s) = T!Forbid(q.tool, T!Always)
  BY <1>0, <1>6
<1>7. ASSUME NEW i \in DOMAIN T!default_policies, T!authorize(q, s) = T!default_policies[i], Heard(i, q, s), i <= k
      PROVE  T!authorize(q, s).decision = "deny"
  <2>1. i \in Nat \ {0} /\ k \in Nat \ {0}
    BY Policies
  <2>2. i = k
    BY <1>3, <1>5, <1>7, <2>1
  <2> QED
    BY <1>0, <1>1, <1>7, <2>2
<1> QED
  BY <1>2, <1>6, <1>7, FirstDecides

LEMMA SensitiveIsNotAllowed ==
  ASSUME NEW q, NEW s, T!Plain(q), q.tool \in {"process.run", "git.commit", "email.send"}
  PROVE  T!authorize(q, s).decision # "allow"
<1>1. T!policy_action(q) = q.tool
  BY DEF T!policy_action, T!Plain
<1>2. CASE T!authorize(q, s) = T!Forbid(q.tool, T!Always)
  BY <1>2 DEF T!Forbid, T!Rule
<1>3. ASSUME NEW i \in DOMAIN T!default_policies, T!authorize(q, s) = T!default_policies[i], Heard(i, q, s)
      PROVE  T!authorize(q, s).decision # "allow"
  <2>1. T!default_policies[i] \in Careful
    BY Policies
  <2>2. T!default_policies[i].action \in Sensitive
    BY <1>1, <1>3 DEF Heard, T!Speaks, Sensitive
  <2> QED
    BY <1>3, <2>1, <2>2 DEF Careful
<1> QED
  BY <1>2, <1>3, FirstDecides

LEMMA SomebodyIsAsked ==
  ASSUME NEW q, NEW s, T!authorize(q, s).decision = "ask"
  PROVE  T!authorize(q, s).role \in Roles
<1>1. CASE T!authorize(q, s) = T!Forbid(q.tool, T!Always)
  BY <1>1 DEF T!Forbid, T!Rule
<1>2. ASSUME NEW i \in DOMAIN T!default_policies, T!authorize(q, s) = T!default_policies[i]
      PROVE  T!authorize(q, s).role \in Roles
  <2>1. T!default_policies[i] \in Careful
    BY Policies
  <2> QED
    BY <1>2, <2>1 DEF Careful
<1> QED
  BY <1>1, <1>2, FirstDecides

\* What a tool does where it is switched off, or is not there: nothing.
LEMMA SwitchedOff ==
  ASSUME NEW q, NEW s, NEW outcome \in T!execute(q, s), outcome.did # {}
  PROVE  /\ q.tool \in DOMAIN T!Risk
         /\ q.tool = "python.execute" => s.python_exec_enabled
         /\ q.tool = "http.request" => s.allow_network_tools
         /\ q.tool = "git.commit" => s.git_enabled
         /\ q.tool = "email.send" => s.email
<1>0. outcome # T!Refusal
  BY DEF T!Refusal, T!Outcome
<1>1. q.tool \in DOMAIN T!Risk /\ outcome \in T!Called(q.tool, q.args = "fit", s)
  BY <1>0 DEF T!execute
<1>2. q.tool = "python.execute" => s.python_exec_enabled
  BY <1>0, <1>1 DEF T!Called, T!PythonExecute
<1>3. q.tool = "http.request" => s.allow_network_tools
  BY <1>0, <1>1 DEF T!Called, T!HttpRequest
<1>4. q.tool = "git.commit" => s.git_enabled
  BY <1>0, <1>1 DEF T!Called, T!GitCommit
<1>5. q.tool = "email.send" => s.email
  BY <1>0, <1>1 DEF T!Called, T!EmailSend
<1> QED
  BY <1>1, <1>2, <1>3, <1>4, <1>5

-----------------------------------------------------------------------------
(* Authorization: the inductive invariant *)

\* What is seen of an execution that did something.
Deed(l) ==
  /\ l.step.environment = "production" /\ T!Risk[l.step.tool] \in {"high", "critical"} => l.approved
  /\ l.settings.external_ai = "forbidden" /\ T!Plain(l.step) /\ l.step.environment # "production"
       => l.step.tool \notin {"http.request", "email.send"}
  /\ l.step.tool = "python.execute" => l.settings.python_exec_enabled
  /\ l.step.tool = "http.request" => l.settings.allow_network_tools
  /\ l.step.tool = "git.commit" => l.settings.git_enabled
  /\ l.step.tool = "email.send" => l.settings.email
  /\ T!Plain(l.step) /\ l.step.tool \in {"process.run", "git.commit", "email.send"}
       => l.approved \/ T!auto_approve(l.step, l.settings)

LastOk(l) == l.step \in Planned /\ l.settings \in Settings /\ (l.did # {} => Deed(l))

PendingOk(w) == w.step \in Planned /\ w.role \in Roles

AuthInv == /\ config \in Settings /\ settings \in [Caller -> Settings]
           /\ pending = T!NoStep \/ PendingOk(pending)
           /\ last = T!NoStep \/ LastOk(last)
           /\ steps \in 0..MaxSteps /\ changesOfConfig \in 0..MaxConfigs

\* What was allowed, approved or approves itself, and was not refused.
LEMMA DeedsAreRight ==
  ASSUME NEW q \in Planned, NEW s \in Settings, NEW outcome \in T!execute(q, s), NEW approved \in BOOLEAN,
         T!authorize(q, s).decision # "deny",
         approved \/ T!authorize(q, s).decision = "allow" \/ (T!authorize(q, s).decision = "ask" /\ T!auto_approve(q, s))
  PROVE  LastOk(T!Ran(q, s, outcome, approved))
<1> DEFINE l == T!Ran(q, s, outcome, approved)
<1>1. l.step = q /\ l.settings = s /\ l.did = outcome.did /\ l.approved = approved
  BY DEF T!Ran
<1> HIDE DEF l
<1>2. ASSUME outcome.did # {} PROVE Deed(l)
  <2>0. /\ q.tool \in DOMAIN T!Risk
        /\ q.tool = "python.execute" => s.python_exec_enabled
        /\ q.tool = "http.request" => s.allow_network_tools
        /\ q.tool = "git.commit" => s.git_enabled
        /\ q.tool = "email.send" => s.email
    BY <1>2, SwitchedOff
  <2>1. q.environment = "production" /\ T!Risk[q.tool] \in {"high", "critical"} => approved
    BY <2>0, GuardAsks DEF T!auto_approve
  <2>2. s.external_ai = "forbidden" /\ T!Plain(q) /\ q.environment # "production" => q.tool \notin {"http.request", "email.send"}
    BY ForbiddenIsDenied
  <2>3. T!Plain(q) /\ q.tool \in {"process.run", "git.commit", "email.send"} => approved \/ T!auto_approve(q, s)
    BY SensitiveIsNotAllowed
  <2> QED
    BY <1>1, <2>0, <2>1, <2>2, <2>3 DEF Deed
<1> QED
  BY <1>1, <1>2 DEF LastOk, l

LEMMA AuthInitially == AuthorizationAssumption /\ T!Init => AuthInv
BY DEF AuthorizationAssumption, T!Init, AuthInv

LEMMA ProposeStep ==
  ASSUME AuthorizationAssumption, AuthInv, NEW p \in Caller, T!Propose(p)
  PROVE  AuthInv'
<1>0. /\ MaxSteps \in Nat /\ MaxConfigs \in Nat /\ settings[p] \in Settings
      /\ UNCHANGED <<config, settings, changesOfConfig>> /\ steps' \in 0..MaxSteps
  BY DEF AuthorizationAssumption, AuthInv, T!Propose
<1>1. PICK q \in Planned :
        \/ /\ T!authorize(q, settings[p]).decision = "ask"
           /\ pending' = [step |-> q, role |-> T!authorize(q, settings[p]).role] /\ last' = T!NoStep
        \/ last' = T!NoStep /\ UNCHANGED pending
        \/ /\ \/ T!authorize(q, settings[p]).decision = "allow"
              \/ T!authorize(q, settings[p]).decision = "ask" /\ T!auto_approve(q, settings[p])
           /\ \E outcome \in T!execute(q, settings[p]) : last' = T!Ran(q, settings[p], outcome, FALSE)
           /\ UNCHANGED pending
  BY DEF T!Propose
<1>2. CASE /\ T!authorize(q, settings[p]).decision = "ask"
           /\ pending' = [step |-> q, role |-> T!authorize(q, settings[p]).role] /\ last' = T!NoStep
  <2>1. T!authorize(q, settings[p]).role \in Roles
    BY <1>2, SomebodyIsAsked
  <2>2. PendingOk(pending')
    BY <1>2, <2>1 DEF PendingOk
  <2> QED
    BY <1>0, <1>2, <2>2 DEF AuthInv
<1>3. CASE last' = T!NoStep /\ UNCHANGED pending
  BY <1>0, <1>3 DEF AuthInv
<1>4. CASE /\ \/ T!authorize(q, settings[p]).decision = "allow"
              \/ T!authorize(q, settings[p]).decision = "ask" /\ T!auto_approve(q, settings[p])
           /\ \E outcome \in T!execute(q, settings[p]) : last' = T!Ran(q, settings[p], outcome, FALSE)
           /\ UNCHANGED pending
  <2>1. LastOk(last')
    BY <1>0, <1>4, DeedsAreRight
  <2> QED
    BY <1>0, <1>4, <2>1 DEF AuthInv
<1> QED
  BY <1>1, <1>2, <1>3, <1>4

LEMMA ByHandStep ==
  ASSUME AuthorizationAssumption, AuthInv, NEW p \in Caller, T!ByHand(p)
  PROVE  AuthInv'
<1>0. /\ MaxSteps \in Nat /\ MaxConfigs \in Nat /\ settings[p] \in Settings
      /\ UNCHANGED <<config, settings, pending, changesOfConfig>> /\ steps' \in 0..MaxSteps
  BY DEF AuthorizationAssumption, AuthInv, T!ByHand
<1>1. PICK q \in Planned : /\ T!authorize(q, settings[p]).decision = "allow"
                           /\ \E outcome \in T!execute(q, settings[p]) : last' = T!Ran(q, settings[p], outcome, FALSE)
  BY DEF T!ByHand
<1>2. LastOk(last')
  BY <1>0, <1>1, DeedsAreRight
<1> QED
  BY <1>0, <1>2 DEF AuthInv

LEMMA ApproveStep ==
  ASSUME AuthInv, NEW p \in Caller, T!Approve(p)
  PROVE  AuthInv'
<1>0. /\ settings[p] \in Settings /\ pending.step \in Planned
      /\ UNCHANGED <<config, settings, steps, changesOfConfig>> /\ pending' = T!NoStep
  BY DEF AuthInv, PendingOk, T!Approve
<1>1. CASE T!Stands(pending.step, settings[p])
  <2>1. PICK outcome \in T!execute(pending.step, settings[p]) : last' = T!Ran(pending.step, settings[p], outcome, TRUE)
    BY <1>1 DEF T!Approve
  <2>2. LastOk(last')
    BY <1>0, <1>1, <2>1, DeedsAreRight DEF T!Stands
  <2> QED
    BY <1>0, <2>2 DEF AuthInv
<1>2. CASE ~T!Stands(pending.step, settings[p])
  BY <1>0, <1>2 DEF AuthInv, T!Approve
<1> QED
  BY <1>1, <1>2

LEMMA AuthSteps ==
  ASSUME AuthorizationAssumption, AuthInv, [T!Next]_T!vars
  PROVE  AuthInv'
<1>1. ASSUME NEW p \in Caller, T!Restart(p) PROVE AuthInv'
  BY <1>1 DEF AuthInv, T!Restart
<1>2. CASE T!Deny
  BY <1>2 DEF AuthInv, T!Deny
<1>3. CASE T!Edit
  BY <1>3 DEF AuthorizationAssumption, AuthInv, T!Edit
<1>4. CASE UNCHANGED T!vars
  BY <1>4 DEF AuthInv, T!vars
<1> QED
  BY <1>1, <1>2, <1>3, <1>4, ProposeStep, ByHandStep, ApproveStep DEF T!Next

LEMMA AuthHolds ==
  ASSUME AuthInv
  PROVE  T!TypeOK /\ T!HighRiskIsDecided /\ T!ForbiddenStaysInside /\ T!SwitchedOffIsIdle /\ T!AlwaysAsked
<1>1. T!TypeOK
  BY DEF AuthInv, T!TypeOK, PendingOk, LastOk, Roles
<1>2. T!Acted => Deed(last)
  BY DEF AuthInv, LastOk, T!Acted
<1>3. T!HighRiskIsDecided
  BY <1>2 DEF T!HighRiskIsDecided, Deed
<1>4. T!ForbiddenStaysInside
  BY <1>2 DEF T!ForbiddenStaysInside, Deed
<1>5. T!SwitchedOffIsIdle
  BY <1>2 DEF T!SwitchedOffIsIdle, Deed
<1>6. T!AlwaysAsked
  BY <1>2 DEF T!AlwaysAsked, Deed
<1> QED
  BY <1>1, <1>3, <1>4, <1>5, <1>6

-----------------------------------------------------------------------------
\* Authorization, integrations/service.py, tools/sandbox.py: whatever the
\* settings, the plan and the names and arguments it gives, and whichever process
\* resumes it, what is risky in production was approved by a human, what is
\* forbidden stays inside, what is switched off does nothing, and processes,
\* commits and mail are asked for; every call that came back is on record,
\* nothing reaches a system that its connector does not allow, the registry is
\* the table while nobody outran the process; a script runs where it was to run,
\* and a run alone in its directory collects all and only its own.
THEOREM ToolsKept == T!Spec /\ C!Spec /\ B!Spec => []ToolsStayInside
<1>1. C!Init => ConnectorsInv
  BY ConnectorsAssumption, ConnectorsInitially
<1>2. ConnectorsInv /\ [C!Next]_C!vars => ConnectorsInv'
  BY ConnectorsAssumption, ConnectorsSteps
<1>3. B!Init => SandboxInv
  BY SandboxAssumption, SandboxInitially
<1>4. SandboxInv /\ [B!Next]_B!vars => SandboxInv'
  BY SandboxAssumption, SandboxSteps
<1>5. T!Init => AuthInv
  BY AuthorizationAssumption, AuthInitially
<1>6. AuthInv /\ [T!Next]_T!vars => AuthInv'
  BY AuthorizationAssumption, AuthSteps
<1>7. ConnectorsInv /\ SandboxInv /\ AuthInv => ToolsStayInside
  BY AuthHolds, MemoryIsTrue, NothingFallsBack DEF ConnectorsInv, BookInv, SandboxInv, ToolsStayInside
<1> QED
  BY <1>1, <1>2, <1>3, <1>4, <1>5, <1>6, <1>7, PTL DEF C!Spec, B!Spec, T!Spec
=============================================================================
