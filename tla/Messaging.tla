------------------------------ MODULE Messaging ------------------------------
(***************************************************************************)
(* Who may speak through a channel (gateway/service.py): pairing a sender  *)
(* with a principal, blocking him, and the way of a message through        *)
(* handle_inbound.  Webhooks and the polling loop run in threads of their  *)
(* own beside the operator's commands; each reads whole rows and writes    *)
(* whole rows back, a message too: it notes that the sender was seen.      *)
(***************************************************************************)
EXTENDS Integers, FiniteSets

CONSTANTS
  Caller, Sender,
  RequirePairing,      \* gateway.require_pairing
  Limit,               \* gateway.rate_limit_per_minute
  MaxCommands, MaxMessages, MaxMinutes    \* bounds

VARIABLES
  bindings,            \* table gateway_bindings
  principals,          \* table principals: the one of each sender
  hits,                \* gateway_messages: the rows "in" of the last minute
  caller,              \* each caller: where it is, and the rows it has read
  silenced,            \* ghost: senders whose blocking has returned
  late,                \* ghost: who handles a message that was sent after its sender's blocking
  answered,            \* ghost: messages of the last minute that were let in
  commands, messages, minutes

vars == <<bindings, principals, hits, caller, silenced, late, answered, commands, messages, minutes>>
bounds == <<commands, messages, minutes>>

Binding == [there : BOOLEAN, status : {"pending", "active", "blocked"}, linked : BOOLEAN, coded : BOOLEAN]
NoBinding == [there |-> FALSE, status |-> "pending", linked |-> FALSE, coded |-> FALSE]
NewBinding == [NoBinding EXCEPT !.there = TRUE, !.coded = TRUE]
Entry == [there : BOOLEAN, active : BOOLEAN]
Nobody == [there |-> FALSE, active |-> FALSE]

Idle == [at |-> "idle", goal |-> "message", s |-> CHOOSE s \in Sender : TRUE, b |-> NoBinding, who |-> Nobody,
         roles |-> FALSE, wrong |-> FALSE, fresh |-> FALSE]

TypeOK ==
  /\ bindings \in [Sender -> Binding] /\ principals \in [Sender -> Entry]
  /\ hits \in [Sender -> Nat]
  /\ caller \in [Caller -> [at : {"idle", "discover", "in", "deny", "count", "who", "again", "ensure", "create", "roles",
                                  "serve", "check", "bind", "unbind", "disable", "disabling"},
                            goal : {"message", "pair", "block", "unpair"}, s : Sender, b : Binding, who : Entry,
                            roles : BOOLEAN, wrong : BOOLEAN, fresh : BOOLEAN]]
  /\ silenced \subseteq Sender /\ late \subseteq Caller /\ answered \in [Sender -> Nat]
  /\ commands \in 0..MaxCommands /\ messages \in 0..MaxMessages /\ minutes \in 0..MaxMinutes

-----------------------------------------------------------------------------
Goto(c, at) == caller' = [caller EXCEPT ![c].at = at] /\ UNCHANGED late
Return(c) == caller' = [caller EXCEPT ![c] = Idle] /\ late' = late \ {c}
Freed(s) == silenced' = silenced \ {s} /\ late' = {c \in late : caller[c].s # s}
SaveBinding(c, b) == bindings' = [bindings EXCEPT ![caller[c].s] = b]

\* binding_for: whoever is not known yet starts as pending.
BindingFor(c, call, known) ==
  LET b == bindings[call.s]
  IN  caller' = [caller EXCEPT ![c] = [call EXCEPT !.at = IF b.there THEN known ELSE "discover",
                                                   !.b = IF b.there THEN b ELSE NewBinding]]

Discover(c) ==
  /\ caller[c].at = "discover"
  /\ SaveBinding(c, caller[c].b)
  /\ Goto(c, IF caller[c].goal = "pair" THEN "check" ELSE "in")
  /\ UNCHANGED <<principals, hits, silenced, answered, bounds>>

\* _ensure_principal: create_principal, or set_roles on a row read once more.
Ensure(c) ==
  /\ caller[c].at = "ensure"
  /\ LET entry == principals[caller[c].s]
     IN  caller' = [caller EXCEPT ![c].at = IF entry.there THEN "roles" ELSE "create",
                                  ![c].who = [there |-> TRUE, active |-> entry.there => entry.active]]
  /\ UNCHANGED <<late, bindings, principals, hits, silenced, answered, bounds>>

SavePrincipal(c) ==
  /\ caller[c].at \in {"create", "roles"}
  /\ principals' = [principals EXCEPT ![caller[c].s] = caller[c].who]
  /\ caller' = [caller EXCEPT ![c].at = IF caller[c].goal = "pair" THEN "bind" ELSE "again", ![c].b.linked = TRUE]
  /\ UNCHANGED <<late, bindings, hits, silenced, answered, bounds>>

\* Between its two looks at the table somebody came or went.
EnsureRaises(c) ==
  /\ \/ caller[c].at = "create" /\ principals[caller[c].s].there
     \/ caller[c].at = "roles" /\ ~principals[caller[c].s].there
  /\ Return(c)
  /\ UNCHANGED <<bindings, principals, hits, silenced, answered, bounds>>

-----------------------------------------------------------------------------
\* handle_inbound
Receive(c, s) ==
  /\ caller[c].at = "idle" /\ messages < MaxMessages /\ messages' = messages + 1
  /\ BindingFor(c, [Idle EXCEPT !.s = s], "in")
  /\ late' = IF s \in silenced THEN late \cup {c} ELSE late
  /\ UNCHANGED <<bindings, principals, hits, silenced, answered, commands, minutes>>

LogIn(c) ==
  /\ caller[c].at = "in"
  /\ LET me == caller[c]
     IN  /\ hits' = [hits EXCEPT ![me.s] = @ + 1]
         /\ caller' = [caller EXCEPT ![c].fresh = TRUE,
                                     ![c].at = IF me.b.status = "blocked" \/ (RequirePairing /\ me.b.status # "active")
                                               THEN "deny" ELSE "count"]
  /\ UNCHANGED <<late, bindings, principals, silenced, answered, bounds>>

Limited_Later(s) == hits[s] > Limit + 1      \* mutant: the message itself is not counted
Limited(s) == hits[s] > Limit                \* _rate_limit

Count(c) ==
  /\ caller[c].at = "count"
  /\ Goto(c, IF Limited(caller[c].s) THEN "deny" ELSE "who")
  /\ UNCHANGED <<bindings, principals, hits, silenced, answered, bounds>>

MayTalk_Known(entry) == entry.there          \* mutant: the principal's status is not asked for
MayTalk(entry) == entry.there /\ entry.active

\* A binding without a principal, or whose principal was removed, gets one.
Who(c) ==
  /\ caller[c].at \in {"who", "again"}
  /\ LET me == caller[c]
         entry == IF me.b.linked THEN principals[me.s] ELSE Nobody
     IN  caller' = [caller EXCEPT ![c].who = entry,
                                  ![c].at = IF me.at = "who" /\ ~entry.there THEN "ensure"
                                            ELSE IF MayTalk(entry) THEN "serve" ELSE "deny"]
  /\ UNCHANGED <<late, bindings, principals, hits, silenced, answered, bounds>>

\* touch and save of the copy; then the command, as the principal who was read.
Serve(c) ==
  /\ caller[c].at = "serve"
  /\ SaveBinding(c, caller[c].b)
  /\ answered' = [answered EXCEPT ![caller[c].s] = @ + (IF caller[c].fresh THEN 1 ELSE 0)]
  /\ Return(c)
  /\ UNCHANGED <<principals, hits, silenced, bounds>>

\* _deny logs the refused message a second time.
Deny(c) ==
  /\ caller[c].at = "deny"
  /\ hits' = [hits EXCEPT ![caller[c].s] = @ + 1]
  /\ Return(c)
  /\ UNCHANGED <<bindings, principals, silenced, answered, bounds>>

\* The window of count_since, in whole minutes.
Tick ==
  /\ minutes < MaxMinutes /\ minutes' = minutes + 1
  /\ hits' = [s \in Sender |-> 0] /\ answered' = [s \in Sender |-> 0]
  /\ caller' = [c \in Caller |-> [caller[c] EXCEPT !.fresh = FALSE]]
  /\ UNCHANGED <<late, bindings, principals, silenced, commands, messages>>

-----------------------------------------------------------------------------
\* The operator: pair, unpair, and `egr identity`.
Command(c) == caller[c].at = "idle" /\ commands < MaxCommands /\ commands' = commands + 1 /\ UNCHANGED <<messages, minutes>>

Pair(c, s, roles, wrong) ==
  /\ Command(c)
  /\ BindingFor(c, [Idle EXCEPT !.goal = "pair", !.s = s, !.roles = roles, !.wrong = wrong], "check")
  /\ Freed(s)
  /\ UNCHANGED <<bindings, principals, hits, answered>>

\* A wrong code is refused, as long as there is a code; so is a blocked sender without --role.
Check(c) ==
  /\ caller[c].at = "check"
  /\ LET me == caller[c]
     IN  IF (me.wrong /\ me.b.coded) \/ (me.b.status = "blocked" /\ ~me.roles)
         THEN Return(c)
         ELSE caller' = [caller EXCEPT ![c].at = "ensure", ![c].b.status = "active"] /\ UNCHANGED late
  /\ UNCHANGED <<bindings, principals, hits, silenced, answered, bounds>>

\* Somebody else is about to change what the sender may do.
Disturbed(c) == \E d \in Caller \ {c} : /\ caller[d].at # "idle" /\ caller[d].s = caller[c].s
                                        /\ caller[d].goal # "message" \/ caller[d].at \in {"ensure", "create", "roles"}
Bind(c) ==
  /\ caller[c].at = "bind"
  /\ SaveBinding(c, caller[c].b)
  /\ Return(c)
  /\ UNCHANGED <<principals, hits, silenced, answered, bounds>>

Unpair(c, s, block) ==
  /\ Command(c) /\ bindings[s].there
  /\ caller' = [caller EXCEPT ![c] = [Idle EXCEPT !.at = "unbind", !.goal = IF block THEN "block" ELSE "unpair", !.s = s,
                                                  !.b = [bindings[s] EXCEPT !.status = IF block THEN "blocked" ELSE "pending",
                                                                            !.coded = FALSE]]]
  /\ UNCHANGED <<late, bindings, principals, hits, silenced, answered>>

Unbind(c) ==
  /\ caller[c].at = "unbind"
  /\ SaveBinding(c, caller[c].b)
  /\ IF caller[c].goal = "block" /\ caller[c].b.linked THEN Goto(c, "disable") ELSE Return(c)
  /\ UNCHANGED <<principals, hits, silenced, answered, bounds>>

\* set_status; a principal who is gone is passed over in silence.
ReadDisabled(c) ==
  /\ caller[c].at = "disable"
  /\ LET entry == principals[caller[c].s]
     IN  IF entry.there
         THEN caller' = [caller EXCEPT ![c].at = "disabling", ![c].who = [entry EXCEPT !.active = FALSE]] /\ UNCHANGED late
         ELSE Return(c)
  /\ UNCHANGED <<bindings, principals, hits, silenced, answered, bounds>>

SaveDisabled(c) ==
  /\ caller[c].at = "disabling"
  /\ principals' = [principals EXCEPT ![caller[c].s] = caller[c].who]
  /\ silenced' = IF Disturbed(c) THEN silenced ELSE silenced \cup {caller[c].s}
  /\ Return(c)
  /\ UNCHANGED <<bindings, hits, answered, bounds>>

Enable(c, s) ==
  /\ Command(c) /\ principals[s].there
  /\ principals' = [principals EXCEPT ![s].active = TRUE]
  /\ Freed(s)
  /\ UNCHANGED <<bindings, hits, caller, answered>>

Remove(c, s) ==
  /\ Command(c) /\ principals[s].there
  /\ principals' = [principals EXCEPT ![s] = Nobody]
  /\ Freed(s)
  /\ UNCHANGED <<bindings, hits, caller, answered>>

Init == /\ bindings = [s \in Sender |-> NoBinding] /\ principals = [s \in Sender |-> Nobody]
        /\ hits = [s \in Sender |-> 0] /\ answered = [s \in Sender |-> 0]
        /\ caller = [c \in Caller |-> Idle] /\ silenced = {} /\ late = {}
        /\ commands = 0 /\ messages = 0 /\ minutes = 0

Next == \/ \E c \in Caller :
             \/ \E s \in Sender : \/ Receive(c, s) \/ Enable(c, s) \/ Remove(c, s)
                                  \/ \E roles, wrong \in BOOLEAN : Pair(c, s, roles, wrong)
                                  \/ \E block \in BOOLEAN : Unpair(c, s, block)
             \/ Discover(c) \/ Ensure(c) \/ SavePrincipal(c) \/ EnsureRaises(c)
             \/ LogIn(c) \/ Count(c) \/ Who(c) \/ Serve(c) \/ Deny(c)
             \/ Check(c) \/ Bind(c) \/ Unbind(c) \/ ReadDisabled(c) \/ SaveDisabled(c)
        \/ Tick

Spec == Init /\ [][Next]_vars

-----------------------------------------------------------------------------
\* A sender whom an operator has blocked is not served any more, from the
\* moment the command has returned until he is paired or enabled again - even
\* though a message that was under way meanwhile writes its old binding back
\* and makes it active (service.py, unpair and handle_inbound).
BlockedIsSilent == \A c \in Caller : ~(caller[c].at = "serve" /\ c \in late)

\* Of the messages that arrive within a minute no more than the limit are let
\* in, however their handling overlaps (service.py, _rate_limit).
RhythmIsKept == \A s \in Sender : answered[s] <= Limit

\* "está bloqueado: desbloqueie com --role" (service.py, pair): a sender who is
\* paired again after a block can speak again.
UnblockedCanSpeak == \A s \in Sender :
  (/\ \A c \in Caller : caller[c].at = "idle"
   /\ bindings[s].status = "active" /\ principals[s].there) => principals[s].active
=============================================================================
