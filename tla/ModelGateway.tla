----------------------------- MODULE ModelGateway ----------------------------
(***************************************************************************)
(* models/gateway.py: a request goes to the first provider that can serve  *)
(* it; before, the budget is compared with what was booked, the data are   *)
(* checked at the boundary and the conversation is cut to the provider's   *)
(* window; afterwards the cost is booked.  Sizes are what estimate_tokens  *)
(* says, and the estimate of a conversation is taken as the sum of its     *)
(* messages.                                                               *)
(***************************************************************************)
EXTENDS Integers, Sequences, FiniteSets

CONSTANTS
  Caller, Task,
  Order,               \* the enabled providers, as the routing strategy sorts them
  External,            \* those that are external
  Window,              \* [provider -> its max_context_tokens, 0 if it declares none]
  Conversations,       \* sequences of messages
  PerTask, PerDay,     \* budget.per_task, budget.per_day
  MinTokens, Reserve,  \* the literals 256 and 64 of truncate_to_fit
  MaxCost, MaxCalls, MaxCrashes    \* bounds

VARIABLES
  config,              \* security.external_ai, models.overflow, budget.on_exceeded
  booked, today,       \* table model_calls: the cost of each task, and of the day
  paid,                \* ghost: what the providers were owed for each task
  caller, calls, crashes

vars == <<config, booked, today, paid, caller, calls, crashes>>

Provider == {Order[i] : i \in DOMAIN Order}
Config == [external_ai : {"allowed", "restricted", "forbidden"}, overflow : {"escalate", "truncate", "deny"},
           on_exceeded : {"deny", "warn"}]
Request == [messages : Conversations, max_tokens : {1}, external : {"default", "yes", "no"}]
Nothing == [i \in {} |-> i]
Idle == [at |-> "idle", task |-> CHOOSE t \in Task : TRUE, request |-> [messages |-> <<>>, max_tokens |-> 1, external |-> "no"],
         left |-> {}, prepared |-> Nothing, cost |-> 0]

TypeOK ==
  /\ config \in Config
  /\ booked \in [Task -> Nat] /\ today \in Nat /\ paid \in [Task -> Nat]
  /\ \A c \in Caller : /\ caller[c].at \in {"idle", "task", "day", "route", "try", "calling", "book"}
                       /\ caller[c].task \in Task /\ caller[c].cost \in 0..MaxCost
                       /\ caller[c].left \subseteq DOMAIN Order
  /\ calls \in 0..MaxCalls /\ crashes \in 0..MaxCrashes

-----------------------------------------------------------------------------
Total(sizes) == LET sum[k \in 0..Len(sizes)] == IF k = 0 THEN 0 ELSE sum[k - 1] + sizes[k] IN sum[Len(sizes)]

\* What some of the messages come to.
Size(messages, ids) == Total([i \in DOMAIN messages |-> IF i \in ids THEN messages[i].size ELSE 0])
System(messages) == {i \in DOMAIN messages : messages[i].system}
Talk(messages) == {i \in DOMAIN messages : ~messages[i].system}

Fits(p, request) == Window[p] = 0 \/ Size(request.messages, DOMAIN request.messages) + request.max_tokens <= Window[p]

\* truncate_to_fit: the system messages, and the newest others while they fit;
\* a conversation without system messages whose newest does not fit is left whole.
Budget(p, request) == LET room == Window[p] - (request.max_tokens + Reserve)
                      IN  IF room > MinTokens THEN room ELSE MinTokens

\* mutant: a message that does not fit is passed over, and older ones are kept
Tail_Greedy(messages, room) ==
  LET kept[n \in 1..Len(messages) + 1] ==
        IF n > Len(messages) THEN {}
        ELSE IF n \in Talk(messages) /\ Size(messages, kept[n + 1] \cup {n}) <= room THEN kept[n + 1] \cup {n} ELSE kept[n + 1]
  IN  kept[1]
After(messages, n) == {i \in Talk(messages) : i > n}
KeptTail(messages, room) ==
  LET Fitting == {n \in 0..Len(messages) : Size(messages, After(messages, n)) <= room}
  IN  IF Fitting = {} THEN {} ELSE After(messages, CHOOSE n \in Fitting : \A k \in Fitting : n <= k)

truncate_to_fit(p, request) ==
  LET system == System(request.messages)
      kept == system \cup KeptTail(request.messages, Budget(p, request) - Size(request.messages, system))
  IN  IF kept = {} THEN DOMAIN request.messages ELSE kept

\* check_external and sanitize_payload
sanitize(messages) == [i \in DOMAIN messages |-> [messages[i] EXCEPT !.private = FALSE]]
Boundary(p, messages) == IF p \in External /\ config.external_ai = "restricted" THEN sanitize(messages) ELSE messages

Allows(request) == CASE request.external = "default" -> config.external_ai # "forbidden"
                     [] request.external = "yes"     -> TRUE
                     [] request.external = "no"      -> FALSE

\* Providers without the capability are put behind the others, and then all are
\* sorted again, so that the capability decides nothing.
candidates_AnyFallback(request) == DOMAIN Order   \* mutant: the fallback forgets what may leave the company
candidates(request) == {i \in DOMAIN Order : Allows(request) \/ Order[i] \notin External}

ApplyOverflow(order, request) ==
  LET fitting == {i \in order : Fits(Order[i], request)}
  IN  IF config.overflow = "escalate" /\ fitting # {} THEN fitting ELSE order

First(left) == CHOOSE i \in left : \A j \in left : i <= j

-----------------------------------------------------------------------------
Goto(c, at) == caller' = [caller EXCEPT ![c].at = at]
Return(c) == caller' = [caller EXCEPT ![c] = Idle]

Complete(c, task, request) ==
  /\ caller[c].at = "idle" /\ calls < MaxCalls
  /\ calls' = calls + 1
  /\ caller' = [caller EXCEPT ![c] = [Idle EXCEPT !.at = "task", !.task = task, !.request = request]]
  /\ UNCHANGED <<config, booked, today, paid, crashes>>

\* _enforce_budget: two looks at the books, one after the other.
Exceeded_Beyond(spent, limit) == spent > limit     \* mutant: a budget that is used up has room
Exceeded(spent, limit) == spent >= limit

EnforceBudget(c) ==
  /\ \/ /\ caller[c].at = "task"
        /\ IF Exceeded(booked[caller[c].task], PerTask) /\ config.on_exceeded = "deny" THEN Return(c) ELSE Goto(c, "day")
     \/ /\ caller[c].at = "day"
        /\ IF Exceeded(today, PerDay) /\ config.on_exceeded = "deny" THEN Return(c) ELSE Goto(c, "route")
  /\ UNCHANGED <<config, booked, today, paid, calls, crashes>>

Route(c) ==
  /\ caller[c].at = "route"
  /\ LET order == candidates(caller[c].request)
     IN  IF order = {} THEN Return(c)
         ELSE caller' = [caller EXCEPT ![c].at = "try", ![c].left = ApplyOverflow(order, caller[c].request)]
  /\ UNCHANGED <<config, booked, today, paid, calls, crashes>>

\* _apply_data_boundary and _fit_provider; both may end the whole call.
Try(c) ==
  /\ caller[c].at = "try"
  /\ LET p == Order[First(caller[c].left)]
         request == caller[c].request
         safe == Boundary(p, request.messages)
     IN  CASE p \in External /\ config.external_ai = "forbidden" -> Return(c)
           [] ~Fits(p, request) /\ config.overflow = "deny" -> Return(c)
           [] OTHER -> caller' = [caller EXCEPT ![c].at = "calling",
                                                ![c].prepared = [i \in IF Fits(p, request) THEN DOMAIN safe ELSE truncate_to_fit(p, request) |-> safe[i]]]
  /\ UNCHANGED <<config, booked, today, paid, calls, crashes>>

Answer(c, cost) ==
  /\ caller[c].at = "calling"
  /\ paid' = [paid EXCEPT ![caller[c].task] = @ + cost]
  /\ caller' = [caller EXCEPT ![c].at = "book", ![c].cost = cost]
  /\ UNCHANGED <<config, booked, today, calls, crashes>>

Book(c) ==
  /\ caller[c].at = "book"
  /\ booked' = [booked EXCEPT ![caller[c].task] = @ + caller[c].cost]
  /\ today' = today + caller[c].cost
  /\ Return(c)
  /\ UNCHANGED <<config, paid, calls, crashes>>

\* ProviderUnavailable is booked at no cost, and the next provider is asked.
Unavailable(c) ==
  /\ caller[c].at = "calling"
  /\ LET left == caller[c].left \ {First(caller[c].left)}
     IN  IF left = {} THEN Return(c) ELSE caller' = [caller EXCEPT ![c].at = "try", ![c].left = left]
  /\ UNCHANGED <<config, booked, today, paid, calls, crashes>>

NewDay == /\ today > 0 /\ today' = 0
          /\ UNCHANGED <<config, booked, paid, caller, calls, crashes>>

Crash == /\ crashes < MaxCrashes /\ crashes' = crashes + 1
         /\ caller' = [c \in Caller |-> Idle]
         /\ UNCHANGED <<config, booked, today, paid, calls>>

Init == /\ config \in Config
        /\ booked = [t \in Task |-> 0] /\ today = 0 /\ paid = [t \in Task |-> 0]
        /\ caller = [c \in Caller |-> Idle] /\ calls = 0 /\ crashes = 0

Next == \/ \E c \in Caller : \/ \E task \in Task, request \in Request : Complete(c, task, request)
                             \/ EnforceBudget(c) \/ Route(c) \/ Try(c) \/ Book(c) \/ Unavailable(c)
                             \/ \E cost \in 1..MaxCost : Answer(c, cost)
        \/ NewDay \/ Crash

Spec == Init /\ [][Next]_vars

-----------------------------------------------------------------------------
Calling == {c \in Caller : caller[c].at = "calling"}

\* The budget is compared before a call and booked after it, so calls that run
\* at once exceed it - but never by more than one call each, and what was lost
\* in a crash is lost once (gateway.py, _enforce_budget and _record).
OverrunIsBounded ==
  config.on_exceeded = "deny" =>
    \A t \in Task : paid[t] < PerTask + MaxCost * Cardinality(Caller) * (1 + crashes)

\* Whatever provider failed before, none outside the company is asked when
\* that is forbidden by the rules or by the caller, and under "restricted"
\* nothing private is sent to it (gateway.py, candidates and _apply_data_boundary).
DataStaysInside ==
  \A c \in Calling : Order[First(caller[c].left)] \in External =>
    /\ config.external_ai # "forbidden" /\ caller[c].request.external # "no"
    /\ config.external_ai = "restricted" => \A i \in DOMAIN caller[c].prepared : ~caller[c].prepared[i].private

\* "preserva system, mantém a cauda, corta o meio" (truncate_to_fit): of a
\* conversation that was cut, because it did not fit, the provider gets every
\* system message and an unbroken run of the newest others; these fit, and with
\* one more they would not have.
TailIsKept ==
  \A c \in Calling :
    LET p == Order[First(caller[c].left)]
        request == caller[c].request
        messages == request.messages
        sent == DOMAIN caller[c].prepared
        cut == Talk(messages) \ sent
    IN  /\ \A i \in sent : i \in DOMAIN messages /\ caller[c].prepared[i].size = messages[i].size
        /\ sent # DOMAIN messages =>
             /\ ~Fits(p, request)
             /\ System(messages) \subseteq sent
             /\ \A i \in cut, j \in sent \cap Talk(messages) : i < j
             /\ sent \cap Talk(messages) # {} => Size(messages, sent) <= Budget(p, request)
             /\ \A i \in cut : (\A j \in cut : j <= i) => Size(messages, sent) + messages[i].size > Budget(p, request)
=============================================================================
