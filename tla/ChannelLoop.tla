----------------------------- MODULE ChannelLoop -----------------------------
(***************************************************************************)
(* The polling loop of a channel (gateway/loop.py, gateway/telegram.py).   *)
(* The Bot API keeps every update until a later getUpdates asks for one    *)
(* beyond it; where the loop has got to is known in its memory only.       *)
(***************************************************************************)
EXTENDS Integers, Sequences, FiniteSets

CONSTANTS MaxUpdates, MaxFailures, MaxDeaths    \* bounds

VARIABLES
  sent,                \* the Bot API: updates there have been
  confirmed,           \* the Bot API: the oldest update it still keeps
  offset,              \* TelegramChannel._offset
  batch,               \* what is left of the last answer of getUpdates
  at,                  \* "poll", "handle" or "deliver"
  begun, replied,      \* ghost: how often an update was handed to the gateway, and its answer sent
  failures, deaths

vars == <<sent, confirmed, offset, batch, at, begun, replied, failures, deaths>>

Update == 1..MaxUpdates

TypeOK ==
  /\ sent \in 0..MaxUpdates /\ confirmed \in 1..(MaxUpdates + 1) /\ offset \in 0..(MaxUpdates + 1)
  /\ batch \in Seq(Update) /\ at \in {"poll", "handle", "deliver"}
  /\ begun \in [Update -> Nat] /\ replied \in [Update -> Nat]
  /\ failures \in 0..MaxFailures /\ deaths \in 0..MaxDeaths

Larger(a, b) == IF a > b THEN a ELSE b

Send == /\ sent < MaxUpdates /\ sent' = sent + 1
        /\ UNCHANGED <<confirmed, offset, batch, at, begun, replied, failures, deaths>>

\* getUpdates: an offset confirms what is before it, 0 confirms nothing.
Confirmed_Answered == Larger(Larger(confirmed, offset), sent + 1)    \* mutant: the answer itself is the confirmation
Confirmed == Larger(confirmed, offset)

Poll ==
  /\ at = "poll" /\ Larger(confirmed, offset) <= sent
  /\ confirmed' = Confirmed
  /\ batch' = [i \in 1..(sent + 1 - Larger(confirmed, offset)) |-> Larger(confirmed, offset) + i - 1]
  /\ at' = "handle"
  /\ UNCHANGED <<sent, offset, begun, replied, failures, deaths>>

\* The offset is moved on before the update is handled.
Handle ==
  /\ at = "handle" /\ batch # <<>>
  /\ offset' = Larger(offset, Head(batch) + 1)
  /\ begun' = [begun EXCEPT ![Head(batch)] = @ + 1]
  /\ at' = "deliver"
  /\ UNCHANGED <<sent, confirmed, batch, replied, failures, deaths>>

Deliver ==
  /\ at = "deliver"
  /\ replied' = [replied EXCEPT ![Head(batch)] = @ + 1]
  /\ batch' = Tail(batch)
  /\ at' = IF batch' = <<>> THEN "poll" ELSE "handle"
  /\ UNCHANGED <<sent, confirmed, offset, begun, failures, deaths>>

\* The gateway or the delivery raises: poll_all notes it and goes on to the next channel.
Fail ==
  /\ at = "deliver" /\ failures < MaxFailures
  /\ failures' = failures + 1
  /\ batch' = <<>> /\ at' = "poll"
  /\ UNCHANGED <<sent, confirmed, offset, begun, replied, deaths>>

Die ==
  /\ deaths < MaxDeaths /\ deaths' = deaths + 1
  /\ offset' = 0 /\ batch' = <<>> /\ at' = "poll"
  /\ UNCHANGED <<sent, confirmed, begun, replied, failures>>

Init == /\ sent = 0 /\ confirmed = 1 /\ offset = 0 /\ batch = <<>> /\ at = "poll"
        /\ begun = [u \in Update |-> 0] /\ replied = [u \in Update |-> 0]
        /\ failures = 0 /\ deaths = 0

Next == Send \/ Poll \/ Handle \/ Deliver \/ Fail \/ Die

Spec == Init /\ [][Next]_vars

-----------------------------------------------------------------------------
\* No update is skipped, whatever raised and whenever the process died: what
\* the Bot API has forgotten was handed to the gateway, in the order it came
\* (telegram.py, poll_once) - and was handed over again only after a death.
NoUpdateIsSkipped ==
  /\ \A u \in Update : u < confirmed => begun[u] > 0
  /\ \A u, v \in Update : u < v /\ begun[v] > 0 => begun[u] > 0
  /\ \A u \in Update : begun[u] <= 1 + deaths
=============================================================================
