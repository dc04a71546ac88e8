---------------------------- MODULE AtomicLedger ----------------------------
(***************************************************************************)
(* What the audit ledger promises (audit/ledger.py): an append-only table  *)
(* in which recording an event is one atomic step, so that every row is    *)
(* chained to the row before it.  A digest stands for everything chained   *)
(* into it: it is the sequence of the bodies hashed so far, and GENESIS is *)
(* the empty one.                                                          *)
(***************************************************************************)
EXTENDS Integers, Sequences

CONSTANT Body                  \* what an event says: type, actor, payload ...

VARIABLES
  events,                      \* the rows of table events, by seq
  recorded                     \* ghost: the bodies handed to record

Digest == Seq(Body)
GENESIS == <<>>

\* core/hashing.py chain_hash, taken to be free of collisions.
chain_hash(previous, body) == Append(previous, body)

\* SELECT hash FROM events ORDER BY seq DESC LIMIT 1
LastHash == IF events = <<>> THEN GENESIS ELSE events[Len(events)].hash

Row(previous, body) == [body |-> body, prev |-> previous, hash |-> chain_hash(previous, body)]

Init == events = <<>> /\ recorded = <<>>

Record == \E b \in Body : /\ events' = Append(events, Row(LastHash, b))
                          /\ recorded' = Append(recorded, b)

\* Somebody rewrites what a row says, behind the ledger's back.
Tamper == /\ \E i \in DOMAIN events, b \in Body : events' = [events EXCEPT ![i].body = b]
          /\ UNCHANGED recorded

Next == Record \/ Tamper

Spec == Init /\ [][Next]_<<events, recorded>>
=============================================================================
