----------------------------- MODULE OnceAMinute ----------------------------
(***************************************************************************)
(* What the scheduler promises (runtime/scheduler.py): a workflow with a   *)
(* cron expression is started in minutes its expression names, and no more *)
(* than once for any of them.                                              *)
(***************************************************************************)
EXTENDS Naturals, Sequences

CONSTANT Scheduled          \* the set of <<workflow, minute>> that are due

VARIABLE starts             \* the starts there have been, oldest first

Init == starts = <<>>

Start(s) == starts' = Append(starts, s)

Next == \E s \in Scheduled \ {starts[i] : i \in DOMAIN starts} : Start(s)

Spec == Init /\ [][Next]_starts
=============================================================================
