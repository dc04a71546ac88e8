--------------------------- MODULE MCWorkflowRun ---------------------------
(* TLC instances of WorkflowRun: three small workflows. *)
EXTENDS WorkflowRun, TLC

CONSTANTS a, b

Two(of_a, of_b) == a :> of_a @@ b :> of_b

\* b behind a: a has a condition and two attempts, b needs an approval.
Chain == [deps |-> Two({}, {a}), attempts |-> Two(2, 1),
          on_error |-> Two("continue", "fail"), compensate_with |-> Two(NoStep, NoStep),
          gated |-> {b}, optional |-> {a}, width |-> 1]

\* Side by side: a needs an approval, b does not.
Twins == [deps |-> Two({}, {}), attempts |-> Two(1, 1),
          on_error |-> Two("fail", "fail"), compensate_with |-> Two(NoStep, NoStep),
          gated |-> {a}, optional |-> {}, width |-> 2]

\* b undoes a, and runs behind it.
Undo == [deps |-> Two({}, {a}), attempts |-> Two(1, 1),
         on_error |-> Two("compensate", "continue"), compensate_with |-> Two(b, NoStep),
         gated |-> {}, optional |-> {}, width |-> 1]

MCWorkflows == {Chain, Twins, Undo}

Interchangeable == Permutations(Caller)
=============================================================================
