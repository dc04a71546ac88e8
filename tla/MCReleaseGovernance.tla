------------------------- MODULE MCReleaseGovernance ------------------------
(* TLC instances of ReleaseGovernance: an artifact on its way to staging, and on to production. *)
EXTENDS ReleaseGovernance, TLC

CONSTANTS agent, toStaging, toProduction, author, h1, h2

MCRequest == toStaging :> [items |-> {agent}, target |-> "staging", author |-> author]
          @@ toProduction :> [items |-> {agent}, target |-> "production", author |-> author]

Interchangeable == Permutations(Caller) \cup Permutations({h1, h2}) \cup Permutations(Clean)

\* What may happen to the artifact at the same time: of edits, evaluations,
\* overlaps and crashes three in all, in any mixture that their own bounds allow.
MaxTogether == 3
Few == edits + Accidents + Len(evaluations[agent]) <= MaxTogether

MCSpec == Init /\ [][Next /\ Few']_vars

MCRequired == [staging |-> 2, production |-> 1]
=============================================================================
