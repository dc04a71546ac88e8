--------------------------- MODULE MCTaskEngine ---------------------------
(* TLC instances of TaskEngine: plans of two steps, a few policies. *)
EXTENDS TaskEngine, TLC
CONSTANTS s1, s2, c1, c2

MCStep == {s1, s2}
OnePlan == {<<s1, s2>>}
MorePlans == {<<s1, s2>>, <<s2>>, <<>>}
P(a, b) == (s1 :> a) @@ (s2 :> b)
MCPolicies == {P("approval", "approval"), P("allow", "approval"), P("approval", "deny")}
=============================================================================
