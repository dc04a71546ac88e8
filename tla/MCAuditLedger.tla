--------------------------- MODULE MCAuditLedger ---------------------------
(* TLC instances of AuditLedger: three threads in one process or in two. *)
EXTENDS AuditLedger, TLC
CONSTANTS t1, t2, t3, api, cli

Together == (t1 :> api) @@ (t2 :> api) @@ (t3 :> api)
Apart == (t1 :> api) @@ (t2 :> api) @@ (t3 :> cli)
=============================================================================
