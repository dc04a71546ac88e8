------------------------- MODULE MCIntegrationQueue -------------------------
(* TLC instances of IntegrationQueue: the configuration gives the sets. *)
EXTENDS IntegrationQueue
=============================================================================
