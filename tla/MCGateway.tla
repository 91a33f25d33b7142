----------------------------- MODULE MCGateway -----------------------------
(***************************************************************************)
(* Small instances of the gateway: runs r1 and r2, worker replicas w1, w2. *)
(***************************************************************************)
EXTENDS GatewayRefinement, TLC

CONSTANTS r1, r2, w1, w2

\* A run with four events and a run with one.
Finals == [r \in Run |-> IF r = r1 THEN 3 ELSE 0]
=============================================================================
