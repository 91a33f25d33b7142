-------------------------- MODULE MCSessionSocket --------------------------
(***************************************************************************)
(* Small instances of the chat sockets: connections c1 and c2, turns r1    *)
(* and r2, approval requests a1 and a2.                                    *)
(***************************************************************************)
EXTENDS SessionSocket, TLC

CONSTANTS c1, c2, r1, r2, a1, a2
=============================================================================
