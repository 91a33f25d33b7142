-------------------------- MODULE MCApprovals ----------------------------
(***************************************************************************)
(* Small instances of the approval protocol: the tool call t1, the         *)
(* proposals a1 (archive) and f1 (flow_create), the chat connections k1    *)
(* and k2, the REST requests r1 and r2, and the processes p1 and p2.       *)
(***************************************************************************)
EXTENDS ApprovalsRefinement, TLC

CONSTANTS t1, a1, f1, p1, p2, k1, k2, r1, r2

\* r1 shares the process of the turn, r2 and the second connection do not.
Placement == [r \in Request |-> IF r \in {k1, r1} THEN p1 ELSE p2]
OwnedByK1 == [t \in Tool |-> k1]
=============================================================================
