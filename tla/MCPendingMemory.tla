-------------------------- MODULE MCPendingMemory --------------------------
(***************************************************************************)
(* Small instances of the queue of deferred memory writes: sessions s1 and *)
(* s2, hooks h1 and h2, sweeps w1 (cron) and w2 (an operator's).           *)
(***************************************************************************)
EXTENDS PendingMemory, TLC

CONSTANTS s1, s2, h1, h2, w1, w2

OneSession == [r \in Row |-> s1]
=============================================================================
