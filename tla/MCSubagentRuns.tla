--------------------------- MODULE MCSubagentRuns ---------------------------
(***************************************************************************)
(* Small instances: the children c1 and c2 of one batch, a REST request, a *)
(* chat connection, the two crons of the worker.                           *)
(***************************************************************************)
EXTENDS SubagentRuns, TLC
=============================================================================
