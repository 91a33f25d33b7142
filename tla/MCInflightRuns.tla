--------------------------- MODULE MCInflightRuns ---------------------------
(***************************************************************************)
(* Small instances: a chat turn in the backend, a flow run in the          *)
(* scheduler, the reaper in the worker.                                    *)
(***************************************************************************)
EXTENDS InflightRuns, TLC

CONSTANTS chat, flow, backend, scheduler, worker

Placement == [r \in Run |-> IF r = flow THEN scheduler ELSE backend]

\* One container for each process, as the compose files deploy them.
Containers == [p \in Proc |-> p]

\* The backend in a container of its own, worker and scheduler on one host.
JobsHost == [p \in Proc |-> IF p = backend THEN "backend" ELSE "jobs"]
=============================================================================
