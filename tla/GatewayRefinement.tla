------------------------- MODULE GatewayRefinement -------------------------
(***************************************************************************)
(* The gateway implements the event stream, with a worker that awaits the  *)
(* response of each emit.                                                  *)
(***************************************************************************)
EXTENDS Gateway

\* How the run looks to its caller.
phaseBar ==
    [r \in Run |->
        CASE stage[r] \in {"idle", "polling", "late"} -> "open"
          [] stage[r] = "answered" -> "answered"
          [] OTHER -> "gone"]

Stream == INSTANCE EventStream WITH written <- event, out <- seen, phase <- phaseBar

\* Through lost, repeated and concurrent calls, batches and limits, the caller
\* gets the worker's events once, in order and without a gap, and "answered" comes
\* with the last of them.
ImplementsStream == Stream!StreamSpec
=============================================================================
