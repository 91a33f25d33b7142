------------------------ MODULE ApprovalsRefinement ------------------------
(***************************************************************************)
(* The approval protocol implements the tool gate.                         *)
(***************************************************************************)
EXTENDS Approvals

\* Where the call t is, as its tool sees it.
Place(t) ==
    CASE callback[t] = "idle" -> "unasked"
      [] callback[t] \in Live -> "asked"
      [] callback[t] = "dead" -> "abandoned"
      [] callback[t] = "returned" /\ t \in executed -> "allowed"
      [] callback[t] = "returned" /\ t \notin executed -> "blocked"

gateBar == [t \in Tool |-> Place(t)]

Gate == INSTANCE ToolGate WITH gate <- gateBar, votes <- yes

\* Every behaviour of the deciders, the callback, the TTL sweep and the crashes
\* is a behaviour of the gate: one answer per call, "allowed" only after a human
\* approval, and always some answer.
ImplementsGate == Gate!GateFairSpec
=============================================================================
