------------------------------ MODULE ToolGate ------------------------------
(***************************************************************************)
(* What the approval protocol promises a tool call, without rows, futures, *)
(* processes or timers: once asked, the gate answers each call at most     *)
(* once, lets it run only if a human approved before that, and never       *)
(* leaves it waiting for good.                                             *)
(***************************************************************************)
CONSTANT Tool

VARIABLES
    gate,    \* [Tool -> {"unasked", "asked", "allowed", "blocked", "abandoned"}]
    votes    \* the tools a human has approved

gateVars == <<gate, votes>>

GateInit ==
    /\ gate = [t \in Tool |-> "unasked"]
    /\ votes = {}

Move(T, from, to) ==
    /\ T # {}
    /\ \A t \in T : gate[t] \in from
    /\ gate' = [t \in Tool |-> IF t \in T THEN to ELSE gate[t]]
    /\ UNCHANGED votes

Ask(t) == Move({t}, {"unasked"}, "asked")
Vote(t) == votes' = votes \cup {t} /\ UNCHANGED gate
Allow(t) == t \in votes /\ Move({t}, {"asked"}, "allowed")
Block(t) == Move({t}, {"asked"}, "blocked")

\* A turn that is stopped takes all its calls with it.
Abandon(T) == Move(T, {"asked"}, "abandoned")

GateNext ==
    \/ \E t \in Tool : Ask(t) \/ Vote(t) \/ Allow(t) \/ Block(t)
    \/ \E T \in SUBSET Tool : Abandon(T)

Close(t) == Allow(t) \/ Block(t) \/ \E T \in SUBSET Tool : t \in T /\ Abandon(T)

GateSpec == GateInit /\ [][GateNext]_gateVars
GateFairSpec == GateSpec /\ \A t \in Tool : WF_gateVars(Close(t))
=============================================================================
