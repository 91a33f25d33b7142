----------------------------- MODULE EventStream -----------------------------
(***************************************************************************)
(* What the gateway promises the caller of a remote run, without rows,     *)
(* polls, retries or timers: the worker's events reach the caller once,    *)
(* in order and without a gap, and the caller is told that the run is      *)
(* answered exactly with its last event.                                   *)
(***************************************************************************)
EXTENDS Naturals, Sequences

CONSTANTS
    Run,
    Final      \* [Run -> Nat]: number of the last event of each run

VARIABLES
    written,   \* [Run -> SUBSET Nat]: events the worker has sent
    out,       \* [Run -> Seq(Nat)]: events the caller has got
    phase      \* [Run -> {"open", "answered", "gone"}]

streamVars == <<written, out, phase>>

StreamInit ==
    /\ written = [r \in Run |-> {}]
    /\ out = [r \in Run |-> <<>>]
    /\ phase = [r \in Run |-> "open"]

Write(r) ==
    /\ \E s \in 0..Final[r] :
          /\ \A x \in 0..Final[r] : x < s => x \in written[r]
          /\ written' = [written EXCEPT ![r] = @ \cup {s}]
    /\ UNCHANGED <<out, phase>>

Read(r) ==
    LET s == Len(out[r])
    IN  /\ phase[r] = "open"
        /\ s \in written[r]
        /\ out' = [out EXCEPT ![r] = Append(@, s)]
        /\ phase' = [phase EXCEPT ![r] = IF s = Final[r] THEN "answered" ELSE "open"]
        /\ UNCHANGED written

\* Refused, timed out, cancelled or dead.
Close(r) ==
    /\ phase[r] = "open"
    /\ phase' = [phase EXCEPT ![r] = "gone"]
    /\ UNCHANGED <<written, out>>

StreamNext == \E r \in Run : Write(r) \/ Read(r) \/ Close(r)

StreamSpec == StreamInit /\ [][StreamNext]_streamVars
=============================================================================
