----------------------------- MODULE LeaderLease -----------------------------
(***************************************************************************)
(* The Redis lease that elects one scheduler (workflows/leader.py): each   *)
(* candidate polls with SET NX, the winner runs the scheduler loop beside  *)
(* a renewal with SET XX, and a clean shutdown deletes the lease if it is  *)
(* still its own.  Time is discrete; Redis expires the key.                *)
(***************************************************************************)
EXTENDS Naturals, FiniteSets

CONSTANTS
    Worker,    \* scheduler containers
    Ttl,       \* LEASE_TTL_S
    Renewal,   \* RENEW_INTERVAL_S
    Poll,      \* ACQUIRE_POLL_S
    MaxLife,   \* bound on the incarnations of a container
    MaxStall,  \* bound on pauses: a frozen process, a hanging Redis call
    MaxLoss    \* bound on restarts of Redis that lose the key

ASSUME ConstantsAssumption ==
    /\ Renewal \in Nat \ {0}
    /\ Poll \in Nat \ {0}
    /\ Ttl \in Nat /\ Renewal < Ttl
    /\ MaxLife \in Nat
    /\ MaxStall \in Nat
    /\ MaxLoss \in Nat

VARIABLES
    key,      \* the holder in Redis: no worker id, or one
    ttl,      \* seconds until the key expires; 0 for no expiry
    pc,       \* where each candidate is
    work,     \* the on_elected task of a leader
    nap,      \* seconds until the candidate's sleep ends
    life,     \* incarnation of a container: each one draws a new worker id
    stalled,  \* candidates whose next Redis call does not come through
    stalls,
    losses

vars == <<key, ttl, pc, work, nap, life, stalled, stalls, losses>>
lease == <<key, ttl>>
faults == <<stalled, stalls, losses>>

Id(w) == <<w, life[w]>>
Leaders == {w \in Worker : pc[w] = "leading"}

TypeOK ==
    /\ key \subseteq Worker \X Nat
    /\ ttl \in Nat
    /\ pc \in [Worker -> {"off", "standby", "leading", "releasing"}]
    /\ work \in [Worker -> {"running", "done", "raised"}]
    /\ nap \in [Worker -> Nat]
    /\ life \in [Worker -> Nat]
    /\ stalled \subseteq Worker
    /\ stalls \in Nat
    /\ losses \in Nat

Init ==
    /\ key = {}
    /\ ttl = 0
    /\ pc = [w \in Worker |-> "off"]
    /\ work = [w \in Worker |-> "done"]
    /\ nap = [w \in Worker |-> 0]
    /\ life = [w \in Worker |-> 0]
    /\ stalled = {}
    /\ stalls = 0
    /\ losses = 0

Ready(w) == nap[w] = 0 /\ w \notin stalled

Start(w) ==
    /\ pc[w] = "off"
    /\ life[w] < MaxLife
    /\ life' = [life EXCEPT ![w] = @ + 1]
    /\ pc' = [pc EXCEPT ![w] = "standby"]
    /\ nap' = [nap EXCEPT ![w] = 0]
    /\ UNCHANGED <<lease, work, faults>>

\* Mutant: the lease is taken without an expiry.
MutAcquire(w) ==
    /\ pc[w] = "standby" /\ Ready(w)
    /\ key = {}
    /\ key' = {Id(w)}
    /\ ttl' = 0
    /\ pc' = [pc EXCEPT ![w] = "leading"]
    /\ work' = [work EXCEPT ![w] = "running"]
    /\ nap' = [nap EXCEPT ![w] = Renewal]
    /\ UNCHANGED <<life, faults>>

\* SET NX EX succeeded: the work and its renewal are spawned.
Acquire(w) ==
    /\ pc[w] = "standby" /\ Ready(w)
    /\ key = {}
    /\ key' = {Id(w)}
    /\ ttl' = Ttl
    /\ pc' = [pc EXCEPT ![w] = "leading"]
    /\ work' = [work EXCEPT ![w] = "running"]
    /\ nap' = [nap EXCEPT ![w] = Renewal]
    /\ UNCHANGED <<life, faults>>

\* SET NX found the key.
Wait(w) ==
    /\ pc[w] = "standby" /\ Ready(w)
    /\ key # {}
    /\ nap' = [nap EXCEPT ![w] = Poll]
    /\ UNCHANGED <<lease, pc, work, life, faults>>

\* Mutant: the fate of the work becomes the fate of the worker.
MutRenew(w) ==
    /\ pc[w] = "leading" /\ Ready(w)
    /\ key # {}
    /\ key' = {Id(w)}
    /\ ttl' = Ttl
    /\ pc' = [pc EXCEPT ![w] = IF work[w] = "running" THEN "leading" ELSE work[w]]
    /\ nap' = [nap EXCEPT ![w] = IF work[w] = "running" THEN Renewal ELSE 0]
    /\ UNCHANGED <<work, life, faults>>

\* SET XX EX writes this worker's id over whatever id the key holds.  Only then is
\* the work looked at: a finished one sends the worker back to standby, an
\* exception ends the process.
Renew(w) ==
    /\ pc[w] = "leading" /\ Ready(w)
    /\ key # {}
    /\ key' = {Id(w)}
    /\ ttl' = Ttl
    /\ pc' = [pc EXCEPT ![w] = CASE work[w] = "running" -> "leading"
                                 [] work[w] = "done" -> "standby"
                                 [] work[w] = "raised" -> "off"]
    /\ nap' = [nap EXCEPT ![w] = IF work[w] = "running" THEN Renewal ELSE 0]
    /\ UNCHANGED <<work, life, faults>>

\* The key is gone: the work is cancelled and awaited, the worker is a standby again.
StepDown(w) ==
    /\ pc[w] = "leading" /\ Ready(w)
    /\ key = {}
    /\ pc' = [pc EXCEPT ![w] = "standby"]
    /\ UNCHANGED <<lease, work, nap, life, faults>>

WorkEnds(w, how) ==
    /\ pc[w] = "leading" /\ work[w] = "running"
    /\ work' = [work EXCEPT ![w] = how]
    /\ UNCHANGED <<lease, pc, nap, life, faults>>

\* The loop is cancelled: the work is cancelled and awaited first.
Shutdown(w) ==
    /\ pc[w] \in {"standby", "leading"}
    /\ w \notin stalled
    /\ pc' = [pc EXCEPT ![w] = "releasing"]
    /\ UNCHANGED <<lease, work, nap, life, faults>>

\* Mutant: DEL without the comparison.
MutRelease(w) ==
    /\ pc[w] = "releasing"
    /\ pc' = [pc EXCEPT ![w] = "off"]
    /\ key' = {}
    /\ UNCHANGED <<ttl, work, nap, life, faults>>

\* _SAFE_DEL_LUA deletes the key if it holds this worker's id; a failed call is
\* ignored.
Release(w) ==
    /\ pc[w] = "releasing"
    /\ pc' = [pc EXCEPT ![w] = "off"]
    /\ key' \in {key \ {Id(w)}, key}
    /\ UNCHANGED <<ttl, work, nap, life, faults>>

\* The process is killed, or a Redis call raised: nothing is released.
Crash(w) ==
    /\ pc[w] # "off"
    /\ pc' = [pc EXCEPT ![w] = "off"]
    /\ stalled' = stalled \ {w}
    /\ UNCHANGED <<lease, work, nap, life, stalls, losses>>

Stall(w) ==
    /\ stalls < MaxStall
    /\ pc[w] \in {"standby", "leading"} /\ w \notin stalled
    /\ stalls' = stalls + 1
    /\ stalled' = stalled \cup {w}
    /\ UNCHANGED <<lease, pc, work, nap, life, losses>>

Resume(w) ==
    /\ w \in stalled
    /\ stalled' = stalled \ {w}
    /\ UNCHANGED <<lease, pc, work, nap, life, stalls, losses>>

\* Redis restarts without its keys.
Lose ==
    /\ losses < MaxLoss
    /\ key # {}
    /\ losses' = losses + 1
    /\ key' = {}
    /\ UNCHANGED <<ttl, pc, work, nap, life, stalled, stalls>>

Minus1(n) == IF n = 0 THEN 0 ELSE n - 1

\* A second passes.  A candidate that is not stalled acts the moment its sleep ends.
Tick ==
    /\ \A w \in Worker \ stalled : /\ pc[w] # "releasing"
                                   /\ pc[w] \in {"standby", "leading"} => nap[w] > 0
    /\ key' = IF ttl = 1 THEN {} ELSE key
    /\ ttl' = Minus1(ttl)
    /\ nap' = [w \in Worker |-> Minus1(nap[w])]
    /\ UNCHANGED <<pc, work, life, faults>>

Candidate(w) ==
    \/ Start(w) \/ Acquire(w) \/ Wait(w) \/ Renew(w) \/ StepDown(w)
    \/ WorkEnds(w, "done") \/ WorkEnds(w, "raised")
    \/ Shutdown(w) \/ Release(w) \/ Crash(w)
    \/ Stall(w) \/ Resume(w)

Next == (\E w \in Worker : Candidate(w)) \/ Lose \/ Tick

Spec == Init /\ [][Next]_vars

\* Time passes, a candidate whose sleep is over goes on, a pause ends.
Fairness ==
    /\ WF_vars(Tick)
    /\ \A w \in Worker : /\ WF_vars(Acquire(w) \/ Wait(w))
                         /\ WF_vars(Renew(w) \/ StepDown(w))
                         /\ WF_vars(Release(w))
                         /\ WF_vars(Resume(w))

FairSpec == Spec /\ Fairness

-----------------------------------------------------------------------------
(* Properties.                                                             *)

\* As long as no call came late and Redis kept its keys, at most one worker runs the
\* scheduler, across crashes, shutdowns, failed releases and hand-overs.
AtMostOneLeader ==
    stalls = 0 /\ losses = 0 => \A v, w \in Leaders : v = w

\* A candidate does not stand by for ever without a leader, after any crash, pause
\* or failed release.
LeaderElected ==
    \A w \in Worker :
        pc[w] = "standby" ~> (Leaders # {} \/ pc[w] # "standby")

\* What makes the first one hold: a leader owns the key, and the key outlives its
\* sleep.
LeaseCoversLeader ==
    stalls = 0 /\ losses = 0 =>
        /\ stalled = {}
        /\ \A w \in Leaders : key = {Id(w)} /\ nap[w] < ttl
=============================================================================
