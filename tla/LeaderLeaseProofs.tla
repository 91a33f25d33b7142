-------------------------- MODULE LeaderLeaseProofs --------------------------
(***************************************************************************)
(* Proofs about the scheduler's lease: for any number of workers and any   *)
(* TTL longer than the renewal interval, at most one worker leads as long  *)
(* as no call came late and Redis kept its keys.                           *)
(***************************************************************************)
EXTENDS LeaderLease, FiniteSetTheorems, TLAPS

\* The initial state is well typed.
LEMMA InitTyped == Init => TypeOK
  BY DEF Init, TypeOK

\* Every step keeps the types.
LEMMA NextTyped == TypeOK /\ [Next]_vars => TypeOK'
<1> SUFFICES ASSUME TypeOK, [Next]_vars
             PROVE  TypeOK'
  OBVIOUS
<1> USE ConstantsAssumption DEF TypeOK, lease, faults
<1>1. ASSUME NEW w \in Worker, Candidate(w)
      PROVE  TypeOK'
  <2>1. CASE Start(w)            BY <2>1 DEF Start
  <2>2. CASE Acquire(w)          BY <2>2 DEF Acquire, Id
  <2>3. CASE Wait(w)             BY <2>3 DEF Wait
  <2>4. CASE Renew(w)
    <3>1. pc' \in [Worker -> {"off", "standby", "leading", "releasing"}]
      BY <2>4 DEF Renew
    <3>2. key' \subseteq Worker \X Nat
      BY <2>4 DEF Renew, Id
    <3>3. nap' \in [Worker -> Nat]
      BY <2>4 DEF Renew
    <3> QED  BY <2>4, <3>1, <3>2, <3>3 DEF Renew
  <2>5. CASE StepDown(w)         BY <2>5 DEF StepDown
  <2>6. CASE \E how \in {"done", "raised"} : WorkEnds(w, how)
    BY <2>6 DEF WorkEnds
  <2>7. CASE Shutdown(w)         BY <2>7 DEF Shutdown
  <2>8. CASE Release(w)          BY <2>8 DEF Release
  <2>9. CASE Crash(w)            BY <2>9 DEF Crash
  <2>10. CASE Stall(w)           BY <2>10 DEF Stall
  <2>11. CASE Resume(w)          BY <2>11 DEF Resume
  <2> QED
    BY <1>1, <2>1, <2>2, <2>3, <2>4, <2>5, <2>6, <2>7, <2>8, <2>9, <2>10, <2>11
       DEF Candidate
<1>2. CASE Lose                  BY <1>2 DEF Lose
<1>3. CASE Tick                  BY <1>3 DEF Tick, Minus1
<1>4. CASE UNCHANGED vars        BY <1>4 DEF vars
<1> QED  BY <1>1, <1>2, <1>3, <1>4 DEF Next

\* Type correctness of the election, for every number of workers and every interval.
THEOREM TypeCorrect == Spec => []TypeOK
<1>1. Init => TypeOK                       BY InitTyped
<1>2. TypeOK /\ [Next]_vars => TypeOK'     BY NextTyped
<1> QED  BY <1>1, <1>2, PTL DEF Spec

-----------------------------------------------------------------------------
\* No call came late so far, and no key was lost.
Timely == stalls = 0 /\ losses = 0

\* A leader's lease outlives its sleep.
Covered == TypeOK /\ LeaseCoversLeader

\* A step that leaves the lease and the leaders' identities and sleeps alone, and adds
\* no leader, leaves every leader covered.
LEMMA UntouchedLease ==
  ASSUME Covered, Timely, UNCHANGED lease, stalled' = {},
         \A v \in Leaders' : v \in Leaders /\ Id(v)' = Id(v) /\ nap'[v] = nap[v]
  PROVE  LeaseCoversLeader'
  BY DEF Covered, Timely, lease, LeaseCoversLeader

\* Every step keeps the leaders covered while calls are timely: taking the lease requires that there
\* is none, renewing it starts a TTL longer than the sleep that follows, a release
\* deletes one's own lease only, and time passes for the sleep and the key alike.
LEMMA CoveredKept ==
  ASSUME Covered, [Next]_vars
  PROVE  Covered'
<1>1. TypeOK'
  BY NextTyped DEF Covered
<1> SUFFICES ASSUME Timely'
             PROVE  LeaseCoversLeader'
  BY <1>1 DEF Covered, LeaseCoversLeader, Timely
<1>0. Timely /\ stalled = {}
  <2>1. stalls \in Nat /\ losses \in Nat
    BY DEF Covered, TypeOK
  <2>2. stalls' \in {stalls, stalls + 1} /\ losses' \in {losses, losses + 1}
    BY DEF Next, Candidate, Start, Acquire, Wait, Renew, StepDown, WorkEnds, Shutdown,
           Release, Crash, Stall, Resume, Lose, Tick, faults, vars
  <2>3. Timely
    BY <2>1, <2>2 DEF Timely
  <2> QED  BY <2>3 DEF Covered, LeaseCoversLeader, Timely
<1> USE ConstantsAssumption DEF TypeOK, Covered, lease, faults, Leaders, Id
<1>2. ASSUME NEW w \in Worker, Candidate(w)
      PROVE  LeaseCoversLeader'
  <2>1. CASE Start(w)
    BY <1>0, <2>1, UntouchedLease DEF Start
  <2>2. CASE Acquire(w)
    <3>1. Leaders = {}
      BY <1>0, <2>2 DEF Acquire, LeaseCoversLeader, Timely
    <3>2. Leaders' = {w}
      BY <2>2, <3>1 DEF Acquire
    <3>3. key' = {Id(w)'} /\ nap'[w] = Renewal /\ ttl' = Ttl
      BY <2>2 DEF Acquire
    <3> QED
      BY <1>0, <2>2, <3>2, <3>3 DEF Acquire, LeaseCoversLeader
  <2>3. CASE Wait(w)
    BY <1>0, <2>3, UntouchedLease DEF Wait
  <2>4. CASE Renew(w)
    <3>1. Leaders = {w}
      BY <1>0, <2>4 DEF Renew, LeaseCoversLeader, Timely
    <3>2. Leaders' \subseteq {w}
      BY <2>4, <3>1 DEF Renew
    <3>3. key' = {Id(w)'} /\ ttl' = Ttl
      BY <2>4 DEF Renew
    <3>4. w \in Leaders' => nap'[w] = Renewal
      BY <2>4 DEF Renew
    <3> QED
      BY <1>0, <2>4, <3>2, <3>3, <3>4 DEF Renew, LeaseCoversLeader
  <2>5. CASE StepDown(w)
    BY <1>0, <2>5, UntouchedLease DEF StepDown
  <2>6. CASE \E how \in {"done", "raised"} : WorkEnds(w, how)
    BY <1>0, <2>6, UntouchedLease DEF WorkEnds
  <2>7. CASE Shutdown(w)
    BY <1>0, <2>7, UntouchedLease DEF Shutdown
  <2>8. CASE Release(w)
    <3>1. Leaders' = Leaders /\ w \notin Leaders
      BY <2>8 DEF Release
    <3>2. ASSUME NEW v \in Leaders
          PROVE  key' = key
      BY <1>0, <2>8, <3>1, <3>2 DEF Release, LeaseCoversLeader, Timely
    <3> QED
      BY <1>0, <2>8, <3>1, <3>2 DEF Release, LeaseCoversLeader, Timely
  <2>9. CASE Crash(w)
    BY <1>0, <2>9, UntouchedLease DEF Crash
  <2>10. CASE Stall(w)
    BY <1>0, <2>10 DEF Stall, Timely
  <2>11. CASE Resume(w)
    BY <1>0, <2>11 DEF Resume
  <2> QED
    BY <1>2, <2>1, <2>2, <2>3, <2>4, <2>5, <2>6, <2>7, <2>8, <2>9, <2>10, <2>11
       DEF Candidate
<1>3. CASE Lose
  BY <1>0, <1>3 DEF Lose, Timely
<1>4. CASE Tick
  <2>1. ASSUME NEW v \in Leaders'
        PROVE  key' = {Id(v)'} /\ nap'[v] < ttl'
    <3>1. v \in Leaders /\ nap[v] \in Nat \ {0} /\ ttl \in Nat
      BY <1>0, <1>4, <2>1 DEF Tick
    <3>2. key = {Id(v)} /\ nap[v] < ttl
      BY <1>0, <3>1 DEF LeaseCoversLeader, Timely
    <3>3. ttl # 1 /\ ttl # 0
      BY <3>1, <3>2
    <3>4. nap'[v] = nap[v] - 1 /\ ttl' = ttl - 1 /\ key' = key
      BY <1>4, <3>1, <3>3 DEF Tick, Minus1
    <3>5. Id(v)' = Id(v)
      BY <1>4 DEF Tick
    <3> QED
      BY <3>1, <3>2, <3>4, <3>5
  <2> QED
    BY <1>0, <1>4, <2>1 DEF Tick, LeaseCoversLeader
<1>5. CASE UNCHANGED vars
  BY <1>0, <1>5, UntouchedLease DEF vars
<1> QED
  BY <1>2, <1>3, <1>4, <1>5 DEF Next

\* As long as no Redis call came late and Redis kept its keys, at most one worker
\* runs the scheduler, whatever crashes, shutdowns and failed releases
\* happen, with any number of workers and any TTL above the renewal interval.
THEOREM OneLeader == Spec => []AtMostOneLeader
<1>1. Init => Covered
  BY InitTyped DEF Init, Covered, LeaseCoversLeader, Leaders
<1>2. Covered /\ [Next]_vars => Covered'
  BY CoveredKept
<1>3. Covered => AtMostOneLeader
  <2> SUFFICES ASSUME Covered, Timely, NEW v \in Leaders, NEW w \in Leaders
               PROVE  v = w
    BY DEF AtMostOneLeader, Timely
  <2>1. key = {Id(v)} /\ key = {Id(w)}
    BY DEF Covered, LeaseCoversLeader, Timely
  <2>2. Id(v) = Id(w)
    BY <2>1
  <2> QED
    BY <2>2 DEF Id
<1> QED
  BY <1>1, <1>2, <1>3, PTL DEF Spec

\* Until then a leader's id is in the key, and the key outlives its sleep.
THEOREM LeaseCoversLeaderHolds == Spec => []LeaseCoversLeader
<1>1. Init => Covered
  BY InitTyped DEF Init, Covered, LeaseCoversLeader, Leaders
<1>2. Covered /\ [Next]_vars => Covered'
  BY CoveredKept
<1>3. Covered => LeaseCoversLeader
  BY DEF Covered
<1> QED
  BY <1>1, <1>2, <1>3, PTL DEF Spec
-----------------------------------------------------------------------------
(* What the faults cost.                                                   *)

\* The worker whose id is in the key leads and is not paused: nobody else can take the
\* lease now.
Secure == \E w \in Leaders \ stalled : key = {Id(w)}

\* The key names one worker and outlives its sleep, paused or not, if it leads; and every
\* other leader is paid for by a pause or a lost key.
Budget ==
    /\ \A x, y \in key : x = y
    /\ IsFiniteSet(Leaders)
    /\ \A w \in Leaders : key = {Id(w)} => nap[w] < ttl
    /\ Cardinality(Leaders) <= stalls + losses + (IF Secure THEN 1 ELSE 0)

\* The count behind the budget: a set that loses no member stays within a budget that
\* loses nothing; one that loses a member, or a new fault, makes up for a secure lease.
LEMMA CountKept ==
  ASSUME NEW L, NEW M \in SUBSET L, IsFiniteSet(L),
         NEW k \in Nat, NEW n \in Nat, NEW a \in 0..1, NEW b \in 0..1,
         Cardinality(L) <= k + a, k <= n,
         a <= b \/ M # L \/ k < n
  PROVE  IsFiniteSet(M) /\ Cardinality(M) <= n + b
<1>1. IsFiniteSet(M) /\ Cardinality(M) <= Cardinality(L)
  BY FS_Subset
<1>2. Cardinality(L) \in Nat /\ Cardinality(M) \in Nat
  BY <1>1, FS_CardinalityType
<1>3. M # L => Cardinality(M) < Cardinality(L)
  BY <1>1, <1>2, FS_Subset
<1> QED
  BY <1>1, <1>2, <1>3

\* Faults are counted with numbers.
LEMMA FaultsTyped == TypeOK /\ TypeOK' => stalls + losses \in Nat /\ stalls' + losses' \in Nat
<1>1. TypeOK => stalls \in Nat /\ losses \in Nat
  BY DEF TypeOK
<1>2. TypeOK' => stalls' \in Nat /\ losses' \in Nat
  BY DEF TypeOK
<1> QED
  BY <1>1, <1>2

\* A step that adds no leader keeps the budget, if it leaves a secure lease secure, or a
\* leader goes, or a fault is counted.
LEMMA BudgetKeptBy ==
  ASSUME TypeOK, TypeOK', Budget, Leaders' \subseteq Leaders,
         key' \subseteq key \/ \E x : key' = {x},
         \A v \in Leaders' : key' = {Id(v)'} => nap'[v] < ttl',
         stalls + losses <= stalls' + losses',
         \/ Secure => Secure'
         \/ \E w \in Leaders : w \notin Leaders'
         \/ stalls + losses < stalls' + losses'
  PROVE  Budget'
<1> DEFINE a == IF Secure THEN 1 ELSE 0
           b == IF Secure' THEN 1 ELSE 0
           k == stalls + losses
           n == stalls' + losses'
<1>1. k \in Nat /\ n \in Nat /\ k <= n
  BY FaultsTyped
<1>2. a \in 0..1 /\ b \in 0..1
  OBVIOUS
<1>3. IsFiniteSet(Leaders) /\ Cardinality(Leaders) <= k + a
  BY DEF Budget
<1>4. a <= b \/ Leaders' # Leaders \/ k < n
  OBVIOUS
<1>5. IsFiniteSet(Leaders') /\ Cardinality(Leaders') <= n + b
  <2> HIDE DEF a, b, k, n
  <2> QED
    BY <1>1, <1>2, <1>3, <1>4, CountKept
<1>6. \A x, y \in key' : x = y
  BY DEF Budget
<1> QED
  BY <1>5, <1>6 DEF Budget

\* Every step of a worker keeps the budget.
LEMMA CandidateKeepsBudget ==
  ASSUME TypeOK, TypeOK', Budget, NEW w \in Worker, Candidate(w)
  PROVE  Budget'
<1> USE ConstantsAssumption DEF TypeOK, lease, faults, Leaders, Id
<1>0. \A v \in Leaders : key = {Id(v)} => nap[v] < ttl
  BY DEF Budget
<1>1. CASE Start(w)
  <2>1. /\ Leaders' = Leaders /\ UNCHANGED <<key, ttl, stalled, stalls, losses>>
        /\ \A v \in Leaders : Id(v)' = Id(v) /\ nap'[v] = nap[v]
    BY <1>1 DEF Start
  <2> QED
    BY <1>0, <2>1, BudgetKeptBy DEF Secure
<1>2. CASE Acquire(w)
  <2>1. w \notin Leaders /\ w \notin stalled /\ key = {} /\ ~Secure
    BY <1>2 DEF Acquire, Ready, Secure
  <2>2. Leaders' = Leaders \cup {w} /\ key' = {Id(w)'} /\ ttl' = Ttl /\ nap'[w] = Renewal
        /\ UNCHANGED <<stalled, stalls, losses, life>>
    BY <1>2 DEF Acquire
  <2>3. Secure'
    BY <2>1, <2>2 DEF Secure
  <2>4. IsFiniteSet(Leaders') /\ Cardinality(Leaders') = Cardinality(Leaders) + 1
    <3> HIDE DEF Leaders
    <3>1. IsFiniteSet(Leaders)
      BY DEF Budget
    <3>2. /\ IsFiniteSet(Leaders \cup {w})
          /\ Cardinality(Leaders \cup {w}) = Cardinality(Leaders) + 1
      BY <2>1, <3>1, FS_AddElement
    <3> QED
      BY <2>2, <3>2
  <2>5. Cardinality(Leaders) \in Nat /\ Cardinality(Leaders) <= stalls + losses
    BY <2>1, FS_CardinalityType DEF Budget
  <2>6. Cardinality(Leaders') <= stalls' + losses' + 1
    BY <2>2, <2>4, <2>5
  <2>7. \A v \in Leaders' : key' = {Id(v)'} => v = w
    BY <2>2
  <2> QED
    BY <2>2, <2>3, <2>4, <2>6, <2>7 DEF Budget
<1>3. CASE Wait(w)
  <2>1. /\ Leaders' = Leaders /\ UNCHANGED <<key, ttl, stalled, stalls, losses>>
        /\ \A v \in Leaders : Id(v)' = Id(v) /\ nap'[v] = nap[v]
    BY <1>3 DEF Wait
  <2> QED
    BY <1>0, <2>1, BudgetKeptBy DEF Secure
<1>4. CASE Renew(w)
  <2>1. w \in Leaders /\ w \notin stalled /\ UNCHANGED <<stalled, stalls, losses, life>>
    BY <1>4 DEF Renew, Ready
  <2>2. Leaders' \subseteq Leaders
    BY <1>4 DEF Renew
  <2>3. key' = {Id(w)'} /\ ttl' = Ttl
    BY <1>4 DEF Renew
  <2>4. w \in Leaders' => nap'[w] = Renewal
    BY <1>4 DEF Renew
  <2>5. \A v \in Leaders' : key' = {Id(v)'} => nap'[v] < ttl'
    <3>1. \A v \in Leaders' : key' = {Id(v)'} => v = w
      BY <2>3
    <3> QED
      BY <2>3, <2>4, <3>1
  <2>6. w \in Leaders' => Secure'
    BY <2>1, <2>3 DEF Secure
  <2>7. \E x : key' = {x}
    BY <2>3
  <2>8. w \notin Leaders' \/ (Secure => Secure')
    BY <2>6
  <2> QED
    BY <2>1, <2>2, <2>5, <2>7, <2>8, BudgetKeptBy
<1>5. CASE StepDown(w) \/ Shutdown(w)
  <2>1. /\ Leaders' = Leaders \ {w}
        /\ UNCHANGED <<key, ttl, nap, life, stalled, stalls, losses>>
    BY <1>5 DEF StepDown, Shutdown
  <2> QED
    BY <1>0, <2>1, BudgetKeptBy DEF Secure
<1>6. CASE \E how \in {"done", "raised"} : WorkEnds(w, how)
  <2>1. UNCHANGED <<pc, key, ttl, nap, life, stalled, stalls, losses>>
    BY <1>6 DEF WorkEnds
  <2> QED
    BY <1>0, <2>1, BudgetKeptBy DEF Secure
<1>7. CASE Release(w)
  <2>1. Leaders' = Leaders /\ w \notin Leaders /\ UNCHANGED <<ttl, nap, life, stalled, stalls, losses>>
    BY <1>7 DEF Release
  <2>2. \A v \in Leaders : key = {Id(v)} => key' = key
    BY <1>7, <2>1 DEF Release
  <2>3. \A v \in Leaders : key' = {Id(v)'} => key = {Id(v)}
    BY <1>7, <2>1, <2>2 DEF Release, Budget
  <2>4. Secure => Secure'
    BY <2>1, <2>2 DEF Secure
  <2>5. key' \subseteq key
    BY <1>7 DEF Release
  <2>6. \A v \in Leaders' : key' = {Id(v)'} => nap'[v] < ttl'
    BY <1>0, <2>1, <2>3
  <2> QED
    BY <2>1, <2>4, <2>5, <2>6, BudgetKeptBy
<1>8. CASE Crash(w)
  <2>1. /\ Leaders' = Leaders \ {w} /\ stalled' = stalled \ {w}
        /\ UNCHANGED <<key, ttl, nap, life, stalls, losses>>
    BY <1>8 DEF Crash
  <2> QED
    BY <1>0, <2>1, BudgetKeptBy DEF Secure
<1>9. CASE Stall(w)
  <2>1. Leaders' = Leaders /\ UNCHANGED <<key, ttl, nap, life, losses>> /\ stalls' = stalls + 1
    BY <1>9 DEF Stall
  <2> QED
    BY <1>0, <2>1, BudgetKeptBy
<1>10. CASE Resume(w)
  <2>1. Leaders' = Leaders /\ UNCHANGED <<key, ttl, nap, life, stalls, losses>> /\ stalled' = stalled \ {w}
    BY <1>10 DEF Resume
  <2> QED
    BY <1>0, <2>1, BudgetKeptBy DEF Secure
<1> QED
  BY <1>1, <1>2, <1>3, <1>4, <1>5, <1>6, <1>7, <1>8, <1>9, <1>10 DEF Candidate

\* Time keeps the budget: the key of a leader that is not paused does not expire.
LEMMA TickKeepsBudget ==
  ASSUME TypeOK, TypeOK', Budget, Tick
  PROVE  Budget'
<1> USE ConstantsAssumption DEF TypeOK, faults, Leaders, Id, Tick, Minus1
<1>1. Leaders' = Leaders /\ UNCHANGED <<life, stalled, stalls, losses>>
  OBVIOUS
<1>2. ASSUME NEW v \in Leaders, key' = {Id(v)'} PROVE nap'[v] < ttl'
  <2>1. ttl # 1 /\ key' = key /\ Id(v)' = Id(v)
    BY <1>2
  <2>2. nap[v] < ttl
    BY <1>2, <2>1 DEF Budget
  <2> QED
    BY <2>1, <2>2
<1>3. ASSUME Secure PROVE Secure'
  <2>1. PICK v \in Leaders \ stalled : key = {Id(v)}
    BY <1>3 DEF Secure
  <2>2. nap[v] > 0 /\ nap[v] < ttl
    BY <2>1 DEF Budget
  <2>3. ttl # 1
    BY <2>2
  <2> QED
    BY <1>1, <2>1, <2>3 DEF Secure
<1> QED
  BY <1>1, <1>2, <1>3, BudgetKeptBy

\* Each pause and each lost key costs at most one more leader: with k of them there are
\* never more than k + 1, whatever else crashes, shuts down or fails to release.  OneLeader
\* is the case k = 0.
THEOREM LeadersBounded == Spec => [](Cardinality(Leaders) <= 1 + stalls + losses)
<1>1. Init => Budget
  <2> SUFFICES ASSUME Init PROVE Budget
    OBVIOUS
  <2>1. Leaders = {} /\ key = {} /\ stalls = 0 /\ losses = 0
    BY DEF Init, Leaders
  <2>2. IsFiniteSet(Leaders) /\ Cardinality(Leaders) = 0
    BY <2>1, FS_EmptySet
  <2> QED
    BY <2>1, <2>2 DEF Budget
<1>2. TypeOK /\ Budget /\ [Next]_vars => Budget'
  <2> SUFFICES ASSUME TypeOK, Budget, [Next]_vars, TypeOK' PROVE Budget'
    BY NextTyped
  <2>1. CASE \E w \in Worker : Candidate(w)
    BY <2>1, CandidateKeepsBudget
  <2>2. CASE Lose
    <3>1. /\ Leaders' = Leaders /\ key' = {} /\ stalls' = stalls /\ losses' = losses + 1
      BY <2>2 DEF Lose, Leaders
    <3>2. stalls \in Nat /\ losses \in Nat
      BY DEF TypeOK
    <3> QED
      BY <3>1, <3>2, BudgetKeptBy
  <2>3. CASE Tick
    BY <2>3, TickKeepsBudget
  <2>4. CASE UNCHANGED vars
    BY <2>4 DEF vars, Budget, Secure, Leaders, Id
  <2> QED
    BY <2>1, <2>2, <2>3, <2>4 DEF Next
<1>3. TypeOK /\ Budget => Cardinality(Leaders) <= 1 + stalls + losses
  BY FS_CardinalityType DEF TypeOK, Budget
<1> QED
  BY <1>1, <1>2, <1>3, TypeCorrect, PTL DEF Spec
=============================================================================
