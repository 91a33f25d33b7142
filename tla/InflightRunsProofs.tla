------------------------- MODULE InflightRunsProofs -------------------------
(***************************************************************************)
(* Proofs about the run registry, for any number of runs and processes,    *)
(* any batch limit and any clock.                                          *)
(***************************************************************************)
EXTENDS InflightRuns, TLAPS

\* The initial state is well typed.
LEMMA InitTyped == Init => TypeOK
  BY ConstantsAssumption DEF Init, TypeOK

\* A row that falls silent is put behind those that are.
LEMMA GoQuietTyped ==
  ASSUME older \subseteq Run \X Run, NEW r \in Run, GoQuiet(r)
  PROVE  older' \subseteq Run \X Run
<1> SUFFICES ASSUME NEW x \in older'
             PROVE  x \in Run \X Run
  OBVIOUS
<1>1. CASE x \in older
  BY <1>1
<1>2. CASE x \notin older
  <2>1. PICK q \in Quiet \cup {r} : x = <<q, r>>
    BY <1>2 DEF GoQuiet
  <2>2. q \in Run
    BY <2>1 DEF Quiet
  <2> QED  BY <2>1, <2>2
<1> QED
  BY <1>1, <1>2

\* Every step of a turn, a sweep, a recycle, the clock or a crash keeps the types.
LEMMA NextTyped == TypeOK /\ [Next]_vars => TypeOK'
<1> SUFFICES ASSUME TypeOK, [Next]_vars
             PROVE  TypeOK'
  OBVIOUS
<1> USE ConstantsAssumption
    DEF TypeOK, Terminal, Outcome, Working, Orphaned, Running, Quiet, Without,
        rowVars, turnVars, procVars, clockVars
<1>1. ASSUME NEW r \in Run, Turn(r)
      PROVE  TypeOK'
  <2>1. CASE Start(r)               BY <2>1 DEF Start
  <2>8. CASE StartCut(r)            BY <2>8 DEF StartCut
  <2>2. CASE StartUnregistered(r)   BY <2>2 DEF StartUnregistered
  <2>3. CASE Heartbeat(r)           BY <2>3 DEF Heartbeat
  <2>4. CASE \E o \in Outcome : End(r, o)
    BY <2>4 DEF End, Leave
  <2>5. CASE FinishRead(r)          BY <2>5 DEF FinishRead
  <2>6. CASE FinishCommit(r)        BY <2>6 DEF FinishCommit
  <2>7. CASE FinishFails(r)         BY <2>7 DEF FinishFails
  <2> QED
    BY <1>1, <2>1, <2>2, <2>3, <2>4, <2>5, <2>6, <2>7, <2>8 DEF Turn
<1>2. ASSUME NEW r \in Run, GoQuiet(r)
      PROVE  TypeOK'
  BY <1>2, GoQuietTyped DEF GoQuiet
<1>3. ASSUME NEW p \in Proc, Boot(p)
      PROVE  TypeOK'
  BY <1>3 DEF Boot
<1>4. ASSUME NEW p \in Proc, Crash(p)
      PROVE  TypeOK'
  BY <1>4 DEF Crash
<1>5. ASSUME NEW p \in Api, Startup(p)
      PROVE  TypeOK'
  <2>1. CASE RecoverRead(p)
    <3>1. PICK B \in Batch(Running) :
            hold' = [hold EXCEPT ![p] = {r \in B : token[r] # <<p, now>>}]
      BY <2>1 DEF RecoverRead
    <3>2. {r \in B : token[r] # <<p, now>>} \subseteq Run
      BY <3>1 DEF Batch
    <3>3. hold' \in [Proc -> SUBSET Run]
      BY <3>1, <3>2
    <3> QED
      BY <2>1, <3>3 DEF RecoverRead
  <2>2. CASE RecoverCommit(p)       BY <2>2 DEF RecoverCommit, Lose
  <2>3. CASE RecoverFails(p)        BY <2>3 DEF RecoverFails
  <2> QED  BY <1>5, <2>1, <2>2, <2>3 DEF Startup
<1>6. ASSUME NEW p \in Api, NEW r \in Run, Recycling(r, p)
      PROVE  TypeOK'
  <2>1. CASE RecycleRead(r, p)
    <3>1. recycle' \subseteq Run \X Api
      BY <2>1 DEF RecycleRead
    <3>2. /\ turn' \in [Run -> {"idle", "done"} \cup Working \cup Orphaned]
          /\ outcome' \in [Run -> {"none"} \cup Outcome]
      BY <2>1 DEF RecycleRead, Leave
    <3> QED
      BY <2>1, <3>1, <3>2 DEF RecycleRead
  <2>2. CASE RecycleCommit(r, p)    BY <2>2 DEF RecycleCommit
  <2>3. CASE RecycleFails(r, p)     BY <2>3 DEF RecycleFails
  <2> QED  BY <1>6, <2>1, <2>2, <2>3 DEF Recycling
<1>7. CASE ReapRead
  <2>1. PICK B \in Batch(Running \cap Quiet) :
          hold' = [hold EXCEPT ![Cron] = {r \in B : ~Spared(r)}]
    BY <1>7 DEF ReapRead
  <2>2. {r \in B : ~Spared(r)} \subseteq Run
    BY <2>1 DEF Batch
  <2> QED  BY <1>7, <2>1, <2>2 DEF ReapRead
<1>8. CASE ReapCommit               BY <1>8 DEF ReapCommit, Lose
<1>9. CASE ReapFails                BY <1>9 DEF ReapFails
<1>10. CASE Tick                    BY <1>10 DEF Tick
<1>11. CASE UNCHANGED vars          BY <1>11 DEF vars
<1> QED
  BY <1>1, <1>2, <1>3, <1>4, <1>5, <1>6, <1>7, <1>8, <1>9, <1>10, <1>11 DEF Next

\* Type correctness of the registry, for every number of runs and processes.
THEOREM TypeCorrect == Spec => []TypeOK
<1>1. Init => TypeOK                       BY InitTyped
<1>2. TypeOK /\ [Next]_vars => TypeOK'     BY NextTyped
<1> QED  BY <1>1, <1>2, PTL DEF Spec

-----------------------------------------------------------------------------
(* A settled run.                                                          *)

\* What a step may do to one row and to the turn behind it: only a registration makes
\* a row RUNNING, only the first step of a turn leaves "idle", and a turn reports
\* itself done over a row that is not RUNNING.  Only a started run is read by a sweep
\* or recycled.
RowStep(r) ==
    /\ state'[r] # state[r] =>
          \/ state[r] = "none" /\ turn[r] = "idle" /\ turn'[r] \in {"running", "unrecorded"}
          \/ state'[r] \in Terminal
    /\ turn'[r] = "idle" => /\ turn[r] = "idle" /\ state'[r] = state[r]
                            /\ \A p \in Proc : r \notin hold'[p]
                            /\ \A p \in Api : <<r, p>> \notin recycle'
    /\ turn'[r] = "done" => turn[r] = "done" \/ state'[r] # "running"
    /\ turn'[r] \in {"ended", "closing"} =>
          \/ outcome'[r] # "none"
          \/ turn[r] \in {"ended", "closing"} /\ outcome'[r] = outcome[r]
    /\ token'[r][1] = token[r][1] \/ token'[r][1] = At[r]

\* A sweep's query returns rows that are RUNNING, to the sweep's own process.
LEMMA RecoverReadsRunning ==
  ASSUME TypeOK, NEW p \in Proc, RecoverRead(p)
  PROVE  /\ hold'[p] \subseteq Running
         /\ \A q \in Proc \ {p} : hold'[q] = hold[q]
  BY DEF RecoverRead, Batch, TypeOK

\* The reaper holds only rows whose process it believes dead.
LEMMA ReapReadsUnspared ==
  ASSUME TypeOK, ReapRead
  PROVE  /\ \A r \in hold'[Cron] : r \in Running /\ ~Spared(r)
         /\ \A q \in Proc \ {Cron} : hold'[q] = hold[q]
<1>1. PICK B \in Batch(Running \cap Quiet) : hold' = [hold EXCEPT ![Cron] = {r \in B : ~Spared(r)}]
  BY DEF ReapRead
<1>2. B \subseteq Running
  BY <1>1 DEF Batch
<1> QED
  BY <1>1, <1>2, ConstantsAssumption DEF TypeOK

\* Every step is such a step for every run.
LEMMA StepsOfARow ==
  ASSUME TypeOK, Inductive, [Next]_vars, NEW s \in Run
  PROVE  RowStep(s)
<1> USE ConstantsAssumption
    DEF TypeOK, Inductive, Recorded, Terminal, Outcome, Working, Orphaned, Running,
        rowVars, turnVars, procVars, clockVars, RowStep
<1>1. ASSUME NEW r \in Run, Turn(r)
      PROVE  RowStep(s)
  <2>1. CASE Start(r)               BY <2>1 DEF Start
  <2>8. CASE StartCut(r)            BY <2>8 DEF StartCut
  <2>2. CASE StartUnregistered(r)   BY <2>2 DEF StartUnregistered
  <2>3. CASE Heartbeat(r)           BY <2>3 DEF Heartbeat
  <2>4. CASE \E o \in Outcome : End(r, o)
    BY <2>4 DEF End, Leave
  <2>5. CASE FinishRead(r)          BY <2>5 DEF FinishRead
  <2>6. CASE FinishCommit(r)
    <3>1. outcome[r] \in Outcome
      BY <2>6 DEF FinishCommit
    <3> QED
      BY <2>6, <3>1 DEF FinishCommit
  <2>7. CASE FinishFails(r)         BY <2>7 DEF FinishFails
  <2> QED
    BY <1>1, <2>1, <2>2, <2>3, <2>4, <2>5, <2>6, <2>7, <2>8 DEF Turn
<1>2. ASSUME NEW r \in Run, GoQuiet(r)
      PROVE  RowStep(s)
  BY <1>2 DEF GoQuiet
<1>3. ASSUME NEW p \in Proc, Boot(p)
      PROVE  RowStep(s)
  BY <1>3 DEF Boot
<1>4. ASSUME NEW p \in Proc, Crash(p)
      PROVE  RowStep(s)
  BY <1>4 DEF Crash
<1>5. ASSUME NEW p \in Api, Startup(p)
      PROVE  RowStep(s)
  <2>1. CASE RecoverRead(p)         BY <2>1, RecoverReadsRunning, ZenonT(30) DEF RecoverRead
  <2>2. CASE RecoverCommit(p)       BY <2>2 DEF RecoverCommit, Lose
  <2>3. CASE RecoverFails(p)        BY <2>3 DEF RecoverFails
  <2> QED  BY <1>5, <2>1, <2>2, <2>3 DEF Startup
<1>6. ASSUME NEW p \in Api, NEW r \in Run, Recycling(r, p)
      PROVE  RowStep(s)
  <2>1. CASE RecycleRead(r, p)      BY <2>1 DEF RecycleRead, Leave
  <2>2. CASE RecycleCommit(r, p)    BY <2>2 DEF RecycleCommit
  <2>3. CASE RecycleFails(r, p)     BY <2>3 DEF RecycleFails
  <2> QED  BY <1>6, <2>1, <2>2, <2>3 DEF Recycling
<1>7. CASE ReapRead                 BY <1>7, ReapReadsUnspared DEF ReapRead
<1>8. CASE ReapCommit               BY <1>8 DEF ReapCommit, Lose
<1>9. CASE ReapFails                BY <1>9 DEF ReapFails
<1>10. CASE Tick                    BY <1>10 DEF Tick
<1>11. CASE UNCHANGED vars          BY <1>11 DEF vars
<1> QED
  BY <1>1, <1>2, <1>3, <1>4, <1>5, <1>6, <1>7, <1>8, <1>9, <1>10, <1>11 DEF Next

\* Recorded and DoneMeansSettled are inductive.
LEMMA InductiveKept == TypeOK /\ Inductive /\ [Next]_vars => Inductive'
<1> SUFFICES ASSUME TypeOK, Inductive, [Next]_vars, NEW r \in Run
             PROVE  /\ turn'[r] = "idle" => /\ state'[r] = "none"
                                            /\ \A p \in Proc : r \notin hold'[p]
                                            /\ \A p \in Api : <<r, p>> \notin recycle'
                    /\ turn'[r] \in {"ended", "closing"} => outcome'[r] # "none"
                    /\ token'[r][1] = At[r]
                    /\ turn'[r] = "done" => state'[r] # "running"
  BY DEF Inductive, Recorded, DoneMeansSettled
<1>1. RowStep(r)
  BY StepsOfARow
<1> QED
  BY <1>1 DEF RowStep, Inductive, Recorded, DoneMeansSettled, Terminal

\* The initial state satisfies it.
LEMMA InitInductive == Init => Inductive
  BY DEF Init, Inductive, Recorded, DoneMeansSettled

\* Both are invariants.
LEMMA InductiveHolds == Spec => [](TypeOK /\ Inductive)
<1>1. Init => TypeOK /\ Inductive
  BY InitTyped, InitInductive
<1>2. (TypeOK /\ Inductive) /\ [Next]_vars => (TypeOK /\ Inductive)'
  BY NextTyped, InductiveKept
<1> QED
  BY <1>1, <1>2, PTL DEF Spec

\* A turn that has settled its row finds it settled for good: no sweep, recycle or
\* late write leaves a finished run RUNNING, under every interleaving of any number
\* of processes.
THEOREM DoneMeansSettledHolds == Spec => []DoneMeansSettled
<1>1. Inductive => DoneMeansSettled
  BY DEF Inductive
<1> QED
  BY <1>1, InductiveHolds, PTL

\* What a step may do to a row at rest: neither a settlement nor a sweep nor a recycle takes
\* it in hand, and its state stays.
RestStep(r) == AtRest(r) => AtRest(r)' /\ state'[r] = state[r]

\* Every step is such a step for every run.
LEMMA RestSteps ==
  ASSUME TypeOK, Inductive, [Next]_vars, NEW s \in Run
  PROVE  RestStep(s)
<1> SUFFICES ASSUME AtRest(s)
             PROVE  AtRest(s)' /\ state'[s] = state[s]
  BY DEF RestStep
<1> USE ConstantsAssumption
    DEF TypeOK, Terminal, Outcome, Working, Orphaned, Running, rowVars, turnVars, procVars,
        clockVars, AtRest
<1>0. state[s] # "none" /\ turn[s] # "idle" /\ s \notin Running
  BY DEF Inductive, Recorded
<1>1. ASSUME NEW r \in Run, Turn(r)
      PROVE  AtRest(s)' /\ state'[s] = state[s]
  <2>1. CASE Start(r)               BY <1>0, <2>1 DEF Start
  <2>2. CASE StartCut(r)            BY <1>0, <2>2 DEF StartCut
  <2>3. CASE StartUnregistered(r)   BY <1>0, <2>3 DEF StartUnregistered
  <2>4. CASE Heartbeat(r)           BY <2>4 DEF Heartbeat
  <2>5. CASE \E o \in Outcome : End(r, o)
    BY <2>5 DEF End, Leave
  <2>6. CASE FinishRead(r)          BY <1>0, <2>6 DEF FinishRead
  <2>7. CASE FinishCommit(r)        BY <2>7 DEF FinishCommit
  <2>8. CASE FinishFails(r)         BY <2>8 DEF FinishFails
  <2> QED
    BY <1>1, <2>1, <2>2, <2>3, <2>4, <2>5, <2>6, <2>7, <2>8 DEF Turn
<1>2. ASSUME NEW r \in Run, GoQuiet(r)
      PROVE  AtRest(s)' /\ state'[s] = state[s]
  BY <1>2 DEF GoQuiet
<1>3. ASSUME NEW p \in Proc, Boot(p)
      PROVE  AtRest(s)' /\ state'[s] = state[s]
  BY <1>3 DEF Boot
<1>4. ASSUME NEW p \in Proc, Crash(p)
      PROVE  AtRest(s)' /\ state'[s] = state[s]
  BY <1>4 DEF Crash
<1>5. ASSUME NEW p \in Api, Startup(p)
      PROVE  AtRest(s)' /\ state'[s] = state[s]
  <2>1. CASE RecoverRead(p)
    <3>1. \A q \in Proc : s \notin hold'[q]
      BY <1>0, <2>1, RecoverReadsRunning
    <3> QED  BY <2>1, <3>1 DEF RecoverRead
  <2>2. CASE RecoverCommit(p)       BY <2>2 DEF RecoverCommit, Lose
  <2>3. CASE RecoverFails(p)        BY <2>3 DEF RecoverFails
  <2> QED  BY <1>5, <2>1, <2>2, <2>3 DEF Startup
<1>6. ASSUME NEW p \in Api, NEW r \in Run, Recycling(r, p)
      PROVE  AtRest(s)' /\ state'[s] = state[s]
  <2>1. CASE RecycleRead(r, p)
    <3>1. r # s
      BY <1>0, <2>1 DEF RecycleRead
    <3> QED  BY <2>1, <3>1 DEF RecycleRead, Leave
  <2>2. CASE RecycleCommit(r, p)    BY <2>2 DEF RecycleCommit
  <2>3. CASE RecycleFails(r, p)     BY <2>3 DEF RecycleFails
  <2> QED  BY <1>6, <2>1, <2>2, <2>3 DEF Recycling
<1>7. CASE ReapRead
  <2>1. \A q \in Proc : s \notin hold'[q]
    BY <1>0, <1>7, ReapReadsUnspared
  <2> QED  BY <1>7, <2>1 DEF ReapRead
<1>8. CASE ReapCommit               BY <1>8 DEF ReapCommit, Lose
<1>9. CASE ReapFails                BY <1>9 DEF ReapFails
<1>10. CASE Tick                    BY <1>10 DEF Tick
<1>11. CASE UNCHANGED vars          BY <1>11 DEF vars
<1> QED
  BY <1>1, <1>2, <1>3, <1>4, <1>5, <1>6, <1>7, <1>8, <1>9, <1>10, <1>11 DEF Next

\* One terminal state replaces another only at the hand of a writer that read the row while
\* it was RUNNING: a settled row that nobody has in hand is final, in any deployment.
THEOREM RestsForGoodHolds == Spec => RestsForGood
<1>1. TypeOK /\ Inductive /\ [Next]_vars =>
        [\A r \in Run : AtRest(r) => AtRest(r)' /\ state'[r] = state[r]]_vars
  BY RestSteps DEF RestStep
<1> QED
  BY <1>1, InductiveHolds, PTL DEF Spec, RestsForGood

-----------------------------------------------------------------------------
(* Who takes a live run, in any deployment.                                *)

\* What a step may do to the turn of s, the process behind it and the sweeps that hold s.
HomeStep(s) ==
    /\ turn[s] \in Orphaned => turn'[s] \in Orphaned
    /\ turn'[s] \in Working =>
          up'[At[s]] # "down" /\ (s \notin Early => up'[At[s]] = "up")
    /\ s \in hold'[Cron] /\ Host[At[s]] = Host[Cron] => s \in hold[Cron] \/ turn'[s] \in Orphaned
    /\ s \notin Early /\ At[s] \in Api /\ s \in hold'[At[s]] =>
          s \in hold[At[s]] \/ turn'[s] \in Orphaned
    /\ state'[s] = "lost" => state[s] = "lost" \/ \E p \in Proc : s \in hold[p]

\* Every step is such a step for every run.
LEMMA HomeSteps ==
  ASSUME TypeOK, Inductive, SweptAtHome, [Next]_vars, NEW s \in Run
  PROVE  HomeStep(s)
<1> USE ConstantsAssumption
    DEF TypeOK, SweptAtHome, Terminal, Outcome, Working, Orphaned, Running,
        rowVars, turnVars, procVars, clockVars, HomeStep
<1>1. ASSUME NEW r \in Run, Turn(r)
      PROVE  HomeStep(s)
  <2>1. CASE Start(r)               BY <2>1 DEF Start, Serving
  <2>2. CASE StartCut(r)            BY <2>2 DEF StartCut, Serving
  <2>3. CASE StartUnregistered(r)   BY <2>3 DEF StartUnregistered, Serving
  <2>4. CASE Heartbeat(r)           BY <2>4 DEF Heartbeat
  <2>5. CASE \E o \in Outcome : End(r, o)
    BY <2>5 DEF End, Leave
  <2>6. CASE FinishRead(r)          BY <2>6 DEF FinishRead
  <2>7. CASE FinishCommit(r)
    <3>1. outcome[r] # "lost"
      BY DEF TypeOK, Outcome
    <3> QED  BY <2>7, <3>1 DEF FinishCommit
  <2>8. CASE FinishFails(r)         BY <2>8 DEF FinishFails
  <2> QED
    BY <1>1, <2>1, <2>2, <2>3, <2>4, <2>5, <2>6, <2>7, <2>8 DEF Turn
<1>2. ASSUME NEW r \in Run, GoQuiet(r)
      PROVE  HomeStep(s)
  BY <1>2 DEF GoQuiet
<1>3. ASSUME NEW p \in Proc, Boot(p)
      PROVE  HomeStep(s)
  BY <1>3 DEF Boot
<1>4. ASSUME NEW p \in Proc, Crash(p)
      PROVE  HomeStep(s)
  BY <1>4 DEF Crash
<1>5. ASSUME NEW p \in Api, Startup(p)
      PROVE  HomeStep(s)
  <2>1. CASE RecoverRead(p)
    <3>1. s \notin Early /\ At[s] = p => turn[s] \notin Working
      BY <2>1 DEF RecoverRead
    <3>2. s \notin Early /\ At[s] = p /\ s \in Running => turn[s] \in Orphaned
      BY <3>1 DEF Inductive, Recorded, DoneMeansSettled
    <3>3. \A q \in Proc : s \in hold'[q] => s \in hold[q] \/ (q = p /\ s \in Running)
      BY <2>1, RecoverReadsRunning
    <3>4. /\ UNCHANGED <<state, turn>> /\ up' = [up EXCEPT ![p] = "recovering"]
          /\ up[p] = "booting"
      BY <2>1 DEF RecoverRead
    <3> QED
      BY <3>1, <3>2, <3>3, <3>4
  <2>2. CASE RecoverCommit(p)       BY <2>2 DEF RecoverCommit, Lose
  <2>3. CASE RecoverFails(p)        BY <2>3 DEF RecoverFails
  <2> QED  BY <1>5, <2>1, <2>2, <2>3 DEF Startup
<1>6. ASSUME NEW p \in Api, NEW r \in Run, Recycling(r, p)
      PROVE  HomeStep(s)
  <2>1. CASE RecycleRead(r, p)      BY <2>1 DEF RecycleRead, Leave
  <2>2. CASE RecycleCommit(r, p)    BY <2>2 DEF RecycleCommit
  <2>3. CASE RecycleFails(r, p)     BY <2>3 DEF RecycleFails
  <2> QED  BY <1>6, <2>1, <2>2, <2>3 DEF Recycling
<1>7. CASE ReapRead
  <2>1. s \in Running /\ ~Spared(s) /\ Host[At[s]] = Host[Cron] => turn[s] \in Orphaned
    BY DEF Spared, Inductive, Recorded, DoneMeansSettled
  <2>2. /\ s \in hold'[Cron] => s \in Running /\ ~Spared(s)
        /\ \A q \in Proc \ {Cron} : hold'[q] = hold[q]
    BY <1>7, ReapReadsUnspared
  <2>3. UNCHANGED <<state, turn, up>>
    BY <1>7 DEF ReapRead
  <2> QED
    BY <2>1, <2>2, <2>3
<1>8. CASE ReapCommit               BY <1>8 DEF ReapCommit, Lose
<1>9. CASE ReapFails                BY <1>9 DEF ReapFails
<1>10. CASE Tick                    BY <1>10 DEF Tick
<1>11. CASE UNCHANGED vars          BY <1>11 DEF vars
<1> QED
  BY <1>1, <1>2, <1>3, <1>4, <1>5, <1>6, <1>7, <1>8, <1>9, <1>10, <1>11 DEF Next

\* Only a sweep in progress holds rows.
LEMMA HoldersSweep ==
  ASSUME TypeOK, SweptAtHome, [Next]_vars, NEW q \in Proc, hold'[q] # {}
  PROVE  q = Cron \/ (q \in Api /\ up'[q] = "recovering")
<1> USE ConstantsAssumption DEF TypeOK, SweptAtHome, rowVars, turnVars, procVars, clockVars
<1>1. ASSUME NEW r \in Run, Turn(r) \/ GoQuiet(r)
      PROVE  hold' = hold /\ up' = up
  BY <1>1 DEF Turn, Start, StartCut, StartUnregistered, Heartbeat, End, FinishRead, FinishCommit,
              FinishFails, GoQuiet
<1>2. ASSUME NEW p \in Proc, Boot(p)
      PROVE  q = Cron \/ (q \in Api /\ up'[q] = "recovering")
  BY <1>2 DEF Boot
<1>3. ASSUME NEW p \in Proc, Crash(p)
      PROVE  q = Cron \/ (q \in Api /\ up'[q] = "recovering")
  BY <1>3 DEF Crash
<1>4. ASSUME NEW p \in Api, Startup(p)
      PROVE  q = Cron \/ (q \in Api /\ up'[q] = "recovering")
  <2>1. CASE RecoverRead(p)
    <3>1. up' = [up EXCEPT ![p] = "recovering"] /\ \A x \in Proc \ {p} : hold'[x] = hold[x]
      BY <2>1, RecoverReadsRunning DEF RecoverRead
    <3> QED  BY <3>1
  <2>2. CASE RecoverCommit(p) \/ RecoverFails(p)
    BY <2>2 DEF RecoverCommit, RecoverFails
  <2> QED  BY <1>4, <2>1, <2>2 DEF Startup
<1>5. ASSUME NEW p \in Api, NEW r \in Run, Recycling(r, p)
      PROVE  hold' = hold /\ up' = up
  BY <1>5 DEF Recycling, RecycleRead, RecycleCommit, RecycleFails
<1>6. ASSUME ReapRead \/ ReapCommit \/ ReapFails
      PROVE  up' = up /\ \A x \in Proc \ {Cron} : hold'[x] = hold[x]
  BY <1>6, ReapReadsUnspared DEF ReapRead, ReapCommit, ReapFails
<1>7. ASSUME Tick \/ UNCHANGED vars
      PROVE  hold' = hold /\ up' = up
  BY <1>7 DEF Tick, vars
<1> QED
  BY <1>1, <1>2, <1>3, <1>4, <1>5, <1>6, <1>7 DEF Next

\* In any deployment, with any number of API processes on any hosts and runs in any process,
\* a live or finished run is reported LOST only by a sweep that cannot see its process: a
\* startup sweep of another API process, or of its own when it was ahead of it, or the
\* reaper when it runs on another host.
THEOREM LiveLostUnseenHolds == Spec => []SweptAtHome /\ LiveLostUnseen
<1>1. Init => SweptAtHome
  BY ConstantsAssumption DEF Init, SweptAtHome, Working
<1>2. TypeOK /\ Inductive /\ SweptAtHome /\ [Next]_vars => SweptAtHome'
  <2> SUFFICES ASSUME TypeOK, Inductive, SweptAtHome, [Next]_vars
               PROVE  SweptAtHome'
    OBVIOUS
  <2>1. \A s \in Run : HomeStep(s)
    BY HomeSteps
  <2>2. hold'[Cron] \subseteq Run
    BY NextTyped, ConstantsAssumption DEF TypeOK
  <2>3. \A q \in Proc : hold'[q] # {} => q = Cron \/ (q \in Api /\ up'[q] = "recovering")
    BY HoldersSweep
  <2>4. \A r \in hold'[Cron] : Host[At[r]] = Host[Cron] => turn'[r] \in Orphaned
    BY <2>1, <2>2 DEF HomeStep, SweptAtHome
  <2>5. \A r \in Run \ Early : At[r] \in Api /\ r \in hold'[At[r]] => turn'[r] \in Orphaned
    BY <2>1 DEF HomeStep, SweptAtHome
  <2>6. \A r \in Run : turn'[r] \in Working =>
           up'[At[r]] # "down" /\ (r \notin Early => up'[At[r]] = "up")
    BY <2>1 DEF HomeStep
  <2> QED  BY <2>3, <2>4, <2>5, <2>6 DEF SweptAtHome
<1>3. TypeOK /\ Inductive /\ SweptAtHome /\ [Next]_vars => [\A r \in Run : LostToBlame(r)]_vars
  <2> SUFFICES ASSUME TypeOK, Inductive, SweptAtHome, [Next]_vars, NEW r \in Run,
                      turn[r] \notin Orphaned, state[r] # "lost", state'[r] = "lost"
               PROVE  \/ \E p \in Api : up[p] = "recovering" /\ r \in hold[p]
                                           /\ (p # At[r] \/ r \in Early)
                      \/ r \in hold[Cron] /\ Host[At[r]] # Host[Cron]
    BY DEF LostToBlame
  <2>1. PICK p \in Proc : r \in hold[p]
    BY HomeSteps DEF HomeStep
  <2>2. CASE p = Cron
    BY <2>1, <2>2 DEF SweptAtHome
  <2>3. CASE p # Cron
    <3>1. p \in Api /\ up[p] = "recovering"
      BY <2>1, <2>3 DEF SweptAtHome
    <3>2. p # At[r] \/ r \in Early
      BY <2>1, <3>1 DEF SweptAtHome
    <3> QED  BY <2>1, <3>1, <3>2
  <2> QED  BY <2>2, <2>3
<1> QED
  BY <1>1, <1>2, <1>3, InductiveHolds, PTL DEF Spec, LiveLostUnseen
=============================================================================
