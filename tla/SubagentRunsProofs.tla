------------------------- MODULE SubagentRunsProofs -------------------------
(***************************************************************************)
(* Proofs about sub-agent runs, for any batch, any number of slots, of     *)
(* deciding requests and of crashes.                                       *)
(***************************************************************************)
EXTENDS SubagentRuns, FiniteSetTheorems, TLAPS

\* What an idle reaper and an idle request hold is well typed.
LEMMA IdleTyped ==
    /\ NoReap \in [todo : SUBSET Child, hand : SUBSET Child]
    /\ Idle \in [pc : {"idle", "read", "open"},
                 op : {"approve", "deny", "expire", "cancel"},
                 reviews : SUBSET Child,
                 runs : SUBSET Child]
  BY DEF NoReap, Idle

\* The initial state is well typed.
LEMMA InitTyped == Init => TypeOK
<1> SUFFICES ASSUME Init
             PROVE  TypeOK
  OBVIOUS
<1> QED
  BY IdleTyped, ConstantsAssumption DEF Init, TypeOK

\* Every step of a child, the reaper, a decider or a crash keeps the types.
LEMMA NextTyped == TypeOK /\ [Next]_vars => TypeOK'
<1> SUFFICES ASSUME TypeOK, [Next]_vars
             PROVE  TypeOK'
  OBVIOUS
<1> USE ConstantsAssumption DEF TypeOK, rowVars, batchVars, Terminal, Working
<1>1. ASSUME NEW c \in Child, Run(c)
      PROVE  TypeOK'
  <2>1. CASE Start(c)               BY <2>1 DEF Start, Goes
  <2>2. CASE StartUnregistered(c)   BY <2>2 DEF StartUnregistered, Goes
  <2>3. CASE Finish(c)
    <3>1. child' \in [Child -> {"idle"} \cup Working \cup {"over"}]
      BY <2>3 DEF Finish, Goes
    <3> QED  BY <2>3, <3>1 DEF Finish
  <2>4. CASE GatePass(c)            BY <2>4 DEF GatePass, Goes
  <2>5. CASE GatePark(c)            BY <2>5 DEF GatePark, Goes
  <2>6. CASE Fail(c)                BY <2>6 DEF Fail, Goes
  <2>7. CASE FailCommit(c)          BY <2>7 DEF FailCommit, Goes
  <2>8. CASE WriteFails(c)          BY <2>8 DEF WriteFails, Goes
  <2> QED
    BY <1>1, <2>1, <2>2, <2>3, <2>4, <2>5, <2>6, <2>7, <2>8 DEF Run
<1>2. CASE Reaper
  <2>1. CASE ReapStart              BY <2>1 DEF ReapStart, NoReap, Running
  <2>2. CASE ReapCommit             BY <2>2 DEF ReapCommit
  <2>3. CASE ReapFails              BY <2>3 DEF ReapFails
  <2>4. CASE \E c \in Child : ReapRead(c)
    BY <2>4 DEF ReapRead
  <2> QED  BY <1>2, <2>1, <2>2, <2>3, <2>4 DEF Reaper
<1>3. CASE Decider
  <2>1. ASSUME NEW r \in Request, NEW pc \in {"read", "open"},
               NEW op \in {"approve", "deny", "expire", "cancel"},
               NEW B \in SUBSET Child, Begin(r, pc, op, B), UNCHANGED <<rowVars, batchVars, reap, crashes>>
        PROVE  TypeOK'
    BY <2>1 DEF Begin
  <2>2. ASSUME NEW r \in Rest, NEW B \in SUBSET Child, NEW op \in {"approve", "deny"},
               Decide(r, B, op)
        PROVE  TypeOK'
    BY <2>1, <2>2 DEF Decide, Request
  <2>3. ASSUME NEW c \in Child, Expire(c)
        PROVE  TypeOK'
    BY <2>1, <2>3 DEF Expire, Request
  <2>4. ASSUME NEW k \in Chat, CancelFrame(k)
        PROVE  TypeOK'
    BY <2>1, <2>4 DEF CancelFrame, Request, Pending
  <2>5. ASSUME NEW r \in Request, ReadRuns(r)
        PROVE  TypeOK'
    <3> DEFINE runs == {c \in txn[r].reviews : row[c] \notin Terminal}
               x == [txn[r] EXCEPT !.pc = "open", !.runs = runs]
    <3>1. runs \in SUBSET Child
      OBVIOUS
    <3> HIDE DEF runs
    <3>2. x \in [pc : {"idle", "read", "open"},
                 op : {"approve", "deny", "expire", "cancel"},
                 reviews : SUBSET Child,
                 runs : SUBSET Child]
      BY <3>1, ZenonT(30)
    <3>3. txn' = [txn EXCEPT ![r] = x]
      BY <2>5 DEF ReadRuns, runs
    <3> HIDE DEF x
    <3>4. txn' \in [Request -> [pc : {"idle", "read", "open"},
                                op : {"approve", "deny", "expire", "cancel"},
                                reviews : SUBSET Child,
                                runs : SUBSET Child]]
      BY <3>2, <3>3
    <3> QED  BY <2>5, <3>4 DEF ReadRuns
  <2>6. ASSUME NEW r \in Request, NEW failed, Commit(r, failed)
        PROVE  TypeOK'
    <3>1. txn[r].op \in {"approve", "deny", "expire", "cancel"}
      OBVIOUS
    <3>2. /\ Verdict(txn[r].op) \in {"approved", "denied", "expired", "cancelled"}
          /\ Target(txn[r].op) \in {"completed", "killed"}
      BY <3>1 DEF Verdict, Target
    <3> QED  BY <2>6, <3>2 DEF Commit, Idle
  <2>7. ASSUME NEW r \in Request, Abort(r)
        PROVE  TypeOK'
    BY <2>7 DEF Abort, Idle
  <2> QED
    BY <1>3, <2>2, <2>3, <2>4, <2>5, <2>6, <2>7 DEF Decider, Request
<1>4. CASE Environment
  <2>1. CASE Stop                   BY <2>1 DEF Stop
  <2>2. CASE Crash                  BY <2>2 DEF Crash, Idle
  <2>3. CASE WorkerCrash            BY <2>3, IdleTyped DEF WorkerCrash, Request
  <2> QED  BY <1>4, <2>1, <2>2, <2>3 DEF Environment
<1>5. CASE UNCHANGED vars           BY <1>5 DEF vars
<1> QED
  BY <1>1, <1>2, <1>3, <1>4, <1>5 DEF Next

\* Type correctness, for every batch and every set of deciders.
THEOREM TypeCorrect == Spec => []TypeOK
<1>1. Init => TypeOK                       BY InitTyped
<1>2. TypeOK /\ [Next]_vars => TypeOK'     BY NextTyped
<1> QED
  BY <1>1, <1>2, PTL DEF Spec

-----------------------------------------------------------------------------
(* A parked run has a review to wait for.                                  *)

\* Nothing is filed, held or parked at the start.
LEMMA InitInductive == Init => Inductive
  BY DEF Init, Inductive, ParkedHasReview, FiledAtEnd, HoldsFiled, DecidersHold, Idle

\* The runs and reviews of children other than c stay as they are.
OnlyChild(c) ==
    /\ child[c] \in Working \cup {"idle"}
    /\ \A d \in Child \ {c} :
          row'[d] = row[d] /\ review'[d] = review[d] /\ child'[d] = child[d]

\* A step of a child touches its own run and review only, and leaves them in
\* agreement.
LEMMA RunStep ==
    ASSUME TypeOK, NEW c \in Child, Run(c)
    PROVE  /\ OnlyChild(c)
           /\ txn' = txn
           /\ review'[c] = review[c] \/ review'[c] = "pending"
           /\ row'[c] = "review" => row[c] = "review" \/ review'[c] = "pending"
           /\ child'[c] \in {"idle"} \cup Working =>
                 review'[c] = review[c] /\ (row'[c] = "review" => row[c] = "review")
<1> USE DEF TypeOK, OnlyChild, Working, Terminal, rowVars, batchVars, Goes, MayStart
<1>1. CASE Start(c)               BY <1>1 DEF Start
<1>2. CASE StartUnregistered(c)   BY <1>2 DEF StartUnregistered
<1>3. CASE Finish(c)              BY <1>3 DEF Finish
<1>4. CASE GatePass(c)            BY <1>4 DEF GatePass
<1>5. CASE GatePark(c)            BY <1>5 DEF GatePark
<1>6. CASE Fail(c)                BY <1>6 DEF Fail
<1>7. CASE FailCommit(c)          BY <1>7 DEF FailCommit
<1>8. CASE WriteFails(c)          BY <1>8 DEF WriteFails
<1> QED
  BY <1>1, <1>2, <1>3, <1>4, <1>5, <1>6, <1>7, <1>8 DEF Run

\* A child's step keeps the strengthening: no decider holds its review yet.
LEMMA RunInductive ==
    ASSUME TypeOK, Inductive, NEW c \in Child, Run(c)
    PROVE  Inductive'
<1> USE RunStep DEF TypeOK, Inductive, ParkedHasReview, FiledAtEnd, HoldsFiled, DecidersHold, OnlyChild
<1>1. review[c] = "none" /\ row[c] # "review"
  OBVIOUS
<1>2. ParkedHasReview'
  <2> SUFFICES ASSUME NEW d \in Child, row'[d] = "review"
               PROVE  review'[d] = "pending" \/ (review'[d] = "cancelled" /\ Chat # {})
    OBVIOUS
  <2>1. CASE d = c     BY <2>1, <1>1
  <2>2. CASE d # c     BY <2>2
  <2> QED  BY <2>1, <2>2
<1>3. FiledAtEnd'
  <2> SUFFICES ASSUME NEW d \in Child, child'[d] \in {"idle"} \cup Working
               PROVE  review'[d] = "none" /\ row'[d] # "review"
    BY DEF Working
  <2>1. CASE d = c     BY <2>1, <1>1
  <2>2. CASE d # c     BY <2>2
  <2> QED  BY <2>1, <2>2
<1>4. HoldsFiled'
  <2> SUFFICES ASSUME NEW r \in Request, NEW d \in txn[r].reviews
               PROVE  /\ review'[d] # "none"
                      /\ txn[r].pc = "open" /\ txn[r].op # "cancel" /\ row'[d] = "review"
                            => d \in txn[r].runs
    OBVIOUS
  <2>1. d \in Child /\ d # c
    BY <1>1
  <2> QED  BY <2>1
<1>5. DecidersHold'
  OBVIOUS
<1> QED
  BY <1>2, <1>3, <1>4, <1>5

\* A decider that begins holds open reviews and no run yet; only a cancel frame
\* skips the reading of the runs.
LEMMA BeginInductive ==
    ASSUME TypeOK, Inductive, NEW r \in Request, NEW pc \in {"read", "open"},
           NEW op \in {"approve", "deny", "expire", "cancel"}, NEW B \in SUBSET Pending,
           op = "cancel" => pc = "open" /\ r \in Chat,
           pc = "open" => op = "cancel",
           Begin(r, pc, op, B),
           UNCHANGED <<rowVars, batchVars, reap, crashes>>
    PROVE  Inductive'
<1> USE DEF TypeOK, Inductive, rowVars, batchVars, Begin
<1>1. ParkedHasReview' /\ FiledAtEnd'
  BY DEF ParkedHasReview, FiledAtEnd
<1>2. HoldsFiled'
  BY DEF HoldsFiled, Pending
<1>3. DecidersHold'
  BY DEF DecidersHold
<1> QED
  BY <1>1, <1>2, <1>3

\* A commit that leaves a parked run's review closed is a cancel frame's.
LEMMA CommitInductive ==
    ASSUME TypeOK, Inductive, NEW r \in Request, NEW failed, Commit(r, failed)
    PROVE  Inductive'
<1> DEFINE x == txn[r]
<1> USE DEF TypeOK, Inductive, rowVars, batchVars
<1>1. /\ x.pc = "open"
      /\ \A c \in Child : /\ review'[c] = IF c \in x.reviews \ failed THEN Verdict(x.op) ELSE review[c]
                          /\ row'[c] = IF c \in x.runs \ failed THEN Target(x.op) ELSE row[c]
      /\ child' = child
      /\ txn' = [txn EXCEPT ![r] = Idle]
  BY DEF Commit
<1>2. /\ Target(x.op) # "review"
      /\ Verdict(x.op) # "none"
      /\ Verdict(x.op) = "cancelled" <=> x.op = "cancel"
  BY DEF Target, Verdict
<1>3. \A c \in Child : row'[c] = "review" => row[c] = "review"
  BY <1>1, <1>2
<1>4. \A c \in Child : review[c] # "none" => review'[c] # "none"
  BY <1>1, <1>2
<1>5. ParkedHasReview'
  <2> SUFFICES ASSUME NEW c \in Child, row'[c] = "review"
               PROVE  review'[c] = "pending" \/ (review'[c] = "cancelled" /\ Chat # {})
    BY DEF ParkedHasReview
  <2>1. CASE c \in x.reviews \ failed
    <3>1. x.op = "cancel"
      BY <1>1, <1>2, <1>3, <2>1 DEF HoldsFiled
    <3>2. Chat # {}
      BY <3>1 DEF DecidersHold
    <3> QED  BY <1>1, <1>2, <2>1, <3>1, <3>2
  <2>2. CASE c \notin x.reviews \ failed
    BY <1>1, <1>3, <2>2 DEF ParkedHasReview
  <2> QED  BY <2>1, <2>2
<1>6. FiledAtEnd'
  <2> SUFFICES ASSUME NEW c \in Child, child[c] \in {"idle"} \cup Working
               PROVE  review'[c] = "none" /\ row'[c] # "review"
    BY <1>1 DEF FiledAtEnd, Working
  <2>1. review[c] = "none" /\ row[c] # "review"
    BY DEF FiledAtEnd
  <2>2. c \notin x.reviews
    BY <2>1 DEF HoldsFiled
  <2> QED  BY <1>1, <1>3, <2>1, <2>2
<1>7. HoldsFiled'
  <2> SUFFICES ASSUME NEW q \in Request, NEW c \in txn'[q].reviews
               PROVE  /\ review'[c] # "none"
                      /\ txn'[q].pc = "open" /\ txn'[q].op # "cancel" /\ row'[c] = "review"
                            => c \in txn'[q].runs
    BY DEF HoldsFiled
  <2>1. q # r
    BY <1>1 DEF Idle
  <2>2. txn'[q] = txn[q] /\ c \in Child
    BY <1>1, <2>1
  <2> QED  BY <1>3, <1>4, <2>2 DEF HoldsFiled
<1>8. DecidersHold'
  BY <1>1 DEF DecidersHold, Idle
<1> QED
  BY <1>5, <1>6, <1>7, <1>8

\* The reads of a decider and the ends of transactions keep the strengthening: a
\* run that ReadRuns leaves out is terminal, and no terminal run is parked.
LEMMA DeciderInductive ==
    ASSUME TypeOK, Inductive, Decider
    PROVE  Inductive'
<1>1. ASSUME NEW r \in Rest, NEW B \in SUBSET Child, NEW op \in {"approve", "deny"},
             Decide(r, B, op)
      PROVE  Inductive'
  <2>1. B \in SUBSET Pending /\ r \in Request /\ op # "cancel"
    BY <1>1 DEF Decide, Request
  <2>2. Begin(r, "read", op, B) /\ UNCHANGED <<rowVars, batchVars, reap, crashes>>
    BY <1>1 DEF Decide
  <2> QED  BY <2>1, <2>2, BeginInductive
<1>2. ASSUME NEW c \in Child, Expire(c)
      PROVE  Inductive'
  <2>1. {c} \in SUBSET Pending /\ Ttl \in Request
    BY <1>2 DEF Expire, Request
  <2>2. Begin(Ttl, "read", "expire", {c}) /\ UNCHANGED <<rowVars, batchVars, reap, crashes>>
    BY <1>2 DEF Expire
  <2> QED  BY <2>1, <2>2, BeginInductive
<1>3. ASSUME NEW k \in Chat, CancelFrame(k)
      PROVE  Inductive'
  <2>1. Begin(k, "open", "cancel", Pending) /\ UNCHANGED <<rowVars, batchVars, reap, crashes>>
    BY <1>3 DEF CancelFrame
  <2> QED  BY <2>1, BeginInductive DEF Request
<1> USE DEF TypeOK, Inductive, rowVars, batchVars
<1>4. ASSUME NEW r \in Request, ReadRuns(r)
      PROVE  Inductive'
  <2>1. /\ txn' = [txn EXCEPT ![r] = [@ EXCEPT !.pc = "open",
                                     !.runs = {c \in txn[r].reviews : row[c] \notin Terminal}]]
        /\ row' = row /\ review' = review /\ child' = child
    BY <1>4 DEF ReadRuns
  <2>2. ParkedHasReview' /\ FiledAtEnd'
    BY <2>1 DEF ParkedHasReview, FiledAtEnd
  <2>3. HoldsFiled'
    BY <2>1 DEF HoldsFiled, Terminal
  <2>4. DecidersHold'
    <3>1. txn[r].pc = "read" /\ txn[r].op # "cancel"
      BY <1>4 DEF ReadRuns, DecidersHold
    <3> QED  BY <2>1, <3>1 DEF DecidersHold
  <2> QED  BY <2>2, <2>3, <2>4
<1>5. ASSUME NEW r \in Request, Abort(r)
      PROVE  Inductive'
  BY <1>5 DEF Abort, Idle, ParkedHasReview, FiledAtEnd, HoldsFiled, DecidersHold
<1> QED
  BY <1>1, <1>2, <1>3, <1>4, <1>5, CommitInductive DEF Decider, Request

\* The reaper touches neither a review nor a child, and parks nothing.
LEMMA ReaperInductive ==
    ASSUME TypeOK, Inductive, Reaper
    PROVE  Inductive'
<1> USE DEF TypeOK, rowVars, batchVars
<1>1. /\ UNCHANGED <<review, child, txn>>
      /\ \A c \in Child : row'[c] = "review" => row[c] = "review"
  BY DEF Reaper, ReapStart, ReapRead, ReapCommit, ReapFails
<1> QED
  BY <1>1 DEF Inductive, ParkedHasReview, FiledAtEnd, HoldsFiled, DecidersHold

\* A cancelled parent and a dead process write no row.
LEMMA EnvironmentInductive ==
    ASSUME TypeOK, Inductive, Environment
    PROVE  Inductive'
<1> USE DEF TypeOK, Inductive, rowVars, batchVars
<1>1. UNCHANGED rowVars
  BY DEF Environment, Stop, Crash, WorkerCrash
<1>2. \A c \in Child : child'[c] = child[c] \/ child'[c] = "over"
  BY DEF Environment, Stop, Crash, WorkerCrash
<1>3. \A r \in Request : txn'[r] = txn[r] \/ txn'[r] = Idle
  BY DEF Environment, Stop, Crash, WorkerCrash
<1>4. ParkedHasReview'
  BY <1>1 DEF ParkedHasReview
<1>5. FiledAtEnd'
  BY <1>1, <1>2 DEF FiledAtEnd, Working
<1>6. HoldsFiled'
  BY <1>1, <1>3 DEF HoldsFiled, Idle
<1>7. DecidersHold'
  BY <1>3 DEF DecidersHold, Idle
<1> QED
  BY <1>4, <1>5, <1>6, <1>7

\* The strengthening holds throughout.
LEMMA InductiveHolds == Spec => [](TypeOK /\ Inductive)
<1>1. Init => TypeOK /\ Inductive
  BY InitTyped, InitInductive
<1>2. TypeOK /\ Inductive /\ [Next]_vars => TypeOK' /\ Inductive'
  <2> SUFFICES ASSUME TypeOK, Inductive, [Next]_vars
               PROVE  Inductive'
    BY NextTyped
  <2>1. CASE UNCHANGED vars
    BY <2>1 DEF vars, Inductive, ParkedHasReview, FiledAtEnd, HoldsFiled, DecidersHold
  <2> QED
    BY <2>1, RunInductive, ReaperInductive, DeciderInductive, EnvironmentInductive DEF Next
<1> QED
  BY <1>1, <1>2, PTL DEF Spec

\* A run in HALLUCINATION_REVIEW has an open review, unless a cancel frame closed
\* it: without a chat connection, no interleaving of the gate, the reaper and the
\* deciders strands a child.
THEOREM ParkedHasReviewHolds == Spec => []ParkedHasReview
<1>1. Inductive => ParkedHasReview         BY DEF Inductive
<1> QED
  BY <1>1, InductiveHolds, PTL

-----------------------------------------------------------------------------
(* How a run leaves its review.                                            *)

\* No step unparks a run but the commit of a verdict or of the reaper.
LEMMA StepLeavesWithVerdict ==
    ASSUME TypeOK, Inductive, [Next]_vars, NEW c \in Child,
           row[c] = "review", row'[c] # "review"
    PROVE  \/ row'[c] = "completed" /\ review'[c] = "approved"
           \/ row'[c] = "killed" /\ review'[c] \in {"denied", "expired"}
           \/ row'[c] = "zombie"
<1> USE DEF TypeOK, rowVars, batchVars
<1>1. ASSUME NEW d \in Child, Run(d)
      PROVE  FALSE
  <2>1. row[d] # "review"
    BY <1>1, RunStep DEF OnlyChild, Inductive, FiledAtEnd
  <2> QED  BY <1>1, <2>1, RunStep DEF OnlyChild
<1>2. ASSUME Reaper
      PROVE  row'[c] = "zombie"
  BY <1>2 DEF Reaper, ReapStart, ReapRead, ReapCommit, ReapFails
<1>3. ASSUME NEW r \in Request, NEW failed, Commit(r, failed)
      PROVE  \/ row'[c] = "completed" /\ review'[c] = "approved"
             \/ row'[c] = "killed" /\ review'[c] \in {"denied", "expired"}
  <2>1. /\ c \in txn[r].runs \ failed
        /\ row'[c] = Target(txn[r].op)
    BY <1>3 DEF Commit
  <2>2. c \in txn[r].reviews /\ txn[r].op # "cancel"
    BY <2>1 DEF Inductive, DecidersHold
  <2>3. review'[c] = Verdict(txn[r].op)
    BY <1>3, <2>1, <2>2 DEF Commit
  <2>4. txn[r].op \in {"approve", "deny", "expire"}
    BY <2>2
  <2> QED  BY <2>1, <2>3, <2>4 DEF Target, Verdict
<1>4. CASE Decider
  BY <1>3, <1>4 DEF Decider, Decide, Expire, CancelFrame, ReadRuns, Abort, Request
<1>5. CASE Environment
  BY <1>5 DEF Environment, Stop, Crash, WorkerCrash
<1>6. CASE UNCHANGED vars
  BY <1>6 DEF vars
<1> QED
  BY <1>1, <1>2, <1>4, <1>5, <1>6 DEF Next

\* A run and the verdict that takes it out of its review are one commit, for every
\* crossing of deciders; the only other way out is the reaper's.
THEOREM LeavesWithVerdictHolds == Spec => LeavesWithVerdict
<1>1. TypeOK /\ Inductive /\ [Next]_vars =>
        \A c \in Child :
          row[c] = "review" /\ row'[c] # "review" =>
              \/ row'[c] = "completed" /\ review'[c] = "approved"
              \/ row'[c] = "killed" /\ review'[c] \in {"denied", "expired"}
              \/ row'[c] = "zombie"
  BY StepLeavesWithVerdict
<1> QED
  BY <1>1, InductiveHolds, PTL DEF Spec, LeavesWithVerdict

-----------------------------------------------------------------------------
(* Who settles a run while its child works.                                *)

\* Until the last write of its child a run is RUNNING or reaped, if it has a row at all, and
\* an output comes late behind the reaper only.
OvertakenByReaper ==
    \A c \in Child :
        /\ child[c] = "idle" => row[c] = "none"
        /\ child[c] = "working" => row[c] \in {"none", "running", "zombie"}
        /\ child[c] \in {"judging", "failing"} => row[c] \in {"running", "zombie"}
        /\ child[c] = "late" => row[c] = "zombie"
        /\ c \in reap.hand \/ review[c] # "none" => row[c] # "none"

\* A row that is there stays, no run is RUNNING twice, and a settled run is parked only by
\* its child's judge, which had read the row before the reaper settled it.
GoesForward(c) ==
    /\ row[c] # "none" => row'[c] # "none" /\ (row'[c] = "running" => row[c] = "running")
    /\ row[c] \in Terminal /\ row'[c] \notin Terminal =>
          row[c] = "zombie" /\ row'[c] = "review" /\ child[c] = "judging"

\* A step of a child: what it reads decides what it writes.
LEMMA RunOvertaken ==
    ASSUME TypeOK, Inductive, OvertakenByReaper, NEW c \in Child, Run(c)
    PROVE  OvertakenByReaper' /\ \A d \in Child : GoesForward(d)
<1> USE DEF TypeOK, OvertakenByReaper, Terminal, rowVars, batchVars, Goes, MayStart, GoesForward
<1>1. review[c] = "none"
  BY RunStep DEF Inductive, FiledAtEnd, OnlyChild
<1>2. CASE Start(c)               BY <1>2 DEF Start
<1>3. CASE StartUnregistered(c)   BY <1>3 DEF StartUnregistered
<1>4. CASE Finish(c)              BY <1>4 DEF Finish
<1>5. CASE GatePass(c)            BY <1>5 DEF GatePass
<1>6. CASE GatePark(c)            BY <1>6 DEF GatePark
<1>7. CASE Fail(c)                BY <1>7 DEF Fail
<1>8. CASE FailCommit(c)          BY <1>8 DEF FailCommit
<1>9. CASE WriteFails(c)          BY <1>9 DEF WriteFails
<1> QED
  BY <1>2, <1>3, <1>4, <1>5, <1>6, <1>7, <1>8, <1>9 DEF Run

\* The reaper writes rows that were there when it read them.
LEMMA ReaperOvertaken ==
    ASSUME TypeOK, OvertakenByReaper, Reaper
    PROVE  OvertakenByReaper' /\ \A d \in Child : GoesForward(d)
<1> USE DEF TypeOK, OvertakenByReaper, Terminal, rowVars, batchVars, GoesForward
<1>1. CASE ReapStart
  BY <1>1 DEF ReapStart, NoReap
<1>2. CASE ReapCommit
  BY <1>2 DEF ReapCommit
<1>3. CASE ReapFails
  BY <1>3 DEF ReapFails
<1>4. ASSUME NEW c \in Child, ReapRead(c)
      PROVE  OvertakenByReaper' /\ \A d \in Child : GoesForward(d)
  BY <1>4 DEF ReapRead, Running
<1> QED  BY <1>1, <1>2, <1>3, <1>4 DEF Reaper

\* Deciders write the runs of children that are over, and leave them settled.
LEMMA DeciderOvertaken ==
    ASSUME TypeOK, Inductive, OvertakenByReaper, Decider
    PROVE  OvertakenByReaper' /\ \A d \in Child : GoesForward(d)
<1> USE DEF TypeOK, rowVars, batchVars
<1>1. ASSUME NEW r \in Request, NEW failed, Commit(r, failed)
      PROVE  OvertakenByReaper' /\ \A d \in Child : GoesForward(d)
  <2>1. /\ child' = child /\ reap' = reap
        /\ \A c \in Child :
              \/ review'[c] = review[c] /\ row'[c] = row[c]
              \/ c \in txn[r].reviews /\ (row'[c] = row[c] \/ row'[c] \in {"completed", "killed"})
    BY <1>1 DEF Commit, Target, Inductive, DecidersHold
  <2>2. \A c \in txn[r].reviews : row[c] # "none" /\ child[c] \notin Working \cup {"idle"}
    BY DEF Inductive, HoldsFiled, FiledAtEnd, OvertakenByReaper
  <2>3. OvertakenByReaper'
    BY <2>1, <2>2 DEF OvertakenByReaper, Working
  <2>4. \A d \in Child : GoesForward(d)
    BY <2>1, <2>2 DEF GoesForward, Terminal
  <2> QED  BY <2>3, <2>4
<1>2. CASE UNCHANGED <<row, review, child, reap>>
  BY <1>2 DEF OvertakenByReaper, GoesForward
<1> QED
  BY <1>1, <1>2 DEF Decider, Decide, Expire, CancelFrame, ReadRuns, Abort, Request

\* While its child works nobody but the reaper settles a run, whatever deciders, crashes
\* and cancellations do, and no run goes back, except into review from under the reaper.
THEOREM OnlyReaperOvertakes ==
    Spec => []OvertakenByReaper /\ [][\A c \in Child : GoesForward(c)]_vars
<1>1. Init => OvertakenByReaper
  BY DEF Init, OvertakenByReaper, NoReap
<1>2. TypeOK /\ Inductive /\ OvertakenByReaper /\ [Next]_vars =>
        OvertakenByReaper' /\ [\A c \in Child : GoesForward(c)]_vars
  <2> SUFFICES ASSUME TypeOK, Inductive, OvertakenByReaper, [Next]_vars
               PROVE  OvertakenByReaper' /\ [\A c \in Child : GoesForward(c)]_vars
    OBVIOUS
  <2>1. CASE Environment
    <3>1. /\ UNCHANGED <<row, review>>
          /\ reap'.hand \subseteq reap.hand
          /\ \A c \in Child : child'[c] = child[c] \/ child'[c] = "over"
      BY <2>1 DEF Environment, Stop, Crash, WorkerCrash, rowVars, batchVars, NoReap, TypeOK
    <3> QED  BY <3>1 DEF OvertakenByReaper, GoesForward
  <2>2. CASE UNCHANGED vars
    BY <2>2 DEF vars, OvertakenByReaper
  <2> QED
    BY <2>1, <2>2, RunOvertaken, ReaperOvertaken, DeciderOvertaken DEF Next
<1> QED
  BY <1>1, <1>2, InductiveHolds, PTL DEF Spec

-----------------------------------------------------------------------------
(* The slots of the batch.                                                 *)

\* As many children work as there are slots, at most.
SlotsKept == IsFiniteSet(Active) /\ Cardinality(Active) <= Slots

\* A set that lost members, or won one while there was room, is still within the limit.
LEMMA CountKept ==
    ASSUME NEW A, NEW B, IsFiniteSet(A), NEW n \in Nat, Cardinality(A) <= n,
           B \subseteq A \/ (Cardinality(A) < n /\ \E x : B \subseteq A \cup {x})
    PROVE  IsFiniteSet(B) /\ Cardinality(B) <= n
<1>1. CASE B \subseteq A
  <2>1. IsFiniteSet(B) /\ Cardinality(B) <= Cardinality(A)
    BY <1>1, FS_Subset
  <2> QED  BY <2>1, FS_CardinalityType
<1>2. ASSUME NEW x, B \subseteq A \cup {x}, Cardinality(A) < n
      PROVE  IsFiniteSet(B) /\ Cardinality(B) <= n
  <2>1. /\ IsFiniteSet(A \cup {x})
        /\ Cardinality(A \cup {x}) = Cardinality(A) \/ Cardinality(A \cup {x}) = Cardinality(A) + 1
    BY FS_AddElement
  <2>2. IsFiniteSet(B) /\ Cardinality(B) <= Cardinality(A \cup {x})
    BY <1>2, <2>1, FS_Subset
  <2>3. Cardinality(A) \in Nat /\ Cardinality(B) \in Nat
    BY <2>2, FS_CardinalityType
  <2> QED  BY <1>2, <2>1, <2>2, <2>3
<1> QED  BY <1>1, <1>2

\* The semaphore holds through failed registrations, cancelled writes, crashes and a parent
\* that is stopped: a slot is taken once per child and is free when the child is over.
THEOREM SlotsHold == Spec => []SlotsKept
<1>1. Init => SlotsKept
  <2>1. Init => Active = {}
    BY DEF Init, Active, Working
  <2> QED  BY <2>1, FS_EmptySet, ConstantsAssumption DEF SlotsKept
<1>2. TypeOK /\ SlotsKept /\ [Next]_vars => SlotsKept'
  <2> SUFFICES ASSUME TypeOK, SlotsKept, [Next]_vars
               PROVE  SlotsKept'
    OBVIOUS
  <2> USE DEF TypeOK, Active, Working, rowVars, batchVars, Goes
  <2>1. ASSUME NEW c \in Child, Start(c) \/ StartUnregistered(c)
        PROVE  Active' \subseteq Active \cup {c} /\ Cardinality(Active) < Slots
    BY <2>1 DEF Start, StartUnregistered, MayStart
  <2>2. ASSUME NEW c \in Child, Run(c), ~(Start(c) \/ StartUnregistered(c))
        PROVE  Active' \subseteq Active
    BY <2>2 DEF Run, Finish, GatePass, GatePark, Fail, FailCommit, WriteFails
  <2>3. ASSUME Reaper \/ Decider \/ Environment \/ UNCHANGED vars
        PROVE  Active' \subseteq Active
    <3>1. CASE Reaper
      BY <3>1 DEF Reaper, ReapStart, ReapRead, ReapCommit, ReapFails
    <3>2. CASE Decider
      BY <3>2 DEF Decider, Decide, Expire, CancelFrame, ReadRuns, Commit, Abort
    <3>3. CASE Environment
      BY <3>3 DEF Environment, Stop, Crash, WorkerCrash
    <3>4. CASE UNCHANGED vars
      BY <3>4 DEF vars
    <3> QED  BY <2>3, <3>1, <3>2, <3>3, <3>4
  <2> HIDE DEF TypeOK, Active, Working, rowVars, batchVars, Goes
  <2>4. \/ Active' \subseteq Active
        \/ Cardinality(Active) < Slots /\ \E c : Active' \subseteq Active \cup {c}
    BY <2>1, <2>2, <2>3 DEF Next
  <2> QED  BY <2>4, CountKept, ConstantsAssumption DEF SlotsKept
<1> QED
  BY <1>1, <1>2, InductiveHolds, PTL DEF Spec
=============================================================================
