-------------------------- MODULE ApprovalsProofs --------------------------
(***************************************************************************)
(* Proofs about the approval protocol, for any number of tool calls,       *)
(* proposals, processes, connections and requests.                         *)
(***************************************************************************)
EXTENDS ApprovalsRefinement, FiniteSetTheorems, TLAPS

\* The initial state is well typed.
LEMMA InitTyped == Init => TypeOK
  BY ConstantsAssumption DEF Init, TypeOK, Idle, NoSweep, Status, Decided, Live

\* Typing is preserved by every step of the callbacks, the deciders, the sweep and
\* the environment.
LEMMA NextTyped == TypeOK /\ [Next]_vars => TypeOK'
<1> SUFFICES ASSUME TypeOK, [Next]_vars PROVE TypeOK'
  OBVIOUS
<1> USE ConstantsAssumption DEF TypeOK, Status, Decided, Live
<1>1. ASSUME NEW t \in Tool, Callback(t) PROVE TypeOK'
  <2>1. CASE PersistRow(t)
    BY <2>1 DEF PersistRow, Approval, deciderVars, history
  <2>2. CASE PersistFails(t)
    BY <2>2 DEF PersistFails, deciderVars, history, rowVars
  <2>3. CASE Register(t)
    BY <2>3 DEF Register, deciderVars, history, rowVars
  <2>4. CASE Wake(t)
    BY <2>4 DEF Wake, Unpark, deciderVars, history, rowVars
  <2>5. CASE TimeOut(t)
    BY <2>5 DEF TimeOut, Unpark, deciderVars, history, rowVars
  <2>6. CASE ReRead(t)
    BY <2>6 DEF ReRead, Return, deciderVars, history, rowVars
  <2>7. CASE CloseRow(t)
    BY <2>7 DEF CloseRow, Return, Closing, Approval, deciderVars, history
  <2>8. CASE CloseFails(t)
    BY <2>8 DEF CloseFails, Return, deciderVars, history, rowVars
  <2> QED
    BY <1>1, <2>1, <2>2, <2>3, <2>4, <2>5, <2>6, <2>7, <2>8 DEF Callback
<1>2. ASSUME Decider PROVE TypeOK'
  <2> DEFINE Txn == [pc : {"idle", "stopped", "open", "wake"},
                     via : {"ws", "rest"},
                     op : {"approve", "deny", "cancel"},
                     rows : SUBSET Approval,
                     wake : SUBSET Approval]
  <2>1. ASSUME NEW k \in Socket, CancelFrame(k) PROVE TypeOK'
    BY <2>1 DEF CancelFrame, Kill, Begin, Request, rowVars, history
  <2>2. ASSUME NEW k \in Socket, CancelRows(k) PROVE TypeOK'
    BY <2>2 DEF CancelRows, Begin, Idle, Pending, Request, rowVars, history, waitVars
  <2>3. ASSUME NEW k \in Socket, NEW a \in Approval, NEW op \in {"approve", "deny"},
               Answer(k, a, op)
        PROVE  TypeOK'
    BY <2>3 DEF Answer, Begin, Pending, Request, rowVars, history, waitVars
  <2>4. ASSUME NEW r \in Rest, NEW B \in Batches, NEW op \in {"approve", "deny"},
               Decide(r, B, op)
        PROVE  TypeOK'
    BY <2>4 DEF Decide, Batches, Begin, Request, rowVars, history, waitVars
  <2>5. ASSUME NEW r \in Request, Commit(r) PROVE TypeOK'
    <3>1. PICK failed \in SUBSET Fallible(txn[r]) :
            /\ status' = [a \in Approval |->
                            IF a \in txn[r].rows \ failed THEN Verdict(txn[r].op) ELSE status[a]]
            /\ applied' = [p \in Proposal |->
                            IF p \in Dispatched(txn[r]) \ failed
                              THEN applied[p] + 1 ELSE applied[p]]
            /\ landed' = landed \cup {t \in (txn[r].rows \ failed) \cap Tool :
                                        entry[t] = "open" /\ Home(t) = At[r]}
            /\ txn' = [txn EXCEPT ![r] = IF txn[r].wake \ failed = {} THEN Idle
                           ELSE [@ EXCEPT !.pc = "wake", !.wake = txn[r].wake \ failed]]
      BY <2>5 DEF Commit
    <3>2. status' \in [Approval -> Status]
      BY <3>1 DEF Verdict
    <3>3. applied' \in [Proposal -> Nat]
      BY <3>1
    <3>4. txn' \in [Request -> Txn]
      <4>1. txn[r] \in Txn /\ Idle \in Txn
        BY DEF Idle
      <4>2. [txn[r] EXCEPT !.pc = "wake", !.wake = txn[r].wake \ failed] \in Txn
        BY <4>1
      <4> QED
        BY <3>1, <4>1, <4>2
    <3>5. landed' \subseteq Tool
      BY <3>1
    <3> QED
      BY <2>5, <3>2, <3>3, <3>4, <3>5 DEF Commit, waitVars
  <2>6. ASSUME NEW r \in Request, NEW a \in Approval, Notify(r, a) PROVE TypeOK'
    <3>1. entry' \in [Tool -> {"none", "open", "yes", "no"}]
      BY <2>6 DEF Notify
    <3>2. txn' \in [Request -> Txn]
      <4>1. txn' = [txn EXCEPT ![r] = IF txn[r].wake \ {a} = {} THEN Idle
                                      ELSE [txn[r] EXCEPT !.wake = txn[r].wake \ {a}]]
        BY <2>6 DEF Notify
      <4>2. txn[r] \in Txn /\ Idle \in Txn
        BY DEF Idle
      <4>3. [txn[r] EXCEPT !.wake = txn[r].wake \ {a}] \in Txn
        BY <4>2
      <4> QED
        BY <4>1, <4>2, <4>3
    <3>3. yes' \subseteq Tool
      BY <2>6 DEF Notify
    <3> QED
      BY <2>6, <3>1, <3>2, <3>3 DEF Notify, rowVars
  <2> QED
    BY <1>2, <2>1, <2>2, <2>3, <2>4, <2>5, <2>6 DEF Decider
<1>3. ASSUME Sweep PROVE TypeOK'
  <2> USE DEF Pending, rowVars, waitVars, history
  <2> DEFINE Sweeping == [pc : {"idle", "next", "dispatch", "reload", "reject"},
                          todo : SUBSET Approval,
                          hand : SUBSET Approval]
  <2>0. SweepNext => sweep' \in Sweeping
    <3>1. [sweep EXCEPT !.pc = "next", !.hand = {}] \in Sweeping
      OBVIOUS
    <3>2. NoSweep \in Sweeping
      BY DEF NoSweep
    <3> QED
      BY <3>1, <3>2 DEF SweepNext
  <2>1. CASE SweepStart
    BY <2>1 DEF SweepStart
  <2>2. ASSUME NEW a \in Approval, SweepPick(a) PROVE TypeOK'
    BY <2>2 DEF SweepPick
  <2>3. CASE SweepExecute
    <3>1. status' \in [Approval -> Status] /\ applied' \in [Proposal -> Nat]
      BY <2>3 DEF SweepExecute
    <3> QED
      BY <2>0, <2>3, <3>1 DEF SweepExecute
  <2>4. CASE SweepDispatchFails
    BY <2>4 DEF SweepDispatchFails
  <2>5. CASE SweepReload
    <3>1. sweep' \in Sweeping
      <4>1. [sweep EXCEPT !.pc = "reject"] \in Sweeping
        OBVIOUS
      <4> QED
        BY <2>0, <2>5, <4>1 DEF SweepReload
    <3> QED
      BY <2>5, <3>1 DEF SweepReload
  <2>6. CASE SweepReject
    BY <2>0, <2>6 DEF SweepReject
  <2>7. CASE SweepFails
    BY <2>0, <2>7 DEF SweepFails
  <2> QED
    BY <1>3, <2>1, <2>2, <2>3, <2>4, <2>5, <2>6, <2>7 DEF Sweep
<1>4. ASSUME Environment PROVE TypeOK'
  <2> USE DEF rowVars, waitVars, deciderVars, history
  <2>1. ASSUME NEW k \in Socket, Disconnect(k) PROVE TypeOK'
    BY <2>1 DEF Disconnect, Kill
  <2>2. ASSUME NEW p \in Proposal, File(p) PROVE TypeOK'
    BY <2>2 DEF File, Approval
  <2>3. ASSUME NEW a \in Approval, Expire(a) PROVE TypeOK'
    BY <2>3 DEF Expire
  <2>4. ASSUME NEW p \in Proc, Crash(p) PROVE TypeOK'
    BY <2>4 DEF Crash, Kill, Idle
  <2>5. CASE WorkerCrash
    BY <2>5 DEF WorkerCrash, NoSweep
  <2> QED
    BY <1>4, <2>1, <2>2, <2>3, <2>4, <2>5 DEF Environment
<1>5. CASE UNCHANGED vars
  BY <1>5 DEF vars
<1> QED
  BY <1>1, <1>2, <1>3, <1>4, <1>5 DEF Next

\* Every reachable state of the approval protocol is well typed.
THEOREM TypeCorrect == Spec => []TypeOK
<1>1. Init => TypeOK
  BY InitTyped
<1>2. TypeOK /\ [Next]_vars => TypeOK'
  BY NextTyped
<1> QED
  BY <1>1, <1>2, PTL DEF Spec
-----------------------------------------------------------------------------
(* The inductive invariant.                                                *)

\* The initial state satisfies the strengthening.
LEMMA InitInductive == Init => Inductive
  BY DEF Init, Inductive, RowsExist, WakesDecided, EntryMeansParked, YesBacked, LandedWakes, Idle, NoSweep, Approval

\* Rows only move forward: a decided row stays decided, a row never disappears.
Forward(a) ==
    /\ status[a] # "none" => status'[a] # "none"
    /\ status[a] \in Decided => status'[a] \in Decided

\* A row is never taken back: not to "none", and not from decided to pending.
LEMMA RowsMoveForward ==
  ASSUME TypeOK, RowsExist, [Next]_vars
  PROVE  \A a \in Approval : Forward(a)
<1> SUFFICES ASSUME NEW a \in Approval PROVE Forward(a)
  OBVIOUS
<1> USE ConstantsAssumption DEF Forward, TypeOK, Decided, Approval
<1>1. ASSUME NEW t \in Tool, PersistRow(t) PROVE Forward(a)
  BY <1>1 DEF PersistRow, RowsExist
<1>2. ASSUME NEW t \in Tool, CloseRow(t) PROVE Forward(a)
  BY <1>2 DEF CloseRow, Closing
<1>3. ASSUME NEW p \in Proposal, File(p) PROVE Forward(a)
  BY <1>3 DEF File
<1>4. ASSUME NEW r \in Request, Commit(r) PROVE Forward(a)
  BY <1>4 DEF Commit, Verdict
<1>5. CASE SweepExecute \/ SweepReject
  BY <1>5 DEF SweepExecute, SweepReject
<1>6. ASSUME UNCHANGED status PROVE Forward(a)
  BY <1>6
<1> QED
  BY <1>1, <1>2, <1>3, <1>4, <1>5, <1>6
     DEF Next, Callback, Decider, Sweep, Environment, vars, rowVars,
         PersistFails, Register, Wake, TimeOut, Unpark, ReRead, CloseFails,
         CancelFrame, CancelRows, Answer, Decide, Notify, SweepStart, SweepPick,
         SweepDispatchFails, SweepReload, SweepFails, Disconnect, Expire, Crash,
         WorkerCrash, Request

\* A step that moves only callbacks and rows, an answer or a run never out of nothing,
\* and nobody back before its registration, keeps the strengthening.
LEMMA OnlyCallbacksMove ==
  ASSUME TypeOK, Inductive, \A a \in Approval : Forward(a),
         UNCHANGED <<deciderVars, history>>,
         \A t \in Tool :
            /\ callback'[t] = "idle" => callback[t] = "idle" /\ status'[t] = status[t]
            /\ entry'[t] # "none" => callback'[t] = "parked"
            /\ entry'[t] = "yes" \/ answer'[t] = "yes" \/ t \in executed' =>
                  entry[t] = "yes" \/ answer[t] = "yes" \/ t \in executed
            /\ \/ callback'[t] \in {"idle", "persisted"}
               \/ callback'[t] = "parked" /\ entry'[t] = "open"
               => \/ callback[t] \in {"idle", "persisted"}
                  \/ callback'[t] = "parked" /\ callback[t] = "parked" /\ entry[t] = "open"
  PROVE  Inductive'
<1> USE ConstantsAssumption DEF Forward, Approval, deciderVars, history, Inductive, TypeOK
<1>1. RowsExist'
  BY DEF RowsExist
<1>2. WakesDecided'
  BY DEF WakesDecided
<1>3. EntryMeansParked'
  BY DEF EntryMeansParked
<1>4. YesBacked'
  BY DEF YesBacked
<1>5. LandedWakes'
  BY DEF LandedWakes
<1> QED
  BY <1>1, <1>2, <1>3, <1>4, <1>5

\* A step that moves only rows and the sweep keeps the strengthening, if the sweep
\* takes up nothing but rows it held and pending ones.
LEMMA OnlyRowsMove ==
  ASSUME TypeOK, Inductive, \A a \in Approval : Forward(a),
         UNCHANGED <<waitVars, txn, history>>,
         \A t \in Tool : status[t] = "none" => status'[t] = "none",
         sweep'.todo \cup sweep'.hand \subseteq sweep.todo \cup sweep.hand \cup Pending
  PROVE  Inductive'
<1> USE ConstantsAssumption DEF Forward, Approval, waitVars, history, Inductive, TypeOK
<1>1. RowsExist'
  BY DEF RowsExist, Pending
<1>2. WakesDecided'
  BY DEF WakesDecided
<1>3. EntryMeansParked'
  BY DEF EntryMeansParked
<1>4. YesBacked'
  BY DEF YesBacked
<1>5. LandedWakes'
  BY DEF LandedWakes
<1> QED
  BY <1>1, <1>2, <1>3, <1>4, <1>5

\* Every step keeps the strengthening.
LEMMA NextInductive == TypeOK /\ Inductive /\ [Next]_vars => Inductive'
<1> SUFFICES ASSUME TypeOK, Inductive, [Next]_vars, TypeOK' PROVE Inductive'
  BY NextTyped
<1>0. \A a \in Approval : Forward(a)
  BY RowsMoveForward DEF Inductive
<1> USE <1>0, ConstantsAssumption DEF Forward, TypeOK
<1>1. ASSUME NEW t \in Tool, Callback(t) PROVE Inductive'
  <2> USE <1>1 DEF rowVars, deciderVars, history, Inductive
  <2>1. CASE PersistRow(t)
    BY <2>1, OnlyCallbacksMove DEF PersistRow, EntryMeansParked
  <2>2. CASE PersistFails(t)
    BY <2>2, OnlyCallbacksMove DEF PersistFails, EntryMeansParked
  <2>3. CASE Register(t)
    BY <2>3, OnlyCallbacksMove DEF Register, EntryMeansParked
  <2>4. CASE Wake(t)
    BY <2>4, OnlyCallbacksMove DEF Wake, Unpark, EntryMeansParked
  <2>5. CASE TimeOut(t)
    BY <2>5, OnlyCallbacksMove DEF TimeOut, Unpark, EntryMeansParked
  <2>6. CASE ReRead(t)
    BY <2>6, OnlyCallbacksMove DEF ReRead, Return, EntryMeansParked
  <2>7. CASE CloseRow(t)
    BY <2>7, OnlyCallbacksMove DEF CloseRow, Return, EntryMeansParked
  <2>8. CASE CloseFails(t)
    BY <2>8, OnlyCallbacksMove DEF CloseFails, Return, EntryMeansParked
  <2> QED
    BY <2>1, <2>2, <2>3, <2>4, <2>5, <2>6, <2>7, <2>8 DEF Callback
<1>2. ASSUME NEW k \in Socket, CancelFrame(k) PROVE Inductive'
  <2>1. RowsExist'
    BY <1>2 DEF CancelFrame, Kill, Begin, rowVars, history,
      Inductive, RowsExist, Approval, Request
  <2>2. WakesDecided'
    BY <1>2 DEF CancelFrame, Kill, Begin, rowVars, history,
      Inductive, WakesDecided, Request
  <2>3. YesBacked'
    BY <1>2 DEF CancelFrame, Kill, Begin, rowVars, history,
      Inductive, YesBacked, Approval
  <2>4. LandedWakes'
    BY <1>2 DEF CancelFrame, Kill, Begin, rowVars, history,
      Inductive, LandedWakes, Approval, Request
  <2>5. EntryMeansParked'
    BY <1>2 DEF CancelFrame, Kill, Begin, rowVars, history,
      Inductive, EntryMeansParked, Live
  <2> QED
    BY <2>1, <2>2, <2>3, <2>4, <2>5 DEF Inductive
<1>3. ASSUME NEW k \in Socket, CancelRows(k) PROVE Inductive'
  <2>1. RowsExist'
    <3>1. PICK scope \in {Tool, {t \in Tool : Owner[t] = k}} :
            txn' = IF Pending \cap scope = {}
                     THEN [txn EXCEPT ![k] = Idle]
                     ELSE [txn EXCEPT ![k] = [pc |-> "open", via |-> "ws", op |-> "cancel",
                                              rows |-> Pending \cap scope,
                                              wake |-> Pending \cap scope]]
      BY <1>3 DEF CancelRows, Begin
    <3>2. \A r \in Request : txn'[r].rows \subseteq txn[r].rows \cup Pending
      BY <3>1 DEF Idle, Request
    <3> QED
      BY <1>3, <3>2 DEF CancelRows, Pending, rowVars, waitVars, Inductive, RowsExist
  <2>2. WakesDecided'
    <3>1. PICK scope \in {Tool, {t \in Tool : Owner[t] = k}} :
            txn' = IF Pending \cap scope = {}
                     THEN [txn EXCEPT ![k] = Idle]
                     ELSE [txn EXCEPT ![k] = [pc |-> "open", via |-> "ws", op |-> "cancel",
                                              rows |-> Pending \cap scope,
                                              wake |-> Pending \cap scope]]
      BY <1>3 DEF CancelRows, Begin
    <3>2. \A r \in Request : r # k => txn'[r] = txn[r]
      BY <3>1
    <3>3. \/ txn'[k].wake = {} /\ txn'[k].pc # "open"
          \/ txn'[k].pc = "open" /\ txn'[k].rows = txn'[k].wake
      BY <3>1 DEF Idle, Request
    <3> QED
      BY <1>3, <3>2, <3>3 DEF CancelRows, rowVars, Inductive, WakesDecided
  <2>3. YesBacked'
    BY <1>3 DEF CancelRows, Begin, Idle, Pending, rowVars, waitVars, history,
      Inductive, YesBacked, Approval
  <2>4. LandedWakes'
    BY <1>3, SMTT(20) DEF CancelRows, Begin, Idle, Pending, rowVars, waitVars, history,
      Inductive, LandedWakes, Approval, Request
  <2>5. EntryMeansParked'
    BY <1>3 DEF CancelRows, Begin, Idle, Pending, rowVars, waitVars, history,
      Inductive, EntryMeansParked
  <2> QED
    BY <2>1, <2>2, <2>3, <2>4, <2>5 DEF Inductive
<1>4. ASSUME NEW k \in Socket, NEW a \in Approval, NEW op \in {"approve", "deny"},
             Answer(k, a, op)
      PROVE  Inductive'
  <2>1. RowsExist'
    BY <1>4 DEF Answer, Begin, Pending, rowVars, waitVars, history,
      Inductive, RowsExist, Approval, Request, Decided, Status
  <2>2. WakesDecided'
    BY <1>4 DEF Answer, Begin, Pending, rowVars, waitVars, history,
      Inductive, WakesDecided, Request, Decided, Status
  <2>3. YesBacked'
    BY <1>4 DEF Answer, Begin, Pending, rowVars, waitVars, history,
      Inductive, YesBacked, Approval, Decided, Status
  <2>4. LandedWakes'
    BY <1>4 DEF Answer, Begin, Pending, rowVars, waitVars, history,
      Inductive, LandedWakes, Approval, Request, Decided, Status
  <2>5. EntryMeansParked'
    BY <1>4 DEF Answer, Begin, Pending, rowVars, waitVars, history,
      Inductive, EntryMeansParked, Decided, Status
  <2> QED
    BY <2>1, <2>2, <2>3, <2>4, <2>5 DEF Inductive
<1>5. ASSUME NEW r \in Rest, NEW B \in Batches, NEW op \in {"approve", "deny"},
             Decide(r, B, op)
      PROVE  Inductive'
  <2>1. RowsExist'
    BY <1>5 DEF Decide, Begin, Pending, rowVars, waitVars, history,
      Inductive, RowsExist, Approval, Request
  <2>2. WakesDecided'
    BY <1>5 DEF Decide, Begin, Pending, rowVars, waitVars, history,
      Inductive, WakesDecided, Request
  <2>3. YesBacked'
    BY <1>5 DEF Decide, Begin, Pending, rowVars, waitVars, history,
      Inductive, YesBacked, Approval
  <2>4. LandedWakes'
    BY <1>5 DEF Decide, Begin, Pending, rowVars, waitVars, history,
      Inductive, LandedWakes, Approval, Request
  <2>5. EntryMeansParked'
    BY <1>5 DEF Decide, Begin, Pending, rowVars, waitVars, history,
      Inductive, EntryMeansParked
  <2> QED
    BY <2>1, <2>2, <2>3, <2>4, <2>5 DEF Inductive
<1>6. ASSUME NEW r \in Request, Commit(r) PROVE Inductive'
  <2>1. RowsExist'
    BY <1>6 DEF Commit, Fallible, Idle, Verdict, waitVars,
      Inductive, RowsExist, Approval, Request, Decided, Status
  <2>2. WakesDecided'
    BY <1>6 DEF Commit, Fallible, Idle, Verdict, waitVars,
      Inductive, WakesDecided, Request, Decided, Status
  <2>3. YesBacked'
    BY <1>6 DEF Commit, Fallible, Idle, Verdict, waitVars,
      Inductive, YesBacked, WakesDecided, Approval, Decided, Status
  <2>4. LandedWakes'
    <3> SUFFICES ASSUME NEW t \in landed'
                 PROVE  /\ callback[t] \notin {"idle", "persisted"}
                        /\ callback[t] = "parked" /\ entry[t] = "open" =>
                             \E q \in Request : /\ At[q] = Home(t)
                                                /\ txn'[q].pc = "wake"
                                                /\ t \in txn'[q].wake
      BY <1>6 DEF LandedWakes, Commit, waitVars
    <3>1. PICK failed \in SUBSET Fallible(txn[r]) :
            /\ landed' = landed \cup {u \in (txn[r].rows \ failed) \cap Tool :
                                        entry[u] = "open" /\ Home(u) = At[r]}
            /\ txn' = [txn EXCEPT ![r] = IF txn[r].wake \ failed = {} THEN Idle
                           ELSE [@ EXCEPT !.pc = "wake", !.wake = txn[r].wake \ failed]]
      BY <1>6 DEF Commit
    <3>2. CASE t \in landed
      <4>1. \A q \in Request : txn[q].pc = "wake" => txn'[q] = txn[q]
        BY <1>6, <3>1 DEF Commit
      <4> QED
        BY <3>2, <4>1 DEF Inductive, LandedWakes
    <3>3. CASE t \notin landed
      <4>1. t \in (txn[r].rows \ failed) /\ t \in Tool /\ entry[t] = "open" /\ Home(t) = At[r]
        BY <3>1, <3>3
      <4>2. callback[t] = "parked"
        BY <4>1 DEF Inductive, EntryMeansParked
      <4>3. t \in txn[r].wake \ failed
        BY <1>6, <4>1 DEF Inductive, WakesDecided, Commit
      <4>4. txn'[r].pc = "wake" /\ t \in txn'[r].wake
        BY <3>1, <4>3
      <4> QED
        BY <4>1, <4>2, <4>4
    <3> QED
      BY <3>2, <3>3
  <2>5. EntryMeansParked'
    BY <1>6 DEF Commit, Fallible, Idle, Verdict, waitVars,
      Inductive, EntryMeansParked, Decided, Status
  <2> QED
    BY <2>1, <2>2, <2>3, <2>4, <2>5 DEF Inductive
<1>7. ASSUME NEW r \in Request, NEW a \in Approval, Notify(r, a) PROVE Inductive'
  <2>1. RowsExist'
    BY <1>7 DEF Notify, Idle, rowVars,
      Inductive, RowsExist, Approval, Request
  <2>2. WakesDecided'
    BY <1>7 DEF Notify, Idle, rowVars,
      Inductive, WakesDecided, Request
  <2>3. YesBacked'
    BY <1>7 DEF Notify, Idle, rowVars,
      Inductive, YesBacked, WakesDecided, Approval
  <2>4. LandedWakes'
    BY <1>7 DEF Notify, Idle, rowVars,
      Inductive, LandedWakes, Approval, Request
  <2>5. EntryMeansParked'
    BY <1>7 DEF Notify, Idle, rowVars,
      Inductive, EntryMeansParked
  <2> QED
    BY <2>1, <2>2, <2>3, <2>4, <2>5 DEF Inductive
<1>8. ASSUME Sweep PROVE Inductive'
  <2> USE <1>8 DEF rowVars, waitVars, history
  <2>1. CASE SweepStart
    BY <2>1, OnlyRowsMove DEF SweepStart
  <2>2. ASSUME NEW a \in Approval, SweepPick(a) PROVE Inductive'
    BY <2>2, OnlyRowsMove DEF SweepPick
  <2>3. SweepNext => sweep'.todo \cup sweep'.hand \subseteq sweep.todo \cup sweep.hand
    BY DEF SweepNext, NoSweep
  <2>4. \A t \in Tool : t \in sweep.hand => status[t] # "none"
    BY DEF Inductive, RowsExist
  <2>5. CASE SweepExecute
    BY <2>3, <2>4, <2>5, OnlyRowsMove DEF SweepExecute, Approval
  <2>6. CASE SweepDispatchFails
    BY <2>6, OnlyRowsMove DEF SweepDispatchFails
  <2>7. CASE SweepReload
    BY <2>3, <2>7, OnlyRowsMove DEF SweepReload
  <2>8. CASE SweepReject
    BY <2>3, <2>4, <2>8, OnlyRowsMove DEF SweepReject, Approval
  <2>9. CASE SweepFails
    BY <2>3, <2>9, OnlyRowsMove DEF SweepFails
  <2> QED
    BY <2>1, <2>2, <2>5, <2>6, <2>7, <2>8, <2>9 DEF Sweep
<1>9. ASSUME NEW k \in Socket, Disconnect(k) PROVE Inductive'
  BY <1>9, OnlyCallbacksMove
     DEF Disconnect, Kill, rowVars, deciderVars, history, Inductive, EntryMeansParked
<1>10. ASSUME NEW p \in Proposal, File(p) PROVE Inductive'
  BY <1>10, OnlyRowsMove DEF File, deciderVars, waitVars, history
<1>11. ASSUME NEW a \in Approval, Expire(a) PROVE Inductive'
  BY <1>11, OnlyRowsMove DEF Expire, rowVars, deciderVars, waitVars, history
<1>12. CASE WorkerCrash
  BY <1>12, OnlyRowsMove DEF WorkerCrash, NoSweep, rowVars, waitVars, history
<1>13. ASSUME NEW p \in Proc, Crash(p) PROVE Inductive'
  <2>1. RowsExist'
    BY <1>13 DEF Crash, Kill, Idle, rowVars, history,
      Inductive, RowsExist, Approval, Request
  <2>2. WakesDecided'
    BY <1>13 DEF Crash, Kill, Idle, rowVars, history,
      Inductive, WakesDecided, Request
  <2>3. YesBacked'
    BY <1>13 DEF Crash, Kill, Idle, rowVars, history,
      Inductive, YesBacked, Approval
  <2>4. LandedWakes'
    <3> SUFFICES ASSUME NEW t \in landed, callback'[t] = "parked", entry'[t] = "open"
                 PROVE  \E q \in Request : /\ At[q] = Home(t)
                                           /\ txn'[q].pc = "wake"
                                           /\ t \in txn'[q].wake
      BY <1>13 DEF LandedWakes, Inductive, Crash, Kill, history, Live
    <3>1. callback[t] = "parked" /\ entry[t] = "open" /\ Home(t) # p
      BY <1>13 DEF Crash, Kill, Live
    <3>2. PICK q \in Request : At[q] = Home(t) /\ txn[q].pc = "wake" /\ t \in txn[q].wake
      BY <3>1 DEF Inductive, LandedWakes
    <3>3. txn'[q] = txn[q]
      BY <1>13, <3>1, <3>2 DEF Crash
    <3> QED
      BY <3>2, <3>3
  <2>5. EntryMeansParked'
    BY <1>13 DEF Crash, Kill, Idle, rowVars, history,
      Inductive, EntryMeansParked, Live
  <2> QED
    BY <2>1, <2>2, <2>3, <2>4, <2>5 DEF Inductive
<1>14. CASE UNCHANGED vars
  BY <1>14, OnlyRowsMove DEF vars, waitVars, history
<1> QED
  BY <1>1, <1>2, <1>3, <1>4, <1>5, <1>6, <1>7, <1>8, <1>9, <1>10, <1>11, <1>12, <1>13, <1>14
     DEF Next, Decider, Environment

\* Types and strengthening are invariants.
LEMMA InvariantHolds == Spec => [](TypeOK /\ Inductive)
<1>1. Init => TypeOK /\ Inductive
  BY InitTyped, InitInductive
<1>2. TypeOK /\ Inductive /\ [Next]_vars => (TypeOK /\ Inductive)'
  BY NextTyped, NextInductive
<1> QED
  BY <1>1, <1>2, PTL DEF Spec

\* A tool runs only after an approval reached its process's manager and its row was
\* committed and decided, whatever the deciders, the sweep and crashes do.
THEOREM RunsOnlyAfterApprovalHolds == Spec => []RunsOnlyAfterApproval
<1>1. TypeOK /\ Inductive => RunsOnlyAfterApproval
  BY DEF TypeOK, Inductive, YesBacked, RunsOnlyAfterApproval
<1> QED
  BY <1>1, InvariantHolds, PTL

\* A decision committed in the process where the tool is parked always wakes it.
THEOREM NoLostWakeupHolds == Spec => []NoLostWakeup
<1>1. Inductive => NoLostWakeup
  BY DEF Inductive, LandedWakes, NoLostWakeup
<1> QED
  BY <1>1, InvariantHolds, PTL

\* No step of anybody puts a decided row back to pending.
THEOREM NeverReopenedHolds == Spec => NeverReopened
<1>1. TypeOK /\ Inductive /\ [Next]_vars =>
        \A a \in Approval : status[a] \in Decided => status'[a] \in Decided
  BY RowsMoveForward DEF Inductive, Forward
<1>2. Spec => [][\A a \in Approval : status[a] \in Decided => status'[a] \in Decided]_vars
  BY <1>1, InvariantHolds, PTL DEF Spec
<1> QED
  BY <1>2 DEF NeverReopened
-----------------------------------------------------------------------------
(* Cancellation, with one chat connection.                                 *)

\* How a step may move a tool, a cancelling request and a row to "cancelled".
CancelStep(t) ==
    /\ t \in executed' => t \in executed \/ callback[t] \in Live
    /\ callback'[t] = "idle" => callback[t] = "idle"
    /\ callback'[t] \in Live =>
          callback[t] \in Live \/ (callback[t] = "idle" /\ txn[Owner[t]].op # "cancel" /\ txn' = txn)
    /\ \A r \in Request : txn'[r].op = "cancel" =>
          \/ txn[r].op = "cancel" /\ txn'[r].rows \subseteq txn[r].rows \cup Pending
          \/ r \in Socket /\ txn'[r].rows = {} /\ (Owner[t] = r => callback'[t] \notin Live)
    /\ status'[t] = "cancelled" =>
          status[t] = "cancelled" \/ \E r \in Request : txn[r].op = "cancel" /\ t \in txn[r].rows

Stopped == \A r \in Request : /\ txn[r].pc = "stopped" => txn[r].op = "cancel"
                              /\ txn[r].op = "cancel" => r \in Socket

\* Only the handler of a cancel frame is ever waiting for a stopped turn.
LEMMA StoppedKept ==
  ASSUME TypeOK, Stopped, [Next]_vars
  PROVE  Stopped'
<1> USE ConstantsAssumption DEF TypeOK, Stopped, Request
<1>1. ASSUME NEW k \in Socket, CancelFrame(k) PROVE Stopped'
  BY <1>1 DEF CancelFrame, Begin
<1>2. ASSUME NEW k \in Socket, CancelRows(k) PROVE Stopped'
  <2>1. PICK rows \in SUBSET Pending :
          \/ txn' = [txn EXCEPT ![k] = Idle]
          \/ txn' = [txn EXCEPT ![k] = [pc |-> "open", via |-> "ws", op |-> "cancel",
                                       rows |-> rows, wake |-> rows]]
    BY <1>2 DEF CancelRows, Begin
  <2>2. txn'[k].pc # "stopped" /\ \A r \in Request \ {k} : txn'[r] = txn[r]
    BY <2>1 DEF Idle
  <2> QED  BY <2>2
<1>3. ASSUME NEW k \in Socket, NEW a \in Approval, NEW op \in {"approve", "deny"},
             Answer(k, a, op)
      PROVE  Stopped'
  BY <1>3 DEF Answer, Begin
<1>4. ASSUME NEW r \in Rest, NEW B \in Batches, NEW op \in {"approve", "deny"}, Decide(r, B, op)
      PROVE  Stopped'
  BY <1>4 DEF Decide, Begin
<1>5. ASSUME NEW r \in Request, Commit(r) PROVE Stopped'
  BY <1>5 DEF Commit, Idle
<1>6. ASSUME NEW r \in Request, NEW a \in Approval, Notify(r, a) PROVE Stopped'
  BY <1>6 DEF Notify, Idle
<1>7. ASSUME NEW p \in Proc, Crash(p) PROVE Stopped'
  BY <1>7 DEF Crash, Idle
<1>8. CASE UNCHANGED txn
  BY <1>8
<1> QED
  BY <1>1, <1>2, <1>3, <1>4, <1>5, <1>6, <1>7, <1>8
     DEF Next, Decider, Callback, PersistRow, PersistFails, Register, Wake, TimeOut, Unpark,
         ReRead, CloseRow, CloseFails, deciderVars, Sweep, SweepStart, SweepPick, SweepExecute,
         SweepDispatchFails, SweepReload, SweepReject, SweepFails, Environment, Disconnect,
         File, Expire, WorkerCrash, vars

\* Every step treats the row of t and its callback as CancelStep says.
LEMMA CancelSteps ==
  ASSUME TypeOK, [Next]_vars, NEW t \in Tool,
         Stopped
  PROVE  CancelStep(t)
<1> USE ConstantsAssumption DEF CancelStep, TypeOK, Live, Decided, Status, Approval, Request
<1>1. ASSUME NEW u \in Tool, Callback(u) PROVE CancelStep(t)
  <2> USE DEF rowVars, deciderVars
  <2>1. CASE PersistRow(u)    BY <2>1 DEF PersistRow
  <2>2. CASE PersistFails(u)  BY <2>2 DEF PersistFails
  <2>3. CASE Register(u)      BY <2>3 DEF Register
  <2>4. CASE Wake(u)          BY <2>4 DEF Wake, Unpark
  <2>5. CASE TimeOut(u)       BY <2>5 DEF TimeOut, Unpark
  <2>6. CASE ReRead(u)        BY <2>6 DEF ReRead, Return
  <2>7. CASE CloseRow(u)      BY <2>7 DEF CloseRow, Return, Closing
  <2>8. CASE CloseFails(u)    BY <2>8 DEF CloseFails, Return
  <2> QED
    BY <1>1, <2>1, <2>2, <2>3, <2>4, <2>5, <2>6, <2>7, <2>8 DEF Callback
<1>2. ASSUME NEW k \in Socket, CancelFrame(k) PROVE CancelStep(t)
  BY <1>2 DEF CancelFrame, Kill, Begin, Turn, rowVars
<1>3. ASSUME NEW k \in Socket, CancelRows(k) PROVE CancelStep(t)
  <2>1. /\ txn[k].pc = "stopped"
        /\ UNCHANGED <<waitVars, rowVars>>
    BY <1>3 DEF CancelRows
  <2>2. PICK rows \in SUBSET Pending :
          \/ txn' = [txn EXCEPT ![k] = Idle]
          \/ txn' = [txn EXCEPT ![k] = [pc |-> "open", via |-> "ws", op |-> "cancel",
                                       rows |-> rows, wake |-> rows]]
    BY <1>3 DEF CancelRows, Begin
  <2>3. \A r \in Request : txn'[r].op = "cancel" =>
          txn[r].op = "cancel" /\ txn'[r].rows \subseteq txn[r].rows \cup Pending
    <3>1. CASE txn' = [txn EXCEPT ![k] = Idle]
      BY <3>1 DEF Idle
    <3>2. CASE txn' = [txn EXCEPT ![k] = [pc |-> "open", via |-> "ws", op |-> "cancel",
                                        rows |-> rows, wake |-> rows]]
      <4>1. txn[k].op = "cancel"
        BY <2>1 DEF Stopped
      <4>2. txn'[k].rows = rows
        BY <3>2
      <4>3. \A r \in Request \ {k} : txn'[r] = txn[r]
        BY <3>2
      <4> QED  BY <4>1, <4>2, <4>3
    <3> QED  BY <2>2, <3>1, <3>2
  <2> QED  BY <2>1, <2>3 DEF waitVars, rowVars
<1>4. ASSUME NEW k \in Socket, NEW a \in Approval, NEW op \in {"approve", "deny"},
             Answer(k, a, op)
      PROVE  CancelStep(t)
  BY <1>4 DEF Answer, Begin, waitVars, rowVars
<1>5. ASSUME NEW r \in Rest, NEW B \in Batches, NEW op \in {"approve", "deny"}, Decide(r, B, op)
      PROVE  CancelStep(t)
  BY <1>5 DEF Decide, Begin, waitVars, rowVars
<1>6. ASSUME NEW r \in Request, Commit(r) PROVE CancelStep(t)
  BY <1>6 DEF Commit, Verdict, Idle, waitVars
<1>7. ASSUME NEW r \in Request, NEW a \in Approval, Notify(r, a) PROVE CancelStep(t)
  BY <1>7 DEF Notify, Idle, rowVars
<1>8. CASE Sweep
  BY <1>8 DEF Sweep, SweepStart, SweepPick, SweepExecute, SweepDispatchFails, SweepReload,
              SweepReject, SweepFails, waitVars, rowVars
<1>9. CASE Environment
  BY <1>9 DEF Environment, Disconnect, Kill, Turn, File, Expire, Crash, Idle, WorkerCrash,
              waitVars, rowVars, deciderVars
<1>10. CASE UNCHANGED vars
  BY <1>10 DEF vars
<1> QED
  BY <1>1, <1>2, <1>3, <1>4, <1>5, <1>6, <1>7, <1>8, <1>9, <1>10 DEF Next, Decider

\* With one chat connection, what a cancel has decided stays dead.
LEMMA CancelsDeadKept ==
  ASSUME NEW k, Socket = {k}
  PROVE  TypeOK /\ Inductive /\ CancelsDead /\ [Next]_vars => CancelsDead'
<1> SUFFICES ASSUME TypeOK, Inductive, CancelsDead, [Next]_vars
             PROVE  CancelsDead'
  OBVIOUS
<1>1. \A t \in Tool : CancelStep(t)
  BY CancelSteps DEF CancelsDead, Stopped
<1>2. \A t \in Tool : Owner[t] = k
  BY ConstantsAssumption
<1>3. \A t \in Tool : status[t] = "pending" => t \notin executed /\ callback[t] # "idle"
  BY DEF Inductive, RowsExist, YesBacked, Decided
<1>4. ASSUME NEW r \in Request, txn'[r].op = "cancel", NEW t \in Tool
      PROVE  /\ callback'[t] \notin Live
             /\ t \in txn'[r].rows => t \notin executed' /\ callback'[t] # "idle"
  <2>1. CASE txn[r].op = "cancel" /\ txn'[r].rows \subseteq txn[r].rows \cup Pending
    <3>1. r = k /\ callback[t] \notin Live
      BY <1>2, <2>1 DEF CancelsDead
    <3>2. callback'[t] \notin Live
      BY <1>1, <1>2, <2>1, <3>1 DEF CancelStep
    <3>3. t \in txn[r].rows \cup Pending => t \notin executed /\ callback[t] # "idle"
      BY <1>3, <2>1 DEF CancelsDead, Pending
    <3> QED  BY <1>1, <2>1, <3>1, <3>2, <3>3 DEF CancelStep
  <2>2. CASE r \in Socket /\ txn'[r].rows = {} /\ (Owner[t] = r => callback'[t] \notin Live)
    BY <1>2, <2>2
  <2> QED  BY <1>1, <1>4, <2>1, <2>2 DEF CancelStep
<1>5. ASSUME NEW t \in Tool, status'[t] = "cancelled"
      PROVE  t \notin executed' /\ callback'[t] \notin Live \cup {"idle"}
  <2>1. t \notin executed /\ callback[t] \notin Live \cup {"idle"}
    <3>1. CASE status[t] = "cancelled"
      BY <3>1 DEF CancelsDead
    <3>2. CASE \E r \in Request : txn[r].op = "cancel" /\ t \in txn[r].rows
      BY <1>2, <3>2 DEF CancelsDead
    <3> QED  BY <1>1, <1>5, <3>1, <3>2 DEF CancelStep
  <2> QED  BY <1>1, <2>1 DEF CancelStep
<1>6. \A r \in Request : txn'[r].op = "cancel" =>
         /\ \A t \in Tool : Owner[t] = r => callback'[t] \notin Live
         /\ \A t \in Tool \cap txn'[r].rows : t \notin executed' /\ callback'[t] # "idle"
  BY <1>4
<1>7. Stopped'
  BY StoppedKept DEF Stopped, CancelsDead
<1>8. /\ \A r \in Request : /\ txn'[r].pc = "stopped" => txn'[r].op = "cancel"
                            /\ txn'[r].op = "cancel" => r \in Socket
      /\ \A t \in Tool : status'[t] = "cancelled" =>
            t \notin executed' /\ callback'[t] \notin Live \cup {"idle"}
  BY <1>5, <1>7 DEF Stopped
<1> QED  BY <1>6, <1>8, Zenon DEF CancelsDead

\* In a session with one chat connection a tool whose row was cancelled never ran and
\* never will, however the cancel crosses approvals, timeouts and crashes.
THEOREM CancelledNeverRunsHolds ==
  ASSUME NEW k, Socket = {k}
  PROVE  Spec => []CancelledNeverRuns
<1>1. Init => CancelsDead
  BY DEF Init, CancelsDead, Idle, Approval
<1>2. TypeOK /\ CancelsDead => CancelledNeverRuns
  BY DEF CancelsDead, CancelledNeverRuns, TypeOK
<1> QED
  BY <1>1, <1>2, InvariantHolds, CancelsDeadKept, PTL DEF Spec
-----------------------------------------------------------------------------
(* The gate.                                                               *)

\* What ran was let through by a callback that has returned, and does not ask again.
RanMeansReturned == \A t \in executed : callback[t] = "returned"

\* How one tool may go on.
GateStep(t) ==
    \/ callback'[t] = callback[t] /\ (t \in executed' <=> t \in executed)
    \/ /\ callback[t] \in Live /\ callback'[t] \in Live \cup {"returned", "dead"}
       /\ t \notin executed
       /\ t \in executed' => callback'[t] = "returned"
    \/ callback[t] = "idle" /\ callback'[t] = "persisted" /\ t \notin executed'

\* Others than t stay where they are.
OnlyMoves(t) ==
    \A u \in Tool \ {t} : callback'[u] = callback[u] /\ (u \in executed' <=> u \in executed)

\* Steps that move callbacks as GateStep says keep what ran behind its return.
LEMMA RanKept ==
  ASSUME RanMeansReturned, \A t \in Tool : GateStep(t), executed' \subseteq Tool
  PROVE  RanMeansReturned'
BY DEF RanMeansReturned, GateStep, Live

\* Callbacks that are killed were live.
LEMMA KillSteps ==
  ASSUME TypeOK, RanMeansReturned, NEW T \in SUBSET Tool, Kill(T), UNCHANGED executed,
         \A t \in T : callback[t] \in Live
  PROVE  \A t \in Tool : /\ GateStep(t)
                         /\ t \in T => callback'[t] = "dead"
                         /\ t \notin T => callback'[t] = callback[t]
BY DEF Kill, GateStep, RanMeansReturned, Live

\* A step of t's callback.
LEMMA CallbackSteps ==
  ASSUME TypeOK, RanMeansReturned, NEW t \in Tool, Callback(t)
  PROVE  GateStep(t) /\ OnlyMoves(t) /\ UNCHANGED yes
<1> USE DEF TypeOK, RanMeansReturned, GateStep, OnlyMoves, history, Live
<1>1. CASE PersistRow(t)    BY <1>1 DEF PersistRow
<1>2. CASE PersistFails(t)  BY <1>2 DEF PersistFails
<1>3. CASE Register(t)      BY <1>3 DEF Register
<1>4. CASE Wake(t)          BY <1>4 DEF Wake, Unpark
<1>5. CASE TimeOut(t)       BY <1>5 DEF TimeOut, Unpark
<1>6. CASE ReRead(t)        BY <1>6 DEF ReRead, Return
<1>7. CASE CloseRow(t)      BY <1>7 DEF CloseRow, Return
<1>8. CASE CloseFails(t)    BY <1>8 DEF CloseFails, Return
<1> QED
  BY <1>1, <1>2, <1>3, <1>4, <1>5, <1>6, <1>7, <1>8 DEF Callback

\* Some calls move from one place to another.
LEMMA GateMoves ==
  ASSUME NEW T \in SUBSET Tool, T # {}, NEW from, NEW to, UNCHANGED yes,
         \A t \in T : Place(t) = from /\ Place(t)' = to,
         \A t \in Tool \ T : Place(t)' = Place(t)
  PROVE  Gate!Move(T, {from}, to)
BY DEF Gate!Move, gateBar

\* A step that moves no call and adds no vote is a stutter of the gate.
LEMMA GateStays ==
  ASSUME UNCHANGED yes, \A t \in Tool : Place(t)' = Place(t)
  PROVE  UNCHANGED Gate!gateVars
BY DEF Gate!gateVars, gateBar

\* Calls that are cancelled are abandoned.
LEMMA KillMaps ==
  ASSUME TypeOK, RanMeansReturned, NEW T \in SUBSET Tool, Kill(T), UNCHANGED <<executed, yes>>,
         \A t \in T : callback[t] \in Live
  PROVE  Gate!GateNext \/ UNCHANGED Gate!gateVars
<1>1. \A t \in T : Place(t) = "asked" /\ Place(t)' = "abandoned"
  BY KillSteps DEF Place, Live
<1>2. \A t \in Tool \ T : Place(t)' = Place(t)
  BY KillSteps DEF Place, Live
<1>3. CASE T = {}
  BY <1>2, <1>3, GateStays
<1>4. CASE T # {}
  BY <1>1, <1>2, <1>4, GateMoves DEF Gate!Abandon, Gate!GateNext
<1> QED  BY <1>3, <1>4

\* A step of a callback asks, is answered, or goes unnoticed.
LEMMA CallbackMaps ==
  ASSUME TypeOK, Inductive, Inductive', RanMeansReturned, NEW t \in Tool, Callback(t)
  PROVE  Gate!GateNext \/ UNCHANGED Gate!gateVars
<1>1. GateStep(t) /\ OnlyMoves(t) /\ UNCHANGED yes
  BY CallbackSteps
<1>2. \A u \in Tool \ {t} : Place(u)' = Place(u)
  BY <1>1 DEF OnlyMoves, Place
<1>3. CASE Place(t)' = Place(t)
  BY <1>1, <1>2, <1>3, GateStays
<1>4. CASE callback[t] = "idle" /\ callback'[t] = "persisted"
  <2>1. Place(t) = "unasked" /\ Place(t)' = "asked"
    BY <1>4 DEF Place, Live
  <2> QED
    BY <1>1, <1>2, <2>1, GateMoves DEF Gate!Ask, Gate!GateNext
<1>5. CASE callback[t] \in Live /\ callback'[t] = "returned"
  <2>1. Place(t) = "asked"
    BY <1>5 DEF Place, Live
  <2>2. CASE t \in executed'
    <3>1. Place(t)' = "allowed"
      BY <1>5, <2>2 DEF Place, Live
    <3>2. t \in yes
      BY <1>1, <2>2 DEF Inductive, YesBacked
    <3> QED
      BY <1>1, <1>2, <2>1, <3>1, <3>2, GateMoves DEF Gate!Allow, Gate!GateNext
  <2>3. CASE t \notin executed'
    <3>1. Place(t)' = "blocked"
      BY <1>5, <2>3 DEF Place, Live
    <3> QED
      BY <1>1, <1>2, <2>1, <3>1, GateMoves DEF Gate!Block, Gate!GateNext
  <2> QED  BY <2>2, <2>3
<1>6. CASE callback[t] \in Live /\ callback'[t] = "dead"
  <2>1. Place(t) = "asked" /\ Place(t)' = "abandoned"
    BY <1>6 DEF Place, Live
  <2>2. Gate!Abandon({t})
    BY <1>1, <1>2, <2>1, GateMoves DEF Gate!Abandon
  <2> QED  BY <2>2 DEF Gate!GateNext
<1>7. Place(t)' = Place(t) \/ (callback[t] = "idle" /\ callback'[t] = "persisted")
        \/ (callback[t] \in Live /\ callback'[t] \in {"returned", "dead"})
  BY <1>1 DEF GateStep, Place, Live
<1> QED  BY <1>3, <1>4, <1>5, <1>6, <1>7

\* A step that leaves the callbacks and what ran alone, and at most adds a vote.
LEMMA VoteMaps ==
  ASSUME UNCHANGED <<callback, executed>>,
         yes' = yes \/ \E t \in Tool : yes' = yes \cup {t}
  PROVE  Gate!GateNext \/ UNCHANGED Gate!gateVars
<1>1. \A t \in Tool : Place(t)' = Place(t)
  BY DEF Place
<1>2. CASE yes' = yes
  BY <1>1, <1>2, GateStays
<1>3. ASSUME NEW t \in Tool, yes' = yes \cup {t} PROVE Gate!GateNext
  BY <1>1, <1>3 DEF Gate!Vote, Gate!GateNext, gateBar
<1> QED  BY <1>2, <1>3

\* Every step keeps RanMeansReturned and is one of the gate or goes unnoticed.
LEMMA StepMaps ==
  TypeOK /\ Inductive /\ RanMeansReturned /\ [Next]_vars
      => RanMeansReturned' /\ [Gate!GateNext]_(Gate!gateVars)
<1> SUFFICES ASSUME TypeOK, Inductive, RanMeansReturned, [Next]_vars
             PROVE  RanMeansReturned' /\ (Gate!GateNext \/ UNCHANGED Gate!gateVars)
  OBVIOUS
<1>0. TypeOK' /\ Inductive' /\ executed' \subseteq Tool
  BY NextTyped, NextInductive DEF TypeOK
<1>1. ASSUME NEW t \in Tool, Callback(t)
      PROVE  RanMeansReturned' /\ (Gate!GateNext \/ UNCHANGED Gate!gateVars)
  <2>1. \A u \in Tool : GateStep(u)
    BY <1>1, CallbackSteps DEF OnlyMoves, GateStep
  <2> QED  BY <1>0, <1>1, <2>1, RanKept, CallbackMaps
<1>2. ASSUME NEW T \in SUBSET Tool, Kill(T), UNCHANGED <<executed, yes>>,
             \A t \in T : callback[t] \in Live
      PROVE  RanMeansReturned' /\ (Gate!GateNext \/ UNCHANGED Gate!gateVars)
  <2>1. \A t \in Tool : GateStep(t)
    BY <1>2, KillSteps
  <2> QED  BY <1>0, <1>2, <2>1, RanKept, KillMaps
<1>3. ASSUME UNCHANGED <<callback, executed>>,
             yes' = yes \/ \E t \in Tool : yes' = yes \cup {t}
      PROVE  RanMeansReturned' /\ (Gate!GateNext \/ UNCHANGED Gate!gateVars)
  BY <1>3, VoteMaps DEF RanMeansReturned
<1>4. CASE Decider
  <2>1. ASSUME NEW k \in Socket, CancelFrame(k)
        PROVE  RanMeansReturned' /\ (Gate!GateNext \/ UNCHANGED Gate!gateVars)
    BY <1>2, <2>1 DEF CancelFrame, Turn, history
  <2>2. ASSUME NEW r \in Request, NEW a \in Approval, Notify(r, a)
        PROVE  UNCHANGED <<callback, executed>>
               /\ (yes' = yes \/ \E t \in Tool : yes' = yes \cup {t})
    BY <2>2 DEF Notify
  <2> QED
    BY <1>3, <1>4, <2>1, <2>2
       DEF Decider, CancelRows, Answer, Decide, Commit, waitVars, history
<1>5. CASE Sweep
  BY <1>3, <1>5 DEF Sweep, SweepStart, SweepPick, SweepExecute, SweepDispatchFails,
                    SweepReload, SweepReject, SweepFails, waitVars, history
<1>6. CASE Environment
  <2>1. ASSUME NEW k \in Socket, Disconnect(k)
        PROVE  RanMeansReturned' /\ (Gate!GateNext \/ UNCHANGED Gate!gateVars)
    BY <1>2, <2>1 DEF Disconnect, Turn, history
  <2>2. ASSUME NEW p \in Proc, Crash(p)
        PROVE  RanMeansReturned' /\ (Gate!GateNext \/ UNCHANGED Gate!gateVars)
    BY <1>2, <2>2 DEF Crash, history
  <2> QED
    BY <1>3, <1>6, <2>1, <2>2
       DEF Environment, File, Expire, WorkerCrash, waitVars, history
<1>7. CASE UNCHANGED vars
  BY <1>3, <1>7 DEF vars
<1> QED
  BY <1>1, <1>4, <1>5, <1>6, <1>7 DEF Next

\* The approval protocol implements the gate, but for its fairness: whatever the deciders,
\* the sweep, disconnects and crashes do, a call is answered once at most, and allowed only
\* after a vote.
THEOREM ApprovalsImplementGate == Spec => Gate!GateSpec
<1>1. Init => RanMeansReturned
  BY DEF Init, RanMeansReturned
<1>2. Init => Gate!GateInit
  <2>1. Init => \A t \in Tool : Place(t) = "unasked"
    BY DEF Init, Place, Live
  <2> QED
    BY <2>1 DEF Init, Gate!GateInit, gateBar
<1> QED
  BY <1>1, <1>2, InvariantHolds, StepMaps, PTL DEF Spec, Gate!GateSpec
-----------------------------------------------------------------------------
(* Dispatch and flip of a proposal.                                        *)

\* The two halves of DispatchedWithFlip: a dispatch comes with the flip of its row ...
DispatchFlips(p) ==
    applied'[p] # applied[p] => status'[p] = "approved" /\ applied'[p] = applied[p] + 1

\* ... and the flip with its dispatch.
FlipDispatches(p) ==
    status[p] # "approved" /\ status'[p] = "approved" => applied'[p] = applied[p] + 1

\* A chat frame holds no proposal, unless it carries that proposal's id.
ChatHolds ==
    \A r \in Request :
        txn[r].via = "ws" => txn[r].rows \cap Proposal \subseteq Answerable

\* ChatHolds starts true and is kept: answers come with their frame's id, cancel frames
\* read tool rows.
LEMMA ChatHoldsKept ==
  /\ Init => ChatHolds
  /\ TypeOK /\ ChatHolds /\ [Next]_vars => ChatHolds'
<1> USE ConstantsAssumption DEF ChatHolds, TypeOK, Request
<1>1. Init => ChatHolds
  BY DEF Init, Idle
<1>2. ASSUME TypeOK, ChatHolds, [Next]_vars PROVE ChatHolds'
  <2> USE <1>2
  <2>1. ASSUME NEW k \in Socket, CancelFrame(k) PROVE ChatHolds'
    BY <2>1 DEF CancelFrame, Begin
  <2>2. ASSUME NEW k \in Socket, CancelRows(k) PROVE ChatHolds'
    <3>1. \/ txn' = [txn EXCEPT ![k] = Idle]
          \/ \E rows \in SUBSET Tool : Begin(k, "open", "ws", "cancel", rows, rows)
      BY <2>2 DEF CancelRows, Pending
    <3>2. CASE txn' = [txn EXCEPT ![k] = Idle]
      BY <3>2 DEF Idle
    <3>3. ASSUME NEW rows \in SUBSET Tool, Begin(k, "open", "ws", "cancel", rows, rows)
          PROVE  ChatHolds'
      BY <3>3 DEF Begin
    <3> QED
      BY <3>1, <3>2, <3>3
  <2>3. ASSUME NEW k \in Socket, NEW a \in Approval, NEW op \in {"approve", "deny"}, Answer(k, a, op)
        PROVE  ChatHolds'
    BY <2>3 DEF Answer, Begin
  <2>4. ASSUME NEW r \in Rest, NEW B \in Batches, NEW op \in {"approve", "deny"}, Decide(r, B, op)
        PROVE  ChatHolds'
    BY <2>4 DEF Decide, Begin
  <2>5. ASSUME NEW r \in Request, Commit(r) PROVE ChatHolds'
    BY <2>5 DEF Commit, Idle
  <2>6. ASSUME NEW r \in Request, NEW a \in Approval, Notify(r, a) PROVE ChatHolds'
    BY <2>6 DEF Notify, Idle
  <2>7. ASSUME NEW p \in Proc, Crash(p) PROVE ChatHolds'
    BY <2>7 DEF Crash, Idle
  <2>8. ASSUME UNCHANGED txn PROVE ChatHolds'
    BY <2>8
  <2> QED
    BY <2>1, <2>2, <2>3, <2>4, <2>5, <2>6, <2>7, <2>8
       DEF Next, Callback, Decider, Sweep, Environment, vars, deciderVars,
           PersistRow, PersistFails, Register, Wake, TimeOut, Unpark, ReRead, CloseRow, CloseFails,
           SweepStart, SweepPick, SweepExecute, SweepDispatchFails, SweepReload, SweepReject, SweepFails,
           Disconnect, File, Expire, WorkerCrash
<1> QED
  BY <1>1, <1>2

\* Only a request's commit and the sweep's execution dispatch, and each flips what it
\* dispatches; what the chat socket cannot name is flipped to APPROVED by these two only.
LEMMA FlipSteps ==
  ASSUME TypeOK, ChatHolds, [Next]_vars, NEW p \in Proposal
  PROVE  DispatchFlips(p) /\ (p \notin Answerable => FlipDispatches(p))
<1> USE ConstantsAssumption DEF TypeOK, DispatchFlips, FlipDispatches, Approval
<1>1. ASSUME NEW r \in Request, Commit(r)
      PROVE  DispatchFlips(p) /\ (p \notin Answerable => FlipDispatches(p))
  <2>1. PICK failed \in SUBSET Fallible(txn[r]) :
          /\ status' = [a \in Approval |->
                          IF a \in txn[r].rows \ failed THEN Verdict(txn[r].op) ELSE status[a]]
          /\ applied' = [q \in Proposal |->
                          IF q \in Dispatched(txn[r]) \ failed THEN applied[q] + 1 ELSE applied[q]]
    BY <1>1 DEF Commit
  <2>2. applied'[p] # applied[p] => p \in Dispatched(txn[r]) \ failed
    BY <2>1
  <2>3. p \in Dispatched(txn[r]) \ failed =>
          /\ status'[p] = "approved"
          /\ applied'[p] = applied[p] + 1
    BY <2>1 DEF Dispatched, Fallible, Verdict
  <2>4. ASSUME p \notin Answerable, status[p] # "approved", status'[p] = "approved"
        PROVE  p \in Dispatched(txn[r]) \ failed
    <3>1. p \in txn[r].rows \ failed /\ txn[r].op = "approve"
      BY <2>1, <2>4 DEF Verdict
    <3>2. txn[r].via = "rest"
      BY <2>4, <3>1 DEF ChatHolds
    <3> QED
      BY <3>1, <3>2 DEF Dispatched, Fallible
  <2> QED
    BY <2>2, <2>3, <2>4
<1>2. CASE SweepExecute
  BY <1>2 DEF SweepExecute
<1>3. CASE SweepReject
  BY <1>3 DEF SweepReject
<1>4. ASSUME NEW t \in Tool, PersistRow(t) \/ CloseRow(t)
      PROVE  DispatchFlips(p) /\ (p \notin Answerable => FlipDispatches(p))
  BY <1>4 DEF PersistRow, CloseRow
<1>5. ASSUME NEW q \in Proposal, File(q)
      PROVE  DispatchFlips(p) /\ (p \notin Answerable => FlipDispatches(p))
  BY <1>5 DEF File
<1>6. ASSUME UNCHANGED <<status, applied>>
      PROVE  DispatchFlips(p) /\ (p \notin Answerable => FlipDispatches(p))
  BY <1>6
<1> QED
  BY <1>1, <1>2, <1>3, <1>4, <1>5, <1>6
     DEF Next, Callback, Decider, Sweep, Environment, vars, rowVars,
         PersistFails, Register, Wake, TimeOut, Unpark, ReRead, CloseFails,
         CancelFrame, CancelRows, Answer, Decide, Notify, SweepStart, SweepPick,
         SweepDispatchFails, SweepReload, SweepFails, Disconnect, Expire, Crash,
         WorkerCrash, Request

\* The chat socket's rows, as an invariant.
LEMMA ChatHoldsInvariant == Spec => [](TypeOK /\ ChatHolds)
  BY InitTyped, NextTyped, ChatHoldsKept, PTL DEF Spec

\* A dispatch is never committed without the flip of its row, whoever races whom; and a
\* proposal whose id no chat frame carries is never approved without its dispatch.
THEOREM FlipsHold ==
  Spec => [][\A p \in Proposal : DispatchFlips(p) /\ (p \notin Answerable => FlipDispatches(p))]_vars
<1>1. TypeOK /\ ChatHolds /\ [Next]_vars =>
        \A p \in Proposal : DispatchFlips(p) /\ (p \notin Answerable => FlipDispatches(p))
  BY FlipSteps
<1> QED
  BY <1>1, ChatHoldsInvariant, PTL DEF Spec

\* Where chat frames carry tool approvals only, dispatch and flip are one.
THEOREM DispatchedWithFlipHolds ==
  ASSUME Answerable \cap Proposal = {} PROVE Spec => DispatchedWithFlip
<1>1. TypeOK /\ ChatHolds /\ [Next]_vars =>
        \A p \in Proposal :
          /\ applied'[p] # applied[p] => status'[p] = "approved" /\ applied'[p] = applied[p] + 1
          /\ status[p] # "approved" /\ status'[p] = "approved" => applied'[p] = applied[p] + 1
  BY FlipSteps DEF DispatchFlips, FlipDispatches
<1>2. Spec => [][\A p \in Proposal :
          /\ applied'[p] # applied[p] => status'[p] = "approved" /\ applied'[p] = applied[p] + 1
          /\ status[p] # "approved" /\ status'[p] = "approved" => applied'[p] = applied[p] + 1]_vars
  BY <1>1, ChatHoldsInvariant, PTL DEF Spec
<1> QED
  BY <1>2 DEF DispatchedWithFlip
-----------------------------------------------------------------------------
(* How often a proposal can be dispatched.                                 *)

\* What has been dispatched is decided, and what the chat socket cannot name is
\* approved only if it was dispatched.
DispatchAndRow ==
    \A p \in Proposal :
        /\ applied[p] > 0 => status[p] \in Decided
        /\ p \notin Answerable /\ status[p] = "approved" => applied[p] > 0

\* A proposal whose dispatch has been committed is never open again: nobody who reads
\* the row from then on dispatches it.  And APPROVED means dispatched, for every proposal
\* that no chat frame carries.
THEOREM DispatchAndRowHolds == Spec => []DispatchAndRow
<1>1. Init => DispatchAndRow
  BY DEF Init, DispatchAndRow, Approval
<1>2. TypeOK /\ Inductive /\ ChatHolds /\ DispatchAndRow /\ [Next]_vars => DispatchAndRow'
  <2> SUFFICES ASSUME TypeOK, TypeOK', Inductive, ChatHolds, DispatchAndRow, [Next]_vars,
                      NEW p \in Proposal
               PROVE  /\ applied'[p] > 0 => status'[p] \in Decided
                      /\ p \notin Answerable /\ status'[p] = "approved" => applied'[p] > 0
    BY NextTyped DEF DispatchAndRow
  <2>1. DispatchFlips(p) /\ (p \notin Answerable => FlipDispatches(p))
    BY FlipSteps
  <2>2. Forward(p)
    BY RowsMoveForward DEF Inductive, Approval
  <2>3. applied[p] \in Nat /\ applied'[p] \in Nat
    BY DEF TypeOK
  <2> QED
    BY <2>1, <2>2, <2>3 DEF DispatchAndRow, DispatchFlips, FlipDispatches, Forward, Decided
<1> QED
  BY <1>1, <1>2, InvariantHolds, ChatHoldsInvariant, PTL DEF Spec

\* The requests that are about to dispatch p, and whether the sweep is.
Holders(p) == {r \in Rest : txn[r].pc = "open" /\ p \in txn[r].rows}
SweepHolds(p) == IF sweep.pc = "dispatch" /\ p \in sweep.hand THEN 1 ELSE 0

\* The sweep executes the automatic proposals only, and only the REST endpoint's
\* transactions are not the chat socket's.
HandsKnown ==
    /\ sweep.pc = "dispatch" => sweep.hand \subseteq AutoExec
    /\ \A k \in Socket : txn[k].pc = "open" => txn[k].via = "ws"

\* What the steps of the sweep after a pick leave alone; none goes back to a dispatch.
LEMMA SweepLeavesDispatch ==
  ASSUME TypeOK,
         SweepStart \/ SweepExecute \/ SweepDispatchFails \/ SweepReload \/ SweepReject \/ SweepFails
           \/ WorkerCrash
  PROVE  sweep'.pc # "dispatch" /\ UNCHANGED txn
<1> USE DEF TypeOK, NoSweep, SweepNext
<1>1. CASE SweepStart
  BY <1>1 DEF SweepStart
<1>2. CASE SweepExecute
  BY <1>2 DEF SweepExecute
<1>3. CASE SweepDispatchFails
  BY <1>3 DEF SweepDispatchFails
<1>4. CASE SweepReload
  <2>1. UNCHANGED txn /\ (sweep' = [sweep EXCEPT !.pc = "reject"] \/ SweepNext)
    BY <1>4 DEF SweepReload
  <2>2. SweepNext => sweep'.pc # "dispatch"
    OBVIOUS
  <2> QED
    BY <2>1, <2>2
<1>5. CASE SweepReject
  BY <1>5 DEF SweepReject
<1>6. CASE SweepFails
  BY <1>6 DEF SweepFails
<1>7. CASE WorkerCrash
  BY <1>7 DEF WorkerCrash
<1> QED
  BY <1>1, <1>2, <1>3, <1>4, <1>5, <1>6, <1>7

\* HandsKnown starts true and is kept.
LEMMA HandsKnownKept ==
  /\ Init => HandsKnown
  /\ TypeOK /\ HandsKnown /\ [Next]_vars => HandsKnown'
<1> USE ConstantsAssumption DEF HandsKnown, TypeOK, Request
<1>1. Init => HandsKnown
  BY DEF Init, Idle, NoSweep
<1>2. ASSUME TypeOK, HandsKnown, [Next]_vars PROVE HandsKnown'
  <2> USE <1>2
  <2>1. ASSUME NEW k \in Socket, CancelFrame(k) PROVE HandsKnown'
    BY <2>1 DEF CancelFrame, Begin
  <2>2. ASSUME NEW k \in Socket, CancelRows(k) PROVE HandsKnown'
    <3>1. /\ UNCHANGED sweep
          /\ \/ txn' = [txn EXCEPT ![k] = Idle]
             \/ \E rows \in SUBSET Tool : Begin(k, "open", "ws", "cancel", rows, rows)
      BY <2>2 DEF CancelRows, Pending
    <3> QED
      BY <3>1 DEF Begin, Idle
  <2>3. ASSUME NEW k \in Socket, NEW a \in Approval, NEW op \in {"approve", "deny"}, Answer(k, a, op)
        PROVE  HandsKnown'
    BY <2>3 DEF Answer, Begin
  <2>4. ASSUME NEW r \in Rest, NEW B \in Batches, NEW op \in {"approve", "deny"}, Decide(r, B, op)
        PROVE  HandsKnown'
    BY <2>4 DEF Decide, Begin
  <2>5. ASSUME NEW r \in Request, Commit(r) PROVE HandsKnown'
    BY <2>5 DEF Commit, Idle
  <2>6. ASSUME NEW r \in Request, NEW a \in Approval, Notify(r, a) PROVE HandsKnown'
    BY <2>6 DEF Notify, Idle
  <2>7. ASSUME NEW p \in Proc, Crash(p) PROVE HandsKnown'
    BY <2>7 DEF Crash, Idle
  <2>8. CASE Sweep \/ WorkerCrash
    <3>1. ASSUME NEW a \in Approval, SweepPick(a) PROVE HandsKnown'
      BY <3>1 DEF SweepPick
    <3>2. CASE SweepStart \/ SweepExecute \/ SweepDispatchFails \/ SweepReload \/ SweepReject
                 \/ SweepFails \/ WorkerCrash
      BY <3>2, SweepLeavesDispatch
    <3> QED
      BY <2>8, <3>1, <3>2 DEF Sweep
  <2>9. ASSUME UNCHANGED <<txn, sweep>> PROVE HandsKnown'
    BY <2>9
  <2> QED
    BY <2>1, <2>2, <2>3, <2>4, <2>5, <2>6, <2>7, <2>8, <2>9
       DEF Next, Callback, Decider, Environment, vars, deciderVars,
           PersistRow, PersistFails, Register, Wake, TimeOut, Unpark, ReRead, CloseRow, CloseFails,
           Disconnect, File, Expire
<1> QED
  BY <1>1, <1>2

\* A step adds a holder of p only while p is pending, and a dispatch of p takes one away.
HolderStep(p) ==
    \/ /\ applied'[p] = applied[p]
       /\ status[p] = "pending"
    \/ /\ applied'[p] = applied[p]
       /\ Holders(p)' \subseteq Holders(p)
       /\ SweepHolds(p)' <= SweepHolds(p)
    \/ /\ applied'[p] = applied[p] + 1
       /\ \E r \in Holders(p) : Holders(p)' \subseteq Holders(p) \ {r}
       /\ SweepHolds(p)' <= SweepHolds(p)
    \/ /\ applied'[p] = applied[p] + 1
       /\ Holders(p)' \subseteq Holders(p)
       /\ SweepHolds(p) = 1 /\ SweepHolds(p)' = 0

\* Every step changes the holders and the count of a proposal as HolderStep says.
LEMMA HolderSteps ==
  ASSUME TypeOK, HandsKnown, [Next]_vars, NEW p \in Proposal
  PROVE  HolderStep(p)
<1> USE ConstantsAssumption DEF TypeOK, HolderStep, Holders, SweepHolds, Request, Approval
<1>1. ASSUME NEW r \in Request, Commit(r) PROVE HolderStep(p)
  <2>1. PICK failed \in SUBSET Fallible(txn[r]) :
          /\ applied' = [q \in Proposal |->
                          IF q \in Dispatched(txn[r]) \ failed THEN applied[q] + 1 ELSE applied[q]]
          /\ \E wake \in SUBSET Approval :
                txn' = [txn EXCEPT ![r] = IF wake = {} THEN Idle
                                          ELSE [@ EXCEPT !.pc = "wake", !.wake = wake]]
    BY <1>1 DEF Commit
  <2>2. txn[r].pc = "open" /\ UNCHANGED sweep
    BY <1>1 DEF Commit
  <2>3. txn'[r].pc # "open" /\ \A q \in Rest : q # r => txn'[q] = txn[q]
    BY <2>1 DEF Idle
  <2>4. Holders(p)' \subseteq Holders(p) \ {r}
    BY <2>3
  <2>5. CASE p \in Dispatched(txn[r]) \ failed
    <3>1. p \in txn[r].rows /\ txn[r].via = "rest"
      BY <2>5 DEF Dispatched, Fallible
    <3>2. r \in Rest
      BY <2>2, <3>1 DEF HandsKnown
    <3> QED
      BY <2>1, <2>2, <2>4, <2>5, <3>1, <3>2
  <2>6. CASE p \notin Dispatched(txn[r]) \ failed
    BY <2>1, <2>2, <2>4, <2>6
  <2> QED
    BY <2>5, <2>6
<1>2. ASSUME UNCHANGED <<sweep, applied>>, \A q \in Rest : txn'[q] = txn[q]
      PROVE  HolderStep(p)
  BY <1>2
<1>3. ASSUME NEW r \in Rest, NEW B \in Batches, NEW op \in {"approve", "deny"}, Decide(r, B, op)
      PROVE  HolderStep(p)
  <2>1. CASE p \in B
    BY <1>3, <2>1 DEF Decide, Pending, rowVars
  <2>2. CASE p \notin B
    BY <1>3, <2>2 DEF Decide, Begin, rowVars
  <2> QED
    BY <2>1, <2>2
<1>4. ASSUME NEW r \in Request, NEW a \in Approval, Notify(r, a) PROVE HolderStep(p)
  BY <1>4 DEF Notify, Idle, rowVars
<1>5. ASSUME NEW q \in Proc, Crash(q) PROVE HolderStep(p)
  BY <1>5 DEF Crash, Idle, rowVars
<1>6. CASE SweepExecute
  BY <1>6 DEF SweepExecute, SweepNext, NoSweep
<1>7. ASSUME NEW a \in Approval, SweepPick(a) PROVE HolderStep(p)
  BY <1>7 DEF SweepPick, Pending, rowVars
<1>8. CASE SweepStart \/ SweepDispatchFails \/ SweepReload \/ SweepReject \/ SweepFails \/ WorkerCrash
  <2>1. UNCHANGED applied
    BY <1>8 DEF SweepStart, SweepDispatchFails, SweepReload, SweepReject, SweepFails, WorkerCrash, rowVars
  <2>2. sweep'.pc # "dispatch" /\ UNCHANGED txn
    BY <1>8, SweepLeavesDispatch
  <2> QED
    BY <2>1, <2>2
<1>9. ASSUME UNCHANGED <<txn, sweep, applied>> PROVE HolderStep(p)
  BY <1>9
<1>10. ASSUME NEW t \in Tool, Callback(t) PROVE UNCHANGED <<txn, sweep, applied>>
  BY <1>10 DEF Callback, deciderVars, rowVars, PersistRow, PersistFails, Register, Wake, TimeOut,
               Unpark, ReRead, CloseRow, CloseFails
<1>11. CASE Decider
  <2>1. ASSUME NEW k \in Socket, CancelFrame(k) \/ CancelRows(k) PROVE HolderStep(p)
    <3>1. UNCHANGED <<sweep, applied>> /\ \A q \in Rest : txn'[q] = txn[q]
      BY <2>1 DEF CancelFrame, CancelRows, Begin, rowVars
    <3> QED
      BY <1>2, <3>1, Zenon
  <2>2. ASSUME NEW k \in Socket, NEW a \in Approval, NEW op \in {"approve", "deny"}, Answer(k, a, op)
        PROVE  HolderStep(p)
    <3>1. UNCHANGED <<sweep, applied>> /\ \A q \in Rest : txn'[q] = txn[q]
      BY <2>2 DEF Answer, Begin, rowVars
    <3> QED
      BY <1>2, <3>1, Zenon
  <2> QED
    BY <1>1, <1>3, <1>4, <1>11, <2>1, <2>2 DEF Decider
<1>12. CASE Sweep
  BY <1>6, <1>7, <1>8, <1>12 DEF Sweep
<1>13. CASE Environment
  <2>1. ASSUME NEW k \in Socket, Disconnect(k) PROVE UNCHANGED <<txn, sweep, applied>>
    BY <2>1 DEF Disconnect, deciderVars, rowVars
  <2>2. ASSUME NEW q \in Proposal, File(q) PROVE UNCHANGED <<txn, sweep, applied>>
    BY <2>2 DEF File, deciderVars
  <2>3. ASSUME NEW a \in Approval, Expire(a) PROVE UNCHANGED <<txn, sweep, applied>>
    BY <2>3 DEF Expire, deciderVars, rowVars
  <2> QED
    BY <1>5, <1>8, <1>9, <1>13, <2>1, <2>2, <2>3 DEF Environment
<1> QED
  BY <1>9, <1>10, <1>11, <1>12, <1>13 DEF Next, vars

\* Who may dispatch p: each REST request, and the sweep if p is automatic.
Dispatchers(p) == Cardinality(Rest) + (IF p \in AutoExec THEN 1 ELSE 0)

\* Every dispatch committed and every one about to be is the work of another of them.
DispatchesBounded ==
    \A p \in Proposal : applied[p] + Cardinality(Holders(p)) + SweepHolds(p) <= Dispatchers(p)

\* Every step keeps the count of dispatches and of those about to dispatch within the
\* deciders there are.
LEMMA DispatchesBoundedKept ==
  ASSUME IsFiniteSet(Rest), TypeOK, TypeOK', HandsKnown, HandsKnown', DispatchAndRow,
         DispatchesBounded, [Next]_vars
  PROVE  DispatchesBounded'
<1> SUFFICES ASSUME NEW p \in Proposal
             PROVE  applied'[p] + Cardinality(Holders(p)') + SweepHolds(p)' <= Dispatchers(p)
  BY DEF DispatchesBounded, Dispatchers
<1> DEFINE H == Holders(p)
           J == Holders(p)'
<1>1. H \subseteq Rest /\ J \subseteq Rest
  BY DEF Holders
<1>2. /\ IsFiniteSet(H) /\ IsFiniteSet(J)
      /\ Cardinality(H) \in Nat /\ Cardinality(J) \in Nat /\ Cardinality(Rest) \in Nat
      /\ Cardinality(J) <= Cardinality(Rest)
  BY <1>1, FS_Subset, FS_CardinalityType
<1>3. applied[p] \in Nat /\ applied'[p] \in Nat
  BY DEF TypeOK
<1>4. SweepHolds(p) \in 0..1 /\ SweepHolds(p)' \in 0..1
  BY DEF SweepHolds
<1>5. SweepHolds(p)' = 1 => p \in AutoExec
  BY DEF SweepHolds, HandsKnown
<1>6. applied[p] + Cardinality(H) + SweepHolds(p) <= Dispatchers(p)
  BY DEF DispatchesBounded
<1>7. CASE applied'[p] = applied[p] /\ status[p] = "pending"
  <2>1. applied[p] = 0
    BY <1>3, <1>7 DEF DispatchAndRow, Decided
  <2> QED
    BY <1>2, <1>4, <1>5, <1>7, <2>1 DEF Dispatchers
<1>8. CASE applied'[p] = applied[p] /\ J \subseteq H /\ SweepHolds(p)' <= SweepHolds(p)
  <2>1. Cardinality(J) <= Cardinality(H)
    BY <1>2, <1>8, FS_Subset
  <2> QED
    BY <1>2, <1>3, <1>4, <1>6, <1>8, <2>1 DEF Dispatchers
<1>9. ASSUME NEW r \in H, applied'[p] = applied[p] + 1, J \subseteq H \ {r},
             SweepHolds(p)' <= SweepHolds(p)
      PROVE  applied'[p] + Cardinality(J) + SweepHolds(p)' <= Dispatchers(p)
  <2>1. IsFiniteSet(H \ {r}) /\ Cardinality(H \ {r}) = Cardinality(H) - 1
    BY <1>2, <1>9, FS_RemoveElement
  <2>2. Cardinality(J) <= Cardinality(H) - 1
    BY <1>9, <2>1, FS_Subset
  <2> QED
    BY <1>2, <1>3, <1>4, <1>6, <1>9, <2>2 DEF Dispatchers
<1>10. CASE /\ applied'[p] = applied[p] + 1 /\ J \subseteq H
            /\ SweepHolds(p) = 1 /\ SweepHolds(p)' = 0
  <2>1. Cardinality(J) <= Cardinality(H)
    BY <1>2, <1>10, FS_Subset
  <2> QED
    BY <1>2, <1>3, <1>4, <1>6, <1>10, <2>1 DEF Dispatchers
<1> QED
  BY <1>7, <1>8, <1>9, <1>10, HolderSteps DEF HolderStep

\* A proposal is dispatched at most once per decider that can race for it: repeated
\* requests, retries and restarts add nothing.
THEOREM DispatchesBoundedHolds ==
  ASSUME IsFiniteSet(Rest)
  PROVE  Spec => [](\A p \in Proposal : applied[p] <= Dispatchers(p))
<1>1. Init => HandsKnown /\ DispatchesBounded
  <2> SUFFICES ASSUME Init, NEW p \in Proposal
               PROVE  applied[p] + Cardinality(Holders(p)) + SweepHolds(p) <= Dispatchers(p)
    BY HandsKnownKept DEF DispatchesBounded
  <2>1. Holders(p) = {} /\ SweepHolds(p) = 0 /\ applied[p] = 0
    BY DEF Init, Holders, SweepHolds, Idle, NoSweep, Request
  <2>2. Cardinality(Holders(p)) = 0 /\ Cardinality(Rest) \in Nat
    BY <2>1, FS_EmptySet, FS_CardinalityType
  <2> QED
    BY <2>1, <2>2 DEF Dispatchers
<1>2. TypeOK /\ HandsKnown /\ DispatchAndRow /\ DispatchesBounded /\ [Next]_vars
        => HandsKnown' /\ DispatchesBounded'
  BY NextTyped, HandsKnownKept, DispatchesBoundedKept
<1>3. TypeOK /\ DispatchesBounded => \A p \in Proposal : applied[p] <= Dispatchers(p)
  <2> SUFFICES ASSUME TypeOK, DispatchesBounded, NEW p \in Proposal PROVE applied[p] <= Dispatchers(p)
    OBVIOUS
  <2>1. Cardinality(Holders(p)) \in Nat
    BY FS_Subset, FS_CardinalityType DEF Holders
  <2> QED
    BY <2>1, FS_CardinalityType DEF TypeOK, DispatchesBounded, SweepHolds, Dispatchers
<1> QED
  BY <1>1, <1>2, <1>3, TypeCorrect, DispatchAndRowHolds, PTL DEF Spec

\* With a single decider that can dispatch it, a proposal is dispatched once: it takes two
\* of them, both having read the row pending, for a second dispatch.
THEOREM DispatchedOnceHolds ==
  ASSUME IsFiniteSet(Rest), \A p \in Proposal : Dispatchers(p) <= 1
  PROVE  Spec => []DispatchedOnce
<1>1. TypeOK /\ (\A p \in Proposal : applied[p] <= Dispatchers(p)) => DispatchedOnce
  <2> SUFFICES ASSUME TypeOK, NEW p \in Proposal, applied[p] <= Dispatchers(p) PROVE applied[p] <= 1
    BY DEF DispatchedOnce
  <2>1. Dispatchers(p) \in Nat
    BY FS_CardinalityType DEF Dispatchers
  <2> QED
    BY <2>1 DEF TypeOK
<1> QED
  BY <1>1, TypeCorrect, DispatchesBoundedHolds, PTL
=============================================================================
