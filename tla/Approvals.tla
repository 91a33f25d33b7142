----------------------------- MODULE Approvals -----------------------------
(***************************************************************************)
(* The human-in-the-loop approval protocol: the callback that parks a tool *)
(* call (services/approval.py), the per-process ApprovalManager it sleeps  *)
(* on (agents/harness/approvals.py), and everybody who decides a row: the  *)
(* chat socket, the REST endpoint (one row or a batch), the cancel frame   *)
(* of a session and the hourly TTL sweep.                                  *)
(*                                                                         *)
(* A deciding transaction reads the row, awaits (permissions, dispatch)    *)
(* and commits later.  Nothing locks the row and the UPDATE names only its *)
(* primary key, so the read and the commit are two steps here.             *)
(***************************************************************************)
EXTENDS Naturals, FiniteSets

CONSTANTS
    Tool,        \* approvals a parked tool call waits for (resource_type NULL)
    Proposal,    \* approvals that carry a resource_type, dispatched on approval
    AutoExec,    \* the proposals the TTL sweep executes (skill_pack_archive)
    Proc,        \* backend processes, each with its own ApprovalManager
    Socket,      \* chat connections
    Rest,        \* concurrent REST requests
    At,          \* [Socket \cup Rest -> Proc]: the process that serves a request
    Owner,       \* [Tool -> Socket]: the connection whose turn runs the tool
    Answerable,  \* the approvals whose id a chat frame carries
    MaxBatch,    \* rows in one bulk decision
    MaxCrash     \* bound on process crashes

Approval == Tool \cup Proposal
Request == Socket \cup Rest
Home(t) == At[Owner[t]]

ASSUME ConstantsAssumption ==
    /\ Tool \cap Proposal = {}
    /\ Socket \cap Rest = {}
    /\ AutoExec \subseteq Proposal
    /\ Answerable \subseteq Approval
    /\ At \in [Request -> Proc]
    /\ Owner \in [Tool -> Socket]
    /\ MaxBatch \in Nat
    /\ MaxCrash \in Nat

VARIABLES
    status,      \* approvals.status of each row; "none" before it is committed
    due,         \* the rows whose expires_at has passed
    entry,       \* the manager's future of a tool: "none", "open", "yes", "no"
    callback,    \* where the approval callback of a tool is
    answer,      \* what wait() returned
    executed,    \* the tools ToolGuard let run
    txn,         \* the deciding request each handler is in
    sweep,       \* the TTL sweep
    applied,     \* committed dispatches of each proposal
    crashes,
    yes,         \* history: tools for which an approving decider reached the manager
    landed       \* history: tools decided, in their process, while parked

vars == <<status, due, entry, callback, answer, executed, txn, sweep,
          applied, crashes, yes, landed>>
rowVars == <<status, applied>>
waitVars == <<entry, callback, answer, executed>>
deciderVars == <<txn, sweep>>
history == <<yes, landed>>

Decided == {"approved", "denied", "expired", "cancelled"}
Status == {"none", "pending"} \cup Decided
Live == {"persisted", "parked", "woken", "closing"}
Idle == [pc |-> "idle", via |-> "rest", op |-> "deny", rows |-> {}, wake |-> {}]
NoSweep == [pc |-> "idle", todo |-> {}, hand |-> {}]

Pending == {a \in Approval : status[a] = "pending"}
Turn(k) == {t \in Tool : Owner[t] = k /\ callback[t] \in Live}

TypeOK ==
    /\ status \in [Approval -> Status]
    /\ due \subseteq Approval
    /\ entry \in [Tool -> {"none", "open", "yes", "no"}]
    /\ callback \in [Tool -> {"idle", "returned", "dead"} \cup Live]
    /\ answer \in [Tool -> {"none", "yes", "no", "timeout"}]
    /\ executed \subseteq Tool
    /\ txn \in [Request -> [pc : {"idle", "stopped", "open", "wake"},
                            via : {"ws", "rest"},
                            op : {"approve", "deny", "cancel"},
                            rows : SUBSET Approval,
                            wake : SUBSET Approval]]
    /\ sweep \in [pc : {"idle", "next", "dispatch", "reload", "reject"},
                  todo : SUBSET Approval,
                  hand : SUBSET Approval]
    /\ applied \in [Proposal -> Nat]
    /\ crashes \in Nat
    /\ yes \subseteq Tool
    /\ landed \subseteq Tool

Init ==
    /\ status = [a \in Approval |-> "none"]
    /\ due = {}
    /\ entry = [t \in Tool |-> "none"]
    /\ callback = [t \in Tool |-> "idle"]
    /\ answer = [t \in Tool |-> "none"]
    /\ executed = {}
    /\ txn = [r \in Request |-> Idle]
    /\ sweep = NoSweep
    /\ applied = [p \in Proposal |-> 0]
    /\ crashes = 0
    /\ yes = {}
    /\ landed = {}

-----------------------------------------------------------------------------
(* The approval callback of one tool call.                                 *)

\* Step 1: the row is inserted and committed.  The turn runs only while its
\* connection is not inside the cancel handler.
PersistRow(t) ==
    /\ callback[t] = "idle"
    /\ txn[Owner[t]].op # "cancel"
    /\ callback' = [callback EXCEPT ![t] = "persisted"]
    /\ status' = [status EXCEPT ![t] = "pending"]
    /\ UNCHANGED <<due, entry, answer, executed, deciderVars, applied, crashes, history>>

\* The insert failed: the exception is logged and the wait is in-memory only.
PersistFails(t) ==
    /\ callback[t] = "idle"
    /\ txn[Owner[t]].op # "cancel"
    /\ callback' = [callback EXCEPT ![t] = "persisted"]
    /\ UNCHANGED <<due, entry, answer, executed, rowVars, deciderVars, crashes, history>>

\* Steps 2 and 3: register() files the future, wait() parks on it.
Register(t) ==
    /\ callback[t] = "persisted"
    /\ callback' = [callback EXCEPT ![t] = "parked"]
    /\ entry' = [entry EXCEPT ![t] = "open"]
    /\ UNCHANGED <<due, answer, executed, rowVars, deciderVars, crashes, history>>

\* wait() returns with the answer v; its finally clause pops the entry.
Unpark(t, v) ==
    /\ callback[t] = "parked"
    /\ callback' = [callback EXCEPT ![t] = "woken"]
    /\ answer' = [answer EXCEPT ![t] = v]
    /\ entry' = [entry EXCEPT ![t] = "none"]
    /\ UNCHANGED <<due, executed, rowVars, deciderVars, crashes, history>>

\* The future was resolved.
Wake(t) == entry[t] \in {"yes", "no"} /\ Unpark(t, entry[t])

\* Mutant: the timer is honoured only while the row is open.
MutTimeOut(t) == t \in due /\ status[t] = "pending" /\ Unpark(t, "timeout")

\* wait_for gave up, 5 s after the row's own expiry.  It also wins over a result
\* set in the same loop iteration: the late answer is dropped.
TimeOut(t) == t \in due /\ Unpark(t, "timeout")

\* Mutant: a timeout lets the tool run.
MutReturn(t) ==
    /\ callback' = [callback EXCEPT ![t] = "returned"]
    /\ executed' = IF answer[t] # "no" THEN executed \cup {t} ELSE executed

Return(t) ==
    /\ callback' = [callback EXCEPT ![t] = "returned"]
    /\ executed' = IF answer[t] = "yes" THEN executed \cup {t} ELSE executed

\* Step 4: a fresh session re-reads the row and leaves a decided one alone.
ReRead(t) ==
    /\ callback[t] = "woken"
    /\ IF status[t] = "pending"
         THEN callback' = [callback EXCEPT ![t] = "closing"] /\ UNCHANGED executed
         ELSE Return(t)
    /\ UNCHANGED <<due, entry, answer, rowVars, deciderVars, crashes, history>>

\* Mutant: the answer is stored as it is.
MutClosing(v) == v

Closing(v) == CASE v = "timeout" -> "expired"
                [] v = "yes" -> "approved"
                [] OTHER -> "denied"

\* It was still pending: the callback's own verdict is committed.
CloseRow(t) ==
    /\ callback[t] = "closing"
    /\ status' = [status EXCEPT ![t] = Closing(answer[t])]
    /\ Return(t)
    /\ UNCHANGED <<due, entry, answer, applied, deciderVars, crashes, history>>

\* The update failed: logged, and the answer is returned all the same.
CloseFails(t) ==
    /\ callback[t] \in {"woken", "closing"}
    /\ Return(t)
    /\ UNCHANGED <<due, entry, answer, rowVars, deciderVars, crashes, history>>

\* The tasks of the callbacks in T are cancelled: CancelledError passes every
\* "except Exception", the finally clause pops the entry, the row stays.
Kill(T) ==
    /\ callback' = [t \in Tool |-> IF t \in T THEN "dead" ELSE callback[t]]
    /\ entry' = [t \in Tool |-> IF t \in T THEN "none" ELSE entry[t]]

\* The socket closed while its receive loop was waiting for a frame.
Disconnect(k) ==
    /\ txn[k].pc = "idle"
    /\ Turn(k) # {}
    /\ Kill(Turn(k))
    /\ UNCHANGED <<due, answer, executed, rowVars, deciderVars, crashes, history>>

-----------------------------------------------------------------------------
(* Time, proposals and crashes.                                            *)

\* A pipeline (evolver, curator, ...) files a proposal.
File(p) ==
    /\ status[p] = "none"
    /\ status' = [status EXCEPT ![p] = "pending"]
    /\ UNCHANGED <<due, waitVars, deciderVars, applied, crashes, history>>

\* The request's TTL elapses.
Expire(a) ==
    /\ a \notin due
    /\ IF a \in Tool THEN callback[a] # "idle" ELSE status[a] # "none"
    /\ due' = due \cup {a}
    /\ UNCHANGED <<rowVars, waitVars, deciderVars, crashes, history>>

\* A backend process dies: its callbacks and its open requests are gone,
\* uncommitted work is rolled back.
Crash(p) ==
    /\ crashes < MaxCrash
    /\ crashes' = crashes + 1
    /\ Kill({t \in Tool : Home(t) = p /\ callback[t] \in Live})
    /\ txn' = [r \in Request |-> IF At[r] = p THEN Idle ELSE txn[r]]
    /\ UNCHANGED <<due, answer, executed, rowVars, sweep, history>>

\* The worker dies in its sweep, or the job is cancelled on its timeout.
WorkerCrash ==
    /\ crashes < MaxCrash
    /\ sweep.pc # "idle"
    /\ crashes' = crashes + 1
    /\ sweep' = NoSweep
    /\ UNCHANGED <<due, waitVars, rowVars, txn, history>>

-----------------------------------------------------------------------------
(* The deciders.                                                           *)

Begin(r, pc, via, op, rows, wake) ==
    txn' = [txn EXCEPT ![r] = [pc |-> pc, via |-> via, op |-> op,
                               rows |-> rows, wake |-> wake]]

\* Mutant: the manager is not told of a denial.
MutAnswer(k, a, op) ==
    /\ txn[k].pc = "idle"
    /\ a \in Answerable
    /\ status[a] # "none"
    /\ Begin(k, "open", "ws", op, {a} \cap Pending, IF op = "deny" THEN {} ELSE {a})
    /\ UNCHANGED <<due, waitVars, rowVars, sweep, crashes, history>>

\* An approval_decision frame: a missing row is refused; repo.decide leaves a
\* decided row alone, but the manager is told either way.
Answer(k, a, op) ==
    /\ txn[k].pc = "idle"
    /\ a \in Answerable
    /\ status[a] # "none"
    /\ Begin(k, "open", "ws", op, {a} \cap Pending, {a})
    /\ UNCHANGED <<due, waitVars, rowVars, sweep, crashes, history>>

\* Mutant: only the dispatched rows are notified.
MutDecide(r, B, op) ==
    /\ txn[r].pc = "idle"
    /\ B # {} /\ B \subseteq Pending
    /\ Begin(r, "open", "rest", op, B, B \cap Proposal)
    /\ UNCHANGED <<due, waitVars, rowVars, sweep, crashes, history>>

\* POST .../decision or .../bulk-decision: rows no longer pending are refused.
Decide(r, B, op) ==
    /\ txn[r].pc = "idle"
    /\ B # {} /\ B \subseteq Pending
    /\ Begin(r, "open", "rest", op, B, B)
    /\ UNCHANGED <<due, waitVars, rowVars, sweep, crashes, history>>

\* Mutant: the turn is left running.
MutCancelFrame(k) ==
    /\ txn[k].pc = "idle"
    /\ Begin(k, "stopped", "ws", "cancel", {}, {})
    /\ UNCHANGED <<due, waitVars, rowVars, sweep, crashes, history>>

\* A cancel frame: the connection's turn is cancelled and awaited first.
CancelFrame(k) ==
    /\ txn[k].pc = "idle"
    /\ Kill(Turn(k))
    /\ Begin(k, "stopped", "ws", "cancel", {}, {})
    /\ UNCHANGED <<due, answer, executed, rowVars, sweep, crashes, history>>

\* Then the pending rows of the session, or of the frame's run, are read.  The
\* connections of the model are views of one session.
CancelRows(k) ==
    /\ txn[k].pc = "stopped"
    /\ \E scope \in {Tool, {t \in Tool : Owner[t] = k}} :
          LET rows == Pending \cap scope
          IN  IF rows = {} THEN txn' = [txn EXCEPT ![k] = Idle]
                           ELSE Begin(k, "open", "ws", "cancel", rows, rows)
    /\ UNCHANGED <<due, waitVars, rowVars, sweep, crashes, history>>

Verdict(op) == CASE op = "approve" -> "approved"
                 [] op = "deny" -> "denied"
                 [] op = "cancel" -> "cancelled"

\* The rows whose decision may raise: the REST endpoint runs the dispatch of an
\* approved proposal, and the side effect of a denied review.
Fallible(x) == IF x.via = "rest" THEN x.rows \cap Proposal ELSE {}

\* Mutant: a batch is not dispatched.
MutDispatched(x) == IF x.op = "approve" /\ Cardinality(x.rows) = 1 THEN Fallible(x) ELSE {}

\* Only the REST endpoint dispatches.
Dispatched(x) == IF x.op = "approve" THEN Fallible(x) ELSE {}

\* The commit.  A row that fails is rolled back (with its transaction for a single
\* decision, to its savepoint in a batch); the rest of the rows are written
\* whatever another transaction has committed to them since they were read.
Commit(r) ==
    /\ txn[r].pc = "open"
    /\ \E failed \in SUBSET Fallible(txn[r]) :
          LET rows == txn[r].rows \ failed
              wake == txn[r].wake \ failed
          IN  /\ status' = [a \in Approval |->
                              IF a \in rows THEN Verdict(txn[r].op) ELSE status[a]]
              /\ applied' = [p \in Proposal |->
                              IF p \in Dispatched(txn[r]) \ failed
                                THEN applied[p] + 1 ELSE applied[p]]
              /\ landed' = landed \cup
                             {t \in rows \cap Tool : entry[t] = "open" /\ Home(t) = At[r]}
              /\ txn' = [txn EXCEPT ![r] = IF wake = {} THEN Idle
                                           ELSE [@ EXCEPT !.pc = "wake", !.wake = wake]]
    /\ UNCHANGED <<due, waitVars, sweep, crashes, yes>>

\* APPROVAL_MANAGER.decide: the future of this process's manager, if any.
Notify(r, a) ==
    /\ txn[r].pc = "wake"
    /\ a \in txn[r].wake
    /\ LET op == txn[r].op
           rest == txn[r].wake \ {a}
       IN  /\ entry' = IF a \in Tool /\ Home(a) = At[r] /\ entry[a] = "open"
                         THEN [entry EXCEPT ![a] = IF op = "approve" THEN "yes" ELSE "no"]
                         ELSE entry
           /\ yes' = IF op = "approve" /\ a \in Tool THEN yes \cup {a} ELSE yes
           /\ txn' = [txn EXCEPT ![r] = IF rest = {} THEN Idle ELSE [@ EXCEPT !.wake = rest]]
    /\ UNCHANGED <<due, callback, answer, executed, rowVars, sweep, crashes, landed>>

-----------------------------------------------------------------------------
(* The TTL sweep: a worker job, with no manager to notify.                 *)

\* Mutant: the sweep lists proposals only.
MutSweepStart ==
    /\ sweep.pc = "idle"
    /\ Pending \cap due \cap Proposal # {}
    /\ sweep' = [pc |-> "next", todo |-> Pending \cap due \cap Proposal, hand |-> {}]
    /\ UNCHANGED <<due, waitVars, rowVars, txn, crashes, history>>

\* The sweep lists the expired rows once ...
SweepStart ==
    /\ sweep.pc = "idle"
    /\ Pending \cap due # {}
    /\ sweep' = [pc |-> "next", todo |-> Pending \cap due, hand |-> {}]
    /\ UNCHANGED <<due, waitVars, rowVars, txn, crashes, history>>

SweepNext == sweep' = IF sweep.todo = {} THEN NoSweep
                      ELSE [sweep EXCEPT !.pc = "next", !.hand = {}]

\* ... and takes them one by one, each reloaded in a session of its own.  (A row found
\* decided here is found decided by the next reload too.)
SweepPick(a) ==
    /\ sweep.pc = "next"
    /\ a \in sweep.todo
    /\ sweep' = [pc |-> IF a \in Pending \cap AutoExec THEN "dispatch" ELSE "reload",
                 todo |-> sweep.todo \ {a},
                 hand |-> {a}]
    /\ UNCHANGED <<due, waitVars, rowVars, txn, crashes, history>>

\* Mutant: the row is approved without its dispatch.
MutSweepExecute ==
    /\ sweep.pc = "dispatch"
    /\ status' = [a \in Approval |-> IF a \in sweep.hand THEN "approved" ELSE status[a]]
    /\ SweepNext
    /\ UNCHANGED <<due, waitVars, applied, txn, crashes, history>>

\* An archive proposal nobody objected to is executed: dispatched and approved.
SweepExecute ==
    /\ sweep.pc = "dispatch"
    /\ status' = [a \in Approval |-> IF a \in sweep.hand THEN "approved" ELSE status[a]]
    /\ applied' = [p \in Proposal |-> IF p \in sweep.hand THEN applied[p] + 1 ELSE applied[p]]
    /\ SweepNext
    /\ UNCHANGED <<due, waitVars, txn, crashes, history>>

\* Mutant: a failed dispatch is left to the next sweep.
MutSweepDispatchRetries ==
    /\ sweep.pc = "dispatch"
    /\ SweepNext
    /\ UNCHANGED <<due, waitVars, rowVars, txn, crashes, history>>

\* Mutant: a failed dispatch puts the row back.
MutSweepDispatchReopens ==
    /\ sweep.pc = "dispatch"
    /\ sweep' = [sweep EXCEPT !.pc = "reload"]
    /\ status' = [a \in Approval |-> IF a \in sweep.hand THEN "pending" ELSE status[a]]
    /\ UNCHANGED <<due, waitVars, applied, txn, crashes, history>>

\* DispatchError: rolled back, and the row is rejected instead.
SweepDispatchFails ==
    /\ sweep.pc = "dispatch"
    /\ sweep' = [sweep EXCEPT !.pc = "reload"]
    /\ UNCHANGED <<due, waitVars, rowVars, txn, crashes, history>>

\* _reject_with_audit reloads the row and leaves a decided one alone ...
SweepReload ==
    /\ sweep.pc = "reload"
    /\ IF sweep.hand \subseteq Pending THEN sweep' = [sweep EXCEPT !.pc = "reject"]
                                       ELSE SweepNext
    /\ UNCHANGED <<due, waitVars, rowVars, txn, crashes, history>>

\* ... or closes it as EXPIRED.
SweepReject ==
    /\ sweep.pc = "reject"
    /\ status' = [a \in Approval |-> IF a \in sweep.hand THEN "expired" ELSE status[a]]
    /\ SweepNext
    /\ UNCHANGED <<due, waitVars, applied, txn, crashes, history>>

\* The rejection, or the commit of an execution, raised: rolled back, logged, left to
\* the next sweep.
SweepFails ==
    /\ sweep.pc \in {"dispatch", "reject"}
    /\ SweepNext
    /\ UNCHANGED <<due, waitVars, rowVars, txn, crashes, history>>

-----------------------------------------------------------------------------
Callback(t) ==
    \/ PersistRow(t) \/ PersistFails(t) \/ Register(t)
    \/ Wake(t) \/ TimeOut(t)
    \/ ReRead(t) \/ CloseRow(t) \/ CloseFails(t)

Batches == {B \in SUBSET Approval : Cardinality(B) \in 1..MaxBatch}

Decider ==
    \/ \E k \in Socket : CancelFrame(k) \/ CancelRows(k)
    \/ \E k \in Socket, a \in Approval, op \in {"approve", "deny"} : Answer(k, a, op)
    \/ \E r \in Rest, B \in Batches, op \in {"approve", "deny"} : Decide(r, B, op)
    \/ \E r \in Request : Commit(r) \/ \E a \in Approval : Notify(r, a)

Sweep ==
    \/ SweepStart
    \/ \E a \in Approval : SweepPick(a)
    \/ SweepExecute \/ SweepDispatchFails \/ SweepReload
    \/ SweepReject \/ SweepFails

Environment ==
    \/ \E k \in Socket : Disconnect(k)
    \/ \E p \in Proposal : File(p)
    \/ \E a \in Approval : Expire(a)
    \/ \E p \in Proc : Crash(p)
    \/ WorkerCrash

Next ==
    \/ \E t \in Tool : Callback(t)
    \/ Decider
    \/ Sweep
    \/ Environment

Spec == Init /\ [][Next]_vars

\* What the code schedules: a callback's own steps, the timer of wait_for, the
\* handlers that have begun, the hourly cron.  A commit that keeps being retried is
\* not refused for ever.  Nobody owes a decision.
Fairness ==
    /\ \A t \in Tool : /\ WF_vars(Register(t))
                       /\ WF_vars(Wake(t) \/ TimeOut(t))
                       /\ WF_vars(ReRead(t) \/ CloseRow(t) \/ CloseFails(t))
    /\ \A a \in Approval : WF_vars(Expire(a)) /\ WF_vars(SweepPick(a))
    /\ WF_vars(SweepStart)
    /\ SF_vars(SweepExecute \/ SweepDispatchFails)
    /\ WF_vars(SweepReload)
    /\ SF_vars(SweepReject)
    /\ \A r \in Request : WF_vars(Commit(r)) /\ \A a \in Approval : WF_vars(Notify(r, a))

FairSpec == Spec /\ Fairness

-----------------------------------------------------------------------------
(* Properties.                                                             *)

\* ToolGuard runs a tool only after somebody approved it through this process's
\* manager and after the row had been committed and decided: never off a timeout,
\* a failed write, or a row that is still pending.
RunsOnlyAfterApproval ==
    \A t \in executed : t \in yes /\ status[t] \in Decided

\* No lost wake-up: when a decision is committed in the process where the tool is
\* parked, the future is resolved or a decider is still about to resolve it.
NoLostWakeup ==
    \A t \in landed :
        callback[t] = "parked" /\ entry[t] = "open" =>
            \E r \in Request : txn[r].pc = "wake" /\ t \in txn[r].wake

\* With a single chat connection, a tool whose row was cancelled never runs: the
\* cancel handler unwinds the turn before it flips the rows.
CancelledNeverRuns ==
    \A t \in executed : status[t] # "cancelled"

\* A dispatch and the flip of its row to APPROVED are one commit, and outside the
\* chat socket a proposal is never approved without being dispatched.
DispatchedWithFlip ==
    [][\A p \in Proposal :
          /\ applied'[p] # applied[p] => status'[p] = "approved" /\ applied'[p] = applied[p] + 1
          /\ status[p] # "approved" /\ status'[p] = "approved" => applied'[p] = applied[p] + 1]_vars

\* A decided row is never reopened, by a failed dispatch, a crash or a retry.
NeverReopened ==
    [][\A a \in Approval : status[a] \in Decided => status'[a] \in Decided]_vars

\* Every pending row is eventually closed, even when its dispatch keeps failing,
\* its callback died or its write failed.
PendingSettles ==
    \A a \in Approval : status[a] = "pending" ~> status[a] # "pending"

-----------------------------------------------------------------------------
(* The inductive strengthening of the safety properties.                   *)

\* A call that has not asked has no row, and every row a transaction or the sweep
\* holds was once seen pending.
RowsExist ==
    /\ \A t \in Tool : callback[t] = "idle" => status[t] = "none"
    /\ \A r \in Request : \A a \in txn[r].rows : status[a] # "none"
    /\ \A a \in sweep.todo \cup sweep.hand : status[a] # "none"

\* A decider notifies every row it is about to write, and none it has not written or
\* found decided.
WakesDecided ==
    \A r \in Request :
        /\ txn[r].pc = "open" => txn[r].rows \subseteq txn[r].wake
        /\ \A a \in txn[r].wake :
              (txn[r].pc = "open" /\ a \in txn[r].rows) \/ status[a] \in Decided

\* The manager holds a future exactly while its callback waits.
EntryMeansParked ==
    \A t \in Tool : entry[t] # "none" => callback[t] = "parked"

\* A yes anywhere on its way to the tool is backed by an approval and a decided row.
YesBacked ==
    \A t \in Tool :
        entry[t] = "yes" \/ answer[t] = "yes" \/ t \in executed =>
            t \in yes /\ status[t] \in Decided

\* A tool decided while parked is past its registration, and while its future is
\* open a decider of its own process is still to come.
LandedWakes ==
    \A t \in landed :
        /\ callback[t] \notin {"idle", "persisted"}
        /\ callback[t] = "parked" /\ entry[t] = "open" =>
              \E r \in Request : At[r] = Home(t) /\ txn[r].pc = "wake" /\ t \in txn[r].wake

Inductive == RowsExist /\ WakesDecided /\ EntryMeansParked /\ YesBacked /\ LandedWakes

\* From the moment its connection handles a cancel frame a turn is dead, and what is
\* cancelled then, or already, never ran.
CancelsDead ==
    /\ \A r \in Request : /\ txn[r].pc = "stopped" => txn[r].op = "cancel"
                          /\ txn[r].op = "cancel" => r \in Socket
    /\ \A r \in Request : txn[r].op = "cancel" =>
          /\ \A t \in Tool : Owner[t] = r => callback[t] \notin Live
          /\ \A t \in Tool \cap txn[r].rows : t \notin executed /\ callback[t] # "idle"
    /\ \A t \in Tool : status[t] = "cancelled" =>
          t \notin executed /\ callback[t] \notin Live \cup {"idle"}

-----------------------------------------------------------------------------
(* What the deciders promise together, and their races break.              *)

\* An approved proposal is dispatched once.
DispatchedOnce == \A p \in Proposal : applied[p] <= 1
=============================================================================
