---------------------------- MODULE SubagentRuns ----------------------------
(***************************************************************************)
(* One batch of sub-agents (agents/harness/subagents.py) and its rows in   *)
(* subagent_runs (services/subagent_run.py): the children under their      *)
(* semaphore, the hallucination gate that parks a child behind a review,   *)
(* the zombie reaper, and everybody who decides a review.                  *)
(*                                                                         *)
(* A session keeps the row it read first: a handler that awaits between    *)
(* that read and its commit decides from the old state, and its UPDATE     *)
(* names only the primary key.  The read and the commit are two steps.     *)
(*                                                                         *)
(* Time is left out.  No code calls on_child_heartbeat, so any RUNNING row *)
(* may be found quiet, and any open review expired.                        *)
(***************************************************************************)
EXTENDS Naturals, FiniteSets

CONSTANTS
    Child,       \* the accepted tasks of one batch
    Slots,       \* effective_max_concurrent
    Rest,        \* concurrent REST decisions
    Ttl,         \* the approval TTL sweep of the worker
    Chat,        \* connections of the parent's session that may send a cancel frame
    BatchLimit,  \* _REAP_BATCH_LIMIT
    MaxCrash     \* bound on process crashes

Request == Rest \cup {Ttl} \cup Chat

ASSUME ConstantsAssumption ==
    /\ Slots \in Nat \ {0}
    /\ BatchLimit \in Nat \ {0}
    /\ MaxCrash \in Nat
    /\ Ttl \notin Rest \cup Chat
    /\ Rest \cap Chat = {}

VARIABLES
    row,      \* subagent_runs.state of each child; "none" before it is committed
    review,   \* status of the child's hallucination approval; "none" before it is filed
    child,    \* where _run_single_child is
    stopped,  \* the parent's task was cancelled, or died
    reap,     \* the reaper: rows listed, row in hand
    txn,      \* the deciding request each handler is in
    crashes

vars == <<row, review, child, stopped, reap, txn, crashes>>
rowVars == <<row, review>>
batchVars == <<child, stopped>>

Terminal == {"completed", "zombie", "killed", "failed"}
Working == {"working", "judging", "late", "failing"}
Pending == {c \in Child : review[c] = "pending"}
Active == {c \in Child : child[c] \in Working}
NoReap == [todo |-> {}, hand |-> {}]
Idle == [pc |-> "idle", op |-> "deny", reviews |-> {}, runs |-> {}]

TypeOK ==
    /\ row \in [Child -> {"none", "running", "review"} \cup Terminal]
    /\ review \in [Child -> {"none", "pending", "approved", "denied", "expired", "cancelled"}]
    /\ child \in [Child -> {"idle"} \cup Working \cup {"over"}]
    /\ stopped \in BOOLEAN
    /\ reap \in [todo : SUBSET Child, hand : SUBSET Child]
    /\ txn \in [Request -> [pc : {"idle", "read", "open"},
                            op : {"approve", "deny", "expire", "cancel"},
                            reviews : SUBSET Child,
                            runs : SUBSET Child]]
    /\ crashes \in Nat

Init ==
    /\ row = [c \in Child |-> "none"]
    /\ review = [c \in Child |-> "none"]
    /\ child = [c \in Child |-> "idle"]
    /\ stopped = FALSE
    /\ reap = NoReap
    /\ txn = [r \in Request |-> Idle]
    /\ crashes = 0

-----------------------------------------------------------------------------
(* One child.                                                              *)

Goes(c, place) == child' = [child EXCEPT ![c] = place]

\* Mutant: a slot is never given back.
MutMayStart(c) ==
    /\ child[c] = "idle"
    /\ ~stopped
    /\ Cardinality({d \in Child : child[d] # "idle"}) < Slots

\* A slot of the semaphore is free and the batch is still wanted.
MayStart(c) ==
    /\ child[c] = "idle"
    /\ ~stopped
    /\ Cardinality(Active) < Slots

\* on_child_start: the row is committed RUNNING.
Start(c) ==
    /\ MayStart(c)
    /\ Goes(c, "working")
    /\ row' = [row EXCEPT ![c] = "running"]
    /\ UNCHANGED <<review, stopped, reap, txn, crashes>>

\* The registration failed: logged, the child runs without a row.
StartUnregistered(c) ==
    /\ MayStart(c)
    /\ Goes(c, "working")
    /\ UNCHANGED <<rowVars, stopped, reap, txn, crashes>>

\* The child answered; on_child_complete reads its row.  Without one it returns
\* "missing"; with one, terminal or not, the output goes to the judge.
Finish(c) ==
    /\ child[c] = "working"
    /\ ~stopped
    /\ Goes(c, CASE row[c] = "none" -> "over"
                 [] row[c] = "running" -> "judging"
                 [] OTHER -> "late")
    /\ UNCHANGED <<rowVars, stopped, reap, txn, crashes>>

\* The output was trusted: good score, open breaker, or no judge to ask.
GatePass(c) ==
    /\ child[c] \in {"judging", "late"}
    /\ Goes(c, "over")
    /\ row' = [row EXCEPT ![c] = IF child[c] = "judging" THEN "completed" ELSE @]
    /\ UNCHANGED <<review, stopped, reap, txn, crashes>>

\* Mutant: the run is parked, its review is not filed.
MutGatePark(c) ==
    /\ child[c] \in {"judging", "late"}
    /\ Goes(c, "over")
    /\ row' = [row EXCEPT ![c] = IF child[c] = "judging" THEN "review" ELSE @]
    /\ UNCHANGED <<review, stopped, reap, txn, crashes>>

\* Below the threshold: a review is filed in any case, and the run is parked behind
\* it unless it was terminal when on_child_complete read it.
GatePark(c) ==
    /\ child[c] \in {"judging", "late"}
    /\ Goes(c, "over")
    /\ row' = [row EXCEPT ![c] = IF child[c] = "judging" THEN "review" ELSE @]
    /\ review' = [review EXCEPT ![c] = "pending"]
    /\ UNCHANGED <<stopped, reap, txn, crashes>>

\* No model, timeout, cancellation or exception; on_child_failed reads the row and
\* leaves a missing or terminal one alone.
Fail(c) ==
    /\ child[c] = "working"
    /\ Goes(c, IF row[c] = "running" THEN "failing" ELSE "over")
    /\ UNCHANGED <<rowVars, stopped, reap, txn, crashes>>

FailCommit(c) ==
    /\ child[c] = "failing"
    /\ Goes(c, "over")
    /\ row' = [row EXCEPT ![c] = "failed"]
    /\ UNCHANGED <<review, stopped, reap, txn, crashes>>

\* The hook failed, which it logs, or the cancellation reached it, which its "except
\* Exception" does not catch: rolled back either way, and the child is over.
WriteFails(c) ==
    /\ child[c] \in {"judging", "late", "failing"}
    /\ Goes(c, "over")
    /\ UNCHANGED <<rowVars, stopped, reap, txn, crashes>>

\* The parent's task is cancelled: tasks that wait for a slot are dropped.
Stop ==
    /\ ~stopped
    /\ stopped' = TRUE
    /\ UNCHANGED <<rowVars, child, reap, txn, crashes>>

-----------------------------------------------------------------------------
(* The reaper.                                                             *)

Running == {c \in Child : row[c] = "running"}

\* Mutant: RUNNING rows of children that returned are not listed.
MutReapStart ==
    /\ reap = NoReap
    /\ Running \cap Active # {}
    /\ reap' = [NoReap EXCEPT !.todo = Running \cap Active]
    /\ UNCHANGED <<rowVars, batchVars, txn, crashes>>

\* list_stale, every minute: the RUNNING rows quiet for 300 s, at most a batch.
ReapStart ==
    /\ reap = NoReap
    /\ \E batch \in SUBSET Running \ {{}} :
          /\ Cardinality(batch) <= BatchLimit
          /\ reap' = [NoReap EXCEPT !.todo = batch]
    /\ UNCHANGED <<rowVars, batchVars, txn, crashes>>

\* _reap_one reads the row anew and skips one that is no longer RUNNING.
ReapRead(c) ==
    /\ reap.hand = {}
    /\ c \in reap.todo
    /\ reap' = [todo |-> reap.todo \ {c}, hand |-> {c} \cap Running]
    /\ UNCHANGED <<rowVars, batchVars, txn, crashes>>

\* The row it read RUNNING becomes ZOMBIE.  Such a row names no review, so none is
\* cancelled, and its retry count is still 0.
ReapCommit ==
    /\ reap.hand # {}
    /\ row' = [c \in Child |-> IF c \in reap.hand THEN "zombie" ELSE row[c]]
    /\ reap' = [reap EXCEPT !.hand = {}]
    /\ UNCHANGED <<review, batchVars, txn, crashes>>

\* A failure on one row is logged and the sweep goes on.
ReapFails ==
    /\ reap.hand # {}
    /\ reap' = [reap EXCEPT !.hand = {}]
    /\ UNCHANGED <<rowVars, batchVars, txn, crashes>>

-----------------------------------------------------------------------------
(* The deciders of a review.                                               *)

Begin(r, pc, op, reviews) ==
    txn' = [txn EXCEPT ![r] = [pc |-> pc, op |-> op, reviews |-> reviews, runs |-> {}]]

\* POST .../decision or .../bulk-decision: reviews no longer pending are refused.
Decide(r, B, op) ==
    /\ txn[r].pc = "idle"
    /\ B # {} /\ B \subseteq Pending
    /\ Begin(r, "read", op, B)
    /\ UNCHANGED <<rowVars, batchVars, reap, crashes>>

\* Mutant: the reviews of parked runs are left to the administrators.
MutExpire(c) ==
    /\ txn[Ttl].pc = "idle"
    /\ c \in Pending
    /\ row[c] # "review"
    /\ Begin(Ttl, "read", "expire", {c})
    /\ UNCHANGED <<rowVars, batchVars, reap, crashes>>

\* The TTL sweep takes an expired review and will reject it as EXPIRED.
Expire(c) ==
    /\ txn[Ttl].pc = "idle"
    /\ c \in Pending
    /\ Begin(Ttl, "read", "expire", {c})
    /\ UNCHANGED <<rowVars, batchVars, reap, crashes>>

\* A cancel frame reads the pending approvals of the session, reviews among them; it
\* flips the rows itself and never reads the runs.  (Decision frames name the approvals
\* that were pushed to the client, tool calls only.)
CancelFrame(k) ==
    /\ txn[k].pc = "idle"
    /\ Pending # {}
    /\ Begin(k, "open", "cancel", Pending)
    /\ UNCHANGED <<rowVars, batchVars, reap, crashes>>

\* apply_hallucination_decision reads the runs; a terminal one is left alone.
ReadRuns(r) ==
    /\ txn[r].pc = "read"
    /\ txn' = [txn EXCEPT ![r] = [@ EXCEPT !.pc = "open",
                                 !.runs = {c \in txn[r].reviews : row[c] \notin Terminal}]]
    /\ UNCHANGED <<rowVars, batchVars, reap, crashes>>

Verdict(op) == CASE op = "approve" -> "approved"
                 [] op = "deny" -> "denied"
                 [] op = "expire" -> "expired"
                 [] op = "cancel" -> "cancelled"

\* Mutant: an expired review lets its child complete.
MutTarget(op) == IF op = "deny" THEN "killed" ELSE "completed"

\* Mutant: the run takes the status of the approval.
MutTargetStatus(op) == IF op = "approve" THEN "completed" ELSE Verdict(op)

Target(op) == IF op = "approve" THEN "completed" ELSE "killed"

\* Reviews and runs are committed together, but for the reviews of a batch that
\* failed and were rolled back to their savepoint; what was committed to them since
\* they were read is overwritten.
Commit(r, failed) ==
    /\ txn[r].pc = "open"
    /\ LET x == txn[r]
       IN  /\ review' = [c \in Child |->
                           IF c \in x.reviews \ failed THEN Verdict(x.op) ELSE review[c]]
           /\ row' = [c \in Child |->
                        IF c \in x.runs \ failed THEN Target(x.op) ELSE row[c]]
    /\ txn' = [txn EXCEPT ![r] = Idle]
    /\ UNCHANGED <<batchVars, reap, crashes>>

\* The transaction failed, here or before: rolled back.
Abort(r) ==
    /\ txn[r].pc = "open"
    /\ txn' = [txn EXCEPT ![r] = Idle]
    /\ UNCHANGED <<rowVars, batchVars, reap, crashes>>

-----------------------------------------------------------------------------
(* Crashes.                                                                *)

\* The backend process dies with the batch and the open requests.
Crash ==
    /\ crashes < MaxCrash
    /\ crashes' = crashes + 1
    /\ stopped' = TRUE
    /\ child' = [c \in Child |-> IF c \in Active THEN "over" ELSE child[c]]
    /\ txn' = [r \in Request |-> IF r = Ttl THEN txn[r] ELSE Idle]
    /\ UNCHANGED <<rowVars, reap>>

\* The worker dies in the reaper or in the TTL sweep.
WorkerCrash ==
    /\ crashes < MaxCrash
    /\ reap # NoReap \/ txn[Ttl].pc # "idle"
    /\ crashes' = crashes + 1
    /\ reap' = NoReap
    /\ txn' = [txn EXCEPT ![Ttl] = Idle]
    /\ UNCHANGED <<rowVars, batchVars>>

-----------------------------------------------------------------------------
Run(c) ==
    \/ Start(c) \/ StartUnregistered(c)
    \/ Finish(c) \/ GatePass(c) \/ GatePark(c)
    \/ Fail(c) \/ FailCommit(c) \/ WriteFails(c)

Reaper ==
    \/ ReapStart \/ ReapCommit \/ ReapFails
    \/ \E c \in Child : ReapRead(c)

Decider ==
    \/ \E r \in Rest, B \in SUBSET Child, op \in {"approve", "deny"} : Decide(r, B, op)
    \/ \E c \in Child : Expire(c)
    \/ \E k \in Chat : CancelFrame(k)
    \/ \E r \in Request : ReadRuns(r) \/ Commit(r, {}) \/ Abort(r)
    \/ \E r \in Rest, failed \in SUBSET Child : Commit(r, failed)

Environment ==
    \/ Stop \/ Crash \/ WorkerCrash

Next ==
    \/ \E c \in Child : Run(c)
    \/ Reaper
    \/ Decider
    \/ Environment

Spec == Init /\ [][Next]_vars

\* wait_for bounds a child's work and the judge has its own timeout; a slot goes to a
\* waiting task; rows fall quiet, reviews expire; the crons start every minute and
\* every hour, and their commits are not refused for ever.  Nobody owes a decision.
Fairness ==
    /\ \A c \in Child :
          /\ WF_vars(Start(c) \/ StartUnregistered(c))
          /\ WF_vars(Finish(c) \/ Fail(c))
          /\ WF_vars(GatePass(c) \/ GatePark(c) \/ FailCommit(c) \/ WriteFails(c))
    /\ WF_vars(ReapStart)
    /\ WF_vars(\E c \in Child : ReapRead(c))
    /\ SF_vars(ReapCommit)
    /\ WF_vars(\E c \in Child : Expire(c))
    /\ WF_vars(ReadRuns(Ttl))
    /\ SF_vars(Commit(Ttl, {}))

FairSpec == Spec /\ Fairness

-----------------------------------------------------------------------------
(* Properties.                                                             *)

\* A parked run always has somebody to wait for: its review is open, unless a cancel
\* frame of the session closed it.
ParkedHasReview ==
    \A c \in Child :
        row[c] = "review" =>
            review[c] = "pending" \/ (review[c] = "cancelled" /\ Chat # {})

\* A run leaves the review with the verdict on it, in the same commit, or as a zombie
\* by a reaper that read it before it was parked.
LeavesWithVerdict ==
    [][\A c \in Child :
          row[c] = "review" /\ row'[c] # "review" =>
              \/ row'[c] = "completed" /\ review'[c] = "approved"
              \/ row'[c] = "killed" /\ review'[c] \in {"denied", "expired"}
              \/ row'[c] = "zombie"]_vars

\* A child whose task is over, in whatever way, is not RUNNING for ever.
OrphanReaped ==
    \A c \in Child :
        row[c] = "running" /\ child[c] = "over" ~> row[c] # "running"

\* A parked run is settled even if nobody answers its review; only a cancel frame
\* can strand it.
ReviewSettles ==
    \A c \in Child :
        row[c] = "review" ~> row[c] # "review" \/ review[c] = "cancelled"

\* The batch returns: every task ran or was dropped, whatever its siblings do.
BatchReturns ==
    <>(\A c \in Child : child[c] = "over" \/ (child[c] = "idle" /\ stopped))

-----------------------------------------------------------------------------
(* The inductive strengthening of ParkedHasReview.                         *)

\* A review is filed by the last step of its child, and a run is parked by it.
FiledAtEnd ==
    \A c \in Child :
        child[c] \in {"idle"} \cup Working =>
            review[c] = "none" /\ row[c] # "review"

\* What a decider holds was filed; a run it will not write is not parked.
HoldsFiled ==
    \A r \in Request : \A c \in txn[r].reviews :
        /\ review[c] # "none"
        /\ txn[r].pc = "open" /\ txn[r].op # "cancel" /\ row[c] = "review" => c \in txn[r].runs

\* Only reviews are decided, and only a chat connection cancels.
DecidersHold ==
    \A r \in Request :
        /\ txn[r].runs \subseteq txn[r].reviews
        /\ txn[r].op = "cancel" => r \in Chat /\ txn[r].pc = "open" /\ txn[r].runs = {}

Inductive == ParkedHasReview /\ FiledAtEnd /\ HoldsFiled /\ DecidersHold
=============================================================================
