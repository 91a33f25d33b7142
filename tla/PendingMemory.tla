--------------------------- MODULE PendingMemory ---------------------------
(***************************************************************************)
(* The queue of deferred memory writes of one workspace and bucket         *)
(* (services/pending_memory.py).  A turn queues rows; the hook that ends a *)
(* turn promotes the rows of its session; a sweep, from cron or from an    *)
(* operator, promotes and retries those of quiet sessions; the user may    *)
(* cancel a row.                                                           *)
(*                                                                         *)
(* A pass is one transaction: it reads what is committed and its own       *)
(* writes, an UPDATE waits while another transaction has updated the row,  *)
(* and Commit publishes everything at once.  Every memory has one length,  *)
(* and the rows carry memories without a key, which store() never merges.  *)
(***************************************************************************)
EXTENDS Naturals, Sequences, FiniteSets, Functions, SequencesExt, FiniteSetsExt

CONSTANTS
    Rows,         \* rows 1..Rows, by created_at
    Session,
    SessionOf,    \* the session that queues each row
    Pass,         \* transactions that promote
    Sweep,        \* those of the sweep; the others are hooks
    Limit,        \* promotion_max_per_session
    MaxFailures,  \* max_failure_count_before_skip
    Cap,          \* always_on_max_chars, in memories
    None,
    MaxUpsets     \* bound: messages to quiet sessions, and passes rolled back, together

Row == 1 .. Rows
Hook == Pass \ Sweep
Settled == {"promoted", "skipped"}
State == {"none", "pending", "failed"} \cup Settled
Version == [status : State, failures : Nat]

ASSUME ConstantsAssumption ==
    /\ Rows \in Nat /\ Limit \in Nat \ {0} /\ MaxFailures \in Nat \ {0} /\ Cap \in Nat
    /\ MaxUpsets \in Nat
    /\ SessionOf \in [Row -> Session]
    /\ Sweep \subseteq Pass
    /\ None \notin Version

VARIABLES
    status,    \* committed
    failures,  \* failure_count, committed
    copies,    \* live memories made from each row, committed
    quiet,     \* sessions without a message for half an hour
    old,       \* rows 1 .. old were queued half an hour ago or more
    at,        \* where each pass is
    todo,      \* rows the pass has yet to check or to promote
    kept,      \* rows of the sweep whose session it found quiet
    seen,      \* the rows the pass has read, as it has them in its objects
    mine,      \* rows the pass has updated, as it will commit them
    added,     \* memories the pass has made of each row
    verdict,   \* what apply_payload said of the row in hand
    asking,    \* rows whose cancel request has read PENDING
    raced,     \* history: rows that one transaction read while another had them
    upsets     \* counts what MaxUpsets bounds

rowVars == <<status, failures, copies>>
passVars == <<at, todo, kept, seen, mine, added, verdict>>
vars == <<rowVars, quiet, old, passVars, asking, raced, upsets>>

TypeOK ==
    /\ status \in [Row -> State]
    /\ failures \in [Row -> Nat]
    /\ copies \in [Row -> Nat]
    /\ quiet \in SUBSET Session
    /\ old \in 0 .. Rows
    /\ at \in [Pass -> {"idle", "visiting", "retrying", "checking", "applying"}]
    /\ todo \in [Pass -> Seq(Row)]
    /\ kept \in [Pass -> Seq(Row)]
    /\ seen \in [Pass -> [Row -> Version \cup {None}]]
    /\ mine \in [Pass -> [Row -> Version \cup {None}]]
    /\ added \in [Pass -> [Row -> Nat]]
    /\ verdict \in [Pass -> {"none", "promoted", "skipped", "failed"}]
    /\ asking \in SUBSET Row
    /\ raced \in SUBSET Row
    /\ upsets \in 0 .. MaxUpsets

Init ==
    /\ status = [r \in Row |-> "none"]
    /\ failures = [r \in Row |-> 0]
    /\ copies = [r \in Row |-> 0]
    /\ quiet = {}
    /\ old = 0
    /\ at = [p \in Pass |-> "idle"]
    /\ todo = [p \in Pass |-> <<>>]
    /\ kept = [p \in Pass |-> <<>>]
    /\ seen = [p \in Pass |-> [r \in Row |-> None]]
    /\ mine = [p \in Pass |-> [r \in Row |-> None]]
    /\ added = [p \in Pass |-> [r \in Row |-> 0]]
    /\ verdict = [p \in Pass |-> "none"]
    /\ asking = {}
    /\ raced = {}
    /\ upsets = 0

\* What a query for the rows of S may return: the first Limit of them, oldest first.
Oldest(S) ==
    LET first == {r \in S : Cardinality({q \in S : q < r}) < Limit}
    IN  {list \in [1 .. Cardinality(first) -> first] :
            \A i, j \in DOMAIN list : i < j => list[i] < list[j]}

Unlocked(p, r) == \A q \in Pass \ {p} : mine[q][r] = None

\* Rows of S that another transaction has read and not finished with.
Shared(p, S) == {r \in S : r \in asking \/ \E q \in Pass \ {p} : seen[q][r] # None}

-----------------------------------------------------------------------------
(* The session.                                                            *)

\* memorize(), by default for the next session; rows are numbered as they come.
Queue(r) ==
    /\ status[r] = "none"
    /\ \A q \in 1 .. r - 1 : status[q] # "none"
    /\ SessionOf[r] \notin quiet
    /\ status' = [status EXCEPT ![r] = "pending"]
    /\ UNCHANGED <<failures, copies, quiet, old, passVars, asking, raced, upsets>>

Quieten(s) ==
    /\ s \notin quiet
    /\ quiet' = quiet \cup {s}
    /\ UNCHANGED <<rowVars, old, passVars, asking, raced, upsets>>

\* Rows grow old in the order in which they were queued.
Age ==
    /\ old < Rows
    /\ status[old + 1] # "none"
    /\ old' = old + 1
    /\ UNCHANGED <<rowVars, quiet, passVars, asking, raced, upsets>>

Reply(s) ==
    /\ s \in quiet
    /\ upsets < MaxUpsets
    /\ quiet' = quiet \ {s}
    /\ upsets' = upsets + 1
    /\ UNCHANGED <<rowVars, old, passVars, asking, raced>>

-----------------------------------------------------------------------------
(* The passes.                                                             *)

\* p reads the rows in list after those it holds, and goes on to stage.  An object that is
\* loaded already stays as it is.
Take(p, list, stage) ==
    /\ at' = [at EXCEPT ![p] = stage]
    /\ todo' = [todo EXCEPT ![p] = @ \o list]
    /\ seen' = [seen EXCEPT ![p] =
                    [r \in Row |-> IF @[r] = None /\ r \in Range(list)
                                   THEN [status |-> status[r], failures |-> failures[r]]
                                   ELSE @[r]]]
    /\ raced' = raced \cup Shared(p, Range(list))

\* Mutant: the query leaves the status out.
MutHookList(p, s) ==
    LET wanted == {r \in Row : status[r] # "none" /\ SessionOf[r] = s}
    IN  /\ at[p] = "idle"
        /\ s \notin quiet
        /\ wanted # {}
        /\ \E list \in Oldest(wanted) : Take(p, list, "applying")
        /\ UNCHANGED <<rowVars, quiet, old, kept, mine, added, verdict, asking, upsets>>

\* promote_pending_memories_for_session, after the turn.
HookList(p, s) ==
    LET wanted == {r \in Row : status[r] = "pending" /\ SessionOf[r] = s}
    IN  /\ at[p] = "idle"
        /\ s \notin quiet
        /\ wanted # {}
        /\ \E list \in Oldest(wanted) : Take(p, list, "applying")
        /\ UNCHANGED <<rowVars, quiet, old, kept, mine, added, verdict, asking, upsets>>

\* Mutant: the workspace is visited for a FAILED row only.
MutVisit(p) ==
    /\ at[p] = "idle"
    /\ \E r \in Row : status[r] = "failed"
    /\ at' = [at EXCEPT ![p] = "visiting"]
    /\ UNCHANGED <<rowVars, quiet, old, todo, kept, seen, mine, added, verdict, asking, raced,
                   upsets>>

\* list_active_workspace_ids: the workspace is visited for a PENDING row only.
Visit(p) ==
    /\ at[p] = "idle"
    /\ \E r \in Row : status[r] = "pending"
    /\ at' = [at EXCEPT ![p] = "visiting"]
    /\ UNCHANGED <<rowVars, quiet, old, todo, kept, seen, mine, added, verdict, asking, raced,
                   upsets>>

\* list_pending_for_workspace, of rows older than the cut-off.
SweepList(p) ==
    LET wanted == {r \in 1 .. old : status[r] = "pending"}
    IN  /\ at[p] = "visiting"
        /\ \E list \in Oldest(wanted) : Take(p, list, "retrying")
        /\ UNCHANGED <<rowVars, quiet, old, kept, mine, added, verdict, asking, upsets>>

\* list_eligible_for_retry, a query of its own with the same cut-off.
SweepRetry(p) ==
    LET wanted == {r \in 1 .. old : status[r] = "failed" /\ failures[r] < MaxFailures}
    IN  /\ at[p] = "retrying"
        /\ \E list \in Oldest(wanted) : Take(p, list, "checking")
        /\ UNCHANGED <<rowVars, quiet, old, kept, mine, added, verdict, asking, upsets>>

\* The last row kept is a FAILED one, which is reset before the next is looked at.
ToReset(p) == kept[p] # <<>> /\ seen[p][Last(kept[p])].status = "failed"

\* _session_is_quiet keeps the row or not.
Check(p) ==
    LET r == Head(todo[p])
    IN  /\ at[p] = "checking"
        /\ todo[p] # <<>>
        /\ ~ToReset(p)
        /\ todo' = [todo EXCEPT ![p] = Tail(@)]
        /\ kept' = IF SessionOf[r] \in quiet THEN [kept EXCEPT ![p] = Append(@, r)] ELSE kept
        /\ UNCHANGED <<rowVars, quiet, old, at, seen, mine, added, verdict, asking, raced,
                       upsets>>

\* Mutant: the reset clears the count to NULL.
MutReset(p) ==
    LET r == Last(kept[p])
        row == [status |-> "pending", failures |-> None]
    IN  /\ at[p] = "checking"
        /\ ToReset(p)
        /\ Unlocked(p, r)
        /\ mine' = [mine EXCEPT ![p][r] = row]
        /\ seen' = [seen EXCEPT ![p][r] = row]
        /\ UNCHANGED <<rowVars, quiet, old, at, todo, kept, added, verdict, asking, raced,
                       upsets>>

\* reset_failed_to_pending: the UPDATE, then a refresh of the object.
Reset(p) ==
    LET r == Last(kept[p])
        row == [status |-> "pending", failures |-> failures[r]]
    IN  /\ at[p] = "checking"
        /\ ToReset(p)
        /\ Unlocked(p, r)
        /\ mine' = [mine EXCEPT ![p][r] = row]
        /\ seen' = [seen EXCEPT ![p][r] = row]
        /\ UNCHANGED <<rowVars, quiet, old, at, todo, kept, added, verdict, asking, raced,
                       upsets>>

Promote(p) ==
    /\ at[p] = "checking"
    /\ todo[p] = <<>>
    /\ ~ToReset(p)
    /\ at' = [at EXCEPT ![p] = "applying"]
    /\ todo' = [todo EXCEPT ![p] = kept[p]]
    /\ kept' = [kept EXCEPT ![p] = <<>>]
    /\ UNCHANGED <<rowVars, quiet, old, seen, mine, added, verdict, asking, raced, upsets>>

\* The memories a pass sees: the committed ones and its own.
Room(p) == MapThenSumSet(LAMBDA r : copies[r] + added[p][r], Row) < Cap

\* Mutant: the memory is committed in a session of its own.
MutApply(p, v) ==
    LET r == Head(todo[p])
    IN  /\ at[p] = "applying"
        /\ todo[p] # <<>>
        /\ verdict[p] = "none"
        /\ v = "promoted" => Room(p)
        /\ copies' = IF v = "promoted" THEN [copies EXCEPT ![r] = @ + 1] ELSE copies
        /\ verdict' = [verdict EXCEPT ![p] = v]
        /\ UNCHANGED <<status, failures, quiet, old, at, todo, kept, seen, mine, added, asking,
                       raced, upsets>>

\* _apply_for_target.  Validation comes first and the cap next; whatever else raises, as
\* the lookup of the embedder may, is a failure; only then is the memory inserted.
Apply(p, v) ==
    LET r == Head(todo[p])
    IN  /\ at[p] = "applying"
        /\ todo[p] # <<>>
        /\ verdict[p] = "none"
        /\ v = "promoted" => Room(p)
        /\ added' = IF v = "promoted" THEN [added EXCEPT ![p][r] = @ + 1] ELSE added
        /\ verdict' = [verdict EXCEPT ![p] = v]
        /\ UNCHANGED <<rowVars, quiet, old, at, todo, kept, seen, mine, asking, raced, upsets>>

\* mark_promoted, mark_skipped, or mark_failed, which counts on from the object's count,
\* refreshed by the pass's own writes, and skips the row at the ceiling.
Outcome(p, r) ==
    LET written == mine[p][r] # None
        stored  == IF written THEN mine[p][r].failures ELSE failures[r]
        count   == IF written THEN mine[p][r].failures + 1 ELSE seen[p][r].failures + 1
    IN  CASE verdict[p] # "failed" -> [status |-> verdict[p], failures |-> stored]
          [] verdict[p] = "failed" /\ count < MaxFailures ->
                [status |-> "failed", failures |-> count]
          [] OTHER -> [status |-> "skipped", failures |-> count]

Mark(p) ==
    LET r == Head(todo[p])
    IN  /\ at[p] = "applying"
        /\ verdict[p] # "none"
        /\ Unlocked(p, r)
        /\ mine' = [mine EXCEPT ![p][r] = Outcome(p, r)]
        /\ todo' = [todo EXCEPT ![p] = Tail(@)]
        /\ verdict' = [verdict EXCEPT ![p] = "none"]
        /\ UNCHANGED <<rowVars, quiet, old, at, kept, seen, added, asking, raced, upsets>>

\* The pass forgets what it has read and written.
End(p) ==
    /\ at' = [at EXCEPT ![p] = "idle"]
    /\ todo' = [todo EXCEPT ![p] = <<>>]
    /\ kept' = [kept EXCEPT ![p] = <<>>]
    /\ seen' = [seen EXCEPT ![p] = [r \in Row |-> None]]
    /\ mine' = [mine EXCEPT ![p] = [r \in Row |-> None]]
    /\ added' = [added EXCEPT ![p] = [r \in Row |-> 0]]
    /\ verdict' = [verdict EXCEPT ![p] = "none"]

Commit(p) ==
    /\ at[p] = "applying"
    /\ todo[p] = <<>>
    /\ status' = [r \in Row |-> IF mine[p][r] = None THEN status[r] ELSE mine[p][r].status]
    /\ failures' = [r \in Row |-> IF mine[p][r] = None THEN failures[r]
                                  ELSE mine[p][r].failures]
    /\ copies' = [r \in Row |-> copies[r] + added[p][r]]
    /\ End(p)
    /\ UNCHANGED <<quiet, old, asking, raced, upsets>>

\* The process ends, the job times out or a statement fails: all is rolled back.
Abort(p) ==
    /\ at[p] # "idle"
    /\ upsets < MaxUpsets
    /\ upsets' = upsets + 1
    /\ End(p)
    /\ UNCHANGED <<rowVars, quiet, old, asking, raced>>

\* p is at an UPDATE of a row that q has updated.
Waits(p, q) ==
    \/ at[p] = "checking" /\ ToReset(p) /\ mine[q][Last(kept[p])] # None
    \/ verdict[p] # "none" /\ mine[q][Head(todo[p])] # None

\* The database ends a deadlock of two transactions at the cost of one.
Deadlock(p) ==
    /\ \E q \in Pass \ {p} : Waits(p, q) /\ Waits(q, p)
    /\ End(p)
    /\ UNCHANGED <<rowVars, quiet, old, asking, raced, upsets>>

-----------------------------------------------------------------------------
(* The user's cancellation.                                                *)

CancelRead(r) ==
    /\ r \notin asking
    /\ status[r] = "pending"
    /\ asking' = asking \cup {r}
    /\ raced' = IF \E p \in Pass : seen[p][r] # None THEN raced \cup {r} ELSE raced
    /\ UNCHANGED <<rowVars, quiet, old, passVars, upsets>>

\* mark_skipped and the commit.
CancelWrite(r) ==
    /\ r \in asking
    /\ \A p \in Pass : mine[p][r] = None
    /\ asking' = asking \ {r}
    /\ status' = [status EXCEPT ![r] = "skipped"]
    /\ UNCHANGED <<failures, copies, quiet, old, passVars, raced, upsets>>

-----------------------------------------------------------------------------
Advance(p) ==
    \/ SweepList(p) \/ SweepRetry(p) \/ Check(p) \/ Reset(p) \/ Promote(p)
    \/ \E v \in {"promoted", "skipped", "failed"} : Apply(p, v)
    \/ Mark(p) \/ Commit(p) \/ Deadlock(p)

Next ==
    \/ \E r \in Row : Queue(r) \/ CancelRead(r) \/ CancelWrite(r)
    \/ \E s \in Session : Quieten(s) \/ Reply(s)
    \/ Age
    \/ \E p \in Hook, s \in Session : HookList(p, s)
    \/ \E p \in Sweep : Visit(p)
    \/ \E p \in Pass : Advance(p) \/ Abort(p)

Spec == Init /\ [][Next]_vars

\* A pass that has begun goes on, an UPDATE that waits is served in its turn when locks
\* are released, the cron sweeps come again and again, and half an hour goes by; no turn
\* need end, no user need cancel and nothing need roll back.
Fairness ==
    /\ \A p \in Pass : SF_vars(Advance(p))
    /\ \A p \in Sweep : WF_vars(Visit(p))
    /\ (\A s \in Session : WF_vars(Quieten(s))) /\ WF_vars(Age)

FairSpec == Spec /\ Fairness

-----------------------------------------------------------------------------
(* Properties.                                                             *)

\* A row that no two transactions had in hand at once has made one memory if it is
\* PROMOTED and none otherwise, however often the passes rolled back and ran again
\* ("Idempotent", promote_pending_memories_for_session).
PromotedOnce ==
    \A r \in Row \ raced : copies[r] = IF status[r] = "promoted" THEN 1 ELSE 0

\* Transactions that hold the row since they read it.
Readers(r) == {p \in Pass : seen[p][r] # None}

\* Nobody takes up a settled row, and it is written again only by a transaction, or a
\* cancel request, that holds it since before it settled, and that is through with it then:
\* once by each at most, however many hooks and sweeps come later.
SettledStays ==
    [][\A r \in Row : status[r] \in Settled =>
          /\ Readers(r)' \subseteq Readers(r)
          /\ r \in asking' => r \in asking
          /\ \/ UNCHANGED <<status[r], failures[r], copies[r]>>
             \/ Readers(r)' # Readers(r)
             \/ r \in asking \ asking']_vars

\* A PENDING row is taken up, although its session sends no further message, its hook
\* failed and sweeps rolled back.
PendingIsTakenUp == \A r \in Row : status[r] = "pending" ~> status[r] # "pending"

-----------------------------------------------------------------------------
(* The inductive strengthening of PromotedOnce.                            *)

Once(s, r) == \A i, j \in DOMAIN s : s[i] = r /\ s[j] = r => i = j

\* The rows a pass may still work on.
Ahead(p) == Range(todo[p]) \cup Range(kept[p])

\* What a pass holds at each stage.
Stages ==
    \A p \in Pass :
        /\ at[p] \in {"idle", "visiting"} => todo[p] = <<>> /\ \A r \in Row : seen[p][r] = None
        /\ at[p] \in {"idle", "visiting", "retrying"} =>
              \A r \in Row : mine[p][r] = None /\ added[p][r] = 0
        /\ at[p] # "checking" => kept[p] = <<>>
        /\ verdict[p] # "none" => at[p] = "applying" /\ todo[p] # <<>>

\* A pass works on rows it has read.
ReadFirst ==
    \A p \in Pass : \A r \in Row :
        seen[p][r] = None => mine[p][r] = None /\ added[p][r] = 0 /\ r \notin Ahead(p)

\* A row that was not raced for is in one hand, and was open when it was read.
Alone ==
    \A r \in Row \ raced :
        /\ \A p, q \in Pass : seen[p][r] # None /\ seen[q][r] # None => p = q
        /\ \A p \in Pass : seen[p][r] # None =>
              /\ status[r] \in {"pending", "failed"}
              /\ at[p] = "retrying" => status[r] = "pending"
        /\ r \in asking => status[r] = "pending" /\ \A p \in Pass : seen[p][r] = None

\* Such a row comes once in the work of a pass, and is not decided before its turn.
OnceAhead ==
    \A r \in Row \ raced : \A p \in Pass :
        /\ Once(todo[p], r) /\ Once(kept[p], r)
        /\ r \notin Range(todo[p]) \cap Range(kept[p])
        /\ r \in Ahead(p) /\ mine[p][r] # None => mine[p][r].status = "pending"

\* The pass has made a memory of it just when it will commit it PROMOTED, or is about to
\* mark it so.
Counted ==
    \A r \in Row \ raced : \A p \in Pass :
        added[p][r] =
            IF \/ verdict[p] = "promoted" /\ Head(todo[p]) = r
               \/ mine[p][r] # None /\ mine[p][r].status = "promoted"
            THEN 1 ELSE 0

Inductive ==
    TypeOK /\ Stages /\ ReadFirst /\ Alone /\ OnceAhead /\ Counted /\ PromotedOnce
=============================================================================
