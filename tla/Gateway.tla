------------------------------ MODULE Gateway ------------------------------
(***************************************************************************)
(* The queue between a backend and a remote worker                         *)
(* (agents/kernels/openclaw/adapter.py, services/gateway.py,               *)
(* repositories/gateway.py): a run is a request row that one poll of the   *)
(* worker claims; the worker's events are rows that the caller's generator *)
(* reads in batches and yields.                                            *)
(*                                                                         *)
(* A step is a transaction, or what happens between two of them.  The rows *)
(* a poll has selected FOR UPDATE stay locked until it commits: other      *)
(* polls skip them, the UPDATEs of the other handlers wait for them.       *)
(* Payloads, statistics and authentication are left out; a worker whose    *)
(* key is refused is one that takes no step.                               *)
(***************************************************************************)
EXTENDS Naturals, Sequences, FiniteSets

CONSTANTS
    Run,         \* runs dispatched to one adapter
    Worker,      \* replicas of its remote worker, each with one poll at a time
    Final,       \* [Run -> Nat]: the seq of each run's terminal event
    Window,      \* emits a worker keeps in flight for a run; 1: it awaits each response
    PollLimit,   \* max_messages of a poll
    EventLimit,  \* limit of list_events_since
    EnumColumn   \* a loaded row's direction is an enum member.  FALSE: the column
                 \* is a String(16), which loads as a plain str

ASSUME ConstantsAssumption ==
    /\ Final \in [Run -> Nat]
    /\ Window \in Nat \ {0}
    /\ PollLimit \in Nat \ {0}
    /\ EventLimit \in Nat \ {0}
    /\ EnumColumn \in BOOLEAN

VARIABLES
    request,   \* status of the request rows of each run, by kind
    event,     \* seqs of the event rows of each run
    locked,    \* rows a poll has selected and not committed yet
    reply,     \* rows in the response a poll is on its way to the replica with
    work,      \* what the remote worker does with each run
    acked,     \* how many emits of a run the worker has seen answered
    stage,     \* where the caller's generator, OpenClawBackend.run, is
    next,      \* after_seq + 1
    batch,     \* rows it has read and not yielded yet
    seen       \* events it has yielded

vars == <<request, event, locked, reply, work, acked, stage, next, batch, seen>>
pollVars == <<locked, reply>>
workerVars == <<work, acked>>
readVars == <<next, batch, seen>>

Kind == {"run", "cancel"}
Row == Run \X Kind
Outstanding == {"PENDING", "DELIVERED"}
Status == {"none", "PENDING", "DELIVERED", "ACKED", "EXPIRED", "FAILED"}

TypeOK ==
    /\ request \in [Run -> [Kind -> Status]]
    /\ event \in [Run -> SUBSET Nat]
    /\ locked \in [Worker -> SUBSET Row]
    /\ reply \in [Worker -> SUBSET Row]
    /\ work \in [Run -> {"none", "running", "aborted", "lost"}]
    /\ acked \in [Run -> Nat]
    /\ stage \in [Run -> {"idle", "polling", "late", "answered", "expired",
                          "refused", "cancelled", "dropped"}]
    /\ next \in [Run -> Nat]
    /\ batch \in [Run -> SUBSET Nat]
    /\ seen \in [Run -> Seq(Nat)]

Init ==
    /\ request = [r \in Run |-> [k \in Kind |-> "none"]]
    /\ event = [r \in Run |-> {}]
    /\ locked = [w \in Worker |-> {}]
    /\ reply = [w \in Worker |-> {}]
    /\ work = [r \in Run |-> "none"]
    /\ acked = [r \in Run |-> 0]
    /\ stage = [r \in Run |-> "idle"]
    /\ next = [r \in Run |-> 0]
    /\ batch = [r \in Run |-> {}]
    /\ seen = [r \in Run |-> <<>>]

\* An UPDATE of a run's request rows: it waits for the polls that lock one, and
\* sets the status of those it selects.
Unlocked(r) == \A w \in Worker : \A k \in Kind : <<r, k>> \notin locked[w]

UpdateRequests(r, from, to) ==
    /\ Unlocked(r)
    /\ request' = [request EXCEPT ![r] =
                      [k \in Kind |-> IF @[k] \in from THEN to ELSE @[k]]]

-----------------------------------------------------------------------------
(* The caller's generator.                                                 *)

Open(r) ==
    /\ stage[r] = "idle"
    /\ stage' = [stage EXCEPT ![r] = "polling"]
    /\ request' = [request EXCEPT ![r]["run"] = "PENDING"]
    /\ UNCHANGED <<event, pollVars, workerVars, readVars>>

\* No adapter, or one that is gone or disabled.
Refuse(r) ==
    /\ stage[r] = "idle"
    /\ stage' = [stage EXCEPT ![r] = "refused"]
    /\ UNCHANGED <<request, event, pollVars, workerVars, readVars>>

\* The n least elements of S.
Least(S, n) == {s \in S : Cardinality({x \in S : x < s}) < n}

\* Mutant: seq >= after_seq.
MutFetch(r) ==
    LET rows == {s \in event[r] : s + 1 >= next[r]}
    IN  /\ stage[r] = "polling"
        /\ batch[r] = {}
        /\ rows # {}
        /\ batch' = [batch EXCEPT ![r] = Least(rows, EventLimit)]
        /\ UNCHANGED <<request, event, pollVars, workerVars, stage, next, seen>>

Fetch(r) ==
    LET rows == {s \in event[r] : s >= next[r]}
    IN  /\ stage[r] = "polling"
        /\ batch[r] = {}
        /\ rows # {}
        /\ batch' = [batch EXCEPT ![r] = Least(rows, EventLimit)]
        /\ UNCHANGED <<request, event, pollVars, workerVars, stage, next, seen>>

\* Rows are yielded one by one; the terminal one, which a worker sends last, ends
\* the loop.
Forward(r) ==
    /\ stage[r] = "polling"
    /\ \E s \in batch[r] :
          /\ \A x \in batch[r] : s <= x
          /\ batch' = [batch EXCEPT ![r] = @ \ {s}]
          /\ next' = [next EXCEPT ![r] = s + 1]
          /\ seen' = [seen EXCEPT ![r] = Append(@, s)]
          /\ stage' = [stage EXCEPT ![r] = IF s = Final[r] THEN "answered" ELSE @]
    /\ UNCHANGED <<request, event, pollVars, workerVars>>

\* Mutant: only a run that never answered at all times out.
MutDeadline(r) ==
    /\ stage[r] = "polling"
    /\ batch[r] = {}
    /\ next[r] = 0
    /\ stage' = [stage EXCEPT ![r] = "late"]
    /\ UNCHANGED <<request, event, pollVars, workerVars, readVars>>

\* The deadline is looked at between two reads; the timeout error is yielded ...
Deadline(r) ==
    /\ stage[r] = "polling"
    /\ batch[r] = {}
    /\ stage' = [stage EXCEPT ![r] = "late"]
    /\ UNCHANGED <<request, event, pollVars, workerVars, readVars>>

\* Mutant: the rows a poll has locked are written without waiting for it.
MutExpire(r) ==
    /\ stage[r] = "late"
    /\ stage' = [stage EXCEPT ![r] = "expired"]
    /\ request' = [request EXCEPT ![r] =
                      [k \in Kind |-> IF @[k] \in Outstanding THEN "EXPIRED" ELSE @[k]]]
    /\ UNCHANGED <<event, pollVars, workerVars, readVars>>

\* ... and then the rows are marked, ACKED ones excepted.
Expire(r) ==
    /\ stage[r] = "late"
    /\ stage' = [stage EXCEPT ![r] = "expired"]
    /\ UpdateRequests(r, {"PENDING", "DELIVERED", "FAILED"}, "EXPIRED")
    /\ UNCHANGED <<event, pollVars, workerVars, readVars>>

\* cancel(): a PENDING row of kind cancel is written, and then every PENDING or
\* DELIVERED request row of the run is FAILED, the new one with the others.  Before
\* that the direction of the loaded rows is read as an enum's: on a str it raises.
CancelRows(r) ==
    IF EnumColumn
      THEN /\ Unlocked(r)
           /\ request' = [request EXCEPT ![r] =
                 [k \in Kind |-> IF k = "cancel" \/ @[k] \in Outstanding
                                   THEN "FAILED" ELSE @[k]]]
      ELSE UNCHANGED request

\* The task is cancelled inside the generator, between two yields.
Cancel(r) ==
    /\ \/ stage[r] = "polling" /\ batch[r] = {}
       \/ stage[r] = "late"
    /\ stage' = [stage EXCEPT ![r] = "cancelled"]
    /\ CancelRows(r)
    /\ UNCHANGED <<event, pollVars, workerVars, readVars>>

\* The consumer is cancelled while it holds an event, which closes the generator at
\* its yield, or the process dies: nothing is written.
Drop(r) ==
    /\ stage[r] \in {"polling", "late"}
    /\ stage' = [stage EXCEPT ![r] = "dropped"]
    /\ batch' = [batch EXCEPT ![r] = {}]
    /\ UNCHANGED <<request, event, pollVars, workerVars, next, seen>>

-----------------------------------------------------------------------------
(* The worker's polls.                                                     *)

Batches(S) ==
    {B \in SUBSET S : \/ Cardinality(B) = PollLimit
                      \/ B = S /\ Cardinality(B) < PollLimit}

Pending == {x \in Row : request[x[1]][x[2]] = "PENDING"}

\* Mutant: SELECT without SKIP LOCKED, nor a lock.
MutSelect(w) ==
    /\ locked[w] = {} /\ reply[w] = {}
    /\ Pending # {}
    /\ \E B \in Batches(Pending) : locked' = [locked EXCEPT ![w] = B]
    /\ UNCHANGED <<request, event, reply, workerVars, stage, readVars>>

\* SELECT ... FOR UPDATE SKIP LOCKED: the oldest rows nobody has locked; which
\* ones are oldest is abstracted away.
Select(w) ==
    LET rows == Pending \ UNION {locked[v] : v \in Worker}
    IN  /\ locked[w] = {} /\ reply[w] = {}
        /\ rows # {}
        /\ \E B \in Batches(rows) : locked' = [locked EXCEPT ![w] = B]
        /\ UNCHANGED <<request, event, reply, workerVars, stage, readVars>>

\* Mutant: a status the worker's protocol knows and the column does not.
MutDeliver(w) ==
    /\ locked[w] # {}
    /\ request' = [r \in Run |-> [k \in Kind |->
                      IF <<r, k>> \in locked[w] THEN "CLAIMED" ELSE request[r][k]]]
    /\ reply' = [reply EXCEPT ![w] = locked[w]]
    /\ locked' = [locked EXCEPT ![w] = {}]
    /\ UNCHANGED <<event, workerVars, stage, readVars>>

Deliver(w) ==
    /\ locked[w] # {}
    /\ request' = [r \in Run |-> [k \in Kind |->
                      IF <<r, k>> \in locked[w] THEN "DELIVERED" ELSE request[r][k]]]
    /\ reply' = [reply EXCEPT ![w] = locked[w]]
    /\ locked' = [locked EXCEPT ![w] = {}]
    /\ UNCHANGED <<event, workerVars, stage, readVars>>

\* The poll's transaction is rolled back.
PollFails(w) ==
    /\ locked[w] # {}
    /\ locked' = [locked EXCEPT ![w] = {}]
    /\ UNCHANGED <<request, event, reply, workerVars, stage, readVars>>

\* The response never reaches the replica.
LoseReply(w) ==
    /\ reply[w] # {}
    /\ reply' = [reply EXCEPT ![w] = {}]
    /\ UNCHANGED <<request, event, locked, workerVars, stage, readVars>>

\* It does: runs start, and cancelled ones are aborted.
Take(w) ==
    /\ reply[w] # {}
    /\ work' = [r \in Run |-> IF <<r, "cancel">> \in reply[w] THEN "aborted"
                              ELSE IF <<r, "run">> \in reply[w] THEN "running"
                              ELSE work[r]]
    /\ reply' = [reply EXCEPT ![w] = {}]
    /\ UNCHANGED <<request, event, locked, acked, stage, readVars>>

-----------------------------------------------------------------------------
(* The worker's events.                                                    *)

\* Mutant: the row is acknowledged by a "final" only, and this run ends in "error".
MutEmit(r, s) ==
    /\ work[r] = "running"
    /\ s \in acked[r]..Final[r] /\ s < acked[r] + Window
    /\ event' = [event EXCEPT ![r] = @ \cup {s}]
    /\ UNCHANGED <<request, pollVars, workerVars, stage, readVars>>

\* An emit, or its retry, which the unique constraint absorbs; a terminal one closes
\* the request rows in the same transaction, the retry too.
Emit(r, s) ==
    /\ work[r] = "running"
    /\ s \in acked[r]..Final[r] /\ s < acked[r] + Window
    /\ event' = [event EXCEPT ![r] = @ \cup {s}]
    /\ IF s = Final[r]
         THEN UpdateRequests(r, Outstanding, "ACKED")
         ELSE UNCHANGED request
    /\ UNCHANGED <<pollVars, workerVars, stage, readVars>>

\* The response reaches the worker.
Answered(r) ==
    /\ work[r] = "running"
    /\ acked[r] \in event[r]
    /\ acked' = [acked EXCEPT ![r] = @ + 1]
    /\ UNCHANGED <<request, event, pollVars, work, stage, readVars>>

\* A replica dies with a run; nobody hands the run out again.
LoseWork(r) ==
    /\ work[r] = "running"
    /\ work' = [work EXCEPT ![r] = "lost"]
    /\ UNCHANGED <<request, event, pollVars, acked, stage, readVars>>

-----------------------------------------------------------------------------
Caller(r) ==
    Open(r) \/ Refuse(r) \/ Fetch(r) \/ Forward(r) \/ Deadline(r) \/ Expire(r)
        \/ Cancel(r) \/ Drop(r)

Poll(w) == Select(w) \/ Deliver(w) \/ PollFails(w) \/ LoseReply(w) \/ Take(w)

Remote(r) == (\E s \in 0..Final[r] : Emit(r, s)) \/ Answered(r) \/ LoseWork(r)

Next ==
    \/ \E r \in Run : Caller(r) \/ Remote(r)
    \/ \E w \in Worker : Poll(w)

Spec == Init /\ [][Next]_vars

\* The event loop runs the generator and its deadline passes; a replica that is up polls,
\* and its poll ends.  The worker need not emit anything, nor stay up.
Fairness ==
    /\ \A r \in Run : /\ WF_vars(Fetch(r)) /\ WF_vars(Forward(r))
                      /\ WF_vars(Deadline(r)) /\ WF_vars(Expire(r))
    /\ \A w \in Worker : /\ WF_vars(Select(w)) /\ SF_vars(Deliver(w))
                         /\ WF_vars(Deliver(w) \/ PollFails(w)) /\ SF_vars(Take(w))
                         /\ WF_vars(Take(w) \/ LoseReply(w))

FairSpec == Spec /\ Fairness

-----------------------------------------------------------------------------
(* Properties.                                                             *)

\* Two replicas never hold the same row, and a run that was handed out is not handed
\* out again: neither by a second poll that selects while the first has not
\* committed, nor after a response that was lost, a retry, a timeout or a cancel.
NeverHandedTwice ==
    /\ \A v, w \in Worker :
          v # w => (locked[v] \cup reply[v]) \cap (locked[w] \cup reply[w]) = {}
    /\ \A w \in Worker : \A r \in Run :
          <<r, "run">> \in locked[w] \cup reply[w] => work[r] = "none"

\* No request stays open behind its run: once the terminal event is stored, or the
\* caller has returned with it or with a timeout, no row is left for a worker to
\* claim, nor one that looks like work in progress, not even when a poll was about to
\* commit it.
ReturnedMeansClosed ==
    \A r \in Run :
        (Final[r] \in event[r] \/ stage[r] \in {"answered", "expired"})
            => \A k \in Kind : request[r][k] \notin Outstanding

\* Whatever the worker does, the caller gets an end: the answer, or the timeout.
RunReturns ==
    \A r \in Run : stage[r] = "polling" ~> stage[r] \notin {"idle", "polling", "late"}

\* A worker busy with a run that is cancelled is told so by a poll, unless it ends first.
CancelPickedUp ==
    \A r \in Run :
        stage[r] = "cancelled" /\ work[r] = "running"
            ~> \/ \E w \in Worker : <<r, "cancel">> \in reply[w]
               \/ Final[r] \in event[r]
               \/ work[r] # "running"
-----------------------------------------------------------------------------
(* The inductive invariant.                                                *)

Held(w) == locked[w] \cup reply[w]

\* What a poll has locked is PENDING still: nobody writes it before the poll does.
LockedPending ==
    \A w \in Worker : \A r \in Run : \A k \in Kind :
        <<r, k>> \in locked[w] => request[r][k] = "PENDING"

\* A row in a response is PENDING no more, and its run is not at a worker yet.
RepliedClaimed ==
    \A w \in Worker : \A r \in Run : \A k \in Kind :
        <<r, k>> \in reply[w] => request[r][k] \notin {"none", "PENDING"} /\ work[r] = "none"

\* A worker works on claimed rows only.
WorkClaimed ==
    \A r \in Run : work[r] # "none" => request[r]["run"] \notin {"none", "PENDING"}

\* A row of kind cancel is never left for a poll.
CancelUnseen ==
    \A r \in Run : /\ request[r]["cancel"] # "PENDING"
                   /\ \A w \in Worker : <<r, "cancel">> \notin reply[w]

HeldApart == \A v, w \in Worker : v # w => Held(v) \cap Held(w) = {}

\* Before its caller comes a run has no rows.
IdleUntouched ==
    \A r \in Run : stage[r] = "idle" =>
        event[r] = {} /\ \A k \in Kind : request[r][k] = "none"

\* The caller yields rows that are stored.
ReadStored ==
    \A r \in Run : /\ batch[r] \subseteq event[r]
                   /\ stage[r] = "answered" => Final[r] \in event[r]

Inductive ==
    /\ LockedPending
    /\ RepliedClaimed
    /\ WorkClaimed
    /\ CancelUnseen
    /\ HeldApart
    /\ IdleUntouched
    /\ ReadStored
    /\ ReturnedMeansClosed

\* With a worker that awaits each response, the stored events have no gap ...
EventsInOrder ==
    \A r \in Run : /\ 0..Final[r] \cap {s \in Nat : s < acked[r]} \subseteq event[r]
                   /\ event[r] \subseteq 0..acked[r]
                   /\ event[r] \subseteq 0..Final[r]

\* ... and a batch takes up where the last one ended.
BatchInOrder ==
    \A r \in Run :
        /\ next[r] = Len(seen[r])
        /\ \A s \in batch[r] : s >= next[r]
        /\ \A s \in batch[r] : \A x \in event[r] :
              x >= next[r] /\ x < s => x \in batch[r]
=============================================================================
