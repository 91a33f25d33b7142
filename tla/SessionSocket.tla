--------------------------- MODULE SessionSocket ---------------------------
(***************************************************************************)
(* The chat sockets of one session in one process (api/v1/sessions.py,     *)
(* session_ws and _handle_user_turn): each connection has a loop that      *)
(* receives frames, at most one turn task, and a pump that pushes approval *)
(* requests from a queue which the connections share through the manager   *)
(* (agents/harness/approvals.py).                                          *)
(*                                                                         *)
(* A step is what a task does between two awaits.  A Task.cancel() is a    *)
(* request: the task meets it at the await it is in.  Frames are sent      *)
(* whole; their seq, their content and the replay cache are left out, and  *)
(* so are the run's row (InflightRuns) and the decisions (Approvals).      *)
(***************************************************************************)
EXTENDS Naturals, Sequences, FiniteSets

CONSTANTS
    Conn,        \* connections
    Run,         \* turns, under the run ids they draw
    Remote,      \* runs of the adapter kernel, whose run() answers a cancellation
                 \* with an exception of its own (Gateway, EnumColumn = FALSE)
    Approval,    \* approval requests
    QueueLimit,  \* maxsize of a session's queue
    None

ASSUME ConstantsAssumption ==
    /\ Remote \subseteq Run
    /\ QueueLimit \in Nat \ {0}
    /\ None \notin Run \cup Conn

VARIABLES
    sock,      \* new; open; gone: the client has left; closed: the handler has ended
    loop,      \* reading; joining: a cancel frame awaits the turn; answering
    stop,      \* the run id a cancel frame has read from the box
    box,       \* active_run_box
    turnOf,    \* turn_task, by the run of its turn
    owner,     \* the connection of each turn
    at,        \* where each turn is
    doomed,    \* a cancellation is requested and not met yet
    recycled,  \* runs that were force-recycled from the console
    told,      \* turns whose client has got a frame that closes the stream
    shared,    \* the session's entry of _session_queues; a queue is named by the
               \* connection that made it
    queueOf,   \* the queue each connection pumps
    queue,     \* requests in each queue
    asked,     \* what became of each approval request
    outlived   \* history: connections that were open when another one closed

socketVars == <<sock, loop, stop, turnOf>>
turnVars == <<box, owner, at, doomed, recycled, told>>
queueVars == <<shared, queueOf, queue, asked, outlived>>
vars == <<socketVars, turnVars, queueVars>>

\* Stages of a turn that has a task; "dropped" ended before it drew a run id.
Live == {"loading", "registering", "streaming", "ending", "failing", "unwinding",
         "persisting"}

TypeOK ==
    /\ sock \in [Conn -> {"new", "open", "gone", "closed"}]
    /\ loop \in [Conn -> {"reading", "joining", "answering"}]
    /\ stop \in [Conn -> Run \cup {None}]
    /\ box \in [Conn -> Run \cup {None}]
    /\ turnOf \in [Conn -> Run \cup {None}]
    /\ owner \in [Run -> Conn \cup {None}]
    /\ at \in [Run -> Live \cup {"none", "dropped", "over"}]
    /\ doomed \in SUBSET Run
    /\ recycled \in SUBSET Run
    /\ told \in SUBSET Run
    /\ shared \in Conn \cup {None}
    /\ queueOf \in [Conn -> Conn \cup {None}]
    /\ queue \in [Conn -> Seq(Approval)]
    /\ asked \in [Approval -> {"none", "queued", "shown", "lost"}]
    /\ outlived \in SUBSET Conn

Init ==
    /\ sock = [c \in Conn |-> "new"]
    /\ loop = [c \in Conn |-> "reading"]
    /\ stop = [c \in Conn |-> None]
    /\ box = [c \in Conn |-> None]
    /\ turnOf = [c \in Conn |-> None]
    /\ owner = [r \in Run |-> None]
    /\ at = [r \in Run |-> "none"]
    /\ doomed = {}
    /\ recycled = {}
    /\ told = {}
    /\ shared = None
    /\ queueOf = [c \in Conn |-> None]
    /\ queue = [c \in Conn |-> <<>>]
    /\ asked = [a \in Approval |-> "none"]
    /\ outlived = {}

\* Mutant: a turn counts from the moment it has a run id.
MutBusy(c) == box[c] # None

\* turn_task is not None and not turn_task.done()
Busy(c) == turnOf[c] # None /\ at[turnOf[c]] \in Live

\* The frames sent to c reach a client.
Reaches(c) == sock[c] = "open"

-----------------------------------------------------------------------------
(* A connection and its loop.                                              *)

\* Mutant: the queue that is made is not kept.
MutOpen(c) ==
    LET q == IF shared = None THEN c ELSE shared
    IN  /\ sock[c] = "new"
        /\ sock' = [sock EXCEPT ![c] = "open"]
        /\ queueOf' = [queueOf EXCEPT ![c] = q]
        /\ UNCHANGED <<loop, stop, turnOf, turnVars, shared, queue, asked, outlived>>

Open(c) ==
    LET q == IF shared = None THEN c ELSE shared
    IN  /\ sock[c] = "new"
        /\ sock' = [sock EXCEPT ![c] = "open"]
        /\ shared' = q
        /\ queueOf' = [queueOf EXCEPT ![c] = q]
        /\ UNCHANGED <<loop, stop, turnOf, turnVars, queue, asked, outlived>>

\* The client leaves; until the loop reads again or a send fails nobody notices.
Leave(c) ==
    /\ sock[c] = "open"
    /\ sock' = [sock EXCEPT ![c] = "gone"]
    /\ UNCHANGED <<loop, stop, turnOf, turnVars, queueVars>>

\* The handler's finally: the pump and the turn are cancelled, and the session's queue
\* is taken off the manager, whoever pumps it.  The handler's locals are gone.
Close(c) ==
    /\ sock[c] = "gone"
    /\ loop[c] # "joining"
    /\ sock' = [sock EXCEPT ![c] = "closed"]
    /\ doomed' = doomed \cup {r \in Run : r = turnOf[c] /\ at[r] \in Live}
    /\ shared' = None
    /\ loop' = [loop EXCEPT ![c] = "reading"]
    /\ stop' = [stop EXCEPT ![c] = None]
    /\ turnOf' = [turnOf EXCEPT ![c] = None]
    /\ outlived' = outlived \cup {d \in Conn : sock[d] \in {"open", "gone"}}
    /\ UNCHANGED <<box, owner, at, recycled, told, queueOf, queue, asked>>

\* While the last turn is running the message is refused, with turn_busy.
UserMessage(c, r) ==
    /\ Reaches(c)
    /\ loop[c] = "reading"
    /\ ~Busy(c)
    /\ owner[r] = None
    /\ owner' = [owner EXCEPT ![r] = c]
    /\ at' = [at EXCEPT ![r] = "loading"]
    /\ turnOf' = [turnOf EXCEPT ![c] = r]
    /\ UNCHANGED <<sock, loop, stop, box, doomed, recycled, told, queueVars>>

\* Mutant: the turn is cancelled and not awaited.
MutCancelFrame(c) ==
    /\ Reaches(c)
    /\ loop[c] = "reading"
    /\ stop' = [stop EXCEPT ![c] = box[c]]
    /\ loop' = [loop EXCEPT ![c] = "answering"]
    /\ doomed' = IF Busy(c) THEN doomed \cup {turnOf[c]} ELSE doomed
    /\ turnOf' = [turnOf EXCEPT ![c] = None]
    /\ UNCHANGED <<sock, box, owner, at, recycled, told, queueVars>>

\* The run id is read first, then the turn is cancelled (the kernel's own cancel
\* cancels the same task), and then awaited.
CancelFrame(c) ==
    /\ Reaches(c)
    /\ loop[c] = "reading"
    /\ stop' = [stop EXCEPT ![c] = box[c]]
    /\ IF Busy(c)
         THEN /\ loop' = [loop EXCEPT ![c] = "joining"]
              /\ doomed' = doomed \cup {turnOf[c]}
              /\ UNCHANGED turnOf
         ELSE /\ loop' = [loop EXCEPT ![c] = "answering"]
              /\ turnOf' = [turnOf EXCEPT ![c] = None]
              /\ UNCHANGED doomed
    /\ UNCHANGED <<sock, box, owner, at, recycled, told, queueVars>>

\* Mutant: the run id is read when the turn has ended.
MutJoin(c) ==
    /\ loop[c] = "joining"
    /\ ~Busy(c)
    /\ loop' = [loop EXCEPT ![c] = "answering"]
    /\ stop' = [stop EXCEPT ![c] = box[c]]
    /\ turnOf' = [turnOf EXCEPT ![c] = None]
    /\ UNCHANGED <<sock, turnVars, queueVars>>

Join(c) ==
    /\ loop[c] = "joining"
    /\ ~Busy(c)
    /\ loop' = [loop EXCEPT ![c] = "answering"]
    /\ turnOf' = [turnOf EXCEPT ![c] = None]
    /\ UNCHANGED <<sock, stop, turnVars, queueVars>>

\* The final frame, for the run id read at first, and the end of the handler.
Answer(c) ==
    /\ loop[c] = "answering"
    /\ sock[c] # "closed"
    /\ told' = IF Reaches(c) THEN told \cup ({stop[c]} \ {None}) ELSE told
    /\ loop' = [loop EXCEPT ![c] = "reading"]
    /\ stop' = [stop EXCEPT ![c] = None]
    /\ UNCHANGED <<sock, turnOf, box, owner, at, doomed, recycled, queueVars>>

-----------------------------------------------------------------------------
(* A turn.                                                                 *)

\* A step of r's task, from one stage to the next.
Goes(r, from, to) ==
    /\ at[r] = from
    /\ r \notin doomed
    /\ at' = [at EXCEPT ![r] = to]

\* A slash command, a missing agent or squad, an attachment that fails: no run.
LoadEnds(r) ==
    /\ Goes(r, "loading", "dropped")
    /\ UNCHANGED <<socketVars, box, owner, doomed, recycled, told, queueVars>>

\* The run id is drawn and put in the box, and the registration awaited.
Name(r) ==
    /\ Goes(r, "loading", "registering")
    /\ box' = [box EXCEPT ![owner[r]] = r]
    /\ UNCHANGED <<socketVars, owner, doomed, recycled, told, queueVars>>

Stream(r) ==
    /\ Goes(r, "registering", "streaming")
    /\ UNCHANGED <<socketVars, box, owner, doomed, recycled, told, queueVars>>

\* A tool call asks for approval: its request goes to the queue of the session, when
\* there is one with room.
Ask(r, a) ==
    /\ at[r] = "streaming" /\ r \notin doomed
    /\ asked[a] = "none"
    /\ IF shared # None /\ Len(queue[shared]) < QueueLimit
         THEN /\ queue' = [queue EXCEPT ![shared] = Append(@, a)]
              /\ asked' = [asked EXCEPT ![a] = "queued"]
         ELSE /\ asked' = [asked EXCEPT ![a] = "lost"]
              /\ UNCHANGED queue
    /\ UNCHANGED <<socketVars, turnVars, shared, queueOf, outlived>>

\* The kernel's last event, final or error, is sent.
LastEvent(r) ==
    /\ Goes(r, "streaming", "ending")
    /\ told' = IF Reaches(owner[r]) THEN told \cup {r} ELSE told
    /\ UNCHANGED <<socketVars, box, owner, doomed, recycled, queueVars>>

\* The row is settled and the box emptied.
Complete(r) ==
    /\ Goes(r, "ending", "persisting")
    /\ box' = [box EXCEPT ![owner[r]] = None]
    /\ UNCHANGED <<socketVars, owner, doomed, recycled, told, queueVars>>

\* The kernel raises, or a send to a client that has left does.
Raise(r) ==
    /\ Goes(r, "streaming", "failing")
    /\ UNCHANGED <<socketVars, box, owner, doomed, recycled, told, queueVars>>

\* The row is settled and the error frame sent; when that raises too the task ends.
Report(r) ==
    /\ \/ /\ Goes(r, "failing", "persisting")
          /\ box' = [box EXCEPT ![owner[r]] = None]
          /\ told' = IF Reaches(owner[r]) THEN told \cup {r} ELSE told
       \/ /\ Goes(r, "failing", "over")
          /\ ~Reaches(owner[r])
          /\ UNCHANGED <<box, told>>
    /\ UNCHANGED <<socketVars, owner, doomed, recycled, queueVars>>

\* The answer is persisted, the artifact captured, pending memories promoted.
Persist(r) ==
    /\ Goes(r, "persisting", "over")
    /\ UNCHANGED <<socketVars, box, owner, doomed, recycled, told, queueVars>>

\* After a cancellation: the row is settled and the task ends cancelled.
Unwind(r) ==
    /\ Goes(r, "unwinding", "over")
    /\ UNCHANGED <<socketVars, box, owner, doomed, recycled, told, queueVars>>

\* Mutant: the loop over the events goes on after a cancellation.
MutSwallowed(r) ==
    CASE at[r] = "loading" -> {"dropped"}
      [] at[r] \in {"streaming", "ending"} -> {at[r]}
      [] OTHER -> {"over"}

\* Mutant: a stage of its own for a turn that was cut.
MutCut(r) ==
    IF at[r] \in {"streaming", "ending"} THEN {"unwinding"} ELSE {"cancelled"}

\* Where a cancellation takes the task.  Only the loop over the kernel's events catches
\* it; a remote run's generator turns it into another exception.
Interrupted(r) ==
    CASE at[r] = "loading" -> {"dropped"}
      [] at[r] = "streaming" -> IF r \in Remote THEN {"unwinding", "failing"}
                                                ELSE {"unwinding"}
      [] at[r] = "ending" -> {"unwinding", "over"}
      [] OTHER -> {"over"}

\* The handler of the cancellation empties the box before it awaits anything.
Interrupt(r) ==
    /\ r \in doomed
    /\ at[r] \in Live
    /\ \E s \in Interrupted(r) :
          /\ at' = [at EXCEPT ![r] = s]
          /\ box' = IF s = "unwinding" THEN [box EXCEPT ![owner[r]] = None] ELSE box
    /\ doomed' = doomed \ {r}
    /\ UNCHANGED <<socketVars, owner, recycled, told, queueVars>>

\* The console's force-recycle cancels the task that runs the native kernel.
Recycle(r) ==
    /\ at[r] \in {"streaming", "ending"}
    /\ r \notin Remote \cup recycled
    /\ recycled' = recycled \cup {r}
    /\ doomed' = doomed \cup {r}
    /\ UNCHANGED <<socketVars, box, owner, at, told, queueVars>>

-----------------------------------------------------------------------------
\* The pump takes a request and pushes it; a push that fails is logged.
Pump(c) ==
    LET q == queueOf[c]
    IN  /\ sock[c] \in {"open", "gone"}
        /\ queue[q] # <<>>
        /\ queue' = [queue EXCEPT ![q] = Tail(@)]
        /\ asked' = [asked EXCEPT ![Head(queue[q])] = IF Reaches(c) THEN "shown" ELSE "lost"]
        /\ UNCHANGED <<socketVars, turnVars, shared, queueOf, outlived>>

-----------------------------------------------------------------------------
Socket(c) ==
    Open(c) \/ Leave(c) \/ Close(c) \/ CancelFrame(c) \/ Join(c) \/ Answer(c) \/ Pump(c)
        \/ \E r \in Run : UserMessage(c, r)

Turn(r) ==
    LoadEnds(r) \/ Name(r) \/ Stream(r) \/ LastEvent(r) \/ Complete(r) \/ Raise(r)
        \/ Report(r) \/ Persist(r) \/ Unwind(r) \/ Interrupt(r) \/ Recycle(r)
        \/ \E a \in Approval : Ask(r, a)

Next == (\E c \in Conn : Socket(c)) \/ (\E r \in Run : Turn(r))

Spec == Init /\ [][Next]_vars

\* The event loop resumes every task that can go on.  The user need not send anything,
\* the client need not leave and the kernel need not end.
Fairness ==
    /\ \A c \in Conn : WF_vars(Join(c)) /\ WF_vars(Answer(c)) /\ WF_vars(Close(c))
                          /\ WF_vars(Pump(c))
    /\ \A r \in Run : WF_vars(Interrupt(r)) /\ WF_vars(Unwind(r)) /\ WF_vars(Report(r))
                          /\ WF_vars(Complete(r)) /\ WF_vars(Persist(r))

FairSpec == Spec /\ Fairness

-----------------------------------------------------------------------------
(* Properties.                                                             *)

\* A connection has one turn at most, the one its loop holds, and a turn that streams
\* can be stopped: its run id is in the box, whatever an earlier turn that was cancelled,
\* failed or cut short has left there or is still doing.
RunningTurnCanBeStopped ==
    \A r \in Run : at[r] \in Live /\ sock[owner[r]] # "closed"
        => /\ turnOf[owner[r]] = r
           /\ at[r] \in {"registering", "streaming", "ending", "failing"} => box[owner[r]] = r

\* A frame that closes a stream is the last word of its run: the turn neither streams nor
\* may stream afterwards, so no event of a stopped run reaches the next one's stream.
ClosedMeansSilent ==
    \A r \in told : at[r] \in {"ending", "unwinding", "persisting", "over"}

\* A turn that drew a run id does not end without a frame that closes its stream, or one
\* its loop is about to send, unless the client left or the console recycled the run.
EndsWithFrame ==
    \A r \in Run : at[r] = "over" /\ sock[owner[r]] = "open"
        => \/ r \in told \cup recycled
           \/ loop[owner[r]] \in {"joining", "answering"} /\ stop[owner[r]] = r

\* A request reaches the queue that an open connection pumps, if there is room, as long
\* as no other connection has closed while that one was open.
MissedOnlyAfterClose ==
    [][\A a \in Approval : \A c \in Conn :
          asked[a] = "none" /\ sock[c] = "open" /\ Len(queue[queueOf[c]]) < QueueLimit
              => asked'[a] \in {"none", "queued"} \/ c \in outlived]_vars

\* A cancel frame returns to the loop, whatever the turn was doing and whatever else
\* cancels it meanwhile.
StopReturns ==
    \A c \in Conn : loop[c] = "joining" ~> loop[c] = "reading" \/ sock[c] = "closed"

-----------------------------------------------------------------------------
(* The inductive strengthening of the safety properties.                   *)

\* Stages of a turn that has drawn its run id.
Named == {"registering", "streaming", "ending", "failing", "unwinding", "persisting", "over"}

\* A turn that has begun belongs to a connection that was opened.
TurnOwned ==
    \A r \in Run : at[r] # "none" => owner[r] \in Conn /\ sock[owner[r]] # "new"

\* The turn of a connection, its box and the run id its cancel frame has read name turns
\* of that connection; the frame is answered when its turn is over.
BoxNamed ==
    \A c \in Conn :
        /\ turnOf[c] # None => owner[turnOf[c]] = c
        /\ box[c] # None => owner[box[c]] = c /\ at[box[c]] \in Named
        /\ stop[c] # None => owner[stop[c]] = c /\ at[stop[c]] \in Named
        /\ loop[c] = "joining" => sock[c] \in {"open", "gone"}
        /\ loop[c] = "answering" /\ stop[c] # None => at[stop[c]] = "over"

\* The stream of r is closed, is about to be, or was cut from the console.
Excused(r) ==
    \/ r \in told \cup recycled
    \/ loop[owner[r]] \in {"joining", "answering"} /\ stop[owner[r]] = r

\* How far the end of a turn has come, while its client is there.
EndTold ==
    \A r \in Run : at[r] # "none" /\ sock[owner[r]] = "open" =>
        /\ at[r] \in {"ending", "persisting"} => r \in told
        /\ at[r] \in {"unwinding", "over"} => Excused(r)
        /\ r \in doomed /\ at[r] \in {"registering", "streaming", "failing"} => Excused(r)

\* The session's entry is the queue of every connection that no close has bereft, and
\* queues hold what was asked.
QueueShared ==
    \A c \in Conn :
        /\ sock[c] # "new" => queueOf[c] \in Conn
        /\ sock[c] = "open" /\ c \notin outlived => shared = queueOf[c]
        /\ \A i \in 1 .. Len(queue[c]) : asked[queue[c][i]] # "none"

Inductive == TurnOwned /\ RunningTurnCanBeStopped /\ BoxNamed /\ ClosedMeansSilent /\ EndTold

=============================================================================
