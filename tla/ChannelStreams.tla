--------------------------- MODULE ChannelStreams ---------------------------
(***************************************************************************)
(* The supervisor of the outbound IM streams (services/channel_runtime.py) *)
(* in one process: a table of stream tasks that the heartbeat's            *)
(* reconcile, the reconcile of start_all, the handlers that edit a channel *)
(* and stop_all all change.                                                *)
(*                                                                         *)
(* No holder of the runtime's lock awaits while it holds it, so the lock   *)
(* is never waited for and a pass is one step up to its next wait: what    *)
(* separates two steps is a read of the rows, or the wait for the end of a *)
(* task that was cancelled.  A stream's own reconnects, and what it        *)
(* dispatches, are left out: its loop ends only when it is cancelled.  A   *)
(* fingerprint is the configuration it is of.                              *)
(***************************************************************************)
EXTENDS Naturals

CONSTANTS
    Channel,
    Config,     \* configurations of an enabled channel
    Stream,     \* those in stream mode
    Runnable,   \* those whose provider can run a stream in this process
    None,       \* no row, a disabled or deleted one; no task; no marker
    Handler,    \* concurrent requests that edit a channel
    MaxEdits,   \* bound on edits
    MaxStops    \* bound on ends of the process

ASSUME ConstantsAssumption ==
    /\ Stream \subseteq Config
    /\ Runnable \subseteq Config
    /\ None \notin Config
    /\ MaxEdits \in Nat
    /\ MaxStops \in Nat

VARIABLES
    row,        \* the channel's row, as committed
    entry,      \* _tasks: the configuration its stream runs with
    ended,      \* channels whose task in the table stop_all has cancelled
    skip,       \* _skipped
    pass,       \* the reconcile passes: the supervisor's, and start_all's own
    handler,    \* the editing requests
    up,         \* the life of the runtime
    stray,      \* streams that stop_all dropped from the table without cancelling them
    swallowed,  \* history: stop_all cancelled the supervisor inside stop_channel
    edits, stops

vars == <<row, entry, ended, skip, pass, handler, up, stray, swallowed, edits, stops>>
table == <<entry, ended, skip>>
life == <<up, stray, swallowed, stops>>

Pass == {"supervisor", "boot"}
Maybe == Config \cup {None}
Empty == [c \in Channel |-> None]
Off == [pc |-> "off", rows |-> Empty, todo |-> {}, at |-> {}]
Ready == [Off EXCEPT !.pc = "ready"]
Free == [pc |-> "idle", at |-> {}, config |-> None]

TypeOK ==
    /\ row \in [Channel -> Maybe]
    /\ entry \in [Channel -> Runnable \cup {None}]
    /\ ended \subseteq Channel
    /\ skip \in [Channel -> (Config \ Runnable) \cup {None}]
    /\ pass \in [Pass -> [pc : {"off", "ready", "listed", "visiting", "stopping"},
                          rows : [Channel -> Maybe],
                          todo : SUBSET Channel,
                          at : SUBSET Channel]]
    /\ handler \in [Handler -> [pc : {"idle", "committed", "stopping"},
                                at : SUBSET Channel,
                                config : Maybe]]
    /\ up \in {"down", "up", "stopping", "stopped"}
    /\ stray \subseteq Channel
    /\ swallowed \in BOOLEAN
    /\ edits \in 0..MaxEdits
    /\ stops \in 0..MaxStops

Init ==
    /\ row \in [Channel -> Maybe]
    /\ entry = Empty
    /\ ended = {}
    /\ skip = Empty
    /\ pass = [p \in Pass |-> Off]
    /\ handler = [h \in Handler |-> Free]
    /\ up = "down"
    /\ stray = {}
    /\ swallowed = FALSE
    /\ edits = 0
    /\ stops = 0

-----------------------------------------------------------------------------
(* The table.                                                              *)

\* Mutant: the marker of an earlier configuration is left in place.
MutStart(c, v) ==
    IF entry[c] # None \/ v = None THEN UNCHANGED table
    ELSE /\ IF v \in Runnable
              THEN entry' = [entry EXCEPT ![c] = v] /\ UNCHANGED skip
              ELSE skip' = [skip EXCEPT ![c] = v] /\ UNCHANGED entry
         /\ UNCHANGED ended

\* Mutant: the provider is not asked whether it can run a stream.
MutStartBlindly(c, v) ==
    IF entry[c] # None \/ v = None THEN UNCHANGED table
    ELSE /\ entry' = [entry EXCEPT ![c] = v]
         /\ skip' = [skip EXCEPT ![c] = None]
         /\ UNCHANGED ended

\* _start_channel_locked: a channel that has a task keeps it; one that cannot run here is
\* marked with the configuration it cannot run with.
Start(c, v) ==
    IF entry[c] # None \/ v = None THEN UNCHANGED table
    ELSE /\ entry' = IF v \in Runnable THEN [entry EXCEPT ![c] = v] ELSE entry
         /\ skip' = [skip EXCEPT ![c] = IF v \in Runnable THEN None ELSE v]
         /\ UNCHANGED ended

\* stop_channel up to its await: the task is taken out and cancelled.
Pop(c) ==
    /\ entry' = [entry EXCEPT ![c] = None]
    /\ skip' = [skip EXCEPT ![c] = None]
    /\ ended' = ended \ {c}

\* No pass is between two of its waits.
Yielded == \A p \in Pass : pass[p].pc # "visiting"

-----------------------------------------------------------------------------
(* A reconcile pass.                                                       *)

\* The rows are read ...
List(p) ==
    /\ Yielded
    /\ pass[p].pc = "ready"
    /\ pass' = [pass EXCEPT ![p] = [pc |-> "listed", rows |-> row, at |-> {},
                                    todo |-> {c \in Channel : row[c] # None}]]
    /\ UNCHANGED <<row, table, handler, life, edits>>

\* ... or cannot be read: the supervisor tries again at its next heartbeat, and
\* start_all gives up.
ListFails(p) ==
    /\ Yielded
    /\ pass[p].pc = "ready"
    /\ p = "boot"
    /\ pass' = [pass EXCEPT ![p] = Off]
    /\ UNCHANGED <<row, table, handler, life, edits>>

\* Tasks and markers of channels that were not listed go.  Nobody waits for the tasks.
Prune(p) ==
    /\ Yielded
    /\ pass[p].pc = "listed"
    /\ pass' = [pass EXCEPT ![p].pc = "visiting"]
    /\ entry' = [c \in Channel |-> IF pass[p].rows[c] = None THEN None ELSE entry[c]]
    /\ skip' = [c \in Channel |-> IF pass[p].rows[c] = None THEN None ELSE skip[c]]
    /\ ended' = {c \in ended : pass[p].rows[c] # None}
    /\ UNCHANGED <<row, handler, life, edits>>

\* Then the listed channels are visited: one that cannot run, or runs as listed, is left
\* alone; one that has no task gets one; one that runs otherwise is stopped first.
Visit(p, c) ==
    LET v == pass[p].rows[c]
    IN  /\ pass[p].pc = "visiting"
        /\ c \in pass[p].todo
        /\ IF skip[c] # v /\ entry[c] \notin {None, v}
             THEN /\ Pop(c)
                  /\ pass' = [pass EXCEPT ![p].todo = @ \ {c}, ![p].pc = "stopping", ![p].at = {c}]
             ELSE /\ IF skip[c] # v /\ entry[c] = None THEN Start(c, v) ELSE UNCHANGED table
                  /\ pass' = [pass EXCEPT ![p].todo = @ \ {c}]
        /\ UNCHANGED <<row, handler, life, edits>>

\* The cancelled task has ended.
Replace(p) ==
    /\ Yielded
    /\ pass[p].pc = "stopping"
    /\ \E c \in pass[p].at : Start(c, pass[p].rows[c])
    /\ pass' = [pass EXCEPT ![p].pc = "visiting", ![p].at = {}]
    /\ UNCHANGED <<row, handler, life, edits>>

\* The supervisor sleeps until its next heartbeat, unless it was told to stop.
EndPass(p) ==
    /\ pass[p].pc = "visiting"
    /\ pass[p].todo = {}
    /\ pass' = [pass EXCEPT ![p] = IF p = "supervisor" /\ up = "up" THEN Ready ELSE Off]
    /\ UNCHANGED <<row, table, handler, life, edits>>

-----------------------------------------------------------------------------
(* The requests that create, edit or delete a channel.                     *)

\* The handler of this process has its runtime to tell; one that runs while the process is
\* down is another process's.
Commit(h, c, v) ==
    /\ handler[h].pc = "idle"
    /\ edits < MaxEdits
    /\ v # row[c]
    /\ edits' = edits + 1
    /\ row' = [row EXCEPT ![c] = v]
    /\ handler' = [handler EXCEPT ![h] = IF up = "up" THEN [pc |-> "committed", at |-> {c}, config |-> v] ELSE Free]
    /\ UNCHANGED <<table, pass, life>>

\* What the handler asks of the runtime: a stream for a channel in stream mode.
Asked(h) == IF handler[h].config \in Stream THEN handler[h].config ELSE None

\* restart_channel, or stop_channel for a deleted one.  Without a task to wait for it is one step.
Notify(h) ==
    /\ Yielded
    /\ handler[h].pc = "committed"
    /\ \E c \in handler[h].at :
          IF entry[c] # None
            THEN /\ Pop(c)
                 /\ handler' = [handler EXCEPT ![h].pc = "stopping"]
            ELSE /\ handler' = [handler EXCEPT ![h] = Free]
                 /\ IF Asked(h) # None
                      THEN Start(c, Asked(h))
                      ELSE skip' = [skip EXCEPT ![c] = None] /\ UNCHANGED <<entry, ended>>
    /\ UNCHANGED <<row, pass, life, edits>>

Restart(h) ==
    /\ Yielded
    /\ handler[h].pc = "stopping"
    /\ \E c \in handler[h].at : Start(c, Asked(h))
    /\ handler' = [handler EXCEPT ![h] = Free]
    /\ UNCHANGED <<row, pass, life, edits>>

\* The edit was served by another process, or its handler died after the commit.
Abandon(h) ==
    /\ handler[h].pc # "idle"
    /\ handler' = [handler EXCEPT ![h] = Free]
    /\ UNCHANGED <<row, table, pass, life, edits>>

-----------------------------------------------------------------------------
(* The life of the process.                                                *)

\* start_all: the supervisor starts, and start_all makes a pass of its own.
StartAll ==
    /\ up = "down"
    /\ up' = "up"
    /\ pass' = [p \in Pass |-> Ready]
    /\ UNCHANGED <<row, table, handler, stray, swallowed, edits, stops>>

\* Mutant: the supervisor is told to stop and not cancelled.
MutStopAll ==
    /\ Yielded
    /\ up = "up"
    /\ stops < MaxStops
    /\ pass["boot"] = Off
    /\ \A h \in Handler : handler[h].pc = "idle"
    /\ up' = "stopping"
    /\ stops' = stops + 1
    /\ ended' = {c \in Channel : entry[c] # None}
    /\ UNCHANGED <<row, entry, skip, pass, handler, stray, swallowed, edits>>

\* stop_all, when the requests are drained and start_all has returned: every task of
\* the table is cancelled and the supervisor too.  Cancelled inside stop_channel it goes
\* on with its pass: the CancelledError is suppressed there with the task's own.
StopAll ==
    /\ Yielded
    /\ up = "up"
    /\ stops < MaxStops
    /\ pass["boot"] = Off
    /\ \A h \in Handler : handler[h].pc = "idle"
    /\ up' = "stopping"
    /\ stops' = stops + 1
    /\ ended' = {c \in Channel : entry[c] # None}
    /\ swallowed' = (pass["supervisor"].pc = "stopping")
    /\ pass' = [pass EXCEPT !["supervisor"] = IF @.pc = "stopping" THEN @ ELSE Off]
    /\ UNCHANGED <<row, entry, skip, handler, stray, edits>>

\* Its wait is over, all of them having ended or not: the table is cleared.
StopReturns ==
    /\ Yielded
    /\ up = "stopping"
    /\ up' = "stopped"
    /\ stray' = {c \in Channel : entry[c] # None} \ ended
    /\ entry' = Empty
    /\ skip' = Empty
    /\ ended' = {}
    /\ UNCHANGED <<row, pass, handler, swallowed, edits, stops>>

\* The process ends, at any time.
Exit ==
    /\ up # "down"
    /\ up = "up" => stops < MaxStops
    /\ stops' = IF up = "up" THEN stops + 1 ELSE stops
    /\ up' = "down"
    /\ entry' = Empty
    /\ skip' = Empty
    /\ ended' = {}
    /\ pass' = [p \in Pass |-> Off]
    /\ handler' = [h \in Handler |-> Free]
    /\ stray' = {}
    /\ swallowed' = FALSE
    /\ UNCHANGED <<row, edits>>

Reconcile(p) == List(p) \/ ListFails(p) \/ Prune(p) \/ (\E c \in Channel : Visit(p, c))
                   \/ Replace(p) \/ EndPass(p)

Edit(h) == (\E c \in Channel, v \in Maybe : Commit(h, c, v)) \/ Notify(h) \/ Restart(h)
              \/ Abandon(h)

Next ==
    \/ \E p \in Pass : Reconcile(p)
    \/ \E h \in Handler : Edit(h)
    \/ StartAll \/ StopAll \/ StopReturns \/ Exit

Spec == Init /\ [][Next]_vars

\* The supervisor's rows can be read again some time, a cancelled task ends, a handler and
\* stop_all go on, and a process that has ended is started again.
Fairness ==
    /\ \A p \in Pass : WF_vars(Reconcile(p))
    /\ \A h \in Handler : WF_vars(Notify(h) \/ Restart(h) \/ Abandon(h))
    /\ WF_vars(StartAll)
    /\ WF_vars(StopReturns)
    /\ WF_vars(up \in {"stopping", "stopped"} /\ Exit)

FairSpec == Spec /\ Fairness

-----------------------------------------------------------------------------
(* Properties.                                                             *)

\* When stop_all has returned no stream runs on, and none is in the table, unless the
\* supervisor's cancellation was suppressed inside stop_channel.
StopLeavesNothing ==
    up = "stopped" /\ ~swallowed => stray = {} /\ entry = Empty

\* When edits and restarts are over every channel in stream mode runs with the configuration
\* of its row if it can run here, and one that is disabled or deleted has no stream, whatever
\* passes with older rows, late notifications and stops have crossed on the way.
Converges ==
    \A c \in Channel :
        <>[](row[c] \in Stream \cup {None}
                => entry[c] = IF row[c] \in Runnable THEN row[c] ELSE None)

-----------------------------------------------------------------------------
(* The inductive strengthening of StopLeavesNothing.                       *)

\* A marker never stands beside a stream: the pass would take it for the answer and leave
\* a stream with an old configuration alone for good.
SkippedHasNoStream == \A c \in Channel : entry[c] # None => skip[c] = None

\* From stop_all on nobody changes the table, and what is in it has been cancelled.
StoppedIsStill ==
    up \in {"stopping", "stopped"} /\ ~swallowed
        => /\ \A p \in Pass : pass[p].pc = "off"
           /\ \A h \in Handler : handler[h].pc = "idle"
           /\ \A c \in Channel : entry[c] # None => c \in ended

Inductive == TypeOK /\ SkippedHasNoStream /\ StopLeavesNothing /\ StoppedIsStill
=============================================================================
