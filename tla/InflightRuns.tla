---------------------------- MODULE InflightRuns ----------------------------
(***************************************************************************)
(* The durable record of every top-level agent run                         *)
(* (services/inflight_run.py): the turn that registers, heartbeats and     *)
(* settles its row, the startup sweep of each API process, the reaper cron *)
(* of the worker and the administrator's force-recycle.                    *)
(*                                                                         *)
(* Every writer reads the row, awaits, and commits; the UPDATE names only  *)
(* the primary key, so the read and the commit are two steps here.         *)
(***************************************************************************)
EXTENDS Naturals, FiniteSets

CONSTANTS
    Run,         \* top-level runs
    OneShot,     \* the runs of run_agent_one_shot; the others are chat turns
    Early,       \* runs of a channel stream, which boots before the startup sweep
    Proc,        \* processes, by host and pid: a restart reuses both
    Api,         \* the backend processes, which sweep at startup
    Cron,        \* the worker process that runs the reaper
    Host,        \* [Proc -> hosts]
    At,          \* [Run -> Proc]: the process that executes a run
    BatchLimit,  \* DEFAULT_REAP_BATCH_LIMIT
    MaxNow,      \* bound on the ticks of the clock
    MaxCrash     \* bound on process crashes

ASSUME ConstantsAssumption ==
    /\ OneShot \subseteq Run
    /\ Early \subseteq Run
    /\ Api \subseteq Proc
    /\ Cron \in Proc \ Api
    /\ At \in [Run -> Proc]
    /\ BatchLimit \in Nat \ {0}
    /\ MaxNow \in Nat
    /\ MaxCrash \in Nat

VARIABLES
    state,    \* inflight_runs.state of each run; "none" before it is committed
    token,    \* pid_token: the process, and the second register_run was called
    older,    \* q, r in it: RUNNING rows 15 minutes silent or more, q at least as long as r
    turn,     \* where the turn that executes the run is
    outcome,  \* how the turn ended
    up,       \* life of each process
    hold,     \* rows a sweep of the process has read and is about to flip
    recycle,  \* open force-recycle requests: run and serving process
    now,      \* the clock, in seconds
    crashes

vars == <<state, token, older, turn, outcome, up, hold, recycle, now, crashes>>
rowVars == <<state, token, older>>
turnVars == <<turn, outcome>>
procVars == <<up, hold>>
clockVars == <<now, crashes>>

Terminal == {"completed", "failed", "cancelled", "lost"}
Outcome == {"completed", "failed", "cancelled"}
Working == {"running", "ended", "closing"}
Orphaned == {"dead", "unrecorded"}
Running == {r \in Run : state[r] = "running"}
Quiet == {r \in Run : <<r, r>> \in older}

TypeOK ==
    /\ state \in [Run -> {"none", "running"} \cup Terminal]
    /\ token \in [Run -> Proc \X Nat]
    /\ older \subseteq Run \X Run
    /\ turn \in [Run -> {"idle", "done"} \cup Working \cup Orphaned]
    /\ outcome \in [Run -> {"none"} \cup Outcome]
    /\ up \in [Proc -> {"down", "booting", "recovering", "up"}]
    /\ hold \in [Proc -> SUBSET Run]
    /\ recycle \subseteq Run \X Api
    /\ now \in Nat
    /\ crashes \in Nat

Init ==
    /\ state = [r \in Run |-> "none"]
    /\ token = [r \in Run |-> <<At[r], 0>>]
    /\ older = {}
    /\ turn = [r \in Run |-> "idle"]
    /\ outcome = [r \in Run |-> "none"]
    /\ up = [p \in Proc |-> "down"]
    /\ hold = [p \in Proc |-> {}]
    /\ recycle = {}
    /\ now = 0
    /\ crashes = 0

-----------------------------------------------------------------------------
(* A turn and its row.                                                     *)

\* The channel streams are started before the lifespan's startup sweep; the
\* server accepts connections after it.
Serving(r) ==
    \/ up[At[r]] = "up"
    \/ r \in Early /\ up[At[r]] \in {"booting", "recovering"}

\* register_run: the row is committed RUNNING, with the token of this moment.
Start(r) ==
    /\ turn[r] = "idle"
    /\ Serving(r)
    /\ turn' = [turn EXCEPT ![r] = "running"]
    /\ state' = [state EXCEPT ![r] = "running"]
    /\ token' = [token EXCEPT ![r] = <<At[r], now>>]
    /\ UNCHANGED <<older, outcome, procVars, recycle, clockVars>>

\* The turn is cancelled on its way out of the registration, before the try that records
\* a cancellation: the row is committed and nobody will settle it.
StartCut(r) ==
    /\ turn[r] = "idle"
    /\ Serving(r)
    /\ turn' = [turn EXCEPT ![r] = "unrecorded"]
    /\ state' = [state EXCEPT ![r] = "running"]
    /\ token' = [token EXCEPT ![r] = <<At[r], now>>]
    /\ UNCHANGED <<older, outcome, procVars, recycle, clockVars>>

\* The registration failed: logged, the turn runs without a row.
StartUnregistered(r) ==
    /\ turn[r] = "idle"
    /\ Serving(r)
    /\ turn' = [turn EXCEPT ![r] = "running"]
    /\ UNCHANGED <<rowVars, outcome, procVars, recycle, clockVars>>

\* The order by last_seen_at without the rows in S.
Without(S) == {x \in older : x[1] \notin S /\ x[2] \notin S}

\* update_last_seen, after an event that is not a DELTA; a settled row is left alone.
Heartbeat(r) ==
    /\ turn[r] = "running"
    /\ r \in Running \cap Quiet
    /\ older' = Without({r})
    /\ UNCHANGED <<state, token, turnVars, procVars, recycle, clockVars>>

\* The turn's loop is left.  run_agent_one_shot catches Exception only, so its
\* cancellation is recorded nowhere.
Leave(r, o) ==
    /\ outcome' = [outcome EXCEPT ![r] = o]
    /\ turn' = [turn EXCEPT ![r] = IF r \in OneShot /\ o = "cancelled"
                                     THEN "unrecorded" ELSE "ended"]

End(r, o) ==
    /\ turn[r] = "running"
    /\ Leave(r, o)
    /\ UNCHANGED <<rowVars, procVars, recycle, clockVars>>

\* Mutant: a quiet row is left to the reaper.
MutFinishRead(r) ==
    /\ turn[r] = "ended"
    /\ turn' = [turn EXCEPT ![r] = IF r \in Running \ Quiet THEN "closing" ELSE "done"]
    /\ UNCHANGED <<rowVars, outcome, procVars, recycle, clockVars>>

\* Mutant: transition() leaves out its check for a terminal row.
MutFinishReadAny(r) ==
    /\ turn[r] = "ended"
    /\ turn' = [turn EXCEPT ![r] = IF state[r] # "none" THEN "closing" ELSE "done"]
    /\ UNCHANGED <<rowVars, outcome, procVars, recycle, clockVars>>

\* transition(): no row, or a terminal one, is left alone ...
FinishRead(r) ==
    /\ turn[r] = "ended"
    /\ turn' = [turn EXCEPT ![r] = IF r \in Running THEN "closing" ELSE "done"]
    /\ UNCHANGED <<rowVars, outcome, procVars, recycle, clockVars>>

\* ... a RUNNING one takes the outcome, whatever was committed to it since.
FinishCommit(r) ==
    /\ turn[r] = "closing"
    /\ turn' = [turn EXCEPT ![r] = "done"]
    /\ state' = [state EXCEPT ![r] = outcome[r]]
    /\ older' = Without({r})
    /\ UNCHANGED <<token, outcome, procVars, recycle, clockVars>>

\* The write failed or was itself cancelled: logged, never raised.
FinishFails(r) ==
    /\ turn[r] \in {"ended", "closing"}
    /\ turn' = [turn EXCEPT ![r] = "unrecorded"]
    /\ UNCHANGED <<rowVars, outcome, procVars, recycle, clockVars>>

-----------------------------------------------------------------------------
(* The sweeps.                                                             *)

\* What a query over rows returns: the longest silent first.  Of rows that spoke within
\* 15 minutes the order is abstracted away.
Before(q, r) == <<q, r>> \in older \/ (q \in Quiet /\ r \notin Quiet)

Batch(rows) ==
    {B \in SUBSET rows : /\ \/ Cardinality(B) = BatchLimit
                            \/ B = rows /\ Cardinality(B) < BatchLimit
                         /\ \A r \in B, q \in rows \ B : ~Before(q, r)}

\* Mutant: the console's bucket is stored instead of the state.
MutLose(rows) ==
    /\ state' = [r \in Run |-> IF r \in rows THEN "zombie" ELSE state[r]]
    /\ older' = Without(rows)

Lose(rows) ==
    /\ state' = [r \in Run |-> IF r \in rows THEN "lost" ELSE state[r]]
    /\ older' = Without(rows)

Boot(p) ==
    /\ up[p] = "down"
    /\ up' = [up EXCEPT ![p] = IF p \in Api THEN "booting" ELSE "up"]
    /\ UNCHANGED <<rowVars, turnVars, hold, recycle, clockVars>>

\* recover_inflight_runs: a row is spared only if its token is this process's
\* token, which current_pid_token() makes up from the present second.
RecoverRead(p) ==
    /\ up[p] = "booting"
    /\ up' = [up EXCEPT ![p] = "recovering"]
    /\ \E B \in Batch(Running) :
          hold' = [hold EXCEPT ![p] = {r \in B : token[r] # <<p, now>>}]
    /\ UNCHANGED <<rowVars, turnVars, recycle, clockVars>>

RecoverCommit(p) ==
    /\ up[p] = "recovering"
    /\ Lose(hold[p])
    /\ up' = [up EXCEPT ![p] = "up"]
    /\ hold' = [hold EXCEPT ![p] = {}]
    /\ UNCHANGED <<token, turnVars, recycle, clockVars>>

\* A failed sweep never blocks the boot.
RecoverFails(p) ==
    /\ up[p] \in {"booting", "recovering"}
    /\ up' = [up EXCEPT ![p] = "up"]
    /\ hold' = [hold EXCEPT ![p] = {}]
    /\ UNCHANGED <<rowVars, turnVars, recycle, clockVars>>

\* Mutant: no liveness probe.
MutSpared(r) == FALSE

\* Mutant: the probe ignores the host.
MutSparedAnywhere(r) == up[token[r][1]] # "down"

\* The reaper spares a row of its own host whose pid answers os.kill(pid, 0).
Spared(r) ==
    LET p == token[r][1] IN Host[p] = Host[Cron] /\ up[p] # "down"

\* reap_stale, every five minutes.
ReapRead ==
    /\ up[Cron] = "up"
    /\ hold[Cron] = {}
    /\ \E B \in Batch(Running \cap Quiet) :
          LET rows == {r \in B : ~Spared(r)}
          IN  rows # {} /\ hold' = [hold EXCEPT ![Cron] = rows]
    /\ UNCHANGED <<rowVars, turnVars, up, recycle, clockVars>>

ReapCommit ==
    /\ hold[Cron] # {}
    /\ Lose(hold[Cron])
    /\ hold' = [hold EXCEPT ![Cron] = {}]
    /\ UNCHANGED <<token, turnVars, up, recycle, clockVars>>

ReapFails ==
    /\ hold[Cron] # {}
    /\ hold' = [hold EXCEPT ![Cron] = {}]
    /\ UNCHANGED <<rowVars, turnVars, up, recycle, clockVars>>

-----------------------------------------------------------------------------
(* Force-recycle.                                                          *)

\* force_recycle_run refuses a settled row and asks the kernel to cancel: that
\* reaches a turn of this process only, and is best-effort.
RecycleRead(r, p) ==
    /\ up[p] = "up"
    /\ r \in Running
    /\ <<r, p>> \notin recycle
    /\ recycle' = recycle \cup {<<r, p>>}
    /\ \/ At[r] = p /\ turn[r] = "running" /\ Leave(r, "cancelled")
       \/ UNCHANGED turnVars
    /\ UNCHANGED <<rowVars, procVars, clockVars>>

\* Its transition() reads the same session's cached row, so it commits CANCELLED
\* whatever the row has become.
RecycleCommit(r, p) ==
    /\ <<r, p>> \in recycle
    /\ recycle' = recycle \ {<<r, p>>}
    /\ state' = [state EXCEPT ![r] = "cancelled"]
    /\ older' = Without({r})
    /\ UNCHANGED <<token, turnVars, procVars, clockVars>>

RecycleFails(r, p) ==
    /\ <<r, p>> \in recycle
    /\ recycle' = recycle \ {<<r, p>>}
    /\ UNCHANGED <<rowVars, turnVars, procVars, clockVars>>

-----------------------------------------------------------------------------
(* Time and crashes.                                                       *)

Tick ==
    /\ now < MaxNow
    /\ now' = now + 1
    /\ UNCHANGED <<rowVars, turnVars, procVars, recycle, crashes>>

\* Fifteen minutes without an event: a slow, hung or vanished turn.
GoQuiet(r) ==
    /\ r \in Running \ Quiet
    /\ older' = older \cup {<<q, r>> : q \in Quiet \cup {r}}
    /\ UNCHANGED <<state, token, turnVars, procVars, recycle, clockVars>>

\* A process dies with its turns, its sweep and its requests; its restart takes
\* more than a second.
Crash(p) ==
    /\ crashes < MaxCrash
    /\ up[p] # "down"
    /\ crashes' = crashes + 1
    /\ up' = [up EXCEPT ![p] = "down"]
    /\ hold' = [hold EXCEPT ![p] = {}]
    /\ turn' = [r \in Run |-> IF At[r] = p /\ turn[r] \in Working THEN "dead" ELSE turn[r]]
    /\ recycle' = {x \in recycle : x[2] # p}
    /\ now' = now + 1
    /\ UNCHANGED <<rowVars, outcome>>

-----------------------------------------------------------------------------
Turn(r) ==
    \/ Start(r) \/ StartCut(r) \/ StartUnregistered(r) \/ Heartbeat(r)
    \/ \E o \in Outcome : End(r, o)
    \/ FinishRead(r) \/ FinishCommit(r) \/ FinishFails(r)

Startup(p) == RecoverRead(p) \/ RecoverCommit(p) \/ RecoverFails(p)

Recycling(r, p) == RecycleRead(r, p) \/ RecycleCommit(r, p) \/ RecycleFails(r, p)

Next ==
    \/ \E r \in Run : Turn(r) \/ GoQuiet(r)
    \/ \E p \in Proc : Boot(p) \/ Crash(p)
    \/ \E p \in Api : Startup(p) \/ \E r \in Run : Recycling(r, p)
    \/ ReapRead \/ ReapCommit \/ ReapFails
    \/ Tick

Spec == Init /\ [][Next]_vars

\* A process that died is restarted, a boot and a finished turn's write come to an
\* end, time passes, and the cron job is retried and not refused for ever.
Fairness ==
    /\ \A p \in Proc : WF_vars(Boot(p))
    /\ \A p \in Api : WF_vars(Startup(p))
    /\ \A r \in Run : /\ WF_vars(GoQuiet(r))
                      /\ WF_vars(FinishRead(r) \/ FinishCommit(r) \/ FinishFails(r))
    /\ WF_vars(ReapRead)
    /\ SF_vars(ReapCommit)
    /\ WF_vars(ReapCommit \/ ReapFails)

FairSpec == Spec /\ Fairness

-----------------------------------------------------------------------------
(* Properties.                                                             *)

\* A run that is at work, or whose end was recorded, is reported LOST only by a sweep that
\* cannot see the process it runs in: the startup sweep of an API process that is not its
\* own, or that it was started ahead of, or the reaper of another host.
LostToBlame(r) ==
    turn[r] \notin Orphaned /\ state[r] # "lost" /\ state'[r] = "lost" =>
        \/ \E p \in Api : up[p] = "recovering" /\ r \in hold[p] /\ (p # At[r] \/ r \in Early)
        \/ r \in hold[Cron] /\ Host[At[r]] # Host[Cron]

LiveLostUnseen == [][\A r \in Run : LostToBlame(r)]_vars

\* A run is reported LOST only when nobody works on it any more and its outcome was not
\* recorded: the startup sweep recovers "top-level runs orphaned by the previous backend
\* incarnation" (main.py:86-87).
LostMeansOrphaned ==
    \A r \in Run : state[r] = "lost" => turn[r] \in Orphaned

\* A turn that believes it has settled its row has: no sweep, retry or late
\* heartbeat leaves, or puts back, a row that shows a finished run as RUNNING.
DoneMeansSettled ==
    \A r \in Run : turn[r] = "done" => state[r] # "running"

\* A settled row that no settlement, sweep or recycle has in hand.
AtRest(r) ==
    /\ state[r] \in Terminal
    /\ turn[r] # "closing"
    /\ \A p \in Proc : r \notin hold[p]
    /\ \A p \in Api : <<r, p>> \notin recycle

\* Only a writer that read the row while it was RUNNING replaces one terminal state by
\* another: once the row is settled and nobody has it in hand, nobody takes it in hand
\* again and its state is final.
RestsForGood ==
    [][\A r \in Run : AtRest(r) => AtRest(r)' /\ state'[r] = state[r]]_vars

\* The row of a turn that died, or ended without being recorded, on another host than the
\* reaper's, is settled by one of the sweeps, unless a whole batch of rows that the reaper
\* spares has been silent for longer.
Starved(r) == Cardinality({q \in Quiet \ {r} : Spared(q) /\ Before(q, r)}) >= BatchLimit

OrphanSettles ==
    \A r \in Run : Host[At[r]] # Host[Cron] =>
        (turn[r] \in Orphaned /\ state[r] = "running" ~> state[r] # "running" \/ Starved(r))

-----------------------------------------------------------------------------
(* The inductive strengthening of the safety properties.                   *)

\* A run that was never asked for has no row, for a sweep or a recycle to have read,
\* and no outcome is written before the turn has one.
Recorded ==
    \A r \in Run :
        /\ turn[r] = "idle" => /\ state[r] = "none"
                               /\ \A p \in Proc : r \notin hold[p]
                               /\ \A p \in Api : <<r, p>> \notin recycle
        /\ turn[r] \in {"ended", "closing"} => outcome[r] # "none"
        /\ token[r][1] = At[r]

\* A turn at work has its process up, past the startup sweep unless it is ahead of it; only
\* a sweep in progress holds rows; and what the reaper holds of its own host, or a startup
\* sweep of its own process, is an orphan and stays one.
SweptAtHome ==
    /\ \A r \in Run : turn[r] \in Working =>
          up[At[r]] # "down" /\ (r \notin Early => up[At[r]] = "up")
    /\ \A p \in Proc : hold[p] # {} => p = Cron \/ (p \in Api /\ up[p] = "recovering")
    /\ \A r \in hold[Cron] : Host[At[r]] = Host[Cron] => turn[r] \in Orphaned
    /\ \A r \in Run \ Early : At[r] \in Api /\ r \in hold[At[r]] => turn[r] \in Orphaned

Inductive == Recorded /\ DoneMeansSettled
=============================================================================
