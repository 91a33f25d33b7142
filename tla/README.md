# SenHarness: a TLA+ model of its concurrent core

SenHarness is a multi-tenant agent platform: a FastAPI backend that runs agent
turns over web sockets and channels, an ARQ worker that runs cron jobs, a scheduler
container, PostgreSQL for state, Redis for queues, leases and rate budgets. Most of
its source is CRUD and calls of third-party models. What is hard in it is a handful
of small protocols between actors that share rows or keys and hold no lock. This
directory models those protocols, model-checks them with TLC on small instances and
proves their main invariants with TLAPS for every instance.

Paths below are relative to `src/backend/app/` unless they begin with `src/`.

## Contents

| file | what it is |
| --- | --- |
| `Approvals.tla` | the human-in-the-loop approval protocol |
| `ToolGate.tla` | what that protocol promises a tool call, without rows, futures or processes |
| `ApprovalsRefinement.tla` | the mapping under which `Approvals` implements `ToolGate` |
| `ApprovalsProofs.tla` | proofs about `Approvals` |
| `MCApprovals.tla`, `Approvals*.cfg` | its TLC instances |
| `InflightRuns.tla` | the durable registry of agent runs, its two sweeps and force-recycle |
| `InflightRunsProofs.tla` | proofs about `InflightRuns` |
| `MCInflightRuns.tla`, `Inflight*.cfg` | its TLC instances |
| `LeaderLease.tla` | the Redis lease that elects one scheduler |
| `LeaderLeaseProofs.tla` | proofs about `LeaderLease` |
| `MCLeaderLease.tla`, `Leader*.cfg` | its TLC instances |
| `SubagentRuns.tla` | a batch of sub-agents, the hallucination gate, its reviews and the zombie reaper |
| `SubagentRunsProofs.tla` | proofs about `SubagentRuns` |
| `MCSubagentRuns.tla`, `Subagents*.cfg` | its TLC instances |
| `Gateway.tla` | the queue between a backend and a remote worker |
| `EventStream.tla` | what it promises the caller of a remote run, without rows, polls or timers |
| `GatewayRefinement.tla` | the mapping under which `Gateway` implements `EventStream` |
| `GatewayProofs.tla` | proofs about `Gateway`, the refinement among them |
| `MCGateway.tla`, `Gateway*.cfg` | its TLC instances |
| `SessionSocket.tla` | the chat sockets of a session: loops, turn tasks, the shared approval queue |
| `SessionSocketProofs.tla`, `MCSessionSocket.tla`, `SessionSocket.cfg` | its proofs and its TLC instance |
| `PendingMemory.tla` | deferred memory writes: hook, sweep, retries, cancellation, in transactions |
| `PendingMemoryProofs.tla`, `MCPendingMemory.tla`, `PendingMemory.cfg` | its proofs and its TLC instance |
| `ChannelStreams.tla` | the supervisor of the outbound IM streams |
| `ChannelStreamsProofs.tla`, `MCChannelStreams.tla`, `ChannelStreams.cfg` | its proofs and its TLC instance |
| `PROJECT.json` | components, runs, mutants, definition-to-source map, findings, hazards, theorems |

Operators named `Mut...` are mutants: what a definition would be after a plausible
bug in the code it models. No specification uses them; each is there to show that
some property would notice (`PROJECT.json`, "mutants").

To check a run: `tlc -workers 2 -config ApprovalsTool.cfg MCApprovals.tla`. To check
proofs: `tlapm ApprovalsProofs.tla`.

## The system

### Components

| component | state it keeps | operations | talks to |
| --- | --- | --- | --- |
| human approvals: `services/approval.py`, `agents/harness/approvals.py`, `jobs/approval_ttl.py`, `services/approval_dispatch.py` | rows of `approvals`; per process, a dictionary of futures (`ApprovalManager`) | park a tool call, file a proposal, decide one row or a batch, cancel a session's rows, expire | tool guard, chat socket, REST, worker cron; dispatch handlers |
| inflight run registry: `services/inflight_run.py`, `jobs/inflight_recovery.py` | rows of `inflight_runs` with a `host:pid:second` token | register, heartbeat, settle, sweep at startup, reap by cron, force-recycle | chat turns, one-shot runner, lifespan, worker, kernels |
| scheduler election: `workflows/leader.py`, `workflows/scheduler.py` | one Redis key with an expiry; a task per worker | acquire, renew, step down, release | scheduler loop (APScheduler) |
| chat socket: `api/v1/sessions.py` | per connection: a loop, a turn task, `active_run_box`, a pump; per session: a queue of approval requests | frames: user turn, approval decision, cancel, replay; disconnect | approvals, run registry, kernels |
| one-shot runner: `services/agent_runner.py` | none of its own | a run for a channel, a flow or a job | run registry, kernels |
| subagent runs: `services/subagent_run.py`, `jobs/subagent_zombie.py`, `agents/harness/subagents.py` | rows of `subagent_runs`: state, heartbeat, pending review; the tasks and the semaphore of a batch | delegate a batch, register, gate an output, fail, apply a review, reap | approvals, worker cron, judge model |
| adapter gateway: `repositories/gateway.py`, `services/gateway.py`, `agents/kernels/openclaw/adapter.py` | request and event rows with sequence numbers | enqueue, claim, emit, poll, cancel | remote workers, chat turns |
| job queue: `worker/queue.py`, `services/job_run.py` | ARQ jobs in Redis, metadata rows in PostgreSQL | enqueue, start, finish | every cron and deferred job |
| pending memory: `services/pending_memory.py` | rows of `pending_memories` with a status and a failure count | queue, promote by hook or by sweep, cancel | sessions, worker cron |
| channel streams: `services/channel_runtime.py` | per process, a table of stream tasks and of skipped channels | reconcile, start, restart and stop a channel, start and stop all | lifespan, channel handlers |
| budgets: `jobs/_breaker.py`, `services/workspace_quota.py`, `services/logical_thread.py` | Redis sorted sets and keys; counts of rows | claim a slot, check a quota, consume a pairing code | their callers |
| the rest of channels, providers, flows, skills, memory and knowledge, auth, settings, workspaces, frontend | see `PROJECT.json` | mostly sequential request handlers, LLM pipelines and I/O | |

### What is hard here

* **Nobody locks a row.** Every transaction runs at READ COMMITTED, reads a row, awaits
  (permission checks, dispatch, notifications, an LLM), and commits an UPDATE that names
  only the primary key. There is no version column in the modelled paths, and one `SELECT FOR UPDATE`, that of the gateway's claim
  (`repositories/gateway.py:77`), so between read and commit any other writer may come in and the later commit wins.
  SQLAlchemy's identity map makes it sharper: a second read of the same row in one
  session returns the cached object.
* **State is split between PostgreSQL and one process's memory.** A parked tool call is
  a row, and a future in the dictionary of the process that runs the turn. A decision
  served elsewhere changes one and not the other.
* **Sweeps work on what they read before.** Startup recovery, the reaper and the TTL
  sweep list rows once and flip them one by one, or all at once, later.
* **Processes die and come back** with the same host and possibly the same pid.
* **Leases have clocks.** A paused process wakes up past its TTL.
* **A cancellation is a request.** `Task.cancel()` takes effect at the next await of the task, which may be in its cleanup,
  in a callback or in somebody else's `suppress`; until then the task goes on.
* **Remote calls are retried.** A worker that does not see a response sends the same emit again, and a poll that
  dies has already claimed its rows.

The list of hazards, each at its line and with the properties that would catch it
going wrong, is in `PROJECT.json`.

### What makes each component correct

* Approvals: a tool runs only after a human said so; a decision is not lost; a cancelled
  call never runs; a proposal's dispatch and its flip are one commit; a decided row stays decided;
  each parked call returns and each pending row is closed.
* Run registry: only orphans are reported LOST (violated, see below), and a live run only by a sweep that cannot see its process; a finished turn's row
  is not RUNNING; a settled row that nobody has in hand is final; orphans are settled.
* Election: at most one leader; not none for ever.
* Subagent runs: a parked child has a review to wait for and leaves it with the review's
  verdict; a child that is over is not RUNNING for ever; the batch returns.
* Gateway: the worker's events reach the caller once, in order and without a gap; no run is handed out twice; nothing stays open
  behind a run that is over.
* Chat socket: a turn that runs can be stopped; a stream that was closed stays closed; a turn ends with a frame; an approval
  request reaches a client; a stop returns.
* Pending memory: a row makes one memory exactly if it is PROMOTED; a settled row is written again
  only by those who hold it since before it settled; a pending row is taken up.
* Channel streams: the table of streams converges to the committed rows; nothing runs on after `stop_all`.
* Job runs, budgets (not modelled): metadata converges to the job's real outcome; a cap is not exceeded.

## The models

### Common conventions

A handler that reads, awaits and commits is two actions, `...Read` and `...Commit` (in
`Approvals`: `Decide` and `Commit`), with what it read kept in between. Each action
takes in everything the handler changes in that step. Notifications, audit rows,
permissions, wording and statistics are left out: they change none of the state the
properties are about. A commit of a REST or socket request that fails has no effect,
exactly as a request that never gets to its commit; such failures are therefore
behaviours of the model (without fairness) and need no action. Failures that do have
an effect (`PersistFails`, `CloseFails`, `SweepDispatchFails`, `SweepFails`, `FinishFails`,
`RecoverFails`, `ReapFails`, `RecycleFails`, `PollFails`, `Abort`, `ListFails`) are actions.

### Approvals

| variable | code |
| --- | --- |
| `status[a]`, `due` | `approvals.status`, and whether `expires_at` has passed |
| `entry[t]` | the future in `ApprovalManager._pending` of the turn's process |
| `callback[t]`, `answer[t]` | where `make_approval_callback`'s inner function is, and what `wait()` returned |
| `executed` | tools that `ToolGuard` let run |
| `txn[r]` | a deciding request between its read and its last `decide()` on the manager |
| `sweep` | the TTL sweep: rows listed, row in hand |
| `applied[p]` | dispatches of a proposal committed so far |
| `yes`, `landed` | history, read by properties only |

The approvals are of two sorts. A `Tool` approval has no `resource_type`; a callback
sleeps on it. A `Proposal` has one, and its approval over REST runs
`dispatch_approved_approval` in the same transaction as the flip; what the handler
writes is one counted side effect. Deciders:

* the chat frame `approval_decision` (`Answer` on a `Socket`) flips the row through
  `repo.decide` and resolves the future with the frame's own verdict;
* REST, one row (`Answer`) or a batch (`Decide`), each going through `approve_approval` or
  `reject_approval`, then resolving the futures *its own process* holds (`Notify`). A batch reads
  its rows one by one; the model reads them in one step, and a row whose dispatch raises is
  rolled back to its savepoint and left out;
* the cancel frame (`CancelFrame`, `CancelRows`) stops the turn, then flips the session's
  pending rows and resolves their futures;
* the TTL sweep (`SweepStart`, `SweepPick`, `SweepExecute`, `SweepDispatchFails`,
  `SweepReload`, `SweepReject`, `SweepFails`) executes an expired proposal of the automatic
  kind, rejects the others, and rejects the one whose dispatch raised after a reload.

The callback: `PersistRow` or `PersistFails`, `Register`, then `Wake` or `TimeOut`, then
`ReRead`, `CloseRow` or `CloseFails`, and `Return`. `Disconnect`, `Crash` and
`WorkerCrash` are the environment. All chat connections serve one session. `At` places requests in processes.

`ToolGate` is the abstract view of a tool: unasked, asked, and then allowed, blocked or
abandoned, once; allowed only after a vote. `ApprovalsRefinement` maps the position of
the callback to the gate and `yes` to the votes.

### InflightRuns

| variable | code |
| --- | --- |
| `state[r]`, `token[r]` | `inflight_runs.state` and `pid_token` |
| `older` | the order by `last_seen_at` of the RUNNING rows that are beyond the stale threshold (`Quiet`) |
| `turn[r]`, `outcome[r]` | where the turn is and how it ended |
| `up[p]` | whether a process is down, before its startup sweep, inside it, or serving |
| `hold[p]` | rows a sweep has read and is about to flip |
| `recycle` | open force-recycle requests |
| `now`, `crashes` | the second of `time.time()`, and a bound |

A `Proc` is a host and pid; a restart reuses both, the worst case for the liveness
probe. `token` is the process together with the second of the call of `register_run`,
because that is when `current_pid_token()` reads the clock. `RecoverRead`/`RecoverCommit`
are the startup sweep, `ReapRead`/`ReapCommit` the reaper (which spares a row whose
process answers a probe on the worker's host, `Spared`), `RecycleRead`/`RecycleCommit`
the force-recycle. Both sweeps take at most `BatchLimit` rows, those with the oldest `last_seen_at` first (`Batch`), and the reaper
spares some of its batch afterwards. `At` places each run in the process that executes it: chat turns and channel runs in an API process, flow runs in
the scheduler, which is no API process and so has no startup sweep. `Host` places the processes; every container is a host. In a turn of `run_agent_one_shot`, cancellation is recorded nowhere (`Leave`). A chat turn that is cancelled while
`register_run` is on its way back leaves a RUNNING row that it never learned of (`StartCut`).

### LeaderLease

Modelled with discrete time: `Tick` is enabled only when no candidate has something due, so
a candidate that is not `stalled` acts in the tick its sleep ends. A stall stands for a
frozen process or a Redis call that hangs. `Lose` is a Redis restart without its keys.
`Renew` is `SET XX EX`: it tests that the key exists, not whose it is. A crash leaves the key behind;
`Release` compares and deletes, or fails. Each restart draws a new worker id (`life`).
The work is opaque: running, done, or raised.

### SubagentRuns

| variable | code |
| --- | --- |
| `row[c]`, `review[c]` | `subagent_runs.state` and the status of the child's hallucination review; `none` before the row exists |
| `child[c]` | where `_run_single_child` is: waiting for a slot, at work, at the judge (`judging`; `late` when its row was already terminal), about to record a failure, over |
| `stopped` | the parent's task was cancelled, or its process died |
| `reap` | the zombie reaper: rows listed, row read RUNNING and about to be flipped |
| `txn[r]` | a deciding request: what it will write to which reviews, and which runs it read as not terminal |

A child that has a slot registers its row, or fails to (`Start`, `StartUnregistered`);
when it answers, its row is read (`Finish`) and the judge is asked, up to 25 seconds
later the run is COMPLETED (`GatePass`) or parked behind a new review (`GatePark`), from
the row as it was read. The review is filed in every case; the run is parked only if it was not terminal when read. A failure
reads and commits apart as well (`Fail`, `FailCommit`), and any of these writes can fail or be
cancelled (`WriteFails`). Reviews are decided over REST, one or a batch, and by the TTL sweep:
these read review and run, and commit both (`Decide`, `Expire`, `ReadRuns`, `Commit`). A cancel frame
of the parent's session flips the review alone. Chat decision frames are not in this module: the client sends
them for the tool calls that were pushed to it.

Time is left out. `on_child_heartbeat` has no caller, so `last_heartbeat_at` stays what registration
wrote and any RUNNING row may be found quiet; expiry is likewise free. For the same
reason the retry budget, which no caller consumes, is not modelled.

### Gateway

| variable | code |
| --- | --- |
| `request[r]`, `event[r]` | the request rows of a run, by kind, and the seqs of its event rows |
| `locked[w]`, `reply[w]` | rows that a poll has selected `FOR UPDATE SKIP LOCKED` and not committed; rows in the response on its way |
| `work[r]`, `acked[r]` | what the remote worker does with the run, and how many of its emits it has seen answered |
| `stage[r]`, `next[r]`, `batch[r]`, `seen[r]` | the caller's generator: where it is, `after_seq + 1`, the rows it has read, the events it has yielded |

The caller: `Open` or `Refuse`, then `Fetch` (a query with a limit) and `Forward` (one row yielded), until the
terminal event, `Deadline` and `Expire` (the timeout error is yielded before the rows are closed), `Cancel` or `Drop`.
The worker's side: a poll selects (`Select`), commits (`Deliver`) or fails (`PollFails`), and its response
arrives (`Take`) or is lost (`LoseReply`); `Emit` stores an event or finds it stored, `Answered` is its
response, `LoseWork` the end of a worker. Whoever updates the request rows of a run waits for the polls that lock one
(`UpdateRequests`).

`EnumColumn` says what the direction of a loaded row is. The column is a `String(16)`, so it loads as a plain
`str` and `cancel()` raises where it reads `.value`: the runs use `FALSE`, the theorems cover both. `Window` is the number of emits a
worker keeps in flight for a run.

`EventStream` is the caller's view: events written in order, read in order, the run answered with its last event or
gone. `GatewayRefinement` maps `stage` to open, answered and gone.

### SessionSocket

| variable | code |
| --- | --- |
| `sock[c]`, `loop[c]`, `stop[c]` | a connection, where its receive loop is, and the run id a cancel frame has read |
| `box[c]`, `turnOf[c]` | `active_run_box` and `turn_task` |
| `at[r]`, `owner[r]`, `doomed` | where the turn's task is, its connection, and the turns whose cancellation is requested and not met yet |
| `told`, `recycled` | turns whose stream was closed by a frame; turns the console force-recycled |
| `shared`, `queueOf[c]`, `queue[q]`, `asked[a]` | the manager's queue of the session, the queue each connection pumps, its content, and what became of each request |
| `outlived` | history: connections open when another one closed |

A turn is a task of stages: `loading` (before it has a run id), `registering`, `streaming`, `ending` (after the
last event), `failing` (an exception), `unwinding` (the `CancelledError` handler), `persisting`. `Interrupt` is the meeting of a
requested cancellation with the await the task is in; where that is a stage's own cleanup it ends elsewhere than in the stream. A turn
of the adapter kernel answers a cancellation with an `AttributeError` (`Remote`, see `EnumColumn` above) and therefore fails
instead of unwinding. `CancelFrame` awaits the turn (`Join`) and then sends the final frame itself (`Answer`); a disconnect (`Leave`) is noticed
later (`Close`). What the frames do to rows is in `Approvals` and `InflightRuns`.

### PendingMemory

| variable | code |
| --- | --- |
| `status[r]`, `failures[r]`, `copies[r]` | the committed row, and the live memories made from it |
| `quiet`, `old` | sessions without a message for half an hour; how many rows are older than the sweep's cut-off |
| `at[p]`, `todo[p]`, `kept[p]`, `verdict[p]` | a pass: its stage, the rows before it, the rows of quiet sessions, what `apply_payload` said |
| `seen[p]`, `mine[p]`, `added[p]` | what its transaction has read (the identity map), updated, and inserted |
| `asking` | cancel requests that have read PENDING |
| `raced` | history: rows that two transactions had in hand at once |

Here transactions are modelled in full, since what one pass does not see of another is the whole difficulty: a pass reads
committed rows once and keeps the objects, its UPDATEs take row locks that others wait for, `Commit` publishes all at once,
`Abort` discards all, and two passes that wait for each other are broken up by the database (`Deadlock`). `HookList` is the capture hook,
`Visit`, `SweepList`, `SweepRetry`, `Check`, `Reset` and `Promote` the sweep, which resets FAILED rows, skips those at the
ceiling and promotes the rest in age order; `Apply` and `Mark` are common. `CancelRead` and `CancelWrite` are the user's request.

### ChannelStreams

| variable | code |
| --- | --- |
| `row[c]` | the committed configuration of a channel |
| `entry[c]`, `skip[c]`, `ended` | `_tasks`, `_skipped`, and the tasks in the table that `stop_all` cancelled |
| `pass[p]` | the supervisor's reconcile and the one `start_all` makes itself |
| `handler[h]` | a request that edits a channel: committed, notifying, inside `stop_channel` |
| `up`, `stray`, `swallowed` | the life of the runtime, streams dropped without being cancelled, and whether `stop_channel` suppressed the supervisor's own cancellation |

`List`, `Prune`, `Visit` and `Replace` are a reconcile, which works on rows it read earlier; `Commit`, `Notify`, `Restart` and
`Abandon` a handler; `StartAll`, `StopAll`, `StopReturns` and `Exit` the lifespan. The runtime's lock is never held over an await,
so it orders nothing: what interleaves is what lies between two awaits. A cancelled stream ends, and requests are drained before `stop_all`, as
the server's shutdown does.

## The runs

| run | instance | what it shows |
| --- | --- | --- |
| `approvals_tool` | one tool call; a socket and a REST request in its process, a REST request in another; sweep; one crash | `RunsOnlyAfterApproval`, `NoLostWakeup`, `CancelledNeverRuns`; under `FairSpec`, the refinement `ImplementsGate` |
| `approvals_mixed` | a tool call and an auto-executed proposal; a socket and a REST request with batches of up to two; sweep; one crash | `DispatchedWithFlip`, `NeverReopened`; under `FairSpec`, `PendingSettles` |
| `inflight` | a channel's chat turn in the backend, which is a host of its own, before or after the startup sweep; a flow run in the scheduler, on the host of worker and reaper; batches of one, one tick, one crash | `DoneMeansSettled`, `LiveLostUnseen`, `RestsForGood`; under `FairSpec`, `OrphanSettles` |
| `leader` | two workers with two lives each, two stalls, one lost key; TTL 6, renewal 2, poll 1 (in units of five seconds: the code's 30, 10, 5) | `AtMostOneLeader`, `LeaderElected` |
| `subagents` | two children and one slot; a REST request, the sweep, one cancel frame; a reap batch of one; one crash | `ParkedHasReview`, `LeavesWithVerdict`; under `FairSpec`, `OrphanReaped`, `ReviewSettles`, `BatchReturns` |
| `gateway` | runs of four and one events, two replicas that poll at once, reads of two events, polls of two requests; emits retried, responses, polls and workers lost | `NeverHandedTwice`, `ReturnedMeansClosed`, the refinement `ImplementsStream`; under `FairSpec`, `RunReturns` |
| `session` | two tabs, two turns (one of the adapter kernel), one approval request, a queue of one | `RunningTurnCanBeStopped`, `ClosedMeansSilent`, `EndsWithFrame`, `MissedOnlyAfterClose`; under `FairSpec`, `StopReturns` |
| `pending_memory` | two rows of a session, a hook and a sweep, a ceiling of two failures, a cap of one memory, one roll back or late message | `PromotedOnce`, `SettledStays`; under `FairSpec`, `PendingIsTakenUp` |
| `channels` | one channel with four configurations (two streams, one that cannot run here, one webhook), two handlers, two edits, one end of the process | `StopLeavesNothing`; under `FairSpec`, `Converges` |

Every module's `TypeOK` is checked in one of them. Three more runs, `approvals_two_approvers`, `inflight_compose` and `gateway_cancel`, are expected to fail: each is a
disagreement of the code with its own text (next section).

**Why these bounds.** All protocols are symmetric in rows and requests, and each
interaction is between a row and at most three parties: its callback, two deciders.
A decider in the callback's process, one in another and the sweep already give every crossing of read and
commit; a further decider only repeats one. Two rows are needed for a batch that half fails
and for a batch limit of one that leaves a row over. One crash covers a death at every
point. In `inflight` the two runs are on either side of the reaper's probe: it sees the flow run's process and not the chat turn's, so that the sweeps take
live runs of other hosts, spare live ones of their own, and a batch of one is filled by a row that is spared. The lease needs
two lives for a worker to meet its predecessor's key, and three times a renewal as TTL, which is the code's
ratio. In the gateway a run of four events with reads of two makes every boundary between two reads, and two replicas
make the selects that cross. In the socket two turns are what it takes for one to inherit the box, the task slot or the queue of the
other, and two tabs for one to close under the other. Two rows, one hook and one sweep are the least that deadlock, and a cap of one
makes the second of two memories the one that no longer fits. Two edits give two notifications that cross with
two passes. The theorems below remove the bounds for the safety properties they cover.

**Deadlock** is checked in `leader`, where time never stops, and in `channels`, where the supervisor has always a next heartbeat.
Elsewhere it is not: with no call parked, no row pending, the batch
returned, the clients gone and no crash left, nobody owes a step.

**Fairness**, and why the code gives it:

* `Approvals`: a callback that can go on does (event loop); `wait_for` has a timer, so a
  parked call wakes up or times out; a handler that has begun commits and notifies; rows reach
  their `expires_at` (always set); the cron starts hourly. `SweepReject`, and
  `SweepExecute` with `SweepDispatchFails`, are *strongly* fair: a worker crash or a failed commit sends the row back
  to the next hour's sweep, and the assumption is only that the same step is not cut short at
  every hour for ever. Nothing is assumed of the humans: nobody must decide, and `SweepExecute` alone is not fair, so a dispatch may
  fail for ever.
* `InflightRuns`: supervisors restart dead processes; startup and the end of a turn come
  to an end, well or badly; a run without heartbeats becomes stale; the reaper cron runs,
  and its commit is not refused for ever (strong fairness of `ReapCommit`). A turn need not end.
* `SubagentRuns`: a child's work is bounded by `wait_for` and the judge by its timeout; a free slot goes to a
  waiting task; the two crons run, and neither `ReapCommit` nor the sweep's `Commit` is cut short for ever
  (strong fairness). Nobody must decide a review over REST.
* `LeaderLease`: time passes, a candidate whose sleep is over acts, a pause ends. A crashed
  worker need not be restarted.
* `Gateway`: the caller's loop goes on and looks at its deadline; a poll that selected commits or fails, and its response arrives or is
  lost. That polls do not fail, and responses are not lost, for ever (strong fairness of `Deliver` and `Take`) is what
  `CancelPickedUp` may count on, and it is violated all the same; `RunReturns` rests on the deadline, not on any worker. Nothing is assumed of the
  worker's own progress.
* `SessionSocket`: a task that may go on does: the loop's wait for a cancelled turn ends when the turn does, a cancellation meets
  the await the turn is in, handlers and the pump go on. Streams need not end, clients need not leave.
* `PendingMemory`: a pass that has begun goes on, the sweep's cron runs, sessions fall quiet and rows grow old (a deployment
  where no session does leaves its rows to the hooks). A step that waits for a row lock gets it in the end (`Advance` is
  strongly fair). Hooks need not run.
* `ChannelStreams`: heartbeats come, requests and passes that have begun go on, the process starts its runtime and one that ends
  is let end. Nobody must edit anything.

## Where the code disagrees with its own text

Each of these has a run that exhibits the behaviour; `PROJECT.json` quotes the lines.

1. `DispatchedOnce` (`approvals_two_approvers`): two REST approvals read PENDING and
   both dispatch; the guard "against the race" tests for a missing row, not a decided one. How far this
   goes is proved: one dispatch per decider that can race for the proposal (`DispatchesBoundedHolds`), hence one when there is
   one decider (`DispatchedOnceHolds`).
2. `LostMeansOrphaned` (`inflight_compose`): the startup sweep flips every RUNNING row whose token differs from its own (`services/inflight_run.py:457`,
   `:477`), those of live processes too. It is to recover the runs "orphaned by the previous backend incarnation" (`main.py:86-87`); with backend and scheduler in containers of
   their own, as `docker-compose.yml` has them, a restart of the backend reports the scheduler's live flow runs LOST, and a second API
   process those of the first. `LiveLostUnseen` is what remains true, in every deployment (`LiveLostUnseenHolds`): a live run falls to such a sweep, to the one it was
   started ahead of, or to the reaper of another host, and never to the reaper of its own.
3. `CancelPickedUp` (`gateway_cancel`): cancelling a remote run raises before it writes the cancel row that the documentation
   has the worker pick up at its next poll. With `EnumColumn = TRUE` the property is violated too: the next statement closes the cancel
   row with the others. `CancelNeverDelivered` proves of both cases that no poll ever carries a cancel row.

### Disagreements without a run

Met while modelling; each is visible in the model or in the lines named, and has no run of its own.

Approvals and reviews:

* The chat handler resolves the future with the frame's verdict even when `repo.decide` left an already decided row alone
  (`api/v1/sessions.py:1550`, `:1576`). The sweep expires the row, a late "approve" arrives, the tool runs, the row says EXPIRED.
  `RunsOnlyAfterApproval` speaks of the human's verdict, which stands.
* Two decisions of one review cross (`services/approval.py:296-299`, `:310`). The later one finds the run terminal and leaves it, which the comment
  calls safe, but commits its own verdict over the review's: a KILLED run under an APPROVED review, or a
  COMPLETED one under an EXPIRED review.
* A chat frame that approves a *proposal* flips the row and dispatches nothing
  (`Commit`, `Fallible`), and no later decision can dispatch it. `DispatchedWithFlip` is
  therefore checked, and proved, where chat frames carry tool approvals only; `FlipsHold` says it of every proposal
  whose id no chat frame carries, in any deployment.
* The TTL sweep runs in the worker and resolves no future, although
  `agents/harness/approvals.py:7-8` names the sweeper among the parties that can: a parked call waits
  for its own timer, through which `ImplementsGate` holds.
* A cancel frame flips the review of a parked sub-agent and not its run, which then stays in
  HALLUCINATION_REVIEW: the reaper takes RUNNING rows only. `ParkedHasReview` and `ReviewSettles` name this exception.
* `jobs/subagent_zombie.py:13-15` wants no phantom review after a run is reaped. The reaper takes RUNNING
  rows, which name no review yet; a child that is reaped at work and then fails the gate files one for its ZOMBIE row (`GatePark` from `late`).
* `src/docs/runtime-and-jobs.md:154` says that every child beats every 30 s. None does, so one that works longer than 300 s is reaped alive.

Runs and the scheduler:

* The reaper's texts differ about a live process. `db/models/inflight_run.py:20-22` and `jobs/inflight_recovery.py:5-8` have it catch rows that are silent "even within a still-running
  process"; `services/inflight_run.py:571-573` and `src/docs/runtime-and-jobs.md:55-58` have it spare them. The code does either, by host: on its own it spares every row whose pid
  answers, hung or not, and on another it flips every silent row, at work or not (`Spared`). In the compose deployment no run is on the reaper's host, so that it spares none.
* A run that a channel stream starts before its process's startup sweep (`main.py:81`) has another `start_seconds` than the sweep and is flipped to LOST: the second disjunct of
  `LiveLostUnseen` (`Early` non-empty, as in `inflight`; the tick there lets the second pass between the two).
* The renewal is not the compare-and-set its comment says (`workflows/leader.py:146-149`): it tests that the key exists, so a leader that
  paused beyond the TTL takes the lease from its successor. Two leaders, once there are two, stay two: each renewal writes over the
  other's id and succeeds. A further leader takes a further fault (`LeadersBounded`).
* `src/docs/runtime-and-jobs.md:41-42` calls the terminal states of a run sticky. `transition()`
  and force-recycle decide from the row they read: a force-recycle that crosses the end of a turn replaces one terminal state by another
  (`FinishCommit`, `RecycleCommit`). `RestsForGood` is what remains true: only a writer that read the row while it was RUNNING does so. The same goes for `transition_state` of sub-agents.
* `src/docs/runtime-and-jobs.md:45-46` says the token's `start_seconds` defeats PID reuse. The reaper probes the pid
  only: where another process of its host has taken it, the orphan is spared at every sweep. `services/inflight_run.py:194-196` counts on the next cron run, which finds the pid
  alive again. So is the row of an unrecorded run (failed settlement, cancelled one-shot, `StartCut`) in a process that lives on. `OrphanSettles` is
  therefore about orphans of other hosts.
* Rows that are spared stay the longest silent, and the query takes the longest silent first (`repositories/inflight_run.py:65`): as many of them as the limit keep every
  other orphan waiting (`Starved`). Without that exception `OrphanSettles` is violated in its run.

Chat socket:

* A connection subscribes so that its pump wakes up "whenever a tool call asks for approval" (`api/v1/sessions.py:1143-1145`). The queue is the session's: two tabs pump it
  against each other, so that each request reaches one of them, and the first to disconnect takes it off the manager
  (`api/v1/sessions.py:1390`, `agents/harness/approvals.py:159-161`). Requests that follow reach nobody, and wait for their timer or for REST. `MissedOnlyAfterClose` is what remains. A full queue drops a request with a log line.
* `resume` is meant to replay what a client missed while it was away (`api/v1/sessions.py:1224-1228`). The cache it reads is made anew with each connection
  (`:1151`), so that a reconnected client is sent nothing.
* A stop before the turn has drawn its run id cancels it and sends no final frame, since there is no run to name. A turn that the console recycles ends without a closing
  frame. `EndsWithFrame` names both.
* `turn_busy` is per connection: two tabs run two turns. It is also sent for a message that follows the final frame closely, as the
  turn's task still persists the answer.
* A disconnect or a stop right after the final frame cancels that task before the assistant's message is stored, while
  the run's row says COMPLETED.
* A cancel during registration leaves the run id in the box until the next turn.

Gateway:

* `schemas/backend.py:92` says that `seq` "guarantees deterministic ordering". The reader takes rows above the largest seq it has seen
  (`adapter.py:167`): with two emits in flight (`Window` of 2 or more) one that is stored later with a lower seq is never read, and `ImplementsStream` fails.
* `purge_expired`, which is to expire rows that were claimed and lost (`services/gateway.py:158-168`), is a stub: such a request is not handed out again, and its caller waits for
  the deadline.
* The chat's cancel frame calls the native kernel whatever kernel the run has (`api/v1/sessions.py:1286`); a remote run is stopped through the cancellation
  of its task, whose `AttributeError` replaces the `CancelledError`: the turn is reported FAILED with an error frame. Force-recycle calls `cancel()`
  of the run's own kernel (`services/inflight_run.py:1024`), catches the error and reports it.

Pending memory:

* `db/models/pending_memory.py:54-58` keeps a FAILED row eligible for retry. The cron visits workspaces that have a PENDING row
  (`repositories/pending_memory.py:136-157`), so that one with FAILED rows only is not visited, and they are neither retried nor skipped.
* `services/pending_memory.py:56-62` has the quiet period keep hook and sweep off the same row. It is read before the rows are
  worked on, a session may wake up in between, and two hooks of one session exclude each other in no way: the row is promoted twice. `PromotedOnce` holds of the rows
  that no two transactions had in hand (`raced`); of the others, `SettledStays` says that only those who held a row before it settled write it again, once each.
* In the same way a cancellation and a promotion overwrite each other, a pass with an old object reopens a SKIPPED row as FAILED, and two passes fill the last place under
  the hard cap twice. `RetriesBoundedHolds` is about rows without such a race as well. Hook and sweep can deadlock, as they update rows in different orders; a database error
  in a pass rolls all its rows back.
* The sweep takes the oldest rows first and drops those of busy sessions afterwards: enough old rows of a busy session keep the others waiting.

Channels:

* `repositories/channel.py:42-44` leaves the filtering by mode to the runtime, whose reconcile does not filter: it starts a stream for every enabled channel,
  a webhook one included, until an edit of the channel stops it, and the next heartbeat starts it again. `Converges` speaks of channels in stream mode and of disabled ones.
* The Redis advisory lock of `services/channel_runtime.py:16-20` is not in the file: every process of a deployment holds a connection of its own.
* `stop_channel` suppresses every `CancelledError` at its await (`services/channel_runtime.py:196-198`), its caller's own too. A supervisor that is cancelled there finishes its pass, and may
  start a stream after `stop_all` has returned (`swallowed`). It starts no others than that pass had listed (`StopIsLast`).
* A reconcile that read its rows before an edit, or two notifications in the wrong order, leave an old configuration running until the next heartbeat.

Not modelled, seen on the way: `repositories/job_run.py:169` says ON CONFLICT DO NOTHING of a SELECT followed by an INSERT, and the QUEUED row is written after the job is queued
(`worker/queue.py:86`).

## The proofs

All proofs hold for arbitrary finite or infinite sets of tools, proposals, requests,
processes, runs, workers, connections, passes and channels, and arbitrary bounds, under each module's `ConstantsAssumption`. Where a
theorem assumes more, the text below says so. Some theorems state what no run checks: most are about deployments
in which a run's property fails, and say what is left of it. TLC has confirmed their invariants too, on the instances of the
last column (with the number of distinct states).

| theorem | invariant | instance on which TLC confirmed it |
| --- | --- | --- |
| `DispatchesBoundedHolds` | `ChatHolds`, `HandsKnown`, `DispatchAndRow`, `DispatchesBounded` | two proposals, one of them automatic and the other open to the chat frame, two REST requests in two processes, batches of two, a crash (1,350,316) |
| `LiveLostUnseenHolds` | `SweptAtHome` | two API processes on different hosts, a worker, an early run, a crash (1,257,989) |
| `LeadersBounded` | `Budget` | that of `leader` (305,633), which also reaches the bound |
| `OnlyReaperOvertakes` | `OvertakenByReaper` | that of `subagents` (213,516) |
| `YieldsRiseHolds` | `Rising` | that of `gateway` with two emits in flight (70,849) |
| `OneTurnHolds`, `RequestPushedOnce` | `OneTurn`, `ClosedWindsUp`, `QueueExact` | that of `session` with two approval requests (1,235,430) |
| `RetriesBoundedHolds` | `TriesCounted` | that of `pending_memory` (447,583) |
| `StopIsLast` | `Phases` | two channels, three configurations, two ends of the process (1,089,098) |

**Approvals.** `TypeCorrect`, `RunsOnlyAfterApprovalHolds`, `NoLostWakeupHolds`,
`NeverReopenedHolds`, `CancelledNeverRunsHolds`. The invariant is `Inductive`, five named parts: a row that a
transaction or the sweep holds exists (`RowsExist`); a request notifies only rows it is
about to write or that are decided (`WakesDecided`); the manager holds a future exactly while its callback waits
(`EntryMeansParked`); a yes on its way to the tool (`entry`, `answer`, `executed`) is backed by a vote and a decided row
(`YesBacked`); a tool decided while parked still has a decider to come while its future is open
(`LandedWakes`). None of the properties is inductive alone: that a returned callback ran with a decided row
depends on what the future held, which depends on when a request may notify, which depends on
what it committed. Two frame lemmas (`OnlyCallbacksMove`, `OnlyRowsMove`) say
which conjuncts a step that leaves the deciders, or the callbacks, alone preserves. `CancelledNeverRunsHolds` assumes one chat connection: with two,
the cancel frame of one tab closes rows of the other's turn, which goes on. Its invariant, `CancelsDead`, says that what a cancel frame has decided belongs to callbacks that
no longer run. `ApprovalsImplementGate` is the refinement without its fairness: every step of the protocol is a step of `ToolGate` or a stutter. It needs one more
invariant, that what ran was let through by a callback that has returned (`RanMeansReturned`), and `YesBacked` for the vote behind each "allowed".

The dispatches come last. `FlipsHold` and `DispatchedWithFlipHolds` rest on `ChatHolds`, that a chat request holds only rows a chat frame can name; the latter assumes
`Answerable \cap Proposal = {}`, which is how the client uses the frame, and not what the server enforces. `DispatchAndRowHolds` ties count and row: who is dispatched is decided for
good. On it stands `DispatchesBoundedHolds`: the dispatches committed, the deciders that hold the proposal
and the sweep that does (`DispatchesBounded`) never exceed the deciders there are, because a row that was dispatched once is held by nobody who read it later. It assumes finitely many REST requests.

**InflightRuns.** `TypeCorrect`, `DoneMeansSettledHolds`, `RestsForGoodHolds` and `LiveLostUnseenHolds`, all for any placement of runs on processes and of processes on hosts.
`RestsForGood` needs that a run nobody asked for is in nobody's hands (`Recorded`): a row gets into the hands of a sweep, a recycle or a settlement only while it is RUNNING. `LiveLostUnseen`
rests on `SweptAtHome`: a turn at work has its process up past the startup sweep, and what the reaper holds of its own host, or a startup
sweep of its own process, is an orphan and stays one. That is what survives the gap between a sweep's read and its commit, while turns go on,
processes restart and probes change their answer. That live runs of *other* hosts and processes are taken is the disagreement above.

**LeaderLease.** `TypeCorrect` and `OneLeader`: as long as no call came late and no key was
lost, at most one worker leads, for any TTL above the renewal interval. The invariant is
`LeaseCoversLeader`: a leader's id is in the key and the key outlives its sleep. Mutual
exclusion follows because a key holds one id. `LeaseCoversLeaderHolds` states it as a result of its own. `LeadersBounded` is what remains
after faults: at most one leader more than pauses and lost keys. In its invariant (`Budget`) the leader whose id is in the key, and who is not paused, is free (`Secure`), and each
other one was paid for by the fault that took the key from it. `OneLeader` is its case of no fault.

**SubagentRuns.** `TypeCorrect`, `ParkedHasReviewHolds`, `LeavesWithVerdictHolds`. The invariant adds three parts to
`ParkedHasReview`: a review is filed by the last step of its child, and a run is parked by it (`FiledAtEnd`); what a decider holds was filed, and a run
it will not write is not parked (`HoldsFiled`); only reviews are decided, and only chat connections cancel (`DecidersHold`).
`HoldsFiled` is the point: a decider that read the run while it was not terminal writes it together with the review, so the review of a parked run is
never closed without the run, except by a cancel frame. `LeavesWithVerdict` follows step by step. `OnlyReaperOvertakes` says whom a child at work can find
ahead of it: only the reaper, at every stage (`OvertakenByReaper`), and that no run goes back but for the one crossing of `GatePark` with `ReapCommit`. `SlotsHold` counts the children at work.

**Gateway.** `TypeCorrect`, `NeverHandedTwiceHolds`, `ReturnedMeansClosedHolds`, and the refinement `GatewayImplementsStream`. The first invariant is about hands: what a poll has locked is PENDING
(`LockedPending`), what it carries is claimed (`RepliedClaimed`), as is the run at a worker (`WorkClaimed`), no two polls hold one row (`HeldApart`), a run that was not opened has no rows
(`IdleUntouched`), and what was read is stored (`ReadStored`). `CancelUnseen` is why the cancel row never counts. That a run which is over leaves no open row
follows from the row locks: whoever closes it waits for the poll that would write DELIVERED over it. The refinement assumes `Window = 1`; its
invariant says that events are stored without a gap (`EventsInOrder`) and that a batch continues what was yielded (`BatchInOrder`). Every step then maps to one of the abstract
stream or to a stutter. `AnsweredMeansComplete` puts the same into one invariant: who is answered has all of it. For a larger `Window`, where the refinement fails, `YieldsRiseHolds` is what is left: nothing
twice, nothing late, nothing that is not stored (`Rising`). `StartsOnce` and `CancelNeverDelivered` are about what a worker is told, and need `RepliedClaimed` and `CancelUnseen`.

**SessionSocket.** `TypeCorrect` and the four safety properties. The invariant adds to `RunningTurnCanBeStopped` and `ClosedMeansSilent` whose a turn is (`TurnOwned`), that
the box names a turn of its connection that is named (`BoxNamed`), and a form of `EndsWithFrame` that looks ahead to the end of a turn that is being cancelled
(`EndTold`). `MissedOnlyAfterClose` rests on `QueueShared`: until another connection closes, an open one pumps the session's queue. `OneTurnHolds` extends what a connection's task slot says of open
connections to closed ones, whose turn goes on without it. `RequestPushedOnce` is about the queues after a close as well, when tabs pump different ones: `QueueExact` says that
queue and fate of a request agree, by position.

**PendingMemory.** `TypeCorrect`, `PromotedOnceHolds`, `SettledStaysHolds`, for any number of rows, sessions and passes. The invariant of `PromotedOnce` says what a pass holds
at each stage (`Stages`), that it works on rows it has read (`ReadFirst`) and once on each (`OnceAhead`), that a row nobody raced for is in one hand and was open when that read it
(`Alone`), and that its pass's verdict, its update and its insert agree (`Counted`). `SettledStaysHolds` is about every row, raced for or not: no query takes up a
settled one, a pass writes only rows it has read (`ReadFirst`) and lets go of them when it does, so that the holders of a settled row become fewer with each write. `RetriesBoundedHolds` adds that every object of such a row carries the committed count (`TriesCounted`), so that
no failure is lost and none is counted twice. The lists are sequences, so the lemmas about them are
stated on their index sets.

**ChannelStreams.** `TypeCorrect`, `SkippedHasNoStreamHolds`, `StopLeavesNothingHolds`. `StoppedIsStill` is the point: once `stop_all` has cancelled the supervisor nobody is left who
changes the table, though the lock was given up before. `StopIsLast` is the case it leaves out, the swallowed cancellation: `Phases` says that nothing but the rest of that one pass is left to run.

**Only model-checked**: the liveness properties (`PendingSettles`, `OrphanSettles`,
`LeaderElected`, `OrphanReaped`, `ReviewSettles`, `BatchReturns`, `RunReturns`, `StopReturns`, `PendingIsTakenUp`, `Converges`), the fairness part of the refinement `ImplementsGate`; all of these are out of the
prover's reach. Every safety property that a passing run checks has a theorem. By how much two passes can exceed the hard cap of memories would need a sum over
the rows, and with it induction over data; it is neither stated nor proved.

## Not modelled

* What dispatch handlers write, the reminder pass of the TTL job, notifications, audit.
* The order in which a sweep's query returns rows (any order is allowed, but in `PendingMemory` and `InflightRuns`), and the heartbeat's throttling.
* The reads of a batch decision are one step.
* The work of the elected scheduler, and the running of turns: kernels, tools, budgets, streaming, prompt assembly. These are most of the source by size; they are
  pipelines of calls of third-party models with no state of their own that others write.
* Frame content and order numbers on the chat socket; the payloads and statistics of gateway and pending memory; memories with a key, which `store()` merges.
* A channel stream's reconnects, and the routing, binding and dispatch of messages.
* Components listed `not_modelled` in `PROJECT.json`, with the reason. The largest are request handlers that read, check and write rows of their own (settings, flows, skills, workspaces), declarations
  (schemas, migrations) and the browser client: a model of them would restate their assignments.

## Plan

Done: the human approvals, the run registry, the election, the sub-agent batch, the gateway, the chat socket, deferred memories and the channel streams,
each with its theorems. Left:

1. `Budgets`: check-then-act claims on a shared count (rate window, quota, pairing code) as one parameterised
   module with an atomic counter as its abstract specification.
2. `JobRuns`: the metadata row, written by the enqueuer and by the worker, against the job's real outcome. `CronRefresh`: the scheduler's table of cron jobs against the flows.
3. The composition of `SubagentRuns` with `Approvals`, which share the TTL sweep and the deciders, so that one
   batch decision can carry a tool call, a proposal and a review.
4. Proofs: the refinement of each check-then-act claim of `Budgets` once it is there; for two racing REST requests, that a *second* dispatch
   implies that both read the proposal before either committed, as a property of the history of the two.
