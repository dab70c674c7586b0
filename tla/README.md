# TLA+ verification of agentflow-computer-mcp

Specifications, model-checking runs and proofs for the desktop daemon under
`src/src/agentflow_computer_mcp/` (paths below are relative to it).

## The system

The daemon lets the AgentFlow platform drive a computer. A WebSocket client
dials the platform and receives task dispatches, cancellations, stream
subscriptions and tool calls; a worker runs one task at a time through an LLM
agent loop whose tools move the mouse, run commands and edit files; side threads
capture the screen, serve a local viewer, ship log records, update the binary and
work through self-modification requests.

| Component | State | Operations | Interacts with |
|---|---|---|---|
| Task service: `driver/state.py`, `task_worker` in `driver/loop.py` | queue, `busy`, `current_task_id`, `abort_flag`, `shutdown_flag`, terminal ids | `enqueue_task`, `request_abort`, `publish_outbound`, the worker's claim, report and clean-up | WS thread and viewer enqueue and cancel; main thread runs tasks; no common lock |
| Agent loop: `run_task` | iterations, cost, steps, checkpoint mark, unresolved failure, grace flags | LLM turn, tool batch, checkpoint turn, twelve exits | polls `abort_flag`; publishes the terminal frame |
| Tool executor, scope, confirmation: `driver/desktop_tools.py`, `tools/code.py`, `scope.py`, `confirm.py`, `server.py` | task scope, dialog, files | `execute`, `_dispatch_tool`, `confirm`, file and command tools | called by the loop's thread and, for direct calls, by the event loop |
| WS session: `ws_client.py`, `health.py`, `auth.py` | socket, handshake flag, backoff, failures, credential in memory and on disk, background calls | dial, hello, receive, heartbeat, publish, save | all inbound callbacks; `publish` is called from every thread |
| Log uploader: `ws_log_uploader.py` | bounded queue, publisher | `emit`, `set_publisher`, `_drain` | logging threads and the session |
| Capture and viewer: `driver/streamer.py`, `driver/viewer.py` | frame, subscription, viewer count, dedup hash | wake, wait, publish frame | session and HTTP threads |
| Self-modification: `driver/selfmod*.py` | JSONL queue on disk, git work tree | request, cancel, requeue, claim, process | CLI and daemon are two processes |
| Project launch: `driver/tools/agent_brief.py` | workspace, child processes, one log file, dev server | clone, start the code agent, watch and report, heartbeat, tail | watcher threads per call; tools that start processes |
| Project set-up: `driver/tools/project_setup.py` | `proj-<slug>`, dev server, pid file | clone, strip, install, start, wait, report | overlapping calls of one thread each |
| Runtimes: `driver/resolve_runtimes.py` | `.env.local`, `/usr/local/bin`, `/opt/runtimes` | env defaults, Node, Python, Rust, Go | every project of a pod |
| Integrations: `driver/tools/integrations.py` | registry cache, the user's own Chrome | connect, Telegram flow, direct flow | the user goes on browsing |
| Auto-updater: `auto_updater.py` | staged file, executable, poll interval | probe, download, swap, restart | poller thread, on-demand check, `update.bat` |
| Multi-agent: `agents/` | slots, queues, browser pool, token budget | dispatch, pause, create, stop; acquire, release, shutdown | asyncio tasks and a Unix socket |
| Autonomous: `autonomous/` | plans, milestones, skills, spend in SQLite | wake, plan, decompose, reflect, charge | scheduler process and CLI process |
| Screen recorder: `tools/screen_record.py` | ffmpeg process, worker thread | start, stop, auto-stop | tool threads |

What makes it hard: the threads share attributes without a lock; a cancellation
can arrive between any two of them; sessions die at any await; a run has twelve
ways to end and each owes the platform one frame; caps are tested at some points
and spent at others; files are rewritten while another process has them open or
the process dies; child processes are watched through nothing but a signal 0;
what a tool reports is decided some steps after it was looked at. `PROJECT.json`
lists each of these hazards at its line.

What makes each component correct:

- task service: every accepted task is answered once, in order, under its own
  scope; one cancel frame cancels at most one run; nothing stalls the queue.
- agent loop: it implements what the worker assumes of it; cost, steps and the
  grace turn stay within their caps; cancellation stops tools; no success is
  reported over an unresolved failure.
- tools: none acts outside its scope or without the user's word where the scope
  asks for it; edits are not lost.
- session: it comes back after faults with a bounded exponential pause; a silent
  peer is noticed; nothing feeds a dead tunnel; the tunnel is a lossy channel that
  keeps order; the credential survives a restart.
- log uploader: two drains neither lose nor duplicate a record.
- capture: no lost wake-up, no viewer miscounted, every change published.
- self-modification: no row that is whole is lost, only queued requests are claimed,
  one is accepted per interval.
- launch: one dev server a call, started after the call's agent; every watcher comes to
  its one report; what a tailer reads is posted once and in order; one report per outage.
- set-up, runtimes, integrations: what they report is so, and what one project
  was given another does not take away.
- updater, pool, router, recorder, wake cycle: a whole binary with a published digest; a
  bounded pool; a count that joiners can rely on; recordings that do not cut each other; one
  wake a day and no result that was not charged.

## Modules

| Module | What it is |
|---|---|
| `TaskWorker` | `DriverState`, `task_worker` and `request_abort`; one read or write of a shared attribute per action. `run_task` is the phase `running`. |
| `RunTask` | extends `TaskWorker`: the agent loop in place of that phase; implements it. |
| `LossyChannel` | abstract: what publishing threads may rely on. |
| `WsSession` | `WSClient`: from one await to the next, with the network, the heartbeat, other threads' `publish`, and restarts of the process; implements `LossyChannel`. |
| `LogUploader` | extends `WsSession`: the log queue and its two drains. |
| `Streamer` | `CaptureLoop`, the stream subscription and the MJPEG viewers over the events of `DriverState`. |
| `Selfmod` | the self-modification queue as a file two processes rewrite, its worker, the tool and the CLI. |
| `ToolGate` | a tool call from its entry through scope and dialog to its effect, in the task's thread or on the event loop. |
| `AgentBrief` | `agent_dev_brief`, the process table it relies on, and its watchers. |
| `AgentLog` | the tailers of the one log file all code agents append to. |
| `PreviewHeartbeat` | the liveness thread of a preview. |
| `ProjectSetup` | `project_clone_and_setup`, overlapping calls and their dev servers. |
| `Runtimes` | `resolve_runtimes` for several workspaces of one pod. |
| `Integrations` | the three flows that connect an integration. |
| `AutoUpdater` | the two probes, the staged file and the swap on Unix and Windows. |
| `BrowserPool` | `agents/pool.py`. |
| `Agents` | the router's queues and consumers, and the socket's pause, resume and create. |
| `ScreenRecorder` | `ScreenRecorder` with its worker and its stops. |
| `Autonomous` | the scheduler, the planner, the ledger and the CLI over one database. |
| `TaskWorkerProofs`, `RunTaskProofs`, `SelfmodProofs`, `LossyChannelProofs` | theorems about the module they are named after. |
| `SessionProofs` | theorems about `WsSession`, `Streamer` and `LogUploader`. |
| `ToolsProofs` | theorems about `ToolGate`, `Integrations`, `BrowserPool` and `Autonomous`. |
| `HostProofs` | theorems about `ProjectSetup`, `Runtimes` and `AutoUpdater`. |
| `ServicesProofs` | theorems about `AgentBrief`, `AgentLog`, `PreviewHeartbeat`, `Agents` and `ScreenRecorder`. |
| `MC*` | the instances TLC checks. `MCServices` and `MCTools` each hold several independent modules; a behaviour runs one of them (`part`), so their state spaces add up instead of multiplying. |

**TaskWorker.** `wpc` is the worker's program counter, `hpc` that of the
`request_abort` handler. `CancelArrives`, `CancelCompares`, `CancelReadsBusy` and
`CancelSetsFlag` are the separate reads and the write of `request_abort`, which
takes no lock; `ClaimBusy`, `ClaimId`, `ClearBusy` and `ClearId` are the separate
writes on the worker's side. `FallbackReport` is the net below `run_task`,
`ReportException` the except block, `Cleanup` to `ClearId` the finally block.
`recorded` is `_terminal_task_ids`. History variables (`accepted`, `verdicts`,
`requests`, `asked`, `cancelled`) exist for the properties and the bounds. A task
is its id: its text and its scope mapping carry no control except that a scope may
fail to parse (`ApplyScope`). Progress frames and the live-status file are left out.

**RunTask.** `lpc` is the place in the loop; each exit of the code is an action
that publishes and leaves (`MaxItersReached`, `CostCap`, `TurnFails`, `StepCap`,
`TaskDone`, `CheckpointAbandons`, and three inside `TurnReplies` and `ToolRuns`)
or reports a cancellation (`EmitCancel`) or raises (`Propagate`). What the model
answers is data: a turn is a sequence of tool uses, each by its outcome
(`complete`, `completeFailed`, `observe`, `act`, `fail`), which is what the three
classifiers `_tool_failure_reason`, `_tool_is_observation_only` and
`_task_complete_answer_indicates_failure` tell apart. Costs are whole units.
`run_task`'s polls of `abort_flag` are at the head of an iteration, during and at
the end of an LLM turn, and before every tool; the checkpoint turn swallows its
own cancellation and leaves the flag for the next poll. A reply that is JSON and no
object (`CheckpointRaises`), or a tool use whose answer is no string (`ToolRaises`),
raises out of `run_task` as a failed turn may.

**WsSession.** `rpc` follows `run` and `_connect_once`. The finally block is two
actions (`Detach`, `ClearSession`) because other threads see what lies between.
`link` is the real socket: up, silent (the peer is gone and nobody said so),
closed cleanly (1000 or 1001) or with an error; only `link` decides what arrives.
`publish` schedules on the loop, `_send_safely` sends later and drops on a dead
socket. `save_auth` writes a temporary file and renames it, so it is one step; it
may fail. The platform is external: it issues a `device_secret` to a device that
connected with its token, as the README of the repository says. `Restart` is a
process that dies and starts again with what `auth.json` holds.

**LogUploader.** The emitting thread and the loop each have a drain (`epc`, `fpc`).
`logging.Handler.handle` holds the handler's lock around `emit`, so there is one
emitter at a time. While `set_publisher` drains, nothing else runs on the loop.

**Streamer.** `cpc` is the capture thread's place between two accesses of a shared
flag. The check of `has_capture_consumer` is two reads (`CheckSubscribed`,
`CheckViewers`), the wait and the clear after it are two actions, and a subscriber
or a viewer sets its flag and the wake-up in two: that is where a wake-up could be
lost. A frame is the screen content it shows; the content hash tells contents
apart. `cooling` says that the emit interval has not elapsed; it is never doubled,
because `publish` does not raise.

**Selfmod.** A queue operation is what the code does to the files: read and patch
(`Rewrite`), open the temporary file, write it, rename it; an append for a new
request. `handle` is an open file, which follows its file when another process
renames it. Each step of an operation may raise or be the daemon's last.
`CommandsOverlap` says whether a CLI command may run in the middle of an operation
of the daemon: `_LOCK` does not prevent it. `process_request` is its outcomes and
the updates it makes in order. The queue is a function from requests to statuses;
what they ask for, what the agent changes and which diffs are refused is data, but for
one assumption: no text holds a Unicode line separator (see below). `tail` is how the
file ends: an append that meets a full disk or a death may leave it inside a row, before
the row's newline or inside a character, and the next append then makes one line of two.

**ToolGate.** `gpc` is the place of a call, `thread` and `loop` who holds the task's
thread and the event loop. A direct call yields the loop where `_dispatch_tool`
awaits: at the dialog and at the command. A file edit does not await, which is
what keeps two direct edits apart; an edit of the task's thread beside one of the
loop is not kept apart, and `crossed` says it happened. The scope is which gates
it confirms and whether this call is within it.

**AgentBrief, AgentLog, PreviewHeartbeat.** A process that ended stays a zombie
until some constructor of `Popen` collects it, and `_is_pid_alive` finds a zombie
alive: `Alive` and `Reaped`. Clocks count polls of a watcher. `agent_dev_brief` is
one action per stage, each of which may fail; the watcher of a web project
(`PortAnswers`, `PollsAgain`, `StartDevServer`, `GivesUp`) and that of a bot
(`WaitsForAider`, `LaunchBot`, `GetMe`) follow. `report` is what the platform took; the
one post of a watcher may be lost, and a probe may raise (`unheard`). `collided` says that
calls for one project overlapped. The log file is a sequence of pieces, each ending a
line or not, so that a read may stop inside a line (`leftover`); a tailer reads,
batches and flushes, and a flush may raise out of the loop into the finally block, which
posts the batch again (`torn` keeps what it held then). Heartbeats may be lost.

**ProjectSetup, Runtimes.** Calls overlap on a shared directory, a shared port, a
shared `/usr/local/bin`. A directory holds the clone of one call; a dev server
remembers what it was started in. Every command may fail, `node --version` too, which
the code takes for a missing Node (`blind` remembers who replaced one that would have
done); `n` may be content and leave nothing to link (`unlinked`); a manifest may raise out
of the run. The history variables `crowded` and `jumbled` name the overlaps the code does
not exclude, so that the properties say exactly under which of them the promise is off.

**Integrations.** The user and the site change the page in front, the front window's
profile and the sessions between any two steps. The probe asks the page in front, of
whatever profile; the export reads the cookie file of profile Default, which Chrome
brings up to date when it likes (`CookiesFlushed`). Cookies and keys are told apart by
whose session set them. `agreed` says that the two meant the same session when the page
was asked. An answer of the platform may be lost after it took what it was sent.

**AutoUpdater.** A file is its release and whether all of it is written; an open
handle follows its file through a rename. `check_now` makes three requests, and a
release may be published between them (`outrun`). The swap on Windows is the steps of
`_replace_windows`: the old sidecar is unlinked, the staged file moved or copied to its
name, `update.bat` written and started; each may fail or be the daemon's last. `sys.exit`
then ends the poller's thread and not the process; the script waits 30 s for the
process, moves the sidecar if the executable is not in use, and starts a daemon in any
case, so several may live, each with its two probes. `twoProbes` and `tornMove` name the
overlaps at the files.

**BrowserPool, Agents, ScreenRecorder.** A step goes from one await (or one lock)
to the next. A close of a context or a chromium, or a stop of a driver, may fail: the pool
forgets the object (`leaked`, `unclosed`, `unstopped`), which goes on running. `Create`
replaces the slot of a name whose consumer goes on with the old object. In
`ScreenRecorder` the worker reads the recorder's fields anew in each round, a capture
may fail (`CaptureFails`), `stop` lets go of the lock between its check and its clear,
and it may raise before the clear (`StopRaises`).

**Autonomous.** Each call of the planner is a read, an LLM call, a charge and a
write in transactions of their own, by two processes; either may die in between, and a
plan the database refuses sends the wake to its next goal (`PlanFails`).
Time is in ticks, with a minute of two and a day of two minutes.

## Runs

| Run | Bounds | What it shows |
|---|---|---|
| `task_worker` | ids a, b; 3 dispatches; 2 cancels; the host may set `shutdown_flag` | one verdict per task and in order, one run per cancel, the scope of the running task, every task answered |
| `run_task` | 1 task, 1 cancel; 3 iterations, 3 steps, budget 1, turns of cost 0 or 1 and up to 2 tools, checkpoint every 2 steps | the budgets, the cancellation, the reports and the rule on failures hold; the loop implements `TaskWorker` with its fairness |
| `ws_session` | 3 faults, 1 restart, backoff cap 3, 2 frames, 1 call | the pause, the credential, the refinement of `LossyChannel`, and that the client notices silence and comes back |
| `log_uploader` | 3 records, queue of 2, 1 fault, 1 restart | no record lost or duplicated before `publish`; a backlog is flushed |
| `streamer` | 2 screens, 2 viewers, 1 capture error | the wake-up, the viewer count and idle rest, the delivery of a change, the release of a viewer that left |
| `selfmod` | 2 requests, 1 command, 2 disk errors (an append may be cut by one), 1 death, commands do not overlap | no whole row is lost, only queued requests are claimed, the rate limit holds, what is queued is answered |
| `services` | launches: 2 calls, 1 project; log: 2 sessions, one of them tailed, 3 pieces, batches of 2; heartbeat: 3 misses, 2 outages, 1 lost post; recorder: 2 recordings, 1 death of ffmpeg; router: 2 names, 2 slots, 2 frames | `ServerAfterAgent`, `LaunchIsReported`, `StreamIsTheFile`, `OneDeadPostPerOutage`, `RecordingsAreSeparate`, `RecordingEnds`, `JoinersUnblock`, `FramesAreTaken` |
| `tools` | updater: 3 releases (2 major, 3 unsigned), 2 probes, 2 daemons, both platforms; pool: 3 slots, cap 2, 2 launches, 2 failed closes; autonomous: 1 goal, 2 milestones, 2 plans, 3 LLM calls, 3 ticks, 1 restart; integrations: 2 calls; gate: 2 calls; runtimes: 2 workspaces, 2 runs, 2 keys; set-up: 2 calls, 2 slugs | `InstallIsSound`, `PoolIsBounded`, `PlansAreAccounted`, `ConnectIsHonest`, `ActsAreGated`, `EditsCompose`, `RuntimesStay`, `SetupIsOwn` |
| `cancel_names_task` | 2 dispatches, 1 cancel | a cancel that names a task cancels another (finding) |
| `secret_is_persisted` | 1 fault | a secret whose save failed is never on disk (finding) |
| `queue_row_lost` | 2 requests, 1 command, overlapping | an overlapping command deletes a row (finding) |
| `preview_of_another` | 2 calls, 2 slugs | a set-up reports the preview of another project as its own (finding) |

Why the bounds are enough: two ids and three dispatches give a repeated id, a
named task that is not the running one and a successor to cancel by mistake; two
cancels give a second flag while the first is being reported. In `RunTask`, three
steps and two tools a turn reach the step cap inside and between batches; a
budget of one is crossed by a turn, exceeded by a checkpoint and then by the grace
turn. In `WsSession`, three failures in a row walk the pause through 1, 2 and the
cap 3, which is no power of two. In `LogUploader`, three records overflow a queue
of two, and one fault gives a second attach. In `Streamer`, two screens tell a change
from a repetition and two viewers a count from a flag. In `Selfmod`, two requests
give a rate limit something to refuse and a row that is not the one being patched;
two disk errors are what it takes to end the worker from inside its except clause,
and the death may come between any two steps of a rewrite. One error cuts an append and
another is left for the rewrite, or the append, that meets the unfinished line.

In `services`, two calls for one project share its workspace and port, and one's
process collects the other's zombie; a deadline of three polls leaves room for the
start of the dev server (which needs two) and one poll more. Two agents write one log
file; tailers share nothing but that file and sessions are alike, so one of them is
read (`OneTails`), while the theorem has any number; three pieces fill a batch of two and
leave a line, or a part of one, for the next read and the last flush. Two recordings are
one that an old stop can hit. In `tools`, release 1 is good, 2 has a digest and crosses
`MAX_MAJOR`, 3 has no digest, so a probe that is overtaken may be served either of them, at
its second request or its third; two probes meet at the files, of one daemon or of the one that was
there and the one `update.bat` started beside it; three slots want two contexts, the
chromium is launched twice, and both contexts may fail to close; two calls are of every
pair of entries and tools; one workspace wants a newer Node than the image has and the
other a newer one still; two set-ups are of one slug or of two. In `MCTools`, `Shipped`
fixes two manifests; the constraints of `TInit` that mention `part` only say in which
initial state a resting module rests, and the others bound the choices of one part: the
two workspaces ask for Node 2 and for Node 2 or 3, one that asks for 3 ships no
`.env.example`, and a scope confirms all gates or none.

Deadlock is not checked where the system may stop: a worker a host shut down, a
session after `stop`, a queue whose worker thread ended, and the bounded services
and tools when their calls are used up.

### Fairness

`TaskWorker`: the worker thread is scheduled, its `get` times out after a second,
and a run ends. The last is an assumption there and a consequence in `RunTask`:
`ImplementsTaskWorker` is `FairSpec` itself, checked under weak fairness of the
loop's steps only (every LLM call has a connect and an idle timeout, every tool a
limit). Cancels, dispatches and signals are never assumed to happen.
`WsSession`: the loop runs what is ready, every await of `run` has a time limit,
the heartbeat task wakes every 15 s, tools return. Faults are bounded by
`MaxFaults`, so a dial succeeds in the end; without that no client reconnects.
`Streamer`: the capture thread runs and its wait times out after a second, the emit
interval elapses, a subscriber that set its flag goes on to set the wake-up, and a
viewer's handler writes at least every two seconds. Nobody has to subscribe or
leave. `Selfmod`: started file operations end, and the worker runs; the agent, `git`,
`gh` and `pip` all have timeouts. Requests, commands, errors and deaths never have to
happen. `services`: a launch and its watcher go on (their waits are sleeps of a
fixed length and commands with timeouts); time passes for a recorder's worker, which
then leaves its loop, and a stop ends (its join and its wait for ffmpeg have limits);
a consumer of the router takes what is queued, and its handler returns. Agents,
dev servers and ffmpeg are never assumed to end. The modules of `tools` have no
liveness property and no fairness.

## Abstract specifications

- `RunTask` implements `TaskWorker`: `ImplementsTaskWorker` is `FairSpec` itself over
  the same variables, so the worker may rely on a run that reports once on every way
  out, clears the flag only by reporting a cancellation, and ends.
- `WsSession` implements `LossyChannel` (`Channel == INSTANCE LossyChannel WITH sent <-
  published, transit <- scheduled, received <- delivered`): a frame is sent once, may be
  lost before transit, with everything in transit, or at the end, and what arrives
  arrives once and in order. `LossyChannelProofs` shows what that gives a publisher.

## Proofs

Every theorem holds for all values of the constants, from the named assumptions of
the module it is about.

| Theorem | Statement |
|---|---|
| `TypeCorrect`, `RunningScope`, `CancelsArePaidFor`, `OneVerdict` | `TaskWorker`: types, `ScopeOfRunningTask`, `OneCancelPerRequest`, `OneVerdictPerTask` |
| `LoopImplementsRunTask` | `RTSpec => Spec`: each step of the loop is a step of `TaskWorker` or a stutter |
| `LoopAnswersEveryTaskOnce` | the two invariants of `TaskWorker` with the loop in place, by the refinement |
| `NoSilentExit`, `BudgetsAreKept`, `CancelIsHeeded`, `NoFailureIsCoveredUp` | `RunTask`: `EveryExitReports`, `BudgetsHold`, `CancelStopsTools`, `NoSuccessOverFailure` |
| `TunnelIsLossyChannel`, `CredentialSurvives` | `WsSession`: `IsLossyChannel` (the whole refinement), `RestartKeepsCredential` |
| `PausesDouble` | `WsSession`: `PauseIsSound`, from the hypothesis `PowersOfTwo` |
| `RecordsStayAccounted` | `LogUploader`: `RecordsAccountedFor` |
| `UploaderIsASession`, `RecordsArriveInOrder` | `LUSpec => WsSpec`: the session with the uploader is a session; hence order and credential of it |
| `WakesAreNotLost`, `CountIsTheViewers` | `Streamer`: `NoLostWake`, `ViewersAreCounted` |
| `ChannelKeepsOrder`, `FramesArriveInOrder` | `LossyChannel`: what arrived is in order and arrived once; hence the same of the session |
| `RowsStay`, `OnlyQueuedStart`, `OnePerInterval` | `Selfmod`, if commands do not overlap: `NothingIsDeleted`, `ClaimsOnlyQueued`, `RateLimit` |
| `NoCallEvadesItsGate`, `EditsAreSerial` | `ToolGate`: `ActsAreGated`, `EditsCompose` |
| `ConnectHonesty`, `PoolStaysBounded`, `AutonomousIsAccounted` | `Integrations`: `ConnectIsHonest`; `BrowserPool`: `PoolIsBounded`; `Autonomous`: `PlansAreAccounted` |
| `ReportsItsOwn` | `ProjectSetup`: `SetupIsOwn` |
| `ToolchainsStay`, `InstallsAreSound` | `Runtimes`: `RuntimesStay`; `AutoUpdater`: `InstallIsSound` |
| `NoServerUnderAgent`, `EveryLineOnce`, `OutageIsToldOnce` | `AgentBrief`, `AgentLog`, `PreviewHeartbeat`: `ServerAfterAgent`, `StreamIsTheFile`, `OneDeadPostPerOutage` |
| `JoinersAreServed`, `RecordingsStaySeparate` | `Agents`: `JoinersUnblock`; `ScreenRecorder`: `RecordingsAreSeparate` |

So every safety property of a passing run is a theorem as well. Two assumptions on
constants are there for the proofs: `PoolSlots` is finite (a slot is a directory) and the
updater's cap `MaxDelay` is at least one poll interval. `AF_UPDATE_INTERVAL_MIN` may be
set above the cap of 24 h (`auto_updater.py:54`); that setting is not modelled: a
success keeps such an interval and an error cuts it to the cap.
`PowersOfTwo`, the hypothesis of `PausesDouble`, is the definition of `2 ^ n`: the provers
have none, and the library's induction cannot be instantiated. TLC evaluates it for
exponents up to 30.

The arguments:

- *TaskWorker.* `OneVerdictPerTask` is not inductive: whether `FallbackReport`
  publishes depends on `recorded`, and whether `PublishTerminal` does depends on
  `current`. `WorkerInv` adds what makes it so: only the worker writes `task`, `busy`,
  `current` and `recorded`, so its place determines them. For cancels, reported ones,
  the one being reported, a set flag and a handler on its way never exceed the requests:
  each step that moves a token moves it one place along.
- *RunTask.* `LoopRuns` (a loop in progress is a run in progress) is all the refinement
  needs. `LoopInv` says, place by place, what may have been spent (`Spent`: an iteration
  starts below the cap or in grace, and a turn and a checkpoint may have been added
  since), that the grace turn ends done (`Grace`), that a tool that started late saw a
  flag that stays up (`Late`), and what `unresolved` and `done` say of the tools that ran
  (`Failures`).
- *WsSession.* The channel needs no invariant: each action is one of the channel's or
  leaves its three variables alone. `CredentialInv` says in which places memory may be
  ahead of the disk. The pause that is slept says nothing of the next one: `PauseInv` adds
  that `backoff` is the capped power of two of the streak at every place, also through an
  ack, which leaves it stale until the session ends (`Doubles`), and that an ack may run
  the failures below the streak only where `handshake` will restart it (`FailuresCounted`).
- *LogUploader.* `UploaderInv` has the places as sets and their lengths as a sum: all of
  `1 .. emitted` is somewhere and there are no more places than records. A drain begins
  with nothing left of the one before, else its snapshot would overwrite records
  (`DrainsEmpty`). For the refinement the same count shows that what a drain publishes
  was not published before: in two places at once, the places would hold fewer than
  `emitted` records (`FirstIsFresh`).
- *Streamer.* `NoLostWake` is about the loop when it waits; `WakeSeen` says what it must
  have seen at each place before (a consumer that comes after the test of
  `HasConsumer` has its wake ahead of it). The count is the cardinality of the viewers
  that are not closed, which stays finite (`Counted`); the loop leaves its wait only for
  somebody who is there (`IdleOnce`).
- *LossyChannel.* Nothing is sent twice, so "sent before" orders the frames; what was
  received, and behind it what is in transit, is in that order, and a send goes behind
  everything.
- *Selfmod.* One process at a time is in a queue operation and it alone has the temporary
  file open (`OneRewriter`); what it is about to write may follow, row by row, what is there
  (`MayFollow`). Of the accepted requests whose row is in the file one at most is recent
  (`OneAccepted`), and a row about to be appended as queued finds none (`AppendsOne`).
- *ToolGate.* The two entries are mutually exclusive places: whoever is between a read
  and a write of the file holds its thread or its loop. An answer is of the call whose
  dialog it was.
- *ProjectSetup.* An uncrowded call is the only one of its slug from its start to its
  server, so each stage finds the directory as the stage before left it.
- *Integrations.* `CallKnows` says what a flow has read and sent at each of its places;
  `SessionSeen` that, while nobody touched the browser and the page asked was Default's with
  its file up to date, that session is still there, in the file and in what was read.
- *BrowserPool.* Whoever is past the lock holds it, below the cap (`LockedOut`); open
  contexts inject into the slots that have one and those that are closing theirs
  (`OpenIsKnown`), and those forgotten open are no more than the closes that failed, which
  bounds them all; `OneChromium` says which chromium and which driver run, and that one
  that is forgotten was `unclosed` or `unstopped`.
- *Autonomous.* `Charged` counts the calls on their way: a result about to be written is
  charged, a charge about to be made was a call. `WakesOnce` is about dates nobody has
  woken on yet (`Fresh`). `Scored` follows the plan a reflection is about, over a table
  whose rows are rewritten but never removed.
- *Runtimes.* One run at a time replaces Node, and by a newer one unless the one there did
  not answer, so what a settled workspace needs is on `PATH`, or in the cache and about to
  be linked, or a blind run with a lower floor took it (`NodeStays`, `Excused`).
- *AutoUpdater.* While probes do not meet, one is at the files, it alone has one open, and
  what it applies is whole (`OneStages`); a script then finds a whole sidecar, or none, and
  the executable is whole (`BatsFindAll`). The releases that are in the files or on
  their way there are of a set (`Holds`): those with a digest, and, until a probe was
  outrun, those without a major bump.
- *Launch* (`ServicesProofs`). A watcher that may still start the server has not, and its
  call has an agent (`NotYetServed`); of the calls for a project that did not collide one
  is at work (`OneAtWork`). What a tailer sent and holds is what it read of a file that only
  grows, or is torn in the one way `Stream` spells out, at a place where it reads no more
  (`LogInv`); the flag of the heartbeat says whether the outage was posted (`BeatInv`).
- *Agents.* The frame in hand is held exactly while a handler runs (`HandsFull`), so the
  count, the hand and the queue move together; what waits is an end of what was accepted,
  which a put extends and a take shortens at its head.
- *ScreenRecorder.* While stops do not overlap one is under way, meant for what it took,
  and that stays current until it is cleared (`StopsAlone`); a worker that was not joined
  in vain is the current recording's, and done once the join is over (`WorkersOwn`).

Only model-checked: the properties beyond safety (`EveryTaskAnswered`,
`SilentLinkIsDropped`, `Reconnects`, `BacklogIsFlushed`, `ChangeIsPublished`,
`GoneViewerIsReleased`, `QueuedIsAnswered`, `LaunchIsReported`, `RecordingEnds`,
`FramesAreTaken`), because liveness under fairness and `ENABLED` are out of the prover's
reach; and the fairness of `ImplementsTaskWorker`, whose steps are `LoopImplementsRunTask`.

## Findings

1. `CancelHitsNamedTask`: `request_abort` is not atomic with the worker, and
   `abort_flag` is cleared only when a cancellation is reported, so a cancel can
   hit the task after the one it names.
2. `SecretIsPersisted`: a failed `save_auth` is never retried, because later acks
   are compared with memory.
3. `NothingIsDeleted`, with overlapping commands: the CLI and the daemon write one
   temporary file, and a row can be lost.
4. `OwnServerReplied`: a project set-up takes any listener on the fixed port for its
   own dev server.

### Seen while modelling

Read off the code or off a state TLC printed, and not given a run of their own.

*Daemon and session.* The signal handler never sets `shutdown_flag` (`state.py:55` says it
does), so the worker thread outlives it. A record whose emitter read the publisher
before the detach is dropped by `publish` (`ws_client.py:212`). A session that ends with
code 1000 or 1001 is followed by the next dial with no pause (`ws_client.py:115`); the
backoff is capped at 30 s where the repository's README says 60 s. A checkpoint reply that
is JSON but no object raises out of `run_task` (`loop.py:795`), although the docstring at
750 says that a broken checkpoint must not abort a healthy task. An emitter can overtake
the backlog that `set_publisher` is flushing (`ws_log_uploader.py:103`). A result that
becomes ready while the tunnel is down is dropped although its id is recorded as
answered. The dedup hash outlives the subscription, so a new subscriber of a static
screen gets no frame until it changes (`streamer.py:133`).

*Self-modification.* A request the daemon died at stays `in_progress`, a status neither
`retry` nor `cancel` accepts; a `retry` of a request whose PR is being merged is overwritten
by the merge's verdict; a `pip` that times out after a merge turns `merged` into `failed`.
An append cut short by a full disk or a death makes one line of the next row and the rest
of its own (`selfmod.py:78`): the next request is lost although the tool answered that it
was queued, and so is a row whose newline is all that is missing; cut inside a UTF-8
character, it makes every later queue operation raise and ends the worker. Rows are
written with `ensure_ascii=False` and read with `splitlines` (`selfmod.py:55,71,78`), so a
text with U+2028 or U+0085 makes its row unreadable and the next rewrite drops it; that is
data and not modelled.

*Launches and set-ups.* A lost `alive=false` is never repeated, nor is a clone-status that
was refused or failed (`agent_brief.py:1017-1023, 1397-1403`); a probe that meets an answer
which is no HTTP ends the watcher without any. An agent that ended is taken for alive until
the daemon starts another process, so the dev server may not be started and the watcher
give up; the agents `agent_dev_brief_edit` starts are known to no watcher, so one may be
editing when a server comes up. The docstring of the log tailer says that it seeks to the
end of the file so as not to stream it again (`agent_brief.py:1506-1509`), the code starts
at the head and says why (1607-1612). As all agents share that file, a later session's
tailer posts an earlier session's lines to its own project. "Errors are logged and do not
propagate" (1524), but an `HTTPException` of a post is not caught at 1583: it leaves the
loop, the finally block posts the same batch again (1655), and the lines of that read
which were not buffered yet are lost. Failures before the port is polled are not reported by
a project set-up; two calls of one slug share a directory; the pid file names the last
server only. Overlapping runs of `resolve_runtimes` can leave an older Node; a link that
fails after the unlink leaves none; a `node --version` that fails or times out reads as no
Node, and an older one may be installed over another workspace's; when `n` is content but
its binary is missing, "install" is answered with nothing linked
(`resolve_runtimes.py:348, 358`); keys of `.env.local` that `.env.example` does not list
are dropped, and an unreadable file is overwritten although the docstring at 637 says the
user's values are kept; a `.env.example` or `package.json` that is not UTF-8 raises.

*Integrations.* The probe asks the front window, whatever its profile, and the export always
reads profile Default (`integrations.py:345, 576`), so a flow the user never disturbed may
post a visitor's cookies, and the Telegram flow the cookies of one account with the
keys of another.

*Updater, recorder, agents, wake cycle.* On Windows `sys.exit` in the poller's thread does
not end the process, so `update.bat` finds the file in use after its 30 s and starts a second
daemon of the old release. `bat.write_text(..., encoding="ascii")` raises for a path with
other characters, after the old sidecar was unlinked and the new one moved. The tag, the
sums and the binary are three requests, so a release published between them can cross
`MAX_MAJOR`; both probes stage under one name. A close or stop that fails is forgotten by the
pool (`pool.py:82-103`), which then counts a context less than it runs. A recorder's stop
whose second wait times out, or that cannot read the file's size, leaves the recording
current with no worker (`screen_record.py:225-234`). An automatic stop that comes late can
stop the next recording.
A paused slot still runs tasks; a created slot has no consumer; an exhausted budget ends as
a crash. Ticks of a minute plus drift can skip the wake minute. A reply of the planner that
does not parse is not charged.

## Not modelled

- `autonomous/memory.py`, `autonomous/sub_agents.py`: single SQL statements and scores in
  floating point; nothing polls the table of sub-agents.
- Browser and API clients, the platform back ends: input and output only, without state
  that two callers share. `BudgetSlice` has no caller.
- Mouse, keyboard, window, clipboard and Chrome tools of the executor: each is one call to
  the operating system. `start_app` and `winget_search` start programs without passing a
  gate, so `ToolGate`, which is about the tools that have one, leaves them out.
- `agent_dev_brief_edit`: it starts an agent in a workspace and returns; in `AgentBrief` it
  is one of the other processes that start.
- Prompts and presets (text), installers, the set-up GUI, the macOS app, Docker and launchd
  files (packaging): sequential, and their effects are outside the repository.

## Plan

Models next: the composition of `TaskWorker` and `WsSession` through `publish_outbound`
(the abstract side, `RecordsArriveInOrder`, shows how a publisher is composed with the
session), and the one-off migration of the legacy slot. Proofs next: that the composed
daemon reports its verdicts in order over the lossy channel.
