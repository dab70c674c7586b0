----------------------------- MODULE TaskWorker -----------------------------
(***************************************************************************)
(* The task service of the desktop daemon: DriverState (driver/state.py),  *)
(* task_worker (driver/loop.py) and the threads that share them.           *)
(*                                                                         *)
(* Three threads touch one DriverState without a common lock:              *)
(*   - the worker (main thread) takes tasks off task_queue, marks itself   *)
(*     busy, runs run_task and cleans up, one attribute at a time;         *)
(*   - the WS thread delivers task_dispatch (enqueue_task) and task_cancel *)
(*     (request_abort);                                                    *)
(*   - the viewer's HTTP thread enqueues tasks typed into the chat box.    *)
(* A step of this module is one read or one write of a shared attribute,   *)
(* so every interleaving of these threads is a behaviour.  run_task itself *)
(* is the abstract phase "running" here; RunTask gives its loop.           *)
(*                                                                         *)
(* Progress frames (task_action) are not represented: no property tells    *)
(* them apart.  A terminal frame (task_complete, task_error) is.           *)
(***************************************************************************)
EXTENDS Naturals, Sequences

CONSTANTS
  TaskIds,        \* ids the platform and the viewer give their tasks
  NoTask,         \* the empty current_task_id
  Anyone,         \* a task_cancel frame without task_id (None)
  MaxDispatches,  \* bound: tasks enqueued in a behaviour
  MaxCancels,     \* bound: task_cancel frames handled in a behaviour
  Embedded        \* TRUE: a host program may set shutdown_flag itself

ASSUME ConstantsAssumption ==
  /\ NoTask \notin TaskIds
  /\ Anyone \notin TaskIds
  /\ NoTask # Anyone
  /\ MaxDispatches \in Nat
  /\ MaxCancels \in Nat
  /\ Embedded \in BOOLEAN

VARIABLES
  task_queue,     \* queue.Queue of task ids
  busy,           \* DriverState.busy
  current,        \* DriverState.current_task_id
  abort_flag,     \* DriverState.abort_flag
  shutdown_flag,  \* DriverState.shutdown_flag
  recorded,       \* DriverState._terminal_task_ids
  scope,          \* whose scope ToolExecutor._scope is; NoTask: the base scope
  wpc,            \* where the worker is
  task,           \* the worker's local task_id
  hpc,            \* where the request_abort handler is
  target,         \* its argument task_id
  signalled,      \* the signal handler of cmd_run has run
  \* History, read by properties and bounds only:
  accepted,       \* every task enqueued, in order
  verdicts,       \* the task_id of every terminal frame published, in order
  requests,       \* task_cancel frames handled
  asked,          \* tasks some task_cancel frame named
  cancelled       \* sequence of tasks reported as cancelled_by_user

runVars     == <<abort_flag, recorded, wpc, verdicts, cancelled>>
handlerVars == <<hpc, target, requests, asked>>
workerVars  == <<busy, current, scope, task>>
queueVars   == <<task_queue, accepted>>
hostVars    == <<shutdown_flag, signalled>>
vars == <<runVars, handlerVars, workerVars, queueVars, hostVars>>

WorkerPCs == {"loop", "get", "claim", "claimId", "applyScope", "running",
              "cancelling", "returned", "raised", "cleanup", "clearBusy",
              "clearId", "stopped"}
HandlerPCs == {"idle", "compare", "readBusy", "set"}

-----------------------------------------------------------------------------
(* Publishing a terminal frame.                                            *)

\* publish_outbound of a task_complete or task_error for current_task_id; the
\* callers skip it when the id is empty.
PublishTerminal ==
  IF current = NoTask
  THEN UNCHANGED <<recorded, verdicts>>
  ELSE /\ recorded' = recorded \cup {current}
       /\ verdicts' = Append(verdicts, current)

Goto(from, to) == wpc = from /\ wpc' = to

-----------------------------------------------------------------------------
(* Producers: a task_dispatch frame, or a line typed into the viewer.      *)


enqueue_task(t) ==
  /\ Len(accepted) < MaxDispatches
  /\ task_queue' = Append(task_queue, t)
  /\ accepted' = Append(accepted, t)
  /\ UNCHANGED <<runVars, handlerVars, workerVars, hostVars>>

-----------------------------------------------------------------------------
(* request_abort(task_id), on the WS thread: it reads current_task_id      *)
(* twice, then busy, then sets the flag.                                   *)

CancelArrives(c) ==
  /\ hpc = "idle"
  /\ requests < MaxCancels
  /\ requests' = requests + 1
  /\ asked' = asked \cup (IF c = Anyone THEN TaskIds ELSE {c})
  /\ target' = c
  /\ hpc' = IF c = Anyone \/ current = NoTask THEN "readBusy" ELSE "compare"
  /\ UNCHANGED <<runVars, workerVars, queueVars, hostVars>>

CancelCompares ==
  /\ hpc = "compare"
  /\ hpc' = IF target # current THEN "idle" ELSE "readBusy"
  /\ UNCHANGED <<runVars, workerVars, queueVars, hostVars, target, requests, asked>>

CancelReadsBusy ==
  /\ hpc = "readBusy"
  /\ hpc' = IF busy THEN "set" ELSE "idle"
  /\ UNCHANGED <<runVars, workerVars, queueVars, hostVars, target, requests, asked>>

CancelSetsFlag ==
  /\ hpc = "set"
  /\ hpc' = "idle"
  /\ abort_flag' = TRUE
  /\ UNCHANGED <<recorded, wpc, verdicts, cancelled, workerVars, queueVars,
                 hostVars, target, requests, asked>>

request_abort ==
  \/ \E c \in TaskIds \cup {Anyone} : CancelArrives(c)
  \/ CancelCompares
  \/ CancelReadsBusy
  \/ CancelSetsFlag

-----------------------------------------------------------------------------
(* The worker outside run_task.                                            *)

LoopTest ==
  /\ wpc = "loop"
  /\ wpc' = IF shutdown_flag THEN "stopped" ELSE "get"
  /\ UNCHANGED <<abort_flag, recorded, verdicts, cancelled, handlerVars,
                 workerVars, queueVars, hostVars>>

GetTimesOut ==
  /\ Goto("get", "loop")
  /\ task_queue = <<>>
  /\ UNCHANGED <<abort_flag, recorded, verdicts, cancelled, handlerVars,
                 workerVars, queueVars, hostVars>>

GetTask ==
  /\ Goto("get", "claim")
  /\ task_queue # <<>>
  /\ task' = Head(task_queue)
  /\ task_queue' = Tail(task_queue)
  /\ UNCHANGED <<abort_flag, recorded, verdicts, cancelled, handlerVars,
                 busy, current, scope, accepted, hostVars>>

ClaimBusy ==
  /\ Goto("claim", "claimId")
  /\ busy' = TRUE
  /\ UNCHANGED <<abort_flag, recorded, verdicts, cancelled, handlerVars,
                 current, scope, task, queueVars, hostVars>>

ClaimId ==
  /\ Goto("claimId", "applyScope")
  /\ current' = task
  /\ UNCHANGED <<abort_flag, recorded, verdicts, cancelled, handlerVars,
                 busy, scope, task, queueVars, hostVars>>

\* A scope mapping scope_from_mapping cannot read raises instead.
ApplyScope ==
  /\ wpc = "applyScope"
  /\ \/ wpc' = "running" /\ scope' = task
     \/ wpc' = "raised" /\ UNCHANGED scope
  /\ UNCHANGED <<abort_flag, recorded, verdicts, cancelled, handlerVars,
                 busy, current, task, queueVars, hostVars>>


\* Mutant: the net only logs.
FallbackOnlyLogs ==
  /\ Goto("returned", "cleanup")
  /\ UNCHANGED <<recorded, verdicts, abort_flag, cancelled, handlerVars,
                 workerVars, queueVars, hostVars>>

\* The net under run_task: a run that returned without a terminal frame gets
\* a fallback task_complete.
FallbackReport ==
  /\ Goto("returned", "cleanup")
  /\ IF task \in recorded
     THEN UNCHANGED <<recorded, verdicts>>
     ELSE /\ recorded' = recorded \cup {task}
          /\ verdicts' = Append(verdicts, task)
  /\ UNCHANGED <<abort_flag, cancelled, handlerVars, workerVars, queueVars, hostVars>>


\* Mutant: the except block does not publish.
ExceptionOnlyLogged ==
  /\ Goto("raised", "cleanup")
  /\ UNCHANGED <<recorded, verdicts, abort_flag, cancelled, handlerVars,
                 workerVars, queueVars, hostVars>>

ReportException ==
  /\ Goto("raised", "cleanup")
  /\ PublishTerminal
  /\ UNCHANGED <<abort_flag, cancelled, handlerVars, workerVars, queueVars, hostVars>>


\* Mutant: reset_task_scope is forgotten.
CleanupKeepsScope ==
  /\ Goto("cleanup", "clearBusy")
  /\ recorded' = recorded \ {task}
  /\ UNCHANGED <<abort_flag, verdicts, cancelled, handlerVars, busy, current,
                 task, scope, queueVars, hostVars>>

\* The finally block: reset_task_scope and reset_terminal, then busy, then the
\* id.  abort_flag is not touched.
Cleanup ==
  /\ Goto("cleanup", "clearBusy")
  /\ scope' = NoTask
  /\ recorded' = recorded \ {task}
  /\ UNCHANGED <<abort_flag, verdicts, cancelled, handlerVars, busy, current,
                 task, queueVars, hostVars>>

ClearBusy ==
  /\ Goto("clearBusy", "clearId")
  /\ busy' = FALSE
  /\ UNCHANGED <<abort_flag, recorded, verdicts, cancelled, handlerVars,
                 current, scope, task, queueVars, hostVars>>

ClearId ==
  /\ Goto("clearId", "loop")
  /\ current' = NoTask
  /\ task' = NoTask
  /\ UNCHANGED <<abort_flag, recorded, verdicts, cancelled, handlerVars,
                 busy, scope, queueVars, hostVars>>

task_worker ==
  \/ LoopTest \/ GetTimesOut \/ GetTask \/ ClaimBusy \/ ClaimId \/ ApplyScope
  \/ FallbackReport \/ ReportException \/ Cleanup \/ ClearBusy \/ ClearId

-----------------------------------------------------------------------------
(* What run_task may do to the shared state.                               *)

frameOfRun == <<handlerVars, workerVars, queueVars, hostVars>>


\* Mutant: _emit_cancel does not clear the flag.
NoticeKeepsFlag ==
  /\ Goto("running", "cancelling")
  /\ abort_flag
  /\ UNCHANGED <<abort_flag, recorded, verdicts, cancelled, frameOfRun>>

\* A poll of abort_flag sees it set: _emit_cancel clears the flag first ...
NoticeAbort ==
  /\ Goto("running", "cancelling")
  /\ abort_flag
  /\ abort_flag' = FALSE
  /\ UNCHANGED <<recorded, verdicts, cancelled, frameOfRun>>

\* ... and then publishes task_error cancelled_by_user.
PublishCancelled ==
  /\ Goto("cancelling", "returned")
  /\ PublishTerminal
  /\ cancelled' = Append(cancelled, current)
  /\ UNCHANGED <<abort_flag, frameOfRun>>

\* Any other exit of the loop publishes its own frame and returns.
ReportOutcome ==
  /\ Goto("running", "returned")
  /\ PublishTerminal
  /\ UNCHANGED <<abort_flag, cancelled, frameOfRun>>

\* The exit task_worker guards against: no frame at all.
ReturnSilently ==
  /\ Goto("running", "returned")
  /\ UNCHANGED <<abort_flag, recorded, verdicts, cancelled, frameOfRun>>

RunRaises ==
  /\ Goto("running", "raised")
  /\ UNCHANGED <<abort_flag, recorded, verdicts, cancelled, frameOfRun>>

RunEnds == NoticeAbort \/ ReportOutcome \/ ReturnSilently \/ RunRaises

run_task == RunEnds \/ PublishCancelled

-----------------------------------------------------------------------------
(* Process level.                                                          *)

\* SIGTERM or SIGINT: cmd_run's handler sets an event of its own, which no
\* loop reads, and stops the WS client.
on_signal ==
  /\ ~signalled
  /\ signalled' = TRUE
  /\ UNCHANGED <<runVars, handlerVars, workerVars, queueVars, shutdown_flag>>

\* Only a program that embeds task_worker sets the flag; the daemon does not.
HostSetsShutdown ==
  /\ Embedded
  /\ ~shutdown_flag
  /\ shutdown_flag' = TRUE
  /\ UNCHANGED <<runVars, handlerVars, workerVars, queueVars, signalled>>

-----------------------------------------------------------------------------
Init ==
  /\ task_queue = <<>>
  /\ busy = FALSE
  /\ current = NoTask
  /\ abort_flag = FALSE
  /\ shutdown_flag = FALSE
  /\ recorded = {}
  /\ scope = NoTask
  /\ wpc = "loop"
  /\ task = NoTask
  /\ hpc = "idle"
  /\ target = Anyone
  /\ signalled = FALSE
  /\ accepted = <<>>
  /\ verdicts = <<>>
  /\ requests = 0
  /\ asked = {}
  /\ cancelled = <<>>

Environment ==
  \/ \E t \in TaskIds : enqueue_task(t)
  \/ request_abort
  \/ on_signal
  \/ HostSetsShutdown

Next == Environment \/ task_worker \/ run_task

Spec == Init /\ [][Next]_vars

\* The worker thread is scheduled, its one-second get timeout expires, and a
\* run ends (RunTask shows that it does: its loop is bounded and every LLM call
\* has a connect and an idle timeout).
Fairness == WF_vars(task_worker) /\ WF_vars(RunEnds) /\ WF_vars(PublishCancelled)

FairSpec == Spec /\ Fairness

-----------------------------------------------------------------------------
(* Properties.                                                             *)

TypeOK ==
  /\ task_queue \in Seq(TaskIds)
  /\ busy \in BOOLEAN
  /\ current \in TaskIds \cup {NoTask}
  /\ abort_flag \in BOOLEAN
  /\ shutdown_flag \in BOOLEAN
  /\ recorded \in SUBSET TaskIds
  /\ scope \in TaskIds \cup {NoTask}
  /\ wpc \in WorkerPCs
  /\ task \in TaskIds \cup {NoTask}
  /\ hpc \in HandlerPCs
  /\ target \in TaskIds \cup {Anyone}
  /\ signalled \in BOOLEAN
  /\ accepted \in Seq(TaskIds)
  /\ verdicts \in Seq(TaskIds)
  /\ requests \in Nat
  /\ asked \in SUBSET TaskIds
  /\ cancelled \in Seq(TaskIds)

\* The dequeued run still owes the platform its terminal frame.
OwesVerdict ==
  \/ wpc \in {"claim", "claimId", "applyScope", "running", "cancelling", "raised"}
  \/ wpc = "returned" /\ task \notin recorded

\* Every task accepted is answered by exactly one terminal frame that carries
\* its own id, in the order of acceptance, whichever way its run ends (answer,
\* cap, cancellation, exception, silence) and although the same id may be
\* dispatched again: the frames published, the run in progress and the queue
\* together are the tasks accepted.
OneVerdictPerTask ==
  accepted = verdicts \o (IF OwesVerdict THEN <<task>> ELSE <<>>) \o task_queue

\* Each run reported as cancelled consumed a cancel request of its own: one
\* task_cancel frame never cancels two runs.
OneCancelPerRequest ==
  Len(cancelled) + (IF wpc = "cancelling" THEN 1 ELSE 0)
    + (IF abort_flag THEN 1 ELSE 0) + (IF hpc # "idle" THEN 1 ELSE 0) <= requests

\* The tools of a run execute under the scope of that run's own task, and no
\* task's scope outlives its run.
ScopeOfRunningTask ==
  /\ wpc = "running" => scope = task
  /\ wpc \in {"loop", "get", "claim", "claimId", "clearBusy", "clearId"} =>
       scope = NoTask

\* Every accepted task is eventually answered, unless a host shut the worker
\* down first: no exit of run_task and no exception stalls the queue.
EveryTaskAnswered ==
  \A n \in 1 .. MaxDispatches :
    Len(accepted) >= n ~> (Len(verdicts) >= n \/ wpc = "stopped")

\* state.py, request_abort: "If *task_id* is given, the abort fires only when
\* it matches the currently running task."  A run reported as cancelled was the
\* run of a task some task_cancel frame named.
CancelHitsNamedTask ==
  \A i \in DOMAIN cancelled : cancelled[i] \in asked

=============================================================================
