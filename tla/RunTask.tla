------------------------------ MODULE RunTask ------------------------------
(***************************************************************************)
(* run_task of driver/loop.py: the agent loop that TaskWorker abstracts to *)
(* the phase "running".  One iteration is a poll of abort_flag and of the  *)
(* cost cap, an LLM turn, the tools that turn asks for (each behind a poll *)
(* and the step cap) and, now and then, a checkpoint turn.                 *)
(*                                                                         *)
(* The shared state and the other threads are TaskWorker's.  What the      *)
(* model answers is data: a turn is a sequence of kinds of tool use and a  *)
(* cost.  Costs are whole units; a turn costs at most MaxTurnCost.         *)
(***************************************************************************)
EXTENDS TaskWorker

CONSTANTS
  MAX_ITERS, LOOP_MAX_STEPS, LOOP_CHECKPOINT_EVERY, CHECKPOINT_MIN_STEPS,
  MAX_USD,       \* max_usd of this task
  MaxTurnCost,   \* bound: what one LLM turn may cost
  MaxBatch       \* bound: tool uses in one turn

ASSUME LoopAssumption ==
  /\ {MAX_ITERS, LOOP_MAX_STEPS, LOOP_CHECKPOINT_EVERY, CHECKPOINT_MIN_STEPS,
      MaxTurnCost, MaxBatch} \subseteq Nat
  /\ MAX_USD \in Nat \ {0}

VARIABLES
  lpc,           \* where the loop is; "out" when no run is in its loop
  iterations, cost, steps, last_checkpoint_at,
  batch,         \* tool uses of the turn not yet handled
  unresolved,    \* unresolved_tool_error is set
  done,
  grace_allowed, \* budget_finalization_turn_allowed
  in_grace,      \* in_budget_finalization_turn
  \* History:
  outcome,       \* kind of the last terminal frame a loop published
  trail,         \* the tools this run executed
  lateTools      \* tools this run started after abort_flag was set

locals   == <<iterations, cost, steps, last_checkpoint_at, batch, unresolved,
              done, grace_allowed, in_grace, trail, lateTools>>
loopVars == <<lpc, locals, outcome>>
rtVars   == <<vars, loopVars>>

\* How a tool use ends, as _tool_failure_reason, _tool_is_observation_only and
\* _task_complete_answer_indicates_failure classify it.  task_complete itself
\* never fails.
Completions == {"complete", "completeFailed"}
ToolKinds == Completions \cup {"observe", "act", "fail"}
Turns == UNION {[1 .. n -> ToolKinds] : n \in 0 .. MaxBatch}
TurnCosts == 0 .. MaxTurnCost

-----------------------------------------------------------------------------
(* Leaving the loop.  The locals go with the call.                         *)

Fresh ==
  /\ iterations' = 0 /\ cost' = 0 /\ steps' = 0 /\ last_checkpoint_at' = 0
  /\ batch' = <<>> /\ unresolved' = FALSE /\ done' = FALSE
  /\ grace_allowed' = FALSE /\ in_grace' = FALSE
  /\ trail' = <<>> /\ lateTools' = 0

Leave == lpc' = "out" /\ Fresh

\* Shared variables a loop step leaves alone when it stays in the loop.
StayInLoop(pc) == lpc' = pc /\ UNCHANGED <<vars, outcome>>

Finish(kind) ==
  /\ wpc' = "returned"
  /\ PublishTerminal
  /\ outcome' = kind
  /\ Leave
  /\ UNCHANGED <<abort_flag, cancelled, frameOfRun>>


\* Mutant: the flag survives the cancellation it caused.
EmitCancelKeepsFlag ==
  /\ abort_flag
  /\ wpc' = "cancelling"
  /\ Leave
  /\ UNCHANGED <<abort_flag, recorded, verdicts, cancelled, frameOfRun, outcome>>

EmitCancel ==
  /\ abort_flag
  /\ abort_flag' = FALSE
  /\ wpc' = "cancelling"
  /\ Leave
  /\ UNCHANGED <<recorded, verdicts, cancelled, frameOfRun, outcome>>

Propagate ==
  /\ wpc' = "raised"
  /\ Leave
  /\ UNCHANGED <<abort_flag, recorded, verdicts, cancelled, frameOfRun, outcome>>

-----------------------------------------------------------------------------
(* Before the loop: prompt, memory and the first screenshot, which raises  *)
(* on a host without a display.                                            *)

Prepare ==
  /\ lpc = "out" /\ wpc = "running"
  /\ \/ StayInLoop("iter") /\ UNCHANGED locals
     \/ Propagate

-----------------------------------------------------------------------------
(* The head of an iteration.                                               *)

OverBudget == cost >= MAX_USD


\* Mutant: running out of iterations just falls out of the loop.
MaxItersReturnsSilently ==
  /\ lpc = "iter" /\ iterations = MAX_ITERS
  /\ wpc' = "returned"
  /\ Leave
  /\ UNCHANGED <<abort_flag, recorded, verdicts, cancelled, frameOfRun, outcome>>

MaxItersReached ==
  /\ lpc = "iter" /\ iterations = MAX_ITERS
  /\ Finish("task_error")

IterationCancelled ==
  /\ lpc = "iter" /\ iterations < MAX_ITERS
  /\ EmitCancel

CostCap ==
  /\ lpc = "iter" /\ iterations < MAX_ITERS
  /\ ~abort_flag /\ OverBudget /\ ~grace_allowed
  /\ Finish("task_error")

StartTurn ==
  /\ lpc = "iter" /\ iterations < MAX_ITERS
  /\ ~abort_flag
  /\ OverBudget => grace_allowed
  /\ in_grace' = (OverBudget /\ grace_allowed)
  /\ grace_allowed' = FALSE
  /\ iterations' = iterations + 1
  /\ StayInLoop("llm")
  /\ UNCHANGED <<cost, steps, last_checkpoint_at, batch, unresolved, done, trail, lateTools>>

-----------------------------------------------------------------------------
(* The LLM turn (post_llm_cancellable).  A reply is returned only if the   *)
(* last poll of abort_flag saw it clear.                                   *)

TurnCancelled == lpc = "llm" /\ EmitCancel

\* HTTP error, unreachable or silent endpoint, or an error event in the stream.
TurnFails == lpc = "llm" /\ Finish("task_error")

TurnRaises == lpc = "llm" /\ Propagate


\* Mutants: the grace turn is not checked, or only a turn without any
\* task_complete is refused.
GraceUnchecked(turn) == FALSE
GraceNeedsOneCompletion(turn) ==
  in_grace /\ \A i \in DOMAIN turn : turn[i] \notin Completions

ForbiddenInGrace(turn) == in_grace /\ \E i \in DOMAIN turn : turn[i] \notin Completions

TurnReplies(turn, c) ==
  /\ lpc = "llm" /\ ~abort_flag
  /\ CASE turn = <<>> ->
            Finish(IF unresolved THEN "task_error" ELSE "task_complete")
       [] turn # <<>> /\ ForbiddenInGrace(turn) ->
            Finish("task_error")
       [] OTHER ->
            /\ cost' = cost + c
            /\ batch' = turn
            /\ done' = FALSE
            /\ StayInLoop("gate")
            /\ UNCHANGED <<iterations, steps, last_checkpoint_at, unresolved,
                           grace_allowed, in_grace, trail, lateTools>>

-----------------------------------------------------------------------------
(* The tools of the turn.                                                  *)

ToolCancelled == lpc = "gate" /\ batch # <<>> /\ EmitCancel

StepCap ==
  /\ lpc = "gate" /\ batch # <<>> /\ ~abort_flag
  /\ steps >= LOOP_MAX_STEPS
  /\ Finish("task_error")


\* Mutants: one step past the cap; no poll of abort_flag before a tool.
ToolPassesOffByOne ==
  /\ lpc = "gate" /\ batch # <<>> /\ ~abort_flag
  /\ steps <= LOOP_MAX_STEPS
  /\ StayInLoop("exec")
  /\ UNCHANGED locals
ToolPassesUnpolled ==
  /\ lpc = "gate" /\ batch # <<>>
  /\ steps < LOOP_MAX_STEPS
  /\ StayInLoop("exec")
  /\ UNCHANGED locals

ToolPasses ==
  /\ lpc = "gate" /\ batch # <<>> /\ ~abort_flag
  /\ steps < LOOP_MAX_STEPS
  /\ StayInLoop("exec")
  /\ UNCHANGED locals


\* Mutant: a task_complete over an earlier failure is believed.
BlockedByAnswerOnly(tool) == tool = "completeFailed"

\* executor.execute and the bookkeeping after it.  A task_complete does not end
\* the batch: the tools after it still run.
BlockedCompletion(tool) == tool = "completeFailed" \/ (tool = "complete" /\ unresolved)

ToolRuns ==
  /\ lpc = "exec"
  /\ LET tool == Head(batch) IN
     IF BlockedCompletion(tool)
     THEN Finish("task_error")
     ELSE /\ steps' = steps + 1
          /\ unresolved' = (tool = "fail" \/ (unresolved /\ tool # "act"))
          /\ done' = (done \/ tool = "complete")
          /\ batch' = Tail(batch)
          /\ trail' = Append(trail, tool)
          /\ lateTools' = lateTools + (IF abort_flag THEN 1 ELSE 0)
          /\ StayInLoop("gate")
          /\ UNCHANGED <<iterations, cost, last_checkpoint_at, grace_allowed, in_grace>>

\* Nothing catches what is wrong with the tool use itself: an answer that is no string,
\* an input that is missing.
ToolRaises == lpc = "exec" /\ Propagate

-----------------------------------------------------------------------------
(* The end of an iteration.                                                *)

TaskDone ==
  /\ lpc = "gate" /\ batch = <<>> /\ done
  /\ Finish("task_complete")

CheckpointDue ==
  /\ LOOP_CHECKPOINT_EVERY > 0
  /\ steps >= CHECKPOINT_MIN_STEPS
  /\ steps - last_checkpoint_at >= LOOP_CHECKPOINT_EVERY

EndIteration ==
  /\ lpc = "gate" /\ batch = <<>> /\ ~done
  /\ grace_allowed' = OverBudget
  /\ last_checkpoint_at' = IF CheckpointDue THEN steps ELSE last_checkpoint_at
  /\ StayInLoop(IF CheckpointDue THEN "checkpoint" ELSE "iter")
  /\ UNCHANGED <<iterations, cost, steps, batch, unresolved, done, in_grace,
                 trail, lateTools>>

\* _request_checkpoint.  Whatever its LLM call raises, TaskCancelled included, and a
\* reply that is not JSON count as on track, and the flag stays set.
CheckpointSwallowed ==
  /\ lpc = "checkpoint"
  /\ StayInLoop("iter")
  /\ UNCHANGED locals

CheckpointOnTrack(c) ==
  /\ lpc = "checkpoint" /\ ~abort_flag
  /\ cost' = cost + c
  /\ StayInLoop("iter")
  /\ UNCHANGED <<iterations, steps, last_checkpoint_at, batch, unresolved, done,
                 grace_allowed, in_grace, trail, lateTools>>

CheckpointAbandons ==
  /\ lpc = "checkpoint" /\ ~abort_flag
  /\ Finish("task_error")

\* A reply that is JSON, but no object, is not caught.
CheckpointRaises == lpc = "checkpoint" /\ ~abort_flag /\ Propagate

-----------------------------------------------------------------------------
agent_loop ==
  \/ Prepare \/ MaxItersReached \/ IterationCancelled \/ CostCap \/ StartTurn
  \/ TurnCancelled \/ TurnFails \/ TurnRaises
  \/ \E turn \in Turns, c \in TurnCosts : TurnReplies(turn, c)
  \/ ToolCancelled \/ StepCap \/ ToolPasses \/ ToolRuns \/ ToolRaises
  \/ TaskDone \/ EndIteration
  \/ CheckpointSwallowed \/ CheckpointAbandons \/ CheckpointRaises
  \/ \E c \in TurnCosts : CheckpointOnTrack(c)

RTInit ==
  /\ Init
  /\ lpc = "out" /\ outcome = "none"
  /\ iterations = 0 /\ cost = 0 /\ steps = 0 /\ last_checkpoint_at = 0
  /\ batch = <<>> /\ unresolved = FALSE /\ done = FALSE
  /\ grace_allowed = FALSE /\ in_grace = FALSE
  /\ trail = <<>> /\ lateTools = 0

Others == (Environment \/ task_worker \/ PublishCancelled) /\ UNCHANGED loopVars

RTNext == Others \/ agent_loop

RTSpec == RTInit /\ [][RTNext]_rtVars

\* The main thread runs; every LLM call and every tool call returns, for each
\* has a time limit of its own.
RTFairSpec ==
  /\ RTSpec
  /\ WF_rtVars(agent_loop)
  /\ WF_rtVars(task_worker /\ UNCHANGED loopVars)
  /\ WF_rtVars(PublishCancelled /\ UNCHANGED loopVars)

-----------------------------------------------------------------------------
\* What a task may do beyond its budgets.  The cost cap is only tested at the head
\* of an iteration: the turn that crosses it, one checkpoint turn after it and the
\* single grace turn may still be spent, and the tools the grace turn runs are
\* completions.  The step cap is tested before every tool and never passed.
BudgetsHold ==
  /\ cost <= MAX_USD - 1 + 3 * MaxTurnCost
  /\ steps <= LOOP_MAX_STEPS /\ iterations <= MAX_ITERS
  /\ in_grace /\ lpc \in {"gate", "exec"} =>
       \A i \in DOMAIN batch : batch[i] \in Completions

\* Once a cancel request has raised abort_flag, at most one more tool of the run
\* starts: the one that had already passed its gate.
CancelStopsTools == lateTools <= 1

\* Every failed tool before position k was followed, before k, by a tool that
\* changed something and succeeded.
ResolvedBefore(k) ==
  \A i \in 1 .. k - 1 :
    trail[i] = "fail" => \E j \in i + 1 .. k - 1 : trail[j] = "act"

\* A run reported as task_complete did not cover up a failure: when it declared
\* itself complete (by a task_complete call, or by answering without tools) no
\* tool failure was left unresolved.  Observations do not resolve a failure.
NoSuccessOverFailure ==
  [][verdicts' # verdicts /\ lpc # "out" /\ outcome' = "task_complete" =>
       \/ \E k \in DOMAIN trail : trail[k] = "complete" /\ ResolvedBefore(k)
       \/ batch = <<>> /\ ~done /\ ResolvedBefore(Len(trail) + 1)]_rtVars

\* loop.py, task_worker: "every one is now expected to publish a task_complete
\* / task_error".  No exit of the loop needs the fallback frame.
EveryExitReports == wpc = "returned" => task \in recorded

\* The loop implements what TaskWorker says of run_task: it reports exactly
\* once on every way out, clears the flag only by reporting a cancellation,
\* and ends, so the queue moves on.
ImplementsTaskWorker == FairSpec
=============================================================================
