---------------------------- MODULE RunTaskProofs ---------------------------
(***************************************************************************)
(* Theorems about RunTask, for any tasks, caps and costs: every step of    *)
(* the loop is a step TaskWorker allows run_task, so what is proved of the *)
(* task service holds of the daemon with its loop; and the loop keeps its  *)
(* budgets, heeds a cancellation, covers up no failure and reports on      *)
(* every way out.                                                          *)
(***************************************************************************)
EXTENDS RunTask, TaskWorkerProofs

\* A loop in progress is a run in progress.
LoopRuns == lpc # "out" => wpc = "running"

-----------------------------------------------------------------------------
(* The refinement.                                                         *)

\* Each way out of the loop is one of run_task's.
LEMMA WaysOut ==
  ASSUME wpc = "running"
  PROVE  /\ \A kind : Finish(kind) => ReportOutcome
         /\ EmitCancel => NoticeAbort
         /\ Propagate => RunRaises
BY DEF Finish, EmitCancel, Propagate, ReportOutcome, NoticeAbort, RunRaises, Goto, frameOfRun

\* A step of the loop is the end of a run, or changes nothing the worker sees.
LEMMA LoopStepMaps ==
  ASSUME LoopRuns, agent_loop
  PROVE  /\ wpc = "running" /\ LoopRuns'
         /\ RunEnds \/ UNCHANGED vars
<1>1. wpc = "running"
  BY DEF LoopRuns, agent_loop, Prepare, MaxItersReached, IterationCancelled, CostCap, StartTurn,
         TurnCancelled, TurnFails, TurnRaises, ToolRaises, CheckpointRaises,
         TurnReplies, ToolCancelled, StepCap, ToolPasses,
         ToolRuns, TaskDone, EndIteration, CheckpointSwallowed, CheckpointAbandons,
         CheckpointOnTrack
<1>2. \/ \E kind : Finish(kind)
      \/ EmitCancel \/ Propagate
      \/ \E pc : StayInLoop(pc)
  BY DEF agent_loop, Prepare, MaxItersReached, IterationCancelled, CostCap, StartTurn,
         TurnCancelled, TurnFails, TurnRaises, ToolRaises, CheckpointRaises,
         TurnReplies, ToolCancelled, StepCap, ToolPasses,
         ToolRuns, TaskDone, EndIteration, CheckpointSwallowed, CheckpointAbandons,
         CheckpointOnTrack
<1>3. CASE \E kind : Finish(kind)
  BY <1>1, <1>3, WaysOut DEF RunEnds, Finish, Leave, LoopRuns
<1>4. CASE EmitCancel
  BY <1>1, <1>4, WaysOut DEF RunEnds, EmitCancel, Leave, LoopRuns
<1>5. CASE Propagate
  BY <1>1, <1>5, WaysOut DEF RunEnds, Propagate, Leave, LoopRuns
<1>6. CASE \E pc : StayInLoop(pc)
  BY <1>1, <1>6 DEF StayInLoop, LoopRuns, vars, runVars
<1>7. QED
  BY <1>1, <1>2, <1>3, <1>4, <1>5, <1>6

\* The other threads, and the worker outside run_task, do not move a run in progress.
LEMMA OthersMap ==
  ASSUME LoopRuns, Others
  PROVE  Next /\ LoopRuns' /\ (lpc # "out" => UNCHANGED <<wpc, verdicts>>)
<1>1. Next /\ UNCHANGED loopVars
  BY DEF Others, Next, run_task
<1>2. CASE Environment
  BY <1>1, <1>2 DEF Environment, enqueue_task, request_abort, CancelArrives, CancelCompares,
     CancelReadsBusy, CancelSetsFlag, on_signal, HostSetsShutdown, runVars, LoopRuns, loopVars
<1>3. CASE task_worker \/ PublishCancelled
  <2>1. wpc # "running"
    BY <1>3 DEF task_worker, LoopTest, GetTimesOut, GetTask, ClaimBusy, ClaimId, ApplyScope,
       FallbackReport, ReportException, Cleanup, ClearBusy, ClearId, PublishCancelled, Goto
  <2>2. QED
    BY <1>1, <2>1 DEF LoopRuns, loopVars
<1>4. QED
  BY <1>2, <1>3, <1>1 DEF Others

\* So is each step of the daemon with its loop.
LEMMA StepMaps ==
  ASSUME LoopRuns, [RTNext]_rtVars
  PROVE  [Next]_vars /\ LoopRuns'
<1>1. CASE agent_loop
  BY <1>1, LoopStepMaps DEF Next, run_task
<1>2. CASE Others
  BY <1>2, OthersMap
<1>3. CASE UNCHANGED rtVars
  BY <1>3 DEF rtVars, loopVars, vars, runVars, LoopRuns
<1>4. QED
  BY <1>1, <1>2, <1>3 DEF RTNext

\* The daemon with its loop behaves as TaskWorker says (its safety; that it also does
\* so fairly is model-checked).
THEOREM LoopImplementsRunTask == RTSpec => Spec /\ []LoopRuns
<1>1. RTInit => Init /\ LoopRuns
  BY DEF RTInit, LoopRuns
<1>2. LoopRuns /\ [RTNext]_rtVars => [Next]_vars /\ LoopRuns'
  BY StepMaps
<1>3. QED
  BY <1>1, <1>2, PTL DEF RTSpec, Spec

\* So the queue is answered one verdict per task, in order, with the loop in place.
THEOREM LoopAnswersEveryTaskOnce == RTSpec => [](OneVerdictPerTask /\ OneCancelPerRequest)
BY LoopImplementsRunTask, OneVerdict, CancelsArePaidFor, PTL

-----------------------------------------------------------------------------
(* Every exit reports.                                                     *)

\* A terminal frame is recorded under its task.
LEMMA PublishRecords ==
  ASSUME current = task, task # NoTask, PublishTerminal
  PROVE  task \in recorded'
BY DEF PublishTerminal

\* No step leaves run_task without its terminal frame.
LEMMA ExitsRecord ==
  ASSUME TypeOK, WorkerInv, LoopRuns, EveryExitReports, [RTNext]_rtVars
  PROVE  EveryExitReports'
<1> USE DEF EveryExitReports
<1>1. wpc \in {"running", "cancelling"} => current = task /\ task # NoTask
  BY DEF WorkerInv, IdentifiedPCs, BusyPCs, TasklessPCs
<1>2. CASE agent_loop
  <2>1. wpc = "running"
    BY <1>2, LoopStepMaps
  <2>2. ASSUME NEW kind, Finish(kind)
        PROVE  task \in recorded' /\ task' = task
    BY <1>1, <2>1, <2>2, PublishRecords DEF Finish, frameOfRun, workerVars
  <2>3. \/ \E kind : Finish(kind)
        \/ wpc' # "returned"
    BY <1>2, <2>1 DEF agent_loop, Prepare, MaxItersReached, IterationCancelled, CostCap, StartTurn,
       TurnCancelled, TurnFails, TurnRaises, ToolRaises, CheckpointRaises,
       TurnReplies, ToolCancelled, StepCap, ToolPasses,
       ToolRuns, TaskDone, EndIteration, CheckpointSwallowed, CheckpointAbandons,
       CheckpointOnTrack, EmitCancel, Propagate, StayInLoop, vars, runVars
  <2>4. QED
    BY <2>2, <2>3
<1>3. CASE PublishCancelled
  BY <1>1, <1>3, PublishRecords DEF PublishCancelled, Goto, frameOfRun, workerVars
<1>4. CASE task_worker
  BY <1>4 DEF task_worker, LoopTest, GetTimesOut, GetTask, ClaimBusy, ClaimId, ApplyScope,
     FallbackReport, ReportException, Cleanup, ClearBusy, ClearId, Goto
<1>5. CASE Environment
  BY <1>5 DEF Environment, enqueue_task, request_abort, CancelArrives, CancelCompares,
     CancelReadsBusy, CancelSetsFlag, on_signal, HostSetsShutdown, runVars, workerVars
<1>6. CASE UNCHANGED rtVars
  BY <1>6 DEF rtVars, vars, runVars, workerVars
<1>7. QED
  BY <1>2, <1>3, <1>4, <1>5, <1>6 DEF RTNext, Others

\* The fallback frame of task_worker is never needed: whatever ends a run, and for any
\* caps, its own frame was published when run_task returned.
THEOREM NoSilentExit == RTSpec => []EveryExitReports
<1>1. RTInit => EveryExitReports
  BY DEF RTInit, Init, EveryExitReports
<1>2. TypeOK /\ WorkerInv /\ LoopRuns /\ EveryExitReports /\ [RTNext]_rtVars => EveryExitReports'
  BY ExitsRecord
<1>3. QED
  BY <1>1, <1>2, LoopImplementsRunTask, TypedWorker, PTL DEF RTSpec

-----------------------------------------------------------------------------
(* The loop's own variables.                                               *)

Places == {"out", "iter", "llm", "gate", "exec", "checkpoint"}

\* The local variables of run_task.
LocalShape ==
  /\ lpc \in Places
  /\ iterations \in Nat /\ cost \in Nat /\ steps \in Nat /\ lateTools \in Nat
  /\ batch \in Seq(ToolKinds) /\ trail \in Seq(ToolKinds)
  /\ unresolved \in BOOLEAN /\ done \in BOOLEAN
  /\ grace_allowed \in BOOLEAN /\ in_grace \in BOOLEAN

\* Outside the loop the locals are fresh; between turns no batch is left.
BetweenTurns ==
  /\ lpc = "out" => cost = 0 /\ ~grace_allowed /\ ~in_grace /\ lateTools = 0
  /\ lpc \notin {"gate", "exec"} => batch = << >> /\ ~done
  /\ lpc = "exec" => batch # << >>

\* What has been spent at each place.
Spent ==
  /\ lpc \in {"iter", "checkpoint"} =>
       cost <= MAX_USD - 1 + (IF lpc = "iter" THEN 2 ELSE 1) * MaxTurnCost
  /\ lpc \in {"llm", "gate", "exec"} =>
       cost <= MAX_USD - 1 + (IF in_grace THEN 2 ELSE 0) * MaxTurnCost
                           + (IF lpc = "llm" THEN 0 ELSE MaxTurnCost)
  /\ steps <= LOOP_MAX_STEPS /\ iterations <= MAX_ITERS
  /\ lpc = "exec" => steps < LOOP_MAX_STEPS

\* The grace turn completes and nothing else.
Grace ==
  in_grace /\ lpc \in {"gate", "exec"} =>
    /\ \A i \in DOMAIN batch : batch[i] \in Completions
    /\ batch = << >> => done

\* A tool that started late has seen the flag, and the flag stays up.
Late ==
  /\ lateTools <= 1
  /\ lateTools > 0 => abort_flag /\ lpc # "exec"

\* What the flags say of the tools that ran.
Failures ==
  /\ ~unresolved => ResolvedBefore(Len(trail) + 1)
  /\ done => \E k \in DOMAIN trail : trail[k] = "complete" /\ ResolvedBefore(k)

\* The inductive invariant of the loop.
LoopInv == LocalShape /\ BetweenTurns /\ Spent /\ Grace /\ Late /\ Failures

\* The constants, one by one.
LEMMA Caps ==
  /\ {MAX_ITERS, LOOP_MAX_STEPS, MaxTurnCost} \subseteq Nat
  /\ MAX_USD \in Nat \ {0}
BY LoopAssumption

\* A run begins, and ends, with fresh locals.
LEMMA FreshInv ==
  ASSUME Leave
  PROVE  LoopInv'
<1> USE DEF Leave, Fresh
<1>1. << >> \in Seq(ToolKinds) /\ Len(<< >>) = 0
  BY EmptySeq
<1>2. LocalShape'
  BY <1>1 DEF LocalShape, Places
<1>3. BetweenTurns' /\ Grace' /\ Late'
  BY DEF BetweenTurns, Grace, Late
<1>4. Spent'
  BY Caps DEF Spent
<1>5. Failures'
  BY <1>1 DEF Failures, ResolvedBefore
<1>6. QED
  BY <1>2, <1>3, <1>4, <1>5 DEF LoopInv

\* No run is in progress.
LEMMA LoopInvInitial == RTInit => LoopInv
<1> SUFFICES ASSUME RTInit PROVE LoopInv
  OBVIOUS
<1> USE DEF RTInit
<1>1. << >> \in Seq(ToolKinds) /\ Len(<< >>) = 0
  BY EmptySeq
<1>2. LocalShape
  BY <1>1 DEF LocalShape, Places
<1>3. BetweenTurns /\ Grace /\ Late
  BY DEF BetweenTurns, Grace, Late
<1>4. Spent
  BY Caps DEF Spent
<1>5. Failures
  BY <1>1 DEF Failures, ResolvedBefore
<1>6. QED
  BY <1>2, <1>3, <1>4, <1>5 DEF LoopInv

\* The head of an iteration: a turn is started below the cap, or as the grace turn.
LEMMA StartInv ==
  ASSUME LoopInv, StartTurn
  PROVE  LoopInv'
<1>1. /\ lpc = "iter" /\ lpc' = "llm" /\ iterations < MAX_ITERS /\ iterations' = iterations + 1
      /\ in_grace' = (OverBudget /\ grace_allowed) /\ grace_allowed' = FALSE
      /\ OverBudget => grace_allowed
      /\ UNCHANGED <<cost, steps, batch, unresolved, done, trail, lateTools, abort_flag>>
  BY DEF StartTurn, StayInLoop, vars, runVars
<1>2. LocalShape'
  <2>1. in_grace' \in BOOLEAN /\ grace_allowed' \in BOOLEAN
    BY <1>1, Zenon
  <2>2. QED
    BY <1>1, <2>1 DEF LoopInv, LocalShape, Places
<1>3. BetweenTurns' /\ Grace' /\ Late'
  BY <1>1 DEF LoopInv, BetweenTurns, Grace, Late
<1>4. Spent'
  <2>1. cost \in Nat /\ iterations \in Nat /\ steps \in Nat
    BY DEF LoopInv, LocalShape
  <2>2. cost <= MAX_USD - 1 + 2 * MaxTurnCost
    BY <1>1 DEF LoopInv, Spent
  <2>3. CASE OverBudget
    <3>1. in_grace'
      BY <1>1, <2>3
    <3>2. cost' <= MAX_USD - 1 + 2 * MaxTurnCost + 0
      BY <1>1, <2>2, Caps
    <3>3. QED
      BY <1>1, <2>1, <3>1, <3>2, Caps DEF LoopInv, Spent
  <2>4. CASE ~OverBudget
    <3>1. ~in_grace'
      BY <1>1, <2>4, Zenon
    <3>2. cost' <= MAX_USD - 1
      BY <1>1, <2>1, <2>4, Caps DEF OverBudget
    <3>3. QED
      BY <1>1, <2>1, <3>1, <3>2, Caps DEF LoopInv, Spent
  <2>5. QED
    BY <2>3, <2>4
<1>5. Failures'
  BY <1>1 DEF LoopInv, Failures, ResolvedBefore
<1>6. QED
  BY <1>2, <1>3, <1>4, <1>5 DEF LoopInv

\* A turn that is let through: in the grace turn it only completes.
LEMMA ReplyInv ==
  ASSUME LoopInv, NEW turn \in Turns, NEW c \in TurnCosts,
         lpc = "llm", turn # << >>, ~ForbiddenInGrace(turn),
         cost' = cost + c, batch' = turn, done' = FALSE, lpc' = "gate",
         UNCHANGED <<iterations, steps, unresolved, grace_allowed, in_grace, trail, lateTools, abort_flag>>
  PROVE  LoopInv'
<1>1. turn \in Seq(ToolKinds)
  BY LoopAssumption DEF Turns
<1>2. c \in 0 .. MaxTurnCost
  BY DEF TurnCosts
<1>3. LocalShape'
  <2>1. cost' \in Nat
    BY <1>2, Caps DEF LoopInv, LocalShape
  <2>2. done' \in BOOLEAN /\ lpc' \in Places
    BY Zenon DEF Places
  <2>3. QED
    BY <1>1, <2>1, <2>2 DEF LoopInv, LocalShape
<1>4. BetweenTurns' /\ Late'
  BY DEF LoopInv, BetweenTurns, Late
<1>5. Grace'
  BY DEF Grace, ForbiddenInGrace
<1>6. Spent'
  <2>1. cost \in Nat /\ steps \in Nat /\ iterations \in Nat /\ in_grace \in BOOLEAN
    BY DEF LoopInv, LocalShape
  <2>2. cost <= MAX_USD - 1 + (IF in_grace THEN 2 ELSE 0) * MaxTurnCost + 0
    BY DEF LoopInv, Spent
  <2>3. CASE in_grace
    BY <1>2, <2>1, <2>2, <2>3, Caps DEF LoopInv, Spent
  <2>4. CASE ~in_grace
    BY <1>2, <2>1, <2>2, <2>4, Caps DEF LoopInv, Spent
  <2>5. QED
    BY <2>3, <2>4
<1>7. Failures'
  BY DEF LoopInv, Failures, ResolvedBefore
<1>8. QED
  BY <1>3, <1>4, <1>5, <1>6, <1>7 DEF LoopInv

\* A tool passes its gate: nothing is spent yet.
LEMMA PassInv ==
  ASSUME LoopInv, ToolPasses
  PROVE  LoopInv'
<1>1. /\ lpc = "gate" /\ lpc' = "exec" /\ batch # << >> /\ ~abort_flag /\ steps < LOOP_MAX_STEPS
      /\ UNCHANGED <<locals, abort_flag>>
  BY DEF ToolPasses, StayInLoop, vars, runVars
<1>2. LocalShape' /\ BetweenTurns' /\ Grace'
  BY <1>1 DEF LoopInv, LocalShape, Places, BetweenTurns, Grace, locals
<1>3. Late' /\ Failures'
  BY <1>1 DEF LoopInv, LocalShape, Late, Failures, ResolvedBefore, locals
<1>4. Spent'
  BY <1>1 DEF LoopInv, Spent, locals
<1>5. QED
  BY <1>2, <1>3, <1>4 DEF LoopInv

\* The end of an iteration is not reached in the grace turn, which is done by then.
LEMMA EndInv ==
  ASSUME LoopInv, EndIteration
  PROVE  LoopInv'
<1>1. /\ lpc = "gate" /\ lpc' \in {"checkpoint", "iter"} /\ batch = << >> /\ ~done
      /\ grace_allowed' = OverBudget
      /\ UNCHANGED <<iterations, cost, steps, batch, unresolved, done, in_grace, trail, lateTools,
                     abort_flag>>
  BY DEF EndIteration, StayInLoop, vars, runVars
<1>2. ~in_grace
  BY <1>1 DEF LoopInv, Grace
<1>3. LocalShape'
  BY <1>1 DEF LoopInv, LocalShape, Places, OverBudget
<1>4. BetweenTurns' /\ Grace' /\ Late'
  BY <1>1 DEF LoopInv, BetweenTurns, Grace, Late
<1>5. Spent'
  <2>1. cost \in Nat /\ cost <= MAX_USD - 1 + 0 * MaxTurnCost + MaxTurnCost
    BY <1>1, <1>2 DEF LoopInv, LocalShape, Spent
  <2>2. cost <= MAX_USD - 1 + 1 * MaxTurnCost /\ cost <= MAX_USD - 1 + 2 * MaxTurnCost
    BY <2>1, Caps
  <2>3. QED
    BY <1>1, <2>2 DEF LoopInv, Spent
<1>6. Failures'
  BY <1>1 DEF LoopInv, Failures, ResolvedBefore
<1>7. QED
  BY <1>3, <1>4, <1>5, <1>6 DEF LoopInv

\* A checkpoint turn costs at most one turn more.
LEMMA CheckpointInv ==
  ASSUME LoopInv, CheckpointSwallowed \/ \E c \in TurnCosts : CheckpointOnTrack(c)
  PROVE  LoopInv'
<1>1. PICK c \in 0 .. MaxTurnCost :
        /\ lpc = "checkpoint" /\ lpc' = "iter" /\ cost' = cost + c
        /\ UNCHANGED <<iterations, steps, batch, unresolved, done, grace_allowed, in_grace, trail,
                       lateTools, abort_flag>>
  <2>1. CASE CheckpointSwallowed
    <3>1. cost' = cost + 0 /\ 0 \in 0 .. MaxTurnCost
      BY <2>1, Caps DEF CheckpointSwallowed, locals, LoopInv, LocalShape
    <3>2. QED
      BY <2>1, <3>1 DEF CheckpointSwallowed, StayInLoop, locals, vars, runVars
  <2>2. CASE \E c \in TurnCosts : CheckpointOnTrack(c)
    BY <2>2 DEF TurnCosts, CheckpointOnTrack, StayInLoop, vars, runVars
  <2>3. QED
    BY <2>1, <2>2
<1>2. LocalShape'
  BY <1>1, Caps DEF LoopInv, LocalShape, Places
<1>3. BetweenTurns' /\ Grace' /\ Late'
  BY <1>1 DEF LoopInv, BetweenTurns, Grace, Late
<1>4. Spent'
  <2>1. cost \in Nat /\ cost <= MAX_USD - 1 + 1 * MaxTurnCost
    BY <1>1 DEF LoopInv, LocalShape, Spent
  <2>2. cost' <= MAX_USD - 1 + 2 * MaxTurnCost
    BY <1>1, <2>1, Caps
  <2>3. QED
    BY <1>1, <2>2 DEF LoopInv, Spent
<1>5. Failures'
  BY <1>1 DEF LoopInv, Failures, ResolvedBefore
<1>6. QED
  BY <1>2, <1>3, <1>4, <1>5 DEF LoopInv

\* The trail grows by one tool.
LEMMA TrailGrows ==
  ASSUME NEW t \in Seq(ToolKinds), NEW k \in ToolKinds
  PROVE  /\ Append(t, k) \in Seq(ToolKinds) /\ Len(Append(t, k)) = Len(t) + 1 /\ Len(t) \in Nat
         /\ Append(t, k)[Len(t) + 1] = k
         /\ \A i \in 1 .. Len(t) : Append(t, k)[i] = t[i]
         /\ DOMAIN t = 1 .. Len(t) /\ DOMAIN Append(t, k) = 1 .. Len(t) + 1
OBVIOUS

\* The first of the tools left in a turn, and the rest.
LEMMA BatchShrinks ==
  ASSUME NEW t \in Seq(ToolKinds), t # << >>
  PROVE  /\ Head(t) \in ToolKinds /\ Tail(t) \in Seq(ToolKinds)
         /\ 1 \in DOMAIN t /\ Head(t) = t[1]
         /\ \A i \in DOMAIN Tail(t) : i + 1 \in DOMAIN t /\ Tail(t)[i] = t[i + 1]
OBVIOUS

\* A tool leaves no failure unresolved unless the flag says so, and a completion that
\* is believed finds none.
LEMMA ToolKeepsFailures ==
  ASSUME LocalShape, Failures, NEW tool \in ToolKinds, ~BlockedCompletion(tool),
         unresolved' = (tool = "fail" \/ (unresolved /\ tool # "act")),
         done' = (done \/ tool = "complete"), trail' = Append(trail, tool)
  PROVE  Failures'
<1>1. PICK n \in Nat :
        /\ n = Len(trail) /\ Len(trail') = n + 1 /\ trail'[n + 1] = tool
        /\ \A i \in 1 .. n : trail'[i] = trail[i]
        /\ DOMAIN trail = 1 .. n /\ DOMAIN trail' = 1 .. n + 1
  BY TrailGrows DEF LocalShape
<1>2. \A k \in 1 .. n + 1 : ResolvedBefore(k) => ResolvedBefore(k)'
  BY <1>1 DEF ResolvedBefore
<1>3. ASSUME ~unresolved'
      PROVE  ResolvedBefore(n + 2)'
  <2>1. tool # "fail" /\ (~unresolved \/ tool = "act")
    BY <1>3
  <2>0. (n + 2) - 1 = n + 1
    BY <1>1
  <2>2. SUFFICES ASSUME NEW i \in 1 .. n + 1, trail'[i] = "fail"
                 PROVE  \E j \in i + 1 .. n + 1 : trail'[j] = "act"
    BY <2>0, Zenon DEF ResolvedBefore
  <2>3. i \in 1 .. n
    BY <1>1, <2>1, <2>2
  <2>4. CASE tool = "act"
    BY <1>1, <2>3, <2>4
  <2>5. CASE ~unresolved
    <3>1. ResolvedBefore(n + 1)
      BY <1>1, <2>5 DEF Failures
    <3>2. PICK j \in i + 1 .. n : trail[j] = "act"
      BY <1>1, <2>2, <2>3, <3>1 DEF ResolvedBefore
    <3>3. j \in 1 .. n /\ j \in i + 1 .. n + 1
      BY <1>1, <2>3, <3>2
    <3>4. QED
      BY <1>1, <3>2, <3>3
  <2>6. QED
    BY <2>1, <2>4, <2>5
<1>4. ASSUME done'
      PROVE  \E k \in 1 .. n + 1 : trail'[k] = "complete" /\ ResolvedBefore(k)'
  <2>1. CASE done
    <3>1. PICK k \in 1 .. n : trail[k] = "complete" /\ ResolvedBefore(k)
      BY <1>1, <2>1 DEF Failures
    <3>2. k \in 1 .. n + 1
      BY <1>1, <3>1
    <3>3. QED
      BY <1>1, <1>2, <3>1, <3>2
  <2>2. CASE tool = "complete"
    <3>1. ResolvedBefore(n + 1)
      BY <1>1, <2>2 DEF BlockedCompletion, Failures
    <3>2. n + 1 \in 1 .. n + 1
      BY <1>1
    <3>3. QED
      BY <1>1, <1>2, <2>2, <3>1, <3>2
  <2>3. QED
    BY <1>4, <2>1, <2>2
<1>5. (n + 1) + 1 = n + 2
  BY <1>1
<1>6. ~unresolved' => ResolvedBefore(Len(trail) + 1)'
  <2>1. (Len(trail) + 1)' = n + 2
    BY <1>1, <1>5
  <2>2. QED
    BY <1>3, <2>1, Zenon DEF ResolvedBefore
<1>7. done' => \E k \in DOMAIN trail' : trail'[k] = "complete" /\ ResolvedBefore(k)'
  BY <1>1, <1>4, Zenon
<1>8. QED
  BY <1>6, <1>7, Zenon DEF Failures

\* A tool runs: it is counted, and its failure noted.
LEMMA ToolInv ==
  ASSUME LoopInv, ToolRuns, lpc' # "out"
  PROVE  LoopInv'
<1> DEFINE tool == Head(batch)
<1>1. /\ lpc = "exec" /\ lpc' = "gate" /\ ~BlockedCompletion(tool)
      /\ steps' = steps + 1 /\ unresolved' = (tool = "fail" \/ (unresolved /\ tool # "act"))
      /\ done' = (done \/ tool = "complete") /\ batch' = Tail(batch)
      /\ trail' = Append(trail, tool)
      /\ lateTools' = lateTools + (IF abort_flag THEN 1 ELSE 0)
      /\ UNCHANGED <<iterations, cost, grace_allowed, in_grace, abort_flag>>
  BY DEF ToolRuns, Finish, Leave, StayInLoop, vars, runVars
<1>2. batch \in Seq(ToolKinds) /\ batch # << >> /\ trail \in Seq(ToolKinds)
  BY <1>1 DEF LoopInv, LocalShape, BetweenTurns
<1>3. /\ tool \in ToolKinds /\ Tail(batch) \in Seq(ToolKinds) /\ 1 \in DOMAIN batch
      /\ tool = batch[1]
      /\ \A i \in DOMAIN Tail(batch) : i + 1 \in DOMAIN batch /\ Tail(batch)[i] = batch[i + 1]
      /\ Append(trail, tool) \in Seq(ToolKinds)
  BY <1>2, BatchShrinks, TrailGrows
<1> HIDE DEF tool
<1>4. LocalShape'
  <2>1. unresolved' \in BOOLEAN /\ done' \in BOOLEAN
    BY <1>1, Zenon
  <2>2. steps' \in Nat /\ lateTools' \in Nat
    BY <1>1 DEF LoopInv, LocalShape
  <2>3. QED
    BY <1>1, <1>3, <2>1, <2>2 DEF LoopInv, LocalShape, Places
<1>5. BetweenTurns'
  BY <1>1 DEF BetweenTurns
<1>6. Spent'
  <2>1. steps' <= LOOP_MAX_STEPS
    BY <1>1, Caps DEF LoopInv, LocalShape, Spent
  <2>2. QED
    BY <1>1, <2>1 DEF LoopInv, Spent
<1>7. Grace'
  <2>1. SUFFICES ASSUME in_grace
                 PROVE  /\ \A i \in DOMAIN batch' : batch'[i] \in Completions
                        /\ done'
    BY <1>1, Zenon DEF Grace
  <2>2. \A i \in DOMAIN batch : batch[i] \in Completions
    BY <1>1, <2>1 DEF LoopInv, Grace
  <2>3. tool = "complete"
    BY <1>1, <1>3, <2>2 DEF Completions, BlockedCompletion
  <2>4. QED
    BY <1>1, <1>3, <2>2, <2>3
<1>8. Late'
  <2>1. lateTools = 0
    BY <1>1 DEF LoopInv, LocalShape, Late
  <2>2. QED
    BY <1>1, <2>1 DEF Late
<1>9. Failures'
  BY <1>1, <1>3, ToolKeepsFailures DEF LoopInv
<1>10. QED
  BY <1>4, <1>5, <1>6, <1>7, <1>8, <1>9 DEF LoopInv

\* Each step of the daemon keeps the invariant of the loop.
LEMMA LoopInvKept == LoopInv /\ LoopRuns /\ [RTNext]_rtVars => LoopInv'
<1> SUFFICES ASSUME LoopInv, LoopRuns, [RTNext]_rtVars
             PROVE  LoopInv'
  OBVIOUS
<1>1. ASSUME UNCHANGED loopVars, abort_flag => abort_flag' \/ lpc = "out"
      PROVE  LoopInv'
  <2>1. LocalShape' /\ BetweenTurns' /\ Spent' /\ Grace' /\ Failures'
    BY <1>1 DEF loopVars, locals, LoopInv, LocalShape, BetweenTurns, Spent, Grace, Failures,
                ResolvedBefore
  <2>2. Late'
    BY <1>1 DEF loopVars, locals, LoopInv, LocalShape, BetweenTurns, Late
  <2>3. QED
    BY <2>1, <2>2 DEF LoopInv
<1>2. CASE Others
  <2>1. lpc # "out" /\ abort_flag => abort_flag'
    BY <1>2, OthersMap DEF Others, Environment, enqueue_task, request_abort, CancelArrives,
       CancelCompares, CancelReadsBusy, CancelSetsFlag, on_signal, HostSetsShutdown, runVars,
       task_worker, LoopTest, GetTimesOut, GetTask, ClaimBusy, ClaimId, ApplyScope,
       FallbackReport, ReportException, Cleanup, ClearBusy, ClearId, PublishCancelled, Goto
  <2>2. QED
    BY <1>1, <1>2, <2>1 DEF Others
<1>3. CASE agent_loop
  <2>1. CASE Leave
    BY <2>1, FreshInv
  <2>2. CASE ~Leave
    <3>1. ASSUME NEW turn \in Turns, NEW c \in TurnCosts, TurnReplies(turn, c)
          PROVE  LoopInv'
      BY <2>2, <3>1, ReplyInv DEF TurnReplies, Finish, StayInLoop, vars, runVars
    <3>2. CASE Prepare
      <4>1. lpc = "out" /\ lpc' = "iter" /\ UNCHANGED <<locals, abort_flag>>
        BY <2>2, <3>2 DEF Prepare, Propagate, StayInLoop, vars, runVars
      <4>2. LocalShape' /\ BetweenTurns' /\ Grace' /\ Failures'
        BY <4>1 DEF LoopInv, LocalShape, Places, BetweenTurns, Grace, Failures, ResolvedBefore,
                    locals
      <4>3. Spent' /\ Late'
        BY <4>1, Caps DEF LoopInv, LocalShape, BetweenTurns, Spent, Late, locals
      <4>4. QED
        BY <4>2, <4>3 DEF LoopInv
    <3>3. CASE ToolRuns
      <4>1. lpc' # "out"
        BY <2>2, <3>3 DEF ToolRuns, Finish, StayInLoop
      <4>2. QED
        BY <3>3, <4>1, ToolInv
    <3>4. QED
      BY <1>3, <2>2, <3>1, <3>2, <3>3, StartInv, PassInv, EndInv, CheckpointInv
         DEF agent_loop, MaxItersReached, IterationCancelled, CostCap, TurnCancelled, TurnFails,
             TurnRaises, ToolRaises, CheckpointRaises,
             ToolCancelled, StepCap, TaskDone, CheckpointAbandons, Finish, EmitCancel,
             Propagate
  <2>3. QED
    BY <2>1, <2>2
<1>4. CASE UNCHANGED rtVars
  BY <1>1, <1>4 DEF rtVars, vars, runVars
<1>5. QED
  BY <1>2, <1>3, <1>4 DEF RTNext


\* The loop invariant holds in every state of every run.
THEOREM LoopInvariant == RTSpec => []LoopInv
BY LoopInvInitial, LoopInvKept, LoopImplementsRunTask, PTL DEF RTSpec

-----------------------------------------------------------------------------
(* What follows from it.                                                   *)

\* The cost is tested at the head of an iteration only, so a run overshoots its cap by
\* the turn that crosses it, a checkpoint and the grace turn, and by no more; it
\* passes neither its step cap nor its iteration cap.
THEOREM BudgetsAreKept == RTSpec => []BudgetsHold
<1>1. LoopInv => BudgetsHold
  <2>1. SUFFICES ASSUME LoopInv PROVE BudgetsHold
    OBVIOUS
  <2>2. /\ cost \in Nat /\ lpc \in Places /\ in_grace \in BOOLEAN
        /\ {MAX_USD, MaxTurnCost} \subseteq Nat /\ MAX_USD >= 1
    BY <2>1, Caps DEF LoopInv, LocalShape
  <2>3. CASE lpc \in {"iter", "checkpoint"}
    BY <2>1, <2>2, <2>3 DEF LoopInv, Spent, Grace, BudgetsHold
  <2>4. CASE lpc \in {"llm", "gate", "exec"}
    BY <2>1, <2>2, <2>4 DEF LoopInv, Spent, Grace, BudgetsHold
  <2>5. CASE lpc = "out"
    BY <2>1, <2>2, <2>5 DEF LoopInv, BetweenTurns, Spent, BudgetsHold
  <2>6. QED
    BY <2>2, <2>3, <2>4, <2>5 DEF Places
<1>2. QED
  BY <1>1, LoopInvariant, PTL

\* After a cancel request at most the tool already past its gate is started.
THEOREM CancelIsHeeded == RTSpec => []CancelStopsTools
<1>1. LoopInv => CancelStopsTools
  BY DEF LoopInv, Late, CancelStopsTools
<1>2. QED
  BY <1>1, LoopInvariant, PTL

\* A task_complete is published on two ways out only, and on both nothing is unresolved.
LEMMA SuccessIsEarned ==
  ASSUME LoopInv, agent_loop, verdicts' # verdicts, lpc # "out", outcome' = "task_complete"
  PROVE  \/ \E k \in DOMAIN trail : trail[k] = "complete" /\ ResolvedBefore(k)
         \/ batch = << >> /\ ~done /\ ResolvedBefore(Len(trail) + 1)
<1>1. ~Finish("task_error")
  BY DEF Finish
<1>2. TaskDone \/ \E turn \in Turns, c \in TurnCosts : TurnReplies(turn, c)
  BY <1>1 DEF agent_loop, Prepare, MaxItersReached, IterationCancelled, CostCap, StartTurn,
     TurnCancelled, TurnFails, TurnRaises, ToolRaises, CheckpointRaises,
     ToolCancelled, StepCap, ToolPasses, ToolRuns,
     EndIteration, CheckpointSwallowed, CheckpointAbandons, CheckpointOnTrack, EmitCancel,
     Propagate, StayInLoop, vars, runVars
<1>3. CASE TaskDone
  BY <1>3 DEF TaskDone, LoopInv, Failures
<1>4. ASSUME NEW turn \in Turns, NEW c \in TurnCosts, TurnReplies(turn, c)
      PROVE  batch = << >> /\ ~done /\ ResolvedBefore(Len(trail) + 1)
  <2>1. lpc = "llm" /\ ~unresolved
    BY <1>1, <1>4 DEF TurnReplies, StayInLoop, vars, runVars
  <2>2. QED
    BY <2>1 DEF LoopInv, BetweenTurns, Failures
<1>5. QED
  BY <1>2, <1>3, <1>4

\* No run is reported as complete over a failure it left unresolved.
THEOREM NoFailureIsCoveredUp == RTSpec => NoSuccessOverFailure
<1>1. ASSUME LoopInv, LoopRuns, [RTNext]_rtVars
      PROVE  [verdicts' # verdicts /\ lpc # "out" /\ outcome' = "task_complete" =>
                \/ \E k \in DOMAIN trail : trail[k] = "complete" /\ ResolvedBefore(k)
                \/ batch = << >> /\ ~done /\ ResolvedBefore(Len(trail) + 1)]_rtVars
  <2>1. CASE agent_loop
    BY <1>1, <2>1, SuccessIsEarned
  <2>2. CASE Others
    BY <1>1, <2>2, OthersMap
  <2>3. CASE UNCHANGED rtVars
    BY <2>3
  <2>4. QED
    BY <1>1, <2>1, <2>2, <2>3 DEF RTNext
<1>2. QED
  BY <1>1, LoopInvariant, LoopImplementsRunTask, PTL DEF RTSpec, NoSuccessOverFailure
=============================================================================
