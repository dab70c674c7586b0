-------------------------- MODULE TaskWorkerProofs --------------------------
(***************************************************************************)
(* Theorems about TaskWorker, for any set of tasks and any bounds: its     *)
(* type invariant, that one task_cancel frame never cancels two runs, and  *)
(* that every accepted task is answered by exactly one terminal frame, in  *)
(* order.                                                                  *)
(*                                                                         *)
(* Only the worker writes busy, current_task_id, the task scope and        *)
(* _terminal_task_ids, so where the worker is determines all four          *)
(* (WorkerInv): this is why the frames of a run carry that run's own id    *)
(* although nothing locks the attribute they read it from.                 *)
(***************************************************************************)
EXTENDS TaskWorker, SequenceTheorems, TLAPS

\* Where the worker has no task in hand, is busy, shows its task's id.
TasklessPCs   == {"loop", "get", "stopped"}
BusyPCs       == {"claimId", "applyScope", "running", "cancelling", "returned",
                  "raised", "cleanup", "clearBusy"}
\* The places where the task at work is named in current.
IdentifiedPCs == (BusyPCs \ {"claimId"}) \cup {"clearId"}

\* The worker's variables, by its place.
WorkerInv ==
  /\ (task = NoTask) <=> (wpc \in TasklessPCs)
  /\ busy <=> (wpc \in BusyPCs)
  /\ current = IF wpc \in IdentifiedPCs THEN task ELSE NoTask
  /\ recorded \subseteq {task}
  /\ recorded # {} => wpc \in {"returned", "cleanup"}
  /\ ScopeOfRunningTask

-----------------------------------------------------------------------------
(* Moving an element along three sequences in a row.                       *)

\* Enqueueing at the end of the queue is appending to the whole.
LEMMA AppendToLast ==
  ASSUME NEW S, NEW v \in Seq(S), NEW o \in Seq(S), NEW q \in Seq(S), NEW t \in S
  PROVE  v \o o \o Append(q, t) = Append(v \o o \o q, t)
<1>1. /\ <<t>> \in Seq(S)
      /\ v \o o \in Seq(S)
      /\ v \o o \o q \in Seq(S)
  BY ConcatProperties
<1>2. Append(q, t) = q \o <<t>>
  BY AppendIsConcat
<1>3. Append(v \o o \o q, t) = (v \o o \o q) \o <<t>>
  BY <1>1, AppendIsConcat
<1>4. (v \o o \o q) \o <<t>> = (v \o o) \o (q \o <<t>>)
  BY <1>1, ConcatAssociative
<1>5. QED
  BY <1>2, <1>3, <1>4

\* Taking the head of the queue in hand leaves the whole as it was.
LEMMA HeadInHand ==
  ASSUME NEW S, NEW v \in Seq(S), NEW q \in Seq(S), q # <<>>
  PROVE  v \o <<>> \o q = v \o <<Head(q)>> \o Tail(q)
<1>1. /\ Head(q) \in S
      /\ Tail(q) \in Seq(S)
      /\ <<Head(q)>> \in Seq(S)
  BY HeadTailProperties
<1>2. q = <<Head(q)>> \o Tail(q)
  <2>1. /\ Len(<<Head(q)>> \o Tail(q)) = Len(q)
        /\ <<Head(q)>> \o Tail(q) \in Seq(S)
        /\ \A i \in 1 .. Len(q) : (<<Head(q)>> \o Tail(q))[i] = q[i]
    BY <1>1, HeadTailProperties, ConcatProperties
  <2>2. QED
    BY <2>1, SeqEqual
<1>3. v \o <<>> = v
  BY ConcatEmptySeq
<1>4. v \o (<<Head(q)>> \o Tail(q)) = (v \o <<Head(q)>>) \o Tail(q)
  BY <1>1, ConcatAssociative
<1>5. QED
  BY <1>2, <1>3, <1>4

\* Answering the task in hand moves it to the end of the answers.
LEMMA AnswerInHand ==
  ASSUME NEW S, NEW v \in Seq(S), NEW q \in Seq(S), NEW t \in S
  PROVE  Append(v, t) \o <<>> \o q = v \o <<t>> \o q
<1>1. Append(v, t) = v \o <<t>> /\ Append(v, t) \in Seq(S)
  BY AppendIsConcat, AppendProperties
<1>2. QED
  BY <1>1, ConcatEmptySeq

-----------------------------------------------------------------------------
(* Types.                                                                  *)

\* The initial state is well typed.
LEMMA InitTypeOK == Init => TypeOK
<1> SUFFICES ASSUME Init PROVE TypeOK
  OBVIOUS
<1>1. <<>> \in Seq(TaskIds)
  OBVIOUS
<1>2. QED
  BY <1>1 DEF Init, TypeOK, WorkerPCs, HandlerPCs

\* The other threads write only their own attributes, the queue's tail and the
\* two flags.
LEMMA EnvironmentTypeOK == TypeOK /\ Environment => TypeOK'
<1> SUFFICES ASSUME TypeOK, Environment PROVE TypeOK'
  OBVIOUS
<1> USE DEF TypeOK, runVars, handlerVars, workerVars, queueVars, hostVars
<1>1. ASSUME NEW t \in TaskIds, enqueue_task(t) PROVE TypeOK'
  <2>1. Append(task_queue, t) \in Seq(TaskIds) /\ Append(accepted, t) \in Seq(TaskIds)
    BY AppendProperties
  <2>2. task_queue' \in Seq(TaskIds) /\ accepted' \in Seq(TaskIds)
    BY <1>1, <2>1 DEF enqueue_task
  <2>3. UNCHANGED <<runVars, handlerVars, workerVars, hostVars>>
    BY <1>1 DEF enqueue_task
  <2>4. QED
    BY <2>2, <2>3
<1>2. CASE request_abort
  <2>1. ASSUME NEW c \in TaskIds \cup {Anyone}, CancelArrives(c) PROVE TypeOK'
    BY <2>1 DEF CancelArrives, HandlerPCs
  <2>2. CASE CancelCompares \/ CancelReadsBusy
    BY <2>2 DEF CancelCompares, CancelReadsBusy, HandlerPCs
  <2>3. CASE CancelSetsFlag
    BY <2>3 DEF CancelSetsFlag, HandlerPCs
  <2>4. QED
    BY <1>2, <2>1, <2>2, <2>3 DEF request_abort
<1>3. CASE on_signal \/ HostSetsShutdown
  BY <1>3 DEF on_signal, HostSetsShutdown
<1>4. QED
  BY <1>1, <1>2, <1>3 DEF Environment

\* A terminal frame keeps the types.
LEMMA PublishTyped ==
  ASSUME TypeOK, PublishTerminal
  PROVE  recorded' \in SUBSET TaskIds /\ verdicts' \in Seq(TaskIds)
<1>1. CASE current = NoTask
  BY <1>1 DEF PublishTerminal, TypeOK
<1>2. CASE current \in TaskIds
  <2>1. Append(verdicts, current) \in Seq(TaskIds)
    BY <1>2, AppendProperties DEF TypeOK
  <2>2. QED
    BY <1>2, <2>1, ConstantsAssumption DEF PublishTerminal, TypeOK
<1>3. QED
  BY <1>1, <1>2 DEF TypeOK

\* A step of the worker keeps the types.
LEMMA WorkerTypeOK == TypeOK /\ WorkerInv /\ task_worker => TypeOK'
<1> SUFFICES ASSUME TypeOK, WorkerInv, task_worker PROVE TypeOK'
  OBVIOUS
<1> USE DEF TypeOK, WorkerPCs, Goto, handlerVars, workerVars, queueVars, hostVars
<1>1. CASE LoopTest \/ GetTimesOut
  BY <1>1 DEF LoopTest, GetTimesOut
<1>2. CASE GetTask
  BY <1>2 DEF GetTask
<1>3. CASE ClaimBusy \/ ClaimId \/ ApplyScope
  BY <1>3 DEF ClaimBusy, ClaimId, ApplyScope
<1>4. CASE FallbackReport
  <2>1. task \in TaskIds
    BY <1>4 DEF FallbackReport, WorkerInv, TasklessPCs
  <2>2. Append(verdicts, task) \in Seq(TaskIds)
    BY <2>1, AppendProperties
  <2>3. QED
    BY <1>4, <2>1, <2>2 DEF FallbackReport
<1>5. CASE ReportException
  BY <1>5, PublishTyped DEF ReportException
<1>6. CASE Cleanup \/ ClearBusy \/ ClearId
  BY <1>6 DEF Cleanup, ClearBusy, ClearId
<1>7. QED
  BY <1>1, <1>2, <1>3, <1>4, <1>5, <1>6 DEF task_worker

\* A step of a run keeps the types.
LEMMA RunTypeOK == TypeOK /\ WorkerInv /\ run_task => TypeOK'
<1> SUFFICES ASSUME TypeOK, WorkerInv, run_task PROVE TypeOK'
  OBVIOUS
<1> USE DEF TypeOK, WorkerPCs, Goto, frameOfRun, handlerVars, workerVars, queueVars, hostVars
<1>1. CASE NoticeAbort \/ ReturnSilently \/ RunRaises
  BY <1>1 DEF NoticeAbort, ReturnSilently, RunRaises
<1>2. CASE ReportOutcome
  BY <1>2, PublishTyped DEF ReportOutcome
<1>3. CASE PublishCancelled
  <2>1. current \in TaskIds
    BY <1>3 DEF PublishCancelled, WorkerInv, TasklessPCs, IdentifiedPCs, BusyPCs
  <2>2. Append(cancelled, current) \in Seq(TaskIds)
    BY <2>1, AppendProperties
  <2>3. QED
    BY <1>3, <2>2, PublishTyped DEF PublishCancelled
<1>4. QED
  BY <1>1, <1>2, <1>3 DEF run_task, RunEnds

-----------------------------------------------------------------------------
(* The worker's attributes are a function of where it is.                  *)

\* The worker begins without a task.
LEMMA InitWorkerInv == Init => WorkerInv
  BY DEF Init, WorkerInv, ScopeOfRunningTask, TasklessPCs, BusyPCs, IdentifiedPCs

\* Only the worker writes its variables.
LEMMA EnvironmentWorkerInv == TypeOK /\ WorkerInv /\ Environment => WorkerInv'
<1> SUFFICES ASSUME TypeOK, WorkerInv, Environment PROVE WorkerInv'
  OBVIOUS
<1>1. UNCHANGED <<workerVars, recorded, wpc>>
  BY DEF Environment, enqueue_task, request_abort, CancelArrives, CancelCompares,
     CancelReadsBusy, CancelSetsFlag, on_signal, HostSetsShutdown, runVars
<1>2. QED
  BY <1>1 DEF WorkerInv, ScopeOfRunningTask, workerVars

\* The worker's place determines them.
LEMMA WorkerWorkerInv == TypeOK /\ WorkerInv /\ task_worker => WorkerInv'
<1> SUFFICES ASSUME TypeOK, WorkerInv, task_worker PROVE WorkerInv'
  OBVIOUS
<1> USE ConstantsAssumption
    DEF TypeOK, WorkerInv, ScopeOfRunningTask, TasklessPCs, BusyPCs, IdentifiedPCs,
        Goto, workerVars
<1>1. CASE LoopTest \/ GetTimesOut
  BY <1>1 DEF LoopTest, GetTimesOut
<1>2. CASE GetTask
  BY <1>2, HeadTailProperties DEF GetTask
<1>3. CASE ClaimBusy \/ ClaimId
  BY <1>3 DEF ClaimBusy, ClaimId
<1>4. CASE ApplyScope
  BY <1>4 DEF ApplyScope
<1>5. CASE FallbackReport
  BY <1>5 DEF FallbackReport
<1>6. CASE ReportException
  BY <1>6 DEF ReportException, PublishTerminal
<1>7. CASE Cleanup
  BY <1>7 DEF Cleanup
<1>8. CASE ClearBusy \/ ClearId
  BY <1>8 DEF ClearBusy, ClearId
<1>9. QED
  BY <1>1, <1>2, <1>3, <1>4, <1>5, <1>6, <1>7, <1>8 DEF task_worker

\* So does its place in a run.
LEMMA RunWorkerInv == TypeOK /\ WorkerInv /\ run_task => WorkerInv'
<1> SUFFICES ASSUME TypeOK, WorkerInv, run_task PROVE WorkerInv'
  OBVIOUS
<1> USE ConstantsAssumption
    DEF TypeOK, WorkerInv, ScopeOfRunningTask, TasklessPCs, BusyPCs, IdentifiedPCs,
        Goto, frameOfRun, workerVars
<1>1. CASE NoticeAbort
  BY <1>1 DEF NoticeAbort
<1>2. CASE ReturnSilently \/ RunRaises
  BY <1>2 DEF ReturnSilently, RunRaises
<1>3. CASE ReportOutcome
  BY <1>3 DEF ReportOutcome, PublishTerminal
<1>4. CASE PublishCancelled
  BY <1>4 DEF PublishCancelled, PublishTerminal
<1>5. QED
  BY <1>1, <1>2, <1>3, <1>4 DEF run_task, RunEnds

\* Both hold in every reachable state.
LEMMA TypedWorker == Spec => [](TypeOK /\ WorkerInv)
<1>1. Init => TypeOK /\ WorkerInv
  BY InitTypeOK, InitWorkerInv
<1>2. TypeOK /\ WorkerInv /\ Next => TypeOK' /\ WorkerInv'
  BY EnvironmentTypeOK, WorkerTypeOK, RunTypeOK, EnvironmentWorkerInv,
     WorkerWorkerInv, RunWorkerInv DEF Next
<1>3. TypeOK /\ WorkerInv /\ UNCHANGED vars => TypeOK' /\ WorkerInv'
  BY DEF vars, runVars, handlerVars, workerVars, queueVars, hostVars, TypeOK,
     WorkerInv, ScopeOfRunningTask
<1>4. QED
  BY <1>1, <1>2, <1>3, PTL DEF Spec

\* The types of the shared attributes and of the history, in every reachable
\* state and for all constants.
THEOREM TypeCorrect == Spec => []TypeOK
  BY TypedWorker, PTL

\* The tools of a run execute under the scope of the run's own task.
THEOREM RunningScope == Spec => []ScopeOfRunningTask
<1>1. WorkerInv => ScopeOfRunningTask
  BY DEF WorkerInv
<1>2. QED
  BY <1>1, TypedWorker, PTL

-----------------------------------------------------------------------------
(* Every unit of cancellation is paid for by a request: the handler at     *)
(* work, the flag raised, a run that noticed it, a run reported.           *)

Noticed  == IF wpc = "cancelling" THEN 1 ELSE 0
Raised   == IF abort_flag THEN 1 ELSE 0
\* A cancel frame that its handler is at.
Handling == IF hpc # "idle" THEN 1 ELSE 0

\* A step moves a cancel one place along.
LEMMA CancelStep ==
  ASSUME TypeOK, OneCancelPerRequest, Next
  PROVE  OneCancelPerRequest'
<1>nat. /\ Len(cancelled) \in Nat /\ requests \in Nat
      /\ Noticed \in Nat /\ Raised \in Nat /\ Handling \in Nat
  BY DEF TypeOK, Noticed, Raised, Handling
<1>sum. Len(cancelled) + Noticed + Raised + Handling <= requests
  BY DEF OneCancelPerRequest, Noticed, Raised, Handling
<1>goal. SUFFICES Len(cancelled') + Noticed' + Raised' + Handling' <= requests'
  BY DEF OneCancelPerRequest, Noticed, Raised, Handling
<1>1. ASSUME UNCHANGED <<cancelled, abort_flag, hpc, requests>>,
             (wpc' = "cancelling") <=> (wpc = "cancelling")
      PROVE  Len(cancelled') + Noticed' + Raised' + Handling' <= requests'
  BY <1>1, <1>sum DEF Noticed, Raised, Handling
<1>2. ASSUME NEW c \in TaskIds \cup {Anyone}, CancelArrives(c)
      PROVE  Len(cancelled') + Noticed' + Raised' + Handling' <= requests'
  <2>1. /\ Handling = 0 /\ Handling' = 1 /\ requests' = requests + 1
        /\ UNCHANGED <<cancelled, Raised, Noticed>>
    BY <1>2 DEF CancelArrives, runVars, Noticed, Raised, Handling
  <2>2. QED
    BY <2>1, <1>nat, <1>sum
<1>3. CASE CancelCompares \/ CancelReadsBusy
  <2>1. /\ Handling = 1 /\ Handling' \in {0, 1}
        /\ UNCHANGED <<cancelled, Raised, Noticed, requests>>
    BY <1>3 DEF CancelCompares, CancelReadsBusy, runVars, Noticed, Raised, Handling
  <2>2. QED
    BY <2>1, <1>nat, <1>sum
<1>4. CASE CancelSetsFlag
  <2>1. /\ Handling = 1 /\ Handling' = 0 /\ Raised' = 1
        /\ UNCHANGED <<cancelled, Noticed, requests>>
    BY <1>4 DEF CancelSetsFlag, Noticed, Raised, Handling
  <2>2. QED
    BY <2>1, <1>nat, <1>sum
<1>5. CASE NoticeAbort
  <2>1. /\ Noticed' = 1 /\ Raised = 1 /\ Raised' = 0 /\ Noticed = 0
        /\ UNCHANGED <<cancelled, Handling, requests>>
    BY <1>5 DEF NoticeAbort, Goto, frameOfRun, handlerVars, Noticed, Raised, Handling
  <2>2. QED
    BY <2>1, <1>nat, <1>sum
<1>6. CASE PublishCancelled
  <2>1. /\ Noticed = 1 /\ Noticed' = 0
        /\ UNCHANGED <<Raised, Handling, requests>>
    BY <1>6 DEF PublishCancelled, Goto, frameOfRun, handlerVars, Noticed, Raised, Handling
  <2>2. Len(cancelled') = Len(cancelled) + 1
    BY <1>6 DEF PublishCancelled, TypeOK
  <2>3. QED
    BY <2>1, <2>2, <1>nat, <1>sum
<1>7. CASE (\E t \in TaskIds : enqueue_task(t)) \/ on_signal \/ HostSetsShutdown
  <2>1. UNCHANGED <<cancelled, abort_flag, hpc, requests, wpc>>
    BY <1>7 DEF enqueue_task, on_signal, HostSetsShutdown, runVars, handlerVars
  <2>2. QED
    BY <2>1, <1>1
<1>8. CASE task_worker
  <2>1. UNCHANGED <<cancelled, abort_flag, hpc, requests>> /\ "cancelling" \notin {wpc, wpc'}
    BY <1>8 DEF task_worker, LoopTest, GetTimesOut, GetTask, ClaimBusy, ClaimId,
       ApplyScope, FallbackReport, ReportException, Cleanup, ClearBusy, ClearId, Goto,
       handlerVars
  <2>2. QED
    BY <2>1, <1>1
<1>9. CASE ReportOutcome \/ ReturnSilently \/ RunRaises
  <2>1. UNCHANGED <<cancelled, abort_flag, hpc, requests>> /\ "cancelling" \notin {wpc, wpc'}
    BY <1>9 DEF ReportOutcome, ReturnSilently, RunRaises, Goto, frameOfRun, handlerVars
  <2>2. QED
    BY <2>1, <1>1
<1>10. QED
  BY <1>2, <1>3, <1>4, <1>5, <1>6, <1>7, <1>8, <1>9
  DEF Next, Environment, request_abort, run_task, RunEnds

\* One task_cancel frame never cancels two runs, however it races with the
\* worker: the number of runs reported as cancelled stays within the number of
\* requests handled.
THEOREM CancelsArePaidFor == Spec => []OneCancelPerRequest
<1>1. Init => OneCancelPerRequest
  BY DEF Init, OneCancelPerRequest
<1>2. TypeOK /\ OneCancelPerRequest /\ [Next]_vars => OneCancelPerRequest'
  <2>1. TypeOK /\ OneCancelPerRequest /\ UNCHANGED vars => OneCancelPerRequest'
    <3> SUFFICES ASSUME TypeOK, OneCancelPerRequest, UNCHANGED vars
                 PROVE  OneCancelPerRequest'
      OBVIOUS
    <3>1. UNCHANGED <<cancelled, abort_flag, hpc, requests, wpc>>
      BY DEF vars, runVars, handlerVars
    <3>2. QED
      BY <3>1 DEF OneCancelPerRequest
  <2>2. QED
    BY <2>1, CancelStep
<1>3. QED
  BY <1>1, <1>2, TypeCorrect, PTL DEF Spec

-----------------------------------------------------------------------------
(* The tasks answered, the task owed an answer and the tasks waiting are   *)
(* the tasks accepted, in order.                                           *)

\* The task at work, while its verdict is owed.
Owed == IF OwesVerdict THEN <<task>> ELSE <<>>

\* What is owed is a sequence of tasks.
LEMMA OwedSeq == TypeOK /\ WorkerInv => Owed \in Seq(TaskIds)
<1> SUFFICES ASSUME TypeOK, WorkerInv PROVE Owed \in Seq(TaskIds)
  OBVIOUS
<1>1. OwesVerdict => task \in TaskIds
  BY DEF OwesVerdict, WorkerInv, TasklessPCs, TypeOK
<1>2. QED
  BY <1>1 DEF Owed

\* The three kinds of step that matter, and the rest.
LEMMA VerdictSteps ==
  ASSUME TypeOK, WorkerInv, Next
  PROVE  \/ \E t \in TaskIds : /\ accepted' = Append(accepted, t)
                               /\ task_queue' = Append(task_queue, t)
                               /\ UNCHANGED <<verdicts, Owed>>
         \/ /\ task_queue # <<>> /\ Owed = <<>>
            /\ Owed' = <<Head(task_queue)>> /\ task_queue' = Tail(task_queue)
            /\ UNCHANGED <<accepted, verdicts>>
         \/ /\ Owed = <<task>> /\ Owed' = <<>>
            /\ task \in TaskIds /\ verdicts' = Append(verdicts, task)
            /\ UNCHANGED <<accepted, task_queue>>
         \/ UNCHANGED <<accepted, task_queue, verdicts, Owed>>
<1> USE DEF Owed, OwesVerdict, Goto
<1>1. CASE Environment
  BY <1>1 DEF Environment, enqueue_task, request_abort, CancelArrives, CancelCompares,
     CancelReadsBusy, CancelSetsFlag, on_signal, HostSetsShutdown, runVars,
     workerVars, queueVars
<1>2. CASE GetTask
  BY <1>2 DEF GetTask
<1>3. CASE LoopTest \/ GetTimesOut \/ ClaimBusy \/ ClaimId \/ ApplyScope
  BY <1>3 DEF LoopTest, GetTimesOut, ClaimBusy, ClaimId, ApplyScope, workerVars, queueVars
<1>4. CASE FallbackReport
  BY <1>4 DEF FallbackReport, workerVars, queueVars, WorkerInv, TasklessPCs, TypeOK
<1>5. CASE Cleanup \/ ClearBusy \/ ClearId
  BY <1>5 DEF Cleanup, ClearBusy, ClearId, workerVars, queueVars
<1>6. CASE NoticeAbort \/ ReturnSilently \/ RunRaises
  BY <1>6 DEF NoticeAbort, ReturnSilently, RunRaises, frameOfRun, workerVars,
     queueVars, WorkerInv
<1>7. CASE ReportException \/ ReportOutcome \/ PublishCancelled
  <2>1. /\ wpc \in {"raised", "running", "cancelling"}
        /\ PublishTerminal
        /\ wpc' \in {"cleanup", "returned"}
        /\ UNCHANGED <<task, accepted, task_queue>>
    BY <1>7 DEF ReportException, ReportOutcome, PublishCancelled, frameOfRun,
       workerVars, queueVars
  <2>2. current = task /\ current # NoTask /\ task \in TaskIds
    BY <2>1 DEF WorkerInv, TasklessPCs, IdentifiedPCs, BusyPCs, TypeOK
  <2>3. task' \in recorded' /\ verdicts' = Append(verdicts, task)
    BY <2>1, <2>2 DEF PublishTerminal
  <2>4. QED
    BY <2>1, <2>2, <2>3
<1>8. QED
  BY <1>1, <1>2, <1>3, <1>4, <1>5, <1>6, <1>7 DEF Next, task_worker, run_task, RunEnds

\* A step keeps accepted tasks answered, owed or queued, in order.
LEMMA VerdictStep ==
  ASSUME TypeOK, WorkerInv, Next, OneVerdictPerTask
  PROVE  OneVerdictPerTask'
<1>1. accepted = verdicts \o Owed \o task_queue
  BY DEF OneVerdictPerTask, Owed
<1>2. Owed \in Seq(TaskIds) /\ verdicts \in Seq(TaskIds) /\ task_queue \in Seq(TaskIds)
  BY OwedSeq DEF TypeOK
<1>3. SUFFICES accepted' = verdicts' \o Owed' \o task_queue'
  BY DEF OneVerdictPerTask, Owed
<1>4. ASSUME NEW t \in TaskIds,
             accepted' = Append(accepted, t), task_queue' = Append(task_queue, t),
             UNCHANGED <<verdicts, Owed>>
      PROVE  accepted' = verdicts' \o Owed' \o task_queue'
  <2>1. verdicts \o Owed \o Append(task_queue, t) = Append(verdicts \o Owed \o task_queue, t)
    <3>1. \A v, o, q \in Seq(TaskIds) : v \o o \o Append(q, t) = Append(v \o o \o q, t)
      BY AppendToLast
    <3>2. QED
      BY <1>2, <3>1
  <2>2. verdicts' = verdicts /\ Owed' = Owed
    BY <1>4
  <2>3. QED
    BY <1>1, <1>4, <2>1, <2>2, Zenon
<1>5. CASE /\ task_queue # <<>> /\ Owed = <<>>
           /\ Owed' = <<Head(task_queue)>> /\ task_queue' = Tail(task_queue)
           /\ UNCHANGED <<accepted, verdicts>>
  BY <1>1, <1>2, <1>5, HeadInHand
<1>6. CASE /\ Owed = <<task>> /\ Owed' = <<>>
           /\ task \in TaskIds /\ verdicts' = Append(verdicts, task)
           /\ UNCHANGED <<accepted, task_queue>>
  BY <1>1, <1>2, <1>6, AnswerInHand
<1>7. CASE UNCHANGED <<accepted, task_queue, verdicts, Owed>>
  BY <1>1, <1>7
<1>8. QED
  BY <1>4, <1>5, <1>6, <1>7, VerdictSteps

\* Every accepted task is answered by exactly one terminal frame with its own
\* id, in the order of acceptance, whichever way its run ends.
THEOREM OneVerdict == Spec => []OneVerdictPerTask
<1>1. Init => OneVerdictPerTask
  <2> SUFFICES ASSUME Init PROVE OneVerdictPerTask
    OBVIOUS
  <2>1. <<>> \in Seq(TaskIds)
    OBVIOUS
  <2>2. <<>> \o <<>> \o <<>> = <<>>
    BY <2>1, ConcatEmptySeq
  <2>3. QED
    BY <2>2 DEF Init, OneVerdictPerTask, OwesVerdict
<1>2. TypeOK /\ WorkerInv /\ OneVerdictPerTask /\ [Next]_vars => OneVerdictPerTask'
  <2>1. TypeOK /\ WorkerInv /\ OneVerdictPerTask /\ UNCHANGED vars => OneVerdictPerTask'
    BY DEF vars, runVars, workerVars, queueVars, OneVerdictPerTask, OwesVerdict
  <2>2. QED
    BY <2>1, VerdictStep
<1>3. QED
  BY <1>1, <1>2, TypedWorker, PTL DEF Spec
=============================================================================
