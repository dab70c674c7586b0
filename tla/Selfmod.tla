------------------------------ MODULE Selfmod -------------------------------
(***************************************************************************)
(* The self-modification queue (driver/selfmod.py), its worker             *)
(* (driver/selfmod_worker.py), the tool that requests a change and the     *)
(* retry and cancel commands of the CLI, which is another process.         *)
(*                                                                         *)
(* The queue file is a function from requests to their status, and the way *)
(* the file ends: an append may be cut anywhere.  Requests are numbered in *)
(* the order of created_at.  A rewrite goes through one temporary file     *)
(* whose name both processes share: an open handle follows its file when   *)
(* the name moves.  Of two contents written to one file the last counts.   *)
(***************************************************************************)
EXTENDS Naturals, FiniteSets, FiniteSetsExt

CONSTANTS
  Flags,           \* among "open" (no automerge), "merge", "apply" (autoapply as well)
  MaxRequests,     \* bound: requests made
  MaxCommands,     \* bound: retry and cancel commands
  MaxErrors,       \* bound: file operations that raise (disk full)
  MaxKills,        \* bound: deaths of the daemon
  NoFile,          \* the temporary name has no file
  CommandsOverlap  \* may a command run during a queue operation of the daemon?

ASSUME SelfmodAssumption ==
  /\ {MaxRequests, MaxCommands, MaxErrors, MaxKills} \subseteq Nat
  /\ CommandsOverlap \in BOOLEAN
  /\ Flags \subseteq {"open", "merge", "apply"}

Requests == 1 .. MaxRequests
Verdicts == {"pr_opened", "merged", "rejected", "failed"}
Statuses == Verdicts \cup {"absent", "queued", "in_progress", "throttled", "cancelled"}
Procs    == {"worker", "tool", "cli"}   \* the first two are threads of the daemon

NoRows == [i \in Requests |-> "absent"]   \* an empty file
NoJob  == 0

VARIABLES
  queue, tmp,     \* what selfmod-queue.jsonl and selfmod-queue.jsonl.tmp hold
  tail,           \* how the queue file ends: see Tails
  fpc,            \* where each process is in its queue operation
  rows,           \* the rows it is going to write
  handle,         \* which name its open file has: "tmp", "queue", "none" (or "lost")
  wpc, job,       \* the worker and the request it claimed
  flags,          \* those the daemon was started with
  recent,         \* requests created less than MIN_INTERVAL_SECONDS ago
  \* History:
  created,        \* requests so far: 1 .. created
  accepted,       \* those that were queued in the file when made
  commands, errors, kills

fileVars == <<queue, tmp, tail, fpc, rows, handle>>
workVars == <<wpc, job, flags>>
pastVars == <<created, accepted, recent>>
smVars   == <<fileVars, workVars, pastVars, commands, errors, kills>>

\* In whole lines, a part of a row, a whole row without its newline, or within a character:
\* then nobody can decode the file.
Tails   == {"line", "part", "row", "char"}
FilePCs == {"idle", "append", "open", "write", "replace", "done", "raised"}
WorkPCs == {"poll", "claiming", "agent", "opening", "opened", "merging", "merged",
            "finishing", "failing", "handling", "dead"}

-----------------------------------------------------------------------------
(* File operations.  _LOCK excludes the threads of one process.            *)

Holds(p) == fpc[p] \in {"append", "open", "write", "replace"}

MayEnter(p) ==
  \A q \in Procs \ {p} :
    Holds(q) => CommandsOverlap /\ (p = "cli" \/ q = "cli")

\* _read_all skips a line that is no JSON; a file that is no text raises, and the caller
\* has changed nothing.
Readable == tail # "char"

\* _read_all, and the row the caller patches; what follows is _write_all.
Rewrite(p, i, status) ==
  /\ fpc[p] = "idle" /\ MayEnter(p) /\ Readable
  /\ rows' = [rows EXCEPT ![p] = [queue EXCEPT ![i] = status]]
  /\ fpc' = [fpc EXCEPT ![p] = "open"]
  /\ UNCHANGED <<queue, tmp, tail, handle>>

\* Mutant: the old file is removed first.
UnlinkThenOpen(p) ==
  /\ fpc[p] = "open" /\ fpc' = [fpc EXCEPT ![p] = "write"]
  /\ queue' = NoRows /\ tail' = "line" /\ tmp' = NoRows
  /\ handle' = [handle EXCEPT ![p] = "tmp"]
  /\ UNCHANGED rows

OpenTmp(p) ==
  /\ fpc[p] = "open" /\ fpc' = [fpc EXCEPT ![p] = "write"]
  /\ tmp' = NoRows
  /\ handle' = [handle EXCEPT ![p] = "tmp"]
  /\ UNCHANGED <<queue, tail, rows>>

WriteTmp(p) ==
  /\ fpc[p] = "write" /\ fpc' = [fpc EXCEPT ![p] = "replace"]
  /\ tmp'   = IF handle[p] = "tmp" THEN rows[p] ELSE tmp
  /\ queue' = IF handle[p] = "queue" THEN rows[p] ELSE queue
  /\ tail'  = IF handle[p] = "queue" THEN "line" ELSE tail
  /\ handle' = [handle EXCEPT ![p] = "none"]
  /\ UNCHANGED rows

ReplaceTmp(p) ==
  /\ fpc[p] = "replace"
  /\ fpc' = [fpc EXCEPT ![p] = IF tmp = NoFile THEN "raised" ELSE "done"]
  /\ IF tmp = NoFile
     THEN UNCHANGED <<queue, tail, tmp, handle>>
     ELSE /\ queue' = tmp /\ tail' = "line" /\ tmp' = NoFile
          /\ handle' = [q \in Procs |-> CASE handle[q] = "tmp" -> "queue"
                                          [] handle[q] = "queue" -> "lost"
                                          [] OTHER -> handle[q]]
  /\ UNCHANGED rows

FileStep(p) ==
  /\ OpenTmp(p) \/ WriteTmp(p) \/ ReplaceTmp(p)
  /\ UNCHANGED <<workVars, pastVars, commands, errors, kills>>

\* The open or the write raises; the caller lets it pass.
FileFails(p) ==
  /\ errors < MaxErrors /\ errors' = errors + 1
  /\ fpc[p] \in {"open", "write"}
  /\ fpc' = [fpc EXCEPT ![p] = "raised"]
  /\ handle' = [handle EXCEPT ![p] = "none"]
  /\ UNCHANGED <<queue, tmp, tail, rows, workVars, pastVars, commands, kills>>

\* The operation of p returned ("done") or raised, which frees the lock.
Ended(p, how) ==
  /\ fpc[p] = how /\ fpc' = [fpc EXCEPT ![p] = "idle"]
  /\ rows' = [rows EXCEPT ![p] = NoRows]
  /\ UNCHANGED <<queue, tmp, tail, handle>>

-----------------------------------------------------------------------------
(* selfmod_request_change, called by the agent loop of the daemon.         *)

\* Mutant: only requests still to be worked count against the rate limit.
WaitingIsRecent == \E i \in recent : queue[i] \in {"queued", "in_progress"}

LastAcceptedIsRecent == \E i \in recent : queue[i] \notin {"absent", "throttled"}

request_change ==
  /\ created < MaxRequests
  /\ fpc["tool"] = "idle" /\ MayEnter("tool") /\ Readable
  /\ LET id == created + 1
         throttled == LastAcceptedIsRecent
     IN /\ created' = id /\ recent' = recent \cup {id}
        /\ rows' = [rows EXCEPT !["tool"] =
                     [NoRows EXCEPT ![id] = IF throttled THEN "throttled" ELSE "queued"]]
  /\ fpc' = [fpc EXCEPT !["tool"] = "append"]
  /\ UNCHANGED <<queue, tmp, tail, handle, workVars, accepted, commands, errors, kills>>

RowLands ==
  /\ queue' = [queue EXCEPT ![created] = rows["tool"][created]]
  /\ accepted' = IF rows["tool"][created] = "queued" THEN accepted \cup {created} ELSE accepted

\* What is added to an unfinished line makes one line of both, which is no JSON.
LastRow == Max({i \in Requests : queue[i] # "absent"})
RowsGlued ==
  /\ queue' = IF tail = "row" THEN [queue EXCEPT ![LastRow] = "absent"] ELSE queue
  /\ UNCHANGED accepted

\* _append adds a line to whatever file has the name by now.
Append ==
  /\ fpc["tool"] = "append" /\ fpc' = [fpc EXCEPT !["tool"] = "idle"]
  /\ IF tail = "line" THEN RowLands ELSE RowsGlued
  /\ tail' = "line"
  /\ rows' = [rows EXCEPT !["tool"] = NoRows]
  /\ UNCHANGED <<tmp, handle, workVars, created, recent, commands, errors, kills>>

\* The line gets to the file in part, if at all.
CutShort ==
  \/ UNCHANGED <<queue, tail, accepted>>
  \/ tail' \in {"part", "char"} /\ RowsGlued
  \/ tail = "line" /\ tail' = "row" /\ RowLands

\* The disk is full; the caller lets it pass.
AppendFails ==
  /\ errors < MaxErrors /\ errors' = errors + 1
  /\ fpc["tool"] = "append" /\ fpc' = [fpc EXCEPT !["tool"] = "raised"]
  /\ CutShort
  /\ UNCHANGED <<tmp, rows, handle, workVars, created, recent, commands, kills>>

TimePasses ==
  /\ recent # {} /\ recent' = recent \ {Min(recent)}
  /\ UNCHANGED <<fileVars, workVars, created, accepted, commands, errors, kills>>

-----------------------------------------------------------------------------
(* The CLI.                                                                *)

Command(i) ==
  /\ commands < MaxCommands /\ commands' = commands + 1
  /\ i <= created
  /\ UNCHANGED <<workVars, pastVars, errors, kills>>

cancel(i) ==
  /\ Command(i)
  /\ queue[i] \in {"queued", "throttled"}
  /\ Rewrite("cli", i, "cancelled")

requeue(i) ==
  /\ Command(i)
  /\ queue[i] \notin {"absent", "queued", "in_progress"}
  /\ Rewrite("cli", i, "queued")

CallerReturns ==
  /\ \E p \in {"cli", "tool"}, how \in {"done", "raised"} : Ended(p, how)
  /\ UNCHANGED <<workVars, pastVars, commands, errors, kills>>

-----------------------------------------------------------------------------
(* SelfmodWorker._run and process_request.                                 *)

WorkerGoes(from, to) ==
  /\ wpc = from /\ wpc' = to
  /\ UNCHANGED <<flags, pastVars, commands, errors, kills>>

Waiting == {i \in Requests : queue[i] = "queued"}

\* Mutant: throttled requests are claimed too.
ClaimAlsoThrottled ==
  LET open == {i \in Requests : queue[i] \in {"queued", "throttled"}} IN
  /\ open # {} /\ job' = Min(open)
  /\ WorkerGoes("poll", "claiming")
  /\ Rewrite("worker", Min(open), "in_progress")

\* pop_next_queued: the oldest one.
pop_next_queued ==
  /\ Waiting # {} /\ job' = Min(Waiting)
  /\ WorkerGoes("poll", "claiming")
  /\ Rewrite("worker", Min(Waiting), "in_progress")

\* Nothing queued: the worker waits for poll_interval.
PollFindsNothing ==
  wpc = "poll" /\ Waiting = {} /\ MayEnter("worker") /\ Readable /\ UNCHANGED smVars

\* An exception of pop_next_queued is caught by nobody.
PollRaises ==
  /\ WorkerGoes("poll", "dead") /\ MayEnter("worker") /\ ~Readable
  /\ UNCHANGED <<fileVars, job>>

\* The claim is on disk, or was not written.
Claimed ==
  /\ UNCHANGED job
  /\ \/ Ended("worker", "done") /\ WorkerGoes("claiming", "agent")
     \/ Ended("worker", "raised") /\ WorkerGoes("claiming", "dead")

\* update_status: a request that is not in the file is not written.
update_status(status) ==
  /\ IF queue[job] # "absent" /\ Readable
     THEN Rewrite("worker", job, status)
     ELSE /\ fpc["worker"] = "idle" /\ MayEnter("worker")
          /\ fpc' = [fpc EXCEPT !["worker"] = IF Readable THEN "done" ELSE "raised"]
          /\ UNCHANGED <<queue, tmp, tail, rows, handle>>
  /\ UNCHANGED job

\* No repository or binary, a timeout or an error of the agent, no PR, a refused
\* one, or a PR whose diff is refused; or a PR to record.
AgentEnds ==
  \/ \E s \in {"failed", "rejected"} :
       WorkerGoes("agent", "finishing") /\ update_status(s)
  \/ WorkerGoes("agent", "opening") /\ update_status("pr_opened")

MergeEnds ==
  /\ flags # "open"
  /\ \/ WorkerGoes("opened", "finishing") /\ update_status("failed")
     \/ WorkerGoes("opened", "merging") /\ update_status("merged")

\* Mutant: the except clause only logs.
RaisesLogged ==
  /\ wpc = "agent" \/ (wpc = "opened" /\ flags # "open") \/ (wpc = "merged" /\ flags = "apply")
  /\ WorkerGoes(wpc, "poll")
  /\ job' = NoJob /\ UNCHANGED fileVars

\* git diff, gh or pip may time out: the exception leaves process_request.
Raises ==
  /\ wpc = "agent" \/ (wpc = "opened" /\ flags # "open") \/ (wpc = "merged" /\ flags = "apply")
  /\ WorkerGoes(wpc, "handling") /\ update_status("failed")

\* An update returned; process_request goes on or returns.
Recorded ==
  /\ Ended("worker", "done")
  /\ \/ WorkerGoes("opening", "opened") /\ UNCHANGED job
     \/ WorkerGoes("merging", "merged") /\ UNCHANGED job
     \/ (WorkerGoes("finishing", "poll") \/ WorkerGoes("handling", "poll")) /\ job' = NoJob

\* An update raised: the except clause makes another one, which nobody guards.
RecordRaised ==
  /\ Ended("worker", "raised")
  /\ \/ \E from \in {"opening", "merging", "finishing"} : WorkerGoes(from, "failing")
     \/ WorkerGoes("handling", "dead")
  /\ UNCHANGED job

HandleRaised == WorkerGoes("failing", "handling") /\ update_status("failed")

\* The end of process_request without another update: the PR stays open, or it
\* was merged (and installed, well or not).
Returns ==
  /\ \/ flags = "open" /\ WorkerGoes("opened", "poll")
     \/ WorkerGoes("merged", "poll")
  /\ job' = NoJob /\ UNCHANGED fileVars

SelfmodWorker ==
  \/ pop_next_queued \/ PollFindsNothing \/ PollRaises \/ Claimed
  \/ AgentEnds \/ MergeEnds \/ Raises \/ Returns
  \/ Recorded \/ RecordRaised \/ HandleRaised

-----------------------------------------------------------------------------
\* The daemon dies and starts again, an append may be half done; stop() ends its threads no
\* other way.
Kill ==
  /\ kills < MaxKills /\ kills' = kills + 1
  /\ fpc' = [p \in Procs |-> IF p = "cli" THEN fpc[p] ELSE "idle"]
  /\ handle' = [p \in Procs |-> IF p = "cli" THEN handle[p] ELSE "none"]
  /\ rows' = [p \in Procs |-> IF p = "cli" THEN rows[p] ELSE NoRows]
  /\ wpc' = "poll" /\ job' = NoJob
  /\ IF fpc["tool"] = "append" THEN CutShort ELSE UNCHANGED <<queue, tail, accepted>>
  /\ UNCHANGED <<tmp, flags, created, recent, commands, errors>>

SmInit ==
  /\ queue = NoRows /\ tmp = NoFile /\ tail = "line"
  /\ fpc = [p \in Procs |-> "idle"] /\ rows = [p \in Procs |-> NoRows]
  /\ handle = [p \in Procs |-> "none"]
  /\ wpc = "poll" /\ job = NoJob /\ flags \in Flags
  /\ recent = {} /\ created = 0 /\ accepted = {}
  /\ commands = 0 /\ errors = 0 /\ kills = 0

SmNext ==
  \/ \E p \in Procs : FileStep(p) \/ FileFails(p)
  \/ request_change \/ Append \/ AppendFails \/ TimePasses
  \/ \E i \in Requests : cancel(i) \/ requeue(i)
  \/ CallerReturns \/ SelfmodWorker \/ Kill

SmSpec == SmInit /\ [][SmNext]_smVars

\* File operations complete, threads are scheduled, every subprocess has a
\* timeout.
SmFairSpec ==
  /\ SmSpec
  /\ \A p \in Procs : WF_smVars(FileStep(p))
  /\ WF_smVars(Append) /\ WF_smVars(CallerReturns) /\ WF_smVars(SelfmodWorker)

-----------------------------------------------------------------------------
Rows == [Requests -> Statuses]

\* docs/SELFMOD.md: "Status changes rewrite the file via a .tmp + atomic rename,
\* but nothing is deleted".  A row that is in the file stays in it, whatever dies
\* or fails while it is rewritten or another one is appended; only a row whose own append
\* was cut before its newline is lost with the next one.
NothingIsDeleted ==
  [][\A i \in Requests :
       queue[i] # "absent" => queue'[i] # "absent" \/ (tail = "row" /\ i = LastRow)]_smVars

\* docs/SELFMOD.md: throttled requests "never feed the worker".  Work starts on
\* queued requests only, so not on one that was throttled, cancelled or answered,
\* although a claim is written some steps after the file was read.
ClaimsOnlyQueued ==
  [][\A i \in Requests :
       queue[i] # "in_progress" /\ queue'[i] = "in_progress" => queue[i] = "queued"]_smVars

\* "1 request per 15 minutes globally": of the requests that were queued in any interval
\* there is one in the file, whatever became of it since.
RateLimit == Cardinality({i \in accepted \cap recent : queue[i] # "absent"}) <= 1

\* A queued request is answered or cancelled, unless the daemon died at it, or the
\* worker thread ended (pop_next_queued runs outside the try, and so does the
\* update in the except clause), or its row is gone, see NothingIsDeleted.
QueuedIsAnswered ==
  \A i \in Requests :
    queue[i] = "queued" ~>
      \/ queue[i] \in Verdicts \cup {"cancelled", "absent"}
      \/ wpc = "dead"
      \/ kills > 0 /\ queue[i] = "in_progress" /\ job # i
=============================================================================
