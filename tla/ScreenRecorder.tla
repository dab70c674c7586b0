--------------------------- MODULE ScreenRecorder ---------------------------
(***************************************************************************)
(* tools/screen_record.py: one recorder, a worker thread per recording that*)
(* feeds ffmpeg, and stops called by tools and, at the deadline, by a      *)
(* thread of the recorder.  A recording is its number; _proc, _worker and  *)
(* _path are set together and cleared together, so one variable, current,  *)
(* stands for them.                                                        *)
(***************************************************************************)
EXTENDS Naturals

CONSTANTS
  MaxRecordings,  \* bound: recordings started
  MaxDeaths       \* bound: ffmpeg processes that die by themselves

ASSUME RecorderAssumption == MaxRecordings \in Nat /\ MaxDeaths \in Nat

Recordings == 1 .. MaxRecordings
NoRec == 0
User == 0                          \* stops: the tool's, and the deadline's of r
Stops == {User} \cup Recordings

VARIABLES
  started,        \* recordings so far; the current _stop_evt is the last one's
  current,
  stopEvt,        \* recordings whose event is set
  ffmpeg,         \* "none", "running", "ended"
  wkr,            \* the worker of a recording: "none", "loop", "frame", "done"
  due,            \* recordings whose deadline has passed
  spc,            \* the place of each stop
  taken, joins,   \* the proc it took, the worker it waits for
  \* History:
  deaths,
  cut,            \* recordings ended by a stop that was not for them
  strayFrame,     \* a worker fed a recording that is not its own
  overlapped,     \* two stops at once, or a deadline's stop after its recording
  timedOut,       \* a join gave up on its worker
  stopRaised      \* a stop ended with an exception before it cleared the recording

recording == <<started, current, stopEvt, ffmpeg>>
stopping  == <<spc, taken, joins>>
history   == <<deaths, cut, strayFrame, overlapped, timedOut, stopRaised>>
recVars   == <<recording, wkr, due, stopping, history>>

Begins ==
  /\ started < MaxRecordings /\ started' = started + 1 /\ current' = started'
  /\ ffmpeg' = [ffmpeg EXCEPT ![started'] = "running"]
  /\ wkr' = [wkr EXCEPT ![started'] = "loop"]
  /\ UNCHANGED <<stopEvt, due, stopping, history>>

\* Mutant: a running recording is not looked for.
StartUnchecked == Begins

\* Under the lock.  A refused path or a missing ffmpeg changes nothing.
start == current = NoRec /\ Begins

-----------------------------------------------------------------------------
(* _run.  It reads the recorder's fields anew in every round.              *)

TimePasses(r) ==
  /\ wkr[r] # "none" /\ r \notin due /\ due' = due \cup {r}
  /\ UNCHANGED <<recording, wkr, stopping, history>>

WorkerTests(r) ==
  /\ wkr[r] = "loop" /\ (started \in stopEvt \/ r \notin due)
  /\ wkr' = [wkr EXCEPT ![r] = IF started \in stopEvt THEN "done" ELSE "frame"]
  /\ UNCHANGED <<recording, due, stopping, history>>

\* Mutant: the worker leaves at its deadline and nobody stops the recording.
DeadlineOnlyEnds(r) ==
  /\ wkr[r] = "loop" /\ started \notin stopEvt /\ r \in due
  /\ wkr' = [wkr EXCEPT ![r] = "done"]
  /\ UNCHANGED <<recording, due, stopping, history>>

\* The stop gets a thread of its own, so that it can join this one.
DeadlinePasses(r) ==
  /\ wkr[r] = "loop" /\ started \notin stopEvt /\ r \in due
  /\ wkr' = [wkr EXCEPT ![r] = "done"]
  /\ spc' = [spc EXCEPT ![r] = "called"]
  /\ UNCHANGED <<recording, due, taken, joins, history>>

\* A capture that fails is logged, and the worker goes round again.
CaptureFails(r) ==
  /\ wkr[r] = "frame" /\ wkr' = [wkr EXCEPT ![r] = "loop"]
  /\ UNCHANGED <<recording, due, stopping, history>>

\* The frame goes to the recording that is current by now.
WorkerWrites(r) ==
  /\ wkr[r] = "frame"
  /\ wkr' = [wkr EXCEPT ![r] =
       IF current # NoRec /\ ffmpeg[current] = "running" THEN "loop" ELSE "done"]
  /\ strayFrame' = (strayFrame \/ current \notin {NoRec, r})
  /\ UNCHANGED <<recording, due, stopping, deaths, cut, overlapped, timedOut, stopRaised>>

-----------------------------------------------------------------------------
(* stop.                                                                   *)

StopGoes(s, from, to) == spc[s] = from /\ spc' = [spc EXCEPT ![s] = to]

UserStops ==
  /\ StopGoes(User, "off", "called")
  /\ UNCHANGED <<recording, wkr, due, taken, joins, history>>

MeantFor(s) == IF s = User THEN taken[s] ELSE s

\* Under the lock.
StopChecks(s) ==
  IF current = NoRec
  THEN StopGoes(s, "called", "off") /\ UNCHANGED <<recording, wkr, due, taken, joins, history>>
  ELSE /\ StopGoes(s, "called", "worker")
       /\ taken' = [taken EXCEPT ![s] = current] /\ stopEvt' = stopEvt \cup {started}
       /\ overlapped' = (overlapped \/ s \notin {User, current}
                           \/ \E t \in Stops : spc[t] \notin {"off", "called"})
       /\ UNCHANGED <<started, current, ffmpeg, wkr, due, joins, deaths, cut, strayFrame, timedOut,
                      stopRaised>>

\* After the lock was released.
StopReadsWorker(s) ==
  /\ StopGoes(s, "worker", "join") /\ joins' = [joins EXCEPT ![s] = current]
  /\ UNCHANGED <<recording, wkr, due, taken, history>>

\* A capture that hangs outlasts the join.
JoinEnds(s) ==
  /\ StopGoes(s, "join", "drain")
  /\ timedOut' = (timedOut \/ (joins[s] # NoRec /\ wkr[joins[s]] # "done"))
  /\ UNCHANGED <<recording, wkr, due, taken, joins, deaths, cut, strayFrame, overlapped, stopRaised>>

\* ffmpeg ends when its input is closed, or is killed.
Drain(s) ==
  /\ StopGoes(s, "drain", "clear")
  /\ ffmpeg' = [ffmpeg EXCEPT ![taken[s]] = "ended"]
  /\ UNCHANGED <<started, current, stopEvt, wkr, due, taken, joins, history>>

\* Under the lock again: whatever is current by now.
Clear(s) ==
  /\ StopGoes(s, "clear", "off") /\ current' = NoRec
  /\ cut' = cut \cup ({current} \ {NoRec, MeantFor(s)})
  /\ UNCHANGED <<started, stopEvt, ffmpeg, wkr, due, taken, joins, deaths, strayFrame, overlapped,
                 timedOut, stopRaised>>

\* The wait for a killed ffmpeg times out, or the size of the file cannot be read: the
\* recording stays current, its worker stopped.
StopRaises(s) ==
  /\ StopGoes(s, "drain", "off") \/ StopGoes(s, "clear", "off")
  /\ stopRaised' = TRUE
  /\ UNCHANGED <<recording, wkr, due, taken, joins, deaths, cut, strayFrame, overlapped, timedOut>>

-----------------------------------------------------------------------------
FfmpegEnds(r) ==
  /\ ffmpeg[r] = "running" /\ ffmpeg' = [ffmpeg EXCEPT ![r] = "ended"]
  /\ UNCHANGED <<started, current, stopEvt, wkr, due, stopping, cut, strayFrame, overlapped, timedOut,
                 stopRaised>>

FfmpegDies(r) == deaths < MaxDeaths /\ FfmpegEnds(r) /\ deaths' = deaths + 1

\* Nobody refers to the process any more: its pipe is closed.
PipeCollected(r) ==
  /\ current # r /\ \A s \in Stops : spc[s] = "off" \/ taken[s] # r
  /\ FfmpegEnds(r) /\ UNCHANGED deaths

RecorderInit ==
  /\ started = 0 /\ current = NoRec /\ stopEvt = {}
  /\ ffmpeg = [r \in Recordings |-> "none"] /\ wkr = [r \in Recordings |-> "none"]
  /\ spc = [s \in Stops |-> "off"] /\ taken = [s \in Stops |-> NoRec]
  /\ joins = [s \in Stops |-> NoRec] /\ due = {} /\ deaths = 0 /\ cut = {}
  /\ strayFrame = FALSE /\ overlapped = FALSE /\ timedOut = FALSE /\ stopRaised = FALSE

WorkerStep(r) == WorkerTests(r) \/ DeadlinePasses(r) \/ CaptureFails(r) \/ WorkerWrites(r)
StopStep(s) ==
  StopChecks(s) \/ StopReadsWorker(s) \/ JoinEnds(s) \/ Drain(s) \/ Clear(s) \/ StopRaises(s)

RecorderNext ==
  \/ start \/ UserStops
  \/ \E r \in Recordings : WorkerStep(r) \/ TimePasses(r) \/ FfmpegDies(r) \/ PipeCollected(r)
  \/ \E s \in Stops : StopStep(s)

RecorderSpec == RecorderInit /\ [][RecorderNext]_recVars

-----------------------------------------------------------------------------
\* One recording at a time: while stops do not overlap, the only encoder that runs is
\* the current one, no stop ends a recording it was not for, and, unless a join gave
\* up, no frame of one recording's worker lands in another's file.
RecordingsAreSeparate ==
  ~overlapped =>
    /\ \A r \in Recordings : ffmpeg[r] = "running" => r = current
    /\ cut = {}
    /\ strayFrame => timedOut

\* "recording -> stop() or auto-stop -> idle": a recording does not outlive its
\* deadline, so the recorder can be started again, unless its encoder died (then the
\* worker leaves without a stop) or the stop itself raised.
RecordingEnds ==
  current # NoRec /\ deaths = 0 ~> current = NoRec \/ deaths > 0 \/ stopRaised
=============================================================================
