---------------------------- MODULE LogUploader -----------------------------
(***************************************************************************)
(* WsLogHandler (ws_log_uploader.py) over the session of WsSession: a      *)
(* bounded queue of WARNING-and-above records, drained through the         *)
(* session's publish by whoever emits a record while a publisher is        *)
(* attached, and by set_publisher when one gets attached.                  *)
(*                                                                         *)
(* logging.Handler.handle holds the handler's own lock around emit, so one *)
(* thread emits at a time; it excludes neither set_publisher nor the       *)
(* session.  A drain takes the queue under _lock and publishes without it. *)
(* publish never raises, so a drain never puts records back.               *)
(***************************************************************************)
EXTENDS WsSession, SequencesExt

CONSTANTS
  MaxQueue,     \* DEFAULT_MAX_QUEUE
  MaxRecords    \* bound: records emitted; Frames are the records

ASSUME UploaderAssumption ==
  /\ MaxQueue \in Nat \ {0}
  /\ MaxRecords \in Nat
  /\ Frames = 1 .. MaxRecords

VARIABLES
  log_queue,    \* WsLogHandler._queue
  evicted,      \* what _dropped_oldest counts, in order
  epc,          \* the emitting thread: "idle", "drain" or "publish"
  epending,     \* its `pending`
  fpc,          \* the same for set_publisher on the session's loop
  fpending,
  \* History:
  emitted,      \* records emitted so far: 1 .. emitted
  wiped         \* records that died with their process

emitVars  == <<epc, epending>>
flushVars == <<fpc, fpending>>
logVars   == <<log_queue, evicted, emitVars, flushVars, emitted, wiped>>
luVars    == <<wsVars, logVars>>

\* Everything of the session but the outbound bridge.
sessionFrame == <<delivered, sessionVars, retryVars, authVars, stop, calls, faults, crashes>>

-----------------------------------------------------------------------------

\* Mutant: the queue has no limit.
EmitUnbounded ==
  /\ epc = "idle" /\ emitted < MaxRecords
  /\ emitted' = emitted + 1
  /\ log_queue' = Append(log_queue, emitted + 1)
  /\ epc' = IF attached THEN "drain" ELSE "idle"
  /\ UNCHANGED <<wsVars, evicted, epending, flushVars, wiped>>

emit ==
  /\ epc = "idle" /\ emitted < MaxRecords
  /\ emitted' = emitted + 1
  /\ LET full == Len(log_queue) = MaxQueue IN
     /\ log_queue' = Append(IF full THEN Tail(log_queue) ELSE log_queue, emitted + 1)
     /\ evicted' = IF full THEN Append(evicted, Head(log_queue)) ELSE evicted
  /\ epc' = IF attached THEN "drain" ELSE "idle"
  /\ UNCHANGED <<wsVars, epending, flushVars, wiped>>

\* Mutant: the snapshot is taken without clearing the queue.
SnapshotKeepsQueue ==
  /\ epc = "drain"
  /\ epending' = log_queue
  /\ epc' = "publish"
  /\ UNCHANGED <<wsVars, log_queue, evicted, flushVars, emitted, wiped>>

\* _drain on the emitting thread: the snapshot, then one publish per record.
EmitterSnapshots ==
  /\ epc = "drain"
  /\ epending' = log_queue /\ log_queue' = <<>>
  /\ epc' = "publish"
  /\ UNCHANGED <<wsVars, evicted, flushVars, emitted, wiped>>

EmitterPublishes ==
  /\ epc = "publish" /\ epending # <<>>
  /\ publish(Head(epending))
  /\ epending' = Tail(epending)
  /\ UNCHANGED <<sessionFrame, log_queue, evicted, epc, flushVars, emitted, wiped>>

EmitterDone ==
  /\ epc = "publish" /\ epending = <<>>
  /\ epc' = "idle"
  /\ UNCHANGED <<wsVars, log_queue, evicted, epending, flushVars, emitted, wiped>>

-----------------------------------------------------------------------------
(* set_publisher(self.publish), right after the hello: attach and look at  *)
(* the backlog in one critical section, drain it before anything else runs *)
(* on the loop.                                                            *)

\* Mutant: attaching does not flush.
AttachOnly ==
  /\ HelloSent
  /\ UNCHANGED logVars

AttachAndFlush ==
  /\ HelloSent
  /\ fpc' = IF log_queue # <<>> THEN "drain" ELSE "idle"
  /\ UNCHANGED <<log_queue, evicted, emitVars, fpending, emitted, wiped>>

FlushSnapshots ==
  /\ fpc = "drain"
  /\ fpending' = log_queue /\ log_queue' = <<>>
  /\ fpc' = "publish"
  /\ UNCHANGED <<wsVars, evicted, emitVars, emitted, wiped>>

FlushPublishes ==
  /\ fpc = "publish" /\ fpending # <<>>
  /\ publish(Head(fpending))
  /\ fpending' = Tail(fpending)
  /\ UNCHANGED <<sessionFrame, log_queue, evicted, emitVars, fpc, emitted, wiped>>

FlushDone ==
  /\ fpc = "publish" /\ fpending = <<>>
  /\ fpc' = "idle"
  /\ UNCHANGED <<wsVars, log_queue, evicted, emitVars, fpending, emitted, wiped>>

-----------------------------------------------------------------------------
\* The session's other steps; those on the loop wait for the flush to end.
OtherRunSteps ==
  \/ LoopHead \/ DialFails \/ DialSucceeds \/ HelloFails
  \/ ReceiveEnds \/ Detach \/ ClearSession \/ EndedCleanly \/ EndedByError
  \/ PauseEnds \/ save_auth \/ SaveFails

LoopStep ==
  /\ fpc = "idle"
  /\ OtherRunSteps \/ ReceiveFrame \/ _send_safely \/ HeartbeatTimeout
  /\ UNCHANGED logVars

OutsideStep ==
  /\ (\E how \in Links : LinkEnds(how)) \/ StopRequested
  /\ UNCHANGED logVars

RestartWipes ==
  /\ Restart
  /\ wiped' = wiped \o log_queue \o epending \o fpending
  /\ log_queue' = <<>> /\ evicted' = evicted
  /\ epc' = "idle" /\ epending' = <<>> /\ fpc' = "idle" /\ fpending' = <<>>
  /\ UNCHANGED emitted

LUInit ==
  /\ WsInit
  /\ log_queue = <<>> /\ evicted = <<>>
  /\ epc = "idle" /\ epending = <<>> /\ fpc = "idle" /\ fpending = <<>>
  /\ emitted = 0 /\ wiped = <<>>

EmitterStep == EmitterSnapshots \/ EmitterPublishes \/ EmitterDone
FlushStep == FlushSnapshots \/ FlushPublishes \/ FlushDone
SessionStep == LoopStep \/ (fpc = "idle" /\ AttachAndFlush)

LUNext ==
  \/ emit \/ EmitterStep \/ FlushStep \/ SessionStep \/ OutsideStep \/ RestartWipes

LUSpec == LUInit /\ [][LUNext]_luVars

\* Threads are scheduled, and the loop is as fair as WsSession says.
LUFairSpec ==
  /\ LUSpec
  /\ WF_luVars(EmitterStep)
  /\ WF_luVars(FlushStep)
  /\ WF_luVars(fpc = "idle" /\ (AttachAndFlush \/ (OtherRunSteps /\ UNCHANGED logVars)))
  /\ WF_luVars(fpc = "idle" /\ HeartbeatTimeout /\ UNCHANGED logVars)
  /\ WF_luVars(fpc = "idle" /\ _send_safely /\ UNCHANGED logVars)

-----------------------------------------------------------------------------
\* No record is lost or duplicated between emit and publish, although two
\* threads drain the same queue: each is queued, held by one drain, published
\* once, evicted by a newer one, or gone with its process; and the queue is bounded.
RecordsAccountedFor ==
  LET places == log_queue \o epending \o fpending \o published \o evicted \o wiped
  IN /\ Len(places) = emitted /\ ToSet(places) = 1 .. emitted
     /\ Len(log_queue) <= MaxQueue

\* ws_log_uploader.py: attaching a publisher "flushes the backlog".  Records
\* queued while offline do not wait for the next record to be emitted.
BacklogIsFlushed == log_queue # <<>> ~> (log_queue = <<>> \/ rpc = "stopped")

=============================================================================
