------------------------------ MODULE Streamer ------------------------------
(***************************************************************************)
(* The capture loop (driver/streamer.py) and its consumers: the platform's *)
(* stream subscription (desktop_cli.py) and the local MJPEG viewers        *)
(* (driver/viewer.py), which share flags in DriverState.                   *)
(*                                                                         *)
(* The loop sleeps on capture_wake while nobody watches.  A frame is the   *)
(* screen content it shows; the content hash tells contents apart.  The    *)
(* emit interval is the flag `cooling`: it doubles only when the publisher *)
(* raises, which WSClient.publish never does.                              *)
(***************************************************************************)
EXTENDS Naturals, FiniteSets

CONSTANTS
  Screens,        \* what the display may show
  Nothing,        \* no frame, no hash
  Viewers,        \* MJPEG clients
  MaxErrors       \* bound: captures that raise

ASSUME StreamAssumption == Nothing \notin Screens /\ MaxErrors \in Nat

VARIABLES
  stream_subscribed, capture_wake,   \* events of DriverState
  local_viewer_count,
  stopping,       \* CaptureLoop._stop
  cpc,            \* where the loop is
  frame,          \* stream_frame["jpeg"]
  last_hash,      \* _last_frame_hash
  cooling,        \* the emit interval has not elapsed
  spc,            \* the WS thread in on_stream_subscribe
  viewer,         \* where each viewer's handler is; "gone": its client left
  screen,         \* what the display shows
  \* History:
  shown,          \* what the current subscription was sent last
  idleFrames,     \* frames captured since the last moment someone watched
  errors

loopVars   == <<cpc, frame, last_hash, cooling>>
shareVars  == <<stream_subscribed, capture_wake, local_viewer_count>>
peopleVars == <<spc, viewer, screen>>
stVars == <<loopVars, shareVars, peopleVars, stopping, shown, idleFrames, errors>>

LoopPCs == {"head", "check", "checkViewers", "wait", "clearAfterWait", "clearAndGo",
            "begin", "capture", "publish", "ended"}

HasConsumer == stream_subscribed \/ local_viewer_count > 0

-----------------------------------------------------------------------------
(* _run and _wait_for_consumer.                                            *)

LoopGoes(from, to) ==
  /\ cpc = from /\ cpc' = to
  /\ UNCHANGED <<frame, last_hash, cooling, peopleVars, stopping, shown>>

\* _stop is tested before the wait and after it.
LoopTop ==
  /\ \/ LoopGoes("head", IF stopping THEN "ended" ELSE "check")
     \/ LoopGoes("begin", IF stopping THEN "ended" ELSE "capture")
  /\ UNCHANGED <<shareVars, idleFrames, errors>>

\* The while test of the wait, then has_capture_consumer's two reads.
CheckSubscribed ==
  /\ LoopGoes("check", CASE stopping -> "ended"
                         [] ~stopping /\ stream_subscribed -> "clearAndGo"
                         [] OTHER -> "checkViewers")
  /\ UNCHANGED <<shareVars, idleFrames, errors>>

\* Mutant: the event is cleared on the way back to sleep, after the check.
CheckViewersThenClear ==
  /\ LoopGoes("checkViewers", IF local_viewer_count > 0 THEN "clearAndGo" ELSE "wait")
  /\ capture_wake' = FALSE
  /\ UNCHANGED <<stream_subscribed, local_viewer_count, idleFrames, errors>>

CheckViewers ==
  /\ LoopGoes("checkViewers", IF local_viewer_count > 0 THEN "clearAndGo" ELSE "wait")
  /\ UNCHANGED <<shareVars, idleFrames, errors>>

\* Mutant: a wait that times out is taken for a wake-up.
WaitFallsThrough ==
  /\ LoopGoes("wait", IF capture_wake THEN "clearAfterWait" ELSE "begin")
  /\ UNCHANGED <<shareVars, idleFrames, errors>>

\* The wake event, or its one-second timeout.
WaitEnds ==
  /\ LoopGoes("wait", "clearAfterWait")
  /\ UNCHANGED <<shareVars, idleFrames, errors>>

ClearWake ==
  /\ LoopGoes("clearAfterWait", "check") \/ LoopGoes("clearAndGo", "begin")
  /\ capture_wake' = FALSE
  /\ UNCHANGED <<stream_subscribed, local_viewer_count, idleFrames, errors>>

Capture ==
  /\ cpc = "capture" /\ cpc' = "publish"
  /\ frame' = screen
  /\ idleFrames' = IF HasConsumer THEN 0 ELSE idleFrames + 1
  /\ UNCHANGED <<last_hash, cooling, shareVars, peopleVars, stopping, shown, errors>>

CaptureRaises ==
  /\ errors < MaxErrors
  /\ errors' = errors + 1
  /\ LoopGoes("capture", "head")
  /\ UNCHANGED <<shareVars, idleFrames>>

\* Mutant: the hash is updated before the interval test.
PublishHashesFirst ==
  /\ cpc = "publish" /\ cpc' = "head"
  /\ IF stream_subscribed /\ frame # last_hash
     THEN /\ last_hash' = frame
          /\ cooling' = TRUE
          /\ shown' = IF cooling THEN shown ELSE frame
     ELSE UNCHANGED <<last_hash, cooling, shown>>
  /\ UNCHANGED <<frame, shareVars, peopleVars, stopping, idleFrames, errors>>

\* _maybe_publish_ws: subscribed, interval elapsed, content changed.
MaybePublish ==
  /\ cpc = "publish" /\ cpc' = "head"
  /\ IF stream_subscribed /\ ~cooling /\ frame # last_hash
     THEN last_hash' = frame /\ cooling' = TRUE /\ shown' = frame
     ELSE UNCHANGED <<last_hash, cooling, shown>>
  /\ UNCHANGED <<frame, shareVars, peopleVars, stopping, idleFrames, errors>>

CaptureLoop ==
  \/ LoopTop \/ CheckSubscribed \/ CheckViewers \/ WaitEnds \/ ClearWake
  \/ Capture \/ CaptureRaises \/ MaybePublish

IntervalElapses ==
  /\ cooling /\ cooling' = FALSE
  /\ UNCHANGED <<cpc, frame, last_hash, shareVars, peopleVars, stopping, shown,
                 idleFrames, errors>>

-----------------------------------------------------------------------------
(* Consumers.                                                              *)

\* Someone who watches a capture in progress wanted it.
Arrives == idleFrames' = 0

\* on_stream_subscribe(True): the event, then the wake-up.
Subscribe ==
  /\ spc = "idle" /\ spc' = "wake"
  /\ stream_subscribed' = TRUE
  /\ shown' = IF stream_subscribed THEN shown ELSE Nothing
  /\ Arrives
  /\ UNCHANGED <<loopVars, capture_wake, local_viewer_count, viewer, screen,
                 stopping, errors>>

SubscribeWakes ==
  /\ spc = "wake" /\ spc' = "idle"
  /\ capture_wake' = TRUE
  /\ UNCHANGED <<loopVars, stream_subscribed, local_viewer_count, viewer, screen,
                 stopping, shown, idleFrames, errors>>

\* An unsubscribe_stream frame, or the end of the session.
Unsubscribe ==
  /\ spc = "idle"
  /\ stream_subscribed' = FALSE
  /\ UNCHANGED <<loopVars, capture_wake, local_viewer_count, peopleVars, stopping,
                 shown, idleFrames, errors>>

acquire_local_viewer(v) ==
  /\ viewer[v] = "closed"
  /\ viewer' = [viewer EXCEPT ![v] = "counted"]
  /\ local_viewer_count' = local_viewer_count + 1
  /\ Arrives
  /\ UNCHANGED <<loopVars, stream_subscribed, capture_wake, spc, screen, stopping,
                 shown, errors>>

ViewerWakes(v) ==
  /\ viewer[v] = "counted"
  /\ viewer' = [viewer EXCEPT ![v] = "watching"]
  /\ capture_wake' = TRUE
  /\ UNCHANGED <<loopVars, stream_subscribed, local_viewer_count, spc, screen,
                 stopping, shown, idleFrames, errors>>

\* Mutants: a broken pipe releases once more in its except clause, or is swallowed.
CloseReleasesTwice(v) ==
  /\ viewer[v] = "gone" /\ frame # Nothing
  /\ viewer' = [viewer EXCEPT ![v] = "closed"]
  /\ local_viewer_count' = IF local_viewer_count > 1 THEN local_viewer_count - 2 ELSE 0
  /\ UNCHANGED <<loopVars, stream_subscribed, capture_wake, spc, screen, stopping,
                 shown, idleFrames, errors>>
WriteErrorSwallowed(v) ==
  /\ viewer[v] = "gone" /\ frame # Nothing
  /\ UNCHANGED stVars

\* _serve_mjpeg writes the newest frame, at least every two seconds, once there
\* is one.  Only such a write tells that the client is gone; the finally block
\* then gives the count back.
WriteFails(v) ==
  /\ viewer[v] = "gone" /\ frame # Nothing
  /\ viewer' = [viewer EXCEPT ![v] = "closed"]
  /\ local_viewer_count' = IF local_viewer_count > 0 THEN local_viewer_count - 1 ELSE 0
  /\ UNCHANGED <<loopVars, stream_subscribed, capture_wake, spc, screen, stopping,
                 shown, idleFrames, errors>>

ClientLeaves(v) ==
  /\ viewer[v] = "watching"
  /\ viewer' = [viewer EXCEPT ![v] = "gone"]
  /\ UNCHANGED <<loopVars, shareVars, spc, screen, stopping, shown, idleFrames, errors>>

ScreenChanges(s) ==
  /\ screen' = s
  /\ UNCHANGED <<loopVars, shareVars, spc, viewer, stopping, shown, idleFrames, errors>>

\* capture.stop(): the flag, then the wake-up (one step: nothing reads between).
StopLoop ==
  /\ ~stopping /\ stopping' = TRUE /\ capture_wake' = TRUE
  /\ UNCHANGED <<loopVars, stream_subscribed, local_viewer_count, peopleVars, shown,
                 idleFrames, errors>>

-----------------------------------------------------------------------------
StInit ==
  /\ stream_subscribed = FALSE /\ capture_wake = FALSE /\ local_viewer_count = 0
  /\ stopping = FALSE
  /\ cpc = "head" /\ frame = Nothing /\ last_hash = Nothing /\ cooling = FALSE
  /\ spc = "idle" /\ viewer = [v \in Viewers |-> "closed"]
  /\ screen \in Screens
  /\ shown = Nothing /\ idleFrames = 0 /\ errors = 0

StNext ==
  \/ CaptureLoop \/ IntervalElapses
  \/ Subscribe \/ SubscribeWakes \/ Unsubscribe
  \/ \E v \in Viewers :
       acquire_local_viewer(v) \/ ViewerWakes(v) \/ WriteFails(v) \/ ClientLeaves(v)
  \/ \E s \in Screens : ScreenChanges(s)
  \/ StopLoop

StSpec == StInit /\ [][StNext]_stVars

\* Threads are scheduled, timeouts expire, time passes.
StFairSpec ==
  /\ StSpec
  /\ WF_stVars(CaptureLoop)
  /\ WF_stVars(IntervalElapses)
  /\ WF_stVars(SubscribeWakes)
  /\ \A v \in Viewers : WF_stVars(ViewerWakes(v)) /\ WF_stVars(WriteFails(v))

-----------------------------------------------------------------------------
\* The loop never sleeps through a consumer: while it waits with the event
\* clear, whoever wants frames is still on the way to set it.
NoLostWake ==
  cpc = "wait" /\ ~capture_wake /\ HasConsumer =>
    spc = "wake" \/ \E v \in Viewers : viewer[v] = "counted"

\* The viewer count is the number of open handlers, so that a client that vanished
\* does not keep the camera on and a second one is not cut off by the first; and
\* with nobody watching at most the frame already begun is captured, although the
\* wait times out every second.
ViewersAreCounted ==
  /\ local_viewer_count = Cardinality({v \in Viewers : viewer[v] # "closed"})
  /\ idleFrames <= 1

\* While the platform is subscribed, what the screen shows and was not the last
\* thing sent gets sent, however publishing is throttled and captures fail.
ChangeIsPublished ==
  \A s \in Screens :
    stream_subscribed /\ screen = s /\ last_hash # s
      ~> ~stream_subscribed \/ screen # s \/ shown = s \/ cpc = "ended"

\* A client that went away is noticed, which takes a frame to write: the loop was
\* woken for it even if it was the first and only viewer.
GoneViewerIsReleased ==
  \A v \in Viewers : viewer[v] = "gone" ~> viewer[v] = "closed" \/ cpc = "ended"

=============================================================================
