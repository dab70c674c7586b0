--------------------------- MODULE SessionProofs ----------------------------
(***************************************************************************)
(* Theorems about the session and what publishes into it, for any frames,  *)
(* calls, viewers and bounds: of WsSession, the tunnel implements the      *)
(* lossy channel of LossyChannel, so frames arrive in the order they were  *)
(* published, and a restart finds the credential that was in use and the   *)
(* pause doubles; of Streamer, no wake of the capture loop is lost and the *)
(* viewers are counted; of LogUploader, each record emitted is accounted   *)
(* for, and the session with it is a session.                              *)
(***************************************************************************)
EXTENDS LogUploader, Streamer, FiniteSetTheorems, SequenceTheorems, TLAPS

-----------------------------------------------------------------------------
(* WsSession.                                                              *)

\* A step of the client that is about neither frames nor the credential.
Elsewhere == UNCHANGED outVars

-----------------------------------------------------------------------------
(* The refinement.                                                         *)

\* Nothing is published at first.
LEMMA ChannelInitial == WsInit => Channel!ChannelInit
BY DEF WsInit, Channel!ChannelInit

\* publish appends to what was sent; the frame is in transit only if a session is up.
LEMMA PublishSends ==
  ASSUME NEW f \in Frames, ThreadPublishes(f)
  PROVE  Channel!Send(f)
BY DEF ThreadPublishes, Published, publish, Channel!Send, Channel!IsSent

\* What _send_safely takes arrives, or is lost with the socket.
LEMMA SendArrivesOrLoses ==
  ASSUME _send_safely
  PROVE  Channel!Arrive \/ Channel!LoseFirst
BY DEF _send_safely, Channel!Arrive, Channel!LoseFirst

\* What was scheduled dies with the process.
LEMMA RestartLosesAll ==
  ASSUME Restart
  PROVE  Channel!LoseAll
BY DEF Restart, Channel!LoseAll

\* No step of the reconnect loop touches the bridge.
LEMMA RunIsElsewhere ==
  ASSUME run
  PROVE  Elsewhere
BY DEF run, LoopHead, DialFails, DialSucceeds, HelloFails, HelloSent, ReceiveEnds, Detach,
       ClearSession, EndedCleanly, EndedByError, PauseEnds, save_auth, SaveFails,
       Elsewhere, outVars

\* Nor does a frame that is received.
LEMMA ReceiveIsElsewhere ==
  ASSUME ReceiveFrame
  PROVE  Elsewhere
BY DEF ReceiveFrame, HelloAck, HelloAckRotates, StreamSubscription, CallArrives,
       Elsewhere, outVars

\* Each step of the client is a step of the channel or a stutter.
LEMMA ChannelSteps ==
  ASSUME [WsNext]_wsVars
  PROVE  [Channel!ChannelNext]_(Channel!channelVars)
<1> SUFFICES Elsewhere \/ Channel!ChannelNext
  BY DEF Elsewhere, outVars, Channel!channelVars
<1>1. CASE run
  BY <1>1, RunIsElsewhere
<1>2. CASE ReceiveFrame
  BY <1>2, ReceiveIsElsewhere
<1>3. CASE \E c \in Calls : CallAnswers(c)
  BY <1>3 DEF CallAnswers, Elsewhere
<1>4. CASE \E f \in Frames : ThreadPublishes(f)
  BY <1>4, PublishSends DEF Channel!ChannelNext
<1>5. CASE _send_safely
  BY <1>5, SendArrivesOrLoses DEF Channel!ChannelNext
<1>6. CASE \E how \in Links : LinkEnds(how)
  BY <1>6 DEF LinkEnds, Elsewhere
<1>7. CASE HeartbeatTimeout
  BY <1>7 DEF HeartbeatTimeout, Elsewhere
<1>8. CASE StopRequested
  BY <1>8 DEF StopRequested, Elsewhere
<1>9. CASE Restart
  BY <1>9, RestartLosesAll DEF Channel!ChannelNext
<1>10. CASE UNCHANGED wsVars
  BY <1>10 DEF wsVars, Elsewhere, outVars
<1>11. QED
  BY <1>1, <1>2, <1>3, <1>4, <1>5, <1>6, <1>7, <1>8, <1>9, <1>10 DEF WsNext

\* Across sessions and restarts, frames reach the platform as the lossy channel lets
\* them: each at most once, in the order publish was called, or not at all.
THEOREM TunnelIsLossyChannel == WsSpec => IsLossyChannel
<1>1. WsInit => Channel!ChannelInit
  BY ChannelInitial
<1>2. [WsNext]_wsVars => [Channel!ChannelNext]_(Channel!channelVars)
  BY ChannelSteps
<1>3. QED
  BY <1>1, <1>2, PTL DEF WsSpec, IsLossyChannel, Channel!ChannelSpec

ChannelProofs == INSTANCE LossyChannelProofs WITH
  Messages <- Frames, sent <- published, transit <- scheduled, received <- delivered

\* So what is proved of the channel holds of the tunnel: across sessions, faults and
\* restarts the platform gets each frame at most once and in the order they were published.
THEOREM FramesArriveInOrder == WsSpec => []Channel!ReceivedInOrder
<1>1. Channel!ChannelInit => ChannelProofs!ChannelInit
  BY DEF Channel!ChannelInit, ChannelProofs!ChannelInit
<1>2. [Channel!ChannelNext]_(Channel!channelVars)
        => [ChannelProofs!ChannelNext]_(ChannelProofs!channelVars)
  BY DEF Channel!ChannelNext, Channel!Send, Channel!IsSent, Channel!Arrive, Channel!LoseFirst,
         Channel!LoseAll, Channel!channelVars, ChannelProofs!ChannelNext, ChannelProofs!Send,
         ChannelProofs!IsSent, ChannelProofs!Arrive, ChannelProofs!LoseFirst,
         ChannelProofs!LoseAll, ChannelProofs!channelVars
<1>3. ChannelProofs!ReceivedInOrder => Channel!ReceivedInOrder
  BY DEF Channel!ReceivedInOrder, Channel!SentBefore, ChannelProofs!ReceivedInOrder,
         ChannelProofs!SentBefore
<1>4. QED
  BY <1>1, <1>2, <1>3, TunnelIsLossyChannel, ChannelProofs!ChannelKeepsOrder, PTL
     DEF IsLossyChannel, Channel!ChannelSpec, ChannelProofs!ChannelSpec

-----------------------------------------------------------------------------
(* The credential.                                                         *)

\* Where memory may be ahead of the disk, and for how long.
CredentialInv == saveErrors \in Nat /\ RestartKeepsCredential

\* Memory is loaded from the disk.
LEMMA CredentialInitial == WsInit => CredentialInv
BY DEF WsInit, CredentialInv, RestartKeepsCredential

\* Only hello_ack and a restart change the credential in memory: the one leaves the
\* loop in save_auth, the other reads the disk.
LEMMA CredentialKept ==
  ASSUME CredentialInv, [WsNext]_wsVars
  PROVE  CredentialInv'
<1> USE DEF CredentialInv, RestartKeepsCredential
<1>1. CASE run
  <2>1. CASE save_auth
    BY <2>1 DEF save_auth
  <2>2. CASE SaveFails
    BY <2>2 DEF SaveFails
  <2>3. CASE rpc # "saving" /\ UNCHANGED authVars
    BY <2>3 DEF authVars
  <2>4. save_auth \/ SaveFails \/ (rpc # "saving" /\ UNCHANGED authVars)
    BY <1>1 DEF run, LoopHead, DialFails, DialSucceeds, HelloFails, HelloSent, ReceiveEnds,
                Detach, ClearSession, EndedCleanly, EndedByError, PauseEnds
  <2>5. QED
    BY <2>1, <2>2, <2>3, <2>4
<1>2. CASE ReceiveFrame
  <2>1. CASE HelloAckRotates
    BY <2>1 DEF HelloAckRotates
  <2>2. CASE HelloAck
    BY <2>2 DEF HelloAck, authVars
  <2>3. CASE \E wanted \in BOOLEAN : StreamSubscription(wanted)
    BY <2>3 DEF StreamSubscription, authVars
  <2>4. CASE \E c \in Calls : CallArrives(c)
    BY <2>4 DEF CallArrives, authVars, sessionVars
  <2>5. QED
    BY <1>2, <2>1, <2>2, <2>3, <2>4 DEF ReceiveFrame
<1>3. CASE \E c \in Calls : CallAnswers(c)
  BY <1>3 DEF CallAnswers, authVars, sessionVars
<1>4. CASE \E f \in Frames : ThreadPublishes(f)
  BY <1>4 DEF ThreadPublishes, authVars, sessionVars
<1>5. CASE _send_safely
  BY <1>5 DEF _send_safely, authVars, sessionVars
<1>6. CASE \E how \in Links : LinkEnds(how)
  BY <1>6 DEF LinkEnds, authVars
<1>7. CASE HeartbeatTimeout
  BY <1>7 DEF HeartbeatTimeout, authVars
<1>8. CASE StopRequested
  BY <1>8 DEF StopRequested, authVars, sessionVars
<1>9. CASE Restart
  BY <1>9 DEF Restart
<1>10. CASE UNCHANGED wsVars
  BY <1>10 DEF wsVars, authVars, sessionVars
<1>11. QED
  BY <1>1, <1>2, <1>3, <1>4, <1>5, <1>6, <1>7, <1>8, <1>9, <1>10 DEF WsNext

\* A restarted client dials with the credential its last process used, unless a save
\* of auth.json had failed, wherever in the session the process died.
THEOREM CredentialSurvives == WsSpec => []RestartKeepsCredential
<1>1. WsInit => CredentialInv
  BY CredentialInitial
<1>2. CredentialInv /\ [WsNext]_wsVars => CredentialInv'
  BY CredentialKept
<1>3. CredentialInv => RestartKeepsCredential
  BY DEF CredentialInv
<1>4. QED
  BY <1>1, <1>2, <1>3, PTL DEF WsSpec

-----------------------------------------------------------------------------
(* WsSession: the pause between two sessions.                              *)

\* The variables of the reconnect loop.
PauseShape ==
  /\ rpc \in RunPCs /\ streak \in Nat /\ failures \in Nat /\ handshake \in BOOLEAN
  /\ status \in {"connecting", "connected", "reconnecting"}

\* Before a session and after it nothing feeds the tunnel.
NothingFeeds ==
  /\ rpc \notin {"receiving", "saving", "closing", "detached"} => ~subscribed
  /\ rpc \notin {"receiving", "saving", "closing"} => ~attached

\* The registry knows of the failures in a row, which an ack will end.
FailuresCounted ==
  /\ status = "connected" => handshake /\ failures = 0
  /\ rpc \in {"head", "sleeping"} \/ ~handshake => failures >= streak
  /\ rpc = "sleeping" => status = "reconnecting" /\ streak > 0

\* The next pause is one second, doubled for each failure in a row.
Doubles ==
  /\ backoff = MinOf(2 ^ streak, RECONNECT_BACKOFF_CAP_S)
  /\ rpc = "sleeping" => pause = MinOf(2 ^ (streak - 1), RECONNECT_BACKOFF_CAP_S)

\* The inductive invariant of the reconnect loop.
PauseInv == PauseShape /\ NothingFeeds /\ FailuresCounted /\ Doubles

\* What the provers are not told about 2 ^ n: the definition of ^ in the standard modules.
PowersOfTwo == 2 ^ 0 = 1 /\ \A n \in Nat : 2 ^ n \in Nat /\ 2 ^ (n + 1) = 2 * 2 ^ n

\* A pause that doubles stays the capped power of two.
LEMMA CapsDouble ==
  ASSUME NEW C \in Nat \ {0}, NEW b \in Nat
  PROVE  /\ MinOf(MinOf(b, C), C) = MinOf(b, C)
         /\ MinOf(2 * MinOf(b, C), C) = MinOf(2 * b, C)
         /\ MinOf(1, C) = 1
BY DEF MinOf

\* The reconnect loop begins with one second and no failure.
LEMMA PauseInitInv == ASSUME PowersOfTwo, WsInit PROVE PauseInv
<1>1. MinOf(1, RECONNECT_BACKOFF_CAP_S) = 1
  BY SessionAssumption DEF MinOf
<1>2. PauseShape
  BY DEF WsInit, PauseShape, RunPCs
<1>6. FailuresCounted
  BY DEF WsInit, FailuresCounted
<1>5. NothingFeeds
  BY Zenon DEF WsInit, NothingFeeds
<1>3. Doubles
  BY <1>1 DEF WsInit, Doubles, PowersOfTwo
<1>4. QED
  BY <1>2, <1>3, <1>5, <1>6 DEF PauseInv

\* An exception ends a session: a failure more, and the next pause twice this one.
LEMMA ErrorDoubles == ASSUME PowersOfTwo, PauseInv, EndedByError PROVE PauseInv'
<1> DEFINE failed == IF handshake THEN 0 ELSE streak
           base   == IF handshake THEN 1 ELSE backoff
           cap    == RECONNECT_BACKOFF_CAP_S
<1>1. failed \in Nat /\ cap \in Nat \ {0} /\ streak' = failed + 1 /\ failures' = failures + 1
  BY SessionAssumption DEF EndedByError, PauseInv, PauseShape
<1>2. /\ pause' = MinOf(base, cap) /\ backoff' = MinOf(2 * base, cap)
      /\ rpc = "ended" /\ rpc' = "sleeping" /\ status' = "reconnecting"
      /\ UNCHANGED <<handshake, attached, subscribed>>
  BY DEF EndedByError
<1>3. base = MinOf(2 ^ failed, cap)
  <2>1. CASE handshake
    BY <2>1, <1>1, CapsDouble DEF PowersOfTwo
  <2>2. CASE ~handshake
    BY <2>2 DEF PauseInv, Doubles
  <2>3. QED
    BY <2>1, <2>2
<1>4. failures \in Nat /\ failures >= failed
  BY DEF PauseInv, PauseShape, FailuresCounted
<1> HIDE DEF failed, base, cap
<1>5. pause' = MinOf(2 ^ failed, cap) /\ backoff' = MinOf(2 ^ (failed + 1), cap)
  BY <1>1, <1>2, <1>3, CapsDouble DEF PowersOfTwo
<1>6. Doubles'
  <2>1. streak' - 1 = failed
    BY <1>1
  <2>2. QED
    BY <1>1, <1>5, <2>1 DEF Doubles, cap
<1>7. PauseShape'
  BY <1>1, <1>2, <1>4 DEF PauseInv, PauseShape, RunPCs
<1>8. NothingFeeds'
  BY <1>2 DEF PauseInv, NothingFeeds
<1>9. FailuresCounted'
  BY <1>1, <1>2, <1>4 DEF FailuresCounted
<1>10. QED
  BY <1>6, <1>7, <1>8, <1>9 DEF PauseInv

\* A new process, and a session that ended cleanly, start over.
LEMMA PauseStartsOver == ASSUME PowersOfTwo, PauseInv, EndedCleanly \/ Restart PROVE PauseInv'
<1>1. MinOf(1, RECONNECT_BACKOFF_CAP_S) = 1 /\ backoff' = 1 /\ streak' = 0 /\ rpc' = "head"
  BY SessionAssumption DEF MinOf, EndedCleanly, Restart
<1>2. Doubles'
  BY <1>1 DEF Doubles, PowersOfTwo
<1>3. PauseShape'
  <2>1. CASE EndedCleanly
    BY <2>1 DEF EndedCleanly, PauseInv, PauseShape, RunPCs
  <2>2. CASE Restart
    BY <2>2 DEF Restart, PauseInv, PauseShape, RunPCs
  <2>3. QED
    BY <2>1, <2>2
<1>6. NothingFeeds'
  <2>1. ~subscribed' /\ ~attached'
    BY DEF EndedCleanly, Restart, PauseInv, NothingFeeds
  <2>2. QED
    BY <2>1, Zenon DEF NothingFeeds
<1>4. FailuresCounted'
  BY <1>1 DEF EndedCleanly, Restart, PauseInv, PauseShape, FailuresCounted
<1>5. QED
  BY <1>2, <1>3, <1>4, <1>6 DEF PauseInv

\* What does not pause leaves the doubling alone.
LEMMA OthersKeepPause ==
  ASSUME PauseInv, UNCHANGED <<backoff, pause, streak>>,
         \/ LoopHead \/ DialFails \/ DialSucceeds \/ HelloFails \/ HelloSent
         \/ ReceiveEnds \/ Detach \/ ClearSession \/ PauseEnds \/ save_auth \/ SaveFails
         \/ ReceiveFrame \/ (rpc' = rpc /\ UNCHANGED <<handshake, attached, subscribed, failures, status>>)
  PROVE  PauseInv'
<1>1. Doubles'
  <2>1. rpc' = "sleeping" => rpc = "sleeping"
    BY DEF LoopHead, DialFails, DialSucceeds, HelloFails, HelloSent, ReceiveEnds, Detach, ClearSession, PauseEnds,
           save_auth, SaveFails, ReceiveFrame, HelloAck, HelloAckRotates, StreamSubscription, CallArrives, sessionVars
  <2>2. QED
    BY <2>1 DEF PauseInv, Doubles
<1> USE DEF PauseInv, PauseShape, NothingFeeds, FailuresCounted, RunPCs
<1>2. CASE LoopHead
  BY <1>1, <1>2 DEF LoopHead
<1>3. CASE DialFails \/ DialSucceeds \/ HelloFails \/ HelloSent
  BY <1>1, <1>3 DEF DialFails, DialSucceeds, HelloFails, HelloSent, retryVars
<1>4. CASE ReceiveEnds \/ Detach \/ ClearSession \/ PauseEnds \/ save_auth \/ SaveFails
  BY <1>1, <1>4 DEF ReceiveEnds, Detach, ClearSession, PauseEnds, save_auth, SaveFails, retryVars
<1>5. CASE ReceiveFrame
  <2>1. rpc = "receiving" /\ rpc' \in {"receiving", "saving"} /\ attached' = attached
    BY <1>5 DEF ReceiveFrame, Received, HelloAck, HelloAckRotates, StreamSubscription, CallArrives, sessionVars
  <2>2. \/ handshake' = TRUE /\ status' = "connected" /\ failures' = 0
        \/ UNCHANGED <<handshake, status, failures>>
    BY <1>5 DEF ReceiveFrame, Acked, HelloAck, HelloAckRotates, StreamSubscription, CallArrives, sessionVars, retryVars
  <2>3. NothingFeeds'
    BY <2>1
  <2>4. PauseShape'
    <3>1. handshake' \in BOOLEAN
      BY <2>2
    <3>2. failures' \in Nat /\ status' \in {"connecting", "connected", "reconnecting"}
      BY <2>2
    <3>3. rpc' \in RunPCs /\ streak' \in Nat
      BY <2>1
    <3>4. QED
      BY <3>1, <3>2, <3>3
  <2>5. FailuresCounted'
    BY <2>1, <2>2
  <2>6. QED
    BY <1>1, <2>3, <2>4, <2>5
<1>6. CASE rpc' = rpc /\ UNCHANGED <<handshake, attached, subscribed, failures, status>>
  BY <1>1, <1>6
<1>7. QED
  BY <1>2, <1>3, <1>4, <1>5, <1>6

\* Each step of the session keeps the invariant of the reconnect loop.
LEMMA PauseInvKept == ASSUME PowersOfTwo, PauseInv, [WsNext]_wsVars PROVE PauseInv'
<1> USE DEF retryVars, sessionVars
<1>1. CASE run
  <2>1. CASE EndedByError
    BY <2>1, ErrorDoubles
  <2>2. CASE EndedCleanly
    BY <2>2, PauseStartsOver
  <2>3. CASE ~EndedByError /\ ~EndedCleanly
    <3>1. \/ LoopHead \/ DialFails \/ DialSucceeds \/ HelloFails \/ HelloSent
          \/ ReceiveEnds \/ Detach \/ ClearSession \/ PauseEnds \/ save_auth \/ SaveFails
      BY <1>1, <2>3, Zenon DEF run
    <3>2. UNCHANGED <<backoff, pause, streak>>
      BY <3>1 DEF LoopHead, DialFails, DialSucceeds, HelloFails, HelloSent, ReceiveEnds, Detach, ClearSession,
                  PauseEnds, save_auth, SaveFails
    <3>3. QED
      BY <3>1, <3>2, OthersKeepPause
  <2>4. QED
    BY <2>1, <2>2, <2>3
<1>2. CASE ReceiveFrame
  <2>1. UNCHANGED <<backoff, pause, streak>>
    BY <1>2 DEF ReceiveFrame, HelloAck, HelloAckRotates, StreamSubscription, CallArrives
  <2>2. QED
    BY <1>2, <2>1, OthersKeepPause
<1>3. CASE \/ \E c \in Calls : CallAnswers(c)
           \/ \E f \in Frames : ThreadPublishes(f)
           \/ _send_safely \/ HeartbeatTimeout \/ StopRequested
           \/ \E how \in Links : LinkEnds(how)
           \/ UNCHANGED wsVars
  <2>1. /\ UNCHANGED <<backoff, pause, streak>>
        /\ rpc' = rpc /\ UNCHANGED <<handshake, attached, subscribed, failures, status>>
    BY <1>3 DEF CallAnswers, ThreadPublishes, _send_safely, HeartbeatTimeout, StopRequested, LinkEnds, wsVars
  <2>2. QED
    BY <2>1, OthersKeepPause
<1>4. CASE Restart
  BY <1>4, PauseStartsOver
<1>5. QED
  BY <1>1, <1>2, <1>3, <1>4, Zenon DEF WsNext

\* For any cap, given the definition of 2 ^ n: between two sessions nothing feeds the
\* tunnel, /health tells of the failures, and the pause is one second doubled for each
\* failure in a row, up to the cap.
THEOREM PausesDouble == ASSUME PowersOfTwo PROVE WsSpec => []PauseIsSound
<1>1. WsInit => PauseInv
  BY PauseInitInv
<1>2. PauseInv /\ [WsNext]_wsVars => PauseInv'
  BY PauseInvKept
<1>3. PauseInv => PauseIsSound
  BY DEF PauseInv, PauseShape, NothingFeeds, FailuresCounted, Doubles, PauseIsSound
<1>4. QED
  BY <1>1, <1>2, <1>3, PTL DEF WsSpec

-----------------------------------------------------------------------------
(* Streamer.                                                               *)

\* The loop, the subscription and the viewers.
StreamShape ==
  /\ cpc \in LoopPCs /\ spc \in {"idle", "wake"}
  /\ viewer \in [Viewers -> {"closed", "counted", "watching", "gone"}]
  /\ stream_subscribed \in BOOLEAN /\ capture_wake \in BOOLEAN
  /\ local_viewer_count \in Nat /\ idleFrames \in Nat

\* A consumer that has announced itself and not yet set the event.
WakeComing == spc = "wake" \/ \E v \in Viewers : viewer[v] = "counted"

\* Also between the two reads of has_capture_consumer: the first one is stale then,
\* but whoever changed it has set the event or is about to.
WakeSeen ==
  /\ cpc = "checkViewers" /\ stream_subscribed /\ ~capture_wake => WakeComing
  /\ cpc = "wait" /\ ~capture_wake /\ HasConsumer => WakeComing

\* The viewers whose handler is open, and their count.
Watching == {v \in Viewers : viewer[v] # "closed"}
Counted == IsFiniteSet(Watching) /\ local_viewer_count = Cardinality(Watching)

\* The loop leaves its wait only for somebody who is there.
IdleOnce ==
  /\ idleFrames <= 1
  /\ HasConsumer \/ cpc \in {"clearAndGo", "begin", "capture"} => idleFrames = 0

\* The inductive invariant of the stream.
StreamInv == StreamShape /\ WakeSeen /\ Counted /\ IdleOnce

\* The loop begins with nobody there.
LEMMA StreamInitInv == StInit => StreamInv
<1> SUFFICES ASSUME StInit PROVE StreamInv
  OBVIOUS
<1>1. StreamShape
  BY DEF StInit, StreamShape, LoopPCs
<1>3. WakeSeen /\ IdleOnce
  BY DEF StInit, WakeSeen, IdleOnce, HasConsumer
<1>2. Watching = {}
  BY DEF StInit, Watching
<1>4. QED
  BY <1>1, <1>2, <1>3, FS_EmptySet DEF StInit, Counted, StreamInv

\* A step of the capture loop loses no wake.
LEMMA CaptureLoopKeeps ==
  ASSUME StreamShape, WakeSeen, IdleOnce, CaptureLoop
  PROVE  StreamShape' /\ WakeSeen' /\ IdleOnce'
<1> USE DEF StreamShape, WakeSeen, WakeComing, IdleOnce, HasConsumer, LoopPCs, LoopGoes, shareVars, peopleVars
<1>1. CASE LoopTop
  BY <1>1 DEF LoopTop
<1>2. CASE CheckSubscribed
  BY <1>2 DEF CheckSubscribed
<1>3. CASE CheckViewers
  BY <1>3 DEF CheckViewers
<1>4. CASE WaitEnds
  BY <1>4 DEF WaitEnds
<1>5. CASE ClearWake
  BY <1>5 DEF ClearWake
<1>6. CASE Capture
  BY <1>6 DEF Capture
<1>7. CASE CaptureRaises
  BY <1>7 DEF CaptureRaises
<1>8. CASE MaybePublish
  BY <1>8 DEF MaybePublish
<1>9. QED
  BY <1>1, <1>2, <1>3, <1>4, <1>5, <1>6, <1>7, <1>8 DEF CaptureLoop

\* Each step of loop, subscriber and viewers keeps the invariant.
LEMMA StreamNextInv == StreamInv /\ [StNext]_stVars => StreamInv'
<1> SUFFICES ASSUME StreamInv, [StNext]_stVars PROVE StreamInv'
  OBVIOUS
<1>1. ASSUME UNCHANGED <<viewer, local_viewer_count>> PROVE Counted'
  BY <1>1 DEF StreamInv, Counted, Watching
<1> DEFINE Rest == StreamShape /\ WakeSeen /\ IdleOnce
<1>2. CASE CaptureLoop
  <2>1. UNCHANGED <<viewer, local_viewer_count>>
    BY <1>2 DEF CaptureLoop, LoopTop, CheckSubscribed, CheckViewers, WaitEnds, ClearWake, Capture, CaptureRaises,
                MaybePublish, LoopGoes, shareVars, peopleVars
  <2>2. QED
    BY <1>1, <1>2, <2>1, CaptureLoopKeeps DEF StreamInv
<1> USE DEF StreamInv, StreamShape, WakeSeen, WakeComing, IdleOnce, HasConsumer, LoopPCs,
            shareVars, peopleVars, loopVars, Arrives
<1>3. CASE IntervalElapses
  BY <1>1, <1>3 DEF IntervalElapses
<1>4. CASE Subscribe
  BY <1>1, <1>4 DEF Subscribe
<1>5. CASE SubscribeWakes
  BY <1>1, <1>5 DEF SubscribeWakes
<1>6. CASE Unsubscribe
  BY <1>1, <1>6 DEF Unsubscribe
<1>7. ASSUME NEW v \in Viewers, acquire_local_viewer(v) PROVE StreamInv'
  <2>1. Watching' = Watching \cup {v} /\ v \notin Watching
    BY <1>7 DEF acquire_local_viewer, Watching
  <2>2. Counted'
    BY <1>7, <2>1, FS_AddElement DEF acquire_local_viewer, Counted
  <2>3. Rest'
    BY <1>7 DEF acquire_local_viewer
  <2>4. QED
    BY <2>2, <2>3
<1>8. ASSUME NEW v \in Viewers, WriteFails(v) PROVE StreamInv'
  <2>1. Watching' = Watching \ {v} /\ v \in Watching
    BY <1>8 DEF WriteFails, Watching
  <2>2. IsFiniteSet(Watching') /\ Cardinality(Watching') = Cardinality(Watching) - 1
    BY <2>1, FS_RemoveElement DEF Counted
  <2>3. Cardinality(Watching') \in Nat
    BY <2>2, FS_CardinalityType
  <2>4. Counted'
    BY <1>8, <2>2, <2>3 DEF WriteFails, Counted
  <2>5. Rest'
    BY <1>8 DEF WriteFails
  <2>6. QED
    BY <2>4, <2>5
<1>9. ASSUME NEW v \in Viewers, ViewerWakes(v) \/ ClientLeaves(v) PROVE StreamInv'
  <2>1. Watching' = Watching /\ local_viewer_count' = local_viewer_count
    BY <1>9 DEF ViewerWakes, ClientLeaves, Watching
  <2>2. Counted'
    BY <2>1 DEF Counted
  <2>3. CASE ViewerWakes(v)
    BY <2>2, <2>3 DEF ViewerWakes
  <2>4. CASE ClientLeaves(v)
    <3>1. \A u \in Viewers : viewer'[u] = "counted" <=> viewer[u] = "counted"
      BY <2>4 DEF ClientLeaves
    <3>2. StreamShape'
      BY <2>4 DEF ClientLeaves
    <3>3. WakeSeen' /\ IdleOnce'
      BY <2>4, <3>1 DEF ClientLeaves
    <3>4. QED
      BY <2>2, <3>2, <3>3
  <2>5. QED
    BY <1>9, <2>3, <2>4
<1>10. CASE StopLoop
  BY <1>1, <1>10 DEF StopLoop
<1>11. CASE UNCHANGED stVars \/ \E s \in Screens : ScreenChanges(s)
  <2>1. UNCHANGED <<cpc, spc, viewer, stream_subscribed, capture_wake, local_viewer_count, idleFrames>>
    BY <1>11 DEF ScreenChanges, stVars
  <2>2. QED
    BY <1>1, <2>1
<1>12. QED
  BY <1>2, <1>3, <1>4, <1>5, <1>6, <1>7, <1>8, <1>9, <1>10, <1>11, Zenon DEF StNext

\* For any viewers and screens: when the capture loop waits with a consumer there, its
\* event is set or whoever came is about to set it.
THEOREM WakesAreNotLost == StSpec => []NoLostWake
<1>1. StreamInv => NoLostWake
  BY DEF StreamInv, WakeSeen, WakeComing, NoLostWake
<1>2. QED
  BY <1>1, StreamInitInv, StreamNextInv, PTL DEF StSpec

\* For any viewers: the count is the connections that were counted and not given up, and
\* with nobody to see them at most one frame is captured.
THEOREM CountIsTheViewers == StSpec => []ViewersAreCounted
<1>1. StreamInv => ViewersAreCounted
  BY DEF StreamInv, Counted, Watching, IdleOnce, ViewersAreCounted
<1>2. QED
  BY <1>1, StreamInitInv, StreamNextInv, PTL DEF StSpec

-----------------------------------------------------------------------------
(* LogUploader.                                                            *)

\* Where records are.
AllPlaces == ToSet(log_queue) \cup ToSet(epending) \cup ToSet(fpending) \cup ToSet(published)
               \cup ToSet(evicted) \cup ToSet(wiped)
HowMany   == Len(log_queue) + Len(epending) + Len(fpending) + Len(published) + Len(evicted) + Len(wiped)

\* The places hold records in the order they got there.
PlacesAreSequences ==
  /\ log_queue \in Seq(Nat) /\ epending \in Seq(Nat) /\ fpending \in Seq(Nat)
  /\ published \in Seq(Nat) /\ evicted \in Seq(Nat) /\ wiped \in Seq(Nat) /\ emitted \in Nat

\* A drain begins with nothing left of the one before.
DrainsEmpty == (epc # "publish" => epending = << >>) /\ (fpc # "publish" => fpending = << >>)

\* Each record emitted is in one place, and in one only: there are as many as emitted.
UploaderInv ==
  /\ PlacesAreSequences /\ DrainsEmpty
  /\ HowMany = emitted /\ AllPlaces = 1 .. emitted /\ Len(log_queue) <= MaxQueue

-----------------------------------------------------------------------------
\* What a sequence holds, when it is empty, grows, shrinks or is joined to another.
LEMMA SetOfEmpty == ToSet(<< >>) = {}
BY DEF ToSet

LEMMA SetOfAppend ==
  ASSUME NEW s \in Seq(Nat), NEW e \in Nat
  PROVE  /\ ToSet(Append(s, e)) = ToSet(s) \cup {e} /\ Append(s, e) \in Seq(Nat)
         /\ Len(Append(s, e)) = Len(s) + 1 /\ Len(s) \in Nat
<1>1. /\ DOMAIN Append(s, e) = DOMAIN s \cup {Len(s) + 1}
      /\ \A i \in DOMAIN s : Append(s, e)[i] = s[i]
      /\ Append(s, e)[Len(s) + 1] = e
  OBVIOUS
<1>2. ToSet(Append(s, e)) = ToSet(s) \cup {e}
  BY <1>1 DEF ToSet
<1>3. QED
  BY <1>2, AppendProperties, LenProperties

LEMMA SetOfTail ==
  ASSUME NEW s \in Seq(Nat), s # << >>
  PROVE  /\ ToSet(s) = {Head(s)} \cup ToSet(Tail(s)) /\ Head(s) \in Nat /\ Tail(s) \in Seq(Nat)
         /\ Len(s) = Len(Tail(s)) + 1 /\ Len(Tail(s)) \in Nat
<1>1. /\ Head(s) = s[1] /\ 1 \in DOMAIN s /\ Tail(s) \in Seq(Nat) /\ Len(Tail(s)) \in Nat
      /\ Len(s) = Len(Tail(s)) + 1
      /\ \A i \in DOMAIN Tail(s) : i + 1 \in DOMAIN s /\ Tail(s)[i] = s[i + 1]
      /\ \A i \in DOMAIN s : i = 1 \/ (i - 1 \in DOMAIN Tail(s) /\ Tail(s)[i - 1] = s[i])
  OBVIOUS
<1>2. \A i \in DOMAIN s : s[i] = Head(s) \/ \E j \in DOMAIN Tail(s) : Tail(s)[j] = s[i]
  BY <1>1
<1>3. \A j \in DOMAIN Tail(s) : \E i \in DOMAIN s : s[i] = Tail(s)[j]
  BY <1>1
<1> DEFINE t == Tail(s)
           h == Head(s)
<1>4. ToSet(s) = {h} \cup ToSet(t)
  <2>1. h = s[1] /\ 1 \in DOMAIN s
    BY <1>1
  <2> HIDE DEF t, h
  <2>2. \A x \in ToSet(s) : x = h \/ x \in ToSet(t)
    BY <1>2, Zenon DEF ToSet, t, h
  <2>3. \A x \in ToSet(t) : x \in ToSet(s)
    BY <1>3, Zenon DEF ToSet, t
  <2>4. h \in ToSet(s)
    BY <2>1, Zenon DEF ToSet
  <2>5. QED
    BY <2>2, <2>3, <2>4
<1>5. QED
  BY <1>1, <1>4, HeadTailProperties

LEMMA SetOfConcat ==
  ASSUME NEW s \in Seq(Nat), NEW t \in Seq(Nat)
  PROVE  ToSet(s \o t) = ToSet(s) \cup ToSet(t) /\ s \o t \in Seq(Nat) /\ Len(s \o t) = Len(s) + Len(t)
<1>1. /\ s \o t \in Seq(Nat) /\ Len(s \o t) = Len(s) + Len(t)
      /\ \A i \in DOMAIN s : i \in DOMAIN (s \o t) /\ (s \o t)[i] = s[i]
      /\ \A i \in DOMAIN t : i + Len(s) \in DOMAIN (s \o t) /\ (s \o t)[i + Len(s)] = t[i]
      /\ \A i \in DOMAIN (s \o t) : \/ i \in DOMAIN s /\ (s \o t)[i] = s[i]
                                    \/ i - Len(s) \in DOMAIN t /\ (s \o t)[i] = t[i - Len(s)]
  OBVIOUS
<1> DEFINE u == s \o t
<1>2. \A x \in ToSet(u) : x \in ToSet(s) \/ x \in ToSet(t)
  <2>1. \A i \in DOMAIN u : (\E j \in DOMAIN s : u[i] = s[j]) \/ (\E j \in DOMAIN t : u[i] = t[j])
    BY <1>1
  <2> HIDE DEF u
  <2>2. QED
    BY <2>1, Zenon DEF ToSet
<1>3. \A x : x \in ToSet(s) \/ x \in ToSet(t) => x \in ToSet(u)
  <2>1. /\ \A i \in DOMAIN s : \E j \in DOMAIN u : u[j] = s[i]
        /\ \A i \in DOMAIN t : \E j \in DOMAIN u : u[j] = t[i]
    BY <1>1
  <2> HIDE DEF u
  <2>2. QED
    BY <2>1, Zenon DEF ToSet
<1>4. QED
  BY <1>1, <1>2, <1>3

\* One more record is numbered next.
LEMMA OneMore == \A n \in Nat : 1 .. n + 1 = (1 .. n) \cup {n + 1}
OBVIOUS

-----------------------------------------------------------------------------
\* Nothing is emitted at first.
LEMMA UploaderInitInv == LUInit => UploaderInv
<1> SUFFICES ASSUME LUInit PROVE UploaderInv
  OBVIOUS
<1>1. /\ log_queue = << >> /\ epending = << >> /\ fpending = << >> /\ published = << >> /\ evicted = << >>
      /\ wiped = << >> /\ emitted = 0
  BY DEF LUInit, WsInit
<1>2. << >> \in Seq(Nat) /\ Len(<< >>) = 0
  BY EmptySeq
<1>3. AllPlaces = {}
  BY <1>1, SetOfEmpty DEF AllPlaces
<1>4. HowMany = 0 /\ PlacesAreSequences /\ DrainsEmpty
  BY <1>1, <1>2 DEF HowMany, PlacesAreSequences, DrainsEmpty
<1>5. 1 .. 0 = {}
  OBVIOUS
<1>6. QED
  BY <1>1, <1>2, <1>3, <1>4, <1>5, UploaderAssumption DEF UploaderInv

\* The lengths of the places.
LEMMA PlacesCount ==
  ASSUME PlacesAreSequences
  PROVE  /\ Len(log_queue) \in Nat /\ Len(epending) \in Nat /\ Len(fpending) \in Nat
         /\ Len(published) \in Nat /\ Len(evicted) \in Nat /\ Len(wiped) \in Nat
BY DEF PlacesAreSequences

\* A record goes to the queue, and when that is full the oldest is evicted.
LEMMA EmitAccounts == UploaderInv /\ emit => UploaderInv'
<1> SUFFICES ASSUME UploaderInv, emit PROVE UploaderInv'
  OBVIOUS
<1> DEFINE n == emitted + 1
           full == Len(log_queue) = MaxQueue
<1>1. /\ n \in Nat /\ emitted \in Nat /\ emitted' = n /\ log_queue \in Seq(Nat) /\ evicted \in Seq(Nat)
      /\ UNCHANGED <<epending, fpending, published, wiped, fpc>>
      /\ epc # "publish" /\ epc' # "publish"
  BY DEF emit, flushVars, wsVars, outVars, UploaderInv, PlacesAreSequences
<1>2. DrainsEmpty'
  BY <1>1 DEF UploaderInv, DrainsEmpty
<1>3. AllPlaces' = AllPlaces \cup {n} /\ HowMany' = HowMany + 1 /\ Len(log_queue') <= MaxQueue /\ PlacesAreSequences'
  <2>1. CASE ~full
    <3>1. log_queue' = Append(log_queue, n) /\ evicted' = evicted
      BY <2>1 DEF emit
    <3>2. ToSet(log_queue') = ToSet(log_queue) \cup {n} /\ log_queue' \in Seq(Nat) /\ Len(log_queue') = Len(log_queue) + 1
      BY <1>1, <3>1, SetOfAppend
    <3>3. PlacesAreSequences'
      BY <1>1, <3>1, <3>2 DEF UploaderInv, PlacesAreSequences
    <3>4. Len(log_queue) < MaxQueue /\ Len(log_queue) \in Nat /\ MaxQueue \in Nat
      BY <2>1, PlacesCount, UploaderAssumption DEF UploaderInv
    <3>5. AllPlaces' = AllPlaces \cup {n}
      BY <1>1, <3>1, <3>2 DEF AllPlaces
    <3>6. HowMany' = HowMany + 1
      BY <1>1, <3>1, <3>2, PlacesCount DEF HowMany, UploaderInv
    <3>7. QED
      BY <3>2, <3>3, <3>4, <3>5, <3>6
  <2>2. CASE full
    <3> DEFINE rest == Tail(log_queue)
               first == Head(log_queue)
    <3>1. log_queue' = Append(rest, n) /\ evicted' = Append(evicted, first)
      BY <2>2 DEF emit
    <3>2. log_queue # << >>
      BY <2>2, UploaderAssumption, EmptySeq
    <3>3. /\ ToSet(log_queue) = {first} \cup ToSet(rest) /\ first \in Nat /\ rest \in Seq(Nat)
          /\ Len(log_queue) = Len(rest) + 1 /\ Len(rest) \in Nat
      BY <1>1, <3>2, SetOfTail
    <3> HIDE DEF rest, first
    <3>4. ToSet(log_queue') = ToSet(rest) \cup {n} /\ log_queue' \in Seq(Nat) /\ Len(log_queue') = Len(rest) + 1
      BY <1>1, <3>1, <3>3, SetOfAppend
    <3>5. ToSet(evicted') = ToSet(evicted) \cup {first} /\ evicted' \in Seq(Nat) /\ Len(evicted') = Len(evicted) + 1
      BY <1>1, <3>1, <3>3, SetOfAppend
    <3>6. PlacesAreSequences'
      BY <1>1, <3>4, <3>5 DEF UploaderInv, PlacesAreSequences
    <3>7. AllPlaces' = AllPlaces \cup {n}
      BY <1>1, <3>3, <3>4, <3>5 DEF AllPlaces
    <3>8. HowMany' = HowMany + 1
      BY <1>1, <3>3, <3>4, <3>5, PlacesCount DEF HowMany, UploaderInv
    <3>9. QED
      BY <2>2, <3>3, <3>4, <3>6, <3>7, <3>8, UploaderAssumption
  <2>3. QED
    BY <2>1, <2>2
<1>4. HowMany' = emitted' /\ AllPlaces' = 1 .. emitted'
  BY <1>1, <1>3, OneMore DEF UploaderInv
<1>5. QED
  BY <1>2, <1>3, <1>4 DEF UploaderInv

\* A drain takes the whole queue.
LEMMA SnapshotAccounts == UploaderInv /\ (EmitterSnapshots \/ FlushSnapshots) => UploaderInv'
<1> SUFFICES ASSUME UploaderInv, EmitterSnapshots \/ FlushSnapshots PROVE UploaderInv'
  OBVIOUS
<1>1. << >> \in Seq(Nat) /\ Len(<< >>) = 0 /\ ToSet(<< >>) = {}
  BY EmptySeq, SetOfEmpty
<1>2. UNCHANGED <<published, evicted, wiped, emitted>> /\ log_queue' = << >>
  BY DEF EmitterSnapshots, FlushSnapshots, wsVars, outVars
<1>3. \/ epending = << >> /\ epending' = log_queue /\ UNCHANGED <<fpc, fpending>> /\ epc' = "publish"
      \/ fpending = << >> /\ fpending' = log_queue /\ UNCHANGED <<epc, epending>> /\ fpc' = "publish"
  BY DEF EmitterSnapshots, FlushSnapshots, emitVars, flushVars, UploaderInv, DrainsEmpty
<1>4. PlacesAreSequences'
  BY <1>1, <1>2, <1>3 DEF UploaderInv, PlacesAreSequences
<1>5. DrainsEmpty'
  BY <1>3 DEF UploaderInv, DrainsEmpty
<1>6. AllPlaces' = AllPlaces
  BY <1>1, <1>2, <1>3 DEF AllPlaces
<1>7. HowMany' = HowMany
  BY <1>1, <1>2, <1>3, PlacesCount DEF HowMany, UploaderInv
<1>8. Len(log_queue') <= MaxQueue
  BY <1>1, <1>2, UploaderAssumption
<1>9. QED
  BY <1>2, <1>4, <1>5, <1>6, <1>7, <1>8 DEF UploaderInv

\* A record goes from a drain to the session.
LEMMA PublishAccounts == UploaderInv /\ (EmitterPublishes \/ FlushPublishes) => UploaderInv'
<1> SUFFICES ASSUME UploaderInv, EmitterPublishes \/ FlushPublishes PROVE UploaderInv'
  OBVIOUS
<1>1. PICK pending \in Seq(Nat) :
        /\ pending # << >> /\ published' = Append(published, Head(pending))
        /\ \/ epc = "publish" /\ pending = epending /\ epending' = Tail(pending) /\ UNCHANGED fpending
           \/ fpc = "publish" /\ pending = fpending /\ fpending' = Tail(pending) /\ UNCHANGED epending
  BY DEF EmitterPublishes, FlushPublishes, publish, flushVars, emitVars, UploaderInv, PlacesAreSequences
<1>2. UNCHANGED <<log_queue, evicted, wiped, emitted, epc, fpc>> /\ published \in Seq(Nat)
  BY DEF EmitterPublishes, FlushPublishes, flushVars, emitVars, UploaderInv, PlacesAreSequences
<1> DEFINE first == Head(pending)
           rest == Tail(pending)
<1>3. /\ ToSet(pending) = {first} \cup ToSet(rest) /\ first \in Nat /\ rest \in Seq(Nat)
      /\ Len(pending) = Len(rest) + 1 /\ Len(rest) \in Nat
  BY <1>1, SetOfTail
<1>4. /\ published' = Append(published, first)
      /\ \/ epc = "publish" /\ pending = epending /\ epending' = rest /\ UNCHANGED fpending
         \/ fpc = "publish" /\ pending = fpending /\ fpending' = rest /\ UNCHANGED epending
  BY <1>1
<1> HIDE DEF first, rest
<1>5. ToSet(published') = ToSet(published) \cup {first} /\ published' \in Seq(Nat) /\ Len(published') = Len(published) + 1
  BY <1>2, <1>3, <1>4, SetOfAppend
<1>6. PlacesAreSequences'
  BY <1>2, <1>3, <1>4, <1>5 DEF UploaderInv, PlacesAreSequences
<1>7. DrainsEmpty'
  BY <1>2, <1>4 DEF UploaderInv, DrainsEmpty
<1>8. AllPlaces' = AllPlaces
  BY <1>2, <1>3, <1>4, <1>5 DEF AllPlaces
<1>9. HowMany' = HowMany
  <2>0. Len(pending) = Len(rest) + 1 /\ Len(rest) \in Nat /\ Len(published') = Len(published) + 1
    BY <1>3, <1>5
  <2>1. Len(log_queue') = Len(log_queue) /\ Len(evicted') = Len(evicted) /\ Len(wiped') = Len(wiped)
    BY <1>2
  <2>2. /\ Len(log_queue) \in Nat /\ Len(epending) \in Nat /\ Len(fpending) \in Nat
        /\ Len(published) \in Nat /\ Len(evicted) \in Nat /\ Len(wiped) \in Nat
    BY PlacesCount DEF UploaderInv
  <2>3. CASE pending = epending /\ epending' = rest /\ fpending' = fpending
    <3>1. Len(epending') = Len(rest) /\ Len(fpending') = Len(fpending)
      BY <2>3
    <3>2. Len(epending) = Len(rest) + 1
      BY <2>3, <2>0
    <3> QED
      BY <3>1, <3>2, <2>0, <2>1, <2>2 DEF HowMany
  <2>4. CASE pending = fpending /\ fpending' = rest /\ epending' = epending
    <3>1. Len(fpending') = Len(rest) /\ Len(epending') = Len(epending)
      BY <2>4
    <3>2. Len(fpending) = Len(rest) + 1
      BY <2>4, <2>0
    <3> QED
      BY <3>1, <3>2, <2>0, <2>1, <2>2 DEF HowMany
  <2>5. QED
    BY <1>4, <2>3, <2>4
<1>10. QED
  BY <1>2, <1>6, <1>7, <1>8, <1>9 DEF UploaderInv

\* What a process had queued or was draining dies with it.
LEMMA RestartAccounts == UploaderInv /\ RestartWipes => UploaderInv'
<1> SUFFICES ASSUME UploaderInv, RestartWipes PROVE UploaderInv'
  OBVIOUS
<1>1. << >> \in Seq(Nat) /\ Len(<< >>) = 0 /\ ToSet(<< >>) = {}
  BY EmptySeq, SetOfEmpty
<1>2. /\ wiped' = wiped \o log_queue \o epending \o fpending
      /\ log_queue' = << >> /\ epending' = << >> /\ fpending' = << >>
      /\ UNCHANGED <<evicted, published, emitted>>
  BY DEF RestartWipes, Restart
<1> DEFINE w1 == wiped \o log_queue
           w2 == w1 \o epending
           w3 == w2 \o fpending
<1>3. ToSet(w1) = ToSet(wiped) \cup ToSet(log_queue) /\ w1 \in Seq(Nat) /\ Len(w1) = Len(wiped) + Len(log_queue)
  BY SetOfConcat DEF UploaderInv, PlacesAreSequences
<1> HIDE DEF w1
<1>4. ToSet(w2) = ToSet(w1) \cup ToSet(epending) /\ w2 \in Seq(Nat) /\ Len(w2) = Len(w1) + Len(epending)
  BY <1>3, SetOfConcat DEF UploaderInv, PlacesAreSequences
<1> HIDE DEF w2
<1>5. ToSet(w3) = ToSet(w2) \cup ToSet(fpending) /\ w3 \in Seq(Nat) /\ Len(w3) = Len(w2) + Len(fpending)
  BY <1>4, SetOfConcat DEF UploaderInv, PlacesAreSequences
<1> HIDE DEF w3
<1>6. wiped' = w3
  BY <1>2 DEF w1, w2, w3
<1>7. PlacesAreSequences'
  BY <1>1, <1>2, <1>5, <1>6 DEF UploaderInv, PlacesAreSequences
<1>8. DrainsEmpty'
  BY <1>2 DEF DrainsEmpty
<1>9. AllPlaces' = AllPlaces
  BY <1>1, <1>2, <1>3, <1>4, <1>5, <1>6 DEF AllPlaces
<1>10. HowMany' = HowMany
  <2>1. /\ Len(log_queue) \in Nat /\ Len(epending) \in Nat /\ Len(fpending) \in Nat
        /\ Len(published) \in Nat /\ Len(evicted) \in Nat /\ Len(wiped) \in Nat
    BY PlacesCount DEF UploaderInv
  <2>2. Len(wiped') = Len(wiped) + Len(log_queue) + Len(epending) + Len(fpending)
    BY <1>3, <1>4, <1>5, <1>6, <2>1
  <2>3. /\ Len(log_queue') = 0 /\ Len(epending') = 0 /\ Len(fpending') = 0
        /\ Len(published') = Len(published) /\ Len(evicted') = Len(evicted)
    BY <1>1, <1>2
  <2>4. QED
    BY <2>1, <2>2, <2>3 DEF HowMany
<1>11. Len(log_queue') <= MaxQueue
  BY <1>1, <1>2, UploaderAssumption
<1>12. QED
  BY <1>2, <1>7, <1>8, <1>9, <1>10, <1>11 DEF UploaderInv

\* No other step of the session touches a record.
LEMMA SessionKeepsPublished ==
  ASSUME \/ OtherRunSteps \/ ReceiveFrame \/ _send_safely \/ HeartbeatTimeout \/ HelloSent
         \/ (\E how \in Links : LinkEnds(how)) \/ StopRequested
  PROVE  published' = published
BY DEF OtherRunSteps, LoopHead, DialFails, DialSucceeds, HelloFails, ReceiveEnds, Detach, ClearSession,
       EndedCleanly, EndedByError, PauseEnds, save_auth, SaveFails, ReceiveFrame, HelloAck, HelloAckRotates,
       StreamSubscription, CallArrives, _send_safely, HeartbeatTimeout, HelloSent, LinkEnds, StopRequested,
       outVars

\* Each step of the uploader and of the session keeps every record in its place.
LEMMA UploaderNextInv == UploaderInv /\ [LUNext]_luVars => UploaderInv'
<1> SUFFICES ASSUME UploaderInv, [LUNext]_luVars PROVE UploaderInv'
  OBVIOUS
<1>1. ASSUME UNCHANGED <<log_queue, epending, fpending, published, evicted, wiped, emitted>>, DrainsEmpty'
      PROVE  UploaderInv'
  BY <1>1 DEF UploaderInv, PlacesAreSequences, HowMany, AllPlaces
<1>2. CASE EmitterDone \/ FlushDone
  BY <1>1, <1>2 DEF EmitterDone, FlushDone, wsVars, outVars, emitVars, flushVars, UploaderInv, DrainsEmpty
<1>3. CASE SessionStep \/ OutsideStep
  <2>1. published' = published
    BY <1>3, SessionKeepsPublished DEF SessionStep, LoopStep, AttachAndFlush, OutsideStep
  <2>2. /\ UNCHANGED <<log_queue, epending, fpending, evicted, wiped, emitted, epc>>
        /\ fpc' = fpc \/ (fpc = "idle")
    BY <1>3 DEF SessionStep, LoopStep, AttachAndFlush, OutsideStep, logVars, emitVars, flushVars
  <2>3. DrainsEmpty'
    BY <2>2 DEF UploaderInv, DrainsEmpty
  <2>4. QED
    BY <1>1, <2>1, <2>2, <2>3
<1>4. CASE UNCHANGED luVars
  BY <1>1, <1>4 DEF luVars, logVars, wsVars, outVars, emitVars, flushVars, UploaderInv, DrainsEmpty
<1>5. QED
  BY <1>2, <1>3, <1>4, EmitAccounts, SnapshotAccounts, PublishAccounts, RestartAccounts
     DEF LUNext, EmitterStep, FlushStep

\* For any queue bound, records, drains and restarts: each record emitted is queued, in
\* a drain, published once, evicted or wiped, and the queue stays within its bound.
THEOREM RecordsStayAccounted == LUSpec => []RecordsAccountedFor
<1>1. UploaderInv => RecordsAccountedFor
  <2> SUFFICES ASSUME UploaderInv PROVE RecordsAccountedFor
    OBVIOUS
  <2> DEFINE p2 == log_queue \o epending
             p3 == p2 \o fpending
             p4 == p3 \o published
             p5 == p4 \o evicted
             p6 == p5 \o wiped
  <2>1. p2 \in Seq(Nat) /\ ToSet(p2) = ToSet(log_queue) \cup ToSet(epending) /\ Len(p2) = Len(log_queue) + Len(epending)
    BY SetOfConcat DEF UploaderInv, PlacesAreSequences
  <2> HIDE DEF p2
  <2>2. p3 \in Seq(Nat) /\ ToSet(p3) = ToSet(p2) \cup ToSet(fpending) /\ Len(p3) = Len(p2) + Len(fpending)
    BY <2>1, SetOfConcat DEF UploaderInv, PlacesAreSequences
  <2> HIDE DEF p3
  <2>3. p4 \in Seq(Nat) /\ ToSet(p4) = ToSet(p3) \cup ToSet(published) /\ Len(p4) = Len(p3) + Len(published)
    BY <2>2, SetOfConcat DEF UploaderInv, PlacesAreSequences
  <2> HIDE DEF p4
  <2>4. p5 \in Seq(Nat) /\ ToSet(p5) = ToSet(p4) \cup ToSet(evicted) /\ Len(p5) = Len(p4) + Len(evicted)
    BY <2>3, SetOfConcat DEF UploaderInv, PlacesAreSequences
  <2> HIDE DEF p5
  <2>5. p6 \in Seq(Nat) /\ ToSet(p6) = ToSet(p5) \cup ToSet(wiped) /\ Len(p6) = Len(p5) + Len(wiped)
    BY <2>4, SetOfConcat DEF UploaderInv, PlacesAreSequences
  <2> HIDE DEF p6
  <2>6. ToSet(p6) = AllPlaces
    BY <2>1, <2>2, <2>3, <2>4, <2>5 DEF AllPlaces
  <2>7. Len(p6) = HowMany
    BY <2>1, <2>2, <2>3, <2>4, <2>5, PlacesCount DEF HowMany, UploaderInv
  <2>8. Len(p6) = emitted /\ ToSet(p6) = 1 .. emitted /\ Len(log_queue) <= MaxQueue
    BY <2>6, <2>7 DEF UploaderInv
  <2>9. QED
    BY <2>8, Zenon DEF RecordsAccountedFor, p2, p3, p4, p5, p6
<1>2. QED
  BY <1>1, UploaderInitInv, UploaderNextInv, PTL DEF LUSpec

-----------------------------------------------------------------------------
(* LogUploader: it leaves the session a session.                           *)

\* No more records are emitted than the bound, and these are the frames.
RecordsAreFrames == emitted \in Nat /\ emitted <= MaxRecords

\* A sequence holds no more elements than it is long.
LEMMA NoMoreThanLong ==
  ASSUME NEW s \in Seq(Nat)
  PROVE  IsFiniteSet(ToSet(s)) /\ Cardinality(ToSet(s)) <= Len(s)
                               /\ Cardinality(ToSet(s)) \in Nat /\ Len(s) \in Nat
<1>1. Len(s) \in Nat /\ DOMAIN s = 1 .. Len(s)
  OBVIOUS
<1>2. IsFiniteSet(1 .. Len(s)) /\ Cardinality(1 .. Len(s)) = Len(s)
  <2>1. Cardinality(1 .. Len(s)) = IF 1 > Len(s) THEN 0 ELSE Len(s) - 1 + 1
    BY <1>1, FS_Interval
  <2>2. IsFiniteSet(1 .. Len(s))
    BY <1>1, FS_Interval
  <2>3. QED
    BY <1>1, <2>1, <2>2
<1> DEFINE f == [i \in 1 .. Len(s) |-> s[i]]
<1>3. f \in Surjection(1 .. Len(s), ToSet(s))
  <2>1. \A t \in ToSet(s) : \E i \in 1 .. Len(s) : f[i] = t
    BY <1>1 DEF ToSet
  <2>2. f \in [1 .. Len(s) -> ToSet(s)]
    BY <1>1 DEF ToSet
  <2>3. QED
    BY <2>1, <2>2, Zenon DEF Surjection
<1> HIDE DEF f
<1>4. IsFiniteSet(ToSet(s)) /\ Cardinality(ToSet(s)) <= Cardinality(1 .. Len(s))
  BY <1>2, <1>3, FS_Surjection
<1>5. QED
  BY <1>1, <1>2, <1>4, FS_CardinalityType

\* Two finite sets hold no more together than each by itself.
LEMMA TogetherNoMore ==
  ASSUME NEW A, NEW B, IsFiniteSet(A), IsFiniteSet(B), NEW a \in Nat, NEW b \in Nat,
         Cardinality(A) <= a, Cardinality(B) <= b
  PROVE  IsFiniteSet(A \cup B) /\ Cardinality(A \cup B) <= a + b
<1>1. /\ IsFiniteSet(A \cup B)
      /\ Cardinality(A \cup B) = Cardinality(A) + Cardinality(B) - Cardinality(A \cap B)
  BY FS_Union
<1>2. IsFiniteSet(A \cap B)
  BY FS_Intersection
<1>3. Cardinality(A) \in Nat /\ Cardinality(B) \in Nat /\ Cardinality(A \cap B) \in Nat
  BY <1>2, FS_CardinalityType
<1>4. QED
  BY <1>1, <1>3

\* One place more, and what is in it.
LEMMA OneMorePlace ==
  ASSUME NEW A, IsFiniteSet(A), NEW a \in Nat, Cardinality(A) <= a, NEW s \in Seq(Nat)
  PROVE  /\ IsFiniteSet(A \cup ToSet(s)) /\ Cardinality(A \cup ToSet(s)) <= a + Len(s)
         /\ a + Len(s) \in Nat
<1>1. IsFiniteSet(ToSet(s)) /\ Cardinality(ToSet(s)) <= Len(s) /\ Len(s) \in Nat
  BY NoMoreThanLong
<1>2. IsFiniteSet(A \cup ToSet(s)) /\ Cardinality(A \cup ToSet(s)) <= a + Len(s)
  BY <1>1, TogetherNoMore
<1>3. QED
  BY <1>1, <1>2

\* The first of what a drain is about to publish is published for the first time: it
\* would be in two places otherwise, and the places would hold less than was emitted.
LEMMA FirstIsFresh ==
  ASSUME NEW p \in Seq(Nat), p # << >>, NEW other \in Seq(Nat), NEW q \in Seq(Nat), NEW d \in Seq(Nat),
         NEW v \in Seq(Nat), NEW w \in Seq(Nat), NEW n \in Nat,
         Len(q) + Len(p) + Len(other) + Len(d) + Len(v) + Len(w) = n,
         ToSet(q) \cup ToSet(p) \cup ToSet(other) \cup ToSet(d) \cup ToSet(v) \cup ToSet(w) = 1 .. n
  PROVE  Head(p) \in 1 .. n /\ Head(p) \notin ToSet(d)
<1>1. /\ ToSet(p) = {Head(p)} \cup ToSet(Tail(p)) /\ Tail(p) \in Seq(Nat)
      /\ Len(p) = Len(Tail(p)) + 1 /\ Len(Tail(p)) \in Nat
  BY SetOfTail
<1> DEFINE first == Head(p)
           rest  == Tail(p)
<1>2. first \in 1 .. n
  BY <1>1
<1> HIDE DEF first, rest
<1>3. SUFFICES ASSUME first \in ToSet(d) PROVE FALSE
  BY <1>2 DEF first
<1> DEFINE s1 == ToSet(q) \cup ToSet(rest)
           s2 == s1 \cup ToSet(other)
           s3 == s2 \cup ToSet(d)
           s4 == s3 \cup ToSet(v)
           s5 == s4 \cup ToSet(w)
<1>4. rest \in Seq(Nat) /\ Len(rest) \in Nat
  BY <1>1 DEF rest
<1>5. /\ Len(q) \in Nat /\ Len(other) \in Nat /\ Len(d) \in Nat /\ Len(v) \in Nat /\ Len(w) \in Nat
  BY NoMoreThanLong
<1>6. s5 = 1 .. n
  BY <1>1, <1>3 DEF first, rest
<1>7. IsFiniteSet(ToSet(q)) /\ Cardinality(ToSet(q)) <= Len(q)
  BY NoMoreThanLong
<1>8. IsFiniteSet(s1) /\ Cardinality(s1) <= Len(q) + Len(rest) /\ Len(q) + Len(rest) \in Nat
  BY <1>4, <1>5, <1>7, OneMorePlace
<1> HIDE DEF s1
<1>9. IsFiniteSet(s2) /\ Cardinality(s2) <= Len(q) + Len(rest) + Len(other) /\ Len(q) + Len(rest) + Len(other) \in Nat
  BY <1>4, <1>5, <1>8, OneMorePlace
<1> HIDE DEF s2
<1>10. IsFiniteSet(s3) /\ Cardinality(s3) <= Len(q) + Len(rest) + Len(other) + Len(d) /\ Len(q) + Len(rest) + Len(other) + Len(d) \in Nat
  BY <1>4, <1>5, <1>9, OneMorePlace
<1> HIDE DEF s3
<1>11. IsFiniteSet(s4) /\ Cardinality(s4) <= Len(q) + Len(rest) + Len(other) + Len(d) + Len(v) /\ Len(q) + Len(rest) + Len(other) + Len(d) + Len(v) \in Nat
  BY <1>4, <1>5, <1>10, OneMorePlace
<1> HIDE DEF s4
<1>12. IsFiniteSet(s5) /\ Cardinality(s5) <= Len(q) + Len(rest) + Len(other) + Len(d) + Len(v) + Len(w) /\ Len(q) + Len(rest) + Len(other) + Len(d) + Len(v) + Len(w) \in Nat
  BY <1>4, <1>5, <1>11, OneMorePlace
<1> HIDE DEF s5
<1>13. Cardinality(1 .. n) = n
  <2>1. n \in Int /\ 1 \in Int
    OBVIOUS
  <2>2. Cardinality(1 .. n) = IF 1 > n THEN 0 ELSE n - 1 + 1
    BY <2>1, FS_Interval
  <2>3. QED
    BY <2>2
<1>14. n = Len(q) + (Len(rest) + 1) + Len(other) + Len(d) + Len(v) + Len(w)
  BY <1>1 DEF rest
<1>15. QED
  BY <1>4, <1>5, <1>6, <1>12, <1>13, <1>14

\* So a drain's publish is the session's publish of a new frame.
LEMMA DrainPublishes ==
  ASSUME UploaderInv, RecordsAreFrames, EmitterPublishes \/ FlushPublishes
  PROVE  \E f \in Frames : ThreadPublishes(f)
<1>1. PICK pending \in Seq(Nat) :
        /\ pending # << >> /\ publish(Head(pending)) /\ UNCHANGED sessionFrame
        /\ pending = epending \/ pending = fpending
  BY DEF EmitterPublishes, FlushPublishes, UploaderInv, PlacesAreSequences
<1>2. Head(pending) \in 1 .. emitted /\ Head(pending) \notin ToSet(published)
  <2>1. /\ log_queue \in Seq(Nat) /\ epending \in Seq(Nat) /\ fpending \in Seq(Nat)
        /\ published \in Seq(Nat) /\ evicted \in Seq(Nat) /\ wiped \in Seq(Nat) /\ emitted \in Nat
    BY DEF UploaderInv, PlacesAreSequences
  <2>2. /\ Len(log_queue) + Len(epending) + Len(fpending) + Len(published) + Len(evicted) + Len(wiped) = emitted
        /\ ToSet(log_queue) \cup ToSet(epending) \cup ToSet(fpending) \cup ToSet(published)
             \cup ToSet(evicted) \cup ToSet(wiped) = 1 .. emitted
    BY DEF UploaderInv, HowMany, AllPlaces
  <2>3. CASE pending = epending
    BY <1>1, <2>1, <2>2, <2>3, FirstIsFresh
  <2>4. CASE pending = fpending
    <3>1. /\ Len(log_queue) + Len(fpending) + Len(epending) + Len(published) + Len(evicted) + Len(wiped) = emitted
      BY <2>1, <2>2, PlacesCount DEF UploaderInv
    <3>2. ToSet(log_queue) \cup ToSet(fpending) \cup ToSet(epending) \cup ToSet(published)
             \cup ToSet(evicted) \cup ToSet(wiped) = 1 .. emitted
      BY <2>2
    <3>3. QED
      BY <1>1, <2>1, <3>1, <3>2, <2>4, FirstIsFresh
  <2>5. QED
    BY <1>1, <2>3, <2>4
<1>3. Head(pending) \in Frames
  BY <1>2, UploaderAssumption DEF RecordsAreFrames
<1>4. Published = ToSet(published)
  BY DEF Published, ToSet
<1>5. ThreadPublishes(Head(pending))
  BY <1>1, <1>2, <1>4 DEF ThreadPublishes, sessionFrame
<1>6. QED
  BY <1>3, <1>5

\* Each step of the uploader is a step of the session or leaves it alone.
LEMMA UploaderStepIsSessions ==
  ASSUME UploaderInv, RecordsAreFrames, [LUNext]_luVars
  PROVE  [WsNext]_wsVars
<1>1. CASE emit
  BY <1>1 DEF emit
<1>2. CASE EmitterStep
  <2>1. CASE EmitterPublishes
    BY <2>1, DrainPublishes, Zenon DEF WsNext
  <2>2. CASE EmitterSnapshots \/ EmitterDone
    BY <2>2 DEF EmitterSnapshots, EmitterDone
  <2>3. QED
    BY <1>2, <2>1, <2>2 DEF EmitterStep
<1>3. CASE FlushStep
  <2>1. CASE FlushPublishes
    BY <2>1, DrainPublishes, Zenon DEF WsNext
  <2>2. CASE FlushSnapshots \/ FlushDone
    BY <2>2 DEF FlushSnapshots, FlushDone
  <2>3. QED
    BY <1>3, <2>1, <2>2 DEF FlushStep
<1>4. CASE SessionStep
  BY <1>4, Zenon DEF SessionStep, LoopStep, AttachAndFlush, OtherRunSteps, run, WsNext
<1>5. CASE OutsideStep
  BY <1>5, Zenon DEF OutsideStep, WsNext
<1>6. CASE RestartWipes
  BY <1>6, Zenon DEF RestartWipes, WsNext
<1>7. CASE UNCHANGED luVars
  BY <1>7 DEF luVars
<1>8. QED
  BY <1>1, <1>2, <1>3, <1>4, <1>5, <1>6, <1>7, Zenon DEF LUNext

\* The bound on the records emitted is kept.
LEMMA RecordsStayFrames ==
  /\ LUInit => RecordsAreFrames
  /\ RecordsAreFrames /\ [LUNext]_luVars => RecordsAreFrames'
<1>1. LUInit => RecordsAreFrames
  BY UploaderAssumption DEF LUInit, RecordsAreFrames
<1>2. ASSUME RecordsAreFrames, [LUNext]_luVars
      PROVE  RecordsAreFrames'
  <2>1. emitted' = emitted \/ (emitted < MaxRecords /\ emitted' = emitted + 1)
    BY <1>2 DEF LUNext, emit, EmitterStep, EmitterSnapshots, EmitterPublishes, EmitterDone, FlushStep,
            FlushSnapshots, FlushPublishes, FlushDone, SessionStep, LoopStep, AttachAndFlush, OutsideStep,
            RestartWipes, logVars, luVars
  <2>2. QED
    BY <1>2, <2>1, UploaderAssumption DEF RecordsAreFrames
<1>3. QED
  BY <1>1, <1>2

\* The session with the log uploader is a session: its records are frames that other
\* threads publish, each once, although two threads drain one queue.
THEOREM UploaderIsASession == LUSpec => WsSpec
<1>1. LUInit => WsInit
  BY DEF LUInit
<1>2. UploaderInv /\ [LUNext]_luVars => UploaderInv'
  BY UploaderNextInv
<1>3. UploaderInv /\ RecordsAreFrames /\ [LUNext]_luVars => [WsNext]_wsVars
  BY UploaderStepIsSessions
<1>4. QED
  BY <1>1, <1>2, <1>3, UploaderInitInv, RecordsStayFrames, PTL DEF LUSpec, WsSpec

\* So what is proved of the session holds with the uploader in it: records arrive at most
\* once and in the order the drains published them, and a restart finds its credential.
THEOREM RecordsArriveInOrder == LUSpec => [](Channel!ReceivedInOrder /\ RestartKeepsCredential)
BY UploaderIsASession, FramesArriveInOrder, CredentialSurvives, PTL
=============================================================================
