----------------------------- MODULE WsSession ------------------------------
(***************************************************************************)
(* WSClient (ws_client.py): the reverse tunnel to the platform.            *)
(*                                                                         *)
(* One asyncio loop, in a thread of its own, runs run(): dial, hello,      *)
(* receive until the socket ends, clean up, pause, dial again.  Its steps  *)
(* here go from one await to the next.  A heartbeat task watches for a     *)
(* peer that fell silent.  Other threads call publish at any moment: the   *)
(* frame is scheduled on the loop and sent, or dropped, later.  hello_ack  *)
(* may carry a new device_secret, kept in memory and saved to auth.json.   *)
(*                                                                         *)
(* Frames that only pass through (task_dispatch, task_cancel) are the      *)
(* inputs of TaskWorker.                                                   *)
(***************************************************************************)
EXTENDS Naturals, Sequences, FiniteSets

CONSTANTS
  Frames,                   \* outbound frames of other threads, each published once
  Calls,                    \* direct tools and tool calls the platform asks for
  RECONNECT_BACKOFF_CAP_S,
  MaxFaults,                \* bound: dials that fail, links that end, saves that fail
  MaxCrashes                \* bound: restarts of the process

ASSUME SessionAssumption ==
  /\ RECONNECT_BACKOFF_CAP_S \in Nat \ {0}
  /\ {MaxFaults, MaxCrashes} \subseteq Nat

VARIABLES
  rpc,         \* where run() is
  stop,        \* _stop
  ws,          \* _ws is not None
  link,        \* the socket behind it
  handshake,   \* _handshake_completed
  backoff,     \* seconds
  pause,       \* the pause being slept, without its jitter
  clean,       \* the session being cleaned up ended without an exception
  failures,    \* HealthRegistry.consecutive_failures
  status,      \* HealthRegistry.ws_status
  attached,    \* the log handler has a publisher
  subscribed,  \* DriverState.stream_subscribed
  calls,       \* _bg_tasks: what became of each call
  scheduled,   \* _send_safely tasks the loop has not run yet
  mem, disk,   \* which credential _config.auth and auth.json hold
  \* History and bounds:
  published,   \* frames given to publish, in order
  delivered,   \* frames written to a live socket, in order
  streak,      \* failed attempts since a session that was acked or ended cleanly
  faults, saveErrors, crashes

sessionVars == <<rpc, ws, link, handshake, clean, attached, subscribed>>
retryVars   == <<backoff, pause, failures, status, streak>>
outVars     == <<scheduled, published, delivered>>
authVars    == <<mem, disk, saveErrors>>
wsVars == <<sessionVars, retryVars, outVars, authVars, stop, calls, faults, crashes>>

RunPCs == {"head", "dialing", "hello", "receiving", "saving", "closing",
           "detached", "ended", "sleeping", "stopped"}
Links == {"none", "up", "silent", "closed_ok", "closed_error"}
Closed == {"closed_ok", "closed_error"}

MinOf(x, y) == IF x <= y THEN x ELSE y

-----------------------------------------------------------------------------
(* run(): the reconnect loop.                                              *)

LoopHead ==
  /\ rpc = "head"
  /\ IF stop
     THEN rpc' = "stopped" /\ UNCHANGED <<status, handshake>>
     ELSE rpc' = "dialing" /\ status' = "connecting" /\ handshake' = FALSE
  /\ UNCHANGED <<ws, link, clean, attached, subscribed, backoff, pause, failures,
                 streak, outVars, authVars, stop, calls, faults, crashes>>

\* websockets.connect gives up after WS_OPEN_TIMEOUT_S.
DialFails ==
  /\ rpc = "dialing" /\ faults < MaxFaults
  /\ faults' = faults + 1
  /\ rpc' = "ended" /\ clean' = FALSE
  /\ UNCHANGED <<ws, link, handshake, attached, subscribed, retryVars, outVars,
                 authVars, stop, calls, crashes>>

DialSucceeds ==
  /\ rpc = "dialing"
  /\ rpc' = "hello" /\ ws' = TRUE /\ link' = "up"
  /\ UNCHANGED <<handshake, clean, attached, subscribed, retryVars, outVars,
                 authVars, stop, calls, faults, crashes>>

\* The hello cannot be sent.  This is before the try block: _ws is kept.
HelloFails ==
  /\ rpc = "hello" /\ link \in Closed
  /\ rpc' = "ended" /\ clean' = FALSE
  /\ UNCHANGED <<ws, link, handshake, attached, subscribed, retryVars, outVars,
                 authVars, stop, calls, faults, crashes>>

\* hello sent, log uploader attached, heartbeat task started.
HelloSent ==
  /\ rpc = "hello" /\ link \notin Closed
  /\ rpc' = "receiving" /\ attached' = TRUE
  /\ UNCHANGED <<ws, link, handshake, clean, subscribed, retryVars, outVars,
                 authVars, stop, calls, faults, crashes>>

\* _recv_loop ends: quietly after a close code 1000 or 1001, else by raising.
\* The finally block cancels the heartbeat and awaits it ...
ReceiveEnds ==
  /\ rpc = "receiving" /\ link \in Closed
  /\ rpc' = "closing" /\ clean' = (link = "closed_ok")
  /\ UNCHANGED <<ws, link, handshake, attached, subscribed, retryVars, outVars,
                 authVars, stop, calls, faults, crashes>>

\* ... detaches the log uploader ...
Detach ==
  /\ rpc = "closing"
  /\ rpc' = "detached" /\ attached' = FALSE
  /\ UNCHANGED <<ws, link, handshake, clean, subscribed, retryVars, outVars,
                 authVars, stop, calls, faults, crashes>>

\* Mutant: the stream subscription survives its session.
ClearKeepsStream ==
  /\ rpc = "detached"
  /\ rpc' = "ended" /\ ws' = FALSE /\ link' = "none"
  /\ UNCHANGED <<handshake, clean, attached, subscribed, retryVars, outVars,
                 authVars, stop, calls, faults, crashes>>

\* ... ends the stream subscription and forgets the socket, which the async
\* with closes if it is still open.
ClearSession ==
  /\ rpc = "detached"
  /\ rpc' = "ended" /\ subscribed' = FALSE /\ ws' = FALSE /\ link' = "none"
  /\ UNCHANGED <<handshake, clean, attached, retryVars, outVars, authVars,
                 stop, calls, faults, crashes>>

\* A session that ended cleanly is followed by the next dial at once.
EndedCleanly ==
  /\ rpc = "ended" /\ clean
  /\ rpc' = "head" /\ backoff' = 1 /\ streak' = 0
  /\ UNCHANGED <<ws, link, handshake, clean, attached, subscribed, pause,
                 failures, status, outVars, authVars, stop, calls, faults, crashes>>

\* Mutants: a completed handshake does not restart the backoff; the failure is not
\* recorded in the health registry.
EndedWithoutReset ==
  /\ rpc = "ended" /\ ~clean
  /\ pause' = MinOf(backoff, RECONNECT_BACKOFF_CAP_S)
  /\ backoff' = MinOf(2 * backoff, RECONNECT_BACKOFF_CAP_S)
  /\ streak' = (IF handshake THEN 0 ELSE streak) + 1
  /\ failures' = failures + 1
  /\ status' = "reconnecting"
  /\ rpc' = "sleeping"
  /\ UNCHANGED <<ws, link, handshake, clean, attached, subscribed, outVars,
                 authVars, stop, calls, faults, crashes>>
EndedUnrecorded ==
  /\ rpc = "ended" /\ ~clean
  /\ LET base == IF handshake THEN 1 ELSE backoff IN
     /\ pause' = MinOf(base, RECONNECT_BACKOFF_CAP_S)
     /\ backoff' = MinOf(2 * base, RECONNECT_BACKOFF_CAP_S)
  /\ streak' = (IF handshake THEN 0 ELSE streak) + 1
  /\ rpc' = "sleeping"
  /\ UNCHANGED <<ws, link, handshake, clean, attached, subscribed, failures, status,
                 outVars, authVars, stop, calls, faults, crashes>>

EndedByError ==
  /\ rpc = "ended" /\ ~clean
  /\ LET base == IF handshake THEN 1 ELSE backoff IN
     /\ pause' = MinOf(base, RECONNECT_BACKOFF_CAP_S)
     /\ backoff' = MinOf(2 * base, RECONNECT_BACKOFF_CAP_S)
  /\ streak' = (IF handshake THEN 0 ELSE streak) + 1
  /\ failures' = failures + 1
  /\ status' = "reconnecting"
  /\ rpc' = "sleeping"
  /\ UNCHANGED <<ws, link, handshake, clean, attached, subscribed, outVars,
                 authVars, stop, calls, faults, crashes>>

\* Mutant: the pause ends only when stop is asked for.
WakesOnStopOnly ==
  /\ rpc = "sleeping" /\ stop
  /\ rpc' = "head"
  /\ UNCHANGED <<ws, link, handshake, clean, attached, subscribed, retryVars,
                 outVars, authVars, stop, calls, faults, crashes>>

PauseEnds ==
  /\ rpc = "sleeping"
  /\ rpc' = "head"
  /\ UNCHANGED <<ws, link, handshake, clean, attached, subscribed, retryVars,
                 outVars, authVars, stop, calls, faults, crashes>>

-----------------------------------------------------------------------------
(* Frames received (only while nothing else occupies the loop).            *)

Received == rpc = "receiving" /\ link = "up"

Acked == handshake' = TRUE /\ status' = "connected" /\ failures' = 0

\* hello_ack without news about the credential.
HelloAck ==
  /\ Received /\ mem = "secret"
  /\ Acked
  /\ UNCHANGED <<rpc, ws, link, clean, attached, subscribed, backoff, pause,
                 streak, outVars, authVars, stop, calls, faults, crashes>>

\* hello_ack of an enrollment: it carries the device_secret (external: the
\* platform issues one to a device that connects with its token).
HelloAckRotates ==
  /\ Received /\ mem = "token"
  /\ Acked
  /\ mem' = "secret"
  /\ rpc' = "saving"
  /\ UNCHANGED <<ws, link, clean, attached, subscribed, backoff, pause, streak,
                 outVars, disk, saveErrors, stop, calls, faults, crashes>>

\* Mutant: the secret is kept in memory only.
SaveSkipped ==
  /\ rpc = "saving"
  /\ rpc' = "receiving"
  /\ UNCHANGED <<ws, link, handshake, clean, attached, subscribed, retryVars,
                 outVars, authVars, stop, calls, faults, crashes>>

\* save_auth writes a temporary file and renames it over auth.json.
save_auth ==
  /\ rpc = "saving"
  /\ rpc' = "receiving" /\ disk' = mem
  /\ UNCHANGED <<ws, link, handshake, clean, attached, subscribed, retryVars,
                 outVars, mem, saveErrors, stop, calls, faults, crashes>>

\* A full disk or a read-only home: the error leaves _recv_loop.
SaveFails ==
  /\ rpc = "saving" /\ faults < MaxFaults
  /\ faults' = faults + 1 /\ saveErrors' = saveErrors + 1
  /\ rpc' = "closing" /\ clean' = FALSE
  /\ UNCHANGED <<ws, link, handshake, attached, subscribed, retryVars, outVars,
                 mem, disk, stop, calls, crashes>>

StreamSubscription(wanted) ==
  /\ Received
  /\ subscribed # wanted
  /\ subscribed' = wanted
  /\ UNCHANGED <<rpc, ws, link, handshake, clean, attached, retryVars, outVars,
                 authVars, stop, calls, faults, crashes>>

\* _handle_direct_tool or _handle_tool_call is spawned ...
CallArrives(c) ==
  /\ Received
  /\ calls[c] = "none"
  /\ calls' = [calls EXCEPT ![c] = "running"]
  /\ UNCHANGED <<sessionVars, retryVars, outVars, authVars, stop, faults, crashes>>

\* ... and answers on whatever socket _ws is by then; without one, or on a
\* closed one, the error frame meant to replace the answer fails like it.
CallAnswers(c) ==
  /\ calls[c] = "running" /\ rpc # "saving"
  /\ calls' = [calls EXCEPT ![c] = IF ws /\ link = "up" THEN "answered" ELSE "lost"]
  /\ UNCHANGED <<sessionVars, retryVars, outVars, authVars, stop, faults, crashes>>

-----------------------------------------------------------------------------
(* The outbound bridge.                                                    *)

Published == {published[i] : i \in DOMAIN published}

\* publish(), on the caller's thread.
publish(f) ==
  /\ published' = Append(published, f)
  /\ scheduled' = IF ws THEN Append(scheduled, f) ELSE scheduled

ThreadPublishes(f) ==
  /\ f \notin Published
  /\ publish(f)
  /\ UNCHANGED <<delivered, sessionVars, retryVars, authVars, stop, calls, faults, crashes>>

\* Mutant: the newest scheduled frame goes first.
SendsNewest ==
  /\ scheduled # <<>> /\ rpc # "saving"
  /\ scheduled' = SubSeq(scheduled, 1, Len(scheduled) - 1)
  /\ delivered' = IF ws /\ link = "up"
                  THEN Append(delivered, scheduled[Len(scheduled)]) ELSE delivered
  /\ UNCHANGED <<published, sessionVars, retryVars, authVars, stop, calls, faults, crashes>>

_send_safely ==
  /\ scheduled # <<>> /\ rpc # "saving"
  /\ scheduled' = Tail(scheduled)
  /\ delivered' = IF ws /\ link = "up"
                  THEN Append(delivered, Head(scheduled)) ELSE delivered
  /\ UNCHANGED <<published, sessionVars, retryVars, authVars, stop, calls, faults, crashes>>

-----------------------------------------------------------------------------
(* The network, the heartbeat, stop() and the process.                     *)

LinkEnds(how) ==
  /\ link \in {"up", "silent"} /\ faults < MaxFaults
  /\ how \in {"silent", "closed_ok", "closed_error"} \ {link}
  /\ link' = how
  /\ faults' = faults + 1
  /\ UNCHANGED <<rpc, ws, handshake, clean, attached, subscribed, retryVars,
                 outVars, authVars, stop, calls, crashes>>

\* Mutant: the heartbeat task only sends.
HeartbeatOnlySends ==
  /\ rpc = "receiving" /\ link = "silent"
  /\ UNCHANGED wsVars

\* Nothing received for HEARTBEAT_TIMEOUT_S: the heartbeat task closes the
\* socket with code 1011, which _recv_loop sees as an error.
HeartbeatTimeout ==
  /\ rpc = "receiving" /\ link = "silent"
  /\ link' = "closed_error"
  /\ UNCHANGED <<rpc, ws, handshake, clean, attached, subscribed, retryVars,
                 outVars, authVars, stop, calls, faults, crashes>>

StopRequested ==
  /\ ~stop /\ stop' = TRUE
  /\ UNCHANGED <<sessionVars, retryVars, outVars, authVars, calls, faults, crashes>>

\* The process dies (an update re-executes it, a kill, a power cut) and the
\* service manager starts it again: load_config reads auth.json.
Restart ==
  /\ crashes < MaxCrashes
  /\ crashes' = crashes + 1
  /\ rpc' = "head" /\ stop' = FALSE /\ ws' = FALSE /\ link' = "none"
  /\ handshake' = FALSE /\ clean' = FALSE
  /\ backoff' = 1 /\ pause' = 0 /\ failures' = 0 /\ status' = "connecting"
  /\ streak' = 0
  /\ attached' = FALSE /\ subscribed' = FALSE
  /\ calls' = [c \in Calls |-> "none"]
  /\ scheduled' = <<>>
  /\ mem' = disk
  /\ UNCHANGED <<disk, published, delivered, faults, saveErrors>>

-----------------------------------------------------------------------------
WsInit ==
  /\ rpc = "head" /\ stop = FALSE /\ ws = FALSE /\ link = "none"
  /\ handshake = FALSE /\ clean = FALSE
  /\ backoff = 1 /\ pause = 0 /\ failures = 0 /\ status = "connecting"
  /\ streak = 0
  /\ attached = FALSE /\ subscribed = FALSE
  /\ calls = [c \in Calls |-> "none"]
  /\ scheduled = <<>>
  /\ disk \in {"token", "secret"} /\ mem = disk
  /\ published = <<>> /\ delivered = <<>>
  /\ faults = 0 /\ saveErrors = 0 /\ crashes = 0

run ==
  \/ LoopHead \/ DialFails \/ DialSucceeds \/ HelloFails \/ HelloSent
  \/ ReceiveEnds \/ Detach \/ ClearSession \/ EndedCleanly \/ EndedByError
  \/ PauseEnds \/ save_auth \/ SaveFails

ReceiveFrame ==
  \/ HelloAck \/ HelloAckRotates
  \/ \E wanted \in BOOLEAN : StreamSubscription(wanted)
  \/ \E c \in Calls : CallArrives(c)

WsNext ==
  \/ run
  \/ ReceiveFrame
  \/ \E c \in Calls : CallAnswers(c)
  \/ \E f \in Frames : ThreadPublishes(f)
  \/ _send_safely
  \/ \E how \in Links : LinkEnds(how)
  \/ HeartbeatTimeout
  \/ StopRequested
  \/ Restart

WsSpec == WsInit /\ [][WsNext]_wsVars

\* The loop runs what is ready; every await of run() has a time limit (the open
\* timeout, the close timeout, the pause), the heartbeat task wakes every
\* HEARTBEAT_INTERVAL_S, and tools return.
WsFairness ==
  /\ WF_wsVars(run)
  /\ WF_wsVars(HeartbeatTimeout)
  /\ WF_wsVars(_send_safely)
  /\ \A c \in Calls : WF_wsVars(CallAnswers(c))

WsFairSpec == WsSpec /\ WsFairness

-----------------------------------------------------------------------------
\* Between two sessions, however the last one ended: nothing feeds the tunnel (the
\* capture loop is not subscribed, the log uploader keeps its records), /health
\* tells of the failures, and the pause doubles with every failure in a row, from
\* one second to the cap, and starts over after a session that had been acked or
\* that ended cleanly.
PauseIsSound ==
  /\ rpc \in {"head", "dialing", "ended", "sleeping", "stopped"} => ~subscribed /\ ~attached
  /\ status = "connected" => handshake /\ failures = 0
  /\ rpc = "sleeping" =>
       /\ status = "reconnecting" /\ failures >= streak
       /\ pause = MinOf(2 ^ (streak - 1), RECONNECT_BACKOFF_CAP_S)

\* A restart finds the credential the process was using, unless a save failed:
\* once hello_ack is handled the disk agrees with memory.
RestartKeepsCredential ==
  rpc # "saving" /\ saveErrors = 0 => disk = mem

\* The tunnel is a lossy channel: across sessions and restarts frames reach the
\* platform at most once each and in the order they were published, and a frame is
\* lost only at one of the places where the channel may lose it.
Channel == INSTANCE LossyChannel WITH
  Messages <- Frames, sent <- published, transit <- scheduled, received <- delivered

IsLossyChannel == Channel!ChannelSpec

\* A peer that fell silent without closing is noticed, whatever the session is
\* doing.
SilentLinkIsDropped == link = "silent" ~> link # "silent"

\* After the last fault the client gets back into a session, unless stopped.
Reconnects == []<>(rpc \in {"receiving", "saving", "stopped"})

\* README.md, Auth: "The client persists it and drops the enrollment token."
\* In a session past its hello_ack, auth.json holds the credential in use.
SecretIsPersisted == rpc = "receiving" /\ handshake => disk = mem
=============================================================================
