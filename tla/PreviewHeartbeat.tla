-------------------------- MODULE PreviewHeartbeat --------------------------
(***************************************************************************)
(* _heartbeat_preview_loop and _post_heartbeat (driver/tools/agent_brief.py)*)
(* The thread probes the dev server every 30 s and tells the platform.     *)
(***************************************************************************)
EXTENDS Naturals

CONSTANTS
  Misses,       \* consecutive_misses_before_dead
  MaxOutages,   \* bound: times the server stops answering
  MaxLostBeats  \* bound: heartbeats lost on the way

ASSUME HeartbeatAssumption ==
  Misses \in Nat \ {0} /\ MaxOutages \in Nat /\ MaxLostBeats \in Nat

VARIABLES
  up,             \* the dev server answers
  misses,         \* consecutive_misses
  dead_reported,
  told,           \* what the platform heard last: "nothing", "alive", "dead"
  \* History:
  outages, lostBeats,
  missed,         \* probes missed since the last hit, up to the threshold
  deadPosts       \* alive=false posted since then

beatVars == <<up, misses, dead_reported, told, outages, lostBeats, missed, deadPosts>>

\* A post that fails is logged and forgotten.
Post(what) ==
  \/ told' = what /\ UNCHANGED lostBeats
  \/ lostBeats < MaxLostBeats /\ lostBeats' = lostBeats + 1 /\ UNCHANGED told

ServerStops ==
  /\ up /\ outages < MaxOutages /\ up' = FALSE /\ outages' = outages + 1
  /\ UNCHANGED <<misses, dead_reported, told, lostBeats, missed, deadPosts>>

ServerRecovers ==
  /\ ~up /\ up' = TRUE
  /\ UNCHANGED <<misses, dead_reported, told, outages, lostBeats, missed, deadPosts>>

\* Mutant: the counter is not reset.
HitKeepsMisses ==
  /\ up /\ dead_reported' = FALSE /\ missed' = 0 /\ deadPosts' = 0
  /\ Post("alive") /\ UNCHANGED <<up, misses, outages>>

ProbeHits ==
  /\ up /\ misses' = 0 /\ dead_reported' = FALSE /\ missed' = 0 /\ deadPosts' = 0
  /\ Post("alive") /\ UNCHANGED <<up, outages>>

\* misses is only compared with the threshold, so it stops counting there.
Count(n) == IF n < Misses THEN n + 1 ELSE n

ProbeMisses ==
  /\ ~up /\ misses' = Count(misses) /\ missed' = Count(missed)
  /\ IF misses' >= Misses /\ ~dead_reported
     THEN Post("dead") /\ dead_reported' = TRUE /\ deadPosts' = deadPosts + 1
     ELSE UNCHANGED <<told, lostBeats, dead_reported, deadPosts>>
  /\ UNCHANGED <<up, outages>>

BeatInit ==
  /\ up \in BOOLEAN /\ misses = 0 /\ dead_reported = FALSE /\ told = "nothing"
  /\ outages = 0 /\ lostBeats = 0 /\ missed = 0 /\ deadPosts = 0

BeatNext == ServerStops \/ ServerRecovers \/ ProbeHits \/ ProbeMisses

BeatSpec == BeatInit /\ [][BeatNext]_beatVars

-----------------------------------------------------------------------------
\* "POST alive=false exactly once per outage": no platform hears of an outage twice,
\* or of one shorter than the threshold, however outages follow each other.
OneDeadPostPerOutage ==
  /\ deadPosts <= 1
  /\ dead_reported => missed >= Misses
=============================================================================
