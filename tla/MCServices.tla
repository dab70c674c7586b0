----------------------------- MODULE MCServices -----------------------------
(* Instances of the services with threads of their own for TLC, side by side: a
   behaviour runs one of them while the others rest in an initial state, so that
   their state spaces add up.  *)
EXTENDS AgentBrief, AgentLog, PreviewHeartbeat, ScreenRecorder, Agents

CONSTANT Parts

VARIABLE part

sVars == <<part, briefVars, logVars, beatVars, recVars, agentVars>>

\* Tailers share nothing but the file, and sessions are alike: one of them is read.
OneTails ==
  \A t \in Sessions \ {CHOOSE s \in Sessions : TRUE} : tailer[t] \in {"off", "done"}

Brief(A)    == part = "brief" /\ A /\ UNCHANGED <<part, logVars, beatVars, recVars, agentVars>>
Log(A)      == part = "log" /\ A /\ OneTails' /\ UNCHANGED <<part, briefVars, beatVars, recVars, agentVars>>
Beat(A)     == part = "beat" /\ A /\ UNCHANGED <<part, briefVars, logVars, recVars, agentVars>>
Recorder(A) == part = "recorder" /\ A /\ UNCHANGED <<part, briefVars, logVars, beatVars, agentVars>>
Router(A)   == part = "router" /\ A /\ UNCHANGED <<part, briefVars, logVars, beatVars, recVars>>

SInit ==
  /\ part \in Parts
  /\ BriefInit /\ AgentLogInit /\ BeatInit /\ RecorderInit /\ AgentsInit
  /\ part # "brief" =>
       secret /\ \A c \in Calls : kind[c] = "web" /\ project[c] = CHOOSE p \in Projects : TRUE
  /\ part # "beat" => up
  /\ part # "router" => made = 1

SNext ==
  Brief(BriefNext) \/ Log(AgentLogNext) \/ Beat(BeatNext) \/ Recorder(RecorderNext) \/ Router(AgentsNext)

SSpec ==
  /\ SInit /\ [][SNext]_sVars
  /\ \A c \in Calls : WF_sVars(Brief(BriefStep(c)))
  /\ \A r \in Recordings :
       WF_sVars(Recorder(WorkerStep(r))) /\ WF_sVars(Recorder(TimePasses(r)))
  /\ \A s \in Stops : WF_sVars(Recorder(StopStep(s)))
  /\ \A o \in Objects : WF_sVars(Router(Consume(o)))
=============================================================================
