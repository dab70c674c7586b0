----------------------------- MODULE AgentBrief -----------------------------
(***************************************************************************)
(* agent_dev_brief (driver/tools/agent_brief.py): a call clones a template,*)
(* starts the code agent (aider) in it and returns; a watcher thread per   *)
(* call then starts the project and reports it.                            *)
(*                                                                         *)
(* A child that exited is a zombie until the daemon starts another process:*)
(* its Popen object is gone, and only the constructor of the next one polls*)
(* the abandoned ones.  _is_pid_alive (a signal 0) finds a zombie alive.   *)
(* Clocks count polls of a watcher.                                        *)
(***************************************************************************)
EXTENDS Naturals

CONSTANTS
  Calls,       \* calls of agent_dev_brief
  Projects,    \* slugs; calls for one slug share the workspace and the port
  Timeout,     \* polls until a watcher gives up
  Grace,       \* DEV_FALLBACK_GRACE_AFTER_OPENCODE_EXIT_SEC
  MinWall,     \* DEV_FALLBACK_MIN_WALL_CLOCK_SEC
  Tries,       \* polls of getMe
  NoCall       \* no workspace

ASSUME BriefAssumption ==
  /\ {Timeout, Grace, MinWall, Tries} \subseteq Nat \ {0}
  /\ NoCall \notin Calls

Never == Timeout + 1

VARIABLES
  bpc,               \* the place of each call
  project, kind, hasToken, secret,   \* its arguments; AF_INTERNAL_API_SECRET is set
  tree,              \* which call cloned the workspace of a project
  sealed,            \* calls whose bot token is in the .env they found
  aider,             \* the code agent of each call
  server,            \* the dev server or bot a watcher started for a call
  watcher, clock,    \* its place and the polls so far
  deadSince,         \* the poll that first found the agent dead
  fallback,          \* what became of the start of the dev server
  report,            \* the clone-status the platform took
  unheard,           \* calls whose one report was lost or never posted
  collided           \* history: projects with a call begun while another was at work

argVars   == <<project, kind, hasToken, secret>>
callVars  == <<bpc, tree, sealed, collided>>
watchVars == <<watcher, clock, deadSince, fallback, report, unheard>>
briefVars == <<argVars, callVars, aider, server, watchVars>>

-----------------------------------------------------------------------------
(* Processes.                                                              *)

Alive(c) == aider[c] \in {"running", "zombie"}

\* What the constructor of Popen does to the abandoned children.
Reaped == [c \in Calls |-> IF aider[c] = "zombie" THEN "reaped" ELSE aider[c]]

AiderExits(c) ==
  /\ aider[c] = "running" /\ aider' = [aider EXCEPT ![c] = "zombie"]
  /\ UNCHANGED <<argVars, callVars, server, watchVars>>

\* Some other tool of the daemon runs a command: agent_dev_brief_edit starts one more
\* agent in a workspace, and nothing but a log tailer waits for it.
OtherProcessStarts ==
  /\ \E c \in Calls : aider[c] = "zombie"
  /\ aider' = Reaped
  /\ UNCHANGED <<argVars, callVars, server, watchVars>>

ServerListens(c) ==
  /\ server[c] = "starting" /\ server' = [server EXCEPT ![c] = "up"]
  /\ UNCHANGED <<argVars, callVars, aider, watchVars>>

ServerExits(c) ==
  /\ server[c] \in {"starting", "up"} /\ server' = [server EXCEPT ![c] = "down"]
  /\ UNCHANGED <<argVars, callVars, aider, watchVars>>

Answers(p) == \E c \in Calls : project[c] = p /\ kind[c] = "web" /\ server[c] = "up"

-----------------------------------------------------------------------------
(* The call.                                                               *)

CallGoes(c, from, to) ==
  /\ bpc[c] = from /\ bpc' = [bpc EXCEPT ![c] = to]
  /\ UNCHANGED <<argVars, server, watchVars>>

Refuse(c, from) == CallGoes(c, from, "failed") /\ UNCHANGED <<tree, sealed, collided>>

\* A call is at work until it failed or its agent and its watcher are gone.
Busy(c) ==
  \/ bpc[c] \in {"clone", "strip", "runtimes", "configure", "spawn", "watch"}
  \/ aider[c] = "running" \/ watcher[c] \in {"poll", "wait", "getme"}

\* Arguments are checked; what an earlier call cloned is removed.
Prepare(c) ==
  /\ \/ Refuse(c, "idle")
     \/ /\ CallGoes(c, "idle", "clone")
        /\ tree' = [tree EXCEPT ![project[c]] = NoCall] /\ UNCHANGED sealed
        /\ collided' = collided \cup
             {project[d] : d \in {e \in Calls \ {c} : project[e] = project[c] /\ Busy(e)}}
  /\ UNCHANGED aider

\* git refuses a directory another call has filled in the meantime.
Clone(c) ==
  /\ \/ Refuse(c, "clone")
     \/ /\ CallGoes(c, "clone", "strip")
        /\ tree[project[c]] = NoCall
        /\ tree' = [tree EXCEPT ![project[c]] = c] /\ UNCHANGED <<sealed, collided>>
  /\ aider' = Reaped

StripHistory(c) ==
  /\ \/ Refuse(c, "strip")
     \/ CallGoes(c, "strip", "runtimes") /\ UNCHANGED <<tree, sealed, collided>>
  /\ UNCHANGED aider

\* resolve_runtimes may raise, and may or may not start processes.
ResolveRuntimes(c) ==
  /\ CallGoes(c, "runtimes", "configure")
  /\ aider' \in {aider, Reaped}
  /\ UNCHANGED <<tree, sealed, collided>>

\* package.json is patched for a web project, the token of a bot is written to
\* .env; an error of either is only logged.
Configure(c) ==
  /\ CallGoes(c, "configure", "spawn")
  /\ \/ /\ kind[c] = "tg_bot" /\ hasToken[c] /\ tree[project[c]] # NoCall
        /\ sealed' = sealed \cup {c}
     \/ UNCHANGED sealed
  /\ UNCHANGED <<tree, collided, aider>>

SpawnAider(c) ==
  \/ Refuse(c, "spawn") /\ aider' \in {aider, Reaped}
  \/ /\ CallGoes(c, "spawn", "watch")
     /\ tree[project[c]] # NoCall
     /\ aider' = [Reaped EXCEPT ![c] = "running"]
     /\ UNCHANGED <<tree, sealed, collided>>

\* The call returns; the watcher leaves at once without the secret.
StartWatcher(c) ==
  /\ bpc[c] = "watch" /\ bpc' = [bpc EXCEPT ![c] = "returned"]
  /\ watcher' = [watcher EXCEPT ![c] =
       IF ~secret THEN "done" ELSE IF kind[c] = "web" THEN "poll" ELSE "wait"]
  /\ UNCHANGED <<argVars, tree, sealed, collided, aider, server, clock, deadSince, fallback,
                 report, unheard>>

-----------------------------------------------------------------------------
(* _watch_and_report_clone_status, for a web project.                      *)

\* The one post of the outcome; when it is refused, fails or raises, nobody posts again.
Ends(c, outcome) ==
  /\ watcher' = [watcher EXCEPT ![c] = "done"]
  /\ \/ report' = [report EXCEPT ![c] = outcome] /\ UNCHANGED unheard
     \/ unheard' = unheard \cup {c} /\ UNCHANGED report
  /\ UNCHANGED <<argVars, callVars, deadSince, fallback>>

Sleeps(c) ==
  /\ clock' = [clock EXCEPT ![c] = @ + 1]
  /\ UNCHANGED <<argVars, callVars, watcher, report, unheard>>

Polls(c) == watcher[c] = "poll" /\ clock[c] < Timeout

\* An answer that is no HTTP raises out of the probe or of getMe, and the watcher's
\* thread is gone without a report.
ProbeRaises(c) ==
  /\ Polls(c) \/ (watcher[c] = "getme" /\ clock[c] < Tries)
  /\ watcher' = [watcher EXCEPT ![c] = "done"] /\ unheard' = unheard \cup {c}
  /\ UNCHANGED <<argVars, callVars, aider, server, clock, deadSince, fallback, report>>

PortAnswers(c) ==
  /\ Polls(c) /\ Answers(project[c])
  /\ Ends(c, "ok") /\ UNCHANGED <<aider, server, clock>>

GivesUp(c) ==
  /\ watcher[c] = "poll" /\ clock[c] >= Timeout
  /\ Ends(c, "failed") /\ UNCHANGED <<aider, server, clock>>

\* Mutant: the agent is not asked for.
FallbackByClock(c) == fallback[c] = "none" /\ clock[c] >= MinWall

FallbackDue(c) ==
  /\ fallback[c] = "none" /\ ~Alive(c) /\ deadSince[c] # Never
  /\ clock[c] - deadSince[c] >= Grace /\ clock[c] >= MinWall

PollsAgain(c) ==
  /\ Polls(c) /\ ~Answers(project[c]) /\ ~FallbackDue(c)
  /\ deadSince' = [deadSince EXCEPT ![c] =
       IF fallback[c] = "none" /\ ~Alive(c) /\ @ = Never THEN clock[c] ELSE @]
  /\ Sleeps(c) /\ UNCHANGED <<aider, server, fallback>>

\* Mutant: an exception of the start ends the watcher's thread.
FallbackRaises(c) ==
  /\ Polls(c) /\ ~Answers(project[c]) /\ FallbackDue(c)
  /\ watcher' = [watcher EXCEPT ![c] = "done"]
  /\ fallback' = [fallback EXCEPT ![c] = "failed"]
  /\ UNCHANGED <<argVars, callVars, aider, server, clock, deadSince, report, unheard>>

\* _spawn_dev_server: no directory or package.json, an install that fails, or a
\* process; the install alone may take until the deadline.
StartDevServer(c) ==
  /\ Polls(c) /\ ~Answers(project[c]) /\ FallbackDue(c)
  /\ \/ /\ fallback' = [fallback EXCEPT ![c] = "failed"]
        /\ aider' \in {aider, Reaped} /\ UNCHANGED server
     \/ /\ tree[project[c]] # NoCall
        /\ fallback' = [fallback EXCEPT ![c] = "ok"]
        /\ server' = [server EXCEPT ![c] = "starting"]
        /\ aider' = Reaped
  /\ clock' \in {[clock EXCEPT ![c] = n] : n \in {clock[c] + 1, Timeout}}
  /\ UNCHANGED <<argVars, callVars, watcher, deadSince, report, unheard>>

-----------------------------------------------------------------------------
(* _watch_and_launch_tg_bot.                                               *)

WaitsForAider(c) ==
  /\ watcher[c] = "wait" /\ clock[c] < Timeout /\ Alive(c)
  /\ Sleeps(c) /\ UNCHANGED <<aider, server, deadSince, fallback>>

\* The agent is gone or takes too long.
LaunchBot(c) ==
  /\ watcher[c] = "wait" /\ (clock[c] >= Timeout \/ ~Alive(c))
  /\ \/ Ends(c, "failed") /\ UNCHANGED <<aider, server, clock>>
     \/ /\ hasToken[c] /\ tree[project[c]] # NoCall
        /\ server' = [server EXCEPT ![c] = "up"] /\ aider' = Reaped
        /\ watcher' = [watcher EXCEPT ![c] = "getme"]
        /\ clock' = [clock EXCEPT ![c] = 0]
        /\ UNCHANGED <<argVars, callVars, deadSince, fallback, report, unheard>>

\* Telegram knows the token, whether the bot runs or not.
GetMe(c) ==
  /\ watcher[c] = "getme"
  /\ \/ clock[c] < Tries /\ Ends(c, "ok") /\ UNCHANGED <<aider, server, clock>>
     \/ /\ clock[c] < Tries
        /\ Sleeps(c) /\ UNCHANGED <<aider, server, deadSince, fallback>>
     \/ clock[c] >= Tries /\ Ends(c, "failed") /\ UNCHANGED <<aider, server, clock>>

-----------------------------------------------------------------------------
BriefInit ==
  /\ bpc = [c \in Calls |-> "idle"]
  /\ project \in [Calls -> Projects] /\ kind \in [Calls -> {"web", "tg_bot"}]
  /\ hasToken \in [Calls -> BOOLEAN] /\ secret \in BOOLEAN
  /\ \A c \in Calls : kind[c] = "web" => ~hasToken[c]
  /\ \A c, d \in Calls : project[c] = project[d] => kind[c] = kind[d]
  /\ tree = [p \in Projects |-> NoCall] /\ sealed = {}
  /\ aider = [c \in Calls |-> "none"] /\ server = [c \in Calls |-> "none"]
  /\ watcher = [c \in Calls |-> "off"] /\ clock = [c \in Calls |-> 0]
  /\ deadSince = [c \in Calls |-> Never] /\ fallback = [c \in Calls |-> "none"]
  /\ report = [c \in Calls |-> "none"] /\ unheard = {} /\ collided = {}

agent_dev_brief(c) ==
  \/ Prepare(c) \/ Clone(c) \/ StripHistory(c) \/ ResolveRuntimes(c)
  \/ Configure(c) \/ SpawnAider(c) \/ StartWatcher(c)

BriefWatcher(c) ==
  \/ ProbeRaises(c) \/ PortAnswers(c) \/ GivesUp(c) \/ PollsAgain(c) \/ StartDevServer(c)
  \/ WaitsForAider(c) \/ LaunchBot(c) \/ GetMe(c)

BriefNext ==
  \/ OtherProcessStarts
  \/ \E c \in Calls :
       agent_dev_brief(c) \/ BriefWatcher(c)
       \/ AiderExits(c) \/ ServerListens(c) \/ ServerExits(c)

BriefSpec == BriefInit /\ [][BriefNext]_briefVars

\* What is fair: the watcher threads are scheduled, every wait of theirs has a limit.
BriefStep(c) == StartWatcher(c) \/ BriefWatcher(c)

-----------------------------------------------------------------------------
\* A watcher starts one dev server at most, its own agent having ended, and no agent of
\* another call for the project runs either unless calls for it overlapped; the agents of
\* agent_dev_brief_edit are known to nobody.  (An agent that ended is still taken for
\* alive while it is a zombie: then no server is started and the watcher gives up.)
ServerAfterAgent ==
  [][\A c \in Calls : server'[c] = "starting" /\ server[c] # "starting" =>
       /\ aider[c] \in {"zombie", "reaped"} /\ server[c] = "none"
       /\ project[c] \notin collided =>
            \A d \in Calls : project[d] = project[c] => aider[d] # "running"]_briefVars

\* Every watcher comes to its report, well or not, whatever the agent, the server and
\* the workspace do meanwhile, unless a probe raised; the one post may be lost.
LaunchIsReported ==
  \A c \in Calls : bpc[c] = "returned" /\ secret ~> report[c] # "none" \/ c \in unheard
=============================================================================
