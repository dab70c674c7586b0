---------------------------- MODULE ProjectSetup ----------------------------
(***************************************************************************)
(* driver/tools/project_setup.py: project_clone_and_setup.  Each call runs *)
(* in a thread of its own, so that calls overlap, two of one slug too when *)
(* the platform dispatches it again.  Dev servers outlive their calls; all *)
(* of them want the same port.                                             *)
(***************************************************************************)
EXTENDS Naturals

CONSTANTS
  Setups,      \* calls of project_clone_and_setup
  Slugs,       \* their projects: a slug names the directory proj-<slug>
  Deadline,    \* polls of the port before the call gives up
  NoSetup      \* no call

ASSUME SetupAssumption == Deadline \in Nat \ {0} /\ NoSetup \notin Setups

VARIABLES
  slug,        \* of each call
  place,       \* where each call is
  checkout,    \* which call's clone a slug's directory holds
  upstream,    \* slugs whose directory still has the template's .git
  installed,   \* slugs whose directory has its dependencies
  dev,         \* the dev server of each call: "none", "starting", "listening", "dead"
  pidFile,     \* the last call that started one
  polls,
  outcome,     \* of each call: "none", "ok", "unreachable", "error"
  told,        \* the last outcome the platform heard for a slug
  \* History:
  cameUp,      \* calls whose dev server has had the port
  built,       \* the checkout, its history gone and its dependencies there,
               \* that the dev server of a call was started in
  crowded      \* calls that overlapped another of their slug, or waited for
               \* the port while a dev server that is not their own was alive

dirVars   == <<checkout, upstream, installed>>
devVars   == <<dev, pidFile, cameUp, built>>
setupVars == <<slug, place, dirVars, devVars, polls, outcome, told, crowded>>

Active == {c \in Setups : place[c] \notin {"idle", "done"}}
DevAlive(c) == dev[c] \in {"starting", "listening"}

Advances(c, from, to) ==
  /\ place[c] = from /\ place' = [place EXCEPT ![c] = to]
  /\ UNCHANGED <<slug, polls, outcome, told, crowded>>

\* A command failed, timed out or could not be started; nothing is reported.
SetupFails(c) ==
  /\ place[c] \in {"remove", "clone", "strip", "init", "install", "spawn"}
  /\ place' = [place EXCEPT ![c] = "done"] /\ outcome' = [outcome EXCEPT ![c] = "error"]
  /\ UNCHANGED <<slug, dirVars, devVars, polls, told, crowded>>

-----------------------------------------------------------------------------
SetupBegins(c) ==
  /\ place[c] = "idle" /\ place' = [place EXCEPT ![c] = "remove"]
  /\ crowded' = crowded \cup
       {d \in Active \cup {c} : \E b \in (Active \cup {c}) \ {d} : slug[b] = slug[d] /\ c \in {b, d}}
  /\ UNCHANGED <<slug, dirVars, devVars, polls, outcome, told>>

\* A dev server that runs in the directory goes on running.
RemoveOld(c) ==
  /\ Advances(c, "remove", "clone")
  /\ checkout' = [checkout EXCEPT ![slug[c]] = NoSetup]
  /\ upstream' = upstream \ {slug[c]} /\ installed' = installed \ {slug[c]}
  /\ UNCHANGED devVars

\* git refuses a directory that is there.
CloneTemplate(c) ==
  /\ Advances(c, "clone", "strip") /\ checkout[slug[c]] = NoSetup
  /\ checkout' = [checkout EXCEPT ![slug[c]] = c] /\ upstream' = upstream \cup {slug[c]}
  /\ UNCHANGED <<installed, devVars>>

\* Mutant: git init keeps the repository that is there.
KeepsHistory(c) == Advances(c, "strip", "init") /\ UNCHANGED <<dirVars, devVars>>

DropHistory(c) ==
  /\ Advances(c, "strip", "init") /\ upstream' = upstream \ {slug[c]}
  /\ UNCHANGED <<checkout, installed, devVars>>

\* git init, add and commit, in whatever directory has the name now.
GitInit(c) ==
  /\ Advances(c, "init", "install") /\ checkout[slug[c]] # NoSetup
  /\ UNCHANGED <<dirVars, devVars>>

Install(c) ==
  /\ Advances(c, "install", "spawn") /\ checkout[slug[c]] # NoSetup
  /\ installed' = installed \cup {slug[c]} /\ UNCHANGED <<checkout, upstream, devVars>>

OthersAlive(c) == \E d \in Setups \ {c} : DevAlive(d)

SpawnDev(c) ==
  /\ place[c] = "spawn" /\ place' = [place EXCEPT ![c] = "wait"] /\ checkout[slug[c]] # NoSetup
  /\ dev' = [dev EXCEPT ![c] = "starting"] /\ pidFile' = c /\ UNCHANGED cameUp
  /\ built' = [built EXCEPT ![c] =
       IF slug[c] \in installed \ upstream THEN checkout[slug[c]] ELSE NoSetup]
  /\ crowded' = crowded \cup (IF OthersAlive(c) THEN {c} ELSE {})
                        \cup {d \in Setups : place[d] = "wait"}
  /\ UNCHANGED <<slug, dirVars, polls, outcome, told>>

-----------------------------------------------------------------------------
(* The dev servers.  Only one can have the port.                           *)

PortTaken == \E d \in Setups : dev[d] = "listening"

DevListens(c) ==
  /\ dev[c] = "starting" /\ ~PortTaken /\ dev' = [dev EXCEPT ![c] = "listening"]
  /\ cameUp' = cameUp \cup {c}
  /\ UNCHANGED <<slug, place, dirVars, pidFile, built, polls, outcome, told, crowded>>

\* The port is taken, the directory was removed, the project does not build.
DevDies(c) ==
  /\ DevAlive(c) /\ dev' = [dev EXCEPT ![c] = "dead"]
  /\ UNCHANGED <<slug, place, dirVars, pidFile, cameUp, built, polls, outcome, told, crowded>>

-----------------------------------------------------------------------------
(* The call waits for the port and reports.                                *)

WaitOver(c, o) ==
  /\ place[c] = "wait" /\ place' = [place EXCEPT ![c] = "report"]
  /\ outcome' = [outcome EXCEPT ![c] = o]
  /\ UNCHANGED <<slug, dirVars, devVars, polls, told, crowded>>

\* Mutant: a started server is enough.
SpawnSuffices(c) == WaitOver(c, "ok")

Reachable(c) == PortTaken /\ WaitOver(c, "ok")

PollsPort(c) ==
  /\ place[c] = "wait" /\ polls[c] < Deadline /\ ~PortTaken
  /\ polls' = [polls EXCEPT ![c] = @ + 1]
  /\ UNCHANGED <<slug, place, dirVars, devVars, outcome, told, crowded>>

Unreachable(c) == polls[c] = Deadline /\ WaitOver(c, "unreachable")

\* Best effort, once.
ReportSetup(c) ==
  /\ place[c] = "report" /\ place' = [place EXCEPT ![c] = "done"]
  /\ \/ told' = [told EXCEPT ![slug[c]] = outcome[c]]
     \/ UNCHANGED told
  /\ UNCHANGED <<slug, dirVars, devVars, polls, outcome, crowded>>

-----------------------------------------------------------------------------
SetupStep(c) ==
  \/ SetupBegins(c) \/ RemoveOld(c) \/ CloneTemplate(c) \/ DropHistory(c) \/ GitInit(c)
  \/ Install(c) \/ SpawnDev(c) \/ SetupFails(c)
  \/ Reachable(c) \/ PollsPort(c) \/ Unreachable(c) \/ ReportSetup(c)

SetupInit ==
  /\ slug \in [Setups -> Slugs] /\ place = [c \in Setups |-> "idle"]
  /\ checkout = [s \in Slugs |-> NoSetup] /\ upstream = {} /\ installed = {}
  /\ dev = [c \in Setups |-> "none"] /\ pidFile = NoSetup
  /\ cameUp = {} /\ built = [c \in Setups |-> NoSetup]
  /\ polls = [c \in Setups |-> 0] /\ outcome = [c \in Setups |-> "none"]
  /\ told = [s \in Slugs |-> "none"] /\ crowded = {}

SetupNext == \E c \in Setups : SetupStep(c) \/ DevListens(c) \/ DevDies(c)

SetupSpec == SetupInit /\ [][SetupNext]_setupVars

-----------------------------------------------------------------------------
(* Properties.                                                             *)

\* What a call reports is about its own work: unless it overlapped another call
\* of its slug or another dev server was alive, a call that got as far as the
\* port started its server in its own clone, installed and without the template's
\* history, and answers ok only if that server came up.
SetupIsOwn ==
  \A c \in Setups \ crowded :
    /\ outcome[c] \in {"ok", "unreachable"} => built[c] = c
    /\ outcome[c] = "ok" => c \in cameUp

\* project_clone_and_setup promises that "port_reachable is True only when the
\* dev server replied" (driver/tools/project_setup.py:303-304), the one it started.
OwnServerReplied ==
  \A c \in Setups : outcome[c] = "ok" => c \in cameUp
=============================================================================
