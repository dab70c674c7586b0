----------------------------- MODULE HostProofs -----------------------------
(***************************************************************************)
(* Theorems about what is set up on the host, for any calls, slugs,        *)
(* workspaces, versions and bounds: of ProjectSetup, what an uncrowded     *)
(* call reports is about its own clone and its own dev server; of          *)
(* Runtimes, when the toolchains a run reported ready stay so; of          *)
(* AutoUpdater, what the installed binary is, whatever fails or stops      *)
(* while it is replaced.                                                   *)
(***************************************************************************)
EXTENDS ProjectSetup, Runtimes, AutoUpdater, TLAPS

-----------------------------------------------------------------------------
(* ProjectSetup.                                                           *)

Places == {"idle", "remove", "clone", "strip", "init", "install", "spawn", "wait", "report", "done"}

\* The calls, the directories and the servers.
SetupShape ==
  /\ slug \in [Setups -> Slugs] /\ place \in [Setups -> Places]
  /\ checkout \in [Slugs -> Setups \cup {NoSetup}]
  /\ dev \in [Setups -> {"none", "starting", "listening", "dead"}]
  /\ built \in [Setups -> Setups \cup {NoSetup}]
  /\ outcome \in [Setups -> {"none", "ok", "unreachable", "error"}]
  /\ polls \in [Setups -> Nat]

\* Two calls of one slug that are under way know of each other.
Meet ==
  \A c, d \in Active : c # d /\ slug[c] = slug[d] => c \in crowded

\* What an uncrowded call has done so far is still there.
Progress(c) ==
  /\ place[c] \in {"strip", "init", "install", "spawn"} => checkout[slug[c]] = c
  /\ place[c] \in {"init", "install", "spawn"} => slug[c] \notin upstream
  /\ place[c] = "spawn" => slug[c] \in installed
  /\ place[c] \in {"wait", "report"} => built[c] = c
  /\ place[c] = "wait" => \A d \in Setups \ {c} : ~DevAlive(d)

\* A call answers when it has waited.
Answers(c) ==
  /\ outcome[c] \in {"ok", "unreachable"} => place[c] \in {"report", "done"} /\ built[c] = c
  /\ outcome[c] = "ok" => c \in cameUp

\* A server that listens was seen to come up.
ListenersCameUp == \A c \in Setups : dev[c] = "listening" => c \in cameUp

\* The inductive invariant of overlapping set-ups.
SetupInv ==
  /\ SetupShape /\ Meet /\ ListenersCameUp
  /\ \A c \in Setups \ crowded : Progress(c) /\ Answers(c)

\* No call has begun.
LEMMA SetupInvInitial == SetupInit => SetupInv
BY DEF SetupInit, SetupInv, SetupShape, Places, Meet, Active, ListenersCameUp, Progress, Answers

-----------------------------------------------------------------------------
\* A call under way whose slug another call under way shares is crowded.
LEMMA UncrowdedIsAlone ==
  ASSUME SetupInv, NEW c \in Setups \ crowded, NEW d \in Setups \ {c},
         place[c] \notin {"idle", "done"}, place[d] \notin {"idle", "done"}
  PROVE  slug[d] # slug[c]
BY DEF SetupInv, Meet, Active

\* The steps of a call up to the port: they touch the directory of its slug only.
Working(c) ==
  RemoveOld(c) \/ CloneTemplate(c) \/ DropHistory(c) \/ GitInit(c) \/ Install(c)

\* A working call moves itself and its slug only.
LEMMA WorkFrame ==
  ASSUME SetupInv, NEW c \in Setups, Working(c)
  PROVE  /\ SetupShape' /\ place[c] \notin {"idle", "done", "wait", "report"}
         /\ place'[c] \notin {"idle", "done", "wait", "report"}
         /\ \A d \in Setups \ {c} : place'[d] = place[d]
         /\ \A s \in Slugs \ {slug[c]} :
              /\ checkout'[s] = checkout[s]
              /\ s \in upstream' <=> s \in upstream
              /\ s \in installed' <=> s \in installed
         /\ UNCHANGED <<slug, devVars, polls, outcome, crowded>>
<1> USE DEF SetupInv, SetupShape, Places, Advances, devVars
<1>1. CASE RemoveOld(c)
  BY <1>1 DEF RemoveOld
<1>2. CASE CloneTemplate(c)
  BY <1>2 DEF CloneTemplate
<1>3. CASE DropHistory(c)
  BY <1>3 DEF DropHistory
<1>4. CASE GitInit(c)
  BY <1>4 DEF GitInit, dirVars
<1>5. CASE Install(c)
  BY <1>5 DEF Install
<1>6. QED
  BY <1>1, <1>2, <1>3, <1>4, <1>5 DEF Working

\* The call itself goes from one thing done to the next.
LEMMA WorkProgresses ==
  ASSUME SetupInv, NEW c \in Setups \ crowded, Working(c)
  PROVE  Progress(c)'
<1> USE DEF SetupInv, SetupShape, Advances, Progress
<1>1. CASE RemoveOld(c)
  BY <1>1 DEF RemoveOld
<1>2. CASE CloneTemplate(c)
  BY <1>2 DEF CloneTemplate
<1>3. CASE DropHistory(c)
  BY <1>3 DEF DropHistory
<1>4. CASE GitInit(c)
  BY <1>4 DEF GitInit, dirVars
<1>5. CASE Install(c)
  BY <1>5 DEF Install
<1>6. QED
  BY <1>1, <1>2, <1>3, <1>4, <1>5 DEF Working

\* A working call finds the directory as its stage before left it.
LEMMA WorkKeepsInv ==
  ASSUME SetupInv, NEW c \in Setups, Working(c)
  PROVE  SetupInv'
<1>1. /\ SetupShape' /\ place[c] \notin {"idle", "done", "wait", "report"}
      /\ place'[c] \notin {"idle", "done", "wait", "report"}
      /\ \A d \in Setups \ {c} : place'[d] = place[d]
      /\ \A s \in Slugs \ {slug[c]} :
           /\ checkout'[s] = checkout[s]
           /\ s \in upstream' <=> s \in upstream
           /\ s \in installed' <=> s \in installed
      /\ UNCHANGED <<slug, devVars, polls, outcome, crowded>>
  BY WorkFrame
<1>2. Meet'
  BY <1>1 DEF SetupInv, Meet, Active
<1>3. ListenersCameUp'
  BY <1>1 DEF SetupInv, ListenersCameUp, devVars
<1>4. ASSUME NEW d \in Setups \ crowded'
      PROVE  Progress(d)' /\ Answers(d)'
  <2>1. CASE d = c
    <3>1. Progress(c)'
      BY <1>1, <1>4, <2>1, WorkProgresses
    <3>2. Answers(c)'
      BY <1>1, <1>4, <2>1 DEF SetupInv, SetupShape, Answers, devVars
    <3>3. QED
      BY <2>1, <3>1, <3>2
  <2>2. CASE d # c
    <3>1. place[d] \notin {"idle", "done"} => slug[d] # slug[c] /\ slug[d] \in Slugs
      BY <1>1, <1>4, <2>2, UncrowdedIsAlone DEF SetupInv, SetupShape
    <3>2. Progress(d) /\ Answers(d) /\ slug'[d] = slug[d] /\ place'[d] = place[d]
      BY <1>1, <1>4, <2>2 DEF SetupInv
    <3>3. Progress(d)'
      BY <1>1, <3>1, <3>2 DEF Progress, DevAlive, devVars
    <3>4. Answers(d)'
      BY <1>1, <3>2 DEF Answers, devVars
    <3>5. QED
      BY <3>3, <3>4
  <2>3. QED
    BY <2>1, <2>2
<1>5. QED
  BY <1>1, <1>2, <1>3, <1>4 DEF SetupInv

-----------------------------------------------------------------------------
\* A call begins: whoever it meets is crowded from here on.
LEMMA BeginKeepsInv ==
  ASSUME SetupInv, NEW c \in Setups, SetupBegins(c)
  PROVE  SetupInv'
<1>1. /\ place[c] = "idle" /\ place' = [place EXCEPT ![c] = "remove"]
      /\ crowded \subseteq crowded'
      /\ UNCHANGED <<slug, dirVars, devVars, polls, outcome>>
  BY DEF SetupBegins
<1>2. place'[c] = "remove" /\ \A d \in Setups \ {c} : place'[d] = place[d]
  BY <1>1 DEF SetupInv, SetupShape
<1>3. SetupShape'
  BY <1>1 DEF SetupInv, SetupShape, Places, dirVars, devVars
<1>4. Meet'
  <2>1. Active' = Active \cup {c}
    BY <1>2 DEF Active
  <2>2. \A d, b \in Active \cup {c} : d # b /\ slug[b] = slug[d] /\ c \in {b, d} => d \in crowded'
    BY DEF SetupBegins
  <2>3. QED
    BY <1>1, <2>1, <2>2 DEF SetupInv, Meet
<1>5. ListenersCameUp'
  BY <1>1 DEF SetupInv, ListenersCameUp, devVars
<1>6. \A d \in Setups \ crowded' : Progress(d)' /\ Answers(d)'
  BY <1>1, <1>2 DEF SetupInv, SetupShape, Progress, Answers, DevAlive, dirVars, devVars
<1>7. QED
  BY <1>3, <1>4, <1>5, <1>6 DEF SetupInv

\* A dev server starts: it makes every waiting call crowded, and its own if another lives.
LEMMA SpawnKeepsInv ==
  ASSUME SetupInv, NEW c \in Setups, SpawnDev(c)
  PROVE  SetupInv'
<1>1. /\ place[c] = "spawn" /\ place' = [place EXCEPT ![c] = "wait"]
      /\ dev' = [dev EXCEPT ![c] = "starting"]
      /\ crowded \subseteq crowded' /\ UNCHANGED <<slug, dirVars, cameUp, polls, outcome>>
      /\ \A d \in Setups : place[d] = "wait" => d \in crowded'
      /\ c \notin crowded' => ~OthersAlive(c)
  BY DEF SpawnDev
<1>2. place'[c] = "wait" /\ \A d \in Setups \ {c} : place'[d] = place[d] /\ dev'[d] = dev[d]
  BY <1>1 DEF SetupInv, SetupShape
<1>3. /\ built' \in [Setups -> Setups \cup {NoSetup}]
      /\ \A d \in Setups \ {c} : built'[d] = built[d]
      /\ slug[c] \in installed \ upstream => built'[c] = checkout[slug[c]]
  BY DEF SpawnDev, SetupInv, SetupShape
<1>4. SetupShape'
  BY <1>1, <1>3 DEF SetupInv, SetupShape, Places, dirVars
<1>5. Meet'
  BY <1>1, <1>2 DEF SetupInv, Meet, Active
<1>6. ListenersCameUp'
  BY <1>1 DEF SetupInv, SetupShape, ListenersCameUp
<1>7. ASSUME NEW d \in Setups \ crowded'
      PROVE  Progress(d)' /\ Answers(d)'
  <2>1. Progress(d) /\ Answers(d)
    BY <1>1, <1>7 DEF SetupInv
  <2>2. CASE d = c
    <3>1. built'[c] = c
      BY <1>1, <1>3, <2>1, <2>2 DEF Progress
    <3>2. \A e \in Setups \ {c} : ~DevAlive(e)'
      BY <1>1, <1>2, <1>7, <2>2 DEF OthersAlive, DevAlive
    <3>3. Progress(c)'
      BY <1>2, <3>1, <3>2 DEF Progress
    <3>4. Answers(c)'
      BY <1>1, <2>1, <2>2 DEF Answers
    <3>5. QED
      BY <2>2, <3>3, <3>4
  <2>3. CASE d # c
    <3>1. place'[d] = place[d] /\ place[d] # "wait" /\ built'[d] = built[d]
      BY <1>1, <1>2, <1>3, <1>7, <2>3
    <3>2. QED
      BY <1>1, <2>1, <3>1 DEF Progress, Answers, dirVars
  <2>4. QED
    BY <2>2, <2>3
<1>8. QED
  BY <1>4, <1>5, <1>6, <1>7 DEF SetupInv

\* The port came up or the call fails without it: an uncrowded call that sees the port
\* taken sees its own server.
LEMMA WaitOverKeepsInv ==
  ASSUME SetupInv, NEW c \in Setups, Reachable(c) \/ Unreachable(c)
  PROVE  SetupInv'
<1>1. PICK o \in {"ok", "unreachable"} :
        /\ place[c] = "wait" /\ place' = [place EXCEPT ![c] = "report"]
        /\ outcome' = [outcome EXCEPT ![c] = o]
        /\ UNCHANGED <<slug, dirVars, devVars, polls, crowded>>
        /\ o = "ok" => PortTaken
  BY DEF Reachable, Unreachable, WaitOver
<1>2. /\ place'[c] = "report" /\ outcome'[c] = o
      /\ \A d \in Setups \ {c} : place'[d] = place[d] /\ outcome'[d] = outcome[d]
  BY <1>1 DEF SetupInv, SetupShape
<1>3. SetupShape'
  BY <1>1 DEF SetupInv, SetupShape, Places, dirVars, devVars
<1>4. Meet'
  BY <1>1, <1>2 DEF SetupInv, Meet, Active
<1>5. ListenersCameUp'
  BY <1>1 DEF SetupInv, ListenersCameUp, devVars
<1>6. ASSUME NEW d \in Setups \ crowded'
      PROVE  Progress(d)' /\ Answers(d)'
  <2>1. Progress(d) /\ Answers(d)
    BY <1>1, <1>6 DEF SetupInv
  <2>2. CASE d = c
    <3>1. o = "ok" => c \in cameUp
      BY <1>1, <2>1, <2>2 DEF SetupInv, ListenersCameUp, PortTaken, Progress, DevAlive
    <3>2. QED
      BY <1>1, <1>2, <2>1, <2>2, <3>1 DEF Progress, Answers, devVars
  <2>3. CASE d # c
    BY <1>1, <1>2, <2>1, <2>3 DEF Progress, Answers, DevAlive, dirVars, devVars
  <2>4. QED
    BY <2>2, <2>3
<1>7. QED
  BY <1>3, <1>4, <1>5, <1>6 DEF SetupInv

\* A call ends, or polls once more.
LEMMA EndKeepsInv ==
  ASSUME SetupInv, NEW c \in Setups, SetupFails(c) \/ PollsPort(c) \/ ReportSetup(c)
  PROVE  SetupInv'
<1>1. PICK to \in {"wait", "done"} :
        /\ place[c] \notin {"idle", "done"} /\ place' = [place EXCEPT ![c] = to]
        /\ to = "wait" => place[c] = "wait"
        /\ UNCHANGED <<slug, dirVars, devVars, crowded>>
        /\ \/ outcome' = [outcome EXCEPT ![c] = "error"]
           \/ UNCHANGED outcome /\ (to = "done" => place[c] = "report")
  <2>1. CASE SetupFails(c)
    BY <2>1 DEF SetupFails
  <2>2. CASE PollsPort(c)
    BY <2>2 DEF PollsPort, SetupInv, SetupShape
  <2>3. CASE ReportSetup(c)
    BY <2>3 DEF ReportSetup
  <2>4. QED
    BY <2>1, <2>2, <2>3
<1>2. place'[c] = to /\ \A d \in Setups \ {c} : place'[d] = place[d] /\ outcome'[d] = outcome[d]
  BY <1>1 DEF SetupInv, SetupShape
<1>3. polls' \in [Setups -> Nat]
  BY DEF SetupFails, PollsPort, ReportSetup, SetupInv, SetupShape
<1>4. SetupShape'
  BY <1>1, <1>3 DEF SetupInv, SetupShape, Places, dirVars, devVars
<1>5. Meet'
  BY <1>1, <1>2 DEF SetupInv, Meet, Active
<1>6. ListenersCameUp'
  BY <1>1 DEF SetupInv, ListenersCameUp, devVars
<1>7. ASSUME NEW d \in Setups \ crowded'
      PROVE  Progress(d)' /\ Answers(d)'
  <2>1. Progress(d) /\ Answers(d)
    BY <1>1, <1>7 DEF SetupInv
  <2>2. Progress(d)'
    BY <1>1, <1>2, <2>1 DEF Progress, DevAlive, dirVars, devVars
  <2>3. outcome'[d] \in {"ok", "unreachable"} => outcome'[d] = outcome[d]
    BY <1>1, <1>2 DEF SetupInv, SetupShape
  <2>4. place[d] \in {"report", "done"} => place'[d] \in {"report", "done"}
    BY <1>1, <1>2
  <2>5. Answers(d)'
    BY <1>1, <2>1, <2>3, <2>4 DEF Answers, devVars
  <2>6. QED
    BY <2>2, <2>5
<1>8. QED
  BY <1>4, <1>5, <1>6, <1>7 DEF SetupInv

\* A dev server gets the port or dies: nothing else begins to live.
LEMMA ServerKeepsInv ==
  ASSUME SetupInv, NEW c \in Setups, DevListens(c) \/ DevDies(c)
  PROVE  SetupInv'
<1>1. /\ DevAlive(c) /\ cameUp \subseteq cameUp' /\ (dev'[c] = "listening" => c \in cameUp')
      /\ dev' \in [Setups -> {"none", "starting", "listening", "dead"}]
      /\ \A d \in Setups \ {c} : dev'[d] = dev[d]
      /\ UNCHANGED <<slug, place, dirVars, built, polls, outcome, crowded>>
  BY DEF DevListens, DevDies, DevAlive, SetupInv, SetupShape
<1>2. \A d \in Setups : DevAlive(d)' => DevAlive(d)
  BY <1>1 DEF DevAlive
<1>3. SetupShape' /\ Meet' /\ ListenersCameUp'
  BY <1>1 DEF SetupInv, SetupShape, Meet, Active, ListenersCameUp, dirVars
<1>4. \A d \in Setups \ crowded' : Progress(d)' /\ Answers(d)'
  BY <1>1, <1>2 DEF SetupInv, Progress, Answers, dirVars
<1>5. QED
  BY <1>3, <1>4 DEF SetupInv

\* Each step of the calls, their servers and the host keeps the invariant.
LEMMA SetupInvKept == SetupInv /\ [SetupNext]_setupVars => SetupInv'
<1>1. ASSUME SetupInv, NEW c \in Setups, SetupStep(c) \/ DevListens(c) \/ DevDies(c)
      PROVE  SetupInv'
  BY <1>1, WorkKeepsInv, BeginKeepsInv, SpawnKeepsInv, WaitOverKeepsInv, EndKeepsInv, ServerKeepsInv
     DEF SetupStep, Working
<1>2. ASSUME SetupInv, UNCHANGED setupVars
      PROVE  SetupInv'
  BY <1>2 DEF setupVars, dirVars, devVars, SetupInv, SetupShape, Meet, Active, ListenersCameUp,
              Progress, Answers, DevAlive
<1>3. QED
  BY <1>1, <1>2 DEF SetupNext

-----------------------------------------------------------------------------
\* For any calls and slugs: a call that overlapped no other of its slug and no other
\* dev server reports its own clone and its own server.
THEOREM ReportsItsOwn == SetupSpec => []SetupIsOwn
<1>1. SetupInit => SetupInv
  BY SetupInvInitial
<1>2. SetupInv => SetupIsOwn
  BY DEF SetupInv, SetupIsOwn, Answers
<1>3. QED
  BY <1>1, <1>2, SetupInvKept, PTL DEF SetupSpec

-----------------------------------------------------------------------------
(* Runtimes.                                                               *)

AfterVenv  == {"pip install", "rust", "cargo fetch", "go", "go mod download", "done"}
AfterNode  == AfterVenv \cup {"python"}
RunPlaces  == AfterNode \cup {"idle", "env", "node", "n install", "unlink", "link"}

Floor(w)   == manifests[w].node
\* A run that is past Node, has not failed and had one to link.
Settled(w) == rpc[w] \in AfterNode /\ ~failed[w] /\ w \notin unlinked
\* A workspace of a lower floor installed its Node without knowing what was there.
Excused(w) == \E v \in blind : Floor(v) < Floor(w)
\* A run between the unlink and the link of Node.
Replaces(i) == rpc[i] \in {"unlink", "link"}

\* The runs, and the Node that is on PATH.
RuntimesShape ==
  /\ manifests \in [Workspaces -> Manifests]
  /\ rpc \in [Workspaces -> RunPlaces] /\ failed \in [Workspaces -> BOOLEAN]
  /\ node \in {"image", "cache", "none"} /\ cacheNode \in Nat /\ jumbled \in BOOLEAN
  /\ blind \subseteq Workspaces

\* A run past its venv has one.
VenvStays ==
  \A w \in Workspaces :
    rpc[w] \in AfterVenv /\ ~failed[w] /\ "python" \in manifests[w].kinds => <<"venv", w>> \in tools

\* One run at a time replaces Node, by a newer one if it knew what was there: what
\* settled workspaces need is on PATH, or in the cache and about to be linked.
NodeStays ==
  ~jumbled =>
    /\ \A i, j \in Installing : i = j
    /\ \A i \in Workspaces : Replaces(i) => cacheNode = Floor(i)
    /\ \A i \in Installing : i \in blind \/ NodeMajor <= Floor(i)
    /\ \A w \in Workspaces : Settled(w) /\ ~Excused(w) =>
         /\ NodeMajor >= Floor(w) \/ \E i \in Workspaces : rpc[i] = "link"
         /\ \A i \in Installing : Floor(i) >= Floor(w)

\* The inductive invariant of the runs.
RuntimesInv == RuntimesShape /\ VenvStays /\ NodeStays

\* Majors are numbers.
LEMMA Floors == RuntimesShape => \A w \in Workspaces : Floor(w) \in Nat
BY RuntimesAssumption DEF RuntimesShape, Floor

\* The major on PATH is a number.
LEMMA Majors == RuntimesShape => NodeMajor \in Nat
BY RuntimesAssumption DEF RuntimesShape, NodeMajor

\* No run has begun.
LEMMA RuntimesInitInv == RuntimesInit => RuntimesInv
<1> SUFFICES ASSUME RuntimesInit PROVE RuntimesInv
  OBVIOUS
<1>1. RuntimesShape /\ \A w \in Workspaces : rpc[w] = "idle"
  BY DEF RuntimesInit, RuntimesShape, RunPlaces
<1>2. VenvStays
  BY <1>1 DEF VenvStays, AfterVenv
<1>3. NodeStays
  BY <1>1 DEF NodeStays, Installing, Replaces, Settled, AfterNode, AfterVenv, RuntimesInit
<1>4. QED
  BY <1>1, <1>2, <1>3 DEF RuntimesInv

\* A step of a run changes its own place alone.
LEMMA RunTurns ==
  ASSUME RuntimesShape, NEW w \in Workspaces, NEW from, NEW to \in RunPlaces, Turns(w, from, to)
  PROVE  /\ rpc[w] = from /\ rpc'[w] = to /\ rpc' \in [Workspaces -> RunPlaces]
         /\ \A v \in Workspaces \ {w} : rpc'[v] = rpc[v]
BY DEF RuntimesShape, Turns

\* A step that leaves Node alone and neither begins nor ends an installation.
LEMMA NodeLeftAlone ==
  ASSUME RuntimesShape, NodeStays, NEW w \in Workspaces,
         UNCHANGED <<manifests, node, cacheNode, blind, jumbled>>,
         \A v \in Workspaces \ {w} : rpc'[v] = rpc[v] /\ (Settled(v)' => Settled(v)),
         \A p \in {"n install", "unlink", "link"} : rpc[w] # p /\ rpc'[w] # p,
         Settled(w)' => Settled(w)
  PROVE  NodeStays'
<1>1. NodeMajor' = NodeMajor /\ \A v : Floor(v)' = Floor(v) /\ Excused(v)' = Excused(v)
  BY DEF NodeMajor, Floor, Excused
<1>2. Installing' = Installing /\ \A v \in Workspaces : Replaces(v)' <=> Replaces(v)
  BY DEF Installing, Replaces
<1>3. \A v \in Workspaces : Settled(v)' => Settled(v)
  OBVIOUS
<1>4. \A i \in Workspaces : rpc[i] = "link" => rpc'[i] = "link"
  OBVIOUS
<1>5. QED
  BY <1>1, <1>2, <1>3, <1>4 DEF NodeStays

\* The run of w goes from place to place; what it failed at stays failed.
Walks(w, from, to) ==
  /\ rpc[w] = from /\ rpc'[w] = to /\ rpc' \in [Workspaces -> RunPlaces]
  /\ failed' \in [Workspaces -> BOOLEAN] /\ (failed[w] => failed'[w])
  /\ \A v \in Workspaces \ {w} : rpc'[v] = rpc[v] /\ failed'[v] = failed[v]
  /\ manifests' = manifests

\* A run that goes on may note a failure, of itself alone.
LEMMA TurnsWalk ==
  ASSUME RuntimesShape, NEW w \in Workspaces, NEW from, NEW to \in RunPlaces, Turns(w, from, to),
         failed' = failed \/ failed' = [failed EXCEPT ![w] = TRUE], manifests' = manifests
  PROVE  Walks(w, from, to)
BY RunTurns DEF RuntimesShape, Walks

\* From a kind on, a run is past Node; past Python's turn, what it wants has its venv.
LEMMA KindsWalk ==
  ASSUME NEW k \in Kinds
  PROVE  /\ k \in AfterNode /\ NextKind[k] \in AfterVenv /\ Fetching[k] \in AfterVenv
         /\ k # "python" => k \in AfterVenv
<1> USE DEF AfterNode, AfterVenv, NextKind, Fetching
<1>1. CASE k = "python"
  BY <1>1
<1>2. CASE k = "rust"
  BY <1>2
<1>3. CASE k = "go"
  BY <1>3
<1>4. QED
  BY <1>1, <1>2, <1>3 DEF Kinds

\* Before Node is looked at.
LEMMA EnvSteps ==
  ASSUME RuntimesInv, NEW w \in Workspaces,
         Begin(w) \/ EnvDefaults(w) \/ EnvRaises(w) \/ ManifestRaises(w)
  PROVE  RuntimesInv'
<1> USE DEF RuntimesInv
<1>1. UNCHANGED <<manifests, node, cacheNode, tools, blind, jumbled>> /\ unlinked \ {w} \subseteq unlinked'
  BY DEF Begin, EnvDefaults, EnvRaises, ManifestRaises, Succeeds, Fails, podVars, given
<1>2. \/ Walks(w, "env", "node")
      \/ \E from \in {"env", "node"} : Walks(w, from, "done") /\ failed'[w]
      \/ /\ rpc[w] \in {"idle", "done"} /\ rpc' = [rpc EXCEPT ![w] = "env"]
         /\ failed' = [failed EXCEPT ![w] = FALSE]
  <2>1. CASE Begin(w)
    BY <2>1 DEF Begin
  <2>2. CASE EnvDefaults(w)
    <3>1. Turns(w, "env", "node") /\ (failed' = failed \/ failed' = [failed EXCEPT ![w] = TRUE])
      BY <2>2 DEF EnvDefaults, Succeeds, Fails
    <3>2. QED
      BY <1>1, <3>1, TurnsWalk DEF RunPlaces
  <2>3. CASE EnvRaises(w) \/ ManifestRaises(w)
    <3>1. PICK from \in {"env", "node"} : Turns(w, from, "done") /\ failed' = [failed EXCEPT ![w] = TRUE]
      BY <2>3 DEF EnvRaises, ManifestRaises, Fails
    <3>2. QED
      BY <1>1, <3>1, TurnsWalk DEF RunPlaces, AfterNode, AfterVenv, RuntimesShape
  <2>4. QED
    BY <2>1, <2>2, <2>3
<1>3. RuntimesShape'
  BY <1>1, <1>2 DEF RuntimesShape, Walks, RunPlaces
<1>4. \A v \in Workspaces \ {w} : rpc'[v] = rpc[v] /\ failed'[v] = failed[v]
  BY <1>2 DEF Walks, RuntimesShape
<1>5. /\ rpc[w] \in {"idle", "done", "env", "node"}
      /\ rpc'[w] \in {"env", "node"} \/ (rpc'[w] = "done" /\ failed'[w])
  BY <1>2 DEF Walks, RuntimesShape
<1>6. VenvStays'
  BY <1>1, <1>4, <1>5 DEF VenvStays, AfterVenv
<1>7. ~ Settled(w)' /\ \A v \in Workspaces \ {w} : Settled(v)' => Settled(v)
  BY <1>1, <1>4, <1>5 DEF Settled, AfterNode, AfterVenv
<1>8. NodeStays'
  BY <1>1, <1>4, <1>5, <1>7, NodeLeftAlone
<1>9. QED
  BY <1>3, <1>6, <1>8

\* After Node was seen to: toolchains and dependencies.
LEMMA KindSteps ==
  ASSUME RuntimesInv, NEW w \in Workspaces, NEW k \in Kinds,
         NotNeeded(w, k) \/ ToolchainFails(w, k) \/ ToolchainReady(w, k) \/ Fetch(w, k)
  PROVE  RuntimesInv'
<1> USE DEF RuntimesInv
<1>1. UNCHANGED <<manifests, node, cacheNode, unlinked, blind, jumbled>> /\ tools \subseteq tools'
  BY DEF NotNeeded, ToolchainFails, ToolchainReady, Fetch, Succeeds, Fails, podVars, given
<1>2. failed' = failed \/ failed' = [failed EXCEPT ![w] = TRUE]
  BY DEF NotNeeded, ToolchainFails, ToolchainReady, Fetch, Succeeds, Fails
<1>3. PICK from \in AfterNode, to \in AfterVenv :
        /\ Turns(w, from, to)
        /\ from = "python" => \/ "python" \notin manifests[w].kinds \/ failed'[w] \/ <<"venv", w>> \in tools'
  <2>1. k \in AfterNode /\ NextKind[k] \in AfterVenv /\ Fetching[k] \in AfterVenv /\ Fetching[k] \in AfterNode
        /\ Fetching[k] # "python"
    BY KindsWalk DEF AfterNode, AfterVenv, Kinds, Fetching
  <2>2. CASE NotNeeded(w, k)
    BY <2>1, <2>2 DEF NotNeeded
  <2>3. CASE ToolchainFails(w, k)
    BY <2>1, <2>3 DEF ToolchainFails, Needed, Fails, RuntimesShape
  <2>4. CASE ToolchainReady(w, k)
    BY <2>1, <2>4 DEF ToolchainReady, Needed, Toolchain
  <2>5. CASE Fetch(w, k)
    BY <2>1, <2>5 DEF Fetch
  <2>6. QED
    BY <2>2, <2>3, <2>4, <2>5
<1>4. Walks(w, from, to)
  BY <1>1, <1>2, <1>3, TurnsWalk DEF AfterNode, RunPlaces
<1>5. RuntimesShape'
  BY <1>1, <1>4 DEF RuntimesShape, Walks
<1>6. VenvStays'
  BY <1>1, <1>3, <1>4 DEF VenvStays, Walks, AfterNode
<1>7. \A v \in Workspaces : Settled(v)' => Settled(v)
  BY <1>1, <1>4 DEF Settled, Walks, RuntimesShape
<1>8. NodeStays'
  BY <1>1, <1>4, <1>7, NodeLeftAlone DEF Walks, AfterNode, AfterVenv
<1>9. QED
  BY <1>5, <1>6, <1>8

\* The places of a run that installs Node, and those around them.
AtNode == {"n install", "unlink", "link"}
AroundNode == AtNode \cup {"node", "python"}

\* Whoever installs Node does so alone.
LEMMA InstallsAlone ==
  ASSUME NodeStays, ~jumbled, NEW w \in Workspaces, NEW to,
         \E from \in AtNode : Walks(w, from, to)
  PROVE  /\ \A v \in Workspaces \ {w} : rpc[v] \notin AtNode /\ rpc'[v] \notin AtNode
         /\ \A i, j \in Installing' : i = j
<1>1. w \in Installing /\ \A v \in Workspaces : v \in Installing <=> rpc[v] \in AtNode
  BY DEF Installing, AtNode, Walks
<1>2. \A v \in Workspaces \ {w} : rpc[v] \notin AtNode
  BY <1>1 DEF NodeStays
<1>3. \A v \in Workspaces \ {w} : rpc'[v] \notin AtNode
  BY <1>2 DEF Walks
<1>4. QED
  BY <1>2, <1>3 DEF Installing, AtNode

\* Node is looked at, installed, unlinked and linked.
NodeStep(w) ==
  NodeCheck(w) \/ NodeFails(w) \/ NodeInstall(w) \/ NothingToLink(w) \/ Unlink(w) \/ Link(w) \/ LinkFails(w)

\* A step at Node walks around it.
LEMMA NodeStepWalks ==
  ASSUME RuntimesShape, NEW w \in Workspaces, NodeStep(w)
  PROVE  /\ UNCHANGED <<manifests, tools>> /\ \A v \in Workspaces : Floor(v)' = Floor(v)
         /\ unlinked \subseteq unlinked' /\ blind \subseteq blind' /\ (jumbled => jumbled')
         /\ \E from, to \in AroundNode : Walks(w, from, to)
<1> USE DEF NodeStep, NodeCheck, NodeFails, NodeInstall, NothingToLink, Unlink, Link, LinkFails, Succeeds, Fails
<1>1. UNCHANGED <<manifests, tools>> /\ (failed' = failed \/ failed' = [failed EXCEPT ![w] = TRUE])
  BY DEF podVars, given
<1>2. unlinked \subseteq unlinked' /\ blind \subseteq blind' /\ (jumbled => jumbled')
  <2>1. unlinked \subseteq unlinked' /\ blind \subseteq blind'
    OBVIOUS
  <2>2. jumbled => jumbled'
    BY Zenon
  <2>3. QED
    BY <2>1, <2>2
<1>3. PICK from \in AroundNode, to \in AroundNode : Turns(w, from, to)
  BY DEF AroundNode, AtNode
<1>4. to \in RunPlaces
  BY DEF RunPlaces, AfterNode, AroundNode, AtNode
<1>5. QED
  BY <1>1, <1>2, <1>3, <1>4, TurnsWalk DEF Floor

\* A step at Node keeps the shape.
LEMMA NodeStepShape ==
  ASSUME RuntimesShape, NEW w \in Workspaces, NodeStep(w)
  PROVE  RuntimesShape'
<1>1. node' \in {"image", "cache", "none"} /\ jumbled' \in BOOLEAN /\ blind' \subseteq Workspaces
  BY DEF NodeStep, RuntimesShape, NodeCheck, NodeFails, NodeInstall, NothingToLink, Unlink, Link, LinkFails, Succeeds,
         Fails, podVars
<1>2. cacheNode' \in Nat
  BY Floors DEF NodeStep, Floor, RuntimesShape, NodeCheck, NodeFails, NodeInstall, NothingToLink, Unlink, Link,
                LinkFails, podVars
<1>3. QED
  BY <1>1, <1>2, NodeStepWalks DEF RuntimesShape, Walks

\* An installation by w that is not about to be linked leaves Node as it is.
LEMMA GivesUpOnNode ==
  ASSUME RuntimesInv, NEW w \in Workspaces, NodeStep(w), ~jumbled, ~jumbled',
         NEW from \in {"n install", "unlink"}, Walks(w, from, "python"), ~Settled(w)',
         UNCHANGED <<node, cacheNode, blind>>
  PROVE  NodeStays'
<1> USE DEF RuntimesInv
<1>1. /\ \A v \in Workspaces \ {w} : rpc[v] \notin AtNode /\ rpc'[v] \notin AtNode
      /\ Installing' = {}
  BY InstallsAlone DEF AtNode, Walks, Installing
<1>2. NodeMajor' = NodeMajor /\ \A v \in Workspaces : Floor(v)' = Floor(v) /\ Excused(v)' = Excused(v)
  BY NodeStepWalks DEF NodeMajor, Excused, RuntimesShape
<1>3. \A v \in Workspaces : Settled(v)' => Settled(v)
  BY NodeStepWalks DEF Settled, Walks
<1>4. \A i \in Workspaces : ~Replaces(i)' /\ rpc[i] # "link"
  BY <1>1 DEF Replaces, Walks, AtNode
<1>5. QED
  BY <1>1, <1>2, <1>3, <1>4 DEF NodeStays

\* A step at Node keeps what settled workspaces need.
LEMMA NodeStepKeeps ==
  ASSUME RuntimesInv, NEW w \in Workspaces, NodeStep(w), ~jumbled'
  PROVE  NodeStays'
<1> USE DEF RuntimesInv
<1>1. /\ ~jumbled /\ RuntimesShape' /\ unlinked \subseteq unlinked' /\ blind \subseteq blind'
      /\ \A v \in Workspaces : Floor(v)' = Floor(v)
  BY NodeStepWalks, NodeStepShape
<1>2. /\ \A v \in Workspaces : Floor(v) \in Nat
      /\ NodeMajor \in Nat /\ NodeMajor' \in Nat /\ cacheNode \in Nat
  <2>1. NodeMajor' \in Nat
    BY <1>1, RuntimesAssumption DEF RuntimesShape, NodeMajor
  <2>2. QED
    BY <2>1, Floors, Majors DEF RuntimesShape
<1>3. \A v \in Workspaces : Excused(v) => Excused(v)'
  BY <1>1 DEF Excused, RuntimesShape
<1>4. /\ \A v \in Workspaces : v # w /\ Settled(v)' => Settled(v)
      /\ blind' = blind => \A v \in Workspaces : Excused(v)' = Excused(v)
  <2>1. \A v \in Workspaces : v # w /\ Settled(v)' => Settled(v)
    BY <1>1, NodeStepWalks DEF Settled, Walks
  <2>2. blind' = blind => \A v \in Workspaces : Excused(v)' = Excused(v)
    BY <1>1 DEF Excused, RuntimesShape
  <2>3. QED
    BY <2>1, <2>2
<1>5. CASE NodeCheck(w)
  <2>1. PICK answers \in BOOLEAN :
          /\ Turns(w, "node", IF answers /\ NodeFits(w) THEN "python" ELSE "n install")
          /\ ~(answers /\ NodeFits(w)) => Installing = {}
          /\ blind' = IF ~answers /\ NodeFits(w) THEN blind \cup {w} ELSE blind
          /\ UNCHANGED <<node, cacheNode, failed, unlinked>>
    BY <1>1, <1>5 DEF NodeCheck, podVars
  <2>2. NodeMajor' = NodeMajor
    BY <2>1 DEF NodeMajor
  <2>3. CASE answers /\ NodeFits(w)
    <3>1. Walks(w, "node", "python") /\ blind' = blind
      BY <1>1, <1>5, <2>1, <2>3, TurnsWalk DEF NodeCheck, RunPlaces, AfterNode, given
    <3>2. /\ Installing' = Installing /\ \A i \in Workspaces : Replaces(i)' <=> Replaces(i)
          /\ \A i \in Workspaces : rpc[i] = "link" => rpc'[i] = "link"
      BY <3>1 DEF Installing, Replaces, Walks
    <3>3. NodeMajor >= Floor(w) /\ (\A i \in Installing : i \in Workspaces)
      BY <2>3 DEF NodeFits, Floor, Installing
    <3>4. \A v \in Workspaces : Excused(v)' = Excused(v)
      BY <1>1, <3>1 DEF Excused, RuntimesShape
    <3>5. ~Excused(w) => \A i \in Installing : Floor(i) >= Floor(w)
      <4>1. SUFFICES ASSUME ~Excused(w), NEW i \in Installing PROVE Floor(i) >= Floor(w)
        OBVIOUS
      <4>2. i \in blind \/ NodeMajor <= Floor(i)
        BY <1>1 DEF NodeStays
      <4>3. i \in blind => ~(Floor(i) < Floor(w))
        BY <4>1 DEF Excused
      <4>4. QED
        BY <1>2, <3>3, <4>2, <4>3
    <3>6. QED
      BY <1>1, <1>4, <2>1, <2>2, <3>1, <3>2, <3>3, <3>4, <3>5 DEF NodeStays
  <2>4. CASE ~(answers /\ NodeFits(w))
    <3>1. Walks(w, "node", "n install") /\ Installing = {}
      BY <1>1, <1>5, <2>1, <2>4, TurnsWalk DEF NodeCheck, RunPlaces, given
    <3>2. Installing' = {w} /\ \A i \in Workspaces : ~Replaces(i)' /\ rpc[i] # "link"
      BY <3>1 DEF Installing, Replaces, Walks
    <3>3. w \in blind' \/ NodeMajor <= Floor(w)
      <4>1. NodeFits(w) => w \in blind'
        BY <2>1, <2>4
      <4>2. ~NodeFits(w) => NodeMajor <= Floor(w)
        BY <1>2 DEF NodeFits, Floor
      <4>3. QED
        BY <4>1, <4>2
    <3>4. ASSUME NEW v \in Workspaces, Settled(v)', ~Excused(v)'
          PROVE  NodeMajor >= Floor(v) /\ Floor(w) >= Floor(v)
      <4>1. v # w
        BY <3>1, <3>4 DEF Settled, Walks, AfterNode, AfterVenv
      <4>2. NodeMajor >= Floor(v)
        BY <1>1, <1>3, <1>4, <3>2, <3>4, <4>1 DEF NodeStays
      <4>3. w \in blind' => ~(Floor(w) < Floor(v))
        BY <1>1, <3>4 DEF Excused, RuntimesShape
      <4>4. QED
        BY <1>2, <3>3, <4>2, <4>3
    <3>5. QED
      BY <1>1, <2>2, <3>2, <3>3, <3>4 DEF NodeStays
  <2>5. QED
    BY <2>3, <2>4
<1>6. CASE NodeFails(w) \/ NothingToLink(w) \/ (LinkFails(w) /\ rpc[w] = "unlink")
  <2>1. PICK from \in {"n install", "unlink"} :
          /\ Turns(w, from, "python") /\ UNCHANGED <<manifests, node, cacheNode, blind>>
          /\ failed' = failed \/ failed' = [failed EXCEPT ![w] = TRUE]
          /\ failed'[w] \/ w \in unlinked'
    BY <1>6 DEF NodeFails, NothingToLink, LinkFails, Fails, Turns, podVars, given, RuntimesShape
  <2>2. Walks(w, from, "python")
    BY <2>1, TurnsWalk DEF RunPlaces, AfterNode
  <2>3. ~Settled(w)'
    BY <2>1 DEF Settled
  <2>4. QED
    BY <1>1, <2>1, <2>2, <2>3, GivesUpOnNode
<1>7. CASE NodeInstall(w)
  <2>1. /\ node' = node /\ cacheNode' = Floor(w) /\ Walks(w, "n install", "unlink")
        /\ blind' = blind
    BY <1>7, TurnsWalk DEF NodeInstall, Succeeds, RunPlaces, Floor, given
  <2>2. /\ \A v \in Workspaces \ {w} : rpc[v] \notin AtNode /\ rpc'[v] \notin AtNode
        /\ Installing = {w} /\ Installing' = {w}
    BY <1>1, <2>1, InstallsAlone DEF AtNode, Walks, Installing
  <2>3. \A v \in Workspaces : (Replaces(v)' => v = w) /\ rpc[v] # "link" /\ Excused(v)' = Excused(v)
    BY <1>4, <2>1, <2>2 DEF AtNode, Walks, Replaces
  <2>4. NodeMajor' = Floor(w) \/ NodeMajor' = NodeMajor
    BY <2>1 DEF NodeMajor, RuntimesShape
  <2>5. w \in blind \/ NodeMajor <= Floor(w)
    BY <1>1, <2>2 DEF NodeStays
  <2>6. ASSUME NEW v \in Workspaces, Settled(v)', ~Excused(v)'
        PROVE  NodeMajor' >= Floor(v) /\ Floor(w) >= Floor(v)
    <3>1. Settled(v)
      BY <1>4, <2>1, <2>6 DEF Settled, Walks, AfterNode, AfterVenv
    <3>2. NodeMajor >= Floor(v) /\ Floor(w) >= Floor(v)
      BY <1>1, <2>2, <2>3, <2>6, <3>1 DEF NodeStays
    <3>3. QED
      BY <1>2, <2>4, <3>2
  <2>7. w \in blind' \/ NodeMajor' <= Floor(w)
    <3>1. NodeMajor' <= Floor(w) \/ NodeMajor' = NodeMajor
      BY <1>2, <2>4
    <3>2. QED
      BY <2>1, <2>5, <3>1
  <2>8. QED
    BY <1>1, <2>1, <2>2, <2>3, <2>6, <2>7 DEF NodeStays
<1>8. CASE Unlink(w)
  <2>1. /\ cacheNode' = cacheNode /\ NodeMajor' = 0 /\ Walks(w, "unlink", "link")
        /\ blind' = blind
    BY <1>8, TurnsWalk DEF Unlink, Succeeds, RunPlaces, NodeMajor, given
  <2>2. /\ \A v \in Workspaces \ {w} : rpc[v] \notin AtNode /\ rpc'[v] \notin AtNode
        /\ Installing = {w} /\ Installing' = {w}
    BY <1>1, <2>1, InstallsAlone DEF AtNode, Walks, Installing
  <2>3. \A v \in Workspaces : (Replaces(v)' => v = w) /\ Excused(v)' = Excused(v)
    BY <1>4, <2>1, <2>2 DEF AtNode, Walks, Replaces
  <2>4. cacheNode = Floor(w) /\ rpc'[w] = "link"
    BY <1>1, <2>1 DEF NodeStays, Replaces, Walks
  <2>5. ASSUME NEW v \in Workspaces, Settled(v)', ~Excused(v)'
        PROVE  Floor(w) >= Floor(v)
    <3>1. Settled(v)
      BY <1>4, <2>1, <2>5 DEF Settled, Walks, AfterNode, AfterVenv
    <3>2. QED
      BY <1>1, <2>2, <2>3, <2>5, <3>1 DEF NodeStays
  <2>6. NodeMajor' <= Floor(w)
    BY <1>2, <2>1
  <2>7. QED
    BY <1>1, <2>1, <2>2, <2>3, <2>4, <2>5, <2>6 DEF NodeStays
<1>9. CASE Link(w)
  <2>1. /\ NodeMajor' = cacheNode /\ Walks(w, "link", "python") /\ blind' = blind
    BY <1>9, TurnsWalk DEF Link, Succeeds, RunPlaces, AfterNode, NodeMajor, given
  <2>2. /\ \A v \in Workspaces \ {w} : rpc[v] \notin AtNode /\ rpc'[v] \notin AtNode
        /\ Installing = {w} /\ Installing' = {}
    BY <1>1, <2>1, InstallsAlone DEF AtNode, Walks, Installing
  <2>3. \A v \in Workspaces : ~Replaces(v)' /\ Excused(v)' = Excused(v)
    BY <1>4, <2>1, <2>2 DEF AtNode, Walks, Replaces
  <2>4. cacheNode = Floor(w)
    BY <1>1, <2>1 DEF NodeStays, Replaces, Walks
  <2>5. ASSUME NEW v \in Workspaces, Settled(v)', ~Excused(v)'
        PROVE  NodeMajor' >= Floor(v)
    <3>1. CASE v = w
      BY <1>2, <2>1, <2>4, <3>1
    <3>2. CASE v # w
      <4>1. Settled(v)
        BY <1>4, <2>5, <3>2
      <4>2. Floor(w) >= Floor(v)
        BY <1>1, <2>2, <2>3, <2>5, <4>1 DEF NodeStays
      <4>3. QED
        BY <2>1, <2>4, <4>2
    <3>3. QED
      BY <3>1, <3>2
  <2>6. QED
    BY <1>1, <2>2, <2>3, <2>5 DEF NodeStays
<1>10. CASE LinkFails(w) /\ rpc[w] # "unlink"
  BY <1>10 DEF LinkFails, Turns
<1>11. QED
  BY <1>5, <1>6, <1>7, <1>8, <1>9, <1>10 DEF NodeStep

\* Node is installed, unlinked and linked.
LEMMA NodeSteps ==
  ASSUME RuntimesInv, NEW w \in Workspaces, NodeStep(w)
  PROVE  RuntimesInv'
<1>1. RuntimesShape'
  BY NodeStepShape DEF RuntimesInv
<1>2. VenvStays'
  <2>1. UNCHANGED <<manifests, tools>> /\ \E from, to \in AroundNode : Walks(w, from, to)
    BY NodeStepWalks DEF RuntimesInv
  <2>2. rpc'[w] \notin AfterVenv
    BY <2>1 DEF Walks, AfterVenv, AroundNode, AtNode
  <2>3. QED
    BY <2>1, <2>2 DEF RuntimesInv, VenvStays, Walks
<1>3. NodeStays'
  BY NodeStepKeeps DEF NodeStays
<1>4. QED
  BY <1>1, <1>2, <1>3 DEF RuntimesInv

\* Each step of a run or of the user keeps what settled workspaces rely on.
LEMMA RuntimesNextInv == RuntimesInv /\ [RuntimesNext]_runtimeVars => RuntimesInv'
<1> SUFFICES ASSUME RuntimesInv, [RuntimesNext]_runtimeVars PROVE RuntimesInv'
  OBVIOUS
<1>1. ASSUME NEW w \in Workspaces, ResolveStep(w) PROVE RuntimesInv'
  BY <1>1, EnvSteps, NodeSteps, KindSteps DEF ResolveStep, NodeStep
<1>2. CASE UNCHANGED runtimeVars \/ \E w \in Workspaces, k \in EnvKeys : UserPastes(w, k)
  <2>1. UNCHANGED <<manifests, podVars, runVars>>
    BY <1>2 DEF UserPastes, runtimeVars, given
  <2>2. QED
    BY <2>1 DEF podVars, runVars, RuntimesInv, RuntimesShape, VenvStays, NodeStays, Installing, NodeMajor, Floor,
                Replaces, Settled, Excused
<1>3. QED
  BY <1>1, <1>2, Zenon DEF RuntimesNext

\* For any workspaces, manifests and Node versions: what a run of resolve_runtimes
\* reported ready is still so when no run is installing Node, unless two runs met there,
\* one broke off at the link, or a workspace with a lower floor installed its Node while
\* the version could not be read.
THEOREM ToolchainsStay == RuntimesSpec => []RuntimesStay
<1>1. RuntimesInv => RuntimesStay
  <2> SUFFICES ASSUME RuntimesInv, ~jumbled, Installing = {}, NEW w \in Workspaces, rpc[w] = "done", ~failed[w],
                      w \notin unlinked
               PROVE  /\ NodeMajor >= Floor(w) \/ Excused(w)
                      /\ "python" \in manifests[w].kinds => Toolchain(w, "python") \in tools
    BY DEF RuntimesStay, Excused, Floor
  <2>1. NodeMajor >= Floor(w) \/ Excused(w)
    <3>1. Settled(w) /\ \A i \in Workspaces : rpc[i] # "link"
      BY DEF Settled, AfterNode, AfterVenv, Installing
    <3>2. QED
      BY <3>1 DEF RuntimesInv, NodeStays
  <2>2. "python" \in manifests[w].kinds => Toolchain(w, "python") \in tools
    BY DEF RuntimesInv, VenvStays, AfterVenv, Toolchain
  <2>3. QED
    BY <2>1, <2>2
<1>2. QED
  BY <1>1, RuntimesInitInv, RuntimesNextInv, PTL DEF RuntimesSpec

-----------------------------------------------------------------------------
(* AutoUpdater.                                                            *)

\* The releases whose digest is published.
Signed == (0 .. MaxRelease) \ Unsigned

UpPlaces == {"rest", "sums", "download", "stage", "gone"} \cup AtFiles

\* The pauses, the probes, the handles.
UpShape ==
  /\ latest \in 0 .. MaxRelease /\ delay \in [Daemons -> 1 .. MaxDelay]
  /\ upc \in [Probes -> UpPlaces] /\ sum \in [Probes -> 0 .. NoSum]
  /\ handle \in [Probes -> {"none", "staged", "exe", "sidecar"}]
  /\ {twoProbes, tornMove, outrun} \subseteq BOOLEAN

FilesOf(R) == [release : R, whole : BOOLEAN]

\* The files hold releases of R only, and so do the probes that will write them.
Holds(R) ==
  /\ exe \in FilesOf(R) /\ {staged, sidecar} \subseteq FilesOf(R) \cup {Missing}
  /\ \A p \in Probes : upc[p] \in {"download", "stage", "copy"} => sum[p] \in R

WholeOrMissing(file) == file = Missing \/ file.whole

\* Of probes that did not stage at once one is at the files, its handle is on what it
\* stages and what it moves is whole.
OneStages ==
  ~twoProbes =>
    /\ \A p, q \in Staging : p = q
    /\ \A p \in Probes : handle[p] = IF upc[p] = "copy" THEN "staged" ELSE "none"
    /\ \A p \in Probes : upc[p] \in {"apply", "unlinked", "copying"} => WholeOrMissing(staged)

\* A script waits only for a sidecar that is whole.
BatsFindAll ==
  ~twoProbes =>
    /\ \A p \in Probes : upc[p] = "moved" => WholeOrMissing(sidecar)
    /\ ~tornMove => /\ exe.whole /\ (bats # {} => WholeOrMissing(sidecar))
                    /\ \A p \in Probes : upc[p] = "copying" => bats = {}

\* The inductive invariant of the updater.
UpInv ==
  /\ UpShape /\ OneStages /\ BatsFindAll
  /\ Holds(Signed) /\ (~outrun => Holds(Signed \ MajorReleases))

\* The updater begins with a whole release that has a digest.
LEMMA UpInitInv == UpInit => UpInv
<1> SUFFICES ASSUME UpInit PROVE UpInv
  OBVIOUS
<1>1. 0 \in Signed \ MajorReleases /\ MaxRelease \in Nat /\ MaxDelay \in Nat \ {0}
  BY UpdaterAssumption DEF Signed
<1>2. NoSum \in 0 .. NoSum /\ 0 \in 0 .. MaxRelease /\ 1 \in 1 .. MaxDelay
  BY <1>1 DEF NoSum
<1>3. UpShape
  BY <1>2 DEF UpInit, UpShape, UpPlaces
<1>4. \A R : 0 \in R => Holds(R)
  BY DEF UpInit, Holds, FilesOf
<1>5. OneStages /\ BatsFindAll
  BY DEF UpInit, OneStages, BatsFindAll, Staging, AtFiles
<1>6. QED
  BY <1>1, <1>3, <1>4, <1>5 DEF UpInv

\* A doubled pause is still within its cap.
LEMMA PauseIsCapped == \A d \in 1 .. MaxDelay : Doubled(d) \in 1 .. MaxDelay /\ 1 \in 1 .. MaxDelay
BY UpdaterAssumption DEF Doubled

\* However a probe ends, the pauses stay within their cap.
LEMMA EndsWithinCap ==
  ASSUME UpShape, NEW p \in Probes, NEW verdict, ProbeEnds(p, verdict)
  PROVE  upc' = [upc EXCEPT ![p] = "rest"] /\ delay' \in [Daemons -> 1 .. MaxDelay]
<1>1. p.of \in Daemons
  BY DEF Probes
<1>2. QED
  BY <1>1, PauseIsCapped DEF UpShape, ProbeEnds

\* Each step keeps the shape.
LEMMA UpShapeKept == UpShape /\ [UpNext]_upVars => UpShape'
<1> SUFFICES ASSUME UpShape, [UpNext]_upVars PROVE UpShape'
  OBVIOUS
<1>0. MaxRelease \in Nat /\ 1 \in 1 .. MaxDelay
  BY UpdaterAssumption
<1> USE DEF UpShape, UpPlaces, AtFiles, ProbeGoes, ProbeStops, binVars, probeVars, procVars, Becomes
<1>1. CASE ReleasePublished
  BY <1>0, <1>1 DEF ReleasePublished
<1>2. ASSUME NEW d \in Daemons, DaemonStops(d) \/ BatRuns(d) PROVE UpShape'
  BY <1>0, <1>2 DEF DaemonStops, BatRuns, DaemonStarts
<1>3. CASE LogsOn
  BY <1>0, <1>3 DEF LogsOn, DaemonStarts
<1>4. ASSUME NEW p \in Probes, FetchTag(p) PROVE UpShape'
  BY <1>4, EndsWithinCap DEF FetchTag
<1>5. ASSUME NEW p \in Probes, FetchSums(p) PROVE UpShape'
  BY <1>5, <1>0, EndsWithinCap DEF FetchSums, NoSum
<1>6. ASSUME NEW p \in Probes, Download(p) PROVE UpShape'
  BY <1>6, EndsWithinCap DEF Download
<1>7. ASSUME NEW p \in Probes, OpenStaged(p) PROVE UpShape'
  BY <1>7 DEF OpenStaged
<1>8. ASSUME NEW p \in Probes, CopyStaged(p) PROVE UpShape'
  BY <1>8, EndsWithinCap DEF CopyStaged
<1>9. ASSUME NEW p \in Probes, ApplyFails(p) PROVE UpShape'
  BY <1>9, EndsWithinCap DEF ApplyFails, Moved
<1>10. ASSUME NEW p \in Probes, SwapUnix(p) PROVE UpShape'
  BY <1>10 DEF SwapUnix, Moved
<1>11. ASSUME NEW p \in Probes, Exec(p) PROVE UpShape'
  BY <1>11, <1>0, EndsWithinCap DEF Exec, Moved
<1>12. ASSUME NEW p \in Probes, UnlinkSidecar(p) \/ MoveToSidecar(p) \/ StartBat(p) PROVE UpShape'
  BY <1>12 DEF UnlinkSidecar, MoveToSidecar, StartBat, Moved
<1>13. CASE UNCHANGED upVars
  BY <1>13 DEF upVars
<1>14. QED
  BY <1>1, <1>2, <1>3, <1>4, <1>5, <1>6, <1>7, <1>8, <1>9, <1>10, <1>11, <1>12, <1>13, Zenon DEF UpNext

\* The files keep to R if each digest that a probe goes on with is of a release of R.
LEMMA HoldsKept ==
  ASSUME NEW R, UpShape, Holds(R), [UpNext]_upVars,
         \A p \in Probes : FetchSums(p) => (upc'[p] = "download" => sum'[p] \in R)
  PROVE  Holds(R)'
<1> USE DEF UpShape, UpPlaces, Holds, ProbeGoes, ProbeStops, ProbeEnds, binVars, probeVars, procVars, Becomes
<1>1. CASE ReleasePublished
  BY <1>1 DEF ReleasePublished
<1>2. ASSUME NEW d \in Daemons, DaemonStops(d) \/ BatRuns(d) PROVE Holds(R)'
  BY <1>2 DEF DaemonStops, BatRuns, DaemonStarts
<1>3. CASE LogsOn
  BY <1>3 DEF LogsOn, DaemonStarts
<1>4. ASSUME NEW p \in Probes, FetchTag(p) PROVE Holds(R)'
  BY <1>4 DEF FetchTag
<1>5. ASSUME NEW p \in Probes, FetchSums(p) PROVE Holds(R)'
  BY <1>5 DEF FetchSums
<1>6. ASSUME NEW p \in Probes, Download(p) PROVE Holds(R)'
  BY <1>6 DEF Download
<1>7. ASSUME NEW p \in Probes, OpenStaged(p) PROVE Holds(R)'
  BY <1>7 DEF OpenStaged, FilesOf
<1>8. ASSUME NEW p \in Probes, CopyStaged(p) PROVE Holds(R)'
  <2>1. CASE ProbeStops(p, "copy", "error") /\ UNCHANGED <<exe, staged, sidecar>>
    BY <1>8, <2>1 DEF CopyStaged
  <2>2. CASE /\ ProbeGoes(p, "copy", "apply")
             /\ staged' = Written(staged, "staged", p) /\ exe' = Written(exe, "exe", p)
             /\ sidecar' = Written(sidecar, "sidecar", p)
    <3>1. [release |-> sum[p], whole |-> TRUE] \in FilesOf(R)
      BY <2>2 DEF FilesOf
    <3>2. /\ \A file \in FilesOf(R) : \A where : Written(file, where, p) \in FilesOf(R)
          /\ \A where : Written(Missing, where, p) = Missing
      BY <3>1 DEF Written
    <3>3. exe' \in FilesOf(R) /\ {staged, sidecar}' \subseteq FilesOf(R) \cup {Missing}
      BY <2>2, <3>2
    <3>4. QED
      BY <1>8, <2>2, <3>3 DEF CopyStaged
  <2>3. QED
    BY <1>8, <2>1, <2>2 DEF CopyStaged
<1>9. ASSUME NEW p \in Probes, ApplyFails(p) PROVE Holds(R)'
  BY <1>9 DEF ApplyFails
<1>10. ASSUME NEW p \in Probes, SwapUnix(p) \/ Exec(p) PROVE Holds(R)'
  BY <1>10 DEF SwapUnix, Exec
<1>11. ASSUME NEW p \in Probes, UnlinkSidecar(p) \/ StartBat(p) PROVE Holds(R)'
  BY <1>11 DEF UnlinkSidecar, StartBat
<1>12. ASSUME NEW p \in Probes, MoveToSidecar(p) PROVE Holds(R)'
  <2>1. staged \in FilesOf(R) /\ [staged EXCEPT !.whole = FALSE] \in FilesOf(R)
    BY <1>12 DEF MoveToSidecar, FilesOf
  <2>2. QED
    BY <1>12, <2>1 DEF MoveToSidecar
<1>13. CASE UNCHANGED upVars
  BY <1>13 DEF upVars
<1>14. QED
  BY <1>1, <1>2, <1>3, <1>4, <1>5, <1>6, <1>7, <1>8, <1>9, <1>10, <1>11, <1>12, <1>13, Zenon DEF UpNext

\* A probe goes on with a published digest only, and, if its two requests saw one
\* release, not with one that crosses a major version.
LEMMA OnlySound ==
  ASSUME UpShape, NEW p \in Probes, FetchSums(p), upc'[p] = "download"
  PROVE  sum'[p] \in Signed /\ (~outrun' => sum'[p] \notin MajorReleases)
<1>1. PICK s \in {IF latest \in Unsigned THEN NoSum ELSE latest, NoSum} :
        sum' = [sum EXCEPT ![p] = s] /\ Refused(p, s) = "no"
  BY DEF FetchSums, ProbeStops, ProbeEnds, UpShape
<1>2. s # NoSum /\ tag[p] \notin MajorReleases
  BY <1>1 DEF Refused
<1>3. QED
  BY <1>1, <1>2 DEF FetchSums, UpShape, Signed

\* Each step keeps the staged file one probe's.
LEMMA OneStagesKept == UpInv /\ [UpNext]_upVars => OneStages'
<1> SUFFICES ASSUME UpShape, OneStages, Holds(Signed), [UpNext]_upVars PROVE OneStages'
  BY DEF UpInv
<1> USE DEF UpShape, OneStages, Staging, AtFiles, WholeOrMissing, ProbeGoes, ProbeStops, ProbeEnds, binVars,
            probeVars, procVars, Becomes
<1>1. CASE ReleasePublished
  BY <1>1 DEF ReleasePublished
<1>2. ASSUME NEW d \in Daemons, DaemonStops(d) \/ BatRuns(d) PROVE OneStages'
  BY <1>2 DEF DaemonStops, BatRuns, DaemonStarts
<1>3. CASE LogsOn
  BY <1>3 DEF LogsOn, DaemonStarts
<1>4. ASSUME NEW p \in Probes, FetchTag(p) PROVE OneStages'
  BY <1>4 DEF FetchTag
<1>5. ASSUME NEW p \in Probes, FetchSums(p) PROVE OneStages'
  BY <1>5 DEF FetchSums
<1>6. ASSUME NEW p \in Probes, Download(p) PROVE OneStages'
  BY <1>6 DEF Download
<1>7. ASSUME NEW p \in Probes, OpenStaged(p) PROVE OneStages'
  BY <1>7 DEF OpenStaged
<1>8. ASSUME NEW p \in Probes, CopyStaged(p) PROVE OneStages'
  BY <1>8 DEF CopyStaged, Written
<1>9. ASSUME NEW p \in Probes, ApplyFails(p) PROVE OneStages'
  BY <1>9 DEF ApplyFails, Moved
<1>10. ASSUME NEW p \in Probes, SwapUnix(p) PROVE OneStages'
  BY <1>10 DEF SwapUnix, Moved
<1>11. ASSUME NEW p \in Probes, Exec(p) PROVE OneStages'
  BY <1>11 DEF Exec, Moved
<1>12. ASSUME NEW p \in Probes, UnlinkSidecar(p) \/ StartBat(p) PROVE OneStages'
  BY <1>12 DEF UnlinkSidecar, StartBat
<1>13. ASSUME NEW p \in Probes, MoveToSidecar(p) PROVE OneStages'
  BY <1>13 DEF MoveToSidecar, Moved
<1>14. CASE UNCHANGED upVars
  BY <1>14 DEF upVars
<1>15. QED
  BY <1>1, <1>2, <1>3, <1>4, <1>5, <1>6, <1>7, <1>8, <1>9, <1>10, <1>11, <1>12, <1>13, <1>14, Zenon DEF UpNext

\* Each step keeps what the scripts find whole.
LEMMA BatsFindAllKept == UpInv /\ [UpNext]_upVars => BatsFindAll'
<1> SUFFICES ASSUME UpShape, OneStages, BatsFindAll, [UpNext]_upVars PROVE BatsFindAll'
  BY DEF UpInv
<1> USE DEF UpShape, BatsFindAll, WholeOrMissing, ProbeGoes, ProbeStops, ProbeEnds, binVars,
            probeVars, procVars, Becomes
<1>1. CASE ReleasePublished
  BY <1>1 DEF ReleasePublished
<1>2. ASSUME NEW d \in Daemons, DaemonStops(d) PROVE BatsFindAll'
  BY <1>2 DEF DaemonStops
<1>3. ASSUME NEW d \in Daemons, BatRuns(d) PROVE BatsFindAll'
  BY <1>3 DEF BatRuns, DaemonStarts
<1>4. CASE LogsOn
  BY <1>4 DEF LogsOn, DaemonStarts
<1>5. ASSUME NEW p \in Probes, FetchTag(p) \/ FetchSums(p) \/ Download(p) PROVE BatsFindAll'
  BY <1>5 DEF FetchTag, FetchSums, Download
<1>6. ASSUME NEW p \in Probes, OpenStaged(p) PROVE BatsFindAll'
  BY <1>6 DEF OpenStaged
<1>7. ASSUME NEW p \in Probes, CopyStaged(p) PROVE BatsFindAll'
  <2>1. ~twoProbes => UNCHANGED <<exe, sidecar>>
    BY <1>7 DEF CopyStaged, Written, OneStages
  <2>2. QED
    BY <1>7, <2>1 DEF CopyStaged
<1>8. ASSUME NEW p \in Probes, ApplyFails(p) PROVE BatsFindAll'
  BY <1>8 DEF ApplyFails
<1>9. ASSUME NEW p \in Probes, SwapUnix(p) PROVE BatsFindAll'
  BY <1>9 DEF SwapUnix, OneStages
<1>10. ASSUME NEW p \in Probes, Exec(p) PROVE BatsFindAll'
  BY <1>10 DEF Exec
<1>11. ASSUME NEW p \in Probes, UnlinkSidecar(p) PROVE BatsFindAll'
  BY <1>11 DEF UnlinkSidecar
<1>12. ASSUME NEW p \in Probes, MoveToSidecar(p) PROVE BatsFindAll'
  <2>1. ~twoProbes => staged.whole /\ \A q \in Probes : upc[q] \in AtFiles => q = p
    BY <1>12 DEF MoveToSidecar, OneStages, Staging, AtFiles
  <2>2. CASE upc'[p] = "moved"
    <3>1. ~twoProbes => sidecar'.whole
      BY <1>12, <2>1, <2>2 DEF MoveToSidecar
    <3>2. QED
      BY <1>12, <2>1, <2>2, <3>1 DEF MoveToSidecar, AtFiles
  <2>3. CASE upc'[p] = "copying"
    <3>1. tornMove' = (tornMove \/ bats # {}) /\ upc' = [upc EXCEPT ![p] = "copying"]
          /\ UNCHANGED <<exe, bats, twoProbes>> /\ upc[p] = "unlinked"
      BY <1>12, <2>3 DEF MoveToSidecar
    <3>2. ~twoProbes => \A q \in Probes : upc'[q] # "moved" /\ (upc'[q] = "copying" => q = p)
      BY <2>1, <3>1 DEF AtFiles
    <3>3. QED
      BY <3>1, <3>2
  <2>4. QED
    BY <1>12, <2>2, <2>3 DEF MoveToSidecar
<1>13. ASSUME NEW p \in Probes, StartBat(p) PROVE BatsFindAll'
  <2>1. ~twoProbes => \A q \in Probes : upc'[q] # "copying"
    BY <1>13 DEF StartBat, OneStages, Staging, AtFiles
  <2>2. QED
    BY <1>13, <2>1 DEF StartBat
<1>14. CASE UNCHANGED upVars
  BY <1>14 DEF upVars
<1>15. QED
  BY <1>1, <1>2, <1>3, <1>4, <1>5, <1>6, <1>7, <1>8, <1>9, <1>10, <1>11, <1>12, <1>13, <1>14, Zenon DEF UpNext

\* Once a release came out between two requests of a probe, that stays so.
LEMMA OutrunStays == [UpNext]_upVars => (outrun => outrun')
BY DEF UpNext, upVars, probeVars, ReleasePublished, DaemonStops, BatRuns, LogsOn, FetchTag, FetchSums, Download,
       OpenStaged, CopyStaged, ApplyFails, SwapUnix, Exec, UnlinkSidecar, MoveToSidecar, StartBat

\* For any releases, probes, daemons, platform and pauses: whatever fails or stops on the
\* way, what is installed has a published digest, and is whole and crosses no major
\* version but in the cases InstallIsSound names; the pauses stay within their cap.
THEOREM InstallsAreSound == UpSpec => []InstallIsSound
<1>1. UpInv /\ [UpNext]_upVars => UpInv'
  <2> SUFFICES ASSUME UpInv, [UpNext]_upVars PROVE UpInv'
    OBVIOUS
  <2>1. UpShape /\ Holds(Signed) /\ (~outrun' => Holds(Signed \ MajorReleases))
    BY OutrunStays DEF UpInv
  <2>2. \A p \in Probes : FetchSums(p) =>
          (upc'[p] = "download" => sum'[p] \in Signed /\ (~outrun' => sum'[p] \notin MajorReleases))
    BY <2>1, OnlySound
  <2>3. Holds(Signed)'
    BY <2>1, <2>2, HoldsKept
  <2>4. ~outrun' => Holds(Signed \ MajorReleases)'
    <3> SUFFICES ASSUME ~outrun' PROVE Holds(Signed \ MajorReleases)'
      OBVIOUS
    <3>1. \A p \in Probes : FetchSums(p) => (upc'[p] = "download" => sum'[p] \in Signed \ MajorReleases)
      BY <2>2
    <3>2. QED
      BY <2>1, <3>1, HoldsKept
  <2>5. QED
    BY <2>1, <2>3, <2>4, UpShapeKept, OneStagesKept, BatsFindAllKept DEF UpInv, Signed
<1>2. UpInv => InstallIsSound
  BY DEF UpInv, UpShape, OneStages, BatsFindAll, WholeOrMissing, Holds, InstallIsSound, FilesOf, Signed
<1>3. QED
  BY <1>1, <1>2, UpInitInv, PTL DEF UpSpec
=============================================================================
