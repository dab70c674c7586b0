------------------------------ MODULE Runtimes ------------------------------
(***************************************************************************)
(* driver/resolve_runtimes.py: a run seeds the env file of a workspace and *)
(* installs the toolchains its manifests ask for.  Workspaces share one    *)
(* pod: one /usr/local/bin, one /opt/runtimes.  Runs of different          *)
(* workspaces may overlap (each direct tool call has its own thread).      *)
(*                                                                         *)
(* /usr/local/bin/node is the image's, a link into the cache, or missing;  *)
(* `n install` replaces the one node the cache holds.  Every external      *)
(* command may fail or time out, which the code treats alike.              *)
(***************************************************************************)
EXTENDS Naturals, FiniteSets

CONSTANTS
  Workspaces,
  Manifests,           \* what a workspace may ship: [node, kinds]
  ImageMajor,          \* the Node baked into the image
  EnvKeys, Listed,     \* the keys of an env file, those of .env.example
  MaxPasted, MaxRuns   \* bounds: values the user writes into env files, runs

ASSUME RuntimesAssumption ==
  /\ ImageMajor \in Nat
  /\ \A m \in Manifests : m.node \in Nat /\ m.kinds \subseteq {"python", "rust", "go"}
  /\ Listed \subseteq EnvKeys /\ {MaxPasted, MaxRuns} \subseteq Nat

Kinds == {"python", "rust", "go"}

VARIABLES
  manifests,     \* of each workspace; node is its Node floor (0: no signal)
  example,       \* .env.example: "listed", "none", "badly encoded"
  envFile,       \* the values of .env.local: "absent", "dummy", "user", or
                 \* "garbled", which makes the file unreadable
  node,          \* what is at /usr/local/bin/node: "image", "cache", "none"
  cacheNode,     \* the major of the Node in the cache
  tools,         \* toolchains on PATH ("rust", "go") and workspaces with a venv
  rpc,           \* where the run of each workspace is
  failed,        \* an action of the run failed
  unlinked,      \* runs told that Node was installed though there was none to link
  \* History:
  pasted, resolved,
  blind,         \* workspaces that installed their Node because the one on PATH, which
                 \* would have done, did not answer
  jumbled        \* two runs installed Node at once, or one unlinked it and could not link

podVars == <<node, cacheNode, tools>>
envVars == <<envFile, pasted>>
runVars == <<rpc, failed, unlinked, resolved, blind, jumbled>>
runtimeVars == <<manifests, example, envVars, podVars, runVars>>
given   == <<manifests, example>>

NodeMajor ==
  CASE node = "image" -> ImageMajor [] node = "cache" -> cacheNode [] node = "none" -> 0

Turns(w, from, to) ==
  rpc[w] = from /\ rpc' = [rpc EXCEPT ![w] = to] /\ UNCHANGED resolved

Succeeds == UNCHANGED <<failed, unlinked, blind, jumbled>>
Fails(w) == failed' = [failed EXCEPT ![w] = TRUE] /\ UNCHANGED <<unlinked, blind, jumbled>>

\* Called by agent_dev_brief, or again from the command line.
Begin(w) ==
  /\ resolved < MaxRuns /\ resolved' = resolved + 1
  /\ rpc[w] \in {"idle", "done"} /\ rpc' = [rpc EXCEPT ![w] = "env"]
  /\ failed' = [failed EXCEPT ![w] = FALSE] /\ unlinked' = unlinked \ {w}
  /\ UNCHANGED <<given, envVars, podVars, blind, jumbled>>

-----------------------------------------------------------------------------
(* ensure_env_defaults.                                                    *)

\* The user, through an editor or the cabinet's secrets.
UserPastes(w, k) ==
  /\ pasted < MaxPasted /\ pasted' = pasted + 1
  /\ \E v \in {"user", "garbled"} : envFile' = [envFile EXCEPT ![w][k] = v]
  /\ UNCHANGED <<given, podVars, runVars>>

Readable(w) == \A k \in EnvKeys : envFile[w][k] # "garbled"

\* The file is written anew from the listed keys alone.
Seeded(w) ==
  [k \in EnvKeys |-> IF k \notin Listed THEN "absent"
                     ELSE IF Readable(w) /\ envFile[w][k] = "user" THEN "user" ELSE "dummy"]

EnvDefaults(w) ==
  /\ Turns(w, "env", "node")
  /\ \/ example[w] = "none" /\ Succeeds /\ UNCHANGED envFile
     \/ example[w] = "listed" /\ Succeeds /\ envFile' = [envFile EXCEPT ![w] = Seeded(w)]
     \/ example[w] = "listed" /\ Fails(w) /\ UNCHANGED envFile
  /\ UNCHANGED <<given, pasted, podVars>>

\* An example, or a package.json, that is not UTF-8 raises out of the run;
\* agent_dev_brief goes on.
EnvRaises(w) ==
  /\ example[w] = "badly encoded" /\ Turns(w, "env", "done") /\ Fails(w)
  /\ UNCHANGED <<given, envVars, podVars>>

ManifestRaises(w) ==
  /\ Turns(w, "node", "done") /\ Fails(w) /\ UNCHANGED <<given, envVars, podVars>>

-----------------------------------------------------------------------------
(* install_node.                                                           *)

Installing == {w \in Workspaces : rpc[w] \in {"n install", "unlink", "link"}}

\* Mutant: only the very version will do.
NodeFitsExactly(w) == NodeMajor = manifests[w].node

NodeFits(w) == NodeMajor >= manifests[w].node

\* `node --version` may fail or time out, which reads as no Node.
NodeCheck(w) ==
  \E answers \in IF manifests[w].node = 0 THEN {TRUE} ELSE BOOLEAN :
    LET goesOn == answers /\ NodeFits(w) IN
    /\ Turns(w, "node", IF goesOn THEN "python" ELSE "n install")
    /\ jumbled' = (jumbled \/ (~goesOn /\ Installing # {}))
    /\ blind' = IF ~answers /\ NodeFits(w) THEN blind \cup {w} ELSE blind
    /\ UNCHANGED <<given, envVars, podVars, failed, unlinked>>

NodeFails(w) ==
  /\ Turns(w, "n install", "python") /\ Fails(w) /\ UNCHANGED <<given, envVars, podVars>>

\* n itself is downloaded when it is missing.
NodeInstall(w) ==
  /\ Turns(w, "n install", "unlink") /\ cacheNode' = manifests[w].node
  /\ Succeeds /\ UNCHANGED <<given, envVars, node, tools>>

\* n is content but the cache has no Node: "install" is answered, nothing is linked.
NothingToLink(w) ==
  /\ cacheNode = 0 /\ Turns(w, "n install", "python")
  /\ unlinked' = unlinked \cup {w}
  /\ UNCHANGED <<given, envVars, podVars, failed, blind, jumbled>>

Unlink(w) ==
  /\ Turns(w, "unlink", "link") /\ node' = "none"
  /\ Succeeds /\ UNCHANGED <<given, envVars, cacheNode, tools>>

Link(w) ==
  /\ Turns(w, "link", "python") /\ node = "none" /\ node' = "cache"
  /\ Succeeds /\ UNCHANGED <<given, envVars, cacheNode, tools>>

\* unlink or symlink_to raises: the directory is read-only, or the name taken again.
LinkFails(w) ==
  /\ \/ Turns(w, "unlink", "python") /\ UNCHANGED jumbled
     \/ Turns(w, "link", "python") /\ jumbled' = TRUE
  /\ failed' = [failed EXCEPT ![w] = TRUE]
  /\ UNCHANGED <<given, envVars, podVars, unlinked, blind>>

-----------------------------------------------------------------------------
(* install_python_deps, install_rust, install_go: a toolchain first, then  *)
(* the dependencies of the workspace.                                      *)

NextKind == [python |-> "rust", rust |-> "go", go |-> "done"]
Fetching == [python |-> "pip install", rust |-> "cargo fetch", go |-> "go mod download"]
Toolchain(w, k) == IF k = "python" THEN <<"venv", w>> ELSE <<"on PATH", k>>

NotNeeded(w, k) ==
  /\ k \notin manifests[w].kinds /\ Turns(w, k, NextKind[k])
  /\ Succeeds /\ UNCHANGED <<given, envVars, podVars>>

Needed(w, k, to) == k \in manifests[w].kinds /\ Turns(w, k, to)

ToolchainFails(w, k) ==
  /\ Needed(w, k, NextKind[k]) /\ Toolchain(w, k) \notin tools
  /\ Fails(w) /\ UNCHANGED <<given, envVars, podVars>>

\* A cargo or go that could not be linked is called by its full name.
ToolchainReady(w, k) ==
  /\ Needed(w, k, Fetching[k])
  /\ \/ tools' = tools \cup {Toolchain(w, k)}
     \/ k # "python" /\ UNCHANGED tools
  /\ Succeeds /\ UNCHANGED <<given, envVars, node, cacheNode>>

Fetch(w, k) ==
  /\ Turns(w, Fetching[k], NextKind[k]) /\ (Succeeds \/ Fails(w))
  /\ UNCHANGED <<given, envVars, podVars>>

-----------------------------------------------------------------------------
ResolveStep(w) ==
  \/ Begin(w) \/ EnvDefaults(w) \/ EnvRaises(w) \/ ManifestRaises(w)
  \/ NodeCheck(w) \/ NodeFails(w) \/ NodeInstall(w) \/ NothingToLink(w)
  \/ Unlink(w) \/ Link(w) \/ LinkFails(w)
  \/ \E k \in Kinds :
       NotNeeded(w, k) \/ ToolchainFails(w, k) \/ ToolchainReady(w, k) \/ Fetch(w, k)

RuntimesInit ==
  /\ manifests \in [Workspaces -> Manifests]
  /\ example \in [Workspaces -> {"listed", "none", "badly encoded"}]
  /\ envFile = [w \in Workspaces |-> [k \in EnvKeys |-> "absent"]]
  /\ node = "image" /\ cacheNode = 0 /\ tools = {}
  /\ rpc = [w \in Workspaces |-> "idle"] /\ failed = [w \in Workspaces |-> FALSE]
  /\ pasted = 0 /\ resolved = 0 /\ unlinked = {} /\ blind = {} /\ jumbled = FALSE

RuntimesNext == \E w \in Workspaces :
  \/ ResolveStep(w) \/ \E k \in EnvKeys : UserPastes(w, k)

\* Once a run has ended well and had a Node to link, its workspace keeps a Node that is
\* new enough and, if it asked for one, a virtual environment, whatever runs for other
\* workspaces install afterwards.  Of installations that did not overlap and did not
\* break off at the link, only one can take the Node away: that of a workspace with a
\* lower floor, made while `node --version` failed.
RuntimesStay ==
  ~jumbled /\ Installing = {} =>
    \A w \in Workspaces :
      rpc[w] = "done" /\ ~failed[w] /\ w \notin unlinked =>
        /\ \/ NodeMajor >= manifests[w].node
           \/ \E v \in blind : manifests[v].node < manifests[w].node
        /\ "python" \in manifests[w].kinds => Toolchain(w, "python") \in tools

RuntimesSpec == RuntimesInit /\ [][RuntimesNext]_runtimeVars
=============================================================================
