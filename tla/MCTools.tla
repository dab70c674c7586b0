------------------------------- MODULE MCTools -------------------------------
(* Instances of the tools and of the services without fairness for TLC, side by
   side: a behaviour runs one of them while the others rest in an initial state,
   so that their state spaces add up.  *)
EXTENDS AutoUpdater, BrowserPool, Autonomous, Integrations, ToolGate, Runtimes, ProjectSetup

CONSTANT Parts

VARIABLE part

tVars == <<part, upVars, poolVars, autoVars, connectVars, gateVars, runtimeVars, setupVars>>

\* One project asks for more than the image's Node, the other for yet more.
Shipped == {[node |-> 2, kinds |-> {"python"}], [node |-> 3, kinds |-> {"go"}]}

Updater(A) == /\ part = "updater" /\ A
              /\ UNCHANGED <<part, poolVars, autoVars, connectVars, gateVars, runtimeVars, setupVars>>
Pool(A)    == /\ part = "pool" /\ A
              /\ UNCHANGED <<part, upVars, autoVars, connectVars, gateVars, runtimeVars, setupVars>>
Auto(A)    == /\ part = "autonomous" /\ A
              /\ UNCHANGED <<part, upVars, poolVars, connectVars, gateVars, runtimeVars, setupVars>>
Connect(A) == /\ part = "connect" /\ A
              /\ UNCHANGED <<part, upVars, poolVars, autoVars, gateVars, runtimeVars, setupVars>>
Tools(A)   == /\ part = "tools" /\ A
              /\ UNCHANGED <<part, upVars, poolVars, autoVars, connectVars, runtimeVars, setupVars>>
Resolve(A) == /\ part = "runtimes" /\ A
              /\ UNCHANGED <<part, upVars, poolVars, autoVars, connectVars, gateVars, setupVars>>
Setup(A)   == /\ part = "setup" /\ A
              /\ UNCHANGED <<part, upVars, poolVars, autoVars, connectVars, gateVars, runtimeVars>>

TInit ==
  /\ part \in Parts
  /\ UpInit /\ (part # "updater" => platform = "windows")
  /\ PoolInit /\ AutoInit
  /\ ConnectInit /\ (part # "connect" => front /\ window = "Default" /\ sessions = {} /\ file = "visitor")
  /\ SetupInit /\ (part # "setup" => \A c, d \in Setups : slug[c] = slug[d])
  /\ RuntimesInit
  /\ \A w \in Workspaces : manifests[w].node = 3 => example[w] = "none"
  /\ \E w \in Workspaces : manifests[w].node = 2
  /\ part # "runtimes" =>
       \A w \in Workspaces : manifests[w].node = 2 /\ example[w] = "listed"
  /\ GateInit
  /\ \A w \in Ways : asks[w] \in {{}, {"fs.write", "shell.exec"}}
  /\ part # "tools" =>
       /\ asks = [w \in Ways |-> {}]
       /\ \A c \in ToolCalls : via[c] = "direct" /\ tool[c] = "edit" /\ within[c]

TNext ==
  \/ Updater(UpNext) \/ Pool(PoolNext) \/ Auto(AutoNext) \/ Connect(ConnectNext)
  \/ Tools(GateNext) \/ Resolve(RuntimesNext) \/ Setup(SetupNext)

TSpec == TInit /\ [][TNext]_tVars
=============================================================================
