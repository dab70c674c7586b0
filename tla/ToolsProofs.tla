---------------------------- MODULE ToolsProofs -----------------------------
(***************************************************************************)
(* Theorems about what an agent calls, for any calls and bounds: of        *)
(* ToolGate, no call acts past its gates and the calls of one entry        *)
(* compose on the file; of Integrations, a connect tells the agent the     *)
(* truth; of BrowserPool, browsers stay within their cap; of Autonomous,   *)
(* plans, charges and wakes are accounted for.                             *)
(***************************************************************************)
EXTENDS ToolGate, Integrations, BrowserPool, Autonomous, FiniteSetTheorems,
        WellFoundedInduction, TLAPS

-----------------------------------------------------------------------------
(* ToolGate.                                                               *)

\* What a call must have passed before it acts.
Confirmed(c) == Asked(c) => reply[c] = "allow"
Admitted(c)  == (within[c] \/ tool[c] = "winget") /\ Confirmed(c)

\* The places between two awaits, where a call has its thread or the loop.
Inside == {"ask", "check", "read", "write", "run", "refused"}

\* What a call has passed, by its place.
GatesBehind ==
  \A c \in ToolCalls :
    /\ gpc[c] = "check" => Confirmed(c)
    /\ gpc[c] \in {"read", "write", "run", "running"} => Admitted(c)
    /\ c \in acted => Admitted(c) /\ gpc[c] \in {"running", "done"}

\* Whoever is inside an entry holds it.
Exclusive == \A c \in ToolCalls : gpc[c] \in Inside => Holder(c) = c

\* Unless crossed, an edit that read the file finds it as it was.
EditsFresh ==
  ~crossed =>
    /\ content = serial
    /\ \A c \in AtWork : seen[c] = content

\* The calls, the dialog and the file.
GateShape ==
  /\ gpc \in [ToolCalls -> Inside \cup {"called", "dialog", "running", "done"}]
  /\ via \in [ToolCalls -> Ways]
  /\ reply \in [ToolCalls -> {"none", "allow", "deny"}]
  /\ seen \in [ToolCalls -> SUBSET ToolCalls]
  /\ acted \subseteq ToolCalls /\ content \subseteq ToolCalls /\ crossed \in BOOLEAN

\* The inductive invariant of the gate.
GateInv == GateShape /\ GatesBehind /\ Exclusive /\ EditsFresh

\* No call has begun.
LEMMA GateInvInitial == GateInit => GateInv
<1> SUFFICES ASSUME GateInit PROVE GateInv
  OBVIOUS
<1>1. GateShape
  BY DEF GateInit, GateShape
<1>2. GatesBehind
  BY DEF GateInit, GatesBehind
<1>3. Exclusive
  BY DEF GateInit, Exclusive, Inside
<1>4. EditsFresh
  BY DEF GateInit, EditsFresh, AtWork
<1>5. QED
  BY <1>1, <1>2, <1>3, <1>4 DEF GateInv

-----------------------------------------------------------------------------
\* A step that touches neither the file nor what acted, and moves one call to a place
\* whose gates are behind it and, if it is inside, into its own thread or the loop
\* that no other call inside has.
LEMMA CallMoves ==
  ASSUME GateInv, NEW c \in ToolCalls, NEW to \in Inside \cup {"called", "dialog", "running", "done"},
         gpc' = [gpc EXCEPT ![c] = to], UNCHANGED <<callArgs, fileVars>>,
         reply' \in [ToolCalls -> {"none", "allow", "deny"}],
         \A d \in ToolCalls \ {c} : reply'[d] = reply[d],
         c \notin acted, acted' = acted,
         \A d \in ToolCalls \ {c} : Holder(d) = d => Holder(d)' = d,
         to \in Inside => Holder(c)' = c,
         to = "check" => Confirmed(c)',
         to \in {"read", "run", "running"} => Admitted(c)',
         to # "write"
  PROVE  GateInv'
<1>1. GateShape'
  BY DEF GateInv, GateShape, callArgs, fileVars
<1>2. \A d \in ToolCalls \ {c} :
        /\ gpc'[d] = gpc[d] /\ (Confirmed(d)' <=> Confirmed(d)) /\ (Admitted(d)' <=> Admitted(d))
  BY DEF GateInv, GateShape, callArgs, Confirmed, Admitted, Asked
<1>3. gpc'[c] = to
  BY DEF GateInv, GateShape
<1>4. GatesBehind'
  BY <1>2, <1>3 DEF GateInv, GatesBehind
<1>5. Exclusive'
  BY <1>2, <1>3 DEF GateInv, Exclusive, callArgs
<1>6. AtWork' \subseteq AtWork
  BY <1>2, <1>3 DEF AtWork, callArgs
<1>7. EditsFresh'
  BY <1>6 DEF GateInv, EditsFresh, fileVars
<1>8. QED
  BY <1>1, <1>4, <1>5, <1>7 DEF GateInv

-----------------------------------------------------------------------------
(* Every step.                                                             *)

\* Who has the thread and the loop after a step of one call.
LEMMA EntersAlone ==
  ASSUME NEW c \in ToolCalls, Enters(c), UNCHANGED via
  PROVE  Holder(c)' = c /\ \A d \in ToolCalls \ {c} : Holder(d) = d => Holder(d)' = d
BY ToolGateAssumption DEF Enters, Holder

\* A call that leaves its entry lets the others keep theirs.
LEMMA LeavesAlone ==
  ASSUME NEW c \in ToolCalls, Exits(c) \/ Yields(c), UNCHANGED via
  PROVE  \A d \in ToolCalls \ {c} : Holder(d) = d => Holder(d)' = d
BY DEF Exits, Yields, Has, Holder

\* While nobody enters or leaves, the entries stay whose they were.
LEMMA KeepsHolders ==
  ASSUME Keeps, UNCHANGED via
  PROVE  \A d : Holder(d)' = Holder(d)
BY DEF Keeps, Holder

\* A call acts at its effect, not before.
LEMMA NotYetActed ==
  ASSUME GateInv, NEW c \in ToolCalls, gpc[c] \notin {"running", "done"}
  PROVE  c \notin acted
BY DEF GateInv, GatesBehind

\* A call begins at its entry.
LEMMA CallStep ==
  ASSUME GateInv, NEW c \in ToolCalls, Call(c)
  PROVE  GateInv'
<1> DEFINE to == IF tool[c] = "powershell" /\ ~within[c] THEN "refused"
                 ELSE IF Asked(c) THEN "ask" ELSE "check"
<1>1. c \notin acted
  BY NotYetActed DEF Call
<1>2. Holder(c)' = c /\ \A d \in ToolCalls \ {c} : Holder(d) = d => Holder(d)' = d
  BY EntersAlone DEF Call, callArgs
<1>3. to = "check" => Confirmed(c)'
  BY DEF Call, callArgs, Confirmed, Asked
<1>4. to \in {"refused", "ask", "check"}
  OBVIOUS
<1>5. gpc' = [gpc EXCEPT ![c] = to] /\ UNCHANGED <<callArgs, fileVars, reply, acted>>
  BY DEF Call
<1>6. reply' \in [ToolCalls -> {"none", "allow", "deny"}]
  BY <1>5 DEF GateInv, GateShape
<1> HIDE DEF to
<1>7. QED
  BY <1>1, <1>2, <1>3, <1>4, <1>5, <1>6, CallMoves DEF Inside

\* The dialog is of the call that opened it.
LEMMA DialogStep ==
  ASSUME GateInv, NEW c \in ToolCalls, Dialog(c)
  PROVE  GateInv'
<1>1. c \notin acted
  BY NotYetActed DEF Dialog, Passes
<1>2. \A d \in ToolCalls \ {c} : Holder(d) = d => Holder(d)' = d
  BY LeavesAlone DEF Dialog, callArgs
<1>3. reply' \in [ToolCalls -> {"none", "allow", "deny"}]
  BY DEF Dialog, GateInv, GateShape
<1>4. QED
  BY <1>1, <1>2, <1>3, CallMoves DEF Dialog, Passes, Inside

\* The answer: only a call that is let through goes on to its check.
LEMMA AnswerStep ==
  ASSUME GateInv, NEW c \in ToolCalls, UserAllows(c) \/ UserDenies(c) \/ NoAnswer(c)
  PROVE  GateInv'
<1>1. PICK a \in {"none", "allow", "deny"}, to \in {"check", "refused"} :
        Answered(c, a, to) /\ (to = "check" => a = "allow")
  BY DEF UserAllows, UserDenies, NoAnswer
<1>2. c \notin acted
  BY <1>1, NotYetActed DEF Answered, Passes
<1>3. Holder(c)' = c /\ \A d \in ToolCalls \ {c} : Holder(d) = d => Holder(d)' = d
  BY <1>1, EntersAlone, KeepsHolders DEF Answered, Resumes, Has, callArgs
<1>4. /\ reply' \in [ToolCalls -> {"none", "allow", "deny"}] /\ reply'[c] = a
      /\ \A d \in ToolCalls \ {c} : reply'[d] = reply[d]
  BY <1>1 DEF Answered, GateInv, GateShape
<1>5. to = "check" => Confirmed(c)'
  BY <1>1, <1>4 DEF Confirmed
<1>6. gpc' = [gpc EXCEPT ![c] = to] /\ UNCHANGED <<callArgs, fileVars, acted>>
  BY <1>1 DEF Answered, Passes
<1>7. QED
  BY <1>2, <1>3, <1>4, <1>5, <1>6, CallMoves DEF Inside

\* A check passes on what the scope allows.
LEMMA CheckStep ==
  ASSUME GateInv, NEW c \in ToolCalls, Check(c)
  PROVE  GateInv'
<1> DEFINE to == IF ~within[c] /\ tool[c] # "winget" THEN "refused"
                 ELSE IF tool[c] \in Commands THEN "run"
                 ELSE IF tool[c] = "replace" THEN "write" ELSE "read"
<1>1. /\ gpc[c] = "check" /\ gpc' = [gpc EXCEPT ![c] = to] /\ Holder(c) = c
      /\ UNCHANGED <<callArgs, fileVars, reply, acted>>
  BY DEF Check, Passes, Has
<1>2. c \notin acted
  BY <1>1, NotYetActed
<1>3. \A d : Holder(d)' = Holder(d)
  BY KeepsHolders DEF Check, callArgs
<1>4. to # "refused" => Admitted(c)'
  BY <1>1 DEF GateInv, GatesBehind, Admitted, Confirmed, Asked, callArgs
<1>5. reply' \in [ToolCalls -> {"none", "allow", "deny"}]
  BY <1>1 DEF GateInv, GateShape
<1>6. CASE to # "write"
  <2>1. to \in {"refused", "run", "read"}
    BY <1>6
  <2> HIDE DEF to
  <2>2. QED
    BY <1>1, <1>2, <1>3, <1>4, <1>5, <1>6, <2>1, CallMoves DEF Inside
<1>7. CASE to = "write"
  <2>1. tool[c] = "replace"
    BY <1>7
  <2>2. /\ gpc' \in [ToolCalls -> Inside \cup {"called", "dialog", "running", "done"}]
        /\ gpc'[c] = "write" /\ \A d \in ToolCalls \ {c} : gpc'[d] = gpc[d]
    BY <1>1, <1>7 DEF GateInv, GateShape, Inside
  <2> HIDE DEF to
  <2>3. GateShape'
    BY <1>1, <2>2 DEF GateInv, GateShape, callArgs, fileVars
  <2>4. GatesBehind'
    BY <1>1, <1>2, <1>4, <1>7, <2>2 DEF GateInv, GatesBehind, Confirmed, Admitted, Asked, callArgs
  <2>5. Exclusive'
    BY <1>1, <1>3, <2>1, <2>2 DEF GateInv, Exclusive, callArgs, Inside
  <2>6. AtWork' = AtWork
    BY <1>1, <2>1, <2>2 DEF AtWork, callArgs
  <2>7. EditsFresh'
    BY <1>1, <2>6 DEF GateInv, EditsFresh, fileVars
  <2>8. QED
    BY <2>3, <2>4, <2>5, <2>7 DEF GateInv
<1>8. QED
  BY <1>6, <1>7

\* A call that reads the file has its thread or the loop until it has written.
LEMMA ReadStep ==
  ASSUME GateInv, NEW c \in ToolCalls, ReadFile(c)
  PROVE  GateInv'
<1>1. /\ gpc[c] = "read" /\ Holder(c) = c /\ c \notin acted
      /\ gpc' = [gpc EXCEPT ![c] = "write"] /\ seen' = [seen EXCEPT ![c] = content]
      /\ UNCHANGED <<callArgs, reply, content, serial, crossed, acted>>
  BY NotYetActed DEF ReadFile, Passes, Has
<1>2. \A d : Holder(d)' = Holder(d)
  BY KeepsHolders DEF ReadFile, callArgs
<1>3. /\ gpc' \in [ToolCalls -> Inside \cup {"called", "dialog", "running", "done"}]
      /\ gpc'[c] = "write" /\ \A d \in ToolCalls \ {c} : gpc'[d] = gpc[d]
      /\ seen'[c] = content /\ \A d \in ToolCalls \ {c} : seen'[d] = seen[d]
  BY <1>1 DEF GateInv, GateShape, Inside
<1>4. GateShape'
  BY <1>1, <1>3 DEF GateInv, GateShape, callArgs
<1>5. GatesBehind'
  BY <1>1, <1>3 DEF GateInv, GatesBehind, Confirmed, Admitted, Asked, callArgs
<1>6. Exclusive'
  BY <1>1, <1>2, <1>3 DEF GateInv, Exclusive, callArgs, Inside
<1>7. EditsFresh'
  BY <1>1, <1>3 DEF GateInv, EditsFresh, AtWork, callArgs
<1>8. QED
  BY <1>4, <1>5, <1>6, <1>7 DEF GateInv

\* Two calls of one entry are not at work on the file at once.
LEMMA AloneAtWork ==
  ASSUME GateInv, NEW c \in ToolCalls, NEW d \in ToolCalls \ {c}, gpc[c] = "write", gpc[d] = "write"
  PROVE  via[d] # via[c]
BY DEF GateInv, Exclusive, Inside, Holder

\* A write is of what its call read.
LEMMA WriteStep ==
  ASSUME GateInv, NEW c \in ToolCalls, WriteFile(c)
  PROVE  GateInv'
<1>1. /\ gpc[c] = "write" /\ gpc' = [gpc EXCEPT ![c] = "done"]
      /\ content' = IF tool[c] = "replace" THEN {c} ELSE seen[c] \cup {c}
      /\ serial' = IF tool[c] = "replace" THEN {c} ELSE serial \cup {c}
      /\ crossed' = (crossed \/ \E d \in AtWork : via[d] # via[c])
      /\ acted' = acted \cup {c} /\ UNCHANGED <<callArgs, seen, reply>>
  BY DEF WriteFile, Passes, Result
<1>2. /\ gpc' \in [ToolCalls -> Inside \cup {"called", "dialog", "running", "done"}]
      /\ gpc'[c] = "done" /\ \A d \in ToolCalls \ {c} : gpc'[d] = gpc[d]
  BY <1>1 DEF GateInv, GateShape, Inside
<1>3. GateShape'
  BY <1>1, <1>2 DEF GateInv, GateShape, callArgs
<1>4. GatesBehind'
  BY <1>1, <1>2 DEF GateInv, GatesBehind, Confirmed, Admitted, Asked, callArgs
<1>5. Exclusive'
  <2>1. \A d \in ToolCalls \ {c} : Holder(d) = d => Holder(d)' = d
    BY <1>1, LeavesAlone, KeepsHolders DEF WriteFile, callArgs
  <2>2. QED
    BY <1>2, <2>1 DEF GateInv, Exclusive, Inside
<1>6. EditsFresh'
  <2>1. SUFFICES ASSUME ~crossed'
                 PROVE  content' = serial' /\ AtWork' = {}
    BY DEF EditsFresh
  <2>2. ~crossed /\ \A d \in AtWork : via[d] = via[c]
    BY <1>1, <2>1
  <2>3. AtWork \subseteq {c}
    BY <1>1, <2>2, AloneAtWork DEF AtWork
  <2>4. AtWork' = {}
    BY <1>1, <1>2, <2>3 DEF AtWork, callArgs
  <2>5. tool[c] # "replace" => seen[c] = content /\ content = serial
    BY <1>1, <2>2 DEF GateInv, EditsFresh, AtWork
  <2>6. QED
    BY <1>1, <2>4, <2>5
<1>7. QED
  BY <1>3, <1>4, <1>5, <1>6 DEF GateInv

\* A command runs behind its gates.
LEMMA RunStep ==
  ASSUME GateInv, NEW c \in ToolCalls, RunCommand(c) \/ CommandEnds(c)
  PROVE  GateInv'
<1>1. PICK to \in {"running", "done"} :
        /\ gpc[c] \in {"run", "running"} /\ gpc' = [gpc EXCEPT ![c] = to]
        /\ acted \subseteq acted' /\ acted' \subseteq acted \cup {c}
        /\ UNCHANGED <<callArgs, reply, fileVars>>
  BY DEF RunCommand, CommandEnds, Passes, Result
<1>2. /\ gpc' \in [ToolCalls -> Inside \cup {"called", "dialog", "running", "done"}]
      /\ gpc'[c] = to /\ \A d \in ToolCalls \ {c} : gpc'[d] = gpc[d]
  BY <1>1 DEF GateInv, GateShape, Inside
<1>3. GateShape'
  BY <1>1, <1>2 DEF GateInv, GateShape, callArgs, fileVars
<1>4. GatesBehind'
  BY <1>1, <1>2 DEF GateInv, GatesBehind, Confirmed, Admitted, Asked, callArgs
<1>5. Exclusive'
  <2>1. \A d \in ToolCalls \ {c} : Holder(d) = d => Holder(d)' = d
    BY <1>1, LeavesAlone, KeepsHolders DEF RunCommand, CommandEnds, callArgs
  <2>2. QED
    BY <1>2, <2>1 DEF GateInv, Exclusive, Inside
<1>6. AtWork' \subseteq AtWork
  BY <1>1, <1>2 DEF AtWork, callArgs
<1>7. EditsFresh'
  BY <1>1, <1>6 DEF GateInv, EditsFresh, fileVars
<1>8. QED
  BY <1>3, <1>4, <1>5, <1>7 DEF GateInv

\* A call that fails lets go.
LEMMA FailStep ==
  ASSUME GateInv, NEW c \in ToolCalls, CallFails(c)
  PROVE  GateInv'
<1>1. /\ gpc[c] \notin {"running", "done"} /\ gpc' = [gpc EXCEPT ![c] = "done"]
      /\ UNCHANGED <<callArgs, reply, fileVars, acted>>
  BY DEF CallFails, Result
<1>2. c \notin acted
  BY <1>1, NotYetActed
<1>3. \A d \in ToolCalls \ {c} : Holder(d) = d => Holder(d)' = d
  BY LeavesAlone DEF CallFails, Result, callArgs
<1>4. reply' \in [ToolCalls -> {"none", "allow", "deny"}]
  BY <1>1 DEF GateInv, GateShape
<1>5. QED
  BY <1>1, <1>2, <1>3, <1>4, CallMoves DEF Inside

\* Each step of the calls and of the user keeps the invariant.
LEMMA GateInvKept == GateInv /\ [GateNext]_gateVars => GateInv'
<1>1. ASSUME GateInv, NEW c \in ToolCalls, ToolStep(c) \/ UserAllows(c) \/ UserDenies(c)
      PROVE  GateInv'
  BY <1>1, CallStep, DialogStep, AnswerStep, CheckStep, ReadStep, WriteStep, RunStep, FailStep
     DEF ToolStep
<1>2. ASSUME GateInv, UNCHANGED gateVars
      PROVE  GateInv'
  BY <1>2 DEF gateVars, callArgs, fileVars, GateInv, GateShape, GatesBehind, Exclusive,
              EditsFresh, AtWork, Confirmed, Admitted, Asked, Holder
<1>3. QED
  BY <1>1, <1>2 DEF GateNext

-----------------------------------------------------------------------------
\* For any calls, of both entries and in any interleaving: what wrote or ran was
\* within its scope and, where the scope asks first, allowed by the user.
THEOREM NoCallEvadesItsGate == GateSpec => []ActsAreGated
<1>1. GateInit => GateInv
  BY GateInvInitial
<1>2. GateInv => ActsAreGated
  BY DEF GateInv, GateShape, GatesBehind, ActsAreGated, Admitted, Confirmed
<1>3. QED
  BY <1>1, <1>2, GateInvKept, PTL DEF GateSpec

\* For any calls: unless the two entries met on the file, it holds what the calls
\* would have left one after the other.
THEOREM EditsAreSerial == GateSpec => []EditsCompose
<1>1. GateInit => GateInv
  BY GateInvInitial
<1>2. GateInv => EditsCompose
  BY DEF GateInv, EditsFresh, EditsCompose
<1>3. QED
  BY <1>1, <1>2, GateInvKept, PTL DEF GateSpec

-----------------------------------------------------------------------------
(* Integrations.                                                           *)

\* The call and the browser.
ConnectShape ==
  /\ front \in BOOLEAN /\ disturbed \in BOOLEAN /\ agreed \in BOOLEAN
  /\ window \in Profiles /\ sessions \subseteq Profiles
  /\ file \in {"Default", "visitor"} /\ flow \in Flows
  /\ cookies \in {"none", "visitor"} \cup Profiles /\ keys \in {"none"} \cup Profiles

\* What a call that is under way knows at each place: nothing was answered or sent
\* yet, and it posts only what it has read.
CallKnows ==
  /\ ipc # "idle" => answered = "none" /\ sent = <<>>
  /\ ipc \in {"registry", "entry", "read", "open", "probe", "export"} => keys = "none"
  /\ ipc = "read" => flow = "direct"
  /\ ipc \in {"open", "probe", "export", "dump"} => flow # "direct"
  /\ ipc = "dump" => flow = "telegram_app"
  /\ ipc = "post" => IF flow = "telegram_app" THEN keys # "none" ELSE cookies # "none"

\* While nobody touches the browser, the page in front is the provider's once it was
\* opened; and if the page that was asked was Default's and the file up to date, Default
\* is logged in, its window stays in front, and what was read is Default's.
SessionSeen ==
  flow # "direct" /\ ~disturbed =>
    /\ ipc = "probe" => front
    /\ ipc \in {"export", "dump", "post"} /\ agreed =>
         window = "Default" /\ "Default" \in sessions /\ file = "Default" /\ keys \in {"none", "Default"}
    /\ ipc \in {"dump", "post"} /\ agreed => cookies = "Default"

\* The inductive invariant of a connect.
ConnectInv == ConnectShape /\ CallKnows /\ SessionSeen /\ ConnectIsHonest

\* No call has begun.
LEMMA ConnectInitInv == ConnectInit => ConnectInv
BY DEF ConnectInit, ConnectInv, ConnectShape, CallKnows, SessionSeen, ConnectIsHonest, Flows, Profiles

\* Each step of a flow, of Chrome or of the user keeps what the call knows.
LEMMA ConnectNextInv == ConnectInv /\ [ConnectNext]_connectVars => ConnectInv'
<1> SUFFICES ASSUME ConnectInv, [ConnectNext]_connectVars PROVE ConnectInv'
  OBVIOUS
<1> USE DEF ConnectInv, ConnectShape, CallKnows, SessionSeen, ConnectIsHonest, Flows, Profiles,
            userVars, fetchVars, readVars
<1>1. CASE UserActs
  <2>1. front' \in BOOLEAN
    BY <1>1, Zenon DEF UserActs
  <2>2. window' \in Profiles /\ sessions' \subseteq Profiles /\ disturbed' = TRUE
        /\ UNCHANGED <<file, cookies, keys, ipc, flow, answered, sent, agreed>>
    BY <1>1 DEF UserActs
  <2>3. QED
    BY <2>1, <2>2
<1>2. CASE CookiesFlushed
  BY <1>2 DEF CookiesFlushed, UpToDate
<1>3. CASE CacheExpires
  BY <1>3 DEF CacheExpires
<1>4. CASE fetch_registry
  BY <1>4 DEF fetch_registry, Step, Ends
<1>5. CASE ChooseFlow
  BY <1>5 DEF ChooseFlow, Step, Ends
<1>6. CASE chrome_open_url
  BY <1>6 DEF chrome_open_url, Step, Ends
<1>7. CASE Probe
  <2>1. agreed' \in BOOLEAN
    BY <1>7 DEF Probe
  <2>2. CASE ipc' = "idle"
    BY <1>7, <2>1, <2>2 DEF Probe, Step, Ends
  <2>3. CASE ipc' = "export"
    BY <1>7, <2>1, <2>3 DEF Probe, Step, Ends, UpToDate
  <2>4. QED
    BY <1>7, <2>2, <2>3 DEF Probe, Step, Ends
<1>8. CASE chrome_export_cookies
  BY <1>8 DEF chrome_export_cookies, Found, Step, Ends
<1>9. CASE DumpKeys
  BY <1>9 DEF DumpKeys, Step, Ends
<1>10. CASE ReadStores
  BY <1>10 DEF ReadStores, Step, Ends
<1>11. CASE Post
  BY <1>11 DEF Post, Ends
<1>12. ASSUME NEW f \in Flows, Called(f) PROVE ConnectInv'
  BY <1>12 DEF Called
<1>13. CASE UNCHANGED connectVars
  BY <1>13 DEF connectVars
<1>14. QED
  BY <1>1, <1>2, <1>3, <1>4, <1>5, <1>6, <1>7, <1>8, <1>9, <1>10, <1>11, <1>12, <1>13 DEF ConnectNext

\* For any calls, of windows of either profile, a cookie file that lags behind and whatever
\* the user does in the browser meanwhile: a call that reports an error before the request
\* sent nothing, "ok" means that something that can log in was sent, and a flow that asked
\* a page of Default sends Default's cookies and keys only, unless the user touched the
\* browser or the file was behind when the page was asked.
THEOREM ConnectHonesty == ConnectSpec => []ConnectIsHonest
<1>1. ConnectInv => ConnectIsHonest
  BY DEF ConnectInv
<1>2. QED
  BY <1>1, ConnectInitInv, ConnectNextInv, PTL DEF ConnectSpec

-----------------------------------------------------------------------------
(* BrowserPool.                                                            *)

\* The slots that close a context.
Closing == {s \in PoolSlots : ppc[s] = "close"}

\* The pool, its slots and what runs.
PoolShape ==
  /\ ppc \in [PoolSlots -> {"idle", "driver", "launch", "context", "close"}]
  /\ DOMAIN contexts \subseteq PoolSlots
  /\ target \in [PoolSlots -> Nat]
  /\ \A s \in DOMAIN contexts : contexts[s] \in Nat
  /\ launches \in Nat /\ browser \in Nat /\ driver \in Nat
  /\ chromiums \subseteq Nat /\ drivers \subseteq Nat
  /\ lock \in PoolSlots \cup {NoOne}
  /\ down \in {"off", "release", "driver", "done"}
  /\ overlapped_shutdown \in BOOLEAN /\ failedLaunch \in BOOLEAN
  /\ leaks \in Nat /\ DOMAIN leaked \subseteq 1 .. leaks

\* Whoever is between the lock and its release holds the lock, below the cap.
LockedOut ==
  /\ \A s \in PoolSlots : ppc[s] \in {"driver", "launch", "context"} <=> lock = s
  /\ lock \notin DOMAIN contexts
  /\ Cardinality(DOMAIN contexts) <= MaxContexts
  /\ lock # NoOne => Cardinality(DOMAIN contexts) < MaxContexts

\* An open context is a slot's, or one that its slot is closing.
OpenIsKnown ==
  \A c \in open :
    \/ \E s \in DOMAIN contexts : c = <<s, contexts[s]>>
    \/ \E s \in Closing : c = <<s, target[s]>>

\* The chromium of the pool is the one that runs, and its driver, unless a shutdown
\* was overlapped or a launch failed.
OneChromium ==
  /\ \A s \in PoolSlots : ppc[s] \in {"driver", "launch"} => browser = 0
  /\ \A s \in PoolSlots : ppc[s] = "launch" => launches # 0
  /\ \A c \in open : c[2] \in chromiums
  /\ \A k \in DOMAIN leaked : leaked[k] \in chromiums
  /\ ~overlapped_shutdown =>
       /\ down # "off" => lock = NoOne
       /\ down \in {"off", "release"} => chromiums = {browser} \ {0}
       /\ down \in {"driver", "done"} => chromiums \subseteq unclosed /\ \A a, b \in chromiums : a = b
  /\ ~overlapped_shutdown /\ ~failedLaunch =>
       /\ down # "done" => drivers = {driver} \ {0}
       /\ down = "done" => drivers \subseteq unstopped
       /\ down \in {"off", "release"} /\ browser = 0 /\ (\A s \in PoolSlots : ppc[s] # "launch") => driver = 0

\* The inductive invariant of the pool.
PoolInv == PoolShape /\ LockedOut /\ OpenIsKnown /\ OneChromium

\* A set of pairs with distinct first parts is no larger than the set of first parts.
LEMMA PairsCount ==
  ASSUME NEW S, IsFiniteSet(S), NEW f
  PROVE  IsFiniteSet({<<s, f[s]>> : s \in S}) /\ Cardinality({<<s, f[s]>> : s \in S}) <= Cardinality(S)
<1> DEFINE T == {<<s, f[s]>> : s \in S}
           g == [s \in S |-> <<s, f[s]>>]
<1>1. g \in Surjection(S, T)
  BY DEF Surjection
<1>2. QED
  BY <1>1, FS_Surjection

\* Open contexts are no more than the slots that have one and those that close one.
LEMMA OpenIsBounded ==
  ASSUME PoolShape, LockedOut, OpenIsKnown
  PROVE  Cardinality(open) <= MaxContexts + Cardinality(Closing) /\ IsFiniteSet(open) /\ IsFiniteSet(Closing)
<1> DEFINE A == {<<s, contexts[s]>> : s \in DOMAIN contexts}
           B == {<<s, target[s]>> : s \in Closing}
<1>1. IsFiniteSet(DOMAIN contexts) /\ IsFiniteSet(Closing)
  BY PoolAssumption, FS_Subset DEF PoolShape, Closing
<1>2. IsFiniteSet(A) /\ Cardinality(A) <= Cardinality(DOMAIN contexts)
  BY <1>1, PairsCount
<1>3. IsFiniteSet(B) /\ Cardinality(B) <= Cardinality(Closing)
  BY <1>1, PairsCount
<1>4. open \subseteq A \cup B
  BY DEF OpenIsKnown
<1> HIDE DEF A, B
<1>5. IsFiniteSet(A \cup B) /\ Cardinality(A \cup B) = Cardinality(A) + Cardinality(B) - Cardinality(A \cap B)
  BY <1>2, <1>3, FS_Union
<1>6. Cardinality(A \cap B) \in Nat
  BY <1>2, FS_Intersection, FS_CardinalityType
<1>7. IsFiniteSet(open) /\ Cardinality(open) <= Cardinality(A \cup B)
  BY <1>4, <1>5, FS_Subset
<1>8. {Cardinality(open), Cardinality(A), Cardinality(B), Cardinality(DOMAIN contexts), Cardinality(Closing), MaxContexts} \subseteq Nat
  BY <1>1, <1>2, <1>3, <1>7, FS_CardinalityType, PoolAssumption
<1>9. QED
  BY <1>1, <1>2, <1>3, <1>5, <1>6, <1>7, <1>8 DEF LockedOut

\* The pool is empty.
LEMMA PoolInitInv == PoolInit => PoolInv
<1> SUFFICES ASSUME PoolInit PROVE PoolInv
  OBVIOUS
<1>1. DOMAIN contexts = {}
  BY DEF PoolInit
<1>2. Cardinality(DOMAIN contexts) = 0
  BY <1>1, FS_EmptySet
<1>3. PoolShape
  BY <1>1 DEF PoolInit, PoolShape
<1>4. LockedOut
  BY <1>1, <1>2, PoolAssumption DEF PoolInit, LockedOut
<1>5. OpenIsKnown /\ OneChromium
  BY DEF PoolInit, OpenIsKnown, OneChromium
<1>6. QED
  BY <1>3, <1>4, <1>5 DEF PoolInv

\* Each step of the pool keeps its shape.
LEMMA PoolShapeKept == PoolInv /\ [PoolNext]_poolVars => PoolShape'
<1> SUFFICES ASSUME PoolInv, [PoolNext]_poolVars PROVE PoolShape'
  OBVIOUS
<1> USE DEF PoolInv, PoolShape, Goes, Holds, Without, Shutdown, osVars, contextVars, endVars, histVars
<1>0. ASSUME NEW c, ContextCloses(c)
      PROVE  leaks' \in Nat /\ DOMAIN leaked' \subseteq 1 .. leaks'
  <2>1. CASE UNCHANGED <<leaked, leaks>>
    BY <2>1
  <2>2. CASE leaks' = leaks + 1 /\ DOMAIN leaked' = DOMAIN leaked \cup {leaks + 1}
    BY <2>2
  <2>3. QED
    BY <1>0, <2>1, <2>2 DEF ContextCloses
<1>1. CASE ShutdownBegins
  BY <1>1 DEF ShutdownBegins
<1>2. CASE ReleaseNext
  <2>1. leaks' \in Nat /\ DOMAIN leaked' \subseteq 1 .. leaks'
    BY <1>0, <1>2 DEF ReleaseNext
  <2>2. QED
    BY <1>2, <2>1 DEF ReleaseNext
<1>3. CASE CloseBrowser
  BY <1>3 DEF CloseBrowser, ChromiumEnds
<1>4. CASE StopDriver
  BY <1>4 DEF StopDriver
<1>5. ASSUME NEW s \in PoolSlots, acquire(s) PROVE PoolShape'
  BY <1>5 DEF acquire
<1>6. ASSUME NEW s \in PoolSlots, StartDriver(s) PROVE PoolShape'
  BY <1>6 DEF StartDriver
<1>7. ASSUME NEW s \in PoolSlots, Launch(s) PROVE PoolShape'
  BY <1>7 DEF Launch
<1>8. ASSUME NEW s \in PoolSlots, NewContext(s) PROVE PoolShape'
  BY <1>8 DEF NewContext
<1>9. ASSUME NEW s \in PoolSlots, release(s) PROVE PoolShape'
  BY <1>9 DEF release
<1>10. ASSUME NEW s \in PoolSlots, Closes(s) PROVE PoolShape'
  <2>1. leaks' \in Nat /\ DOMAIN leaked' \subseteq 1 .. leaks'
    BY <1>0, <1>10 DEF Closes
  <2>2. QED
    BY <1>10, <2>1 DEF Closes
<1>11. CASE UNCHANGED poolVars
  BY <1>11 DEF poolVars
<1>12. QED
  BY <1>1, <1>2, <1>3, <1>4, <1>5, <1>6, <1>7, <1>8, <1>9, <1>10, <1>11, Zenon DEF PoolNext

\* The lock keeps the others out, and the pool below its cap.
LEMMA LockedOutKept == PoolInv /\ [PoolNext]_poolVars => LockedOut'
<1> SUFFICES ASSUME PoolInv, [PoolNext]_poolVars PROVE LockedOut'
  OBVIOUS
<1> DEFINE Held == DOMAIN contexts
<1>1. IsFiniteSet(Held) /\ Cardinality(Held) \in Nat
  BY PoolAssumption, FS_Subset, FS_CardinalityType DEF PoolInv, PoolShape
<1> USE PoolAssumption DEF PoolInv, PoolShape, LockedOut, Goes, Shutdown, osVars, contextVars, endVars, histVars
<1>2. ASSUME UNCHANGED <<contexts, lock, ppc>> PROVE LockedOut'
  BY <1>2
<1>3. ASSUME NEW s \in PoolSlots, acquire(s) PROVE LockedOut'
  BY <1>1, <1>3 DEF acquire, Holds
<1>4. ASSUME NEW s \in PoolSlots, StartDriver(s) PROVE LockedOut'
  BY <1>4 DEF StartDriver
<1>5. ASSUME NEW s \in PoolSlots, Launch(s) PROVE LockedOut'
  <2>1. lock = s /\ contexts' = contexts
    BY <1>5 DEF Launch
  <2>2. (lock' = s /\ ppc' = [ppc EXCEPT ![s] = "context"]) \/ (lock' = NoOne /\ ppc' = [ppc EXCEPT ![s] = "idle"])
    BY <1>5, <2>1 DEF Launch
  <2>3. QED
    BY <2>1, <2>2
<1>6. ASSUME NEW s \in PoolSlots, NewContext(s) PROVE LockedOut'
  <2>1. lock = s /\ lock' = NoOne /\ ppc' = [ppc EXCEPT ![s] = "idle"]
    BY <1>6 DEF NewContext
  <2>2. Cardinality(Held) < MaxContexts
    BY <2>1
  <2>3. DOMAIN contexts' \in {Held, Held \cup {s}}
    BY <1>6 DEF NewContext
  <2>4. Cardinality(Held \cup {s}) = IF s \in Held THEN Cardinality(Held) ELSE Cardinality(Held) + 1
    BY <1>1, FS_AddElement, Zenon
  <2>5. Cardinality(Held \cup {s}) \in {Cardinality(Held), Cardinality(Held) + 1}
    BY <2>4
  <2>6. Cardinality(DOMAIN contexts') <= MaxContexts
    BY <1>1, <2>2, <2>3, <2>5
  <2>7. \A t \in PoolSlots : ppc'[t] \in {"driver", "launch", "context"} <=> lock' = t
    BY <2>1
  <2>8. NoOne \notin DOMAIN contexts'
    BY <2>3
  <2>9. QED
    BY <2>1, <2>6, <2>7, <2>8
<1>7. ASSUME NEW s, lock = NoOne, lock' = NoOne, contexts' = Without(s)
      PROVE  Cardinality(DOMAIN contexts') <= MaxContexts
  <2>1. DOMAIN contexts' = Held \ {s}
    BY <1>7 DEF Without
  <2>2. IsFiniteSet(Held \ {s}) /\ Cardinality(Held \ {s}) <= Cardinality(Held)
    BY <1>1, FS_Subset
  <2>3. Cardinality(Held \ {s}) \in Nat
    BY <2>2, FS_CardinalityType
  <2>4. QED
    BY <1>1, <2>1, <2>2, <2>3
<1>8. ASSUME NEW s \in PoolSlots, release(s) PROVE LockedOut'
  <2>1. Cardinality(DOMAIN contexts') <= MaxContexts
    BY <1>7, <1>8 DEF release
  <2>2. NoOne \notin DOMAIN contexts'
    BY <1>8 DEF release, Without
  <2>3. QED
    BY <1>8, <2>1, <2>2 DEF release
<1>9. ASSUME NEW s \in PoolSlots, Closes(s) PROVE LockedOut'
  BY <1>9 DEF Closes
<1>10. CASE ReleaseNext
  <2>1. lock = NoOne /\ UNCHANGED <<lock, ppc>>
    BY <1>10 DEF ReleaseNext
  <2>2. contexts' = contexts \/ \E s : contexts' = Without(s)
    BY <1>10 DEF ReleaseNext
  <2>3. Cardinality(DOMAIN contexts') <= MaxContexts
    BY <1>7, <2>1, <2>2
  <2>4. NoOne \notin DOMAIN contexts'
    BY <2>2 DEF Without
  <2>5. QED
    BY <2>1, <2>3, <2>4
<1>11. CASE ShutdownBegins \/ CloseBrowser \/ StopDriver \/ UNCHANGED poolVars
  BY <1>2, <1>11 DEF ShutdownBegins, CloseBrowser, StopDriver, poolVars
<1>12. QED
  BY <1>3, <1>4, <1>5, <1>6, <1>8, <1>9, <1>10, <1>11, Zenon DEF PoolNext

\* A context is opened for its slot and closed with it.
LEMMA OpenIsKnownKept == PoolInv /\ [PoolNext]_poolVars => OpenIsKnown'
<1> SUFFICES ASSUME PoolInv, [PoolNext]_poolVars PROVE OpenIsKnown'
  OBVIOUS
<1> USE DEF PoolInv, PoolShape, OpenIsKnown, Closing, Goes, Holds, Without, Shutdown, osVars, contextVars,
            endVars, histVars
<1>1. ASSUME open' \subseteq open, UNCHANGED <<contexts, ppc, target>> PROVE OpenIsKnown'
  BY <1>1
<1>2. ASSUME NEW s \in PoolSlots, ppc[s] # "close", UNCHANGED <<contexts, open>>,
             \A t \in PoolSlots \ {s} : UNCHANGED <<ppc[t], target[t]>>
      PROVE  OpenIsKnown'
  BY <1>2
<1>3. ASSUME NEW s \in PoolSlots, acquire(s) \/ StartDriver(s) \/ Launch(s) PROVE OpenIsKnown'
  <2>1. UNCHANGED <<contexts, open>> /\ ppc[s] # "close"
    BY <1>3 DEF acquire, StartDriver, Launch
  <2>2. \A t \in PoolSlots \ {s} : UNCHANGED <<ppc[t], target[t]>>
    BY <1>3 DEF acquire, StartDriver, Launch
  <2>3. QED
    BY <1>2, <2>1, <2>2
<1>4. ASSUME NEW s \in PoolSlots, NewContext(s) PROVE OpenIsKnown'
  <2>1. ppc[s] = "context" /\ target' = target /\ ppc' = [ppc EXCEPT ![s] = "idle"]
    BY <1>4 DEF NewContext
  <2>2. CASE UNCHANGED <<contexts, open>>
    BY <1>2, <2>1, <2>2
  <2>3. CASE /\ contexts' = [t \in DOMAIN contexts \cup {s} |-> IF t = s THEN target[s] ELSE contexts[t]]
             /\ open' = open \cup {<<s, target[s]>>}
    <3>1. ~ Holds(s)
      BY <2>1 DEF LockedOut
    <3>2. QED
      BY <2>1, <2>3, <3>1
  <2>4. QED
    BY <1>4, <2>2, <2>3 DEF NewContext
<1>5. ASSUME NEW s \in PoolSlots, release(s) PROVE OpenIsKnown'
  BY <1>5 DEF release
<1>6. ASSUME NEW s \in PoolSlots, Closes(s) PROVE OpenIsKnown'
  BY <1>6 DEF Closes, ContextCloses
<1>7. CASE ReleaseNext
  BY <1>7 DEF ReleaseNext, ContextCloses
<1>8. CASE ShutdownBegins \/ CloseBrowser \/ StopDriver \/ UNCHANGED poolVars
  <2>1. open' \subseteq open /\ UNCHANGED <<contexts, ppc, target>>
    BY <1>8 DEF ShutdownBegins, CloseBrowser, ChromiumEnds, StopDriver, poolVars
  <2>2. QED
    BY <1>1, <2>1
<1>9. QED
  BY <1>3, <1>4, <1>5, <1>6, <1>7, <1>8, Zenon DEF PoolNext

\* A chromium is launched when there is none.
LEMMA OneChromiumKept == PoolInv /\ [PoolNext]_poolVars => OneChromium'
<1> SUFFICES ASSUME PoolInv, [PoolNext]_poolVars PROVE OneChromium'
  OBVIOUS
<1> USE PoolAssumption DEF PoolInv, PoolShape, LockedOut, OneChromium, Goes, Shutdown, osVars, contextVars, endVars, histVars
<1>1. CASE ShutdownBegins
  BY <1>1 DEF ShutdownBegins
<1>0. ASSUME NEW c, ContextCloses(c), UNCHANGED chromiums
      PROVE  (\A o \in open' : o[2] \in chromiums') /\ \A k \in DOMAIN leaked' : leaked'[k] \in chromiums'
  BY <1>0 DEF ContextCloses
<1>2. CASE ReleaseNext
  <2>1. (\A o \in open' : o[2] \in chromiums') /\ \A k \in DOMAIN leaked' : leaked'[k] \in chromiums'
    BY <1>0, <1>2 DEF ReleaseNext
  <2>2. QED
    BY <1>2, <2>1 DEF ReleaseNext
<1>3. CASE CloseBrowser
  <2>1. (\A o \in open' : o[2] \in chromiums') /\ \A k \in DOMAIN leaked' : leaked'[k] \in chromiums'
    BY <1>3 DEF CloseBrowser, ChromiumEnds
  <2>2. ~overlapped_shutdown => chromiums' \subseteq unclosed' /\ \A a, b \in chromiums' : a = b
    BY <1>3 DEF CloseBrowser, ChromiumEnds
  <2>3. QED
    BY <1>3, <2>1, <2>2 DEF CloseBrowser
<1>4. CASE StopDriver
  BY <1>4 DEF StopDriver
<1>5. ASSUME NEW s \in PoolSlots, acquire(s) PROVE OneChromium'
  BY <1>5 DEF acquire
<1>6. ASSUME NEW s \in PoolSlots, StartDriver(s) PROVE OneChromium'
  BY <1>6 DEF StartDriver
<1>7. ASSUME NEW s \in PoolSlots, Launch(s) PROVE OneChromium'
  BY <1>7 DEF Launch
<1>8. ASSUME NEW s \in PoolSlots, NewContext(s) PROVE OneChromium'
  BY <1>8 DEF NewContext
<1>9. ASSUME NEW s \in PoolSlots, release(s) PROVE OneChromium'
  BY <1>9 DEF release
<1>10. ASSUME NEW s \in PoolSlots, Closes(s) PROVE OneChromium'
  <2>1. (\A o \in open' : o[2] \in chromiums') /\ \A k \in DOMAIN leaked' : leaked'[k] \in chromiums'
    BY <1>0, <1>10 DEF Closes
  <2>2. QED
    BY <1>10, <2>1 DEF Closes
<1>11. CASE UNCHANGED poolVars
  BY <1>11 DEF poolVars
<1>12. QED
  BY <1>1, <1>2, <1>3, <1>4, <1>5, <1>6, <1>7, <1>8, <1>9, <1>10, <1>11, Zenon DEF PoolNext

\* For any slots and cap: the contexts that run are within the cap, but for those being
\* closed and one more for each close that failed, one chromium serves them, and what
\* outlives a shutdown that no acquire overlapped is what could not be ended.
THEOREM PoolStaysBounded == PoolSpec => []PoolIsBounded
<1>1. PoolInv /\ [PoolNext]_poolVars => PoolInv'
  BY PoolShapeKept, LockedOutKept, OpenIsKnownKept, OneChromiumKept DEF PoolInv
<1>2. PoolInv => PoolIsBounded
  <2> SUFFICES ASSUME PoolInv PROVE PoolIsBounded
    OBVIOUS
  <2>1. Cardinality(open) + Cardinality(DOMAIN leaked) <= MaxContexts + Cardinality(Closing) + leaks
    <3>1. Cardinality(open) <= MaxContexts + Cardinality(Closing) /\ IsFiniteSet(open) /\ IsFiniteSet(Closing)
      BY OpenIsBounded DEF PoolInv
    <3>2. IsFiniteSet(1 .. leaks) /\ Cardinality(1 .. leaks) = leaks /\ leaks \in Nat
      BY FS_Interval DEF PoolInv, PoolShape
    <3>3. IsFiniteSet(DOMAIN leaked) /\ Cardinality(DOMAIN leaked) <= leaks
      BY <3>2, FS_Subset DEF PoolInv, PoolShape
    <3>4. {Cardinality(open), Cardinality(DOMAIN leaked), MaxContexts, Cardinality(Closing)} \subseteq Nat
      BY <3>1, <3>3, FS_CardinalityType, PoolAssumption
    <3>5. QED
      BY <3>1, <3>2, <3>3, <3>4
  <2>2. ~overlapped_shutdown => Cardinality(chromiums) <= 1
    <3> SUFFICES ASSUME ~overlapped_shutdown PROVE Cardinality(chromiums) <= 1
      OBVIOUS
    <3>1. \A a, b \in chromiums : a = b
      BY DEF PoolInv, PoolShape, OneChromium
    <3>2. CASE chromiums = {}
      <4>1. Cardinality(chromiums) = 0
        BY <3>2, FS_EmptySet
      <4>2. QED
        BY <4>1
    <3>3. CASE chromiums # {}
      <4>1. PICK b \in chromiums : TRUE
        BY <3>3
      <4>2. chromiums = {b}
        BY <3>1, <4>1
      <4>3. Cardinality({b}) = 1
        BY FS_Singleton, Zenon
      <4>4. QED
        BY <4>2, <4>3
    <3>4. QED
      BY <3>2, <3>3
  <2>3. down = "done" /\ ~overlapped_shutdown /\ ~failedLaunch =>
          chromiums \subseteq unclosed /\ drivers \subseteq unstopped
    BY DEF PoolInv, OneChromium
  <2>4. {c[2] : c \in open} \cup {leaked[k] : k \in DOMAIN leaked} \subseteq chromiums
    BY DEF PoolInv, OneChromium
  <2>5. QED
    BY <2>1, <2>2, <2>3, <2>4 DEF PoolIsBounded, Closing
<1>3. QED
  BY <1>1, <1>2, PoolInitInv, PTL DEF PoolSpec

-----------------------------------------------------------------------------
(* Autonomous.                                                             *)

\* A count in a function goes up and stays a count.
LEMMA CountsUp ==
  ASSUME NEW S, NEW f \in [S -> Nat], NEW k, NEW n \in Nat
  PROVE  [f EXCEPT ![k] = @ + n] \in [S -> Nat]
<1>1. \A s \in S : [f EXCEPT ![k] = @ + n][s] \in Nat
  <2> TAKE s \in S
  <2>1. CASE s = k
   BY <2>1
  <2>2. CASE s # k
   BY <2>2
  <2> QED BY <2>1, <2>2
<1> QED BY <1>1

\* An element of a sequence is replaced by one of the same kind.
LEMMA Rewritten ==
  ASSUME NEW S, NEW f \in Seq(S), NEW k, NEW v \in S
  PROVE  [f EXCEPT ![k] = v] \in Seq(S) /\ Len([f EXCEPT ![k] = v]) = Len(f)
<1> DEFINE g == [f EXCEPT ![k] = v]
<1>1. Len(f) \in Nat /\ DOMAIN g = 1 .. Len(f)
  OBVIOUS
<1>2. \A i \in 1 .. Len(f) : g[i] \in S
  <2> TAKE i \in 1 .. Len(f)
  <2>1. CASE i = k
   BY <2>1
  <2>2. CASE i # k
   BY <2>2
  <2> QED BY <2>1, <2>2
<1>3. g = [i \in 1 .. Len(f) |-> g[i]]
  OBVIOUS
<1> HIDE DEF g
<1>4. g \in Seq(S) /\ Len(g) = Len(f)
  BY <1>1, <1>2, <1>3
<1>5. QED
  BY <1>4 DEF g

APlaces == {"test", "sleep", "off", "next", "ask", "charge", "write", "complete"}

\* The callers.
PlacesShape ==
  /\ apc \in [Callers -> APlaces]
  /\ request \in [Callers -> {"none", "decompose", "plan", "reflect"}]
  /\ subject \in [Callers -> Nat \X Nat]
  /\ todo \in [Callers -> SUBSET Goals]

\* The tables.
StoreShape ==
  /\ rows \in [Goals -> Nat]
  /\ planOf \in Seq(Nat \X Nat) /\ score \in Seq({"none", "low", "high"})
  /\ Len(score) = Len(planOf)
  /\ ledger \in Nat /\ llmCalls \in Nat /\ results \in Nat

\* The clock.
ClockShape ==
  /\ restarts \in Nat /\ time \in Nat /\ since \in Nat /\ lastWake \in Nat
  /\ since <= time /\ time <= MaxTime
  /\ woke \in [0 .. DateOf(MaxTime) -> Nat]

\* All of them.
AutoShape == PlacesShape /\ StoreShape /\ ClockShape

\* A date the scheduler's process has not woken on saw at most one wake of each of
\* the processes before it.
Fresh(d) == lastWake = Never \/ d > lastWake

\* No date sees two wakes of one process.
WakesOnce ==
  /\ Fresh(DateOf(since)) \/ lastWake = DateOf(since)
  /\ apc["scheduler"] \notin {"test", "sleep"} => Fresh(DateOf(since))
  /\ \A d \in DOMAIN woke : woke[d] <= 1 + restarts /\ (Fresh(d) => woke[d] <= restarts)

\* Calls of the planner that are at a place.
At(p) == (IF apc["scheduler"] = p THEN 1 ELSE 0) + (IF apc["command"] = p THEN 1 ELSE 0)

\* A result is written after its charge, which is made after its call.
Charged == results + At("write") <= ledger /\ ledger + At("charge") <= llmCalls

\* A plan that reflection has scored.
ScoredPlan(n) == n \in Plans /\ score[n] # "none"

\* A reflection is about a plan that is there.
Scored ==
  /\ \A c \in Callers :
       /\ request[c] = "reflect" /\ apc[c] \in {"ask", "charge", "write"} => subject[c][1] \in Plans
       /\ apc[c] = "complete" => ScoredPlan(subject[c][1])
  /\ \A m \in completed : \E n \in Plans : planOf[n] = m /\ score[n] # "none"

\* The inductive invariant of the autonomous mode.
AutoInv == AutoShape /\ WakesOnce /\ Charged /\ Scored

\* The constants, one by one.
LEMMA Bounds ==
  /\ Goals \subseteq Nat /\ Minute \in Nat \ {0} /\ Day \in Nat \ {0}
  /\ MaxTime \in Nat /\ MaxMilestones \in Nat
BY AutonomousAssumption

\* Dates are in the order of their times.
LEMMA DivMonotone ==
  ASSUME NEW m \in Nat, NEW n \in Nat, NEW k \in Nat \ {0}, m <= n
  PROVE  m \div k <= n \div k /\ m \div k \in Nat /\ m \div k <= m
<1> DEFINE p == m \div k
           q == n \div k
<1>1. p \in Nat /\ q \in Nat /\ m = k * p + (m % k) /\ n = k * q + (n % k)
      /\ m % k \in 0 .. (k - 1) /\ n % k \in 0 .. (k - 1)
  OBVIOUS
<1> HIDE DEF p, q
<1>2. k * p \in Nat /\ k * q \in Nat /\ k * p >= p
  BY <1>1
<1>3. p <= q
  <2>1. SUFFICES ASSUME p >= q + 1 PROVE FALSE
    BY <1>1
  <2>2. k * p >= k * (q + 1) /\ k * (q + 1) = k * q + k
    BY <2>1, <1>1
  <2>3. QED
    BY <2>2, <1>1, <1>2
<1>4. p <= m
  BY <1>1, <1>2
<1>5. QED
  BY <1>1, <1>3, <1>4 DEF p, q

\* A later time has no earlier date.
LEMMA Dates ==
  ASSUME NEW s \in Nat, NEW t \in Nat, s <= t
  PROVE  DateOf(s) <= DateOf(t) /\ DateOf(s) \in Nat /\ DateOf(s) <= s
<1>1. Minute * Day \in Nat \ {0}
  BY Bounds
<1>2. QED
  BY <1>1, DivMonotone DEF DateOf

\* OpToRel of the library is the order of the numbers.
LEMMA LessThanRelation ==
  \A ss : ss \in OpToRel(<, Nat) <=> ss \in Nat \X Nat /\ ss[1] < ss[2]
BY DEF OpToRel

\* next_milestone has a least one to choose.
LEMMA LeastPending ==
  ASSUME AutoShape, NEW g \in Goals, Pending(g) # {}
  PROVE  (CHOOSE i \in Pending(g) : \A j \in Pending(g) : i <= j) \in Nat
<1>1. Pending(g) \subseteq Nat
  BY DEF Pending, AutoShape, StoreShape
<1>2. PICK i \in Pending(g) : \A j \in Pending(g) : <<j, i>> \notin OpToRel(<, Nat)
  BY <1>1, NatLessThanWellFounded, WFMin
<1>3. \A j \in Pending(g) : i <= j
  <2> TAKE j \in Pending(g)
  <2>1. ~ (j < i)
    BY <1>1, <1>2, LessThanRelation
  <2>2. QED
    BY <1>1, <2>1
<1>4. QED
  BY <1>1, <1>3

\* Nothing is planned, charged or woken.
LEMMA AutoInitInv == AutoInit => AutoInv
<1> SUFFICES ASSUME AutoInit PROVE AutoInv
  OBVIOUS
<1>1. DateOf(0) \in Nat /\ DateOf(MaxTime) \in Nat
  BY Dates, Bounds
<1>2. AutoShape
  BY <1>1, Bounds DEF AutoInit, AutoShape, PlacesShape, StoreShape, ClockShape, Callers, APlaces, Never
<1>3. WakesOnce
  BY <1>1 DEF AutoInit, WakesOnce, Fresh, Callers
<1>4. Charged
  BY DEF AutoInit, Charged, At, Callers
<1>5. Scored
  BY DEF AutoInit, Scored, Callers
<1>6. QED
  BY <1>2, <1>3, <1>4, <1>5 DEF AutoInv

\* The wake is counted on a date of the calendar.
LEMMA WakeKeepsClock == AutoShape /\ WakeEnds => ClockShape'
<1> SUFFICES ASSUME AutoShape, WakeEnds PROVE ClockShape'
  OBVIOUS
<1> USE DEF AutoShape, ClockShape
<1>1. DateOf(since) \in Nat
  BY Dates
<1>2. woke' \in [0 .. DateOf(MaxTime) -> Nat]
  BY CountsUp DEF WakeEnds, WokeOn
<1>3. QED
  BY <1>1, <1>2 DEF WakeEnds, WokeOn, Moves, askVars

\* The planner is asked about the least milestone that is pending.
LEMMA NextGoalKeepsPlaces == ASSUME AutoShape, NEW c \in Callers, NextGoal(c) PROVE PlacesShape'
<1> USE DEF AutoShape, PlacesShape
<1> PICK g \in todo[c] : 
    /\ todo' = [todo EXCEPT ![c] = @ \ {g}]
    /\ IF Pending(g) = {}
       THEN Moves(c, "next", "next") /\ UNCHANGED <<request, subject>>
       ELSE /\ Moves(c, "next", "ask")
            /\ request' = [request EXCEPT ![c] = "plan"]
            /\ subject' = [subject EXCEPT ![c] =
                 <<g, CHOOSE i \in Pending(g) : \A j \in Pending(g) : i <= j>>]
  BY Zenon DEF NextGoal
<1>1. g \in Goals /\ g \in Nat
  BY Bounds
<1>2. apc' \in [Callers -> APlaces] /\ todo' \in [Callers -> SUBSET Goals]
  BY <1>1 DEF Moves, APlaces
<1>3. request' \in [Callers -> {"none", "decompose", "plan", "reflect"}]
  OBVIOUS
<1>4. subject' \in [Callers -> Nat \X Nat]
  <2>1. CASE Pending(g) = {}
    BY <2>1
  <2>2. CASE Pending(g) # {}
    <3> DEFINE i == CHOOSE i \in Pending(g) : \A j \in Pending(g) : i <= j
    <3>1. i \in Nat
      BY <1>1, <2>2, LeastPending
    <3>2. subject' = [subject EXCEPT ![c] = <<g, i>>]
      BY <2>2
    <3> HIDE DEF i
    <3>3. QED
      BY <1>1, <3>1, <3>2
  <2>3. QED
    BY <2>1, <2>2
<1>5. QED
  BY <1>2, <1>3, <1>4

\* A row is written for a goal.
LEMMA MilestonesKeepStore == ASSUME AutoShape, NEW c \in Callers, WritesMilestones(c) PROVE StoreShape'
<1>1. rows' \in [Goals -> Nat]
  <2>1. PICK n \in 0 .. MaxMilestones : rows' = [rows EXCEPT ![subject[c][1]] = @ + n]
    BY DEF WritesMilestones
  <2>2. n \in Nat /\ rows \in [Goals -> Nat]
    BY <2>1, Bounds DEF AutoShape, StoreShape
  <2>3. QED
    BY <2>1, <2>2, CountsUp, Zenon
<1>2. QED
  BY <1>1 DEF AutoShape, StoreShape, WritesMilestones

\* A score that is given leaves as many scores as plans.
LEMMA Rescored ==
  ASSUME AutoShape, NEW n, NEW sc \in {"low", "high"}
  PROVE  /\ [score EXCEPT ![n] = sc] \in Seq({"none", "low", "high"})
         /\ Len([score EXCEPT ![n] = sc]) = Len(score)
<1>1. score \in Seq({"none", "low", "high"}) /\ sc \in {"none", "low", "high"}
  BY DEF AutoShape, StoreShape
<1>2. [score EXCEPT ![n] = sc] \in Seq({"none", "low", "high"})
  BY <1>1, Rewritten
<1>3. Len([score EXCEPT ![n] = sc]) = Len(score)
  BY <1>1, Rewritten
<1>4. QED
  BY <1>2, <1>3

\* A score is written for a plan.
LEMMA ScoreKeepsStore == ASSUME AutoShape, NEW c \in Callers, WritesScore(c) PROVE StoreShape'
<1>1. PICK sc \in {"low", "high"} : score' = [score EXCEPT ![subject[c][1]] = sc]
  BY DEF WritesScore
<1>2. score' \in Seq({"none", "low", "high"}) /\ Len(score') = Len(score)
  BY <1>1, Rescored
<1>3. QED
  BY <1>2 DEF AutoShape, StoreShape, WritesScore

\* Each step keeps the callers at their places.
LEMMA PlacesKept == AutoShape /\ [AutoNext]_autoVars => PlacesShape'
<1> SUFFICES ASSUME AutoShape, [AutoNext]_autoVars PROVE PlacesShape'
  OBVIOUS
<1> USE DEF AutoShape, PlacesShape, Callers, APlaces, Moves, dbVars, askVars, clockVars
<1>1. CASE TimePassesBy
  BY <1>1 DEF TimePassesBy
<1>2. CASE Tests
  BY <1>2 DEF Tests
<1>3. CASE SleepEnds
  BY <1>3 DEF SleepEnds
<1>4. CASE WakeEnds
  BY <1>4 DEF WakeEnds, WokeOn
<1>5. CASE Command
  BY <1>5, Bounds DEF Command, StoreShape, Plans
<1>6. CASE Restarts
  BY <1>6 DEF Restarts
<1>7. ASSUME NEW c \in Callers, CycleEnds(c) \/ PlanFails(c) PROVE PlacesShape'
  BY <1>7 DEF CycleEnds, PlanFails
<1>8. ASSUME NEW c \in Callers, NextGoal(c) PROVE PlacesShape'
  BY <1>8, NextGoalKeepsPlaces
<1>9. ASSUME NEW c \in Callers, Asks(c) PROVE PlacesShape'
  BY <1>9 DEF Asks, Raises
<1>10. ASSUME NEW c \in Callers, Charges(c) PROVE PlacesShape'
  BY <1>10 DEF Charges
<1>11. ASSUME NEW c \in Callers, WritesPlan(c) PROVE PlacesShape'
  BY <1>11 DEF WritesPlan
<1>12. ASSUME NEW c \in Callers, WritesMilestones(c) PROVE PlacesShape'
  BY <1>12 DEF WritesMilestones
<1>13. ASSUME NEW c \in Callers, WritesScore(c) PROVE PlacesShape'
  BY <1>13 DEF WritesScore
<1>14. ASSUME NEW c \in Callers, Completes(c) PROVE PlacesShape'
  BY <1>14 DEF Completes
<1>15. CASE UNCHANGED autoVars
  BY <1>15 DEF autoVars
<1>16. QED
  BY <1>1, <1>2, <1>3, <1>4, <1>5, <1>6, <1>7, <1>8, <1>9,
     <1>10, <1>11, <1>12, <1>13, <1>14, <1>15, Zenon DEF AutoNext

\* Each step keeps the tables.
LEMMA StoreKept == AutoShape /\ [AutoNext]_autoVars => StoreShape'
<1> SUFFICES ASSUME AutoShape, [AutoNext]_autoVars PROVE StoreShape'
  OBVIOUS
<1> USE DEF AutoShape, PlacesShape, StoreShape, Callers, Moves, dbVars, askVars, clockVars
<1>1. CASE TimePassesBy
  BY <1>1 DEF TimePassesBy
<1>2. CASE Tests
  BY <1>2 DEF Tests
<1>3. CASE SleepEnds
  BY <1>3 DEF SleepEnds
<1>4. CASE WakeEnds
  BY <1>4 DEF WakeEnds, WokeOn
<1>5. CASE Command
  BY <1>5 DEF Command
<1>6. CASE Restarts
  BY <1>6 DEF Restarts
<1>7. ASSUME NEW c \in Callers, CycleEnds(c) \/ PlanFails(c) PROVE StoreShape'
  BY <1>7 DEF CycleEnds, PlanFails
<1>8. ASSUME NEW c \in Callers, NextGoal(c) PROVE StoreShape'
  BY <1>8 DEF NextGoal
<1>9. ASSUME NEW c \in Callers, Asks(c) PROVE StoreShape'
  BY <1>9 DEF Asks, Raises
<1>10. ASSUME NEW c \in Callers, Charges(c) PROVE StoreShape'
  BY <1>10 DEF Charges
<1>11. ASSUME NEW c \in Callers, WritesPlan(c) PROVE StoreShape'
  BY <1>11 DEF WritesPlan
<1>12. ASSUME NEW c \in Callers, WritesMilestones(c) PROVE StoreShape'
  BY <1>12, MilestonesKeepStore
<1>13. ASSUME NEW c \in Callers, WritesScore(c) PROVE StoreShape'
  BY <1>13, ScoreKeepsStore
<1>14. ASSUME NEW c \in Callers, Completes(c) PROVE StoreShape'
  BY <1>14 DEF Completes
<1>15. CASE UNCHANGED autoVars
  BY <1>15 DEF autoVars
<1>16. QED
  BY <1>1, <1>2, <1>3, <1>4, <1>5, <1>6, <1>7, <1>8, <1>9,
     <1>10, <1>11, <1>12, <1>13, <1>14, <1>15, Zenon DEF AutoNext

\* Each step keeps the clock and the wakes counted.
LEMMA ClockKept == AutoShape /\ [AutoNext]_autoVars => ClockShape'
<1> SUFFICES ASSUME AutoShape, [AutoNext]_autoVars PROVE ClockShape'
  OBVIOUS
<1> USE DEF AutoShape, ClockShape, Moves, dbVars, askVars, clockVars
<1>1. CASE TimePassesBy
  BY <1>1, Bounds DEF TimePassesBy
<1>2. CASE Tests
  BY <1>2 DEF Tests
<1>3. CASE SleepEnds
  BY <1>3 DEF SleepEnds
<1>4. CASE WakeEnds
  BY <1>4, WakeKeepsClock
<1>5. CASE Command
  BY <1>5 DEF Command
<1>6. CASE Restarts
  BY <1>6, Bounds DEF Restarts, Never
<1>7. ASSUME NEW c \in Callers, CycleEnds(c) \/ PlanFails(c) PROVE ClockShape'
  BY <1>7 DEF CycleEnds, PlanFails
<1>8. ASSUME NEW c \in Callers, NextGoal(c) PROVE ClockShape'
  BY <1>8 DEF NextGoal
<1>9. ASSUME NEW c \in Callers, Asks(c) PROVE ClockShape'
  BY <1>9 DEF Asks, Raises
<1>10. ASSUME NEW c \in Callers, Charges(c) PROVE ClockShape'
  BY <1>10 DEF Charges
<1>11. ASSUME NEW c \in Callers, WritesPlan(c) PROVE ClockShape'
  BY <1>11 DEF WritesPlan
<1>12. ASSUME NEW c \in Callers, WritesMilestones(c) PROVE ClockShape'
  BY <1>12 DEF WritesMilestones
<1>13. ASSUME NEW c \in Callers, WritesScore(c) PROVE ClockShape'
  BY <1>13 DEF WritesScore
<1>14. ASSUME NEW c \in Callers, Completes(c) PROVE ClockShape'
  BY <1>14 DEF Completes
<1>15. CASE UNCHANGED autoVars
  BY <1>15 DEF autoVars
<1>16. QED
  BY <1>1, <1>2, <1>3, <1>4, <1>5, <1>6, <1>7, <1>8, <1>9,
     <1>10, <1>11, <1>12, <1>13, <1>14, <1>15, Zenon DEF AutoNext

\* A wake that ends is the first of its process on its date.
LEMMA WakeEndsOnce ==
  ASSUME AutoShape, WakesOnce, WakeEnds
  PROVE  WakesOnce'
<1> DEFINE date == DateOf(since)
<1>1. /\ woke' = [woke EXCEPT ![date] = @ + 1] /\ lastWake' = date
      /\ apc["scheduler"] = "next" /\ apc' = [apc EXCEPT !["scheduler"] = "sleep"]
      /\ since' = time /\ restarts' = restarts
  BY DEF WakeEnds, WokeOn, Moves
<1>2. date \in Nat /\ date <= DateOf(time) /\ DateOf(time) \in Nat /\ date # Never
  <2>1. since <= time /\ time <= MaxTime /\ since \in Nat /\ time \in Nat /\ MaxTime \in Nat
    BY Bounds DEF AutoShape, ClockShape
  <2>2. date \in Nat /\ date <= DateOf(time) /\ DateOf(time) \in Nat /\ date <= since
    BY <2>1, Dates
  <2>3. QED
    BY <2>1, <2>2 DEF Never
<1>3. Fresh(date) /\ \A d \in DOMAIN woke : woke[d] <= 1 + restarts /\ (Fresh(d) => woke[d] <= restarts)
  BY <1>1 DEF WakesOnce
<1>4. DOMAIN woke = 0 .. DateOf(MaxTime) /\ DOMAIN woke' = DOMAIN woke /\ restarts \in Nat
      /\ \A d \in DOMAIN woke : woke[d] \in Nat /\ d \in Nat
  <2>1. DateOf(MaxTime) \in Nat
    BY Dates, Bounds
  <2>2. QED
    BY <1>1, <2>1 DEF AutoShape, ClockShape
<1>5. Fresh(DateOf(since))' \/ lastWake' = DateOf(since')
  BY <1>1, <1>2 DEF Fresh
<1>6. apc'["scheduler"] = "sleep"
  BY <1>1 DEF AutoShape, PlacesShape, Callers
<1> HIDE DEF date
<1>7. ASSUME NEW d \in DOMAIN woke'
      PROVE  woke'[d] <= 1 + restarts' /\ (Fresh(d)' => woke'[d] <= restarts')
  <2>1. CASE d = date
    <3>1. woke'[d] = woke[d] + 1 /\ ~ Fresh(d)'
      BY <1>1, <1>2, <1>4, <1>7, <2>1 DEF Fresh
    <3>2. QED
      BY <1>1, <1>3, <1>4, <1>7, <2>1, <3>1
  <2>2. CASE d # date
    <3>1. woke'[d] = woke[d]
      BY <1>1, <1>4, <1>7, <2>2
    <3>2. Fresh(d)' => Fresh(d)
      BY <1>1, <1>2, <1>3, <1>4, <1>7 DEF Fresh, AutoShape, ClockShape
    <3>3. QED
      BY <1>1, <1>3, <1>4, <1>7, <3>1, <3>2
  <2>3. QED
    BY <2>1, <2>2
<1>8. QED
  BY <1>5, <1>6, <1>7 DEF WakesOnce

\* A process that died may wake once more on any date.
LEMMA RestartsAfresh ==
  ASSUME AutoShape, WakesOnce, Restarts
  PROVE  WakesOnce'
<1>1. lastWake' = Never /\ restarts' = restarts + 1 /\ woke' = woke /\ apc'["scheduler"] = "test"
  BY DEF Restarts, AutoShape, PlacesShape, Callers
<1>2. \A d \in DOMAIN woke : woke[d] \in Nat /\ woke[d] <= 1 + restarts
  BY DEF AutoShape, ClockShape, WakesOnce
<1>3. restarts \in Nat
  BY DEF AutoShape, ClockShape
<1>4. QED
  BY <1>1, <1>2, <1>3 DEF WakesOnce, Fresh

\* The clock is read anew: the date is the last wake's or a later one.
LEMMA ClockRead ==
  ASSUME AutoShape, WakesOnce, since' \in Nat, since <= since', UNCHANGED <<lastWake, restarts, woke>>,
         apc'["scheduler"] \notin {"test", "sleep"} => Fresh(DateOf(since'))
  PROVE  WakesOnce'
<1>1. DateOf(since) <= DateOf(since') /\ DateOf(since) \in Nat /\ DateOf(since') \in Nat
  BY Dates DEF AutoShape, ClockShape
<1>2. Fresh(DateOf(since')) \/ lastWake = DateOf(since')
  BY <1>1 DEF WakesOnce, Fresh, AutoShape, ClockShape
<1>3. QED
  BY <1>2 DEF WakesOnce, Fresh

\* A date is woken on once by a process.
LEMMA WakesKept == AutoShape /\ WakesOnce /\ [AutoNext]_autoVars => WakesOnce'
<1> SUFFICES ASSUME AutoShape, WakesOnce, [AutoNext]_autoVars PROVE WakesOnce'
  OBVIOUS
<1>1. since \in Nat /\ time \in Nat /\ since <= time
  BY DEF AutoShape, ClockShape
<1>2. CASE WakeEnds
  BY <1>2, WakeEndsOnce
<1>3. CASE Restarts
  BY <1>3, RestartsAfresh
<1>4. CASE Tests
  <2>1. since' = time /\ UNCHANGED <<lastWake, restarts, woke>>
    BY <1>4 DEF Tests
  <2>2. DateOf(since) <= DateOf(time) /\ DateOf(since) \in Nat /\ DateOf(time) \in Nat
    BY <1>1, Dates
  <2>3. apc'["scheduler"] \notin {"test", "sleep"} => lastWake # DateOf(time)
    BY <1>4 DEF Tests, Moves, AutoShape, PlacesShape, Callers
  <2>4. apc'["scheduler"] \notin {"test", "sleep"} => Fresh(DateOf(time))
    BY <2>2, <2>3 DEF WakesOnce, Fresh, AutoShape, ClockShape
  <2>5. QED
    BY <1>1, <2>1, <2>4, ClockRead
<1>5. CASE \E c \in Callers : CycleEnds(c)
  <2>1. PICK c \in Callers : CycleEnds(c)
    BY <1>5
  <2>2. CASE c = "scheduler"
    <3>1. apc'["scheduler"] = "sleep" /\ since' = time
      BY <2>1, <2>2 DEF CycleEnds, AutoShape, PlacesShape
    <3>2. QED
      BY <1>1, <2>1, <3>1, ClockRead DEF CycleEnds
  <2>3. CASE c # "scheduler"
    <3>1. apc'["scheduler"] = apc["scheduler"] /\ since' = since
      BY <2>1, <2>3 DEF CycleEnds, AutoShape, PlacesShape, Callers
    <3>2. QED
      BY <2>1, <3>1 DEF CycleEnds, WakesOnce, Fresh
  <2>4. QED
    BY <2>2, <2>3
<1>6. CASE \/ TimePassesBy \/ SleepEnds \/ Command \/ UNCHANGED autoVars
           \/ \E c \in Callers : \/ PlanFails(c) \/ NextGoal(c) \/ Asks(c) \/ Charges(c) \/ WritesPlan(c)
                                 \/ WritesMilestones(c) \/ WritesScore(c) \/ Completes(c)
  <2>1. UNCHANGED <<lastWake, restarts, woke, since>>
    BY <1>6 DEF TimePassesBy, SleepEnds, Command, autoVars, PlanFails, NextGoal, Asks, Raises, Charges,
                WritesPlan, WritesMilestones, WritesScore, Completes, clockVars
  <2>2. apc'["scheduler"] \notin {"test", "sleep"} => apc["scheduler"] \notin {"test", "sleep"}
    BY <1>6 DEF TimePassesBy, SleepEnds, Command, autoVars, PlanFails, NextGoal, Asks, Raises, Charges,
                WritesPlan, WritesMilestones, WritesScore, Completes, Moves, AutoShape, PlacesShape, Callers
  <2>3. QED
    BY <2>1, <2>2 DEF WakesOnce, Fresh
<1>7. QED
  BY <1>2, <1>3, <1>4, <1>5, <1>6, Zenon DEF AutoNext

\* A call on its way to the ledger stays counted.
LEMMA ChargedKept == AutoShape /\ Charged /\ [AutoNext]_autoVars => Charged'
<1> SUFFICES ASSUME AutoShape, Charged, [AutoNext]_autoVars PROVE Charged'
  OBVIOUS
<1>1. results \in Nat /\ ledger \in Nat /\ llmCalls \in Nat
  BY DEF AutoShape, StoreShape
<1> USE DEF AutoShape, PlacesShape, Charged, At, Callers, Moves
<1>2. ASSUME NEW c \in Callers, Charges(c) PROVE Charged'
  BY <1>1, <1>2 DEF Charges
<1>3. ASSUME NEW c \in Callers, Asks(c) PROVE Charged'
  BY <1>1, <1>3 DEF Asks, Raises, dbVars
<1>4. ASSUME NEW c \in Callers, WritesPlan(c) \/ WritesMilestones(c) \/ WritesScore(c) PROVE Charged'
  <2>1. results' = results + 1 /\ UNCHANGED <<ledger, llmCalls>>
    BY <1>4 DEF WritesPlan, WritesMilestones, WritesScore
  <2>2. PICK to \in {"next", "off", "complete"} : Moves(c, "write", to)
    BY <1>4 DEF WritesPlan, WritesMilestones, WritesScore
  <2>3. QED
    BY <1>1, <2>1, <2>2
<1>5. ASSUME NEW c \in Callers, CycleEnds(c) \/ PlanFails(c) \/ NextGoal(c) \/ Completes(c)
      PROVE  Charged'
  BY <1>1, <1>5 DEF CycleEnds, PlanFails, NextGoal, Completes, dbVars
<1>6. CASE TimePassesBy \/ Tests \/ SleepEnds \/ WakeEnds \/ Command \/ Restarts \/ UNCHANGED autoVars
  BY <1>1, <1>6 DEF TimePassesBy, Tests, SleepEnds, WakeEnds, WokeOn, Command, Restarts, autoVars, dbVars
<1>7. QED
  BY <1>2, <1>3, <1>4, <1>5, <1>6, Zenon DEF AutoNext

\* Scores are set and plans appended: what was scored stays so, in place.
LEMMA PlansStay ==
  ASSUME AutoShape, [AutoNext]_autoVars
  PROVE  \A n \in Plans : /\ n \in Plans' /\ planOf'[n] = planOf[n]
                          /\ score[n] # "none" => score'[n] # "none"
<1>1. CASE UNCHANGED <<planOf, score>>
  BY <1>1 DEF Plans
<1>2. ASSUME NEW c \in Callers, WritesPlan(c)
      PROVE  \A n \in Plans : n \in Plans' /\ planOf'[n] = planOf[n] /\ score'[n] = score[n]
  <2>1. planOf' = Append(planOf, subject[c]) /\ score' = Append(score, "none")
    BY <1>2 DEF WritesPlan
  <2>2. QED
    BY <2>1 DEF Plans, AutoShape, PlacesShape, StoreShape
<1>3. ASSUME NEW c \in Callers, WritesScore(c)
      PROVE  \A n \in Plans : /\ n \in Plans' /\ planOf'[n] = planOf[n]
                              /\ score[n] # "none" => score'[n] # "none"
  <2>1. PICK sc \in {"low", "high"} : score' = [score EXCEPT ![subject[c][1]] = sc]
    BY <1>3 DEF WritesScore
  <2>2. \A n \in Plans : score'[n] \in {score[n], sc}
    BY <2>1 DEF Plans, AutoShape, StoreShape
  <2>3. QED
    BY <1>3, <2>2 DEF WritesScore, Plans
<1>4. UNCHANGED <<planOf, score>> \/ \E c \in Callers : WritesPlan(c) \/ WritesScore(c)
  BY DEF AutoNext, TimePassesBy, Tests, SleepEnds, WakeEnds, WokeOn, Command, Restarts, autoVars, dbVars,
         CycleEnds, PlanFails, NextGoal, Asks, Raises, Charges, WritesMilestones, Completes
<1>5. QED
  BY <1>1, <1>2, <1>3, <1>4, Zenon

\* A milestone is completed after its plan was scored.
LEMMA ScoredKept == AutoShape /\ Scored /\ [AutoNext]_autoVars => Scored'
<1> SUFFICES ASSUME AutoShape, Scored, [AutoNext]_autoVars PROVE Scored'
  OBVIOUS
<1> DEFINE Knows(c) ==
      /\ request[c] = "reflect" /\ apc[c] \in {"ask", "charge", "write"} => subject[c][1] \in Plans
      /\ apc[c] = "complete" => ScoredPlan(subject[c][1])
<1>1. \A n : n \in Plans => n \in Plans'
  BY PlansStay
<1>2. \A n : ScoredPlan(n) => ScoredPlan(n)'
  BY PlansStay DEF ScoredPlan
<1>3. \A m : (\E n \in Plans : planOf[n] = m /\ score[n] # "none")
               => (\E n \in Plans : planOf[n] = m /\ score[n] # "none")'
  BY PlansStay
<1>4. ASSUME NEW c \in Callers, UNCHANGED <<request[c], subject[c]>>,
             apc'[c] \in {"ask", "charge", "write"} => apc[c] \in {"ask", "charge", "write"},
             apc'[c] = "complete" => apc[c] = "complete"
      PROVE  Knows(c)'
  BY <1>1, <1>2, <1>4 DEF Scored
<1> HIDE DEF Knows
<1>5. ASSUME UNCHANGED <<request, subject>>,
             \A c \in Callers : /\ apc'[c] \in {"ask", "charge", "write"} => apc[c] \in {"ask", "charge", "write"}
                                /\ apc'[c] = "complete" => apc[c] = "complete"
      PROVE  \A c \in Callers : Knows(c)'
  BY <1>4, <1>5
<1> USE DEF AutoShape, PlacesShape, Moves
<1>6. \A c \in Callers : Knows(c)'
  <2>1. CASE \/ TimePassesBy \/ Tests \/ SleepEnds \/ WakeEnds \/ Restarts \/ UNCHANGED autoVars
             \/ \E c \in Callers : \/ CycleEnds(c) \/ PlanFails(c) \/ Asks(c) \/ Charges(c) \/ WritesPlan(c)
                                   \/ WritesMilestones(c) \/ Completes(c)
    <3>1. UNCHANGED <<request, subject>>
      BY <2>1 DEF TimePassesBy, Tests, SleepEnds, WakeEnds, WokeOn, Restarts, autoVars, askVars, CycleEnds, PlanFails,
                  Asks, Raises, Charges, WritesPlan, WritesMilestones, Completes
    <3>2. \A c \in Callers : /\ apc'[c] \in {"ask", "charge", "write"} => apc[c] \in {"ask", "charge", "write"}
                             /\ apc'[c] = "complete" => apc[c] = "complete"
      BY <2>1 DEF TimePassesBy, Tests, SleepEnds, WakeEnds, WokeOn, Restarts, autoVars, CycleEnds, PlanFails,
                  Asks, Raises, Charges, WritesPlan, WritesMilestones, Completes, Callers
    <3>3. QED
      BY <1>5, <3>1, <3>2
  <2>2. CASE Command
    <3> TAKE c \in Callers
    <3>1. CASE c = "scheduler"
      <4>1. UNCHANGED <<apc[c], request[c], subject[c]>>
        BY <2>2, <3>1 DEF Command
      <4>2. QED
        BY <1>4, <4>1
    <3>2. CASE c = "command"
      BY <2>2, <3>2 DEF Command, Knows, Plans, dbVars
    <3>3. QED
      BY <3>1, <3>2 DEF Callers
  <2>3. ASSUME NEW d \in Callers, NextGoal(d) PROVE \A c \in Callers : Knows(c)'
    <3> TAKE c \in Callers
    <3>1. CASE c # d
      <4>1. UNCHANGED <<apc[c], request[c], subject[c]>>
        BY <2>3, <3>1 DEF NextGoal
      <4>2. QED
        BY <1>4, <4>1
    <3>2. CASE c = d
      <4>1. apc'[c] = "next" \/ (apc'[c] = "ask" /\ request'[c] = "plan")
        BY <2>3, <3>2 DEF NextGoal
      <4>2. QED
        BY <4>1 DEF Knows
    <3>3. QED
      BY <3>1, <3>2
  <2>4. ASSUME NEW d \in Callers, WritesScore(d) PROVE \A c \in Callers : Knows(c)'
    <3> TAKE c \in Callers
    <3>1. UNCHANGED <<request, subject>>
      BY <2>4 DEF WritesScore, askVars
    <3>2. CASE c # d
      <4>1. apc'[c] = apc[c]
        BY <2>4, <3>2 DEF WritesScore
      <4>2. QED
        BY <1>4, <3>1, <4>1
    <3>3. CASE c = d
      <4>1. apc'[c] \in {"complete", "off"} /\ subject[c][1] \in Plans
        BY <2>4, <3>3 DEF WritesScore, Scored
      <4>2. PICK sc \in {"low", "high"} : score' = [score EXCEPT ![subject[c][1]] = sc]
        BY <2>4, <3>3 DEF WritesScore
      <4>3. score'[subject[c][1]] # "none"
        BY <4>1, <4>2 DEF Plans, StoreShape
      <4>4. QED
        BY <1>1, <3>1, <4>1, <4>3 DEF Knows, ScoredPlan
    <3>4. QED
      BY <3>2, <3>3
  <2>5. QED
    BY <2>1, <2>2, <2>3, <2>4, Zenon DEF AutoNext
<1>7. \A m \in completed' : (\E n \in Plans : planOf[n] = m /\ score[n] # "none")'
  <2>1. ASSUME NEW c \in Callers, Completes(c)
        PROVE  \A m \in completed' : (\E n \in Plans : planOf[n] = m /\ score[n] # "none")'
    <3>1. completed' = completed \cup {planOf[subject[c][1]]} /\ ScoredPlan(subject[c][1])
      BY <2>1 DEF Completes, Scored
    <3>2. QED
      BY <1>3, <3>1 DEF Scored, ScoredPlan
  <2>2. CASE UNCHANGED completed
    BY <1>3, <2>2 DEF Scored
  <2>3. UNCHANGED completed \/ \E c \in Callers : Completes(c)
    BY DEF AutoNext, TimePassesBy, Tests, SleepEnds, WakeEnds, WokeOn, Command, Restarts, autoVars, dbVars,
           CycleEnds, PlanFails, NextGoal, Asks, Raises, Charges, WritesMilestones, WritesPlan, WritesScore
  <2>4. QED
    BY <2>1, <2>2, <2>3, Zenon
<1>8. QED
  BY <1>6, <1>7 DEF Scored, Knows

\* For any goals, dates and restarts: each result of the planner was asked for and
\* charged, no milestone is completed without a scored plan, and a process wakes at
\* most once on a date.
THEOREM AutonomousIsAccounted == AutoSpec => []PlansAreAccounted
<1>1. AutoInv /\ [AutoNext]_autoVars => AutoInv'
  BY PlacesKept, StoreKept, ClockKept, WakesKept, ChargedKept, ScoredKept DEF AutoInv, AutoShape
<1>2. AutoInv => PlansAreAccounted
  <2> SUFFICES ASSUME AutoInv PROVE PlansAreAccounted
    OBVIOUS
  <2>1. results <= ledger /\ ledger <= llmCalls
    <3>1. At("write") \in Nat /\ At("charge") \in Nat
      BY DEF At
    <3>2. QED
      BY <3>1 DEF AutoInv, Charged, AutoShape, StoreShape
  <2>2. QED
    BY <2>1 DEF AutoInv, WakesOnce, Scored, PlansAreAccounted
<1>3. QED
  BY <1>1, <1>2, AutoInitInv, PTL DEF AutoSpec
=============================================================================
