------------------------------ MODULE ToolGate ------------------------------
(***************************************************************************)
(* How a tool call comes to act on the machine: ToolExecutor.execute in the*)
(* task's thread (driver/desktop_tools.py) and _dispatch_tool for a direct *)
(* call on the event loop of the WS client (server.py), with scope.py,     *)
(* confirm.py and the file and command tools.  The task thread runs one    *)
(* call at a time; a direct call gives way to others only where it awaits, *)
(* at the dialog and at the command.                                       *)
(*                                                                         *)
(* The scope of a call is abstracted to which gates it confirms and, per   *)
(* call, whether its path or command is within it.  One file stands for the*)
(* files; its contents are the calls whose text it holds.                  *)
(***************************************************************************)
EXTENDS Naturals

CONSTANTS ToolCalls, NoCaller

ASSUME ToolGateAssumption == NoCaller \notin ToolCalls

Writes   == {"replace", "append", "edit"}
Commands == {"command", "powershell", "winget"}
Gate     == [k \in Writes \cup Commands |-> IF k \in Writes THEN "fs.write" ELSE "shell.exec"]
Ways == {"task", "direct"}

VARIABLES
  via, tool, within,    \* of each call
  asks,          \* of each entry: confirm_before of its scope; the task's own
                 \* scope is in force in its thread only
  gpc,           \* the place of each call
  thread, loop,  \* the call the task thread and the event loop are in
  reply,        \* what the dialog of a call came to
  content,       \* the file
  seen,          \* what an edit or append read
  verdict,
  \* History:
  acted,         \* calls that wrote or ran
  serial,        \* what the file would hold had every call worked on its own
  crossed        \* calls of different entries worked on the file at once

callArgs == <<via, tool, within, asks>>
fileVars == <<content, seen, serial, crossed>>
gateVars == <<callArgs, gpc, thread, loop, reply, fileVars, verdict, acted>>

Asked(c)  == Gate[tool[c]] \in asks[via[c]]
Holder(c) == IF via[c] = "task" THEN thread ELSE loop

\* The call has the thread or the loop to itself, now and afterwards.
Has(c)   == Holder(c) = c
Keeps    == UNCHANGED <<thread, loop>>
Enters(c) ==
  /\ Holder(c) = NoCaller
  /\ IF via[c] = "task" THEN thread' = c /\ UNCHANGED loop ELSE loop' = c /\ UNCHANGED thread
\* At an await the event loop goes on; the task's thread waits.
Yields(c) ==
  Has(c) /\ loop' = (IF loop = c THEN NoCaller ELSE loop) /\ UNCHANGED thread
Exits(c) ==
  /\ Has(c)
  /\ thread' = (IF thread = c THEN NoCaller ELSE thread)
  /\ loop' = (IF loop = c THEN NoCaller ELSE loop)
Resumes(c) == IF via[c] = "task" THEN Has(c) /\ Keeps ELSE Enters(c)

Passes(c, from, to) == gpc[c] = from /\ gpc' = [gpc EXCEPT ![c] = to]
Result(c, v) == verdict' = [verdict EXCEPT ![c] = v] /\ UNCHANGED callArgs

-----------------------------------------------------------------------------
\* execute and _dispatch_tool find the tool; powershell asks the scope first.
Call(c) ==
  /\ gpc[c] = "called" /\ Enters(c)
  /\ gpc' = [gpc EXCEPT ![c] = IF tool[c] = "powershell" /\ ~within[c] THEN "refused"
                               ELSE IF Asked(c) THEN "ask" ELSE "check"]
  /\ UNCHANGED <<callArgs, reply, fileVars, verdict, acted>>

\* confirm: the dialog is up.
Dialog(c) ==
  /\ Passes(c, "ask", "dialog") /\ Yields(c)
  /\ UNCHANGED <<callArgs, reply, fileVars, verdict, acted>>

Answered(c, a, to) ==
  /\ Passes(c, "dialog", to) /\ Resumes(c) /\ reply' = [reply EXCEPT ![c] = a]
  /\ UNCHANGED <<callArgs, fileVars, verdict, acted>>

UserAllows(c) == Answered(c, "allow", "check")
UserDenies(c) == Answered(c, "deny", "refused")

\* Mutant: a dialog that cannot be shown or gets no answer does not stop the tool.
FailsOpen(c) == Answered(c, "none", "check")

\* No osascript on this host, an error, or nobody answers in time.
NoAnswer(c) == Answered(c, "none", "refused")

\* check_path, check_shell; winget has no scope check.
Check(c) ==
  /\ Has(c) /\ Keeps
  /\ Passes(c, "check", IF ~within[c] /\ tool[c] # "winget" THEN "refused"
                        ELSE IF tool[c] \in Commands THEN "run"
                        ELSE IF tool[c] = "replace" THEN "write" ELSE "read")
  /\ UNCHANGED <<callArgs, reply, fileVars, verdict, acted>>

-----------------------------------------------------------------------------
(* write_file and edit_file.                                               *)

AtWork == {d \in ToolCalls : gpc[d] = "write" /\ tool[d] # "replace"}

\* Mutant: the file is read by a helper thread, and the loop goes on.
ReadsAside(c) ==
  /\ Passes(c, "read", "write") /\ Yields(c) /\ seen' = [seen EXCEPT ![c] = content]
  /\ UNCHANGED <<callArgs, reply, content, serial, crossed, verdict, acted>>

ReadFile(c) ==
  /\ Passes(c, "read", "write") /\ Has(c) /\ Keeps /\ seen' = [seen EXCEPT ![c] = content]
  /\ UNCHANGED <<callArgs, reply, content, serial, crossed, verdict, acted>>

WriteFile(c) ==
  /\ Passes(c, "write", "done") /\ (Exits(c) \/ (Holder(c) = NoCaller /\ Keeps))
  /\ content' = IF tool[c] = "replace" THEN {c} ELSE seen[c] \cup {c}
  /\ serial' = IF tool[c] = "replace" THEN {c} ELSE serial \cup {c}
  /\ crossed' = (crossed \/ \E d \in AtWork : via[d] # via[c])
  /\ acted' = acted \cup {c} /\ Result(c, "ok") /\ UNCHANGED <<seen, reply>>

-----------------------------------------------------------------------------
(* Commands.                                                               *)

\* The process runs while its caller waits.
RunCommand(c) ==
  /\ Passes(c, "run", "running") /\ Yields(c) /\ acted' = acted \cup {c}
  /\ UNCHANGED <<callArgs, reply, fileVars, verdict>>

\* It ends, or is killed at its timeout.
CommandEnds(c) ==
  /\ gpc[c] = "running" /\ gpc' = [gpc EXCEPT ![c] = "done"]
  /\ IF via[c] = "task" THEN Exits(c) ELSE Keeps
  /\ \E v \in {"ok", "error"} : Result(c, v)
  /\ UNCHANGED <<reply, fileVars, acted>>

\* A refusal, a file that is missing or lacks the text to replace.
CallFails(c) ==
  /\ \/ gpc[c] = "refused"
     \/ gpc[c] = "read" \/ gpc[c] = "write"
  /\ gpc' = [gpc EXCEPT ![c] = "done"] /\ Exits(c) /\ Result(c, "error")
  /\ UNCHANGED <<reply, fileVars, acted>>

-----------------------------------------------------------------------------
ToolStep(c) ==
  \/ Call(c) \/ Dialog(c) \/ NoAnswer(c) \/ Check(c) \/ ReadFile(c) \/ WriteFile(c)
  \/ RunCommand(c) \/ CommandEnds(c) \/ CallFails(c)

GateInit ==
  /\ via \in [ToolCalls -> Ways] /\ tool \in [ToolCalls -> Writes \cup Commands]
  /\ \A c \in ToolCalls : tool[c] \in {"powershell", "winget"} => via[c] = "task"
  /\ within \in [ToolCalls -> BOOLEAN]
  /\ asks \in [Ways -> SUBSET {"fs.write", "shell.exec"}]
  /\ gpc = [c \in ToolCalls |-> "called"] /\ thread = NoCaller /\ loop = NoCaller
  /\ reply = [c \in ToolCalls |-> "none"] /\ content = {}
  /\ seen = [c \in ToolCalls |-> {}] /\ verdict = [c \in ToolCalls |-> "none"]
  /\ acted = {} /\ serial = {} /\ crossed = FALSE

GateNext == \E c \in ToolCalls : ToolStep(c) \/ UserAllows(c) \/ UserDenies(c)

GateSpec == GateInit /\ [][GateNext]_gateVars

-----------------------------------------------------------------------------
(* Properties.                                                             *)

\* No call writes or runs anything unless its path or command is within the
\* scope of its own entry and, where that scope asks first, the user allowed this
\* very call: not another one, whose dialog may be up at the same time, and not
\* by letting the dialog pass.
ActsAreGated ==
  \A c \in acted :
    /\ within[c] \/ tool[c] = "winget"
    /\ Asked(c) => reply[c] = "allow"

\* The file holds what the calls would have left one after the other, and no
\* accepted edit is lost, unless the task's thread and a direct call work on it
\* at once (read_text and write_text with nothing in between that excludes them).
EditsCompose == ~crossed => content = serial
=============================================================================
