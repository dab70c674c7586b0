------------------------------ MODULE AgentLog ------------------------------
(***************************************************************************)
(* The code agent's log and its tailers (driver/tools/agent_brief.py): all *)
(* agents append to one log file, and the call that starts an agent starts *)
(* a thread that reads the file from its head and posts its lines to the   *)
(* project of the call.  The file is a sequence of pieces: a piece ends a  *)
(* line or stops inside one, which is where a read may stop too.           *)
(***************************************************************************)
EXTENDS Naturals, Sequences, FiniteSets

CONSTANTS
  Sessions,      \* calls that started an agent
  MaxPieces,     \* bound: pieces in the file
  Batch          \* batch_size

ASSUME AgentLogAssumption == MaxPieces \in Nat /\ Batch \in Nat \ {0}

Pieces == [by : Sessions, ends : BOOLEAN]

VARIABLES
  logFile,       \* AIDER_LOG_FILE
  writer,        \* each session's agent: "none", "running", "gone"
  tailer,        \* its tailer: "off", "read", "parts", "interval", "check", "final", "done"
  pos,           \* what it has read of the file
  parts,         \* whole lines it read and has not buffered
  leftover,      \* the rest of the last read, inside a line
  buffer,
  quiet,         \* no bytes for drain_grace_sec
  expired,       \* its deadline passed
  sent,          \* what it posted, or tried to
  torn           \* history: where it was when a post raised out of the loop

logVars == <<logFile, writer, tailer, pos, parts, leftover, buffer, quiet, expired, sent, torn>>

Whole == [before |-> << >>, batch |-> << >>, lost |-> << >>, rest |-> << >>]

\* No secret, no file within five seconds or a failed open: there is no tailer.
StartSession(s) ==
  /\ tailer[s] = "off" /\ writer' = [writer EXCEPT ![s] = "running"]
  /\ \E first \in {"read", "done"} : tailer' = [tailer EXCEPT ![s] = first]
  /\ UNCHANGED <<logFile, pos, parts, leftover, buffer, quiet, expired, sent, torn>>

Writes(s) ==
  /\ writer[s] = "running" /\ Len(logFile) < MaxPieces
  /\ \E e \in BOOLEAN : logFile' = Append(logFile, [by |-> s, ends |-> e])
  /\ UNCHANGED <<writer, tailer, pos, parts, leftover, buffer, quiet, expired, sent, torn>>

AgentGone(s) ==
  /\ writer[s] = "running" /\ writer' = [writer EXCEPT ![s] = "gone"]
  /\ UNCHANGED <<logFile, tailer, pos, parts, leftover, buffer, quiet, expired, sent, torn>>

\* The last line end of a text, 0 when it has none.
IsLastEnd(k, text) ==
  /\ k # 0 => text[k].ends
  /\ \A i \in DOMAIN text : text[i].ends => i <= k

\* Mutant: what a read leaves inside a line is overwritten by the next read.
ReadDropsLeftover(s) ==
  /\ tailer[s] = "read" /\ tailer' = [tailer EXCEPT ![s] = "parts"]
  /\ LET text == SubSeq(logFile, pos[s] + 1, Len(logFile))
     IN \E k \in 0 .. Len(text) :
          /\ IsLastEnd(k, text)
          /\ parts' = [parts EXCEPT ![s] = SubSeq(text, 1, k)]
          /\ leftover' = [leftover EXCEPT ![s] = SubSeq(text, k + 1, Len(text))]
  /\ pos' = [pos EXCEPT ![s] = Len(logFile)]
  /\ quiet' = [quiet EXCEPT ![s] = @ /\ pos[s] = Len(logFile)]
  /\ UNCHANGED <<logFile, writer, buffer, expired, sent, torn>>

Read(s) ==
  /\ tailer[s] = "read" /\ tailer' = [tailer EXCEPT ![s] = "parts"]
  /\ LET text == leftover[s] \o SubSeq(logFile, pos[s] + 1, Len(logFile))
     IN \E k \in 0 .. Len(text) :
          /\ IsLastEnd(k, text)
          /\ parts' = [parts EXCEPT ![s] = SubSeq(text, 1, k)]
          /\ leftover' = [leftover EXCEPT ![s] = SubSeq(text, k + 1, Len(text))]
  /\ pos' = [pos EXCEPT ![s] = Len(logFile)]
  /\ quiet' = [quiet EXCEPT ![s] = @ /\ pos[s] = Len(logFile)]
  /\ UNCHANGED <<logFile, writer, buffer, expired, sent, torn>>

Full(s) == Cardinality({i \in DOMAIN buffer[s] : buffer[s][i].ends}) >= Batch

NextLine(s) ==
  /\ tailer[s] = "parts" /\ ~Full(s) /\ parts[s] # << >>
  /\ \E n \in 1 .. Len(parts[s]) :
       /\ parts[s][n].ends /\ \A i \in 1 .. n - 1 : ~parts[s][i].ends
       /\ buffer' = [buffer EXCEPT ![s] = @ \o SubSeq(parts[s], 1, n)]
       /\ parts' = [parts EXCEPT ![s] = SubSeq(@, n + 1, Len(@))]
  /\ UNCHANGED <<logFile, writer, tailer, pos, leftover, quiet, expired, sent, torn>>

PartsDone(s) ==
  /\ tailer[s] = "parts" /\ ~Full(s) /\ parts[s] = << >>
  /\ tailer' = [tailer EXCEPT ![s] = "interval"]
  /\ UNCHANGED <<logFile, writer, pos, parts, leftover, buffer, quiet, expired, sent, torn>>

\* _flush: the buffer is cleared after the post, answered, refused or failed.
Flush(s, next) ==
  /\ sent' = [sent EXCEPT ![s] = @ \o buffer[s]]
  /\ buffer' = [buffer EXCEPT ![s] = << >>]
  /\ tailer' = [tailer EXCEPT ![s] = next]
  /\ UNCHANGED <<logFile, writer, pos, parts, leftover, quiet, expired, torn>>

\* A post that raises an HTTPException is not caught: the loop is left with the
\* buffer as it was and without the lines not yet in it.
FlushRaises(s) ==
  /\ buffer[s] # << >>
  /\ torn' = [torn EXCEPT ![s] = [before |-> sent[s], batch |-> buffer[s],
                                  lost |-> parts[s], rest |-> leftover[s]]]
  /\ sent' = [sent EXCEPT ![s] = @ \o buffer[s]]
  /\ parts' = [parts EXCEPT ![s] = << >>]
  /\ tailer' = [tailer EXCEPT ![s] = "final"]
  /\ UNCHANGED <<logFile, writer, pos, leftover, buffer, quiet, expired>>

FullBatch(s) == tailer[s] = "parts" /\ Full(s) /\ (Flush(s, "parts") \/ FlushRaises(s))

Interval(s) ==
  /\ tailer[s] = "interval"
  /\ \/ Flush(s, "check") \/ FlushRaises(s)
     \/ /\ tailer' = [tailer EXCEPT ![s] = "check"]
        /\ UNCHANGED <<logFile, writer, pos, parts, leftover, buffer, quiet, expired, sent, torn>>

\* Time passes while the tailer sleeps and while a post waits for its answer.
TimeGoes(s) ==
  /\ tailer[s] \notin {"off", "final", "done"}
  /\ \/ ~quiet[s] /\ quiet' = [quiet EXCEPT ![s] = TRUE] /\ UNCHANGED expired
     \/ ~expired[s] /\ expired' = [expired EXCEPT ![s] = TRUE] /\ UNCHANGED quiet
  /\ UNCHANGED <<logFile, writer, tailer, pos, parts, leftover, buffer, sent, torn>>

Over(s) == expired[s] \/ (writer[s] = "gone" /\ quiet[s])

Check(s) ==
  /\ tailer[s] = "check"
  /\ tailer' = [tailer EXCEPT ![s] = IF Over(s) THEN "final" ELSE "read"]
  /\ UNCHANGED <<logFile, writer, pos, parts, leftover, buffer, quiet, expired, sent, torn>>

\* The finally block: the rest of a line and the buffer are posted, and the thread
\* is over whatever comes of it.
Final(s) ==
  /\ tailer[s] = "final" /\ tailer' = [tailer EXCEPT ![s] = "done"]
  /\ sent' = [sent EXCEPT ![s] = @ \o (buffer[s] \o leftover[s])]
  /\ buffer' = [buffer EXCEPT ![s] = << >>]
  /\ leftover' = [leftover EXCEPT ![s] = << >>]
  /\ UNCHANGED <<logFile, writer, pos, parts, quiet, expired, torn>>

AgentLogInit ==
  /\ logFile = << >> /\ writer = [s \in Sessions |-> "none"]
  /\ tailer = [s \in Sessions |-> "off"] /\ pos = [s \in Sessions |-> 0]
  /\ parts = [s \in Sessions |-> << >>] /\ leftover = [s \in Sessions |-> << >>]
  /\ buffer = [s \in Sessions |-> << >>] /\ sent = [s \in Sessions |-> << >>]
  /\ quiet = [s \in Sessions |-> FALSE] /\ expired = [s \in Sessions |-> FALSE]
  /\ torn = [s \in Sessions |-> Whole]

AgentLogNext ==
  \E s \in Sessions :
    \/ StartSession(s) \/ Writes(s) \/ AgentGone(s)
    \/ Read(s) \/ NextLine(s) \/ PartsDone(s) \/ FullBatch(s) \/ Interval(s)
    \/ Check(s) \/ Final(s) \/ TimeGoes(s)

AgentLogSpec == AgentLogInit /\ [][AgentLogNext]_logVars

-----------------------------------------------------------------------------
\* What a tailer holds back of what it read.
Held(s) == buffer[s] \o (parts[s] \o leftover[s])

Stream(s) ==
  LET t == torn[s]
      posted == sent[s] \o Held(s)
  IN IF t = Whole
     THEN posted = SubSeq(logFile, 1, pos[s])
     ELSE /\ t.before \o (t.batch \o (t.lost \o t.rest)) = SubSeq(logFile, 1, pos[s])
          /\ posted = t.before \o (t.batch \o (t.batch \o t.rest))

\* What a tailer read of the file it posts once and in the order of the file, over
\* every boundary between reads, lines, batches and the final flush.  A post that
\* raises breaks this in one way only: that batch is posted twice and followed by
\* the piece of a line left over, and the lines of that read still unbuffered are lost.
StreamIsTheFile == \A s \in Sessions : Stream(s)
=============================================================================
