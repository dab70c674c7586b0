--------------------------- MODULE ServicesProofs ---------------------------
(***************************************************************************)
(* Theorems about what runs beside the agents, for any calls, sessions,    *)
(* frames and bounds: of agent_dev_brief, no dev server is started under a *)
(* running agent; of its log tailers, what a tailer has flushed and still  *)
(* buffers is the file as far as it has read it; of the heartbeat, an      *)
(* outage is told once; of the router, joiners wait for what is in hand    *)
(* and queued; of the screen recorder, recordings stay separate.           *)
(***************************************************************************)
EXTENDS AgentBrief, AgentLog, PreviewHeartbeat, Agents, ScreenRecorder,
        SequenceTheorems, TLAPS

-----------------------------------------------------------------------------
(* Lemmas about sequences.                                                 *)

\* A sequence is its first n elements and the rest.
LEMMA SplitSequence ==
  ASSUME NEW S, NEW l \in Seq(S), NEW n \in 0 .. Len(l)
  PROVE  /\ SubSeq(l, 1, n) \in Seq(S) /\ SubSeq(l, n + 1, Len(l)) \in Seq(S)
         /\ SubSeq(l, 1, n) \o SubSeq(l, n + 1, Len(l)) = l
<1>1. Len(l) \in Nat /\ \A i \in 1 .. Len(l) : l[i] \in S
  OBVIOUS
<1>2. SubSeq(l, 1, n) \in Seq(S) /\ SubSeq(l, n + 1, Len(l)) \in Seq(S)
  BY <1>1, SubSeqProperties
<1>3. 1 \in 1 .. Len(l) + 1 /\ n \in 1 - 1 .. Len(l) /\ Len(l) \in n .. Len(l)
  BY <1>1
<1>4. SubSeq(l, 1, n) \o SubSeq(l, n + 1, Len(l)) = SubSeq(l, 1, Len(l))
  BY <1>3, ConcatAdjacentSubSeq, Zenon
<1>5. QED
  BY <1>2, <1>4, SubSeqFull, Zenon

\* The part that was read does not change when a piece is appended.
LEMMA PrefixStays ==
  ASSUME NEW S, NEW l \in Seq(S), NEW e \in S, NEW n \in 0 .. Len(l)
  PROVE  SubSeq(Append(l, e), 1, n) = SubSeq(l, 1, n)
OBVIOUS

\* A concatenation of three, grouped either way.
Grouped(a, b, c) == (a \o b) \o c = a \o (b \o c)

\* Concatenation is associative.
LEMMA Associative ==
  ASSUME NEW S, NEW a \in Seq(S), NEW b \in Seq(S), NEW c \in Seq(S)
  PROVE  Grouped(a, b, c)
BY DEF Grouped

\* Regrouping when a read, a flush, a post that raises and the final flush move what
\* is sent (a), buffered (b), split into lines (p) and left over (l).
Regrouped(a, b, p, l) ==
  /\ (a \o (b \o (<< >> \o l))) \o p = a \o (b \o (l \o p))
  /\ (a \o b) \o (<< >> \o (p \o l)) = a \o (b \o (p \o l))
  /\ (a \o b) \o (b \o (<< >> \o l)) = a \o (b \o (b \o l))
  /\ (a \o (b \o l)) \o (<< >> \o (<< >> \o << >>)) = a \o (b \o (<< >> \o l))

\* The regroupings hold of any four sequences.
LEMMA Regrouping ==
  ASSUME NEW S, NEW a \in Seq(S), NEW b \in Seq(S), NEW p \in Seq(S), NEW l \in Seq(S)
  PROVE  Regrouped(a, b, p, l)
<1>1. /\ << >> \in Seq(S) /\ b \o l \in Seq(S) /\ p \o l \in Seq(S) /\ a \o (b \o l) \in Seq(S)
  BY EmptySeq, ConcatProperties
<1>2. << >> \o l = l /\ << >> \o (p \o l) = p \o l /\ << >> \o << >> = << >>
  BY <1>1, ConcatEmptySeq
<1>3. (a \o (b \o l)) \o << >> = a \o (b \o l)
  BY <1>1, ConcatEmptySeq
<1>4. /\ Grouped(a, b \o l, p) /\ Grouped(b, l, p) /\ Grouped(a, b, p \o l)
      /\ Grouped(a, b, b \o l)
  BY <1>1, Associative, Zenon
<1>5. QED
  BY <1>2, <1>3, <1>4, Zenon DEF Grouped, Regrouped

\* The same when a line (p) goes from what was split (p and q) to the buffer.
LineMoved(b, p, q, l) == (b \o p) \o (q \o l) = b \o ((p \o q) \o l)

\* A line moves without changing the stream.
LEMMA LineMoves ==
  ASSUME NEW S, NEW b \in Seq(S), NEW p \in Seq(S), NEW q \in Seq(S), NEW l \in Seq(S)
  PROVE  LineMoved(b, p, q, l)
<1>1. q \o l \in Seq(S)
  BY ConcatProperties
<1>2. Grouped(b, p, q \o l) /\ Grouped(p, q, l)
  BY <1>1, Associative, Zenon
<1>3. QED
  BY <1>2, Zenon DEF Grouped, LineMoved

-----------------------------------------------------------------------------
\* The file, the positions and the buffers.
LogShape ==
  /\ logFile \in Seq(Pieces)
  /\ pos \in [Sessions -> Nat] /\ \A s \in Sessions : pos[s] \in 0 .. Len(logFile)
  /\ parts \in [Sessions -> Seq(Pieces)] /\ leftover \in [Sessions -> Seq(Pieces)]
  /\ buffer \in [Sessions -> Seq(Pieces)] /\ sent \in [Sessions -> Seq(Pieces)]
  /\ DOMAIN tailer = Sessions /\ DOMAIN torn = Sessions

\* Lines wait for the buffer only while they are split, and a post that raised ends
\* the loop.
Phase(s) ==
  /\ tailer[s] # "parts" => parts[s] = << >>
  /\ torn[s] # Whole => tailer[s] \in {"final", "done"}

\* The inductive invariant of the tailers.
LogInv == LogShape /\ \A s \in Sessions : Phase(s) /\ Stream(s)

\* Nothing is written and nothing read.
LEMMA LogInvInitial == AgentLogInit => LogInv
<1> SUFFICES ASSUME AgentLogInit PROVE LogInv
  OBVIOUS
<1>1. << >> \in Seq(Pieces) /\ Len(<< >>) = 0 /\ << >> \o << >> = << >>
  BY EmptySeq, ConcatEmptySeq
<1>2. LogShape
  BY <1>1 DEF AgentLogInit, LogShape
<1>3. SubSeq(<< >>, 1, 0) = << >>
  BY SubSeqEmpty
<1>4. ASSUME NEW s \in Sessions PROVE Phase(s) /\ Stream(s)
  BY <1>1, <1>3 DEF AgentLogInit, Phase, Stream, Held
<1>5. QED
  BY <1>2, <1>4 DEF LogInv

\* A piece is appended behind what every tailer has read.
LEMMA WriteKeepsInv ==
  ASSUME LogInv, NEW s \in Sessions, Writes(s)
  PROVE  LogInv'
<1>1. PICK e \in BOOLEAN : logFile' = Append(logFile, [by |-> s, ends |-> e])
  BY DEF Writes
<1> DEFINE piece == [by |-> s, ends |-> e]
<1>2. /\ UNCHANGED <<tailer, pos, parts, leftover, buffer, sent, torn>>
      /\ logFile \in Seq(Pieces) /\ piece \in Pieces /\ logFile' = Append(logFile, piece)
  BY <1>1 DEF Writes, LogInv, LogShape, Pieces
<1> HIDE DEF piece
<1>3. logFile' \in Seq(Pieces) /\ Len(logFile') = Len(logFile) + 1 /\ Len(logFile) \in Nat
  BY <1>2
<1>4. LogShape'
  BY <1>2, <1>3 DEF LogInv, LogShape
<1>5. \A t \in Sessions : SubSeq(logFile', 1, pos[t]) = SubSeq(logFile, 1, pos[t])
  BY <1>2, PrefixStays DEF LogInv, LogShape
<1>6. ASSUME NEW t \in Sessions PROVE (Phase(t) /\ Stream(t))'
  <2>1. Phase(t) /\ Stream(t)
    BY DEF LogInv
  <2>2. QED
    BY <1>2, <1>5, <2>1, Zenon DEF Phase, Stream, Held
<1>7. QED
  BY <1>4, <1>6 DEF LogInv

\* A step that touches one tailer is one about its own stream.
LEMMA OneTailer ==
  ASSUME LogInv, NEW s \in Sessions, LogShape', UNCHANGED logFile, Phase(s)', Stream(s)',
         \A t \in Sessions \ {s} :
           /\ tailer'[t] = tailer[t] /\ pos'[t] = pos[t] /\ parts'[t] = parts[t]
           /\ leftover'[t] = leftover[t] /\ buffer'[t] = buffer[t] /\ sent'[t] = sent[t]
           /\ torn'[t] = torn[t]
  PROVE  LogInv'
<1>1. ASSUME NEW t \in Sessions \ {s} PROVE (Phase(t) /\ Stream(t))'
  <2>1. Phase(t) /\ Stream(t)
    BY DEF LogInv
  <2>2. QED
    BY <2>1, Zenon DEF Phase, Stream, Held
<1>2. QED
  BY <1>1 DEF LogInv

\* A read takes the rest of the file behind what was left over.
LEMMA ReadKeepsInv ==
  ASSUME LogInv, NEW s \in Sessions, Read(s)
  PROVE  LogInv'
<1> DEFINE unread == SubSeq(logFile, pos[s] + 1, Len(logFile))
           text == leftover[s] \o unread
<1>1. PICK k \in 0 .. Len(text) :
        /\ parts' = [parts EXCEPT ![s] = SubSeq(text, 1, k)]
        /\ leftover' = [leftover EXCEPT ![s] = SubSeq(text, k + 1, Len(text))]
  BY Zenon DEF Read
<1>2. /\ tailer[s] = "read" /\ tailer' = [tailer EXCEPT ![s] = "parts"]
      /\ pos' = [pos EXCEPT ![s] = Len(logFile)] /\ UNCHANGED <<logFile, buffer, sent, torn>>
  BY DEF Read
<1>3. /\ logFile \in Seq(Pieces) /\ buffer[s] \in Seq(Pieces) /\ sent[s] \in Seq(Pieces)
      /\ leftover[s] \in Seq(Pieces) /\ pos[s] \in 0 .. Len(logFile)
  BY DEF LogInv, LogShape
<1>4. unread \in Seq(Pieces) /\ SubSeq(logFile, 1, pos[s]) \o unread = logFile
  BY <1>3, SplitSequence, Zenon
<1>5. torn[s] = Whole /\ parts[s] = << >>
  BY <1>2 DEF LogInv, Phase
<1>6. sent[s] \o (buffer[s] \o (<< >> \o leftover[s])) = SubSeq(logFile, 1, pos[s])
  BY <1>5, Zenon DEF LogInv, Stream, Held
<1> HIDE DEF unread
<1>7. text \in Seq(Pieces)
  BY <1>3, <1>4, ConcatProperties, Zenon
<1>8. sent[s] \o (buffer[s] \o text) = logFile
  <2>1. Regrouped(sent[s], buffer[s], unread, leftover[s])
    BY <1>3, <1>4, Regrouping, Zenon
  <2>2. QED
    BY <1>4, <1>6, <2>1, Zenon DEF Regrouped
<1> HIDE DEF text
<1> DEFINE lines == SubSeq(text, 1, k)
           rest == SubSeq(text, k + 1, Len(text))
<1>9. lines \in Seq(Pieces) /\ rest \in Seq(Pieces) /\ lines \o rest = text
  BY <1>7, SplitSequence, Zenon
<1>10. parts' = [parts EXCEPT ![s] = lines] /\ leftover' = [leftover EXCEPT ![s] = rest]
  BY <1>1, Zenon
<1> HIDE DEF lines, rest
<1>11. Len(logFile) \in Nat /\ SubSeq(logFile, 1, Len(logFile)) = logFile
  BY <1>3, SubSeqFull
<1>12. LogShape'
  BY <1>2, <1>9, <1>10, <1>11 DEF LogInv, LogShape
<1>13. /\ parts'[s] = lines /\ leftover'[s] = rest /\ pos'[s] = Len(logFile)
       /\ tailer'[s] = "parts"
  BY <1>2, <1>10 DEF LogInv, LogShape
<1>14. Stream(s)'
  BY <1>2, <1>5, <1>8, <1>9, <1>11, <1>13, Zenon DEF Stream, Held
<1>15. Phase(s)'
  BY <1>2, <1>5, <1>13 DEF Phase
<1>16. QED
  BY <1>2, <1>10, <1>12, <1>14, <1>15, OneTailer DEF LogInv, LogShape

\* A line goes from what was split to the buffer.
LEMMA NextLineKeepsInv ==
  ASSUME LogInv, NEW s \in Sessions, NextLine(s)
  PROVE  LogInv'
<1>1. PICK n \in 1 .. Len(parts[s]) :
        /\ buffer' = [buffer EXCEPT ![s] = @ \o SubSeq(parts[s], 1, n)]
        /\ parts' = [parts EXCEPT ![s] = SubSeq(@, n + 1, Len(@))]
  BY DEF NextLine
<1>2. tailer[s] = "parts" /\ UNCHANGED <<logFile, tailer, pos, leftover, sent, torn>>
  BY DEF NextLine
<1> DEFINE line == SubSeq(parts[s], 1, n)
           rest == SubSeq(parts[s], n + 1, Len(parts[s]))
<1>3. /\ buffer[s] \in Seq(Pieces) /\ leftover[s] \in Seq(Pieces) /\ parts[s] \in Seq(Pieces)
      /\ n \in 0 .. Len(parts[s])
  BY DEF LogInv, LogShape
<1>4. line \in Seq(Pieces) /\ rest \in Seq(Pieces) /\ line \o rest = parts[s]
  BY <1>3, SplitSequence, Zenon
<1> HIDE DEF line, rest
<1>5. /\ buffer' = [buffer EXCEPT ![s] = buffer[s] \o line]
      /\ parts' = [parts EXCEPT ![s] = rest]
  BY <1>1, Zenon DEF line, rest
<1>6. buffer[s] \o line \in Seq(Pieces)
  BY <1>3, <1>4, ConcatProperties
<1>7. LogShape'
  BY <1>2, <1>4, <1>5, <1>6 DEF LogInv, LogShape
<1>8. buffer'[s] = buffer[s] \o line /\ parts'[s] = rest
  BY <1>5 DEF LogInv, LogShape
<1>9. (buffer[s] \o line) \o (rest \o leftover[s]) = buffer[s] \o (parts[s] \o leftover[s])
  <2>1. LineMoved(buffer[s], line, rest, leftover[s])
    BY <1>3, <1>4, LineMoves, Zenon
  <2>2. QED
    BY <1>4, <2>1, Zenon DEF LineMoved
<1>10. torn[s] = Whole
  BY <1>2 DEF LogInv, Phase
<1>11. Stream(s)
  BY DEF LogInv
<1>12. Stream(s)'
  BY <1>2, <1>8, <1>9, <1>10, <1>11, Zenon DEF Stream, Held
<1>13. Phase(s)'
  BY <1>2, <1>10 DEF Phase
<1>14. QED
  BY <1>2, <1>5, <1>7, <1>12, <1>13, OneTailer DEF LogInv, LogShape

\* A flush sends the buffer and clears it.
LEMMA FlushKeepsInv ==
  ASSUME LogInv, NEW s \in Sessions, NEW next \in {"parts", "check"}, Flush(s, next),
         tailer[s] \in {"parts", "interval"}, next = "check" => tailer[s] = "interval"
  PROVE  LogInv'
<1>1. /\ sent' = [sent EXCEPT ![s] = sent[s] \o buffer[s]]
      /\ buffer' = [buffer EXCEPT ![s] = << >>] /\ tailer' = [tailer EXCEPT ![s] = next]
      /\ UNCHANGED <<logFile, pos, parts, leftover, torn>>
  BY DEF Flush
<1>2. /\ buffer[s] \in Seq(Pieces) /\ leftover[s] \in Seq(Pieces) /\ parts[s] \in Seq(Pieces)
      /\ sent[s] \in Seq(Pieces) /\ << >> \in Seq(Pieces)
  BY EmptySeq DEF LogInv, LogShape
<1>3. sent[s] \o buffer[s] \in Seq(Pieces)
  BY <1>2, ConcatProperties
<1>4. LogShape'
  BY <1>1, <1>2, <1>3 DEF LogInv, LogShape
<1>5. sent'[s] = sent[s] \o buffer[s] /\ buffer'[s] = << >> /\ tailer'[s] = next
  BY <1>1 DEF LogInv, LogShape
<1>6. (sent[s] \o buffer[s]) \o (<< >> \o (parts[s] \o leftover[s]))
        = sent[s] \o (buffer[s] \o (parts[s] \o leftover[s]))
  <2>1. Regrouped(sent[s], buffer[s], parts[s], leftover[s])
    BY <1>2, Regrouping, Zenon
  <2>2. QED
    BY <2>1, Zenon DEF Regrouped
<1>7. torn[s] = Whole /\ Stream(s) /\ Phase(s)
  BY DEF LogInv, Phase
<1>8. Stream(s)'
  BY <1>1, <1>5, <1>6, <1>7, Zenon DEF Stream, Held
<1>9. Phase(s)'
  BY <1>1, <1>5, <1>7 DEF Phase
<1>10. QED
  BY <1>1, <1>4, <1>8, <1>9, OneTailer DEF LogInv, LogShape

\* A post that raises leaves the loop with its batch still in the buffer.
LEMMA RaiseKeepsInv ==
  ASSUME LogInv, NEW s \in Sessions, FlushRaises(s), tailer[s] \in {"parts", "interval"}
  PROVE  LogInv'
<1> DEFINE t == [before |-> sent[s], batch |-> buffer[s], lost |-> parts[s], rest |-> leftover[s]]
<1>1. /\ sent' = [sent EXCEPT ![s] = sent[s] \o buffer[s]] /\ torn' = [torn EXCEPT ![s] = t]
      /\ parts' = [parts EXCEPT ![s] = << >>] /\ tailer' = [tailer EXCEPT ![s] = "final"]
      /\ UNCHANGED <<logFile, pos, buffer, leftover>> /\ buffer[s] # << >>
  BY DEF FlushRaises
<1>2. /\ buffer[s] \in Seq(Pieces) /\ leftover[s] \in Seq(Pieces) /\ parts[s] \in Seq(Pieces)
      /\ sent[s] \in Seq(Pieces) /\ << >> \in Seq(Pieces)
  BY EmptySeq DEF LogInv, LogShape
<1>3. t # Whole /\ t.before = sent[s] /\ t.batch = buffer[s] /\ t.lost = parts[s] /\ t.rest = leftover[s]
  BY <1>1 DEF Whole
<1> HIDE DEF t
<1>4. sent[s] \o buffer[s] \in Seq(Pieces)
  BY <1>2, ConcatProperties
<1>5. LogShape'
  BY <1>1, <1>2, <1>4 DEF LogInv, LogShape
<1>6. /\ sent'[s] = sent[s] \o buffer[s] /\ parts'[s] = << >> /\ tailer'[s] = "final"
      /\ torn'[s] = t
  BY <1>1 DEF LogInv, LogShape
<1>7. (sent[s] \o buffer[s]) \o (buffer[s] \o (<< >> \o leftover[s]))
        = sent[s] \o (buffer[s] \o (buffer[s] \o leftover[s]))
  <2>1. Regrouped(sent[s], buffer[s], parts[s], leftover[s])
    BY <1>2, Regrouping, Zenon
  <2>2. QED
    BY <2>1, Zenon DEF Regrouped
<1>8. torn[s] = Whole /\ Stream(s)
  BY DEF LogInv, Phase
<1>9. sent[s] \o (buffer[s] \o (parts[s] \o leftover[s])) = SubSeq(logFile, 1, pos[s])
  BY <1>8, Zenon DEF Stream, Held
<1>10. Stream(s)'
  BY <1>1, <1>3, <1>6, <1>7, <1>9, Zenon DEF Stream, Held
<1>11. Phase(s)'
  BY <1>6 DEF Phase
<1>12. QED
  BY <1>1, <1>5, <1>10, <1>11, OneTailer DEF LogInv, LogShape

\* The thread ends: what it buffered and what was left over is flushed.
LEMMA FinalKeepsInv ==
  ASSUME LogInv, NEW s \in Sessions, Final(s)
  PROVE  LogInv'
<1> DEFINE all == sent[s] \o (buffer[s] \o leftover[s])
<1>1. /\ sent' = [sent EXCEPT ![s] = all] /\ buffer' = [buffer EXCEPT ![s] = << >>]
      /\ leftover' = [leftover EXCEPT ![s] = << >>] /\ tailer' = [tailer EXCEPT ![s] = "done"]
      /\ UNCHANGED <<logFile, pos, parts, torn>> /\ tailer[s] = "final"
  BY DEF Final
<1>2. /\ buffer[s] \in Seq(Pieces) /\ leftover[s] \in Seq(Pieces) /\ sent[s] \in Seq(Pieces)
      /\ << >> \in Seq(Pieces)
  BY EmptySeq DEF LogInv, LogShape
<1>3. all \in Seq(Pieces)
  BY <1>2, ConcatProperties
<1>4. all \o (<< >> \o (<< >> \o << >>)) = sent[s] \o (buffer[s] \o (<< >> \o leftover[s]))
  <2>1. Regrouped(sent[s], buffer[s], << >>, leftover[s])
    BY <1>2, Regrouping, Zenon
  <2>2. QED
    BY <2>1, Zenon DEF Regrouped
<1> HIDE DEF all
<1>5. LogShape'
  BY <1>1, <1>2, <1>3 DEF LogInv, LogShape
<1>6. /\ sent'[s] = all /\ buffer'[s] = << >> /\ leftover'[s] = << >> /\ tailer'[s] = "done"
  BY <1>1 DEF LogInv, LogShape
<1>7. parts[s] = << >> /\ Stream(s)
  BY <1>1 DEF LogInv, Phase
<1>8. Stream(s)'
  BY <1>1, <1>4, <1>6, <1>7, Zenon DEF Stream, Held
<1>9. Phase(s)'
  BY <1>1, <1>6, <1>7 DEF Phase
<1>10. QED
  BY <1>1, <1>5, <1>8, <1>9, OneTailer DEF LogInv, LogShape

\* A step that only moves the tailer on, out of the loop's own places.
LEMMA PlaceKeepsInv ==
  ASSUME LogInv, NEW s \in Sessions, NEW next \in {"read", "interval", "check", "final", "done"},
         tailer[s] = "parts" => parts[s] = << >>, tailer[s] \notin {"final", "done"},
         tailer' = [tailer EXCEPT ![s] = next],
         UNCHANGED <<logFile, pos, parts, leftover, buffer, sent, torn>>
  PROVE  LogInv'
<1>1. LogShape' /\ tailer'[s] = next
  BY DEF LogInv, LogShape
<1>2. Phase(s) /\ Stream(s)
  BY DEF LogInv
<1>3. Stream(s)'
  BY <1>2, Zenon DEF Stream, Held
<1>4. Phase(s)'
  BY <1>1, <1>2 DEF Phase
<1>5. QED
  BY <1>1, <1>3, <1>4, OneTailer DEF LogInv, LogShape

\* Each step of agents and tailers keeps what was sent and held.
LEMMA LogInvKept == LogInv /\ [AgentLogNext]_logVars => LogInv'
<1>1. ASSUME LogInv, UNCHANGED <<logFile, tailer, pos, parts, leftover, buffer, sent, torn>>
      PROVE  LogInv'
  <2>1. LogShape'
    BY <1>1 DEF LogInv, LogShape
  <2>2. ASSUME NEW t \in Sessions PROVE (Phase(t) /\ Stream(t))'
    <3>1. Phase(t) /\ Stream(t)
      BY <1>1 DEF LogInv
    <3>2. QED
      BY <1>1, <3>1, Zenon DEF Phase, Stream, Held
  <2>3. QED
    BY <2>1, <2>2 DEF LogInv
<1>2. ASSUME LogInv, NEW s \in Sessions, StartSession(s)
      PROVE  LogInv'
  BY <1>2, PlaceKeepsInv DEF StartSession
<1>3. ASSUME LogInv, NEW s \in Sessions, AgentGone(s) \/ TimeGoes(s)
      PROVE  LogInv'
  BY <1>1, <1>3 DEF AgentGone, TimeGoes
<1>4. ASSUME LogInv, NEW s \in Sessions, PartsDone(s)
      PROVE  LogInv'
  BY <1>4, PlaceKeepsInv DEF PartsDone
<1>5. ASSUME LogInv, NEW s \in Sessions, FullBatch(s)
      PROVE  LogInv'
  BY <1>5, FlushKeepsInv, RaiseKeepsInv DEF FullBatch
<1>6. ASSUME LogInv, NEW s \in Sessions, Interval(s)
      PROVE  LogInv'
  BY <1>6, FlushKeepsInv, RaiseKeepsInv, PlaceKeepsInv DEF Interval
<1>7. ASSUME LogInv, NEW s \in Sessions, Check(s)
      PROVE  LogInv'
  BY <1>7, PlaceKeepsInv DEF Check
<1>8. QED
  BY <1>1, <1>2, <1>3, <1>4, <1>5, <1>6, <1>7, WriteKeepsInv, ReadKeepsInv, NextLineKeepsInv,
     FinalKeepsInv, Zenon DEF AgentLogNext, logVars

-----------------------------------------------------------------------------
\* For any batch size, sessions and interleaving: what a tailer read is posted once
\* and in order across reads, lines, batches and the final flush, but for the one
\* batch whose post raised.
THEOREM EveryLineOnce == AgentLogSpec => []StreamIsTheFile
<1>1. AgentLogInit => LogInv
  BY LogInvInitial
<1>2. LogInv => StreamIsTheFile
  BY DEF LogInv, StreamIsTheFile
<1>3. QED
  BY <1>1, <1>2, LogInvKept, PTL DEF AgentLogSpec

-----------------------------------------------------------------------------
(* The dev server.                                                         *)

\* The calls, their agents and their watchers.
BriefShape ==
  /\ bpc \in [Calls -> {"idle", "clone", "strip", "runtimes", "configure", "spawn", "watch",
                        "returned", "failed"}]
  /\ aider \in [Calls -> {"none", "running", "zombie", "reaped"}]
  /\ server \in [Calls -> {"none", "starting", "up", "down"}]
  /\ watcher \in [Calls -> {"off", "poll", "wait", "getme", "done"}]
  /\ fallback \in [Calls -> {"none", "ok", "failed"}]

\* A watcher that may still start the dev server has not, and its agent was started.
NotYetServed ==
  \A c \in Calls :
    /\ bpc[c] \in {"watch", "returned"} => aider[c] # "none"
    /\ bpc[c] # "returned" => watcher[c] = "off"
    /\ watcher[c] = "off" => server[c] = "none"
    /\ watcher[c] = "poll" /\ fallback[c] = "none" => server[c] = "none"

\* Without overlapping calls one call of a project is at work.
OneAtWork ==
  \A c, d \in Calls :
    c # d /\ project[c] = project[d] /\ project[c] \notin collided => ~(Busy(c) /\ Busy(d))

\* The inductive invariant of the launch.
BriefInv == BriefShape /\ NotYetServed /\ OneAtWork

\* No call has begun.
LEMMA BriefInvInitial == BriefInit => BriefInv
BY DEF BriefInit, BriefInv, BriefShape, NotYetServed, OneAtWork, Busy

\* A step that brings no call to work leaves one at work.
LEMMA StillOneAtWork ==
  ASSUME OneAtWork, UNCHANGED <<project, collided>>, \A c \in Calls : Busy(c)' => Busy(c)
  PROVE  OneAtWork'
BY DEF OneAtWork

\* Collecting the zombies brings no agent back.
LEMMA ReapedShape ==
  ASSUME BriefShape
  PROVE  /\ Reaped \in [Calls -> {"none", "running", "zombie", "reaped"}]
         /\ \A c \in Calls : /\ Reaped[c] = "none" <=> aider[c] = "none"
                             /\ Reaped[c] = "running" <=> aider[c] = "running"
BY DEF BriefShape, Reaped

\* A step of the call before its watcher starts.
LEMMA CallStepInv ==
  ASSUME BriefInv, NEW c \in Calls,
         agent_dev_brief(c)
  PROVE  BriefInv' /\ UNCHANGED server
<1>1. CASE StartWatcher(c)
  <2>1. BriefShape' /\ NotYetServed' /\ UNCHANGED server
    BY <1>1 DEF StartWatcher, BriefInv, BriefShape, NotYetServed, argVars
  <2>2. \A d \in Calls : Busy(d)' => Busy(d)
    BY <1>1 DEF StartWatcher, BriefInv, BriefShape, Busy
  <2>3. OneAtWork'
    BY <1>1, <2>2, StillOneAtWork DEF StartWatcher, BriefInv, argVars
  <2>4. QED
    BY <2>1, <2>3 DEF BriefInv
<1>2. CASE SpawnAider(c)
  <2>1. BriefShape' /\ NotYetServed' /\ UNCHANGED server
    BY <1>2, ReapedShape DEF SpawnAider, Refuse, CallGoes, BriefInv, BriefShape, NotYetServed, watchVars
  <2>2. \A d \in Calls : Busy(d)' => Busy(d)
    <3>1. Busy(c) /\ UNCHANGED watcher /\ DOMAIN bpc = Calls
      BY <1>2 DEF SpawnAider, Refuse, CallGoes, BriefInv, BriefShape, Busy, watchVars
    <3>2. ASSUME NEW d \in Calls \ {c}
          PROVE  bpc'[d] = bpc[d] /\ (aider'[d] = "running" <=> aider[d] = "running")
      BY <1>2, ReapedShape DEF SpawnAider, Refuse, CallGoes, BriefInv, BriefShape
    <3>3. QED
      BY <3>1, <3>2 DEF Busy
  <2>3. OneAtWork'
    BY <1>2, <2>2, StillOneAtWork DEF SpawnAider, Refuse, CallGoes, BriefInv, argVars
  <2>4. QED
    BY <2>1, <2>3 DEF BriefInv
<1>3. CASE Prepare(c) \/ Clone(c) \/ StripHistory(c) \/ ResolveRuntimes(c) \/ Configure(c)
  <2>1. /\ UNCHANGED <<project, server, watchVars>> /\ aider' \in {aider, Reaped}
        /\ \E from \in {"idle", "clone", "strip", "runtimes", "configure"},
              to \in {"clone", "strip", "runtimes", "configure", "spawn", "failed"} :
             bpc[c] = from /\ bpc' = [bpc EXCEPT ![c] = to]
    BY <1>3 DEF Prepare, Clone, StripHistory, ResolveRuntimes, Configure, Refuse, CallGoes, argVars
  <2>2. BriefShape' /\ NotYetServed'
    BY <2>1, ReapedShape DEF BriefInv, BriefShape, NotYetServed, watchVars
  <2>3. ASSUME NEW d \in Calls \ {c}, Busy(d)' PROVE Busy(d)
    BY <2>1, <2>3 DEF BriefInv, BriefShape, Busy, Reaped, watchVars
  <2>4. CASE Busy(c)' => Busy(c)
    <3>1. UNCHANGED collided \/ Prepare(c)
      BY <1>3 DEF Clone, StripHistory, ResolveRuntimes, Configure, Refuse
    <3>2. collided \subseteq collided'
      BY <3>1 DEF Prepare, Refuse
    <3>3. \A d \in Calls : Busy(d)' => Busy(d)
      BY <2>3, <2>4
    <3>4. QED
      BY <2>1, <2>2, <3>2, <3>3 DEF BriefInv, OneAtWork
  <2>5. CASE ~(Busy(c)' => Busy(c))
    <3>1. Prepare(c) /\ bpc'[c] # "failed"
      <4>1. ~Busy(c) /\ Busy(c)'
        BY <2>5
      <4>2. bpc[c] = "idle"
        BY <2>1, <4>1 DEF Busy
      <4>3. Prepare(c)
        BY <1>3, <4>2 DEF Clone, StripHistory, ResolveRuntimes, Configure, Refuse, CallGoes
      <4>4. bpc'[c] # "failed"
        BY <2>1, <4>1, ReapedShape DEF BriefInv, Busy, watchVars
      <4>5. QED
        BY <4>3, <4>4
    <3>2. collided' = collided \cup
            {project[d] : d \in {e \in Calls \ {c} : project[e] = project[c] /\ Busy(e)}}
      BY <3>1 DEF Prepare, Refuse, CallGoes, BriefInv, BriefShape
    <3>3. ASSUME NEW d \in Calls, NEW e \in Calls, d # e, project[d] = project[e],
                 Busy(d)', Busy(e)'
          PROVE  project[d] \in collided'
      <4>1. CASE d # c /\ e # c
        BY <2>3, <3>2, <3>3, <4>1 DEF BriefInv, OneAtWork
      <4>2. CASE d = c \/ e = c
        BY <2>3, <3>2, <3>3, <4>2
      <4>3. QED
        BY <4>1, <4>2
    <3>4. OneAtWork'
      BY <2>1, <3>3 DEF OneAtWork
    <3>5. QED
      BY <2>1, <2>2, <3>4 DEF BriefInv
  <2>6. QED
    BY <2>1, <2>2, <2>4, <2>5 DEF BriefInv
<1>4. QED
  BY <1>1, <1>2, <1>3 DEF agent_dev_brief

\* A watcher starts the server of its call once, over a dead agent.
LEMMA WatcherStepInv ==
  ASSUME BriefInv, NEW c \in Calls, BriefWatcher(c)
  PROVE  BriefInv'
<1>1. /\ UNCHANGED <<bpc, project, collided>> /\ aider' \in {aider, Reaped}
      /\ watcher[c] \in {"poll", "wait", "getme"}
      /\ \E w \in {"poll", "wait", "getme", "done"} : watcher' = [watcher EXCEPT ![c] = w]
      /\ \E f \in {"none", "ok", "failed"} : fallback' = [fallback EXCEPT ![c] = f]
      /\ \E s \in {"none", "starting", "up", "down"} : server' = [server EXCEPT ![c] = s]
      /\ watcher'[c] = "poll" => watcher[c] = "poll"
      /\ watcher'[c] = "poll" /\ fallback'[c] = "none" => UNCHANGED <<fallback, server>>
  BY DEF BriefWatcher, ProbeRaises, PortAnswers, GivesUp, PollsAgain, StartDevServer, WaitsForAider,
         LaunchBot, GetMe, Polls, Ends, Sleeps, argVars, callVars, BriefInv, BriefShape
<1>2. BriefShape' /\ NotYetServed'
  BY <1>1, ReapedShape DEF BriefInv, BriefShape, NotYetServed
<1>3. \A d \in Calls : Busy(d)' => Busy(d)
  BY <1>1 DEF BriefInv, BriefShape, Busy, Reaped
<1>4. OneAtWork'
  BY <1>1, <1>3, StillOneAtWork DEF BriefInv
<1>5. QED
  BY <1>2, <1>4 DEF BriefInv

\* The processes by themselves.
LEMMA ProcessStepInv ==
  ASSUME BriefInv,
         OtherProcessStarts \/ \E c \in Calls : AiderExits(c) \/ ServerListens(c) \/ ServerExits(c)
  PROVE  BriefInv'
<1>1. CASE OtherProcessStarts
  <2>1. BriefShape' /\ NotYetServed'
    BY <1>1, ReapedShape DEF OtherProcessStarts, BriefInv, BriefShape, NotYetServed, callVars, watchVars
  <2>2. \A d \in Calls : Busy(d)' => Busy(d)
    BY <1>1 DEF OtherProcessStarts, Busy, Reaped, callVars, watchVars
  <2>3. QED
    BY <1>1, <2>1, <2>2, StillOneAtWork DEF OtherProcessStarts, BriefInv, argVars, callVars
<1>2. ASSUME NEW c \in Calls, AiderExits(c) \/ ServerListens(c) \/ ServerExits(c)
      PROVE  BriefInv'
  <2>1. BriefShape' /\ NotYetServed'
    BY <1>2 DEF AiderExits, ServerListens, ServerExits, BriefInv, BriefShape, NotYetServed, callVars,
                watchVars
  <2>2. \A d \in Calls : Busy(d)' => Busy(d)
    BY <1>2 DEF AiderExits, ServerListens, ServerExits, BriefInv, BriefShape, Busy, callVars, watchVars
  <2>3. UNCHANGED <<project, collided>>
    BY <1>2 DEF AiderExits, ServerListens, ServerExits, argVars, callVars
  <2>4. QED
    BY <2>1, <2>2, <2>3, StillOneAtWork DEF BriefInv
<1>3. QED
  BY <1>1, <1>2

\* Each step of calls, watchers and processes keeps the invariant.
LEMMA BriefInvKept == BriefInv /\ [BriefNext]_briefVars => BriefInv'
<1> SUFFICES ASSUME BriefInv, [BriefNext]_briefVars
             PROVE  BriefInv'
  OBVIOUS
<1>1. CASE UNCHANGED briefVars
  BY <1>1 DEF briefVars, argVars, callVars, watchVars, BriefInv, BriefShape, NotYetServed,
              OneAtWork, Busy
<1>2. QED
  BY <1>1, CallStepInv, WatcherStepInv, ProcessStepInv DEF BriefNext

\* Only a watcher whose agent is gone starts a dev server, only once, and over no other
\* agent of the project unless calls overlapped.
LEMMA ServerStarts ==
  ASSUME BriefInv, BriefNext, NEW c \in Calls, server'[c] = "starting", server[c] # "starting"
  PROVE  /\ aider[c] \in {"zombie", "reaped"} /\ server[c] = "none"
         /\ project[c] \notin collided =>
              \A d \in Calls : project[d] = project[c] => aider[d] # "running"
<1>1. PICK d \in Calls : BriefWatcher(d)
  BY CallStepInv DEF BriefNext, OtherProcessStarts, AiderExits, ServerListens, ServerExits,
                     BriefInv, BriefShape
<1>2. d = c /\ StartDevServer(c) /\ ~UNCHANGED server
  BY <1>1 DEF BriefWatcher, ProbeRaises, PortAnswers, GivesUp, PollsAgain, StartDevServer, WaitsForAider,
              LaunchBot, GetMe, Ends, Sleeps, callVars, BriefInv, BriefShape
<1>3. watcher[c] = "poll" /\ fallback[c] = "none" /\ ~Alive(c)
  BY <1>2 DEF StartDevServer, Polls, FallbackDue
<1>4. aider[c] \in {"zombie", "reaped"} /\ server[c] = "none"
  BY <1>3 DEF BriefInv, BriefShape, NotYetServed, Alive
<1>5. ASSUME project[c] \notin collided, NEW e \in Calls, project[e] = project[c], aider[e] = "running"
      PROVE  FALSE
  BY <1>3, <1>4, <1>5 DEF BriefInv, OneAtWork, Busy
<1>6. QED
  BY <1>4, <1>5

\* The daemon starts the dev server of a call at most once, not while the agent of the
\* call runs, and, when calls for one project do not overlap, while none of the project runs.
THEOREM NoServerUnderAgent == BriefSpec => ServerAfterAgent
<1>1. BriefInv /\ [BriefNext]_briefVars =>
        [\A c \in Calls : server'[c] = "starting" /\ server[c] # "starting" =>
           /\ aider[c] \in {"zombie", "reaped"} /\ server[c] = "none"
           /\ project[c] \notin collided =>
                \A d \in Calls : project[d] = project[c] => aider[d] # "running"]_briefVars
  BY ServerStarts
<1>2. QED
  BY <1>1, BriefInvInitial, BriefInvKept, PTL DEF BriefSpec, ServerAfterAgent

-----------------------------------------------------------------------------
(* The heartbeat.                                                          *)

\* The counter and the flag agree with what was missed and posted.
BeatInv ==
  /\ misses \in Nat /\ missed = misses
  /\ dead_reported => deadPosts = 1
  /\ ~dead_reported => deadPosts = 0
  /\ dead_reported => misses >= Misses

\* Each beat keeps the flag and the posts together.
LEMMA BeatInvKept == BeatInv /\ [BeatNext]_beatVars => BeatInv'
<1> SUFFICES ASSUME BeatInv, [BeatNext]_beatVars
             PROVE  BeatInv'
  OBVIOUS
<1> USE HeartbeatAssumption DEF BeatInv
<1>1. CASE ProbeMisses
  BY <1>1 DEF ProbeMisses, Count
<1>2. CASE ProbeHits
  BY <1>2 DEF ProbeHits
<1>3. CASE ServerStops \/ ServerRecovers \/ UNCHANGED beatVars
  BY <1>3 DEF ServerStops, ServerRecovers, beatVars
<1>4. QED
  BY <1>1, <1>2, <1>3 DEF BeatNext

\* The platform hears of an outage once, and of none shorter than the threshold.
THEOREM OutageIsToldOnce == BeatSpec => []OneDeadPostPerOutage
<1>1. BeatInit => BeatInv
  BY HeartbeatAssumption DEF BeatInit, BeatInv
<1>2. BeatInv => OneDeadPostPerOutage
  BY DEF BeatInv, OneDeadPostPerOutage
<1>3. QED
  BY <1>1, <1>2, BeatInvKept, PTL DEF BeatSpec

-----------------------------------------------------------------------------
(* Agents.                                                                 *)

\* The frames that were dispatched.
FrameIds == Nat \ {NoFrame}

\* What an object's joiners wait for: the frame in hand and what is queued.
InHand(o)  == IF hand[o] = NoFrame THEN << >> ELSE <<hand[o]>>
Waiting(o) == InHand(o) \o queue[o]

\* w is the end of a.
EndOf(w, a) == Len(w) <= Len(a) /\ w = SubSeq(a, Len(a) - Len(w) + 1, Len(a))

\* The router, its slots and the objects made for them.
RouterShape ==
  /\ slots \in [Names -> Objects \cup {NoSlot}] /\ slots["default"] # NoSlot
  /\ made \in Objects /\ frames \in Nat
  /\ queue \in [Objects -> Seq(FrameIds)] /\ accepted \in [Objects -> Seq(FrameIds)]
  /\ unfinished \in [Objects -> Int] /\ hand \in [Objects -> Nat]
  /\ consumer \in [Objects -> {"none", "get", "run", "done"}]

\* The consumer that runs a frame has it in hand.
HandsFull == \A o \in Objects : consumer[o] = "run" <=> hand[o] # NoFrame

\* The count of an object is what waits, which is the end of what it accepted.
CountsWaiting ==
  \A o \in Objects : unfinished[o] = Len(Waiting(o)) /\ EndOf(Waiting(o), accepted[o])

\* The inductive invariant of the router.
RouterInv == RouterShape /\ HandsFull /\ CountsWaiting

\* A frame is a number that is not NoFrame.
LEMMA FramesAreNumbered ==
  FrameIds \subseteq Nat /\ NoFrame \notin FrameIds /\ NoFrame \in Nat
BY DEF FrameIds, NoFrame

\* What waits and what was accepted grow together.
LEMMA EndGrows ==
  ASSUME NEW S, NEW w \in Seq(S), NEW a \in Seq(S), NEW e \in S, EndOf(w, a)
  PROVE  EndOf(Append(w, e), Append(a, e))
<1> DEFINE b == Append(a, e)
           v == Append(w, e)
           from == Len(b) - Len(v) + 1
<1>1. Len(w) \in Nat /\ Len(a) \in Nat /\ Len(w) <= Len(a) /\ w = SubSeq(a, Len(a) - Len(w) + 1, Len(a))
  BY DEF EndOf
<1>2. v \in Seq(S) /\ b \in Seq(S) /\ Len(v) = Len(w) + 1 /\ Len(b) = Len(a) + 1
  BY AppendProperties
<1>3. from = Len(a) - Len(w) + 1 /\ from \in 1 .. Len(b) /\ Len(b) - from + 1 = Len(v)
  BY <1>1, <1>2
<1>4. ASSUME NEW i \in 1 .. Len(v) PROVE v[i] = b[from + i - 1]
  <2>1. CASE i = Len(v)
    <3>1. v[i] = e /\ b[Len(b)] = e
      BY <1>2, <2>1, AppendProperties
    <3>2. from + i - 1 = Len(b)
      BY <1>1, <1>2, <1>3, <2>1
    <3>3. QED
      BY <3>1, <3>2
  <2>2. CASE i # Len(v)
    <3>1. i \in 1 .. Len(w) /\ from + i - 1 \in 1 .. Len(a)
      BY <1>1, <1>2, <1>3, <2>2
    <3>2. v[i] = w[i] /\ b[from + i - 1] = a[from + i - 1]
      BY <3>1, AppendProperties
    <3>3. w[i] = a[from + i - 1]
      BY <1>1, <1>3, <3>1
    <3>4. QED
      BY <3>2, <3>3
  <2>3. QED
    BY <2>1, <2>2
<1> HIDE DEF b, v, from
<1>5. \A i \in from .. Len(b) : b[i] \in S
  BY <1>2, <1>3
<1>6. /\ SubSeq(b, from, Len(b)) \in Seq(S) /\ Len(SubSeq(b, from, Len(b))) = Len(v)
      /\ \A i \in 1 .. Len(v) : SubSeq(b, from, Len(b))[i] = b[from + i - 1]
  BY <1>2, <1>3, <1>5, SubSeqProperties
<1>7. v = SubSeq(b, from, Len(b))
  BY <1>2, <1>4, <1>6, SeqEqual
<1>8. EndOf(v, b)
  BY <1>1, <1>2, <1>7 DEF EndOf, from
<1>9. QED
  BY <1>8 DEF v, b

\* The rest of an end is an end.
LEMMA EndShrinks ==
  ASSUME NEW S, NEW w \in Seq(S), NEW a \in Seq(S), w # << >>, EndOf(w, a)
  PROVE  EndOf(Tail(w), a)
<1> DEFINE v == Tail(w)
           from == Len(a) - Len(v) + 1
<1>1. Len(w) \in Nat /\ Len(a) \in Nat /\ Len(w) <= Len(a) /\ w = SubSeq(a, Len(a) - Len(w) + 1, Len(a))
  BY DEF EndOf
<1>2. v \in Seq(S) /\ Len(v) = Len(w) - 1 /\ Len(v) \in Nat /\ \A i \in 1 .. Len(v) : v[i] = w[i + 1]
  BY HeadTailProperties
<1>3. from = (Len(a) - Len(w) + 1) + 1 /\ from \in 1 .. Len(a) + 1 /\ Len(a) - from + 1 = Len(v)
  BY <1>1, <1>2
<1>4. \A i \in 1 .. Len(v) : v[i] = a[from + i - 1]
  BY <1>1, <1>2, <1>3
<1> HIDE DEF v, from
<1>5. \A i \in from .. Len(a) : a[i] \in S
  BY <1>1, <1>3
<1>6. /\ SubSeq(a, from, Len(a)) \in Seq(S) /\ Len(SubSeq(a, from, Len(a))) = Len(v)
      /\ \A i \in 1 .. Len(v) : SubSeq(a, from, Len(a))[i] = a[from + i - 1]
  BY <1>1, <1>2, <1>3, <1>5, SubSeqProperties
<1>7. v = SubSeq(a, from, Len(a))
  BY <1>2, <1>4, <1>6, SeqEqual
<1>8. EndOf(v, a)
  BY <1>1, <1>2, <1>7 DEF EndOf, from
<1>9. QED
  BY <1>8 DEF v

\* What waits is a sequence of frames.
LEMMA WaitingShape ==
  ASSUME RouterShape, NEW o \in Objects
  PROVE  InHand(o) \in Seq(FrameIds) /\ Waiting(o) \in Seq(FrameIds)
<1>1. hand[o] # NoFrame => hand[o] \in FrameIds
  BY DEF RouterShape, FrameIds
<1>2. << >> \in Seq(FrameIds) /\ \A f \in FrameIds : <<f>> \in Seq(FrameIds)
  OBVIOUS
<1>3. InHand(o) \in Seq(FrameIds)
  BY <1>1, <1>2, Zenon DEF InHand
<1>4. QED
  BY <1>3, ConcatProperties DEF RouterShape, Waiting

\* Nothing waits at first.
LEMMA RouterInitInv == AgentsInit => RouterInv
<1> SUFFICES ASSUME AgentsInit PROVE RouterInv
  OBVIOUS
<1>1. << >> \in Seq(FrameIds) /\ Len(<< >>) = 0 /\ << >> \o << >> = << >>
  BY EmptySeq, ConcatEmptySeq
<1>2. RouterShape
  BY <1>1 DEF AgentsInit, RouterShape, NoFrame
<1>3. HandsFull
  BY DEF AgentsInit, HandsFull
<1>4. \A o \in Objects : Waiting(o) = << >> /\ accepted[o] = << >> /\ unfinished[o] = 0
  BY <1>1 DEF AgentsInit, Waiting, InHand
<1>5. EndOf(<< >>, << >>)
  <2>1. SubSeq(<< >>, 1, 0) = << >>
    BY SubSeqEmpty
  <2>2. QED
    BY <1>1, <2>1 DEF EndOf
<1>6. CountsWaiting
  BY <1>1, <1>4, <1>5 DEF CountsWaiting
<1>7. QED
  BY <1>2, <1>3, <1>6 DEF RouterInv

\* Nobody's hand, queue, count or record moves, or it moves like those of one object.
LEMMA OthersWait ==
  ASSUME RouterInv, NEW P, P \subseteq Objects,
         \A o \in P : UNCHANGED <<hand[o], queue[o], unfinished[o], accepted[o]>>
  PROVE  \A o \in P : unfinished'[o] = Len(Waiting(o))' /\ EndOf(Waiting(o), accepted[o])'
<1>1. \A o \in P : Waiting(o)' = Waiting(o)
  BY DEF Waiting, InHand
<1>2. QED
  BY <1>1 DEF RouterInv, CountsWaiting

\* A frame that is put is counted and waits behind the others.
LEMMA DispatchWaits ==
  ASSUME RouterInv, NEW n \in Names, dispatch(n)
  PROVE  RouterInv'
<1>1. PICK o \in Objects : o = Resolve(n)
  BY AgentsAssumption DEF RouterInv, RouterShape, Resolve
<1>2. frames' \in FrameIds
  BY DEF dispatch, RouterInv, RouterShape, NoFrame, FrameIds
<1>3. /\ queue' = [queue EXCEPT ![o] = Append(@, frames')]
      /\ unfinished' = [unfinished EXCEPT ![o] = @ + 1]
      /\ accepted' = [accepted EXCEPT ![o] = Append(@, frames')]
      /\ UNCHANGED <<slots, made, consumer, hand>>
  BY <1>1 DEF dispatch
<1>4. /\ queue[o] \in Seq(FrameIds) /\ accepted[o] \in Seq(FrameIds)
      /\ Append(queue[o], frames') \in Seq(FrameIds) /\ Append(accepted[o], frames') \in Seq(FrameIds)
  BY <1>1, <1>2, AppendProperties DEF RouterInv, RouterShape
<1>5. /\ queue'[o] = Append(queue[o], frames') /\ accepted'[o] = Append(accepted[o], frames')
      /\ unfinished'[o] = unfinished[o] + 1
      /\ \A p \in Objects \ {o} : UNCHANGED <<hand[p], queue[p], unfinished[p], accepted[p]>>
  BY <1>1, <1>3 DEF RouterInv, RouterShape
<1>6. RouterShape'
  <2>1. queue' \in [Objects -> Seq(FrameIds)] /\ accepted' \in [Objects -> Seq(FrameIds)]
    BY <1>3, <1>4 DEF RouterInv, RouterShape
  <2>2. unfinished' \in [Objects -> Int] /\ frames' \in Nat
    BY <1>1, <1>2, <1>3, FramesAreNumbered DEF RouterInv, RouterShape
  <2>3. QED
    BY <1>3, <2>1, <2>2, Zenon DEF RouterInv, RouterShape
<1>7. HandsFull'
  BY <1>3 DEF RouterInv, HandsFull
<1>8. Waiting(o)' = Append(Waiting(o), frames')
  <2>1. InHand(o)' = InHand(o) /\ InHand(o) \in Seq(FrameIds)
    <3>1. InHand(o)' = InHand(o)
      BY <1>3 DEF InHand
    <3>2. QED
      BY <1>1, <3>1, WaitingShape DEF RouterInv
  <2>2. InHand(o) \o Append(queue[o], frames') = Append(InHand(o) \o queue[o], frames')
    <3> DEFINE h == InHand(o)
               q == queue[o]
               f == frames'
    <3>1. h \in Seq(FrameIds) /\ q \in Seq(FrameIds) /\ f \in FrameIds
      BY <1>2, <1>4, <2>1
    <3> HIDE DEF h, q, f
    <3>2. h \o Append(q, f) = Append(h \o q, f)
      BY <3>1
    <3>3. QED
      BY <3>2 DEF h, q, f
  <2>3. Waiting(o)' = InHand(o) \o Append(queue[o], frames') /\ Waiting(o) = InHand(o) \o queue[o]
    BY <1>5, <2>1, Zenon DEF Waiting
  <2>4. QED
    BY <2>2, <2>3, Zenon
<1>9. unfinished'[o] = Len(Waiting(o))' /\ EndOf(Waiting(o), accepted[o])'
  <2>1. Waiting(o) \in Seq(FrameIds)
    BY <1>1, WaitingShape DEF RouterInv
  <2>2. Len(Append(Waiting(o), frames')) = Len(Waiting(o)) + 1
    BY <1>2, <2>1, AppendProperties
  <2>3. EndOf(Append(Waiting(o), frames'), Append(accepted[o], frames'))
    BY <1>1, <1>2, <1>4, <2>1, EndGrows DEF RouterInv, CountsWaiting
  <2>4. unfinished[o] = Len(Waiting(o))
    BY <1>1 DEF RouterInv, CountsWaiting
  <2>5. unfinished'[o] = Len(Waiting(o))'
    BY <1>5, <1>8, <2>2, <2>4, Zenon
  <2>6. EndOf(Waiting(o), accepted[o])'
    BY <1>5, <1>8, <2>3 DEF EndOf
  <2>7. QED
    BY <2>5, <2>6
<1>10. CountsWaiting'
  <2>1. \A p \in Objects \ {o} : unfinished'[p] = Len(Waiting(p))' /\ EndOf(Waiting(p), accepted[p])'
    BY <1>5, OthersWait
  <2>2. QED
    BY <1>9, <2>1, Zenon DEF CountsWaiting
<1>11. QED
  BY <1>6, <1>7, <1>10 DEF RouterInv

\* A frame that is taken is in hand, first of what waits.
LEMMA TakeWaits ==
  ASSUME RouterInv, NEW o \in Objects, Takes(o)
  PROVE  RouterInv'
<1>1. /\ consumer[o] = "get" /\ queue[o] # << >> /\ queue[o] \in Seq(FrameIds)
      /\ consumer' = [consumer EXCEPT ![o] = "run"] /\ hand' = [hand EXCEPT ![o] = Head(queue[o])]
      /\ queue' = [queue EXCEPT ![o] = Tail(@)] /\ UNCHANGED <<slots, made, frames, unfinished, accepted>>
  BY DEF Takes, slotVars, RouterInv, RouterShape
<1>2. Head(queue[o]) \in FrameIds /\ Tail(queue[o]) \in Seq(FrameIds)
  BY <1>1, HeadTailProperties
<1>3. RouterShape'
  <2>1. queue' \in [Objects -> Seq(FrameIds)]
    BY <1>1, <1>2 DEF RouterInv, RouterShape
  <2>2. hand' \in [Objects -> Nat] /\ consumer' \in [Objects -> {"none", "get", "run", "done"}]
    BY <1>1, <1>2, FramesAreNumbered DEF RouterInv, RouterShape
  <2>3. QED
    BY <1>1, <2>1, <2>2, Zenon DEF RouterInv, RouterShape
<1>4. HandsFull'
  BY <1>1, <1>2, FramesAreNumbered DEF RouterInv, RouterShape, HandsFull
<1>5. Waiting(o) = queue[o]
  BY <1>1, ConcatEmptySeq DEF RouterInv, HandsFull, Waiting, InHand
<1>6. Waiting(o)' = <<Head(queue[o])>> \o Tail(queue[o])
  <2>1. hand'[o] = Head(queue[o]) /\ queue'[o] = Tail(queue[o]) /\ Head(queue[o]) # NoFrame
    BY <1>1, <1>2, FramesAreNumbered DEF RouterInv, RouterShape
  <2>2. QED
    BY <2>1, Zenon DEF Waiting, InHand
<1>7. <<Head(queue[o])>> \o Tail(queue[o]) = queue[o]
  <2> DEFINE q == queue[o]
  <2>1. q \in Seq(FrameIds) /\ q # << >>
    BY <1>1
  <2> HIDE DEF q
  <2>2. <<Head(q)>> \o Tail(q) = q
    BY <2>1
  <2>3. QED
    BY <2>2 DEF q
<1>8. unfinished'[o] = Len(Waiting(o))' /\ EndOf(Waiting(o), accepted[o])'
  BY <1>1, <1>5, <1>6, <1>7 DEF RouterInv, CountsWaiting
<1>9. \A p \in Objects \ {o} : UNCHANGED <<hand[p], queue[p], unfinished[p], accepted[p]>>
  BY <1>1 DEF RouterInv, RouterShape
<1>10. CountsWaiting'
  <2>1. \A p \in Objects \ {o} : unfinished'[p] = Len(Waiting(p))' /\ EndOf(Waiting(p), accepted[p])'
    BY <1>9, OthersWait
  <2>2. QED
    BY <1>8, <2>1, Zenon DEF CountsWaiting
<1>11. QED
  BY <1>3, <1>4, <1>10 DEF RouterInv

\* task_done leaves the rest waiting.
LEMMA LeaveWaits ==
  ASSUME RouterInv, NEW o \in Objects, NEW place \in {"get", "done"}, Leaves(o, place)
  PROVE  RouterInv'
<1>1. /\ consumer[o] = "run" /\ queue[o] \in Seq(FrameIds) /\ hand[o] \in FrameIds
      /\ consumer' = [consumer EXCEPT ![o] = place] /\ hand' = [hand EXCEPT ![o] = NoFrame]
      /\ unfinished' = [unfinished EXCEPT ![o] = @ - 1] /\ UNCHANGED <<slots, made, frames, queue, accepted>>
  <2>1. consumer[o] = "run" /\ queue[o] \in Seq(FrameIds)
    BY DEF Leaves, RouterInv, RouterShape
  <2>2. hand[o] \in FrameIds
    BY <2>1 DEF RouterInv, RouterShape, HandsFull, FrameIds
  <2>3. QED
    BY <2>1, <2>2 DEF Leaves, slotVars
<1>2. RouterShape'
  BY <1>1 DEF RouterInv, RouterShape, NoFrame
<1>3. HandsFull'
  BY <1>1 DEF RouterInv, RouterShape, HandsFull
<1>4. Waiting(o) = <<hand[o]>> \o queue[o]
  BY <1>1, FramesAreNumbered, Zenon DEF Waiting, InHand
<1>5. Waiting(o)' = queue[o]
  BY <1>1, ConcatEmptySeq DEF RouterInv, RouterShape, Waiting, InHand
<1>6. /\ Waiting(o) # << >> /\ Tail(Waiting(o)) = queue[o] /\ Len(Waiting(o)) = Len(queue[o]) + 1
      /\ Len(queue[o]) \in Nat
  <2> DEFINE q == queue[o]
             h == hand[o]
  <2>1. q \in Seq(FrameIds) /\ h \in FrameIds
    BY <1>1
  <2> HIDE DEF q, h
  <2>2. <<h>> \o q # << >> /\ Tail(<<h>> \o q) = q /\ Len(<<h>> \o q) = Len(q) + 1 /\ Len(q) \in Nat
    BY <2>1
  <2>3. QED
    BY <1>4, <2>2 DEF q, h
<1>7. EndOf(queue[o], accepted[o])
  BY <1>6, EndShrinks, WaitingShape DEF RouterInv, RouterShape, CountsWaiting
<1>8. unfinished'[o] = Len(Waiting(o))' /\ EndOf(Waiting(o), accepted[o])'
  BY <1>1, <1>5, <1>6, <1>7 DEF RouterInv, RouterShape, CountsWaiting
<1>9. \A p \in Objects \ {o} : UNCHANGED <<hand[p], queue[p], unfinished[p], accepted[p]>>
  BY <1>1 DEF RouterInv, RouterShape
<1>10. CountsWaiting'
  <2>1. \A p \in Objects \ {o} : unfinished'[p] = Len(Waiting(p))' /\ EndOf(Waiting(p), accepted[p])'
    BY <1>9, OthersWait
  <2>2. QED
    BY <1>8, <2>1, Zenon DEF CountsWaiting
<1>11. QED
  BY <1>2, <1>3, <1>10 DEF RouterInv

\* Each step of the router keeps the counts.
LEMMA RouterNextInv == RouterInv /\ [AgentsNext]_agentVars => RouterInv'
<1> SUFFICES ASSUME RouterInv, [AgentsNext]_agentVars PROVE RouterInv'
  OBVIOUS
<1>1. ASSUME UNCHANGED <<hand, queue, unfinished, accepted>>, RouterShape', HandsFull' PROVE RouterInv'
  BY <1>1, OthersWait DEF RouterInv, CountsWaiting
<1>2. ASSUME NEW n \in Names, Create(n) PROVE RouterInv'
  <2>1. RouterShape'
    BY <1>2, AgentsAssumption DEF Create, RouterInv, RouterShape, Objects, NoSlot
  <2>2. QED
    BY <1>1, <1>2, <2>1 DEF Create, RouterInv, HandsFull
<1>3. ASSUME NEW o \in Objects, Cancelled(o) PROVE RouterInv'
  <2>1. CASE Leaves(o, "done")
    BY <2>1, LeaveWaits
  <2>2. CASE /\ consumer[o] = "get" /\ consumer' = [consumer EXCEPT ![o] = "done"]
             /\ UNCHANGED <<slotVars, queue, unfinished, hand, accepted, dropped>>
    BY <1>1, <2>2 DEF RouterInv, RouterShape, HandsFull, slotVars
  <2>3. QED
    BY <1>3, <2>1, <2>2 DEF Cancelled
<1>4. ASSUME UNCHANGED <<slots, made, frames, queue, unfinished, consumer, hand, accepted>> PROVE RouterInv'
  BY <1>1, <1>4 DEF RouterInv, RouterShape, HandsFull
<1>5. CASE RouterStops \/ UNCHANGED agentVars \/ \E n \in Names, s \in {"paused", "idle"} : SetStatus(n, s)
  BY <1>4, <1>5 DEF RouterStops, SetStatus, agentVars, slotVars
<1>6. ASSUME NEW o \in Objects, HandlerReturns(o) \/ HandlerRaises(o) PROVE RouterInv'
  BY <1>6, LeaveWaits DEF HandlerReturns, HandlerRaises
<1>7. QED
  BY <1>2, <1>3, <1>5, <1>6, DispatchWaits, TakeWaits, Zenon DEF AgentsNext, Consume

\* For any names, objects and frames: what a join waits for is the frame in hand and what
\* is queued, the last of what was accepted, in order, whatever was raised, paused,
\* replaced or cancelled meanwhile.
THEOREM JoinersAreServed == AgentsSpec => []JoinersUnblock
<1>1. RouterInv => JoinersUnblock
  BY DEF RouterInv, CountsWaiting, JoinersUnblock, EndOf, Waiting, InHand
<1>2. QED
  BY <1>1, RouterInitInv, RouterNextInv, PTL DEF AgentsSpec

-----------------------------------------------------------------------------
(* ScreenRecorder.                                                         *)

\* A stop that found a recording and has not cleared it.
UnderWay == {s \in Stops : spc[s] \in {"worker", "join", "drain", "clear"}}

\* The recorder, its encoders, workers and stops.
RecorderShape ==
  /\ started \in Stops /\ current \in {NoRec, started}
  /\ ffmpeg \in [Recordings -> {"none", "running", "ended"}]
  /\ wkr \in [Recordings -> {"none", "loop", "frame", "done"}]
  /\ spc \in [Stops -> {"off", "called", "worker", "join", "drain", "clear"}]
  /\ taken \in [Stops -> Stops] /\ joins \in [Stops -> Stops]
  /\ overlapped \in BOOLEAN /\ timedOut \in BOOLEAN /\ strayFrame \in BOOLEAN

\* While stops do not overlap, one is under way at a time, it is meant for what it
\* took, and that stays current until it clears it.
StopsAlone ==
  ~overlapped =>
    /\ \A s, t \in UnderWay : s = t
    /\ \A s \in UnderWay :
         /\ current # NoRec /\ taken[s] = current /\ MeantFor(s) = current
         /\ spc[s] = "join" => joins[s] = current
         /\ spc[s] = "clear" => ffmpeg[current] # "running"

\* A worker that was not joined in vain is the current recording's, and is done once
\* the join is over.
WorkersOwn ==
  ~overlapped /\ ~timedOut =>
    \A r \in Recordings : wkr[r] \in {"loop", "frame"} =>
      r = current /\ \A s \in Stops : spc[s] \notin {"drain", "clear"}

\* The inductive invariant of the recorder.
RecorderInv == RecorderShape /\ StopsAlone /\ WorkersOwn /\ RecordingsAreSeparate

\* Recordings and stops are numbered, NoRec and User are not recordings.
LEMMA RecordingsAreNumbered ==
  /\ MaxRecordings \in Nat /\ Recordings \subseteq Stops /\ User \in Stops /\ NoRec \in Stops
  /\ Stops = 0 .. MaxRecordings /\ NoRec \notin Recordings
  /\ \A n \in 0 .. MaxRecordings : n # NoRec => n \in Recordings
BY RecorderAssumption DEF Recordings, Stops, User, NoRec

\* The same, without the numbers.
LEMMA RecordingsAreStops ==
  /\ Recordings \subseteq Stops /\ User \in Stops /\ NoRec \in Stops /\ NoRec \notin Recordings
  /\ \A n \in Stops : n # NoRec => n \in Recordings
BY RecordingsAreNumbered

\* No recording at first.
LEMMA RecorderInitInv == RecorderInit => RecorderInv
<1> SUFFICES ASSUME RecorderInit PROVE RecorderInv
  OBVIOUS
<1>1. RecorderShape
  BY RecordingsAreNumbered DEF RecorderInit, RecorderShape, NoRec
<1>2. StopsAlone /\ WorkersOwn /\ RecordingsAreSeparate
  BY DEF RecorderInit, StopsAlone, WorkersOwn, RecordingsAreSeparate, UnderWay
<1>3. QED
  BY <1>1, <1>2 DEF RecorderInv

\* start begins a recording only when there is none.
LEMMA StartSeparates == RecorderInv /\ start => RecorderInv'
<1> SUFFICES ASSUME RecorderInv, start PROVE RecorderInv'
  OBVIOUS
<1>1. /\ current = NoRec /\ started' = started + 1 /\ current' = started' /\ started' \in Recordings
      /\ ffmpeg' = [ffmpeg EXCEPT ![started'] = "running"] /\ wkr' = [wkr EXCEPT ![started'] = "loop"]
      /\ UNCHANGED <<stopEvt, due, spc, taken, joins, cut, strayFrame, overlapped, timedOut>>
  BY RecordingsAreNumbered DEF start, Begins, RecorderInv, RecorderShape, stopping, history, Recordings
<1>2. ~overlapped => UnderWay = {}
  BY <1>1 DEF RecorderInv, StopsAlone
<1>3. RecorderShape'
  BY <1>1, RecordingsAreNumbered DEF RecorderInv, RecorderShape
<1>4. StopsAlone'
  BY <1>1, <1>2 DEF StopsAlone, UnderWay
<1>5. \A r \in Recordings : r # current
  BY <1>1, RecordingsAreNumbered
<1>6. WorkersOwn'
  BY <1>1, <1>2, <1>5 DEF RecorderInv, RecorderShape, WorkersOwn, UnderWay
<1>7. RecordingsAreSeparate'
  BY <1>1, <1>5 DEF RecorderInv, RecorderShape, RecordingsAreSeparate
<1>8. QED
  BY <1>3, <1>4, <1>6, <1>7 DEF RecorderInv

\* A worker writes to the recording that is current.
LEMMA WorkersSeparate ==
  ASSUME RecorderInv, NEW r \in Recordings,
         WorkerStep(r) \/ TimePasses(r) \/ FfmpegDies(r) \/ PipeCollected(r)
  PROVE  RecorderInv'
<1> USE RecordingsAreStops DEF RecorderInv, RecorderShape, StopsAlone, WorkersOwn, RecordingsAreSeparate, UnderWay,
        MeantFor, recording, stopping, history
<1>1. CASE TimePasses(r)
  <2>1. RecorderShape'
    BY <1>1 DEF TimePasses
  <2>2. StopsAlone'
    BY <1>1 DEF TimePasses
  <2>3. WorkersOwn'
    BY <1>1 DEF TimePasses
  <2>4. RecordingsAreSeparate'
    BY <1>1 DEF TimePasses
  <2>5. QED
    BY <2>1, <2>2, <2>3, <2>4
<1>2. CASE WorkerTests(r)
  <2>1. RecorderShape'
    BY <1>2 DEF WorkerTests
  <2>2. StopsAlone'
    BY <1>2 DEF WorkerTests
  <2>3. WorkersOwn'
    BY <1>2 DEF WorkerTests
  <2>4. RecordingsAreSeparate'
    BY <1>2 DEF WorkerTests
  <2>5. QED
    BY <2>1, <2>2, <2>3, <2>4
<1>3. CASE DeadlinePasses(r)
  <2>1. RecorderShape'
    BY <1>3 DEF DeadlinePasses
  <2>2. StopsAlone'
    BY <1>3 DEF DeadlinePasses
  <2>3. WorkersOwn'
    BY <1>3 DEF DeadlinePasses
  <2>4. RecordingsAreSeparate'
    BY <1>3 DEF DeadlinePasses
  <2>5. QED
    BY <2>1, <2>2, <2>3, <2>4
<1>4. CASE WorkerWrites(r)
  <2>1. RecorderShape'
    BY <1>4 DEF WorkerWrites
  <2>2. StopsAlone'
    BY <1>4 DEF WorkerWrites
  <2>3. WorkersOwn'
    BY <1>4 DEF WorkerWrites
  <2>4. RecordingsAreSeparate'
    BY <1>4 DEF WorkerWrites
  <2>5. QED
    BY <2>1, <2>2, <2>3, <2>4
<1>5. CASE CaptureFails(r)
  <2>1. RecorderShape'
    BY <1>5 DEF CaptureFails
  <2>2. StopsAlone'
    BY <1>5 DEF CaptureFails
  <2>3. WorkersOwn'
    BY <1>5 DEF CaptureFails
  <2>4. RecordingsAreSeparate'
    BY <1>5 DEF CaptureFails
  <2>5. QED
    BY <2>1, <2>2, <2>3, <2>4
<1>6. CASE FfmpegDies(r)
  <2>1. RecorderShape'
    BY <1>6 DEF FfmpegDies, FfmpegEnds
  <2>2. StopsAlone'
    BY <1>6 DEF FfmpegDies, FfmpegEnds
  <2>3. WorkersOwn'
    BY <1>6 DEF FfmpegDies, FfmpegEnds
  <2>4. RecordingsAreSeparate'
    BY <1>6 DEF FfmpegDies, FfmpegEnds
  <2>5. QED
    BY <2>1, <2>2, <2>3, <2>4
<1>7. CASE PipeCollected(r)
  <2>1. RecorderShape'
    BY <1>7 DEF PipeCollected, FfmpegEnds
  <2>2. StopsAlone'
    BY <1>7 DEF PipeCollected, FfmpegEnds
  <2>3. WorkersOwn'
    BY <1>7 DEF PipeCollected, FfmpegEnds
  <2>4. RecordingsAreSeparate'
    BY <1>7 DEF PipeCollected, FfmpegEnds
  <2>5. QED
    BY <2>1, <2>2, <2>3, <2>4
<1>8. QED
  BY <1>1, <1>2, <1>3, <1>4, <1>5, <1>6, <1>7 DEF WorkerStep

\* A stop ends what it took.
LEMMA StopsSeparate ==
  ASSUME RecorderInv, NEW s \in Stops, StopStep(s)
  PROVE  RecorderInv'
<1> USE RecordingsAreStops DEF RecorderInv, RecorderShape, StopsAlone, WorkersOwn, RecordingsAreSeparate, UnderWay,
        MeantFor, recording, stopping, history, StopGoes
<1>1. CASE StopChecks(s)
  <2>1. RecorderShape'
    <3>1. overlapped' \in BOOLEAN
      BY <1>1 DEF StopChecks
    <3>2. QED
      BY <1>1, <3>1 DEF StopChecks
  <2>2. StopsAlone'
    <3>1. CASE current = NoRec
      BY <1>1, <3>1 DEF StopChecks
    <3>2. CASE current # NoRec
      <4> SUFFICES ASSUME ~overlapped' PROVE StopsAlone'
        OBVIOUS
      <4>1. s \in {User, current} /\ \A t \in Stops : spc[t] \in {"off", "called"}
        BY <1>1, <3>2 DEF StopChecks
      <4>2. /\ spc' = [spc EXCEPT ![s] = "worker"] /\ taken' = [taken EXCEPT ![s] = current]
            /\ UNCHANGED <<current, joins, ffmpeg>>
        BY <1>1, <3>2 DEF StopChecks
      <4>3. UnderWay' = {s} /\ spc'[s] = "worker" /\ taken'[s] = current /\ MeantFor(s)' = current
        BY <4>1, <4>2
      <4>4. QED
        BY <3>2, <4>2, <4>3, Zenon
    <3>3. QED
      BY <3>1, <3>2
  <2>3. WorkersOwn'
    BY <1>1 DEF StopChecks
  <2>4. RecordingsAreSeparate'
    BY <1>1 DEF StopChecks
  <2>5. QED
    BY <2>1, <2>2, <2>3, <2>4
<1>2. CASE StopReadsWorker(s)
  <2>1. RecorderShape'
    BY <1>2 DEF StopReadsWorker
  <2>2. StopsAlone'
    BY <1>2 DEF StopReadsWorker
  <2>3. WorkersOwn'
    BY <1>2 DEF StopReadsWorker
  <2>4. RecordingsAreSeparate'
    BY <1>2 DEF StopReadsWorker
  <2>5. QED
    BY <2>1, <2>2, <2>3, <2>4
<1>3. CASE JoinEnds(s)
  <2>1. RecorderShape'
    BY <1>3 DEF JoinEnds
  <2>2. StopsAlone'
    BY <1>3 DEF JoinEnds
  <2>3. WorkersOwn'
    <3> SUFFICES ASSUME ~overlapped', ~timedOut', NEW r \in Recordings, wkr'[r] \in {"loop", "frame"} PROVE FALSE
      OBVIOUS
    <3>1. ~overlapped /\ ~timedOut /\ wkr' = wkr /\ spc[s] = "join" /\ (joins[s] = NoRec \/ wkr[joins[s]] = "done")
      BY <1>3 DEF JoinEnds
    <3>2. joins[s] = current /\ current # NoRec
      BY <3>1
    <3>3. r = current
      BY <3>1
    <3>4. QED
      BY <3>1, <3>2, <3>3
  <2>4. RecordingsAreSeparate'
    BY <1>3 DEF JoinEnds
  <2>5. QED
    BY <2>1, <2>2, <2>3, <2>4
<1>4. CASE Drain(s)
  <2>1. RecorderShape'
    BY <1>4 DEF Drain
  <2>2. StopsAlone'
    <3> SUFFICES ASSUME ~overlapped' PROVE StopsAlone'
      OBVIOUS
    <3>1. /\ ~overlapped /\ spc[s] = "drain" /\ spc' = [spc EXCEPT ![s] = "clear"]
          /\ ffmpeg' = [ffmpeg EXCEPT ![taken[s]] = "ended"] /\ UNCHANGED <<current, taken, joins>>
      BY <1>4 DEF Drain
    <3>2. taken[s] = current /\ current \in Recordings /\ UnderWay = {s} /\ MeantFor(s) = current
      BY <3>1
    <3>3. UnderWay' = {s} /\ spc'[s] = "clear" /\ ffmpeg'[current] = "ended" /\ MeantFor(s)' = current
      BY <3>1, <3>2
    <3>4. QED
      BY <3>1, <3>2, <3>3
  <2>3. WorkersOwn'
    BY <1>4 DEF Drain
  <2>4. RecordingsAreSeparate'
    BY <1>4 DEF Drain
  <2>5. QED
    BY <2>1, <2>2, <2>3, <2>4
<1>5. CASE Clear(s)
  <2>1. RecorderShape'
    BY <1>5 DEF Clear
  <2>2. StopsAlone'
    BY <1>5 DEF Clear
  <2>3. WorkersOwn'
    BY <1>5 DEF Clear
  <2>4. RecordingsAreSeparate'
    BY <1>5 DEF Clear
  <2>5. QED
    BY <2>1, <2>2, <2>3, <2>4
<1>6. CASE StopRaises(s)
  <2>1. RecorderShape'
    BY <1>6 DEF StopRaises
  <2>2. StopsAlone'
    BY <1>6 DEF StopRaises
  <2>3. WorkersOwn'
    BY <1>6 DEF StopRaises
  <2>4. RecordingsAreSeparate'
    BY <1>6 DEF StopRaises
  <2>5. QED
    BY <2>1, <2>2, <2>3, <2>4
<1>7. QED
  BY <1>1, <1>2, <1>3, <1>4, <1>5, <1>6 DEF StopStep

\* Each step of the recorder keeps recordings apart.
LEMMA RecorderNextInv == RecorderInv /\ [RecorderNext]_recVars => RecorderInv'
<1> SUFFICES ASSUME RecorderInv, [RecorderNext]_recVars PROVE RecorderInv'
  OBVIOUS
<1>1. CASE UserStops \/ UNCHANGED recVars
  <2> USE RecordingsAreStops DEF RecorderInv, RecorderShape, StopsAlone, WorkersOwn, RecordingsAreSeparate,
          UnderWay, MeantFor, recording, stopping, history, StopGoes
  <2>1. CASE UserStops
    BY <2>1 DEF UserStops
  <2>2. CASE UNCHANGED recVars
    BY <2>2 DEF recVars
  <2>3. QED
    BY <1>1, <2>1, <2>2
<1>2. QED
  BY <1>1, StartSeparates, WorkersSeparate, StopsSeparate DEF RecorderNext

\* For any number of recordings: while stops do not overlap the only encoder that runs is
\* the current one, no stop ends a recording it was not for, and a worker's frame lands in
\* another file only when a join gave up.
THEOREM RecordingsStaySeparate == RecorderSpec => []RecordingsAreSeparate
<1>1. RecorderInv => RecordingsAreSeparate
  BY DEF RecorderInv
<1>2. QED
  BY <1>1, RecorderInitInv, RecorderNextInv, PTL DEF RecorderSpec
=============================================================================
