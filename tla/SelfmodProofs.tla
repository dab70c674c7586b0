---------------------------- MODULE SelfmodProofs ---------------------------
(***************************************************************************)
(* Theorems about Selfmod, for any number of requests, commands, errors    *)
(* and deaths, as long as no command of the CLI falls into a queue         *)
(* operation of the daemon: no row is lost, only queued requests are       *)
(* claimed, and one request is accepted per interval.                      *)
(***************************************************************************)
EXTENDS Selfmod, FiniteSetTheorems, WellFoundedInduction, TLAPS

\* A row that may be written over an old one.
MayFollow(new, old) ==
  /\ old = "absent" <=> new = "absent"
  /\ old \notin {"absent", "throttled"} => new \notin {"absent", "throttled"}
  /\ new = "in_progress" => old \in {"in_progress", "queued"}

\* What a process is about to write may follow what is there.
Follows(p) == \A i \in Requests : MayFollow(rows[p][i], queue[i])

\* The places with the temporary file in hand.
Rewriting == {"open", "write", "replace"}

\* The file, the processes and their rows.
FileShape ==
  /\ queue \in [Requests -> Statuses] /\ rows \in [Procs -> [Requests -> Statuses]]
  /\ fpc \in [Procs -> FilePCs] /\ handle \in [Procs -> {"none", "tmp"}] /\ tail \in Tails

\* One process at a time is in a queue operation; it alone has the temporary file
\* open, and what it is about to write follows the rows that are there.
OneRewriter ==
  /\ \A p, q \in Procs : Holds(p) /\ Holds(q) => p = q
  /\ \A p \in Procs :
       /\ handle[p] = "tmp" <=> fpc[p] = "write"
       /\ fpc[p] \in Rewriting => Follows(p)
       /\ fpc[p] = "replace" => tmp = rows[p]

\* Of the requests that were queued and are recent, one is in the file.
OneAccepted ==
  /\ created \in 0 .. MaxRequests /\ accepted \subseteq 1 .. created
  /\ \A i \in accepted : queue[i] # "throttled"
  /\ \A i, j \in accepted \cap recent : queue[i] # "absent" /\ queue[j] # "absent" => i = j

\* A request that is about to be appended finds none of those, or is throttled.
AppendsOne ==
  fpc["tool"] = "append" =>
    /\ created \in Requests \ accepted /\ rows["tool"][created] \in {"queued", "throttled"}
    /\ rows["tool"][created] = "queued" => \A i \in accepted \cap recent : queue[i] = "absent"

AtMostOneRecent == OneAccepted /\ AppendsOne

\* The inductive invariant of the queue.
SmInv == FileShape /\ OneRewriter /\ AtMostOneRecent

\* The queue is empty, and nobody rewrites it.
LEMMA SmInvInitial == SmInit => SmInv
<1> SUFFICES ASSUME SmInit PROVE SmInv
  OBVIOUS
<1>1. MaxRequests \in Nat
  BY SelfmodAssumption
<1>2. FileShape
  BY DEF SmInit, FileShape, NoRows, Statuses, FilePCs, Tails
<1>3. OneRewriter
  BY DEF SmInit, OneRewriter, Holds, Rewriting
<1>4. AtMostOneRecent
  BY <1>1 DEF SmInit, AtMostOneRecent, OneAccepted, AppendsOne, Procs
<1>5. QED
  BY <1>2, <1>3, <1>4 DEF SmInv

-----------------------------------------------------------------------------
(* The steps of a queue operation.                                         *)

\* A rewrite that may be made: of one row, by a process that entered alone.
Rewrites ==
  \E p \in Procs, status \in Statuses : \E i :
    /\ Rewrite(p, i, status) /\ status \notin {"absent", "throttled"} /\ queue[i] # "absent"
    /\ status = "in_progress" => i \in Requests /\ queue[i] = "queued"

\* A process whose operation is over before it opened a file.
Skips == \E p \in Procs :
  /\ ~Holds(p) /\ \E how \in {"done", "raised"} : fpc' = [fpc EXCEPT ![p] = how]
  /\ UNCHANGED <<queue, tmp, tail, rows, handle>>

\* An operation that returns or raises.
Ends == \E p \in Procs, how \in {"done", "raised"} : Ended(p, how)

\* What a step does to the files when it is neither a step of a rewrite nor an append.
Handled == (Rewrites \/ Skips \/ Ends \/ UNCHANGED fileVars) /\ UNCHANGED pastVars

\* Nobody is in a queue operation when somebody enters one.
LEMMA EntersAlone ==
  ASSUME ~CommandsOverlap, NEW p \in Procs, fpc[p] = "idle", MayEnter(p)
  PROVE  \A q \in Procs : ~Holds(q)
BY DEF MayEnter, Holds

\* The rows to be written follow those that were read.
LEMMA PatchFollows ==
  ASSUME FileShape, NEW i, NEW status \in Statuses, status \notin {"absent", "throttled"},
         queue[i] # "absent",
         status = "in_progress" => i \in Requests /\ queue[i] = "queued"
  PROVE  /\ [queue EXCEPT ![i] = status] \in [Requests -> Statuses]
         /\ \A j \in Requests : MayFollow([queue EXCEPT ![i] = status][j], queue[j])
BY DEF FileShape, MayFollow

\* A step that is neither the replacement nor an append leaves the file as it is.
LEMMA HandledKeepsInv ==
  ASSUME ~CommandsOverlap, SmInv, Handled
  PROVE  SmInv' /\ queue' = queue
<1>1. CASE Rewrites
  <2>1. PICK p \in Procs, status \in Statuses : \E i :
          /\ Rewrite(p, i, status) /\ status \notin {"absent", "throttled"} /\ queue[i] # "absent"
          /\ status = "in_progress" => i \in Requests /\ queue[i] = "queued"
    BY <1>1 DEF Rewrites
  <2>2. PICK i :
          /\ Rewrite(p, i, status) /\ status \notin {"absent", "throttled"} /\ queue[i] # "absent"
          /\ status = "in_progress" => i \in Requests /\ queue[i] = "queued"
    BY <2>1
  <2> DEFINE patched == [queue EXCEPT ![i] = status]
  <2>3. /\ patched \in [Requests -> Statuses]
        /\ \A j \in Requests : MayFollow(patched[j], queue[j])
    BY <2>2, PatchFollows DEF SmInv
  <2>4. /\ rows' = [rows EXCEPT ![p] = patched] /\ fpc' = [fpc EXCEPT ![p] = "open"]
        /\ fpc[p] = "idle" /\ UNCHANGED <<queue, tmp, tail, handle, pastVars>>
    BY <2>2 DEF Rewrite, Handled
  <2> HIDE DEF patched
  <2>5. \A q \in Procs : ~Holds(q)
    BY <2>2, EntersAlone DEF Rewrite
  <2>6. /\ rows'[p] = patched /\ fpc'[p] = "open"
        /\ \A q \in Procs \ {p} : rows'[q] = rows[q] /\ fpc'[q] = fpc[q]
    BY <2>4 DEF SmInv, FileShape
  <2>7. FileShape'
    BY <2>3, <2>4 DEF SmInv, FileShape, FilePCs
  <2>8. OneRewriter'
    BY <2>3, <2>4, <2>5, <2>6 DEF SmInv, OneRewriter, Holds, Rewriting, Follows
  <2>9. AtMostOneRecent'
    BY <2>4, <2>5, <2>6 DEF SmInv, AtMostOneRecent, OneAccepted, AppendsOne, pastVars, Procs, Holds
  <2>10. QED
    BY <2>4, <2>7, <2>8, <2>9 DEF SmInv
<1>2. CASE Skips \/ Ends
  <2>1. PICK p \in Procs, to \in {"done", "raised", "idle"} :
          /\ ~Holds(p) /\ fpc' = [fpc EXCEPT ![p] = to]
          /\ rows' = [rows EXCEPT ![p] = NoRows] \/ UNCHANGED rows
          /\ UNCHANGED <<queue, tmp, tail, handle>>
    BY <1>2 DEF Skips, Ends, Ended, Holds
  <2>2. /\ fpc'[p] = to /\ \A q \in Procs \ {p} : rows'[q] = rows[q] /\ fpc'[q] = fpc[q]
        /\ fpc[p] \notin {"append", "open", "write", "replace"}
    BY <2>1 DEF SmInv, FileShape, Holds
  <2>3. NoRows \in [Requests -> Statuses]
    BY DEF NoRows, Statuses
  <2>4. FileShape'
    BY <2>1, <2>3 DEF SmInv, FileShape, FilePCs
  <2>5. OneRewriter'
    BY <2>1, <2>2 DEF SmInv, OneRewriter, Holds, Rewriting, Follows
  <2>6. AtMostOneRecent'
    BY <2>1, <2>2 DEF SmInv, AtMostOneRecent, OneAccepted, AppendsOne, Handled, pastVars, Procs
  <2>7. QED
    BY <2>1, <2>4, <2>5, <2>6 DEF SmInv
<1>3. CASE UNCHANGED fileVars
  BY <1>3 DEF Handled, fileVars, pastVars, SmInv, FileShape, OneRewriter, AtMostOneRecent,
              OneAccepted, AppendsOne, Holds, Follows
<1>4. QED
  BY <1>1, <1>2, <1>3 DEF Handled

-----------------------------------------------------------------------------
\* Opening and writing the temporary file, and a failure of either, leave the queue
\* file as it is.
LEMMA TmpStepKeepsInv ==
  ASSUME SmInv, NEW p \in Procs, UNCHANGED pastVars, OpenTmp(p) \/ WriteTmp(p) \/ FileFails(p)
  PROVE  SmInv' /\ queue' = queue
<1>1. Holds(p) /\ UNCHANGED <<queue, tail, rows>>
  BY DEF OpenTmp, WriteTmp, FileFails, Holds, SmInv, FileShape, OneRewriter
<1>2. \A q \in Procs \ {p} : ~Holds(q) /\ handle[q] = "none"
  BY <1>1 DEF SmInv, OneRewriter, FileShape, Holds
<1>3. PICK to \in {"write", "replace", "raised"}, h \in {"tmp", "none"} :
        /\ fpc' = [fpc EXCEPT ![p] = to] /\ handle' = [handle EXCEPT ![p] = h]
        /\ h = "tmp" <=> to = "write"
        /\ to # "raised" => fpc[p] \in Rewriting
        /\ to = "replace" => tmp' = rows[p]
  BY DEF OpenTmp, WriteTmp, FileFails, Rewriting, SmInv, OneRewriter
<1>4. /\ fpc'[p] = to /\ handle'[p] = h
      /\ \A q \in Procs \ {p} : fpc'[q] = fpc[q] /\ handle'[q] = handle[q]
  BY <1>3 DEF SmInv, FileShape
<1>5. FileShape'
  BY <1>1, <1>3 DEF SmInv, FileShape, FilePCs
<1>6. OneRewriter'
  BY <1>1, <1>2, <1>3, <1>4 DEF SmInv, OneRewriter, Holds, Rewriting, Follows
<1>7. AtMostOneRecent'
  BY <1>1, <1>3, <1>4 DEF SmInv, AtMostOneRecent, OneAccepted, AppendsOne, pastVars, Procs
<1>8. QED
  BY <1>1, <1>5, <1>6, <1>7 DEF SmInv

\* The move puts all the rows in place at once, and they follow those that were there.
LEMMA ReplaceKeepsInv ==
  ASSUME SmInv, NEW p \in Procs, UNCHANGED pastVars, ReplaceTmp(p)
  PROVE  SmInv' /\ \A i \in Requests : MayFollow(queue'[i], queue[i])
<1>1. fpc[p] = "replace" /\ Holds(p) /\ UNCHANGED rows /\ tmp = rows[p]
  BY DEF ReplaceTmp, Holds, SmInv, OneRewriter
<1>2. \A q \in Procs \ {p} : ~Holds(q)
  BY <1>1 DEF SmInv, OneRewriter
<1>3. \A q \in Procs : handle[q] = "none"
  BY <1>1, <1>2 DEF SmInv, OneRewriter, FileShape, Holds
<1>4. PICK to \in {"done", "raised"} : fpc' = [fpc EXCEPT ![p] = to]
  BY DEF ReplaceTmp
<1>5. fpc'[p] = to /\ \A q \in Procs \ {p} : fpc'[q] = fpc[q]
  BY <1>4 DEF SmInv, FileShape
<1>6. handle' = handle
  BY <1>3 DEF ReplaceTmp, SmInv, FileShape
<1>7. queue' = queue \/ queue' = rows[p]
  BY <1>1 DEF ReplaceTmp
<1>8. \A i \in Requests : MayFollow(queue'[i], queue[i])
  BY <1>1, <1>7 DEF SmInv, OneRewriter, Rewriting, Follows, MayFollow
<1>9. FileShape'
  <2>1. tail' \in Tails
    BY DEF ReplaceTmp, SmInv, FileShape, Tails
  <2>2. QED
    BY <1>1, <1>4, <1>6, <1>7, <2>1 DEF SmInv, FileShape, FilePCs
<1>10. OneRewriter'
  BY <1>2, <1>3, <1>5, <1>6 DEF OneRewriter, Holds, Rewriting
<1>11. AtMostOneRecent'
  <2>1. accepted \subseteq Requests
    BY SelfmodAssumption DEF SmInv, AtMostOneRecent, OneAccepted, Requests
  <2>2. fpc'["tool"] # "append"
    BY <1>2, <1>5 DEF Holds, Procs
  <2>3. QED
    BY <1>8, <2>1, <2>2 DEF SmInv, AtMostOneRecent, OneAccepted, AppendsOne, pastVars, MayFollow
<1>12. QED
  BY <1>8, <1>9, <1>10, <1>11 DEF SmInv

-----------------------------------------------------------------------------
(* The steps of the tool that requests a change.                           *)

\* A request that is not throttled finds no recent accepted one.
LEMMA RequestKeepsInv ==
  ASSUME ~CommandsOverlap, SmInv, request_change
  PROVE  SmInv' /\ queue' = queue
<1> DEFINE id == created + 1
           row == IF LastAcceptedIsRecent THEN "throttled" ELSE "queued"
           line == [NoRows EXCEPT ![id] = row]
<1>1. /\ created < MaxRequests /\ created' = id /\ recent' = recent \cup {id}
      /\ fpc["tool"] = "idle" /\ fpc' = [fpc EXCEPT !["tool"] = "append"]
      /\ rows' = [rows EXCEPT !["tool"] = line]
      /\ UNCHANGED <<queue, tmp, tail, handle, accepted>>
  BY DEF request_change
<1>2. \A q \in Procs : ~Holds(q)
  BY <1>1, EntersAlone DEF request_change, Procs
<1>3. id \in Requests /\ id \in Nat /\ MaxRequests \in Nat /\ id \notin accepted
  BY <1>1, SelfmodAssumption DEF SmInv, AtMostOneRecent, OneAccepted, Requests
<1>4. line \in [Requests -> Statuses] /\ line[id] = row
  BY <1>3 DEF NoRows, Statuses
<1> HIDE DEF line, row
<1>5. /\ rows'["tool"] = line /\ fpc'["tool"] = "append"
      /\ \A q \in Procs \ {"tool"} : rows'[q] = rows[q] /\ fpc'[q] = fpc[q]
  BY <1>1 DEF SmInv, FileShape, Procs
<1>6. FileShape'
  BY <1>1, <1>4 DEF SmInv, FileShape, FilePCs
<1>7. OneRewriter'
  BY <1>1, <1>2, <1>5 DEF SmInv, OneRewriter, Holds, Rewriting, Procs, Follows
<1>8. row = "queued" => \A i \in accepted \cap recent : queue[i] = "absent"
  BY DEF row, LastAcceptedIsRecent, SmInv, AtMostOneRecent, OneAccepted
<1>9. row \in {"queued", "throttled"}
  BY DEF row
<1>10. accepted \cap recent' = accepted \cap recent
  BY <1>1, <1>3
<1>11. created' \in 0 .. MaxRequests /\ accepted \subseteq 1 .. created'
  BY <1>1, <1>3 DEF SmInv, AtMostOneRecent, OneAccepted
<1>12. AtMostOneRecent'
  BY <1>1, <1>3, <1>4, <1>5, <1>8, <1>9, <1>10, <1>11
     DEF SmInv, AtMostOneRecent, OneAccepted, AppendsOne
<1>13. QED
  BY <1>1, <1>6, <1>7, <1>12 DEF SmInv

\* What an append may do to the rows: one is added, or the last one is lost with it.
Appended ==
  \A i \in Requests :
    \/ queue'[i] = queue[i] \/ queue'[i] \in {"queued", "throttled"}
    \/ queue'[i] = "absent" /\ tail = "row" /\ i = LastRow

\* Whatever of the row gets to the file; if it is queued it is the only one.
LEMMA LandsOrNot ==
  ASSUME SmInv, fpc["tool"] = "append", UNCHANGED <<created, recent>>,
         RowLands \/ RowsGlued \/ UNCHANGED <<queue, accepted>>
  PROVE  queue' \in [Requests -> Statuses] /\ OneAccepted' /\ Appended
<1>1. /\ created \in Requests \ accepted /\ rows["tool"][created] \in {"queued", "throttled"}
      /\ rows["tool"][created] = "queued" => \A i \in accepted \cap recent : queue[i] = "absent"
      /\ queue \in [Requests -> Statuses]
  BY DEF SmInv, FileShape, AtMostOneRecent, AppendsOne
<1>2. created \in Nat /\ 1 .. created \subseteq Requests /\ created \in 1 .. created
  BY <1>1, SelfmodAssumption DEF Requests
<1>3. OneAccepted
  BY DEF SmInv, AtMostOneRecent
<1>4. CASE RowLands
  <2>1. /\ queue'[created] = rows["tool"][created]
        /\ \A i \in Requests \ {created} : queue'[i] = queue[i]
    BY <1>1, <1>4 DEF RowLands
  <2>2. CASE rows["tool"][created] = "queued"
    <3>1. accepted' = accepted \cup {created}
      BY <1>4, <2>2 DEF RowLands
    <3>2. \A i \in accepted' \cap recent : i = created \/ queue'[i] = "absent"
      BY <1>1, <1>2, <1>3, <2>1, <2>2, <3>1 DEF OneAccepted
    <3>3. QED
      BY <1>1, <1>2, <1>3, <1>4, <2>1, <2>2, <3>1, <3>2 DEF OneAccepted, RowLands, Appended, Statuses
  <2>3. CASE rows["tool"][created] = "throttled"
    <3>1. accepted' = accepted
      BY <1>4, <2>3 DEF RowLands
    <3>2. QED
      BY <1>1, <1>2, <1>3, <1>4, <2>1, <2>3, <3>1 DEF OneAccepted, RowLands, Appended, Statuses
  <2>4. QED
    BY <1>1, <2>2, <2>3
<1>5. CASE RowsGlued \/ UNCHANGED <<queue, accepted>>
  <2>1. accepted' = accepted /\ queue' \in [Requests -> Statuses]
    BY <1>1, <1>5 DEF RowsGlued, Statuses
  <2>2. \A i \in Requests : queue'[i] = queue[i] \/ (queue'[i] = "absent" /\ tail = "row" /\ i = LastRow)
    BY <1>1, <1>5 DEF RowsGlued
  <2>3. QED
    BY <1>2, <1>3, <2>1, <2>2 DEF OneAccepted, Appended
<1>6. QED
  BY <1>4, <1>5

\* An append, whole or cut, keeps the invariant.
LEMMA AppendKeepsInv ==
  ASSUME SmInv, Append \/ AppendFails
  PROVE  SmInv' /\ Appended
<1>1. /\ fpc["tool"] = "append" /\ \E to \in {"idle", "raised"} : fpc' = [fpc EXCEPT !["tool"] = to]
      /\ rows' = [rows EXCEPT !["tool"] = NoRows] \/ rows' = rows
      /\ tail' \in Tails /\ UNCHANGED <<tmp, handle, created, recent>>
  BY DEF Append, AppendFails, CutShort, SmInv, FileShape, Tails
<1>2. RowLands \/ RowsGlued \/ UNCHANGED <<queue, accepted>>
  BY DEF Append, AppendFails, CutShort
<1>3. queue' \in [Requests -> Statuses] /\ OneAccepted' /\ Appended
  BY <1>1, <1>2, LandsOrNot
<1>4. Holds("tool") /\ "tool" \in Procs
  BY <1>1 DEF Holds, Procs
<1>5. \A q \in Procs \ {"tool"} : ~Holds(q)
  BY <1>4 DEF SmInv, OneRewriter
<1>6. fpc'["tool"] \in {"idle", "raised"} /\ \A q \in Procs \ {"tool"} : fpc'[q] = fpc[q]
  BY <1>1, <1>4 DEF SmInv, FileShape
<1>7. FileShape'
  <2>1. rows' \in [Procs -> [Requests -> Statuses]]
    BY <1>1 DEF SmInv, FileShape, NoRows, Statuses
  <2>2. fpc' \in [Procs -> FilePCs]
    BY <1>1 DEF SmInv, FileShape, FilePCs
  <2>3. QED
    BY <1>1, <1>3, <2>1, <2>2 DEF SmInv, FileShape
<1>8. OneRewriter'
  BY <1>1, <1>4, <1>5, <1>6 DEF SmInv, OneRewriter, Holds, Rewriting
<1>9. AppendsOne'
  BY <1>6 DEF AppendsOne
<1>10. QED
  BY <1>3, <1>7, <1>8, <1>9 DEF SmInv, AtMostOneRecent

-----------------------------------------------------------------------------
(* The worker, the CLI, the clock and the death of the daemon.             *)

\* The smallest of some natural numbers is one of them.
LEMMA MinIsMember ==
  ASSUME NEW S \in SUBSET Nat, S # {}
  PROVE  Min(S) \in S
<1>1. PICK x \in S : \A y \in S : <<y, x>> \notin OpToRel(<, Nat)
  BY NatLessThanWellFounded, WFMin, Zenon
<1>2. ASSUME NEW y \in S, y < x
      PROVE  FALSE
  <2>1. <<y, x>> \in Nat \X Nat /\ <<y, x>>[1] = y /\ <<y, x>>[2] = x
    OBVIOUS
  <2>2. <<y, x>> \in OpToRel(<, Nat)
    BY <1>2, <2>1 DEF OpToRel
  <2>3. QED
    BY <1>1, <2>2
<1>3. \A y \in S : x <= y
  BY <1>2
<1>4. QED
  BY <1>3, Zenon DEF Min

\* Every other step hands its row over to a rewrite, or leaves the files alone.
LEMMA OthersAreHandled ==
  ASSUME \/ \E i \in Requests : cancel(i) \/ requeue(i)
         \/ CallerReturns \/ SelfmodWorker
  PROVE  Handled
<1> USE DEF Statuses, Verdicts, Procs
<1>1. CASE \E i \in Requests : cancel(i) \/ requeue(i)
  BY <1>1 DEF cancel, requeue, Command, Handled, Rewrites
<1>2. CASE CallerReturns
  BY <1>2 DEF CallerReturns, Handled, Ends
<1>3. ASSUME NEW status \in Verdicts, update_status(status)
      PROVE  Rewrites \/ Skips
  BY <1>3 DEF update_status, Rewrites, Skips, Holds
<1>4. CASE SelfmodWorker
  <2>1. UNCHANGED pastVars
    BY <1>4 DEF SelfmodWorker, pop_next_queued, PollFindsNothing, PollRaises, Claimed, AgentEnds, MergeEnds,
                Raises, Returns, Recorded, RecordRaised, HandleRaised, WorkerGoes, smVars, pastVars
  <2>2. CASE pop_next_queued
    <3>1. Waiting # {} /\ Rewrite("worker", Min(Waiting), "in_progress")
      BY <2>2 DEF pop_next_queued
    <3>2. Min(Waiting) \in Waiting
      <4>1. Waiting \in SUBSET Nat
        BY SelfmodAssumption DEF Waiting, Requests
      <4>2. QED
        BY <3>1, <4>1, MinIsMember
    <3>3. QED
      BY <2>1, <3>1, <3>2 DEF Handled, Rewrites, Waiting
  <2>3. CASE AgentEnds \/ MergeEnds \/ Raises \/ HandleRaised
    <3>1. \E status \in Verdicts : update_status(status)
      BY <2>3 DEF AgentEnds, MergeEnds, Raises, HandleRaised
    <3>2. QED
      BY <1>3, <2>1, <3>1 DEF Handled
  <2>4. CASE Claimed \/ Recorded \/ RecordRaised
    BY <2>1, <2>4 DEF Claimed, Recorded, RecordRaised, Handled, Ends
  <2>5. CASE PollFindsNothing \/ PollRaises \/ Returns
    BY <2>1, <2>5 DEF PollFindsNothing, PollRaises, Returns, Handled, smVars
  <2>6. QED
    BY <1>4, <2>2, <2>3, <2>4, <2>5 DEF SelfmodWorker
<1>5. QED
  BY <1>1, <1>2, <1>4

\* The daemon dies: what it was about to rewrite is forgotten, an append may be cut.
LEMMA KillKeepsInv ==
  ASSUME SmInv, Kill
  PROVE  SmInv' /\ Appended
<1>1. /\ fpc' = [p \in Procs |-> IF p = "cli" THEN fpc[p] ELSE "idle"]
      /\ handle' = [p \in Procs |-> IF p = "cli" THEN handle[p] ELSE "none"]
      /\ rows' = [p \in Procs |-> IF p = "cli" THEN rows[p] ELSE NoRows]
      /\ UNCHANGED <<tmp, created, recent>>
  BY DEF Kill
<1>2. /\ \A p \in Procs \ {"cli"} : fpc'[p] = "idle" /\ handle'[p] = "none"
      /\ fpc'["cli"] = fpc["cli"] /\ handle'["cli"] = handle["cli"] /\ rows'["cli"] = rows["cli"]
  BY <1>1 DEF Procs
<1>3. tail' \in Tails
  BY DEF Kill, CutShort, SmInv, FileShape, Tails
<1>4. CASE fpc["tool"] = "append"
  <2>1. RowLands \/ RowsGlued \/ UNCHANGED <<queue, accepted>>
    BY <1>4 DEF Kill, CutShort
  <2>2. queue' \in [Requests -> Statuses] /\ OneAccepted' /\ Appended
    BY <1>1, <1>4, <2>1, LandsOrNot
  <2>3. ~Holds("cli")
    BY <1>4 DEF SmInv, OneRewriter, Holds, Procs
  <2>4. FileShape'
    BY <1>1, <1>3, <2>2 DEF SmInv, FileShape, NoRows, Statuses, FilePCs
  <2>5. OneRewriter'
    BY <1>1, <1>2, <2>3 DEF SmInv, OneRewriter, Holds, Rewriting, Follows
  <2>6. AppendsOne'
    BY <1>2 DEF AppendsOne, Procs
  <2>7. QED
    BY <2>2, <2>4, <2>5, <2>6 DEF SmInv, AtMostOneRecent
<1>5. CASE fpc["tool"] # "append"
  <2>1. UNCHANGED <<queue, accepted>>
    BY <1>5 DEF Kill
  <2>2. FileShape'
    BY <1>1, <1>3, <2>1 DEF SmInv, FileShape, NoRows, Statuses, FilePCs
  <2>3. OneRewriter'
    BY <1>1, <1>2, <2>1 DEF SmInv, OneRewriter, Holds, Rewriting, Follows
  <2>4. AtMostOneRecent'
    BY <1>1, <1>2, <2>1 DEF SmInv, AtMostOneRecent, OneAccepted, AppendsOne, Procs
  <2>5. QED
    BY <2>1, <2>2, <2>3, <2>4 DEF SmInv, Appended
<1>6. QED
  BY <1>4, <1>5

\* Time makes accepted requests older.
LEMMA TimeKeepsInv ==
  ASSUME SmInv, TimePasses
  PROVE  SmInv' /\ queue' = queue
<1>1. UNCHANGED <<queue, tmp, tail, fpc, rows, handle, created, accepted>> /\ recent' \subseteq recent
  BY DEF TimePasses, fileVars
<1>2. FileShape' /\ OneRewriter'
  BY <1>1 DEF SmInv, FileShape, OneRewriter, Holds, Follows
<1>3. AtMostOneRecent'
  BY <1>1 DEF SmInv, AtMostOneRecent, OneAccepted, AppendsOne
<1>4. QED
  BY <1>1, <1>2, <1>3 DEF SmInv

-----------------------------------------------------------------------------
\* What a step may do to the rows: they follow the old ones, or a row is appended, or lost
\* because its append was cut before its newline.
RowsFollow ==
  \A i \in Requests :
    \/ MayFollow(queue'[i], queue[i]) \/ queue'[i] \in {"queued", "throttled"}
    \/ queue'[i] = "absent" /\ tail = "row" /\ i = LastRow

\* Each step of processes that do not overlap keeps the invariant.
LEMMA SmInvKept ==
  ASSUME ~CommandsOverlap
  PROVE  SmInv /\ [SmNext]_smVars => SmInv' /\ RowsFollow
<1> SUFFICES ASSUME SmInv, [SmNext]_smVars
             PROVE  SmInv' /\ RowsFollow
  OBVIOUS
<1> USE DEF RowsFollow
<1>1. ASSUME queue' = queue
      PROVE  \A i \in Requests : MayFollow(queue'[i], queue[i])
  BY <1>1 DEF MayFollow
<1>2. ASSUME NEW p \in Procs, FileStep(p) \/ FileFails(p)
      PROVE  SmInv' /\ RowsFollow
  <2>1. UNCHANGED pastVars
    BY <1>2 DEF FileStep, FileFails, pastVars
  <2>2. QED
    BY <1>1, <1>2, <2>1, TmpStepKeepsInv, ReplaceKeepsInv DEF FileStep
<1>3. CASE request_change
  BY <1>1, <1>3, RequestKeepsInv
<1>4. CASE Append \/ AppendFails
  BY <1>4, AppendKeepsInv DEF Appended, MayFollow
<1>5. CASE TimePasses
  BY <1>1, <1>5, TimeKeepsInv
<1>6. CASE Kill
  BY <1>6, KillKeepsInv DEF Appended, MayFollow
<1>7. CASE (\E i \in Requests : cancel(i) \/ requeue(i)) \/ CallerReturns \/ SelfmodWorker
  BY <1>1, <1>7, OthersAreHandled, HandledKeepsInv
<1>8. CASE UNCHANGED smVars
  <2>1. Handled
    BY <1>8 DEF smVars, Handled
  <2>2. QED
    BY <1>1, <2>1, HandledKeepsInv
<1>9. QED
  BY <1>2, <1>3, <1>4, <1>5, <1>6, <1>7, <1>8 DEF SmNext

-----------------------------------------------------------------------------
\* Whatever raises or dies in the middle of a rewrite or an append, no row is lost but one
\* whose own append was cut before its newline, for any number of requests and processes'
\* steps, if no command overlaps the daemon's operation.
THEOREM RowsStay ==
  ASSUME ~CommandsOverlap
  PROVE  SmSpec => NothingIsDeleted
<1>1. SmInit => SmInv
  BY SmInvInitial
<1>2. SmInv /\ [SmNext]_smVars => SmInv' /\ RowsFollow
  BY SmInvKept
<1>3. RowsFollow => \A i \in Requests :
        queue[i] # "absent" => queue'[i] # "absent" \/ (tail = "row" /\ i = LastRow)
  BY DEF RowsFollow, MayFollow
<1>4. QED
  BY <1>1, <1>2, <1>3, PTL DEF SmSpec, NothingIsDeleted

\* The worker starts on queued requests only, under the same assumption.
THEOREM OnlyQueuedStart ==
  ASSUME ~CommandsOverlap
  PROVE  SmSpec => ClaimsOnlyQueued
<1>1. SmInit => SmInv
  BY SmInvInitial
<1>2. SmInv /\ [SmNext]_smVars => SmInv' /\ RowsFollow
  BY SmInvKept
<1>3. RowsFollow => \A i \in Requests :
        queue[i] # "in_progress" /\ queue'[i] = "in_progress" => queue[i] = "queued"
  BY DEF RowsFollow, MayFollow
<1>4. QED
  BY <1>1, <1>2, <1>3, PTL DEF SmSpec, ClaimsOnlyQueued

\* Of the requests queued in an interval one is in the file, whatever became of it, under
\* the same assumption.
THEOREM OnePerInterval ==
  ASSUME ~CommandsOverlap
  PROVE  SmSpec => []RateLimit
<1>1. SmInit => SmInv
  BY SmInvInitial
<1>2. SmInv /\ [SmNext]_smVars => SmInv'
  BY SmInvKept
<1>3. SmInv => RateLimit
  <2> SUFFICES ASSUME SmInv PROVE RateLimit
    OBVIOUS
  <2> DEFINE kept == {i \in accepted \cap recent : queue[i] # "absent"}
  <2>1. CASE kept = {}
    BY <2>1, FS_EmptySet DEF RateLimit
  <2>2. CASE kept # {}
    <3>1. PICK i : i \in kept
      BY <2>2
    <3>2. kept = {i}
      BY <3>1 DEF SmInv, AtMostOneRecent, OneAccepted
    <3>3. Cardinality({i}) = 1
      BY FS_Singleton
    <3>4. QED
      BY <3>2, <3>3 DEF RateLimit
  <2>3. QED
    BY <2>1, <2>2
<1>4. QED
  BY <1>1, <1>2, <1>3, PTL DEF SmSpec
=============================================================================
