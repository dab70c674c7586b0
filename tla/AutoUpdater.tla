---------------------------- MODULE AutoUpdater -----------------------------
(***************************************************************************)
(* auto_updater.py: the poller thread and the on-demand check of the       *)
(* cabinet each probe the latest release, download, verify, stage and swap *)
(* the daemon's binary.  A file is the release it holds and whether all of *)
(* it has been written.  Both probes stage under one name; an open handle  *)
(* follows its file when the other probe renames it.  On Windows the swap  *)
(* is left to a script, which also starts a daemon: there may be several.  *)
(***************************************************************************)
EXTENDS Naturals

CONSTANTS
  MaxRelease,      \* bound: releases 1 .. MaxRelease; the first daemon is release 0
  MajorReleases,   \* those that cross MAX_MAJOR
  Unsigned,        \* those published without SHA256SUMS
  MaxDelay,        \* MAX_INTERVAL_MIN in units of the configured interval, which is no longer
  MaxProbes,       \* bound: probes begun
  MaxDaemons,      \* bound: daemons started
  Platforms,       \* among "unix", "windows"
  Missing          \* no such file

ASSUME UpdaterAssumption ==
  /\ MaxRelease \in Nat /\ MaxDelay \in Nat \ {0} /\ {MaxProbes, MaxDaemons} \subseteq Nat
  /\ MajorReleases \cup Unsigned \subseteq 1 .. MaxRelease
  /\ Platforms \subseteq {"unix", "windows"}

Daemons == 1 .. MaxDaemons
Probes  == [of : Daemons, by : {"poller", "button"}]
NoSum   == MaxRelease + 1

VARIABLES
  platform,
  latest,          \* the release the download host serves
  begun, alive,    \* daemons started so far, those whose process lives
  running,         \* the release each executes
  exe, staged, sidecar,   \* the files
  bats,            \* daemons whose exit a running update.bat waits for
  upc,             \* the place of each probe
  tag, sum,        \* what it fetched
  handle,          \* the file it is writing
  delay,           \* each poller's pause
  answer,          \* what the cabinet was told last
  \* History:
  probes,
  twoProbes,       \* two probes staged at once
  tornMove,        \* a copy to the sidecar was begun while an update.bat waited
  outrun           \* a release came out between the tag and the digest of a probe

binVars  == <<exe, staged, sidecar, bats, handle, twoProbes, tornMove>>
probeVars == <<tag, sum, probes, outrun>>
procVars  == <<begun, alive, running>>
upVars    == <<platform, latest, procVars, upc, delay, answer, binVars, probeVars>>

ReleasePublished ==
  /\ latest < MaxRelease /\ latest' = latest + 1
  /\ UNCHANGED <<platform, procVars, upc, delay, answer, binVars, probeVars>>

-----------------------------------------------------------------------------
(* How a probe ends.                                                       *)

Doubled(d) == IF d * 2 <= MaxDelay THEN d * 2 ELSE MaxDelay

\* Mutant: the pause grows without a cap.
EndsUncapped(p, verdict) ==
  /\ upc' = [upc EXCEPT ![p] = "rest"]
  /\ IF p.by = "poller"
     THEN /\ delay' = [delay EXCEPT ![p.of] = IF verdict = "error" THEN @ * 2 ELSE 1]
          /\ UNCHANGED answer
     ELSE answer' = verdict /\ UNCHANGED delay

\* The poller's loop, or the answer check_and_apply_once makes of the verdict.
ProbeEnds(p, verdict) ==
  /\ upc' = [upc EXCEPT ![p] = "rest"]
  /\ IF p.by = "poller"
     THEN /\ delay' = [delay EXCEPT ![p.of] = IF verdict = "error" THEN Doubled(@) ELSE 1]
          /\ UNCHANGED answer
     ELSE answer' = verdict /\ UNCHANGED delay

ProbeGoes(p, from, to) ==
  /\ p.of \in alive /\ upc[p] = from /\ upc' = [upc EXCEPT ![p] = to]
  /\ UNCHANGED <<platform, latest, procVars, delay, answer>>

ProbeStops(p, from, verdict) ==
  /\ p.of \in alive /\ upc[p] = from /\ ProbeEnds(p, verdict)
  /\ UNCHANGED <<platform, latest, procVars>>

-----------------------------------------------------------------------------
(* check_now.                                                              *)

\* fetch_latest_release, first request: the tag of the latest release.
FetchTag(p) ==
  /\ probes < MaxProbes /\ probes' = probes + 1
  /\ \/ ProbeStops(p, "rest", "error") /\ UNCHANGED tag
     \/ ProbeGoes(p, "rest", "sums") /\ tag' = [tag EXCEPT ![p] = latest]
  /\ UNCHANGED <<binVars, sum, outrun>>

\* Mutant: the major version is not looked at.
RefusedButMajor(p, s) ==
  CASE tag[p] <= running[p.of] -> "up_to_date"
    [] s = NoSum               -> "no_sha256"
    [] OTHER                   -> "no"

\* Second request, to what is latest by then, and the decisions that follow.
Refused(p, s) ==
  CASE tag[p] <= running[p.of]  -> "up_to_date"
    [] tag[p] \in MajorReleases -> "major_bump_refused"
    [] s = NoSum                -> "no_sha256"
    [] OTHER                    -> "no"

FetchSums(p) ==
  /\ \E s \in {IF latest \in Unsigned THEN NoSum ELSE latest, NoSum} :
       /\ sum' = [sum EXCEPT ![p] = s]
       /\ IF Refused(p, s) = "no"
          THEN ProbeGoes(p, "sums", "download")
          ELSE ProbeStops(p, "sums", Refused(p, s))
  /\ outrun' = (outrun \/ tag[p] # latest)
  /\ UNCHANGED <<binVars, tag, probes>>

\* Mutant: the digest is not compared.
DownloadUnverified(p) ==
  /\ \/ ProbeStops(p, "download", "error") /\ UNCHANGED sum
     \/ ProbeGoes(p, "download", "stage") /\ sum' = [sum EXCEPT ![p] = latest]
  /\ UNCHANGED <<binVars, tag, probes, outrun>>

\* Third request, and the digest of what came.
Download(p) ==
  /\ \/ ProbeStops(p, "download", "error")
     \/ ProbeGoes(p, "download", "stage") /\ latest = sum[p]
  /\ UNCHANGED <<binVars, probeVars>>

AtFiles == {"copy", "apply", "exec", "unlinked", "copying", "moved"}
Staging == {p \in Probes : upc[p] \in AtFiles}

\* shutil.copy2 truncates whatever has the staged name; an error in it leaves
\* check_now.
OpenStaged(p) ==
  /\ ProbeGoes(p, "stage", "copy")
  /\ staged' = [release |-> sum[p], whole |-> FALSE]
  /\ handle' = [handle EXCEPT ![p] = "staged"]
  /\ twoProbes' = (twoProbes \/ Staging # {})
  /\ UNCHANGED <<exe, sidecar, bats, tornMove, probeVars>>

Written(file, where, p) ==
  IF handle[p] = where /\ file # Missing THEN [release |-> sum[p], whole |-> TRUE] ELSE file

CopyStaged(p) ==
  /\ \/ /\ ProbeGoes(p, "copy", "apply")
        /\ staged' = Written(staged, "staged", p) /\ exe' = Written(exe, "exe", p)
        /\ sidecar' = Written(sidecar, "sidecar", p)
     \/ ProbeStops(p, "copy", "error") /\ UNCHANGED <<exe, staged, sidecar>>
  /\ handle' = [handle EXCEPT ![p] = "none"]
  /\ UNCHANGED <<bats, twoProbes, tornMove, probeVars>>

Moved(to) == [q \in Probes |-> IF handle[q] = "staged" THEN to ELSE handle[q]]

\* apply raised at one of its steps: what has the staged name is removed, what it did
\* to the other files remains.
ApplyFails(p) ==
  /\ \E at \in {"apply", "unlinked", "copying", "moved"} : ProbeStops(p, at, "error")
  /\ staged' = Missing
  /\ handle' = Moved("none")
  /\ UNCHANGED <<exe, sidecar, bats, twoProbes, tornMove, probeVars>>

\* _replace_unix up to the exec.
SwapUnix(p) ==
  /\ platform = "unix" /\ staged # Missing
  /\ ProbeGoes(p, "apply", "exec")
  /\ exe' = staged /\ staged' = Missing /\ handle' = Moved("exe")
  /\ UNCHANGED <<sidecar, bats, twoProbes, tornMove, probeVars>>

\* A process becomes what the file holds: all its threads are gone.  A file that is
\* not whole is refused by exec or dies in it.
Becomes(d, file) ==
  /\ alive' = IF file.whole THEN alive \cup {d} ELSE alive \ {d}
  /\ running' = [running EXCEPT ![d] = file.release]
  /\ upc' = [p \in Probes |-> IF p.of = d THEN "rest" ELSE upc[p]]
  /\ handle' = [p \in Probes |-> IF p.of = d THEN "none" ELSE handle[p]]
  /\ delay' = [delay EXCEPT ![d] = 1]

Exec(p) ==
  /\ p.of \in alive /\ upc[p] = "exec"
  /\ \/ Becomes(p.of, exe) /\ UNCHANGED <<staged, answer>>
     \/ /\ ~exe.whole /\ ProbeEnds(p, "error") /\ staged' = Missing
        /\ handle' = Moved("none") /\ UNCHANGED <<alive, running>>
  /\ UNCHANGED <<platform, latest, begun, exe, sidecar, bats, twoProbes, tornMove, probeVars>>

-----------------------------------------------------------------------------
(* _replace_windows.                                                       *)

UnlinkSidecar(p) ==
  /\ platform = "windows" /\ ProbeGoes(p, "apply", "unlinked")
  /\ sidecar' = Missing
  /\ UNCHANGED <<exe, staged, bats, handle, twoProbes, tornMove, probeVars>>

\* shutil.move renames, or, when that fails, copies.
MoveToSidecar(p) ==
  /\ staged # Missing
  /\ \/ /\ ProbeGoes(p, "unlinked", "moved") /\ UNCHANGED tornMove
        /\ sidecar' = staged /\ staged' = Missing /\ handle' = Moved("sidecar")
     \/ /\ ProbeGoes(p, "unlinked", "copying") /\ tornMove' = (tornMove \/ bats # {})
        /\ sidecar' = [staged EXCEPT !.whole = FALSE] /\ UNCHANGED <<staged, handle>>
     \/ /\ ProbeGoes(p, "copying", "moved") /\ UNCHANGED tornMove
        /\ sidecar' = staged /\ staged' = Missing /\ handle' = Moved("none")
  /\ UNCHANGED <<exe, bats, twoProbes, probeVars>>

\* Mutant: the script is started before the file is where it looks for it.
StartBatEarly(p) ==
  /\ platform = "windows" /\ p.of \in alive /\ upc[p] \in {"copying", "moved"}
  /\ bats' = bats \cup {p.of}
  /\ IF p.by = "poller"
     THEN upc' = [upc EXCEPT ![p] = "gone"] /\ UNCHANGED answer
     ELSE upc' = [upc EXCEPT ![p] = "rest"] /\ answer' = "applied"
  /\ UNCHANGED <<platform, latest, procVars, delay, exe, staged, sidecar, handle, twoProbes, tornMove,
                 probeVars>>

\* update.bat is written and started; sys.exit then ends the poller's thread, not the
\* process, and is caught by the on-demand check.
StartBat(p) ==
  /\ p.of \in alive /\ upc[p] = "moved"
  /\ bats' = bats \cup {p.of}
  /\ IF p.by = "poller"
     THEN upc' = [upc EXCEPT ![p] = "gone"] /\ UNCHANGED answer
     ELSE upc' = [upc EXCEPT ![p] = "rest"] /\ answer' = "applied"
  /\ UNCHANGED <<platform, latest, procVars, delay, exe, staged, sidecar, handle, twoProbes, tornMove,
                 probeVars>>

\* The user or the system ends a daemon.
DaemonStops(d) ==
  /\ d \in alive /\ alive' = alive \ {d}
  /\ upc' = [p \in Probes |-> IF p.of = d THEN "rest" ELSE upc[p]]
  /\ handle' = [p \in Probes |-> IF p.of = d THEN "none" ELSE handle[p]]
  /\ UNCHANGED <<platform, latest, begun, running, delay, answer, exe, staged, sidecar, bats, twoProbes,
                 tornMove, probeVars>>

\* Whatever has the executable's name is started as one more daemon.
DaemonStarts ==
  /\ begun < MaxDaemons /\ begun' = begun + 1
  /\ Becomes(begun', exe')

\* At logon, when none runs.
LogsOn ==
  /\ alive = {} /\ UNCHANGED exe /\ DaemonStarts
  /\ UNCHANGED <<platform, latest, answer, staged, sidecar, bats, twoProbes, tornMove, probeVars>>

\* update.bat, once its daemon is gone or after 30 s: it cannot move over the file of a
\* process that runs, and starts a daemon all the same.
BatRuns(d) ==
  /\ d \in bats /\ bats' = bats \ {d}
  /\ IF alive = {} /\ sidecar # Missing
     THEN exe' = sidecar /\ sidecar' = Missing
     ELSE UNCHANGED <<exe, sidecar>>
  /\ DaemonStarts
  /\ UNCHANGED <<platform, latest, answer, staged, twoProbes, tornMove, probeVars>>

-----------------------------------------------------------------------------
UpInit ==
  /\ platform \in Platforms /\ latest = 0
  /\ begun = 1 /\ alive = {1} /\ running = [d \in Daemons |-> 0]
  /\ exe = [release |-> 0, whole |-> TRUE] /\ staged = Missing /\ sidecar = Missing
  /\ bats = {} /\ upc = [p \in Probes |-> "rest"]
  /\ tag = [p \in Probes |-> 0] /\ sum = [p \in Probes |-> NoSum]
  /\ handle = [p \in Probes |-> "none"] /\ delay = [d \in Daemons |-> 1] /\ answer = "none"
  /\ probes = 0 /\ twoProbes = FALSE /\ tornMove = FALSE /\ outrun = FALSE

UpNext ==
  \/ ReleasePublished \/ LogsOn
  \/ \E d \in Daemons : DaemonStops(d) \/ BatRuns(d)
  \/ \E p \in Probes :
       \/ FetchTag(p) \/ FetchSums(p) \/ Download(p) \/ OpenStaged(p)
       \/ CopyStaged(p) \/ ApplyFails(p) \/ SwapUnix(p) \/ Exec(p)
       \/ UnlinkSidecar(p) \/ MoveToSidecar(p) \/ StartBat(p)

UpSpec == UpInit /\ [][UpNext]_upVars

-----------------------------------------------------------------------------
\* Whatever fails or stops on the way, the binary that is installed has a published
\* digest; it is whole, and a script that waits finds a whole sidecar or none, unless
\* two probes staged at once (they write one file) or a copy to the sidecar was begun
\* under a waiting script; it crosses no major version unless a release came out between
\* the two requests of a probe.  The pollers' pauses stay within their cap.
InstallIsSound ==
  /\ exe.release \notin Unsigned
  /\ ~twoProbes /\ ~tornMove => exe.whole /\ (bats # {} => sidecar = Missing \/ sidecar.whole)
  /\ ~outrun => exe.release \notin MajorReleases
  /\ \A d \in Daemons : delay[d] \in 1 .. MaxDelay
=============================================================================
