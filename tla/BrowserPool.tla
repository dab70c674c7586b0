---------------------------- MODULE BrowserPool -----------------------------
(***************************************************************************)
(* agents/pool.py: one chromium, started by the first acquire, and a       *)
(* context per slot.  acquire holds the lock across its awaits; release    *)
(* closes after it let go of the lock; shutdown takes the lock only inside *)
(* release.  A close or a stop that fails is logged and what it was for is *)
(* forgotten.  Playwright drivers and chromiums are numbered by launch.    *)
(***************************************************************************)
EXTENDS Naturals, FiniteSets

CONSTANTS
  PoolSlots,     \* slots that use the pool
  MaxContexts,   \* max_contexts
  MaxLaunches,   \* bound: launches of a chromium
  MaxLeaks,      \* bound: closes of a context that fail
  NoOne          \* the lock is free

ASSUME PoolAssumption ==
  /\ IsFiniteSet(PoolSlots) /\ NoOne \notin PoolSlots
  /\ {MaxContexts, MaxLaunches, MaxLeaks} \subseteq Nat

VARIABLES
  contexts,      \* _contexts: slots that have one, by the chromium it lives in
  browser,       \* _browser and _playwright; 0 for None
  driver,
  lock,
  ppc,           \* the place of each slot's caller
  target,        \* the chromium asked for a context
  down,          \* the place of shutdown
  left,          \* slots it has yet to release
  \* The operating system:
  chromiums, drivers,
  open,          \* contexts the pool, or a slot that closes one, knows of
  leaked,        \* those forgotten open, in the order of their failed closes
  \* History:
  leaks,         \* closes of a context that failed
  unclosed, unstopped,   \* chromiums and drivers whose end failed
  launches, overlapped_shutdown, failedLaunch

contextVars == <<open, leaked, leaks>>
endVars  == <<unclosed, unstopped>>
osVars   == <<chromiums, drivers, contextVars, endVars>>
poolVars == <<contexts, browser, driver, lock, ppc, target, down, left, osVars,
              launches, overlapped_shutdown, failedLaunch>>
histVars == <<launches, failedLaunch>>

Goes(s, from, to) == ppc[s] = from /\ ppc' = [ppc EXCEPT ![s] = to]

\* An open context is its slot and the chromium it lives in.
Holds(s) == s \in DOMAIN contexts
Without(s) == [t \in DOMAIN contexts \ {s} |-> contexts[t]]

\* Mutant: off by one at the cap.
AcquirePastCap(s) ==
  /\ ~Holds(s) /\ Cardinality(DOMAIN contexts) <= MaxContexts
  /\ lock = NoOne /\ lock' = s
  /\ Goes(s, "idle", IF browser = 0 THEN "driver" ELSE "context")
  /\ target' = [target EXCEPT ![s] = browser]
  /\ overlapped_shutdown' = (overlapped_shutdown \/ down # "off")
  /\ UNCHANGED <<contexts, browser, driver, down, left, osVars, histVars>>

\* A slot that has a context gets it back, a full pool raises.
acquire(s) ==
  /\ ~Holds(s) /\ Cardinality(DOMAIN contexts) < MaxContexts
  /\ lock = NoOne /\ lock' = s
  /\ Goes(s, "idle", IF browser = 0 THEN "driver" ELSE "context")
  /\ target' = [target EXCEPT ![s] = browser]
  /\ overlapped_shutdown' = (overlapped_shutdown \/ down # "off")
  /\ UNCHANGED <<contexts, browser, driver, down, left, osVars, histVars>>

StartDriver(s) ==
  /\ launches < MaxLaunches /\ launches' = launches + 1
  /\ Goes(s, "driver", "launch")
  /\ driver' = launches' /\ drivers' = drivers \cup {launches'}
  /\ UNCHANGED <<contexts, browser, lock, target, down, left, chromiums, contextVars,
                 endVars, overlapped_shutdown, failedLaunch>>

Launch(s) ==
  /\ \/ /\ Goes(s, "launch", "context")
        /\ chromiums' = chromiums \cup {launches}
        /\ browser' = launches /\ target' = [target EXCEPT ![s] = launches]
        /\ UNCHANGED <<lock, failedLaunch>>
     \/ /\ Goes(s, "launch", "idle") /\ lock' = NoOne /\ failedLaunch' = TRUE
        /\ UNCHANGED <<browser, chromiums, target>>
  /\ UNCHANGED <<contexts, driver, down, left, drivers, contextVars, endVars, launches,
                 overlapped_shutdown>>

NewContext(s) ==
  /\ Goes(s, "context", "idle") /\ lock' = NoOne
  /\ \/ /\ target[s] \in chromiums
        /\ contexts' = [t \in DOMAIN contexts \cup {s} |->
                          IF t = s THEN target[s] ELSE contexts[t]]
        /\ open' = open \cup {<<s, target[s]>>}
     \/ UNCHANGED <<contexts, open>>
  /\ UNCHANGED <<browser, driver, target, down, left, chromiums, drivers, leaked, leaks, endVars,
                 overlapped_shutdown, histVars>>

-----------------------------------------------------------------------------
release(s) ==
  /\ lock = NoOne /\ Holds(s) /\ Goes(s, "idle", "close")
  /\ contexts' = Without(s) /\ target' = [target EXCEPT ![s] = contexts[s]]
  /\ UNCHANGED <<browser, driver, lock, down, left, osVars, overlapped_shutdown, histVars>>

\* ctx.close; when it fails the context may go on.
ContextCloses(c) ==
  /\ open' = open \ {c}
  /\ \/ UNCHANGED <<leaked, leaks>>
     \/ /\ c \in open /\ leaks < MaxLeaks /\ leaks' = leaks + 1
        /\ leaked' = [k \in DOMAIN leaked \cup {leaks + 1} |-> IF k = leaks + 1 THEN c[2] ELSE leaked[k]]

Closes(s) ==
  /\ Goes(s, "close", "idle") /\ ContextCloses(<<s, target[s]>>)
  /\ UNCHANGED <<contexts, browser, driver, lock, target, down, left, chromiums, drivers, endVars,
                 overlapped_shutdown, histVars>>

-----------------------------------------------------------------------------
(* shutdown.                                                               *)

Shutdown(from, to) ==
  /\ down = from /\ down' = to /\ UNCHANGED <<lock, ppc, target, histVars>>

ShutdownBegins ==
  /\ Shutdown("off", "release") /\ left' = DOMAIN contexts
  /\ overlapped_shutdown' = (overlapped_shutdown \/ lock # NoOne)
  /\ UNCHANGED <<contexts, browser, driver, osVars>>

ReleaseNext ==
  /\ lock = NoOne /\ Shutdown("release", "release")
  /\ \E s \in left :
       /\ left' = left \ {s}
       /\ IF Holds(s)
          THEN contexts' = Without(s) /\ ContextCloses(<<s, contexts[s]>>)
          ELSE UNCHANGED <<contexts, contextVars>>
  /\ UNCHANGED <<browser, driver, chromiums, drivers, endVars, overlapped_shutdown>>

\* The contexts of a chromium close with it.
ChromiumEnds(b) ==
  /\ chromiums' = chromiums \ {b} /\ open' = {c \in open : c[2] # b}
  /\ leaked' = [k \in {k \in DOMAIN leaked : leaked[k] # b} |-> leaked[k]]

\* Mutant: the driver is left alone.
CloseOnlyBrowser ==
  /\ Shutdown("release", "done") /\ left = {} /\ browser' = 0
  /\ ChromiumEnds(browser)
  /\ UNCHANGED <<contexts, driver, left, drivers, leaks, endVars, overlapped_shutdown>>

CloseBrowser ==
  /\ Shutdown("release", "driver") /\ left = {} /\ browser' = 0
  /\ \/ ChromiumEnds(browser) /\ UNCHANGED unclosed
     \/ browser # 0 /\ unclosed' = unclosed \cup {browser} /\ UNCHANGED <<chromiums, open, leaked>>
  /\ UNCHANGED <<contexts, driver, left, drivers, leaks, unstopped, overlapped_shutdown>>

\* That it takes the chromium along is not relied on.
StopDriver ==
  /\ Shutdown("driver", "done") /\ driver' = 0
  /\ \/ drivers' = drivers \ {driver} /\ UNCHANGED unstopped
     \/ driver # 0 /\ unstopped' = unstopped \cup {driver} /\ UNCHANGED drivers
  /\ UNCHANGED <<contexts, browser, left, chromiums, contextVars, unclosed, overlapped_shutdown>>

PoolInit ==
  /\ contexts = [s \in {} |-> 0] /\ browser = 0 /\ driver = 0 /\ lock = NoOne
  /\ ppc = [s \in PoolSlots |-> "idle"] /\ target = [s \in PoolSlots |-> 0]
  /\ down = "off" /\ left = {} /\ chromiums = {} /\ drivers = {} /\ open = {}
  /\ leaked = [k \in {} |-> 0] /\ leaks = 0 /\ unclosed = {} /\ unstopped = {}
  /\ launches = 0 /\ overlapped_shutdown = FALSE /\ failedLaunch = FALSE

PoolNext ==
  \/ ShutdownBegins \/ ReleaseNext \/ CloseBrowser \/ StopDriver
  \/ \E s \in PoolSlots :
       acquire(s) \/ StartDriver(s) \/ Launch(s) \/ NewContext(s) \/ release(s) \/ Closes(s)

PoolSpec == PoolInit /\ [][PoolNext]_poolVars

-----------------------------------------------------------------------------
\* "Hard caps prevent runaway memory": the contexts that run are within the cap, but for
\* those being closed and one more for each close that failed; one chromium serves them;
\* and when shutdown is over nothing runs but what could not be closed or stopped, and the
\* contexts in it, unless an acquire overlapped the shutdown or a launch failed (its
\* driver is forgotten by the next one).
PoolIsBounded ==
  /\ Cardinality(open) + Cardinality(DOMAIN leaked)
       <= MaxContexts + Cardinality({s \in PoolSlots : ppc[s] = "close"}) + leaks
  /\ ~overlapped_shutdown => Cardinality(chromiums) <= 1
  /\ (down = "done" /\ ~overlapped_shutdown /\ ~failedLaunch) =>
       /\ chromiums \subseteq unclosed /\ drivers \subseteq unstopped
       /\ {c[2] : c \in open} \cup {leaked[k] : k \in DOMAIN leaked} \subseteq chromiums
=============================================================================
