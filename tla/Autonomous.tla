----------------------------- MODULE Autonomous -----------------------------
(***************************************************************************)
(* autonomous/: the scheduler of wake_cycle.py, the planner, the ledger of *)
(* budget.py and the commands of cli.py, over one SQLite database.  A call *)
(* of the planner reads in one transaction, asks the LLM, charges the      *)
(* ledger in a second and writes in a third.  The scheduler and a command  *)
(* are two processes; either may fail or die in between.                   *)
(***************************************************************************)
EXTENDS Naturals, Sequences

CONSTANTS
  Goals,            \* active goals, as numbers in the order of their ids
  MaxMilestones,    \* bound: milestones of a goal
  MaxPlans,         \* bound: rows of daily_plans
  MaxCalls,         \* bound: calls of the LLM
  Minute, Day,      \* ticks of the scheduler in a minute, minutes in a day
  WakeMinute,
  MaxTime,          \* bound: ticks
  MaxRestarts       \* bound: deaths of the scheduler's process

ASSUME AutonomousAssumption ==
  /\ Goals \subseteq Nat /\ {Minute, Day} \subseteq Nat \ {0}
  /\ {MaxMilestones, MaxPlans, MaxCalls, WakeMinute, MaxTime, MaxRestarts} \subseteq Nat

Callers == {"scheduler", "command"}
Never   == MaxTime + 1

VARIABLES
  time,             \* in ticks
  since,            \* when the scheduler read the clock, or fell asleep
  lastWake,         \* last_wake_date
  apc,              \* the place of each process
  todo,             \* goals it has yet to plan for
  request, subject, \* what it asks the planner: "decompose", "plan", "reflect"; of what
  \* The database:
  rows, completed,  \* the number of milestones of each goal; those completed
  planOf, score,    \* daily_plans: the milestone and the score of each
  ledger,
  \* History:
  llmCalls, results,
  woke, restarts

dbVars    == <<rows, completed, planOf, score, ledger>>
askVars   == <<todo, request, subject>>
clockVars == <<time, since, lastWake, woke, restarts>>
autoVars  == <<apc, askVars, clockVars, dbVars, llmCalls, results>>

Milestones == Goals \X (1 .. MaxMilestones)
DateOf(t)  == t \div (Minute * Day)
WakeTime   == (time \div Minute) % Day = WakeMinute
Plans      == 1 .. Len(planOf)

Moves(c, from, to) == apc[c] = from /\ apc' = [apc EXCEPT ![c] = to]

TimePassesBy ==
  /\ time < MaxTime /\ time' = time + 1
  /\ UNCHANGED <<apc, askVars, since, lastWake, woke, restarts, dbVars, llmCalls, results>>

-----------------------------------------------------------------------------
(* run_forever and the commands.                                           *)

Tests ==
  /\ IF WakeTime /\ lastWake # DateOf(time)
     THEN Moves("scheduler", "test", "next") /\ todo' = [todo EXCEPT !["scheduler"] = Goals]
     ELSE Moves("scheduler", "test", "sleep") /\ UNCHANGED todo
  /\ since' = time
  /\ UNCHANGED <<request, subject, time, lastWake, woke, restarts, dbVars, llmCalls, results>>

SleepEnds ==
  /\ time > since /\ Moves("scheduler", "sleep", "test")
  /\ UNCHANGED <<askVars, clockVars, dbVars, llmCalls, results>>

WokeOn(date) ==
  /\ Moves("scheduler", "next", "sleep") /\ todo["scheduler"] = {}
  /\ woke' = [woke EXCEPT ![date] = @ + 1] /\ since' = time
  /\ UNCHANGED <<askVars, time, restarts, dbVars, llmCalls, results>>

\* Mutant: the date is not kept.
WakeForgotten == WokeOn(DateOf(since)) /\ UNCHANGED lastWake

\* The date is the one read before the wake.
WakeEnds == WokeOn(DateOf(since)) /\ lastWake' = DateOf(since)

\* cli.py: today plans for every active goal.
Command ==
  /\ apc["command"] = "off"
  /\ \/ /\ Moves("command", "off", "next") /\ todo' = [todo EXCEPT !["command"] = Goals]
        /\ UNCHANGED <<request, subject>>
     \/ /\ Moves("command", "off", "ask") /\ UNCHANGED todo
        /\ \/ /\ request' = [request EXCEPT !["command"] = "decompose"]
              /\ \E g \in Goals : subject' = [subject EXCEPT !["command"] = <<g, 1>>]
           \/ /\ request' = [request EXCEPT !["command"] = "reflect"]
              /\ \E n \in Plans : subject' = [subject EXCEPT !["command"] = <<n, 1>>]
  /\ UNCHANGED <<clockVars, dbVars, llmCalls, results>>

\* A command that is over, failed or was killed; an error of the database between two goals
\* leaves wake, and the scheduler tries again at its next tick.
CycleEnds(c) ==
  /\ IF c = "scheduler" THEN apc[c] = "next" ELSE apc[c] # "off"
  /\ apc' = [apc EXCEPT ![c] = IF c = "scheduler" THEN "sleep" ELSE "off"]
  /\ since' = IF c = "scheduler" THEN time ELSE since
  /\ UNCHANGED <<askVars, time, lastWake, woke, restarts, dbVars, llmCalls, results>>

Restarts ==
  /\ restarts < MaxRestarts /\ restarts' = restarts + 1
  /\ apc' = [apc EXCEPT !["scheduler"] = "test"] /\ lastWake' = Never
  /\ UNCHANGED <<askVars, time, since, woke, dbVars, llmCalls, results>>

-----------------------------------------------------------------------------
(* wake: goal after goal, the first milestone that is not completed.       *)

Pending(g) == {i \in 1 .. rows[g] : <<g, i>> \notin completed}

NextGoal(c) ==
  \E g \in todo[c] :
    /\ \A h \in todo[c] : g <= h
    /\ todo' = [todo EXCEPT ![c] = @ \ {g}]
    /\ IF Pending(g) = {}
       THEN Moves(c, "next", "next") /\ UNCHANGED <<request, subject>>
       ELSE /\ Moves(c, "next", "ask")
            /\ request' = [request EXCEPT ![c] = "plan"]
            /\ subject' = [subject EXCEPT ![c] =
                 <<g, CHOOSE i \in Pending(g) : \A j \in Pending(g) : i <= j>>]
    /\ UNCHANGED <<clockVars, dbVars, llmCalls, results>>

\* What an exception of the planner does.
Raises(c) ==
  /\ IF request[c] = "plan" THEN Moves(c, "ask", "next") ELSE Moves(c, "ask", "off")
  /\ UNCHANGED <<askVars, clockVars, dbVars, results>>

\* The LLM fails, or its reply has no JSON of the right shape, or it has.
Asks(c) ==
  \/ Raises(c) /\ UNCHANGED llmCalls
  \/ /\ llmCalls < MaxCalls /\ llmCalls' = llmCalls + 1
     /\ \/ Raises(c)
        \/ Moves(c, "ask", "charge") /\ UNCHANGED <<askVars, clockVars, dbVars, results>>

\* record_llm_cost.
Charges(c) ==
  /\ Moves(c, "charge", "write") /\ ledger' = ledger + 1
  /\ UNCHANGED <<askVars, clockVars, rows, completed, planOf, score, llmCalls, results>>

\* An error of the database in plan_today: wake goes on with the next goal.
PlanFails(c) ==
  /\ request[c] = "plan" /\ (Moves(c, "charge", "next") \/ Moves(c, "write", "next"))
  /\ UNCHANGED <<askVars, clockVars, dbVars, llmCalls, results>>

\* Mutant: the cost is recorded after the rows.
WritesBeforeCharge(c) ==
  /\ request[c] = "plan" /\ Len(planOf) < MaxPlans /\ Moves(c, "charge", "write")
  /\ planOf' = Append(planOf, subject[c]) /\ score' = Append(score, "none")
  /\ results' = results + 1
  /\ UNCHANGED <<rows, completed, ledger, askVars, clockVars, llmCalls>>

\* The plan's row; its tasks are dispatched, and what fails is only listed.
WritesPlan(c) ==
  /\ request[c] = "plan" /\ Len(planOf) < MaxPlans /\ Moves(c, "write", "next")
  /\ planOf' = Append(planOf, subject[c]) /\ score' = Append(score, "none")
  /\ results' = results + 1
  /\ UNCHANGED <<rows, completed, ledger, askVars, clockVars, llmCalls>>

\* All milestones of a decomposition in one transaction.
WritesMilestones(c) ==
  /\ request[c] = "decompose" /\ Moves(c, "write", "off")
  /\ \E n \in 0 .. MaxMilestones :
       LET g == subject[c][1] IN
       /\ rows[g] + n <= MaxMilestones /\ rows' = [rows EXCEPT ![g] = @ + n]
  /\ results' = results + 1
  /\ UNCHANGED <<completed, planOf, score, ledger, askVars, clockVars, llmCalls>>

\* reflect_on_day: lessons and skills, each in a transaction, then the score.
WritesScore(c) ==
  /\ request[c] = "reflect"
  /\ \E sc \in {"low", "high"} :
       /\ score' = [score EXCEPT ![subject[c][1]] = sc]
       /\ Moves(c, "write", IF sc = "high" THEN "complete" ELSE "off")
  /\ results' = results + 1
  /\ UNCHANGED <<rows, completed, planOf, ledger, askVars, clockVars, llmCalls>>

\* sleep_reflect, a score of 7 or more.
Completes(c) ==
  /\ Moves(c, "complete", "off")
  /\ completed' = completed \cup {planOf[subject[c][1]]}
  /\ UNCHANGED <<rows, planOf, score, ledger, askVars, clockVars, llmCalls, results>>

-----------------------------------------------------------------------------
AutoInit ==
  /\ time = 0 /\ since = 0 /\ lastWake = Never
  /\ apc = [c \in Callers |-> IF c = "scheduler" THEN "test" ELSE "off"]
  /\ todo = [c \in Callers |-> {}]
  /\ request = [c \in Callers |-> "none"] /\ subject = [c \in Callers |-> <<0, 0>>]
  /\ rows = [g \in Goals |-> 0] /\ completed = {} /\ planOf = << >> /\ score = << >>
  /\ ledger = 0 /\ llmCalls = 0 /\ results = 0
  /\ woke = [d \in 0 .. DateOf(MaxTime) |-> 0] /\ restarts = 0

AutoNext ==
  \/ TimePassesBy \/ Tests \/ SleepEnds \/ WakeEnds \/ Command \/ Restarts
  \/ \E c \in Callers :
       \/ CycleEnds(c) \/ NextGoal(c) \/ Asks(c) \/ Charges(c) \/ PlanFails(c) \/ WritesPlan(c)
       \/ WritesMilestones(c) \/ WritesScore(c) \/ Completes(c)

AutoSpec == AutoInit /\ [][AutoNext]_autoVars

-----------------------------------------------------------------------------
\* "firing wake once per day": no day sees two completed wakes of one process, though
\* a wake may outlast its minute and a tick may be shorter; every result in the database
\* was charged before it was written, and a milestone is completed only after a plan for
\* it was scored, whatever the two processes do at once and wherever they die.
PlansAreAccounted ==
  /\ \A d \in DOMAIN woke : woke[d] <= 1 + restarts
  /\ results <= ledger /\ ledger <= llmCalls
  /\ \A m \in completed : \E n \in Plans : planOf[n] = m /\ score[n] # "none"
=============================================================================
