------------------------------- MODULE Agents -------------------------------
(***************************************************************************)
(* agents/: the router's queues and consumers, and the control socket that *)
(* pauses, resumes and creates slots.  One asyncio loop runs them; a step  *)
(* goes from one await to the next.  A slot is an object; a name is what   *)
(* the platform and the socket call it.                                    *)
(***************************************************************************)
EXTENDS Naturals, Sequences

CONSTANTS
  Names,       \* agent ids; "default" is one
  MaxSlots,    \* bound: slot objects
  MaxFrames    \* bound: frames dispatched

ASSUME AgentsAssumption ==
  /\ "default" \in Names /\ {MaxSlots, MaxFrames} \subseteq Nat /\ MaxSlots > 0

Objects == 1 .. MaxSlots
NoSlot  == 0
NoFrame == 0

VARIABLES
  slots,       \* the router's dict
  made,        \* slot objects so far
  queue, unfinished,   \* of each object: its frames, the count its joiners wait for
  status,
  consumer,    \* "none", "get", "run", "done"
  hand,        \* the frame a consumer runs
  stopped,     \* AgentRouter.stop
  \* History:
  frames, accepted, dropped

slotVars  == <<slots, made, stopped, frames>>
agentVars == <<slotVars, queue, unfinished, status, consumer, hand, accepted, dropped>>

Registered == {slots[n] : n \in Names} \ {NoSlot}

\* An unknown or missing agent_id goes to the default slot.
Resolve(n) == IF slots[n] # NoSlot THEN slots[n] ELSE slots["default"]

dispatch(n) ==
  /\ frames < MaxFrames /\ frames' = frames + 1
  /\ LET o == Resolve(n) IN
       /\ queue' = [queue EXCEPT ![o] = Append(@, frames')]
       /\ unfinished' = [unfinished EXCEPT ![o] = @ + 1]
       /\ accepted' = [accepted EXCEPT ![o] = Append(@, frames')]
  /\ UNCHANGED <<slots, made, stopped, status, consumer, hand, dropped>>

-----------------------------------------------------------------------------
(* _consume.                                                               *)

Takes(o) ==
  /\ consumer[o] = "get" /\ ~stopped /\ queue[o] # << >>
  /\ consumer' = [consumer EXCEPT ![o] = "run"]
  /\ hand' = [hand EXCEPT ![o] = Head(queue[o])]
  /\ queue' = [queue EXCEPT ![o] = Tail(@)]
  /\ status' = [status EXCEPT ![o] = "running"]
  /\ UNCHANGED <<slotVars, unfinished, accepted, dropped>>

\* The finally clause marks the item as done on every way out.
Leaves(o, place) ==
  /\ consumer[o] = "run" /\ consumer' = [consumer EXCEPT ![o] = place]
  /\ hand' = [hand EXCEPT ![o] = NoFrame]
  /\ unfinished' = [unfinished EXCEPT ![o] = @ - 1]
  /\ UNCHANGED <<slotVars, queue, accepted>>

HandlerReturns(o) ==
  /\ Leaves(o, "get") /\ ~stopped
  /\ status' = [status EXCEPT ![o] = IF @ = "running" THEN "idle" ELSE @]
  /\ UNCHANGED dropped

\* Mutant: an exception skips task_done.
RaisesWithoutDone(o) ==
  /\ consumer[o] = "run" /\ consumer' = [consumer EXCEPT ![o] = "get"] /\ ~stopped
  /\ hand' = [hand EXCEPT ![o] = NoFrame] /\ status' = [status EXCEPT ![o] = "crashed"]
  /\ UNCHANGED <<slotVars, queue, unfinished, accepted, dropped>>

\* Mutant: an exception ends the consumer.
CrashEndsConsumer(o) ==
  /\ Leaves(o, "done") /\ ~stopped
  /\ status' = [status EXCEPT ![o] = "crashed"] /\ UNCHANGED dropped

\* Any exception, BudgetExhausted included.
HandlerRaises(o) ==
  /\ Leaves(o, "get") /\ ~stopped
  /\ status' = [status EXCEPT ![o] = "crashed"] /\ UNCHANGED dropped

\* stop cancels every consumer where it waits: the frame in hand is gone.
Cancelled(o) ==
  /\ stopped
  /\ \/ /\ consumer[o] = "get" /\ consumer' = [consumer EXCEPT ![o] = "done"]
        /\ UNCHANGED <<slotVars, queue, unfinished, hand, accepted, dropped>>
     \/ Leaves(o, "done") /\ dropped' = dropped \cup {hand[o]}
  /\ UNCHANGED status

-----------------------------------------------------------------------------
RouterStops ==
  /\ ~stopped /\ stopped' = TRUE
  /\ UNCHANGED <<slots, made, frames, queue, unfinished, status, consumer, hand, accepted, dropped>>

\* pause and resume only write the status.
SetStatus(n, s) ==
  /\ slots[n] # NoSlot /\ status' = [status EXCEPT ![slots[n]] = s]
  /\ UNCHANGED <<slotVars, queue, unfinished, consumer, hand, accepted, dropped>>

\* _create: the name's slot is replaced; start, which made the consumers, is over.
Create(n) ==
  /\ made < MaxSlots /\ made' = made + 1
  /\ slots' = [slots EXCEPT ![n] = made']
  /\ UNCHANGED <<stopped, frames, queue, unfinished, status, consumer, hand, accepted, dropped>>

\* discover_slots finds the default slot and those that have a directory.
AgentsInit ==
  /\ made \in Objects /\ slots \in [Names -> Objects \cup {NoSlot}]
  /\ slots["default"] # NoSlot /\ Registered = 1 .. made
  /\ \A m, n \in Names : slots[m] = slots[n] => m = n \/ slots[n] = NoSlot
  /\ consumer = [o \in Objects |-> IF o <= made THEN "get" ELSE "none"]
  /\ queue = [o \in Objects |-> << >>] /\ unfinished = [o \in Objects |-> 0]
  /\ status = [o \in Objects |-> "idle"] /\ hand = [o \in Objects |-> NoFrame]
  /\ stopped = FALSE
  /\ frames = 0 /\ accepted = [o \in Objects |-> << >>] /\ dropped = {}

Consume(o) == Takes(o) \/ HandlerReturns(o) \/ HandlerRaises(o) \/ Cancelled(o)

AgentsNext ==
  \/ RouterStops
  \/ \E n \in Names :
       dispatch(n) \/ Create(n) \/ \E s \in {"paused", "idle"} : SetStatus(n, s)
  \/ \E o \in Objects : Consume(o)

AgentsSpec == AgentsInit /\ [][AgentsNext]_agentVars

-----------------------------------------------------------------------------
\* "always mark the queue item as done so joiners unblock": the count is what is
\* queued and in hand, so a join returns when the work is over and not before, whatever
\* was raised, paused, replaced or cancelled meanwhile; and an object's frames leave
\* in the order they came.
JoinersUnblock ==
  \A o \in Objects :
    LET held == IF hand[o] = NoFrame THEN << >> ELSE <<hand[o]>>
        waiting == held \o queue[o]
    IN /\ unfinished[o] = Len(waiting)
       /\ waiting = SubSeq(accepted[o], Len(accepted[o]) - Len(waiting) + 1, Len(accepted[o]))

\* "Each slot has a long-running consumer task": a frame of a slot that has one is
\* taken, also after the slot crashed, was paused or its name went to another slot.
FramesAreTaken ==
  \A o \in Objects : consumer[o] # "none" /\ queue[o] # << >> ~> stopped \/ queue[o] = << >>
=============================================================================
