--------------------------- MODULE OperationQueue ---------------------------
(***************************************************************************)
(* The operation queue of src/executor/queue.ts, through which every       *)
(* operation that writes to the chain goes.  JavaScript runs on one        *)
(* thread, so a step of this module is the code between two awaits:        *)
(*                                                                         *)
(*   - enqueue() is synchronous;                                           *)
(*   - executeNow() runs up to its sleep or into the operation, wakes from *)
(*     the sleep every 200 ms, and resumes when the operation settles;     *)
(*   - drain() is a setImmediate callback that runs up to the await of the *)
(*     item it starts, and resumes when that item settles.                 *)
(***************************************************************************)
EXTENDS Naturals, Sequences, FiniteSets

CONSTANTS Calls,      \* executeNow() invocations, each made once
          NoItem,     \* the null of `running`
          MaxItems    \* bound: how many items are ever enqueued

ASSUME CallsAssumption == IsFiniteSet(Calls)
ASSUME MaxItemsAssumption == MaxItems \in Nat

VARIABLES highQueue, normalQueue,  \* the two FIFO queues
          running,                 \* the item drain() is awaiting, or NoItem
          immediateRunning,        \* an executeNow() operation executes
          immediateWaiting,        \* number of executeNow() callers that wait
          draining,                \* drain() is inside its loop
          drainCallbacks,          \* setImmediate(drain) not yet fired
          idCounter,               \* ids handed out so far
          highPrioritySeq,         \* HIGH items enqueued so far
          call                     \* where each executeNow() invocation is

queueVars == <<highQueue, normalQueue>>
vars == <<highQueue, normalQueue, running, immediateRunning, immediateWaiting,
          draining, drainCallbacks, idCounter, highPrioritySeq, call>>

Priority == {"HIGH", "NORMAL"}
CallState == {"idle", "waiting", "running", "done"}

QueueItem == [id : Nat, priority : Priority]

ASSUME NoItemAssumption == NoItem \notin QueueItem

TypeOK ==
  /\ highQueue \in Seq(QueueItem)
  /\ normalQueue \in Seq(QueueItem)
  /\ running \in QueueItem \cup {NoItem}
  /\ immediateRunning \in BOOLEAN
  /\ immediateWaiting \in Nat
  /\ draining \in BOOLEAN
  /\ drainCallbacks \in Nat
  /\ idCounter \in Nat
  /\ highPrioritySeq \in Nat
  /\ call \in [Calls -> CallState]

Init ==
  /\ highQueue = <<>>
  /\ normalQueue = <<>>
  /\ running = NoItem
  /\ immediateRunning = FALSE
  /\ immediateWaiting = 0
  /\ draining = FALSE
  /\ drainCallbacks = 0
  /\ idCounter = 0
  /\ highPrioritySeq = 0
  /\ call = [c \in Calls |-> "idle"]

HasPending == highQueue # <<>> \/ normalQueue # <<>>

NeverSchedules == UNCHANGED drainCallbacks

(* scheduleDrain(): a new callback unless the loop is already active.      *)
scheduleDrain == drainCallbacks' = IF draining THEN drainCallbacks ELSE drainCallbacks + 1

EnqueueFront(priority) ==
  LET item == [id |-> idCounter + 1, priority |-> priority]
  IN  /\ idCounter < MaxItems
      /\ idCounter' = idCounter + 1
      /\ IF priority = "HIGH"
         THEN /\ highPrioritySeq' = highPrioritySeq + 1
              /\ highQueue' = <<item>> \o highQueue
              /\ UNCHANGED normalQueue
         ELSE /\ normalQueue' = <<item>> \o normalQueue
              /\ UNCHANGED <<highQueue, highPrioritySeq>>
      /\ scheduleDrain
      /\ UNCHANGED <<running, immediateRunning, immediateWaiting, draining, call>>

(* enqueue(); enqueueWithResult() is the same with a promise around it.    *)
enqueue(priority) ==
  LET item == [id |-> idCounter + 1, priority |-> priority]
  IN  /\ idCounter < MaxItems
      /\ idCounter' = idCounter + 1
      /\ IF priority = "HIGH"
         THEN /\ highPrioritySeq' = highPrioritySeq + 1
              /\ highQueue' = Append(highQueue, item)
              /\ UNCHANGED normalQueue
         ELSE /\ normalQueue' = Append(normalQueue, item)
              /\ UNCHANGED <<highQueue, highPrioritySeq>>
      /\ scheduleDrain
      /\ UNCHANGED <<running, immediateRunning, immediateWaiting, draining, call>>

BusyWithItem == running # NoItem

(* The condition executeNow() waits out before it takes the queue.         *)
Busy == running # NoItem \/ immediateRunning

ExecuteAtOnce(c) ==
  /\ call[c] \in {"idle", "waiting"}
  /\ ~Busy
  /\ call' = [call EXCEPT ![c] = "running"]
  /\ immediateRunning' = TRUE
  /\ UNCHANGED <<highQueue, normalQueue, running, draining, drainCallbacks,
                 idCounter, highPrioritySeq>>

AlwaysReleases(c) ==
  /\ call[c] = "idle"
  /\ ExecuteAtOnce(c)
  /\ immediateWaiting' = immediateWaiting - 1

(* executeNow(): take the queue if it is free, else reserve it and sleep.  *)
executeNow(c) ==
  /\ call[c] = "idle"
  /\ \/ ExecuteAtOnce(c) /\ UNCHANGED immediateWaiting
     \/ /\ Busy
        /\ immediateWaiting' = immediateWaiting + 1
        /\ call' = [call EXCEPT ![c] = "waiting"]
        /\ UNCHANGED <<highQueue, normalQueue, running, immediateRunning, draining,
                       drainCallbacks, idCounter, highPrioritySeq>>

KeepsReservation(c) ==
  /\ call[c] = "waiting"
  /\ ExecuteAtOnce(c)
  /\ UNCHANGED immediateWaiting

(* The 200 ms sleep ends with the queue free.  (If it is still busy the    *)
(* caller sleeps again: a stuttering step.)                                *)
executeNowWakes(c) ==
  /\ call[c] = "waiting"
  /\ ExecuteAtOnce(c)
  /\ immediateWaiting' = immediateWaiting - 1

ImmediateDoneNoResume(c) ==
  /\ call[c] = "running"
  /\ call' = [call EXCEPT ![c] = "done"]
  /\ immediateRunning' = FALSE
  /\ NeverSchedules
  /\ UNCHANGED <<highQueue, normalQueue, running, immediateWaiting, draining,
                 idCounter, highPrioritySeq>>

(* The operation of an executeNow() settles, normally or with an error.    *)
executeNowReturns(c) ==
  /\ call[c] = "running"
  /\ call' = [call EXCEPT ![c] = "done"]
  /\ immediateRunning' = FALSE
  /\ scheduleDrain
  /\ UNCHANGED <<highQueue, normalQueue, running, immediateWaiting, draining,
                 idCounter, highPrioritySeq>>

HeldWhileRunning == immediateRunning

(* The door is held for an immediate operation.                            *)
HeldForImmediate == immediateRunning \/ immediateWaiting > 0

NormalFirst ==
  IF normalQueue # <<>>
  THEN /\ running' = Head(normalQueue)
       /\ normalQueue' = Tail(normalQueue)
       /\ UNCHANGED highQueue
  ELSE /\ running' = Head(highQueue)
       /\ highQueue' = Tail(highQueue)
       /\ UNCHANGED normalQueue

(* HIGH before NORMAL, the oldest first. *)
TakeNext ==
  IF highQueue # <<>>
  THEN /\ running' = Head(highQueue)
       /\ highQueue' = Tail(highQueue)
       /\ UNCHANGED normalQueue
  ELSE /\ running' = Head(normalQueue)
       /\ normalQueue' = Tail(normalQueue)
       /\ UNCHANGED highQueue

(* One pass of the loop of drain(), with `scheduled` callbacks left: start *)
(* the next item and await it, or leave the loop, clear `draining` and     *)
(* reschedule if items arrived on the way out.                             *)
DrainLoop(scheduled) ==
  /\ \/ /\ HasPending
        /\ ~HeldForImmediate
        /\ TakeNext
        /\ draining' = TRUE
        /\ drainCallbacks' = scheduled
     \/ /\ ~HasPending \/ HeldForImmediate
        /\ running' = NoItem
        /\ draining' = FALSE
        /\ drainCallbacks' = IF HasPending /\ ~HeldForImmediate
                             THEN scheduled + 1 ELSE scheduled
        /\ UNCHANGED queueVars
  /\ UNCHANGED <<immediateRunning, immediateWaiting, idCounter, highPrioritySeq, call>>

(* A setImmediate callback fires; a second drain() returns at once.        *)
drain ==
  /\ drainCallbacks > 0
  /\ \/ ~draining /\ DrainLoop(drainCallbacks - 1)
     \/ /\ draining
        /\ drainCallbacks' = drainCallbacks - 1
        /\ UNCHANGED <<highQueue, normalQueue, running, immediateRunning, immediateWaiting,
                       draining, idCounter, highPrioritySeq, call>>

(* The awaited item settles (its error, if any, is caught) and the loop    *)
(* goes on in the same step.                                               *)
itemSettles ==
  /\ running # NoItem
  /\ DrainLoop(drainCallbacks)

Next ==
  \/ \E p \in Priority : enqueue(p)
  \/ \E c \in Calls : executeNow(c) \/ executeNowWakes(c) \/ executeNowReturns(c)
  \/ drain
  \/ itemSettles

(* setImmediate callbacks and timers fire, and the operations settle (each *)
(* RPC they await has a timeout).  Nobody has to submit anything.          *)
Fairness ==
  /\ WF_vars(drain)
  /\ WF_vars(itemSettles)
  /\ \A c \in Calls : WF_vars(executeNowWakes(c)) /\ WF_vars(executeNowReturns(c))

Spec == Init /\ [][Next]_vars /\ Fairness

-----------------------------------------------------------------------------

(* At most one operation executes, queued or immediate: the header of      *)
(* queue.ts, "only one operation runs at a time".                          *)
MutualExclusion ==
  /\ \A c, d \in Calls : call[c] = "running" /\ call[d] = "running" => c = d
  /\ running # NoItem => \A c \in Calls : call[c] # "running"

(* The flags that the code tests tell the truth about who executes and who *)
(* waits: `immediateRunning` and `immediateWaiting` about the executeNow() *)
(* invocations, `draining` about the drain loop.                           *)
FlagsAgree ==
  /\ immediateRunning <=> \E c \in Calls : call[c] = "running"
  /\ immediateWaiting = Cardinality({c \in Calls : call[c] = "waiting"})
  /\ draining <=> running # NoItem

(* No lost wake-up: when items are pending and nothing executes, either a  *)
(* drain() callback is scheduled or an executeNow() caller is waiting, who *)
(* will schedule one when it is done.                                      *)
NoLostWakeup ==
  HasPending /\ ~Busy =>
    drainCallbacks > 0 \/ \E c \in Calls : call[c] = "waiting"

(* An executeNow() caller waits for the item that is running, never for    *)
(* one that was queued behind it.                                          *)
WaitsForCurrentItemOnly ==
  [][(\E c \in Calls : call[c] = "waiting" /\ call'[c] = "waiting")
       => running' \in {running, NoItem}]_vars

(* An item starts only if no HIGH item is left behind a NORMAL one and no  *)
(* older item of its own priority is left behind.                          *)
PriorityThenFifo ==
  [][running' # running /\ running' # NoItem =>
       LET left == {highQueue'[i] : i \in DOMAIN highQueue'}
                     \cup {normalQueue'[i] : i \in DOMAIN normalQueue'}
       IN  \A item \in left :
             /\ item.priority = running'.priority => item.id > running'.id
             /\ item.priority = "HIGH" => running'.priority = "HIGH"]_vars

IsPending(i) ==
  \/ \E k \in DOMAIN highQueue : highQueue[k].id = i
  \/ \E k \in DOMAIN normalQueue : normalQueue[k].id = i

(* What is enqueued runs, and who calls executeNow() gets a turn.          *)
EverythingRuns ==
  /\ \A i \in 1..MaxItems : IsPending(i) ~> (running # NoItem /\ running.id = i)
  /\ \A c \in Calls : (call[c] = "waiting") ~> (call[c] = "running")

Serial == INSTANCE SerialExecutor
            WITH Items <- [id : 1..MaxItems, priority : Priority],
                 high <- highQueue,
                 normal <- normalQueue, active <- running

(* The queue implements the serial executor, its progress included. *)
ImplementsSerialExecutor == Serial!Spec
=============================================================================
