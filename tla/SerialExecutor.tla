--------------------------- MODULE SerialExecutor ---------------------------
(***************************************************************************)
(* What the operation queue of src/executor/queue.ts promises to its       *)
(* clients, without the machinery that keeps the promise: operations that  *)
(* write to the chain run one at a time, immediate calls go before queued  *)
(* items, HIGH items before NORMAL ones, items of one priority in the      *)
(* order they were enqueued, and whatever was submitted gets its turn.     *)
(***************************************************************************)
EXTENDS Sequences

CONSTANTS Calls,    \* the executeNow() invocations
          Items,    \* the operations a client may submit, each with a priority
          NoItem    \* "no queued item is running"

VARIABLES high,     \* HIGH items not started yet, oldest first
          normal,   \* NORMAL items not started yet, oldest first
          active,   \* the queued item that is executing, or NoItem
          call      \* the state of every executeNow() invocation

vars == <<high, normal, active, call>>

Idle == active = NoItem /\ \A c \in Calls : call[c] # "running"

Init ==
  /\ high = <<>>
  /\ normal = <<>>
  /\ active = NoItem
  /\ call = [c \in Calls |-> "idle"]

(* A client submits an operation to the queue. *)
Submit ==
  /\ \E i \in Items :
       \/ i.priority = "HIGH" /\ high' = Append(high, i) /\ normal' = normal
       \/ i.priority = "NORMAL" /\ normal' = Append(normal, i) /\ high' = high
  /\ UNCHANGED <<active, call>>

(* The next queued item starts: nothing else executes and no immediate     *)
(* call is waiting.                                                        *)
StartItem ==
  /\ \A c \in Calls : call[c] \notin {"waiting", "running"}
  /\ \/ /\ high # <<>>
        /\ active' = Head(high)
        /\ high' = Tail(high)
        /\ normal' = normal
     \/ /\ high = <<>>
        /\ normal # <<>>
        /\ active' = Head(normal)
        /\ normal' = Tail(normal)
        /\ high' = high
  /\ UNCHANGED call

BeginItem == active = NoItem /\ StartItem

EndItem ==
  /\ active # NoItem
  /\ active' = NoItem
  /\ UNCHANGED <<high, normal, call>>

(* One item ends and the next one starts, with nothing in between.         *)
NextItem == active # NoItem /\ StartItem

Request(c) ==
  /\ call[c] = "idle"
  /\ ~Idle
  /\ call' = [call EXCEPT ![c] = "waiting"]
  /\ UNCHANGED <<high, normal, active>>

BeginCall(c) ==
  /\ call[c] \in {"idle", "waiting"}
  /\ Idle
  /\ call' = [call EXCEPT ![c] = "running"]
  /\ UNCHANGED <<high, normal, active>>

EndCall(c) ==
  /\ call[c] = "running"
  /\ call' = [call EXCEPT ![c] = "done"]
  /\ UNCHANGED <<high, normal, active>>

BeginWaiting(c) == call[c] = "waiting" /\ BeginCall(c)

Next ==
  \/ Submit \/ BeginItem \/ EndItem \/ NextItem
  \/ \E c \in Calls : Request(c) \/ BeginCall(c) \/ EndCall(c)

Safety == Init /\ [][Next]_vars

(* An idle executor with something to execute starts something, and what  *)
(* executes ends: this is where a lost wake-up of the queue would show.    *)
Progress ==
  /\ WF_vars(BeginItem \/ \E c \in Calls : BeginWaiting(c))
  /\ WF_vars(EndItem \/ NextItem)
  /\ \A c \in Calls : WF_vars(EndCall(c)) /\ WF_vars(BeginWaiting(c))

Spec == Safety /\ Progress
=============================================================================
