------------------------ MODULE OperationQueueProofs ------------------------
(***************************************************************************)
(* Proofs about the operation queue, for any finite set of executeNow()    *)
(* invocations and any number of items.                                    *)
(***************************************************************************)
EXTENDS OperationQueue, FiniteSetTheorems, SequenceTheorems, TLAPS

Waiting == {c \in Calls : call[c] = "waiting"}

(* MutualExclusion and NoLostWakeup are not inductive alone: the code      *)
(* decides by its flags, so the flags must be known to tell the truth.     *)
IndInv == TypeOK /\ MutualExclusion /\ FlagsAgree /\ NoLostWakeup

(* A waiting counter equal to the number of waiting callers is positive    *)
(* only if somebody waits.                                                 *)
LEMMA WaitingCount ==
  ASSUME TypeOK, FlagsAgree
  PROVE  /\ IsFiniteSet(Waiting)
         /\ immediateWaiting > 0 => \E c \in Calls : call[c] = "waiting"
         /\ (\E c \in Calls : call[c] = "waiting") => immediateWaiting > 0
<1>1. IsFiniteSet(Waiting)
  BY CallsAssumption, FS_Subset DEF Waiting
<1>2. immediateWaiting = Cardinality(Waiting)
  BY DEF FlagsAgree, Waiting
<1>3. Cardinality(Waiting) = 0 <=> Waiting = {}
  BY <1>1, FS_EmptySet
<1>4. Cardinality(Waiting) \in Nat
  BY <1>1, FS_CardinalityType
<1>5. ASSUME immediateWaiting > 0 PROVE \E c \in Calls : call[c] = "waiting"
  <2>1. Waiting # {}
    BY <1>2, <1>3, <1>4, <1>5
  <2> QED BY <2>1 DEF Waiting
<1>6. ASSUME \E c \in Calls : call[c] = "waiting" PROVE immediateWaiting > 0
  <2>1. Waiting # {}
    BY <1>6 DEF Waiting
  <2> QED BY <2>1, <1>2, <1>3, <1>4
<1> QED BY <1>1, <1>5, <1>6

LEMMA InitInv == Init => IndInv
<1> SUFFICES ASSUME Init PROVE IndInv
  OBVIOUS
<1>1. TypeOK
  <2>1. immediateRunning \in BOOLEAN /\ draining \in BOOLEAN
    BY DEF Init
  <2>2. highQueue \in Seq(QueueItem) /\ normalQueue \in Seq(QueueItem)
    BY DEF Init
  <2>3. /\ immediateWaiting \in Nat /\ drainCallbacks \in Nat
        /\ idCounter \in Nat /\ highPrioritySeq \in Nat
    BY DEF Init
  <2>4. call \in [Calls -> CallState] /\ running \in QueueItem \cup {NoItem}
    BY DEF Init, CallState
  <2> QED BY <2>1, <2>2, <2>3, <2>4 DEF TypeOK
<1>2. MutualExclusion
  BY DEF Init, MutualExclusion
<1>3. FlagsAgree
  <2>1. {c \in Calls : call[c] = "waiting"} = {}
    BY DEF Init
  <2>2. Cardinality({c \in Calls : call[c] = "waiting"}) = 0
    BY <2>1, FS_EmptySet
  <2> QED BY <2>2 DEF Init, FlagsAgree
<1>4. NoLostWakeup
  BY DEF Init, NoLostWakeup, HasPending
<1> QED BY <1>1, <1>2, <1>3, <1>4 DEF IndInv

LEMMA EnqueueInv ==
  ASSUME IndInv, NEW p \in Priority, enqueue(p)
  PROVE  IndInv'
<1> USE DEF IndInv
<1> DEFINE item == [id |-> idCounter + 1, priority |-> p]
<1>0. item \in QueueItem
  BY DEF TypeOK, QueueItem
<1>1. TypeOK'
  <2>0. UNCHANGED <<immediateRunning, draining>>
    BY DEF enqueue
  <2>1. immediateRunning' \in BOOLEAN /\ draining' \in BOOLEAN
    BY <2>0 DEF TypeOK
  <2>2. drainCallbacks' \in Nat
    BY DEF TypeOK, enqueue, scheduleDrain
  <2>3. highQueue' \in Seq(QueueItem) /\ normalQueue' \in Seq(QueueItem)
    <3>1. /\ highQueue' \in {highQueue, Append(highQueue, item)}
          /\ normalQueue' \in {normalQueue, Append(normalQueue, item)}
      BY DEF enqueue
    <3> HIDE DEF item
    <3>2. /\ Append(highQueue, item) \in Seq(QueueItem)
          /\ Append(normalQueue, item) \in Seq(QueueItem)
      BY <1>0, AppendProperties DEF TypeOK
    <3> QED BY <3>1, <3>2 DEF TypeOK
  <2>4. idCounter' \in Nat /\ highPrioritySeq' \in Nat
    BY DEF TypeOK, enqueue
  <2> QED BY <2>1, <2>2, <2>3, <2>4 DEF TypeOK, enqueue
<1>2. MutualExclusion'
  BY DEF MutualExclusion, enqueue
<1>3. FlagsAgree'
  BY DEF FlagsAgree, enqueue
<1>4. NoLostWakeup'
  <2>1. CASE Busy
    BY <2>1 DEF NoLostWakeup, Busy, enqueue
  <2>2. CASE ~Busy
    <3>1. drainCallbacks' > 0
      BY <2>2 DEF Busy, FlagsAgree, TypeOK, enqueue, scheduleDrain
    <3> QED BY <3>1 DEF NoLostWakeup
  <2> QED BY <2>1, <2>2
<1> QED BY <1>1, <1>2, <1>3, <1>4

(* A call that starts: it was idle or waiting, and nothing executed.       *)
LEMMA StartCallInv ==
  ASSUME IndInv, NEW c \in Calls, ExecuteAtOnce(c),
         immediateWaiting' \in Nat,
         immediateWaiting' = Cardinality(Waiting')
  PROVE  IndInv'
<1> USE DEF IndInv
<1>1. TypeOK'
  BY DEF TypeOK, ExecuteAtOnce, CallState
<1>2. ~(\E d \in Calls : call[d] = "running")
  BY DEF ExecuteAtOnce, Busy, FlagsAgree
<1>3. MutualExclusion'
  BY <1>2 DEF MutualExclusion, ExecuteAtOnce, Busy, TypeOK
<1>4. FlagsAgree'
  BY DEF FlagsAgree, ExecuteAtOnce, TypeOK, Waiting
<1>5. NoLostWakeup'
  BY DEF NoLostWakeup, ExecuteAtOnce, Busy
<1> QED BY <1>1, <1>3, <1>4, <1>5

LEMMA ExecuteNowInv ==
  ASSUME IndInv, NEW c \in Calls, executeNow(c)
  PROVE  IndInv'
<1> USE DEF IndInv
<1>0. IsFiniteSet(Waiting) /\ immediateWaiting = Cardinality(Waiting)
  BY WaitingCount DEF FlagsAgree, Waiting
<1>1. CASE ExecuteAtOnce(c) /\ UNCHANGED immediateWaiting
  <2>1. Waiting' = Waiting
    BY <1>1 DEF Waiting, executeNow, ExecuteAtOnce, TypeOK
  <2> QED BY <1>0, <1>1, <2>1, StartCallInv DEF TypeOK
<1>2. CASE Busy /\ immediateWaiting' = immediateWaiting + 1
  <2>1. Waiting' = Waiting \cup {c} /\ c \notin Waiting
    BY <1>2 DEF Waiting, executeNow, ExecuteAtOnce, TypeOK
  <2>2. Cardinality(Waiting') = Cardinality(Waiting) + 1
    BY <1>0, <2>1, FS_AddElement
  <2>3. call' = [call EXCEPT ![c] = "waiting"] /\ call[c] = "idle"
    BY <1>2 DEF executeNow, ExecuteAtOnce
  <2>4. UNCHANGED <<highQueue, normalQueue, running, immediateRunning, draining,
                    drainCallbacks, idCounter, highPrioritySeq>>
    BY <1>2 DEF executeNow, ExecuteAtOnce
  <2>5. TypeOK'
    BY <1>2, <2>3, <2>4 DEF TypeOK, CallState
  <2>6. MutualExclusion'
    BY <2>3, <2>4 DEF MutualExclusion, TypeOK
  <2>7. FlagsAgree'
    BY <1>0, <1>2, <2>2, <2>3, <2>4 DEF FlagsAgree, TypeOK, Waiting
  <2>8. NoLostWakeup'
    BY <1>2, <2>4 DEF NoLostWakeup, Busy
  <2> QED BY <2>5, <2>6, <2>7, <2>8
<1> QED BY <1>1, <1>2 DEF executeNow

LEMMA WakesInv ==
  ASSUME IndInv, NEW c \in Calls, executeNowWakes(c)
  PROVE  IndInv'
<1> USE DEF IndInv
<1>0. IsFiniteSet(Waiting) /\ immediateWaiting = Cardinality(Waiting)
  BY WaitingCount DEF FlagsAgree, Waiting
<1>1. Waiting' = Waiting \ {c} /\ c \in Waiting
  BY DEF Waiting, executeNowWakes, ExecuteAtOnce, TypeOK
<1>2. Cardinality(Waiting') = Cardinality(Waiting) - 1
  BY <1>0, <1>1, FS_RemoveElement
<1>3. immediateWaiting > 0
  BY WaitingCount DEF executeNowWakes
<1>4. immediateWaiting' \in Nat /\ immediateWaiting' = Cardinality(Waiting')
  BY <1>0, <1>2, <1>3 DEF TypeOK, executeNowWakes
<1> QED BY <1>4, StartCallInv DEF executeNowWakes

LEMMA ReturnsInv ==
  ASSUME IndInv, NEW c \in Calls, executeNowReturns(c)
  PROVE  IndInv'
<1> USE DEF IndInv
<1>1. TypeOK'
  <2>1. immediateRunning' \in BOOLEAN /\ draining' \in BOOLEAN
    BY DEF TypeOK, executeNowReturns
  <2>2. drainCallbacks' \in Nat
    BY DEF TypeOK, executeNowReturns, scheduleDrain
  <2>3. call' \in [Calls -> CallState]
    BY DEF TypeOK, executeNowReturns, CallState
  <2> QED BY <2>1, <2>2, <2>3 DEF TypeOK, executeNowReturns
<1>2. \A d \in Calls : call'[d] # "running"
  BY DEF executeNowReturns, MutualExclusion, TypeOK
<1>3. MutualExclusion'
  BY <1>2 DEF MutualExclusion
<1>4. FlagsAgree'
  <2>1. {d \in Calls : call'[d] = "waiting"} = {d \in Calls : call[d] = "waiting"}
    BY DEF executeNowReturns, TypeOK
  <2> QED BY <1>2, <2>1 DEF FlagsAgree, executeNowReturns
<1>5. NoLostWakeup'
  <2>1. drainCallbacks' > 0
    BY DEF executeNowReturns, scheduleDrain, MutualExclusion, FlagsAgree, TypeOK
  <2> QED BY <2>1 DEF NoLostWakeup
<1> QED BY <1>1, <1>3, <1>4, <1>5

(* One pass of the drain loop, entered from a callback or after an item.   *)
LEMMA DrainLoopInv ==
  ASSUME IndInv, NEW n \in Nat, DrainLoop(n), draining => running # NoItem
  PROVE  IndInv'
<1> USE DEF IndInv
<1>0. UNCHANGED <<immediateRunning, immediateWaiting, idCounter, highPrioritySeq, call>>
  BY DEF DrainLoop
<1>1. CASE HasPending /\ ~HeldForImmediate /\ TakeNext
            /\ draining' = TRUE /\ drainCallbacks' = n
  <2>1. /\ running' \in QueueItem
        /\ highQueue' \in Seq(QueueItem)
        /\ normalQueue' \in Seq(QueueItem)
    <3>1. CASE highQueue # <<>>
      BY <1>1, <3>1, HeadTailProperties DEF TypeOK, TakeNext
    <3>2. CASE highQueue = <<>>
      BY <1>1, <3>2, HeadTailProperties DEF TypeOK, TakeNext, HasPending
    <3> QED BY <3>1, <3>2
  <2>2. running' # NoItem
    BY <2>1, NoItemAssumption
  <2>3. TypeOK'
    BY <1>0, <1>1, <2>1 DEF TypeOK
  <2>4. MutualExclusion'
    BY <1>0, <1>1 DEF MutualExclusion, HeldForImmediate, FlagsAgree
  <2>5. FlagsAgree'
    BY <1>0, <1>1, <2>2 DEF FlagsAgree
  <2>6. NoLostWakeup'
    BY <2>2 DEF NoLostWakeup, Busy
  <2> QED BY <2>3, <2>4, <2>5, <2>6
<1>2. CASE (~HasPending \/ HeldForImmediate) /\ running' = NoItem /\ draining' = FALSE
            /\ drainCallbacks' = (IF HasPending /\ ~HeldForImmediate THEN n + 1 ELSE n)
            /\ UNCHANGED queueVars
  <2>1. TypeOK'
    BY <1>0, <1>2 DEF TypeOK, queueVars
  <2>2. MutualExclusion'
    BY <1>0, <1>2 DEF MutualExclusion
  <2>3. FlagsAgree'
    BY <1>0, <1>2 DEF FlagsAgree
  <2>4. NoLostWakeup'
    <3>1. CASE ~HasPending
      BY <1>2, <3>1 DEF NoLostWakeup, HasPending, queueVars
    <3>2. CASE HeldForImmediate
      BY <1>0, <1>2, <3>2, WaitingCount DEF HeldForImmediate, NoLostWakeup, Busy
    <3> QED BY <1>2, <3>1, <3>2
  <2> QED BY <2>1, <2>2, <2>3, <2>4
<1> QED BY <1>1, <1>2 DEF DrainLoop

LEMMA DrainInv ==
  ASSUME IndInv, drain
  PROVE  IndInv'
<1> USE DEF IndInv
<1>1. CASE ~draining /\ DrainLoop(drainCallbacks - 1)
  BY <1>1, DrainLoopInv DEF drain, TypeOK
<1>2. CASE draining /\ drainCallbacks' = drainCallbacks - 1
            /\ UNCHANGED <<highQueue, normalQueue, running, immediateRunning,
                           immediateWaiting, draining, idCounter, highPrioritySeq, call>>
  <2>1. TypeOK'
    BY <1>2 DEF TypeOK, drain
  <2>2. MutualExclusion' /\ FlagsAgree'
    BY <1>2 DEF MutualExclusion, FlagsAgree
  <2>3. NoLostWakeup'
    BY <1>2 DEF NoLostWakeup, FlagsAgree, Busy
  <2> QED BY <2>1, <2>2, <2>3
<1> QED BY <1>1, <1>2 DEF drain

LEMMA NextInv == IndInv /\ [Next]_vars => IndInv'
<1> SUFFICES ASSUME IndInv, [Next]_vars PROVE IndInv'
  OBVIOUS
<1>1. CASE \E p \in Priority : enqueue(p)
  BY <1>1, EnqueueInv
<1>2. CASE \E c \in Calls : executeNow(c) \/ executeNowWakes(c) \/ executeNowReturns(c)
  BY <1>2, ExecuteNowInv, WakesInv, ReturnsInv
<1>3. CASE drain
  BY <1>3, DrainInv
<1>4. CASE itemSettles
  BY <1>4, DrainLoopInv DEF itemSettles, IndInv, TypeOK
<1>5. CASE UNCHANGED vars
  BY <1>5 DEF vars, IndInv, TypeOK, MutualExclusion, FlagsAgree, NoLostWakeup,
              HasPending, Busy
<1> QED BY <1>1, <1>2, <1>3, <1>4, <1>5 DEF Next

(* The state of the queue always has the shape the code gives it.          *)
THEOREM TypeCorrect == Spec => []TypeOK
<1>1. Spec => []IndInv
  BY InitInv, NextInv, PTL DEF Spec
<1> QED BY <1>1, PTL DEF IndInv

(* At most one operation executes at a time, whoever submitted it: the     *)
(* check-then-set of executeNow() and the drain loop exclude each other.   *)
THEOREM OneOperationAtATime == Spec => []MutualExclusion
<1>1. Spec => []IndInv
  BY InitInv, NextInv, PTL DEF Spec
<1> QED BY <1>1, PTL DEF IndInv

(* The flags by which the code decides tell who runs and who waits,        *)
(* `immediateWaiting` to the number, in every interleaving of the callers  *)
(* with the drain loop.                                                    *)
THEOREM FlagsTellTheTruth == Spec => []FlagsAgree
<1>1. Spec => []IndInv
  BY InitInv, NextInv, PTL DEF Spec
<1> QED BY <1>1, PTL DEF IndInv

(* The drain loop never goes to sleep on a pending item: a callback is     *)
(* scheduled or a waiting executeNow() caller will schedule one.           *)
THEOREM PendingItemsHaveAWaker == Spec => []NoLostWakeup
<1>1. Spec => []IndInv
  BY InitInv, NextInv, PTL DEF Spec
<1> QED BY <1>1, PTL DEF IndInv

-----------------------------------------------------------------------------

(* An executeNow() caller that keeps waiting sees no item start.           *)
LEMMA ReservationStep ==
  ASSUME IndInv, [Next]_vars, NEW c \in Calls, call[c] = "waiting", call'[c] = "waiting"
  PROVE  running' \in {running, NoItem}
<1>0. immediateWaiting > 0
  BY WaitingCount DEF IndInv
<1>1. ASSUME NEW n, DrainLoop(n) PROVE running' = NoItem
  BY <1>0, <1>1 DEF DrainLoop, HeldForImmediate
<1>2. CASE \E p \in Priority : enqueue(p)
  BY <1>2 DEF enqueue
<1>3. CASE \E d \in Calls : executeNow(d) \/ executeNowWakes(d) \/ executeNowReturns(d)
  BY <1>3 DEF executeNow, executeNowWakes, executeNowReturns, ExecuteAtOnce
<1>4. CASE drain
  BY <1>1, <1>4 DEF drain
<1>5. CASE itemSettles
  BY <1>1, <1>5 DEF itemSettles
<1>6. CASE UNCHANGED vars
  BY <1>6 DEF vars
<1> QED BY <1>2, <1>3, <1>4, <1>5, <1>6 DEF Next

(* executeNow() waits for the item that is running and for no item queued  *)
(* behind it: the reservation that `immediateWaiting` makes is honoured by *)
(* every way into the drain loop.                                          *)
THEOREM ImmediateCallsAreNotOvertaken == Spec => WaitsForCurrentItemOnly
<1>1. IndInv /\ [Next]_vars =>
        [(\E c \in Calls : call[c] = "waiting" /\ call'[c] = "waiting")
           => running' \in {running, NoItem}]_vars
  BY ReservationStep
<1>2. Spec => []IndInv
  BY InitInv, NextInv, PTL DEF Spec
<1> QED BY <1>1, <1>2, PTL DEF Spec, WaitsForCurrentItemOnly

-----------------------------------------------------------------------------

(* A queue holds items of its own priority, the oldest first, with ids up  *)
(* to the last one handed out.                                             *)
Sorted(q, p, last) ==
  \A i \in 1..Len(q) :
    /\ q[i].priority = p /\ q[i].id <= last
    /\ \A j \in 1..Len(q) : i < j => q[i].id < q[j].id

Ordered == Sorted(highQueue, "HIGH", idCounter) /\ Sorted(normalQueue, "NORMAL", idCounter)

(* enqueue() puts the new item, with a new id, behind the others.          *)
LEMMA AppendSorted ==
  ASSUME NEW q \in Seq(QueueItem), NEW p, NEW last \in Nat, Sorted(q, p, last),
         NEW item \in QueueItem, item.id = last + 1, item.priority = p
  PROVE  Sorted(Append(q, item), p, last + 1)
<1> DEFINE r == Append(q, item)
<1>1. /\ Len(r) = Len(q) + 1 /\ Len(q) \in Nat
      /\ r[Len(q) + 1] = item
      /\ \A i \in 1..Len(q) : r[i] = q[i] /\ q[i] \in QueueItem
  BY AppendProperties, LenProperties, ElementOfSeq
<1> HIDE DEF r
<1>2. \A i \in 1..Len(q) : q[i].id \in Nat /\ r[i] = q[i] /\ r[i].priority = p /\ r[i].id <= last
  BY <1>1 DEF Sorted, QueueItem
<1>3. r[Len(q) + 1].priority = p /\ r[Len(q) + 1].id = last + 1
  BY <1>1
<1>4. \A i, j \in 1..Len(q) : i < j => r[i].id < r[j].id
  BY <1>1 DEF Sorted
<1>5. \A i \in 1..Len(r) : i \in 1..Len(q) \/ i = Len(q) + 1
  BY <1>1
<1>6. \A i \in 1..Len(r) : r[i].priority = p /\ r[i].id <= last + 1
  BY <1>2, <1>3, <1>5
<1>7. ASSUME NEW i \in 1..Len(r), NEW j \in 1..Len(r), i < j PROVE r[i].id < r[j].id
  <2>1. i \in 1..Len(q)
    BY <1>1, <1>5, <1>7
  <2>2. CASE j \in 1..Len(q)
    BY <1>4, <1>7, <2>1, <2>2
  <2>3. CASE j = Len(q) + 1
    <3>1. r[i].id <= last /\ r[i].id \in Nat /\ r[j].id = last + 1
      BY <1>2, <1>3, <2>1, <2>3
    <3> QED BY <3>1
  <2> QED BY <1>5, <2>2, <2>3
<1>8. Sorted(r, p, last + 1)
  BY <1>6, <1>7 DEF Sorted
<1> QED BY <1>8 DEF r

(* Taking the head leaves a sorted queue, all of it younger than the head. *)
LEMMA TailSorted ==
  ASSUME NEW q \in Seq(QueueItem), NEW p, NEW last, Sorted(q, p, last), q # <<>>
  PROVE  /\ Sorted(Tail(q), p, last) /\ Head(q).priority = p
         /\ \A i \in 1..Len(Tail(q)) : Head(q).id < Tail(q)[i].id
<1>1. /\ Len(Tail(q)) = Len(q) - 1 /\ Len(q) \in Nat \ {0} /\ Head(q) = q[1]
      /\ \A i \in 1..Len(Tail(q)) : Tail(q)[i] = q[i + 1]
  BY HeadTailProperties, EmptySeq
<1> QED BY <1>1 DEF Sorted

LEMMA EnqueueOrdered ==
  ASSUME IndInv, Ordered, NEW p \in Priority, enqueue(p)
  PROVE  Ordered'
<1> DEFINE item == [id |-> idCounter + 1, priority |-> p]
<1>1. item \in QueueItem /\ item.id = idCounter + 1 /\ item.priority = p /\ idCounter \in Nat
  BY DEF IndInv, TypeOK, QueueItem
<1>2. highQueue \in Seq(QueueItem) /\ normalQueue \in Seq(QueueItem) /\ idCounter' = idCounter + 1
  BY DEF IndInv, TypeOK, enqueue
<1>3. \/ p = "HIGH" /\ highQueue' = Append(highQueue, item) /\ normalQueue' = normalQueue
      \/ p = "NORMAL" /\ normalQueue' = Append(normalQueue, item) /\ highQueue' = highQueue
  BY DEF enqueue, Priority
<1> HIDE DEF item
<1>4. \A q \in Seq(QueueItem) : \A r : Sorted(q, r, idCounter) => Sorted(q, r, idCounter + 1)
  <2> SUFFICES ASSUME NEW q \in Seq(QueueItem), NEW r, Sorted(q, r, idCounter)
               PROVE  Sorted(q, r, idCounter + 1)
    OBVIOUS
  <2>1. \A i \in 1..Len(q) : q[i] \in QueueItem
    BY ElementOfSeq
  <2>2. \A i \in 1..Len(q) : q[i].id \in Nat /\ q[i].id <= idCounter
    BY <2>1 DEF QueueItem, Sorted
  <2>3. \A i \in 1..Len(q) : q[i].id <= idCounter + 1
    BY <1>1, <2>2
  <2> QED BY <2>3 DEF Sorted
<1>5. CASE p = "HIGH"
  BY <1>1, <1>2, <1>3, <1>4, <1>5, AppendSorted DEF Ordered
<1>6. CASE p = "NORMAL"
  BY <1>1, <1>2, <1>3, <1>4, <1>6, AppendSorted DEF Ordered
<1> QED BY <1>5, <1>6 DEF Priority

(* What PriorityThenFifo says of one step.                                 *)
StartsOldest ==
  running' # running /\ running' # NoItem =>
    LET left == {highQueue'[i] : i \in DOMAIN highQueue'}
                  \cup {normalQueue'[i] : i \in DOMAIN normalQueue'}
    IN  \A item \in left :
          /\ item.priority = running'.priority => item.id > running'.id
          /\ item.priority = "HIGH" => running'.priority = "HIGH"

LEMMA TakeOrdered ==
  ASSUME IndInv, Ordered, HasPending, TakeNext, idCounter' = idCounter
  PROVE  Ordered' /\ StartsOldest
<1>1. highQueue \in Seq(QueueItem) /\ normalQueue \in Seq(QueueItem)
  BY DEF IndInv, TypeOK
<1>2. CASE highQueue # <<>>
  <2>1. running' = Head(highQueue) /\ highQueue' = Tail(highQueue) /\ normalQueue' = normalQueue
    BY <1>2 DEF TakeNext
  <2>2. /\ Sorted(highQueue', "HIGH", idCounter) /\ running'.priority = "HIGH"
        /\ \A i \in 1..Len(highQueue') : running'.id < highQueue'[i].id
    BY <1>1, <1>2, <2>1, TailSorted DEF Ordered
  <2>3. DOMAIN highQueue' = 1..Len(highQueue') /\ DOMAIN normalQueue' = 1..Len(normalQueue')
    BY <1>1, <1>2, <2>1, HeadTailProperties, LenProperties
  <2>4. \A i \in DOMAIN normalQueue' : normalQueue'[i].priority = "NORMAL"
    BY <2>1, <2>3 DEF Ordered, Sorted
  <2>5. highQueue' \in Seq(QueueItem) /\ running' \in QueueItem
    BY <1>1, <1>2, <2>1, HeadTailProperties
  <2>6. \A i \in DOMAIN highQueue' : highQueue'[i].id > running'.id
    <3>1. \A i \in 1..Len(highQueue') : highQueue'[i] \in QueueItem
      BY <2>5, ElementOfSeq
    <3> QED BY <2>2, <2>3, <2>5, <3>1 DEF QueueItem
  <2> QED BY <2>1, <2>2, <2>4, <2>6 DEF Ordered, StartsOldest
<1>3. CASE highQueue = <<>>
  <2>1. running' = Head(normalQueue) /\ normalQueue' = Tail(normalQueue) /\ highQueue' = highQueue
        /\ normalQueue # <<>>
    BY <1>3 DEF TakeNext, HasPending
  <2>2. /\ Sorted(normalQueue', "NORMAL", idCounter) /\ running'.priority = "NORMAL"
        /\ \A i \in 1..Len(normalQueue') : running'.id < normalQueue'[i].id
    BY <1>1, <2>1, TailSorted DEF Ordered
  <2>3. normalQueue' \in Seq(QueueItem) /\ running' \in QueueItem
    BY <1>1, <2>1, HeadTailProperties
  <2>4. DOMAIN highQueue' = {} /\ DOMAIN normalQueue' = 1..Len(normalQueue')
    BY <1>3, <2>1, <2>3, LenProperties
  <2>5. \A i \in DOMAIN normalQueue' : normalQueue'[i].id > running'.id /\ normalQueue'[i].priority = "NORMAL"
    <3>1. \A i \in 1..Len(normalQueue') : normalQueue'[i] \in QueueItem
      BY <2>3, ElementOfSeq
    <3>2. \A i \in 1..Len(normalQueue') : normalQueue'[i].priority = "NORMAL"
      BY <2>2 DEF Sorted
    <3> QED BY <2>2, <2>3, <2>4, <3>1, <3>2 DEF QueueItem
  <2> QED BY <2>1, <2>2, <2>4, <2>5 DEF Ordered, StartsOldest
<1> QED BY <1>2, <1>3

LEMMA StepOrdered ==
  ASSUME IndInv, Ordered, [Next]_vars
  PROVE  Ordered' /\ [StartsOldest]_vars
<1>1. ASSUME NEW n, DrainLoop(n) PROVE Ordered' /\ StartsOldest
  <2>1. CASE HasPending /\ TakeNext
    BY <1>1, <2>1, TakeOrdered DEF DrainLoop
  <2>2. CASE running' = NoItem /\ UNCHANGED queueVars
    BY <1>1, <2>2 DEF DrainLoop, queueVars, Ordered, Sorted, StartsOldest
  <2> QED BY <1>1, <2>1, <2>2 DEF DrainLoop
<1>2. ASSUME NEW p \in Priority, enqueue(p) PROVE Ordered' /\ StartsOldest
  BY <1>2, EnqueueOrdered DEF enqueue, StartsOldest
<1>3. ASSUME UNCHANGED <<highQueue, normalQueue, running, idCounter>> PROVE Ordered' /\ StartsOldest
  BY <1>3 DEF Ordered, Sorted, StartsOldest
<1>4. CASE \E c \in Calls : executeNow(c) \/ executeNowWakes(c) \/ executeNowReturns(c)
  BY <1>3, <1>4 DEF executeNow, executeNowWakes, executeNowReturns, ExecuteAtOnce
<1>5. CASE drain
  BY <1>1, <1>3, <1>5 DEF drain
<1>6. CASE itemSettles
  BY <1>1, <1>6 DEF itemSettles
<1>7. CASE UNCHANGED vars
  BY <1>3, <1>7 DEF vars
<1> QED BY <1>2, <1>4, <1>5, <1>6, <1>7 DEF Next

(* An item starts only when no HIGH item is left behind a NORMAL one and   *)
(* no older item of its own priority is left behind, however the calls of  *)
(* enqueue() fall between the passes of the drain loop.                    *)
THEOREM ItemsStartInOrder == Spec => PriorityThenFifo
<1>1. Init => Ordered
  BY DEF Init, Ordered, Sorted
<1>2. IndInv /\ Ordered /\ [Next]_vars => Ordered' /\ [StartsOldest]_vars
  BY StepOrdered
<1>3. Spec => []IndInv
  BY InitInv, NextInv, PTL DEF Spec
<1> QED BY <1>1, <1>2, <1>3, PTL DEF Spec, PriorityThenFifo, StartsOldest

-----------------------------------------------------------------------------

(* Nobody runs or waits when the drain loop is free to start an item.      *)
LEMMA FreeToDrain ==
  ASSUME IndInv, ~HeldForImmediate
  PROVE  \A c \in Calls : call[c] \notin {"waiting", "running"}
BY WaitingCount DEF IndInv, FlagsAgree, HeldForImmediate

LEMMA BusyIsNotIdle ==
  ASSUME IndInv
  PROVE  Busy <=> ~Serial!Idle
BY DEF IndInv, FlagsAgree, Busy, Serial!Idle

LEMMA DrainLoopRefines ==
  ASSUME IndInv, NEW n, DrainLoop(n)
  PROVE  \/ Serial!StartItem
         \/ running' = NoItem /\ UNCHANGED <<highQueue, normalQueue, call>>
<1>1. CASE HasPending /\ ~HeldForImmediate /\ TakeNext
  <2>1. \A c \in Calls : call[c] \notin {"waiting", "running"}
    BY <1>1, FreeToDrain
  <2>2. UNCHANGED call
    BY DEF DrainLoop
  <2> QED BY <1>1, <2>1, <2>2 DEF TakeNext, HasPending, Serial!StartItem
<1>2. CASE running' = NoItem /\ UNCHANGED queueVars
  BY <1>2 DEF DrainLoop, queueVars
<1> QED BY <1>1, <1>2 DEF DrainLoop

LEMMA StepRefines ==
  ASSUME IndInv, [Next]_vars
  PROVE  [Serial!Next]_(Serial!vars)
<1> USE DEF Serial!vars
<1>1. ASSUME NEW p \in Priority, enqueue(p) PROVE Serial!Submit
  <2> DEFINE item == [id |-> idCounter + 1, priority |-> p]
  <2>1. item \in [id : 1..MaxItems, priority : Priority]
    BY <1>1, MaxItemsAssumption DEF enqueue, IndInv, TypeOK
  <2>2. \/ item.priority = "HIGH" /\ highQueue' = Append(highQueue, item)
           /\ normalQueue' = normalQueue
        \/ item.priority = "NORMAL" /\ normalQueue' = Append(normalQueue, item)
           /\ highQueue' = highQueue
    BY <1>1 DEF enqueue, Priority
  <2>3. UNCHANGED <<running, call>>
    BY <1>1 DEF enqueue
  <2> HIDE DEF item
  <2> QED BY <2>1, <2>2, <2>3 DEF Serial!Submit
<1>2. ASSUME NEW c \in Calls, ExecuteAtOnce(c) PROVE Serial!BeginCall(c)
  BY <1>2, BusyIsNotIdle DEF ExecuteAtOnce, Serial!BeginCall
<1>3. ASSUME NEW c \in Calls, executeNow(c) PROVE Serial!BeginCall(c) \/ Serial!Request(c)
  BY <1>2, <1>3, BusyIsNotIdle DEF executeNow, Serial!Request
<1>4. ASSUME NEW c \in Calls, executeNowWakes(c) PROVE Serial!BeginCall(c)
  BY <1>2, <1>4 DEF executeNowWakes
<1>5. ASSUME NEW c \in Calls, executeNowReturns(c) PROVE Serial!EndCall(c)
  BY <1>5 DEF executeNowReturns, Serial!EndCall
<1>6. ASSUME drain
      PROVE  Serial!BeginItem \/ UNCHANGED <<highQueue, normalQueue, running, call>>
  <2>1. CASE ~draining /\ DrainLoop(drainCallbacks - 1)
    <3>1. running = NoItem
      BY <2>1 DEF IndInv, FlagsAgree
    <3> QED BY <2>1, <3>1, DrainLoopRefines DEF Serial!BeginItem
  <2>2. CASE UNCHANGED <<highQueue, normalQueue, running, call>>
    BY <2>2
  <2> QED BY <1>6, <2>1, <2>2 DEF drain
<1>7. ASSUME itemSettles PROVE Serial!NextItem \/ Serial!EndItem
  BY <1>7, DrainLoopRefines DEF itemSettles, Serial!NextItem, Serial!EndItem
<1>8. CASE UNCHANGED vars
  BY <1>8 DEF vars
<1>9. CASE \E p \in Priority : enqueue(p)
  BY <1>1, <1>9 DEF Serial!Next
<1>10. CASE \E c \in Calls : executeNow(c) \/ executeNowWakes(c) \/ executeNowReturns(c)
  BY <1>3, <1>4, <1>5, <1>10 DEF Serial!Next
<1>11. CASE drain \/ itemSettles
  BY <1>6, <1>7, <1>11 DEF Serial!Next
<1> QED BY <1>8, <1>9, <1>10, <1>11 DEF Next

(* The queue of queue.ts, with its flags and drain callbacks, does nothing *)
(* that the serial executor could not do.                                  *)
THEOREM QueueImplementsSerialExecutor == Spec => Serial!Safety
<1>1. Init => Serial!Init
  BY DEF Init, Serial!Init
<1>2. IndInv /\ [Next]_vars => [Serial!Next]_(Serial!vars)
  BY StepRefines
<1>3. Spec => []IndInv
  BY InitInv, NextInv, PTL DEF Spec
<1> QED BY <1>1, <1>2, <1>3, PTL DEF Spec, Serial!Safety
=============================================================================
