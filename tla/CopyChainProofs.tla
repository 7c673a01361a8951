-------------------------- MODULE CopyChainProofs --------------------------
(***************************************************************************)
(* Every step of the shape that ExecutorShapes defines keeps the inductive *)
(* invariant, and what else follows from the shape alone.                  *)
(***************************************************************************)
EXTENDS ExecutorShapes, TLAPS


(* drain() takes an item of the queue that has one.                        *)
LEMMA NextItemFits ==
  ASSUME QueuesOK, TakeNext
  PROVE  NextItem \in HighItem \cup NormalItem /\ TakenFrom
<1>1. CASE high # <<>>
  <2>1. Head(high \o normal) = Head(high) /\ Head(high) \in HighItem /\ Tail(high) \in Seq(HighItem)
    BY <1>1 DEF QueuesOK
  <2> QED
    BY <1>1, <2>1, Zenon DEF TakeNext, NextItem, TakenFrom, QueuesOK
<1>2. CASE high = <<>>
  <2>1. normal # <<>> /\ Head(high \o normal) = Head(normal) /\ Head(normal) \in NormalItem /\ Tail(normal) \in Seq(NormalItem)
    BY <1>2 DEF QueuesOK, TakeNext
  <2> QED
    BY <1>2, <2>1, Zenon DEF TakeNext, NextItem, TakenFrom, QueuesOK
<1> QED
  BY <1>1, <1>2, Zenon

(* Every step is one of those the next lemmas are about.                   *)
LEMMA StepHasShape ==
  ASSUME Inv, StepShape
  PROVE  NextShape
<1>1. ASSUME NEW t \in Targets, TargetOpens(t) \/ TargetIncreases(t) \/ TargetDecreases(t)
                                \/ TargetCollects(t) \/ TargetCloses(t)
      PROVE  TargetMoves
  <2>1. target[t] \in [on : {"none", "open", "closed"}, liq : Liq]
    BY Zenon DEF Inv, ChainTypeOK
  <2>2. \E now \in [on : {"open", "closed"}, liq : Liq], kind \in HighKinds : TargetActs(t, now, kind)
    <3>1. CASE TargetOpens(t)
      BY <3>1 DEF TargetOpens, HighKinds, Liq
    <3>2. CASE TargetIncreases(t)
      BY <3>2 DEF TargetIncreases, HighKinds, Liq
    <3>3. CASE TargetDecreases(t)
      BY <3>3 DEF TargetDecreases, HighKinds, Liq
    <3>4. CASE TargetCollects(t)
      BY <2>1, <3>4 DEF TargetCollects, HighKinds
    <3>5. CASE TargetCloses(t)
      BY <3>5, ChainAssumption DEF TargetCloses, HighKinds, Liq
    <3> QED
      BY <1>1, <3>1, <3>2, <3>3, <3>4, <3>5, Zenon
  <2> QED
    BY <2>2, Zenon DEF TargetMoves
<1>2. ASSUME scenario.dex = "dammv2", NEW t \in Targets, target[t].on = "open", TargetActs(t, target[t], "fees")
      PROVE  TargetMoves
  <2>1. target[t] \in [on : {"open", "closed"}, liq : Liq] /\ "fees" \in HighKinds
    BY <1>2, Zenon DEF Inv, ChainTypeOK, HighKinds
  <2> QED
    BY <1>2, <2>1, Zenon DEF TargetMoves
<1>3. ASSUME TakeNext, NextItem \in HighItem \cup NormalItem => Began
      PROVE  Begins
  <2>1. NextItem \in HighItem \cup NormalItem /\ TakenFrom
    BY <1>3, NextItemFits, Zenon DEF Inv
  <2> QED
    BY <1>3, <2>1, Zenon DEF Begins, TakeNext, counts
<1>4. ASSUME TakeFromDashboard, Began
      PROVE  Begins
  <2>1. TakenFrom
    BY <1>4, Zenon DEF TakeFromDashboard, queues, TakenFrom, Inv, QueuesOK, HighItem, HighKinds, NormalItem, NormalKind
  <2> QED
    BY <1>4, <2>1, Zenon DEF Begins, TakeFromDashboard
<1> QED
  BY <1>1, <1>2, <1>3, <1>4, Zenon DEF StepShape, TargetStep, NextShape

-----------------------------------------------------------------------------
(* The invariant, step by step.                                            *)
OpInv == OpOK /\ EntriesOK /\ WorksOnEntry /\ ClosedByClose /\ LandedIsThere

LEMMA InitInv == Init => Inv
<1> SUFFICES ASSUME Init PROVE Inv
  OBVIOUS
<1>1. ChainTypeOK
  BY ChainAssumption DEF Init, ChainTypeOK, Liq, IsScenario
<1>2. QueuesOK
  BY DEF Init, QueuesOK
<1> QED
  BY <1>1, <1>2, Zenon DEF Init, Inv, OpOK, EntriesOK, WorksOnEntry, ClosedByClose, LandedIsThere

(* What the operations rely on is of the operation, the mapping and our    *)
(* positions.                                                              *)
LEMMA OpFieldsNext ==
  ASSUME UNCHANGED scenario
  PROVE  OpFields(op)' <=> OpFields(op')
  BY Zenon DEF OpFields, Sent, InParts

LEMMA OpInvFrame ==
  ASSUME OpInv, UNCHANGED <<scenario, pos, map, op, loose>>
  PROVE  OpInv'
  BY OpFieldsNext, Zenon DEF OpInv, OpOK, EntriesOK, WorksOnEntry, Saved, ClosedByClose, LandedIsThere

LEMMA ScenarioFits ==
  ASSUME ChainTypeOK
  PROVE  scenario.faults \in Nat /\ scenario.events \in Nat /\ scenario.userOps \in Nat
  BY ChainAssumption, Zenon DEF ChainTypeOK, IsScenario

(* An item of a target's event, or of what a scan found, is one of the     *)
(* queue's.                                                                *)
LEMMA ItemsFit ==
  ASSUME high' \in Seq(HighItem), normal' \in Seq(NormalItem), UNCHANGED scenario
  PROVE  QueuesOK' /\ high' \in Seq(Item) /\ normal' \in Seq(Item)
<1>1. HighItem \subseteq Item /\ NormalItem \subseteq Item
  BY Zenon DEF HighItem, NormalItem, HighKinds, NormalKind, Item, OpKind
<1>2. HighItem' = HighItem /\ NormalItem' = NormalItem
  BY Zenon DEF HighItem, HighKinds, NormalItem, NormalKind
<1> QED
  BY <1>1, <1>2 DEF QueuesOK

LEMMA TargetKeepsInv ==
  ASSUME Inv, UNCHANGED scenario, TargetMoves
  PROVE  Inv'
<1> PICK t \in Targets, now \in [on : {"open", "closed"}, liq : Liq], kind \in HighKinds : TargetActs(t, now, kind)
  BY Zenon DEF TargetMoves
<1>1. OpInv'
  BY OpInvFrame, Zenon DEF TargetActs, Inv, OpInv
<1>2. high' \in Seq(HighItem) /\ normal' \in Seq(NormalItem)
  <2> DEFINE item == [kind |-> kind, key |-> t, nft |-> None]
  <2>1. item \in HighItem
    BY Zenon DEF HighItem
  <2>2. (high' = high \/ high' = Append(high, item)) /\ normal' = normal
    BY Zenon DEF TargetActs
  <2> HIDE DEF item
  <2> QED
    BY <2>1, <2>2 DEF Inv, QueuesOK
<1>3. QueuesOK' /\ high' \in Seq(Item) /\ normal' \in Seq(Item)
  BY <1>2, ItemsFit, Zenon
<1>4. ChainTypeOK'
  <2>1. target' \in [Targets -> [on : {"none", "open", "closed"}, liq : Liq]]
    BY Zenon DEF TargetActs, Inv, ChainTypeOK
  <2>2. peak' \in [Targets -> Liq]
    BY Zenon DEF TargetActs, Inv, ChainTypeOK
  <2>3. events' \in 0..scenario.events /\ faults' \in 0..scenario.faults
    BY ScenarioFits DEF TargetActs, NoFault, Fault, Inv, ChainTypeOK
  <2> QED
    BY <1>3, <2>1, <2>2, <2>3, Zenon DEF TargetActs, scans, Inv, ChainTypeOK
<1> QED
  BY <1>1, <1>3, <1>4, Zenon DEF Inv, OpInv

(* What happens to our positions on chain: they come into being and are    *)
(* closed, and remain copies of the same targets.                          *)
Position == [on : {"unused", "minted", "open", "closed"}, liq : Nat, copy : Targets \cup {None}]

Evolves ==
  /\ pos' \in [Nfts -> Position]
  /\ \A n \in Nfts :
       /\ pos'[n].copy = pos[n].copy
       /\ pos[n].on # "unused" => pos'[n].on # "unused"
       /\ pos[n].on \in {"open", "closed"} => pos'[n].on \in {"open", "closed"}
       /\ pos[n].on = "closed" => pos'[n].on = "closed"

(* A transaction that fits opens its position, closes it, or leaves it     *)
(* open with more or less liquidity; nothing else changes.                 *)
LEMMA ExecutedForm ==
  ASSUME pos \in [Nfts -> Position], NEW tx \in Tx, Fits(tx)
  PROVE  /\ Executed(tx) \in [Nfts -> Position] /\ Paid(tx) \in Nat
         /\ \A n \in Nfts : Executed(tx)[n].copy = pos[n].copy /\ (n # tx.nft => Executed(tx)[n] = pos[n])
         /\ Executed(tx)[tx.nft].on = IF tx.kind \in {"close", "closeAll"} THEN "closed" ELSE "open"
         /\ pos[tx.nft].on = IF tx.kind = "open" THEN "minted" ELSE "open"
<1>1. tx.kind \in TxKind /\ tx.nft \in Nfts /\ tx.liq \in Nat
  BY Zenon DEF Tx
<1>2. pos[tx.nft].liq \in Nat
  BY <1>1, Zenon DEF Position
<1>3. CASE tx.kind = "open"
  BY <1>1, <1>2, <1>3 DEF Position, Fits, Executed, Paid
<1>4. CASE tx.kind = "increase"
  BY <1>1, <1>2, <1>4 DEF Position, Fits, Executed, Paid, OnChain
<1>5. CASE tx.kind = "decrease"
  BY <1>1, <1>2, <1>5 DEF Position, Fits, Executed, Paid, OnChain
<1>6. CASE tx.kind = "removeAll"
  BY <1>1, <1>2, <1>6, Zenon DEF Position, Fits, Executed, Paid, OnChain
<1>7. CASE tx.kind \in {"close", "closeAll"}
  BY <1>1, <1>2, <1>7, Zenon DEF Position, Fits, Executed, Paid, OnChain
<1> QED
  BY <1>1, <1>3, <1>4, <1>5, <1>6, <1>7, Zenon DEF TxKind

LEMMA ExecutedEvolves ==
  ASSUME pos \in [Nfts -> Position], NEW tx \in Tx, Fits(tx), pos' = Executed(tx)
  PROVE  Evolves
<1>1. tx.nft \in Nfts
  BY Zenon DEF Tx
<1> QED
  BY <1>1, ExecutedForm, Zenon DEF Evolves

(* The operation learns what has become of its transaction.                *)
LEMMA LandsOp ==
  ASSUME op \in Op, NEW st \in {"landed", "reverted", "expired"}, NEW got \in Nat,
         op' = [op EXCEPT !.st = st, !.got = got]
  PROVE  /\ op' \in Op /\ op'.st = st /\ op'.got = got
         /\ op'.kind = op.kind /\ op'.key = op.key /\ op'.nft = op.nft /\ op'.pc = op.pc
         /\ op'.amount = op.amount /\ op'.stored = op.stored /\ op'.tx = op.tx
  BY Zenon DEF Op

LEMMA FailsOp ==
  ASSUME op \in Op, NEW st \in {"landed", "reverted", "expired"}, op' = [op EXCEPT !.st = st]
  PROVE  /\ op' \in Op /\ op'.st = st /\ op'.got = op.got
         /\ op'.kind = op.kind /\ op'.key = op.key /\ op'.nft = op.nft /\ op'.pc = op.pc
         /\ op'.amount = op.amount /\ op'.stored = op.stored /\ op'.tx = op.tx
  BY Zenon DEF Op

(* A chain step leaves the entries in order, and what the operations       *)
(* rely on if the operation is not the one that waited.                    *)
LEMMA EvolvesKeeps ==
  ASSUME Inv, UNCHANGED <<scenario, map>>, Evolves
  PROVE  /\ EntriesOK'
         /\ UNCHANGED op /\ loose <= loose' /\ loose' \in Nat => OpInv'
<1>1. EntriesOK'
  <2> SUFFICES ASSUME NEW t \in Targets, map[t] # None
               PROVE  /\ pos'[map[t].nft].copy = t /\ pos'[map[t].nft].on \in {"minted", "open", "closed"}
                      /\ scenario.dex # "pancakeswap" => pos'[map[t].nft].on # "minted"
    BY Zenon DEF EntriesOK
  <2>1. map[t].nft \in Nfts
    BY Zenon DEF Inv, ChainTypeOK, Entry
  <2>2. pos'[map[t].nft].on \in {"unused", "minted", "open", "closed"}
    BY <2>1, Zenon DEF Evolves, Position
  <2> QED
    BY <2>1, <2>2, Zenon DEF Inv, EntriesOK, Evolves
<1>2. ASSUME UNCHANGED op, loose <= loose', loose' \in Nat
      PROVE  OpOK' /\ WorksOnEntry' /\ ClosedByClose' /\ LandedIsThere'
  <2>1. op # None => op.nft \in Nfts \cup {None} /\ op.got \in Nat /\ (op.st = "landed" => op.nft \in Nfts)
                     /\ (op.kind # "open" => op.nft \in Nfts)
    BY Zenon DEF Inv, OpOK, OpFields, Op, Tx
  <2>2. OpOK'
    BY <1>2, <2>1, OpFieldsNext DEF Inv, OpOK, ChainTypeOK
  <2>3. WorksOnEntry'
    BY <1>2, <2>1, Zenon DEF Inv, WorksOnEntry, Saved, Evolves
  <2>4. ClosedByClose' /\ LandedIsThere'
    BY <1>2, <2>1, Zenon DEF Inv, ClosedByClose, LandedIsThere, Evolves
  <2> QED
    BY <2>2, <2>3, <2>4, Zenon
<1> QED
  BY <1>1, <1>2, Zenon DEF OpInv

(* The operation that waits for its transaction, when the chain answers.   *)
Answered(st) ==
  /\ op' \in Op /\ op'.st = st
  /\ op'.kind = op.kind /\ op'.key = op.key /\ op'.nft = op.nft /\ op'.pc = op.pc
  /\ op'.amount = op.amount /\ op'.stored = op.stored /\ op'.tx = op.tx

LEMMA AnsweredKeeps ==
  ASSUME Inv, Flying, UNCHANGED <<scenario, map>>, Evolves \/ UNCHANGED pos,
         NEW st \in {"landed", "reverted", "expired"}, Answered(st), op'.got <= loose'
  PROVE  OpOK' /\ WorksOnEntry'
<1>1. op # None /\ op.st # "none" /\ op'.st # "none" /\ op.nft \in Nfts
  BY Zenon DEF Inv, Flying, OpOK, OpFields, Tx, Answered
<1>2. OpFields(op)'
  <2>1. OpFields(op')
    BY <1>1, Zenon DEF Inv, OpOK, OpFields, Sent, Answered
  <2> QED
    BY <2>1, OpFieldsNext, Zenon
<1>3. WorksOnEntry'
  BY <1>1, Zenon DEF Inv, WorksOnEntry, Saved, Evolves, Answered
<1> QED
  BY <1>2, <1>3, Zenon DEF OpOK

LEMMA LandsKeepsInv ==
  ASSUME Inv, UNCHANGED scenario, Lands
  PROVE  Inv'
<1>1. op # None /\ op \in Op /\ op.st = "flying" /\ op.tx \in Tx /\ op.tx.nft = op.nft /\ op.nft \in Nfts
      /\ op.got \in Nat /\ op.got <= loose /\ loose \in Nat /\ pos \in [Nfts -> Position]
  BY Zenon DEF Lands, Flying, Inv, OpOK, OpFields, Op, Tx, ChainTypeOK, Position
<1>2. CASE Fits(op.tx)
  <2>1. pos' = Executed(op.tx) /\ loose' = loose + Paid(op.tx) /\ Paid(op.tx) \in Nat /\ Evolves
    BY <1>1, <1>2, ExecutedForm, ExecutedEvolves, Zenon DEF Lands
  <2>2. Answered("landed") /\ op'.got = Paid(op.tx)
    <3>1. op' = [op EXCEPT !.st = "landed", !.got = Paid(op.tx)]
      BY <1>2, Zenon DEF Lands
    <3> QED
      BY <1>1, <2>1, <3>1, LandsOp, Zenon DEF Answered
  <2>3. pos'[op.nft].on = IF op.tx.kind \in {"close", "closeAll"} THEN "closed" ELSE "open"
    BY <1>1, <1>2, <2>1, ExecutedForm, Zenon
  <2>4. EntriesOK'
    BY <2>1, EvolvesKeeps, Zenon DEF Lands
  <2>5. OpOK' /\ WorksOnEntry'
    BY <1>1, <2>1, <2>2, AnsweredKeeps DEF Lands
  <2>6. ClosedByClose' /\ LandedIsThere'
    BY <2>2, <2>3, Zenon DEF ClosedByClose, LandedIsThere, Answered
  <2>7. ChainTypeOK'
    <3>1. pos' \in [Nfts -> Position] /\ op' \in Op /\ loose' \in Nat
      BY <1>1, <2>1, <2>2 DEF Evolves, Answered
    <3> QED
      BY <3>1, Zenon DEF Lands, Inv, ChainTypeOK, Position, queues, scans, counts
  <2>8. QueuesOK'
    BY Zenon DEF Lands, Inv, QueuesOK, queues, HighItem, HighKinds, NormalItem, NormalKind
  <2> QED
    BY <2>4, <2>5, <2>6, <2>7, <2>8, Zenon DEF Inv
<1>3. CASE ~Fits(op.tx)
  <2>1. UNCHANGED <<pos, loose>> /\ op' = [op EXCEPT !.st = "reverted"]
    BY <1>3, Zenon DEF Lands
  <2>2. Answered("reverted") /\ op'.got = op.got
    BY <1>1, <2>1, FailsOp, Zenon DEF Answered
  <2>3. OpOK' /\ WorksOnEntry'
    BY <1>1, <2>1, <2>2, AnsweredKeeps, Zenon DEF Lands
  <2>4. EntriesOK' /\ ClosedByClose' /\ LandedIsThere'
    BY <2>1, <2>2, Zenon DEF Lands, Inv, EntriesOK, ClosedByClose, LandedIsThere, Answered
  <2>5. ChainTypeOK'
    BY <2>1, <2>2, Zenon DEF Lands, Inv, ChainTypeOK, Answered, queues, scans, counts
  <2>6. QueuesOK'
    BY Zenon DEF Lands, Inv, QueuesOK, queues, HighItem, HighKinds, NormalItem, NormalKind
  <2> QED
    BY <2>3, <2>4, <2>5, <2>6, Zenon DEF Inv
<1> QED
  BY <1>2, <1>3, Zenon

LEMMA QueuesFrame ==
  ASSUME QueuesOK, UNCHANGED <<scenario, high, normal>>
  PROVE  QueuesOK'
  BY Zenon DEF QueuesOK, HighItem, HighKinds, NormalItem, NormalKind

(* The transactions that are left when one of them is done.                *)
LEMMA WithoutFits ==
  ASSUME NEW S, NEW s \in Seq(S), NEW i \in DOMAIN s
  PROVE  Without(s, i) \in Seq(S)
<1>1. i \in 1..Len(s) /\ Len(s) \in Nat
  OBVIOUS
<1>2. SubSeq(s, 1, i - 1) \in Seq(S)
  BY <1>1
<1>3. SubSeq(s, i + 1, Len(s)) \in Seq(S)
  BY <1>1
<1> QED
  BY <1>2, <1>3 DEF Without

LEMMA LateKeepsInv ==
  ASSUME Inv, UNCHANGED scenario, LateLands
  PROVE  Inv'
<1>1. PICK i \in DOMAIN late :
        /\ late' = Without(late, i)
        /\ IF Fits(late[i]) THEN pos' = Executed(late[i]) /\ loose' = loose + Paid(late[i])
                            ELSE UNCHANGED <<pos, loose>>
  BY Zenon DEF LateLands
<1>2. late \in Seq(Tx) /\ late[i] \in Tx /\ loose \in Nat /\ pos \in [Nfts -> Position]
  BY DEF Inv, ChainTypeOK, Position
<1>3. late' \in Seq(Tx)
  BY <1>1, <1>2, WithoutFits, Zenon
<1>4. QueuesOK'
  BY QueuesFrame, Zenon DEF LateLands, queues, Inv
<1>5. OpInv' /\ loose' \in Nat /\ pos' \in [Nfts -> Position]
  <2>1. CASE Fits(late[i])
    <3>1. Evolves /\ Paid(late[i]) \in Nat /\ pos' = Executed(late[i]) /\ loose' = loose + Paid(late[i])
      BY <1>1, <1>2, <2>1, ExecutedForm, ExecutedEvolves, Zenon
    <3>2. loose <= loose' /\ loose' \in Nat
      BY <1>2, <3>1
    <3> QED
      BY <3>1, <3>2, EvolvesKeeps, Zenon DEF LateLands, Evolves
  <2>2. CASE ~Fits(late[i])
    BY <1>1, <1>2, <2>2, OpInvFrame, Zenon DEF LateLands, Inv, OpInv
  <2> QED
    BY <2>1, <2>2, Zenon
<1>6. ChainTypeOK'
  BY <1>3, <1>5, Zenon DEF LateLands, Inv, ChainTypeOK, Position, queues, scans, counts
<1> QED
  BY <1>4, <1>5, <1>6, Zenon DEF Inv, OpInv

LEMMA ExpiresKeepsInv ==
  ASSUME Inv, UNCHANGED scenario, Expires
  PROVE  Inv'
<1>1. faults' \in 0..scenario.faults
  BY ScenarioFits DEF Expires, Fault, Inv, ChainTypeOK
<1>2. QueuesOK'
  BY QueuesFrame, Zenon DEF Expires, queues, Inv
<1>3. CASE Flying /\ op' = [op EXCEPT !.st = "expired"] /\ UNCHANGED late
  <2>1. op \in Op /\ op # None /\ op.got <= loose
    BY <1>3, Zenon DEF Flying, Inv, OpOK, OpFields
  <2>2. Answered("expired") /\ op'.got = op.got
    BY <1>3, <2>1, FailsOp, Zenon DEF Answered
  <2>3. OpOK' /\ WorksOnEntry'
    BY <1>3, <2>1, <2>2, AnsweredKeeps, Zenon DEF Expires
  <2>4. EntriesOK' /\ ClosedByClose' /\ LandedIsThere'
    BY <2>2, Zenon DEF Expires, Inv, EntriesOK, ClosedByClose, LandedIsThere, Answered
  <2>5. ChainTypeOK'
    BY <1>1, <1>3, <2>2, Zenon DEF Expires, Inv, ChainTypeOK, Answered, queues, scans
  <2> QED
    BY <1>2, <2>3, <2>4, <2>5, Zenon DEF Inv
<1>4. CASE UNCHANGED op /\ \E i \in DOMAIN late : late' = Without(late, i)
  <2>1. OpInv'
    BY <1>4, OpInvFrame, Zenon DEF Expires, Inv, OpInv
  <2>2. late' \in Seq(Tx)
    BY <1>4, WithoutFits DEF Inv, ChainTypeOK
  <2>3. ChainTypeOK'
    BY <1>1, <1>4, <2>2, Zenon DEF Expires, Inv, ChainTypeOK, queues, scans
  <2> QED
    BY <1>2, <2>1, <2>3, Zenon DEF Inv, OpInv
<1> QED
  BY <1>3, <1>4, Zenon DEF Expires

(* A scan reads; it may remove an entry.                                   *)
LEMMA ScanStartKeepsInv ==
  ASSUME Inv, UNCHANGED scenario, ScanStarts
  PROVE  Inv'
<1>1. OpInv'
  BY OpInvFrame, Zenon DEF ScanStarts, world, Inv, OpInv
<1>2. QueuesOK'
  BY QueuesFrame, Zenon DEF ScanStarts, queues, Inv
<1>3. scan' \in Scan
  BY DEF ScanStarts, Scan, Inv, ChainTypeOK, Entry
<1>4. ChainTypeOK'
  BY <1>3, Zenon DEF ScanStarts, world, queues, counts, Inv, ChainTypeOK
<1> QED
  BY <1>1, <1>2, <1>4, Zenon DEF Inv, OpInv

LEMMA DeletionKeeps ==
  ASSUME Inv, UNCHANGED <<scenario, pos, op, loose>>, NEW t \in Targets, DeleteMapping(t)
  PROVE  OpInv' /\ map' \in [Targets -> Entry \cup {None}]
<1>1. map \in [Targets -> Entry \cup {None}]
  BY Zenon DEF Inv, ChainTypeOK
<1>2. \A u \in Targets : map'[u] # None => map'[u] = map[u]
  BY <1>1, Zenon DEF DeleteMapping
<1>3. map' \in [Targets -> Entry \cup {None}]
  BY <1>1, Zenon DEF DeleteMapping
<1>4. EntriesOK'
  BY <1>2, Zenon DEF Inv, EntriesOK
<1>5. op # None => op.key \in Targets /\ OpFields(op)
  BY Zenon DEF Inv, OpOK, OpFields, Op
<1>6. WorksOnEntry'
  BY <1>2, <1>5, Zenon DEF Inv, WorksOnEntry, Saved
<1>7. OpOK' /\ ClosedByClose' /\ LandedIsThere'
  BY OpFieldsNext, Zenon DEF Inv, OpOK, ClosedByClose, LandedIsThere
<1> QED
  BY <1>3, <1>4, <1>6, <1>7, Zenon DEF OpInv

LEMMA ScanCheckKeepsInv ==
  ASSUME Inv, UNCHANGED scenario, ScanChecks
  PROVE  Inv'
<1>1. scan \in Scan /\ FaultStep /\ UNCHANGED <<world, queues, op, events, userOps>>
  BY Zenon DEF ScanChecks, Inv, ChainTypeOK
<1>2. PICK e \in scan.todo :
        /\ \E found \in {scan.orphans, scan.orphans \cup {e[1]}} :
             scan' = [todo |-> scan.todo \ {e}, orphans |-> found]
        /\ \/ UNCHANGED <<map, displaced>>
           \/ /\ ~OnChain(e[2]) /\ DeleteMapping(e[1])
              /\ displaced' = displaced \cup (EntryOf(e[1]) \ {e[2]})
  BY Zenon DEF ScanChecks
<1>3. e[1] \in Targets
  BY <1>1, Zenon DEF Scan
<1>4. scan' \in Scan
  BY <1>1, <1>2, <1>3 DEF Scan
<1>5. faults' \in 0..scenario.faults
  BY <1>1, ScenarioFits DEF FaultStep, Inv, ChainTypeOK
<1>6. QueuesOK'
  BY <1>1, QueuesFrame, Zenon DEF queues, Inv
<1>7. OpInv' /\ map' \in [Targets -> Entry \cup {None}] /\ displaced' \subseteq Nfts
  <2>1. CASE UNCHANGED <<map, displaced>>
    BY <1>1, <2>1, OpInvFrame, Zenon DEF world, Inv, OpInv, ChainTypeOK
  <2>2. CASE DeleteMapping(e[1]) /\ displaced' = displaced \cup (EntryOf(e[1]) \ {e[2]})
    <3>1. EntryOf(e[1]) \subseteq Nfts
      BY <1>3, Zenon DEF EntryOf, Inv, ChainTypeOK, Entry
    <3>2. displaced' \subseteq Nfts
      BY <2>2, <3>1, Zenon DEF Inv, ChainTypeOK
    <3> QED
      BY <1>1, <1>3, <2>2, <3>2, DeletionKeeps, Zenon DEF world
  <2> QED
    BY <1>2, <2>1, <2>2, Zenon
<1>8. ChainTypeOK'
  BY <1>1, <1>4, <1>5, <1>7, Zenon DEF world, queues, Inv, ChainTypeOK
<1> QED
  BY <1>6, <1>7, <1>8, Zenon DEF Inv, OpInv

(* What the scan found goes to the NORMAL queue.                           *)
LEMMA QueueOrphansKeepsInv ==
  ASSUME Inv, UNCHANGED scenario, QueueOrphans(NormalKind), Cardinality(scan.orphans) \in Nat
  PROVE  Inv'
<1>1. scan \in Scan /\ UNCHANGED <<world, map, displaced, high, op, counts>> /\ scan' = None
  BY Zenon DEF QueueOrphans, Inv, ChainTypeOK
<1>2. PICK order \in [1..Cardinality(scan.orphans) -> scan.orphans] :
        normal' = normal \o [i \in DOMAIN order |-> [kind |-> NormalKind, key |-> order[i], nft |-> None]]
  BY Zenon DEF QueueOrphans
<1>4. [i \in DOMAIN order |-> [kind |-> NormalKind, key |-> order[i], nft |-> None]] \in Seq(NormalItem)
  <2> DEFINE n == Cardinality(scan.orphans)
             items == [i \in DOMAIN order |-> [kind |-> NormalKind, key |-> order[i], nft |-> None]]
  <2>1. DOMAIN order = 1..n /\ \A i \in 1..n : order[i] \in Targets
    BY <1>1, Zenon DEF Scan
  <2>2. items \in [1..n -> NormalItem]
    BY <2>1, Zenon DEF NormalItem
  <2> HIDE DEF items, n
  <2>3. n \in Nat
    BY Zenon DEF n
  <2>4. items \in Seq(NormalItem)
    BY <2>2, <2>3
  <2> QED
    BY <2>4, Zenon DEF items
<1>5. high' \in Seq(HighItem) /\ normal' \in Seq(NormalItem)
  BY <1>1, <1>2, <1>4 DEF Inv, QueuesOK
<1>6. QueuesOK' /\ high' \in Seq(Item) /\ normal' \in Seq(Item)
  BY <1>5, ItemsFit, Zenon
<1>7. OpInv'
  BY <1>1, OpInvFrame, Zenon DEF world, Inv, OpInv
<1>8. ChainTypeOK'
  BY <1>1, <1>6, Zenon DEF world, counts, Inv, ChainTypeOK
<1> QED
  BY <1>6, <1>7, <1>8, Zenon DEF Inv, OpInv

LEMMA CrashKeepsInv ==
  ASSUME Inv, UNCHANGED scenario, Crash
  PROVE  Inv'
<1>1. faults' \in 0..scenario.faults
  BY ScenarioFits DEF Crash, Fault, Inv, ChainTypeOK
<1>2. late' \in Seq(Tx)
  <2>1. Flying => op.tx \in Tx
    BY Zenon DEF Flying, Inv, OpOK, OpFields
  <2> QED
    BY <2>1 DEF Crash, Inv, ChainTypeOK
<1>3. ChainTypeOK'
  BY <1>1, <1>2 DEF Crash, Inv, ChainTypeOK
<1>4. QueuesOK'
  BY DEF Crash, QueuesOK
<1>5. OpInv'
  BY Zenon DEF Crash, Inv, OpInv, OpOK, EntriesOK, WorksOnEntry, ClosedByClose, LandedIsThere
<1> QED
  BY <1>3, <1>4, <1>5, Zenon DEF Inv, OpInv

(* An entry refers to a position of ours that copies its target.           *)
LEMMA EntriesFit ==
  ASSUME Inv
  PROVE  \A t \in Targets : map[t] # None =>
           map[t].nft \in Nfts /\ pos[map[t].nft].copy = t /\ pos[map[t].nft].on # "unused"
<1> SUFFICES ASSUME NEW t \in Targets, map[t] # None
             PROVE  map[t].nft \in Nfts /\ pos[map[t].nft].copy = t /\ pos[map[t].nft].on # "unused"
  OBVIOUS
<1>1. map[t].nft \in Nfts
  BY Zenon DEF Inv, ChainTypeOK, Entry
<1>2. pos[map[t].nft].copy = t /\ pos[map[t].nft].on \in {"minted", "open", "closed"}
  BY Zenon DEF Inv, EntriesOK
<1> QED
  BY <1>1, <1>2, Zenon

(* An operation that begins works on the entry of its target, or finds     *)
(* none if it is an open.                                                  *)
LEMMA BeginsKeepsInv ==
  ASSUME Inv, UNCHANGED scenario, Begins
  PROVE  Inv'
<1>1. \A t \in Targets : map[t] # None =>
        map[t].nft \in Nfts /\ pos[map[t].nft].copy = t /\ pos[map[t].nft].on # "unused"
  BY EntriesFit, Zenon
<1>2. ASSUME NEW kind \in OpKind \ {"fees"}, NEW t \in Targets, NEW n \in Nfts \cup {None}, NEW pc \in {"read", "send"},
             op' = Running(kind, t, n, pc), kind # "open" => n \in Nfts, pc = "read" \/ kind # "open",
             kind = "manualClose" => scenario.dex = "pancakeswap"
      PROVE  /\ op' \in Op /\ OpFields(op') /\ op'.got = 0 /\ op'.st = "none" /\ op'.pc \in {"read", "send"}
             /\ op'.kind = kind /\ op'.key = t /\ op'.nft = n
  <2>1. /\ op' \in Op /\ op'.got = 0 /\ op'.st = "none" /\ op'.pc \in {"read", "send"} /\ op'.amount = 0
        /\ op'.kind = kind /\ op'.key = t /\ op'.nft = n
    BY <1>2, Zenon DEF Running, Op, Places
  <2>2. op'.kind # "open" \/ op'.pc \notin BeforeMint => op'.nft \in Nfts
    BY <1>2, <2>1, Zenon DEF BeforeMint
  <2> QED
    BY <1>2, <2>1, <2>2 DEF OpFields, Awaits
<1>3. op' # None =>
        \E kind \in OpKind \ {"fees"}, t \in Targets, n \in Nfts \cup {None}, pc \in {"read", "send"} :
          /\ op' = Running(kind, t, n, pc)
          /\ IF kind = "open" THEN n = None /\ map[t] = None /\ pc = "read" ELSE map[t] # None /\ n = map[t].nft
          /\ kind = "manualClose" => scenario.dex = "pancakeswap"
  BY <1>1 DEF Begins, Began, OpKind
<1>4. op' # None => /\ op' \in Op /\ OpFields(op') /\ op'.got = 0 /\ op'.st = "none" /\ op'.pc \in {"read", "send"}
                    /\ op'.key \in Targets
                    /\ IF op'.kind = "open" THEN op'.nft = None /\ map[op'.key] = None
                                            ELSE map[op'.key] # None /\ op'.nft = map[op'.key].nft
  <2> SUFFICES ASSUME op' # None
               PROVE  /\ op' \in Op /\ OpFields(op') /\ op'.got = 0 /\ op'.st = "none" /\ op'.pc \in {"read", "send"}
                      /\ op'.key \in Targets
                      /\ IF op'.kind = "open" THEN op'.nft = None /\ map[op'.key] = None
                                              ELSE map[op'.key] # None /\ op'.nft = map[op'.key].nft
    OBVIOUS
  <2>1. PICK kind \in OpKind \ {"fees"}, t \in Targets, n \in Nfts \cup {None}, pc \in {"read", "send"} :
          /\ op' = Running(kind, t, n, pc)
          /\ IF kind = "open" THEN n = None /\ map[t] = None /\ pc = "read" ELSE map[t] # None /\ n = map[t].nft
          /\ kind = "manualClose" => scenario.dex = "pancakeswap"
    BY <1>3, Zenon
  <2>2. kind # "open" => n \in Nfts
    BY <1>1, <2>1, Zenon
  <2>3. /\ op' \in Op /\ OpFields(op') /\ op'.got = 0 /\ op'.st = "none" /\ op'.pc \in {"read", "send"}
        /\ op'.kind = kind /\ op'.key = t /\ op'.nft = n
    BY <1>2, <2>1, <2>2, Zenon
  <2> QED
    BY <2>1, <2>3, Zenon
<1>5. OpOK'
  <2>1. loose' \in Nat
    BY Zenon DEF Begins, world, Inv, ChainTypeOK
  <2>2. op' # None => OpFields(op)'
    BY <1>4, OpFieldsNext, Zenon
  <2> QED
    BY <1>4, <2>1, <2>2 DEF OpOK
<1>6. WorksOnEntry'
  BY <1>1, <1>4, Zenon DEF WorksOnEntry, Begins, world
<1>7. EntriesOK' /\ ClosedByClose' /\ LandedIsThere'
  BY <1>4, Zenon DEF Begins, world, Inv, EntriesOK, ClosedByClose, LandedIsThere
<1>8. QueuesOK' /\ high' \in Seq(Item) /\ normal' \in Seq(Item)
  BY ItemsFit, Zenon DEF Begins, TakenFrom
<1>9. userOps' \in 0..scenario.userOps
  BY ScenarioFits DEF Begins, Inv, ChainTypeOK
<1>10. ChainTypeOK'
  BY <1>4, <1>8, <1>9, Zenon DEF Begins, world, scans, Inv, ChainTypeOK
<1> QED
  BY <1>5, <1>6, <1>7, <1>8, <1>10, Zenon DEF Inv

(* What a step of an operation does to the entries.                        *)
LEMMA MapForm ==
  ASSUME Inv, op # None, Maps
  PROVE  /\ op.key \in Targets
         /\ map' \in [Targets -> Entry \cup {None}]
         /\ \A t \in Targets \ {op.key} : map'[t] = map[t]
         /\ map'[op.key] # None =>
              \/ map[op.key] # None /\ map'[op.key].nft = map[op.key].nft
              \/ Saves /\ map'[op.key].nft = op.nft
<1>1. op.key \in Targets /\ map \in [Targets -> Entry \cup {None}]
  BY Zenon DEF Inv, OpOK, OpFields, Op, ChainTypeOK
<1>2. CASE map' = map
  BY <1>1, <1>2, Zenon
<1>3. CASE Saves
  BY <1>1, <1>3, Zenon DEF Saves, SetMapping, Entry
<1>4. CASE Unmaps
  BY <1>1, <1>4, Zenon DEF Unmaps, DeleteMapping
<1>5. CASE \E l \in Nat : SetTargetLiquidity(op.key, l)
  BY <1>1, <1>5, Zenon DEF SetTargetLiquidity, Entry
<1> QED
  BY <1>2, <1>3, <1>4, <1>5, Zenon DEF Maps

(* A step of an operation mints at most a position that nothing refers to. *)
LEMMA MintForm ==
  ASSUME Inv, OpAt, op # None, Mints
  PROVE  /\ pos' \in [Nfts -> Position]
         /\ \A n \in Nfts : pos[n].on # "unused" => pos'[n] = pos[n]
         /\ op' # None /\ op'.nft # None =>
              op'.nft = op.nft \/ (op'.nft \in Nfts /\ pos'[op'.nft].copy = op.key /\ pos'[op'.nft].on = "minted")
<1>1. pos \in [Nfts -> Position] /\ op.key \in Targets
  BY Zenon DEF Inv, OpOK, OpFields, Op, ChainTypeOK, Position
<1>2. CASE pos' = pos /\ (op' # None => op'.nft \in {op.nft, None})
  BY <1>1, <1>2, Zenon
<1>3. CASE Fresh # {} /\ pos' = Minted(op.key) /\ op'.nft = FirstFresh
  <2>1. FirstFresh \in Nfts /\ pos[FirstFresh].on = "unused"
    BY <1>3, Zenon DEF OpAt
  <2>2. PICK f \in Nfts : f = FirstFresh
    BY <2>1, Zenon
  <2>3. pos' = [pos EXCEPT ![f].on = "minted", ![f].copy = op.key]
    BY <1>3, <2>2, Zenon DEF Minted
  <2>4. pos' \in [Nfts -> Position] /\ pos'[f].copy = op.key /\ pos'[f].on = "minted"
    BY <1>1, <2>3, Zenon DEF Position
  <2>5. \A n \in Nfts \ {f} : pos'[n] = pos[n]
    BY <1>1, <2>3, Zenon
  <2> QED
    BY <1>3, <2>1, <2>2, <2>4, <2>5, Zenon
<1> QED
  BY <1>2, <1>3, Zenon DEF Mints

LEMMA OpShapeKeepsInv ==
  ASSUME Inv, OpAt, UNCHANGED scenario, OpShape
  PROVE  Inv'
<1>1. /\ op # None /\ FaultStep /\ GoesOn /\ Mints /\ Maps /\ Abandons
      /\ UNCHANGED <<target, peak, high, normal, scan, displaced, events, userOps>>
  BY Zenon DEF OpShape, OpMoves, opLeaves, queues, scans
<1>2. /\ op \in Op /\ OpFields(op) /\ op.key \in Targets /\ op.got <= loose /\ op.got \in Nat /\ loose \in Nat
      /\ op.nft \in Nfts \cup {None}
  BY <1>1, Zenon DEF Inv, OpOK, OpFields, Op, ChainTypeOK
<1>3. op.nft # None => op.nft \in Nfts /\ pos[op.nft].copy = op.key /\ pos[op.nft].on # "unused" /\ pos'[op.nft] = pos[op.nft]
  BY <1>1, <1>2, MintForm, Zenon DEF Inv, WorksOnEntry
<1>4. \A t \in Targets : map[t] # None => map[t].nft \in Nfts /\ pos[map[t].nft].on # "unused"
                                          /\ pos'[map[t].nft] = pos[map[t].nft]
  BY <1>1, EntriesFit, MintForm, Zenon
<1>5. QueuesOK'
  BY <1>1, QueuesFrame, Zenon DEF Inv
<1>6. ChainTypeOK'
  <2>1. pos' \in [Nfts -> Position] /\ map' \in [Targets -> Entry \cup {None}]
    BY <1>1, MintForm, MapForm, Zenon
  <2>2. late' \in Seq(Tx)
    <3>1. late \in Seq(Tx) /\ (op.st = "flying" => op.tx \in Tx)
      BY <1>2, Zenon DEF OpFields, Inv, ChainTypeOK
    <3> QED
      BY <1>1, <3>1 DEF Abandons
  <2>3. faults' \in 0..scenario.faults
    BY <1>1, ScenarioFits DEF FaultStep, Inv, ChainTypeOK
  <2>4. loose' \in Nat
    BY <1>2 DEF OpShape, OpMoves
  <2>5. op' \in Op \cup {None}
    BY <1>1, Zenon DEF GoesOn, OpFields
  <2> QED
    BY <1>1, <2>1, <2>2, <2>3, <2>4, <2>5, Zenon DEF Inv, ChainTypeOK, Position
<1>7. OpOK'
  <2>1. op' # None => OpFields(op)'
    BY <1>1, OpFieldsNext, Zenon DEF GoesOn
  <2>2. op' # None => op'.got <= loose'
    BY <1>1, <1>2 DEF GoesOn, OpShape, OpMoves
  <2> QED
    BY <2>1, <2>2, Zenon DEF OpOK
<1>8. EntriesOK'
  <2> SUFFICES ASSUME NEW t \in Targets, map'[t] # None
               PROVE  /\ pos'[map'[t].nft].copy = t /\ pos'[map'[t].nft].on \in {"minted", "open", "closed"}
                      /\ scenario.dex # "pancakeswap" => pos'[map'[t].nft].on # "minted"
    BY Zenon DEF EntriesOK
  <2>1. CASE map[t] # None /\ map'[t].nft = map[t].nft
    BY <1>4, <2>1 DEF Inv, EntriesOK
  <2>2. CASE t = op.key /\ Saves /\ map'[t].nft = op.nft
    <3>1. op.nft \in Nfts /\ op.nft # None /\ pos[op.nft].on \in {"unused", "minted", "open", "closed"}
      BY <2>2, ChainAssumption DEF Saves, Nfts, Inv, ChainTypeOK
    <3>2. scenario.dex # "pancakeswap" => pos[op.nft].on \in {"open", "closed"}
      BY <1>1, <2>2, Zenon DEF Saves, OnChain, Inv, LandedIsThere
    <3> QED
      BY <1>3, <2>2, <3>1, <3>2, Zenon
  <2>3. CASE t # op.key
    BY <1>1, <2>1, <2>3, MapForm, Zenon
  <2> QED
    BY <1>1, <2>1, <2>2, <2>3, MapForm, Zenon
<1>9. WorksOnEntry'
  <2> SUFFICES ASSUME op' # None
               PROVE  /\ op'.nft # None => pos'[op'.nft].copy = op.key /\ pos'[op'.nft].on # "unused"
                      /\ map'[op.key] # None => map'[op.key].nft = op'.nft
                      /\ op.kind = "open" /\ ~Saved(op') => map'[op.key] = None
    BY <1>1, Zenon DEF WorksOnEntry, GoesOn, Saved
  <2>1. op'.nft # None => pos'[op'.nft].copy = op.key /\ pos'[op'.nft].on # "unused"
    BY <1>1, <1>3, MintForm, Zenon
  <2>2. ASSUME map'[op.key] # None PROVE map'[op.key].nft = op'.nft
    <3>1. CASE Saves /\ map'[op.key].nft = op.nft
      BY <3>1, Zenon DEF Saves
    <3>2. CASE map[op.key] # None /\ map'[op.key].nft = map[op.key].nft
      <4>1. map[op.key].nft = op.nft /\ (op.kind = "open" => Saved(op))
        BY <1>1, <3>2, Zenon DEF Inv, WorksOnEntry
      <4>2. op.kind # "open" => op'.nft \in Nfts /\ op'.nft # None
        BY <1>1, ChainAssumption DEF GoesOn, OpFields, Nfts
      <4>3. op'.nft = op.nft
        BY <1>1, <4>1, <4>2, Zenon DEF Mints
      <4> QED
        BY <3>2, <4>1, <4>3, Zenon
    <3> QED
      BY <1>1, <2>2, <3>1, <3>2, MapForm, Zenon
  <2>3. ASSUME op.kind = "open", ~Saved(op') PROVE map'[op.key] = None
    <3>1. CASE Saved(op)
      BY <1>1, <1>2, <2>3, <3>1, Zenon DEF GoesOn, DeleteMapping, Inv, ChainTypeOK
    <3>2. CASE ~Saved(op)
      <4>1. map[op.key] = None
        BY <1>1, <2>3, <3>2, Zenon DEF Inv, WorksOnEntry
      <4>2. ~Saves
        BY <2>3, Zenon DEF Saves
      <4> QED
        BY <1>1, <4>1, <4>2, MapForm, Zenon
    <3> QED
      BY <3>1, <3>2, Zenon
  <2> QED
    BY <2>1, <2>2, <2>3, Zenon
<1>10. ClosedByClose'
  <2> SUFFICES ASSUME op' # None, op.kind \in {"close", "manualClose"}, op'.st = "none", op'.pc = "verify"
               PROVE  pos'[op'.nft].on = "closed"
    BY <1>1, Zenon DEF ClosedByClose, GoesOn
  <2>1. op.st = "landed" /\ op.tx.kind \in {"close", "closeAll"}
    BY <1>1, Zenon DEF GoesOn
  <2>2. pos[op.nft].on = "closed"
    BY <1>1, <2>1, Zenon DEF Inv, ClosedByClose
  <2>3. op'.nft \in Nfts /\ op'.nft # None
    BY <1>1, ChainAssumption DEF GoesOn, OpFields, Nfts
  <2> QED
    BY <1>1, <2>2, <2>3, Zenon DEF Mints
<1>11. LandedIsThere'
  <2> SUFFICES ASSUME op' # None, op'.st = "landed" PROVE pos'[op'.nft].on \in {"open", "closed"}
    BY Zenon DEF LandedIsThere
  <2>1. op.st = "landed" /\ op'.nft = op.nft
    BY <1>1, Zenon DEF GoesOn
  <2>2. op.nft \in Nfts /\ op.nft # None
    BY <1>2, <2>1, ChainAssumption DEF OpFields, Tx, Nfts
  <2> QED
    BY <1>1, <1>3, <2>1, <2>2, Zenon DEF Inv, LandedIsThere
<1> QED
  BY <1>5, <1>6, <1>7, <1>8, <1>9, <1>10, <1>11, Zenon DEF Inv

-----------------------------------------------------------------------------
(* One step of the next theorem.                                           *)
UnmapsGone ==
  Promised([orca |-> FaultKinds \ {"readError"}, meteora |-> FaultKinds \ {"notVerified"},
            dammv2 |-> FaultKinds \ {"readError", "notVerified"}, pancakeswap |-> FaultKinds])
  => \A n \in Mapped \ Mapped' : At("manualClose", "ack") \/ ~OnChain(n) \/ n \in displaced'

(* Only a running operation and a scan change the entries.                 *)
LEMMA MapChanges ==
  ASSUME NextShape
  PROVE  UNCHANGED map \/ OpShape \/ ScanChecks
<1>1. TargetMoves => UNCHANGED map
  BY Zenon DEF TargetMoves, TargetActs
<1>2. Begins => UNCHANGED map
  BY Zenon DEF Begins
<1> QED
  BY <1>1, <1>2, Zenon DEF NextShape, Lands, LateLands, Expires, ScanStarts, QueueOrphans, Crash

LEMMA StepUnmapsGone ==
  ASSUME Inv, NextShape
  PROVE  UnmapsGone
<1> SUFFICES ASSUME Promised([orca |-> FaultKinds \ {"readError"}, meteora |-> FaultKinds \ {"notVerified"},
                              dammv2 |-> FaultKinds \ {"readError", "notVerified"}, pancakeswap |-> FaultKinds]),
                    NEW n \in Mapped \ Mapped'
             PROVE  At("manualClose", "ack") \/ ~OnChain(n) \/ n \in displaced'
  BY Zenon DEF UnmapsGone
<1>1. PICK t \in Targets : map[t] # None /\ map[t].nft = n
  BY Zenon DEF Mapped
<1>2. ~(map'[t] # None /\ map'[t].nft = n)
  BY Zenon DEF Mapped
<1>3. CASE OpShape
  <2>1. op # None /\ Maps /\ op.key \in Targets /\ map \in [Targets -> Entry \cup {None}]
    BY <1>3, Zenon DEF OpShape, OpMoves, Inv, OpOK, OpFields, Op, ChainTypeOK
  <2>2. t = op.key
    BY <1>1, <1>2, <2>1, MapForm, Zenon
  <2>3. n = op.nft
    BY <1>1, <2>1, <2>2, Zenon DEF Inv, WorksOnEntry
  <2>4. ~Saves
    BY <1>1, <2>1, <2>2, Zenon DEF Saves, Inv, WorksOnEntry
  <2>5. ~(\E l \in Nat : SetTargetLiquidity(op.key, l)) /\ map' # map
    <3>1. ASSUME NEW l \in Nat, SetTargetLiquidity(t, l) PROVE FALSE
      <4>1. map[t] \in Entry /\ map' = [map EXCEPT ![t].stored = l]
        BY <1>1, <2>1, <3>1, Zenon DEF SetTargetLiquidity
      <4>2. map'[t] \in Entry /\ map'[t].nft = n
        BY <1>1, <2>1, <4>1, Zenon DEF Entry
      <4> QED
        BY <1>2, <4>2, NoneAssumption, Zenon
    <3> QED
      BY <1>1, <1>2, <2>2, <3>1, Zenon
  <2>6. Unmaps
    BY <2>1, <2>4, <2>5, Zenon DEF Maps
  <2>7. /\ ~("readError" \in scenario.kinds /\ scenario.dex \in {"orca", "dammv2"})
        /\ ~("notVerified" \in scenario.kinds /\ scenario.dex \in {"meteora", "dammv2"})
    BY DEF Promised
  <2> QED
    BY <2>3, <2>6, <2>7, Zenon DEF Unmaps
<1>4. CASE ScanChecks
  <2>1. PICK e \in scan.todo :
          ~OnChain(e[2]) /\ DeleteMapping(e[1]) /\ displaced' = displaced \cup (EntryOf(e[1]) \ {e[2]})
    BY <1>1, <1>2, <1>4, Zenon DEF ScanChecks
  <2>2. t = e[1]
    BY <1>1, <1>2, <2>1, Zenon DEF DeleteMapping, Inv, ChainTypeOK
  <2>3. n \in EntryOf(e[1])
    BY <1>1, <2>2, Zenon DEF EntryOf
  <2> QED
    BY <2>1, <2>3, Zenon
<1>5. CASE UNCHANGED map
  BY <1>1, <1>2, <1>5, Zenon
<1> QED
  BY <1>3, <1>4, <1>5, MapChanges, Zenon

-----------------------------------------------------------------------------
(* The transactions nobody waits for are never opens, as long as no        *)
(* confirmation times out and the process lives.                           *)
NotOpen == {tx \in Tx : tx.kind # "open"}

Lives == Promised([pancakeswap |-> {"missed", "readError", "expired", "notVerified"}])

LEMMA LivesMeans ==
  Lives => scenario.dex = "pancakeswap" /\ "timeout" \notin scenario.kinds /\ "crash" \notin scenario.kinds
  BY DEF Lives, Promised

LEMMA StepNoLateOpen ==
  ASSUME Inv, NoLateOpen, NextShape, UNCHANGED scenario
  PROVE  NoLateOpen'
<1> SUFFICES ASSUME Lives PROVE late' \in Seq(NotOpen)
  BY Zenon DEF NoLateOpen, Lives, NotOpen, Promised, Tx, Nfts
<1>1. late \in Seq(NotOpen)
  BY Zenon DEF NoLateOpen, Lives, NotOpen
<1>2. CASE UNCHANGED late
  BY <1>1, <1>2, Zenon
<1>3. CASE \E i \in DOMAIN late : late' = Without(late, i)
  BY <1>1, <1>3, WithoutFits, Zenon
<1>4. CASE OpShape
  <2>1. op.st = "flying" /\ op.kind # "open" /\ op # None => op.tx \in NotOpen
    BY Zenon DEF Inv, OpOK, OpFields, NotOpen
  <2>2. UNCHANGED late \/ (op.tx \in NotOpen /\ late' = Append(late, op.tx))
    BY <1>4, <2>1, LivesMeans, Zenon DEF OpShape, OpMoves, Abandons
  <2> QED
    BY <1>1, <2>2
<1>5. ~Crash
  BY LivesMeans, Zenon DEF Crash, Fault
<1>6. TargetMoves \/ Begins \/ ScanChecks => UNCHANGED late
  BY Zenon DEF TargetMoves, TargetActs, Begins, ScanChecks, world
<1>7. Lands \/ ScanStarts \/ QueueOrphans(NormalKind) => UNCHANGED late
  BY Zenon DEF Lands, ScanStarts, QueueOrphans, world
<1>8. LateLands \/ Expires => UNCHANGED late \/ \E i \in DOMAIN late : late' = Without(late, i)
  BY Zenon DEF LateLands, Expires
<1> QED
  BY <1>2, <1>3, <1>4, <1>5, <1>6, <1>7, <1>8, Zenon DEF NextShape

(* One step of the next theorem.                                           *)
Records ==
  Promised([pancakeswap |-> {"missed", "readError", "expired", "notVerified"}])
  => \A n \in Nfts : OnChain(n)' /\ ~OnChain(n) => n \in Mapped \/ (op # None /\ op.nft = n)

LEMMA StepRecords ==
  ASSUME Inv, OpAt, NoLateOpen, NextShape
  PROVE  Records
<1> SUFFICES ASSUME Lives, NEW n \in Nfts, pos'[n].on = "open", pos[n].on # "open"
             PROVE  op # None /\ op.nft = n
  BY Zenon DEF Records, Lives, OnChain
<1>1. pos \in [Nfts -> Position]
  BY Zenon DEF Inv, ChainTypeOK, Position
<1>2. CASE Lands
  <2>1. op # None /\ op.tx \in Tx /\ op.tx.nft = op.nft
    BY <1>2, Zenon DEF Lands, Flying, Inv, OpOK, OpFields
  <2>2. Fits(op.tx) /\ pos' = Executed(op.tx)
    BY <1>2, Zenon DEF Lands
  <2> QED
    BY <1>1, <2>1, <2>2, ExecutedForm, Zenon
<1>3. CASE LateLands
  <2>1. PICK i \in DOMAIN late : Fits(late[i]) /\ pos' = Executed(late[i])
    BY <1>3, Zenon DEF LateLands
  <2>2. late[i] \in NotOpen
    BY DEF NoLateOpen, Lives, NotOpen
  <2> QED
    BY <1>1, <2>1, <2>2, ExecutedForm, Zenon DEF NotOpen
<1>4. CASE OpShape
  <2>1. CASE pos' = pos
    BY <2>1, Zenon
  <2>2. CASE Fresh # {} /\ pos' = Minted(op.key)
    <3>1. FirstFresh \in Nfts
      BY <2>2, Zenon DEF OpAt
    <3> QED
      BY <1>1, <2>2, <3>1, Zenon DEF Minted, Position
  <2> QED
    BY <1>4, <2>1, <2>2, Zenon DEF OpShape, OpMoves, Mints
<1>5. TargetMoves \/ Begins \/ ScanChecks => UNCHANGED pos
  BY Zenon DEF TargetMoves, TargetActs, Begins, ScanChecks, world
<1>6. Expires \/ ScanStarts \/ QueueOrphans(NormalKind) \/ Crash => UNCHANGED pos
  BY Zenon DEF Expires, ScanStarts, QueueOrphans, Crash, world
<1> QED
  BY <1>2, <1>3, <1>4, <1>5, <1>6, Zenon DEF NextShape

-----------------------------------------------------------------------------
(* The promises of Orca, Meteora and DAMM v2, where no confirmation times  *)
(* out and the process lives: every transaction is waited for.             *)
Watched == scenario.dex # "pancakeswap" /\ scenario.kinds \cap {"timeout", "crash"} = {}

LEMMA StepAllAwaited ==
  ASSUME AllAwaited, NextShape, UNCHANGED scenario
  PROVE  AllAwaited'
<1> SUFFICES ASSUME Watched PROVE late' = <<>>
  BY Zenon DEF AllAwaited, Watched
<1>1. late = <<>> /\ DOMAIN late = {}
  BY DEF AllAwaited, Watched
<1>2. CASE OpShape
  BY <1>1, <1>2, Zenon DEF OpShape, OpMoves, Abandons, Watched
<1>3. ~Crash
  BY Zenon DEF Crash, Fault, Watched
<1>4. TargetMoves \/ Begins \/ ScanChecks => UNCHANGED late
  BY Zenon DEF TargetMoves, TargetActs, Begins, ScanChecks, world
<1>5. Lands \/ ScanStarts \/ QueueOrphans(NormalKind) => UNCHANGED late
  BY Zenon DEF Lands, ScanStarts, QueueOrphans, world
<1>6. LateLands \/ Expires => UNCHANGED late
  BY <1>1, Zenon DEF LateLands, Expires
<1> QED
  BY <1>1, <1>2, <1>3, <1>4, <1>5, <1>6, Zenon DEF NextShape

(* The chain answers the operation that waits.                             *)
Answers ==
  /\ Flying /\ UNCHANGED <<target, peak, map, displaced>>
  /\ \/ /\ Fits(op.tx) /\ pos' = Executed(op.tx) /\ loose' = loose + Paid(op.tx)
        /\ Answered("landed") /\ op'.got = Paid(op.tx)
     \/ /\ UNCHANGED <<pos, loose>> /\ op'.got = op.got
        /\ \/ Answered("reverted") /\ ~Fits(op.tx)
           \/ Answered("expired") /\ "expired" \in scenario.kinds

(* Steps that concern neither our positions nor the operation.             *)
Elsewhere ==
  /\ UNCHANGED <<pos, op, loose>>
  /\ \/ UNCHANGED <<target, peak, map, displaced>>
     \/ TargetMoves /\ UNCHANGED <<map, displaced>>
     \/ ScanChecks /\ UNCHANGED <<target, peak>>

LEMMA WatchedSteps ==
  ASSUME Inv, AllAwaited, Watched, NextShape
  PROVE  Elsewhere \/ Answers \/ Begins \/ OpShape
<1>1. DOMAIN late = {}
  BY DEF AllAwaited, Watched
<1>2. TargetMoves => Elsewhere
  BY Zenon DEF TargetMoves, TargetActs, scans, Elsewhere
<1>3. ScanChecks => Elsewhere
  BY Zenon DEF ScanChecks, world, Elsewhere
<1>4. ScanStarts \/ QueueOrphans(NormalKind) => Elsewhere
  BY Zenon DEF ScanStarts, QueueOrphans, world, Elsewhere
<1>5. ~Crash /\ ~LateLands
  BY <1>1, Zenon DEF Crash, Fault, Watched, LateLands
<1>6. Flying => op \in Op /\ op.tx \in Tx
  BY Zenon DEF Flying, Inv, OpOK, OpFields
<1>7. ASSUME Lands PROVE Answers
  <2>1. pos \in [Nfts -> Position]
    BY Zenon DEF Inv, ChainTypeOK, Position
  <2>2. CASE Fits(op.tx)
    <3>1. Paid(op.tx) \in Nat
      BY <1>6, <1>7, <2>1, <2>2, ExecutedForm, Zenon DEF Lands
    <3>2. op' = [op EXCEPT !.st = "landed", !.got = Paid(op.tx)]
      BY <1>7, <2>2, Zenon DEF Lands
    <3>3. Answered("landed") /\ op'.got = Paid(op.tx)
      BY <1>6, <1>7, <3>1, <3>2, LandsOp, Zenon DEF Answered, Lands
    <3> QED
      BY <1>7, <2>2, <3>3, Zenon DEF Lands, Answers, scans
  <2>3. CASE ~Fits(op.tx)
    <3>1. Answered("reverted") /\ op'.got = op.got
      BY <1>6, <1>7, <2>3, FailsOp, Zenon DEF Answered, Lands
    <3> QED
      BY <1>7, <2>3, <3>1, Zenon DEF Lands, Answers, scans
  <2> QED
    BY <2>2, <2>3, Zenon
<1>8. ASSUME Expires PROVE Answers
  <2>1. Flying /\ op' = [op EXCEPT !.st = "expired"]
    BY <1>1, <1>8, Zenon DEF Expires
  <2>2. Answered("expired") /\ op'.got = op.got
    BY <1>6, <2>1, FailsOp, Zenon DEF Answered
  <2> QED
    BY <1>8, <2>1, <2>2, Zenon DEF Expires, Fault, Answers, scans
<1> QED
  BY <1>2, <1>3, <1>4, <1>5, <1>7, <1>8, Zenon DEF NextShape

(* What an operation is when it begins.                                    *)
LEMMA BegunForm ==
  ASSUME Begins, op' # None
  PROVE  /\ op'.st = "none" /\ op'.got = 0 /\ op'.amount = 0 /\ op'.key \in Targets
         /\ IF op'.kind = "open" THEN op'.nft = None ELSE op'.nft \in Mapped
         /\ op'.pc \in {"read", "send"} /\ (op'.kind \in {"open", "increase"} => op'.pc = "read")
<1>1. PICK t \in Targets :
        \/ op' = Running("open", t, None, "read")
        \/ map[t] # None /\ \E kind \in {"increase", "decrease"} : op' = Running(kind, t, map[t].nft, "read")
        \/ map[t] # None /\ \E kind \in {"close", "manualClose"} : op' = Running(kind, t, map[t].nft, "send")
  BY Zenon DEF Begins, Began
<1>2. map[t] # None => map[t].nft \in Mapped
  BY Zenon DEF Mapped
<1> QED
  BY <1>1, <1>2 DEF Running

-----------------------------------------------------------------------------
(* What was withdrawn.                                                     *)
LEMMA QueuesMeans ==
  Queues => /\ scenario.dex \in {"orca", "dammv2"} /\ Watched
            /\ scenario.kinds \cap {"lostAck", "readError", "notVerified"} = {}
  BY DEF Queues, Promised, Watched

LEMMA StepLooseIsHeld ==
  ASSUME Inv, AllAwaited, LooseIsHeld, NextShape, UNCHANGED scenario
  PROVE  LooseIsHeld'
<1> SUFFICES ASSUME Queues
             PROVE  /\ loose' = IF op' = None THEN 0 ELSE op'.got
                    /\ op' # None /\ op'.got > 0 =>
                         /\ op'.kind \in {"decrease", "close"}
                         /\ \/ op'.st = "landed" /\ op'.pc = "confirm"
                            \/ op'.st = "none" /\ op'.pc \in {"verify", "queue"}
  BY Zenon DEF LooseIsHeld, Queues, Promised
<1>1. /\ loose = IF op = None THEN 0 ELSE op.got
      /\ op # None /\ op.got > 0 =>
           /\ op.kind \in {"decrease", "close"}
           /\ \/ op.st = "landed" /\ op.pc = "confirm"
              \/ op.st = "none" /\ op.pc \in {"verify", "queue"}
  BY Zenon DEF LooseIsHeld
<1>2. op # None => op.got \in Nat /\ OpFields(op)
  BY Zenon DEF Inv, OpOK, OpFields, Op
<1>3. CASE Elsewhere
  BY <1>1, <1>3, Zenon DEF Elsewhere
<1>4. CASE Answers
  <2>1. op # None /\ op.got = 0 /\ loose = 0 /\ op.tx \in Tx /\ op.pc \in Awaits /\ Sent(op)
    BY <1>1, <1>2, <1>4, QueuesMeans DEF Answers, Flying, OpFields
  <2>2. CASE UNCHANGED <<pos, loose>> /\ op'.got = op.got /\ op' \in Op
    BY <2>1, <2>2, NoneAssumption
  <2>3. CASE Fits(op.tx) /\ loose' = loose + Paid(op.tx) /\ Answered("landed") /\ op'.got = Paid(op.tx)
    <3>1. Paid(op.tx) \in Nat
      BY <2>1, <2>3, ExecutedForm, Zenon DEF Inv, ChainTypeOK, Position
    <3>2. op.kind \in {"open", "increase"} => Paid(op.tx) = 0
      BY <2>1, Zenon DEF Sent, Paid
    <3>3. op.kind \in {"open", "increase", "decrease", "close"}
      BY <1>2, <2>1, QueuesMeans, Zenon DEF OpFields, Op, OpKind
    <3>4. op.kind \in {"decrease", "close"} => op.pc = "confirm"
      BY <2>1, QueuesMeans, Zenon DEF Sent
    <3> QED
      BY <2>1, <2>3, <3>1, <3>2, <3>3, <3>4, NoneAssumption DEF Answered
  <2> QED
    BY <1>4, <2>2, <2>3, Zenon DEF Answers, Answered
<1>5. CASE Begins
  BY <1>1, <1>5, BegunForm DEF Begins, world
<1>6. CASE OpShape
  <2>1. op # None /\ HandsOn /\ GoesOn /\ (loose' = loose \/ (loose' = loose - op.got /\ op' = None))
    BY <1>6, QueuesMeans, Zenon DEF OpShape, OpMoves, OpKeeps
  <2>2. CASE op.got = 0
    BY <1>1, <2>1, <2>2 DEF GoesOn
  <2>3. CASE op.got > 0
    <3>1. \/ /\ op' # None /\ op'.got = op.got /\ op'.st = "none" /\ op'.pc \in {"verify", "queue"}
             /\ loose' = loose
          \/ op' = None /\ loose' = loose - op.got
      BY <1>1, <2>1, <2>3, QueuesMeans, Zenon DEF HandsOn
    <3> QED
      BY <1>1, <1>2, <2>1, <2>3, <3>1 DEF GoesOn
  <2> QED
    BY <1>2, <2>1, <2>2, <2>3
<1> QED
  BY <1>3, <1>4, <1>5, <1>6, WatchedSteps, QueuesMeans, Zenon

-----------------------------------------------------------------------------
(* What the mapping knows.                                                 *)
LEMMA KeepsMeans ==
  Keeps => /\ Watched
           /\ scenario.dex = "orca" \/ scenario.kinds \cap {"lostAck", "notVerified"} = {}
           /\ scenario.dex = "orca" => "readError" \notin scenario.kinds
           /\ InParts => "expired" \notin scenario.kinds
           /\ Promised([orca |-> FaultKinds \ {"readError"}, meteora |-> FaultKinds \ {"notVerified"},
                        dammv2 |-> FaultKinds \ {"readError", "notVerified"}, pancakeswap |-> FaultKinds])
  BY DEF Keeps, Promised, Watched, FaultKinds, InParts

(* A position on chain that is known stays known.                          *)
LEMMA KnownStays ==
  ASSUME Inv, Keeps, NextShape, NEW n, OnChain(n), Known(n)
  PROVE  Known(n)'
<1>1. UnmapsGone
  BY StepUnmapsGone, Zenon
<1>2. ~At("manualClose", "ack")
  BY KeepsMeans, Zenon DEF At, Watched, Inv, OpOK, OpFields
<1>3. displaced \subseteq displaced'
  <2>1. TargetMoves => UNCHANGED displaced
    BY Zenon DEF TargetMoves, TargetActs, scans
  <2>2. ScanChecks => displaced \subseteq displaced'
    BY Zenon DEF ScanChecks
  <2>3. Lands \/ LateLands \/ Expires \/ ScanStarts \/ QueueOrphans(NormalKind) \/ Crash => UNCHANGED displaced
    BY Zenon DEF Lands, LateLands, Expires, ScanStarts, QueueOrphans, Crash, scans
  <2>4. Begins \/ OpShape => UNCHANGED displaced
    BY Zenon DEF Begins, OpShape, OpMoves, opLeaves, scans
  <2> QED
    BY <2>1, <2>2, <2>3, <2>4, Zenon DEF NextShape
<1> QED
  BY <1>1, <1>2, <1>3, KeepsMeans, Zenon DEF UnmapsGone, Known

(* A step of an operation changes no position that is on chain.            *)
LEMMA OpLeavesChain ==
  ASSUME Inv, OpAt, OpShape, NEW n \in Nfts
  PROVE  OnChain(n)' => OnChain(n) /\ pos'[n] = pos[n]
<1>1. op # None /\ Mints
  BY Zenon DEF OpShape, OpMoves
<1>2. pos \in [Nfts -> Position]
  BY Zenon DEF Inv, ChainTypeOK, Position
<1>3. CASE pos[n].on = "unused" /\ pos' # pos
  <2>1. Fresh # {} /\ pos' = Minted(op.key)
    BY <1>1, <1>3, Zenon DEF Mints
  <2>2. FirstFresh \in Nfts
    BY <2>1, Zenon DEF OpAt
  <2>3. PICK f \in Nfts : f = FirstFresh
    BY <2>2, Zenon
  <2>4. pos' = [pos EXCEPT ![f].on = "minted", ![f].copy = op.key]
    BY <2>1, <2>3, Zenon DEF Minted
  <2>5. pos'[n].on # "open"
    BY <1>2, <1>3, <2>4, Zenon DEF Position
  <2> QED
    BY <2>5, Zenon DEF OnChain
<1> QED
  BY <1>1, <1>3, MintForm, Zenon DEF OnChain

(* The operation's own transaction keeps what NothingLost says.            *)
LEMMA AnswersKeepNothingLost ==
  ASSUME Inv, Keeps, NothingLost, Answers, UNCHANGED scenario
  PROVE  NothingLost'
<1>1. /\ \A n \in Nfts : Holding(n) => Known(n) \/ (op.kind = "open" /\ op.nft = n)
      /\ OnChain(op.nft) /\ op.kind # "open" => Known(op.nft)
      /\ op.kind = "open" /\ Clean(op) => op.nft = None \/ ~Holding(op.nft)
      /\ op.kind = "open" /\ InParts /\ op.pc \in Filling => OnChain(op.nft)
  BY Zenon DEF NothingLost, Answers, Flying
<1>2. /\ op # None /\ op.st = "flying" /\ op.tx \in Tx /\ op.tx.nft = op.nft /\ op.nft \in Nfts
      /\ op.pc \in Awaits /\ Sent(op)
      /\ op.kind # "open" => op.tx.kind # "open"
      /\ op.kind = "open" /\ op.pc \in {"confirmCreate", "created"} => op.tx.kind = "open" /\ op.tx.liq = 0
      /\ op.pc = "confirmPart" => InParts
  BY KeepsMeans, Zenon DEF Watched, Answers, Flying, Inv, OpOK, OpFields, Tx
<1>3. /\ \A n \in Nfts : Known(n)' <=> Known(n)
      /\ InParts' <=> InParts
      /\ op' \in Op /\ op' # None
      /\ op'.kind = op.kind /\ op'.nft = op.nft /\ op'.pc = op.pc
  BY NoneAssumption, Zenon DEF Answers, Answered, Known, Mapped, InParts
<1>4. op.pc \notin {"recover", "verify", "verifyFill"}
  BY <1>2, Zenon DEF Awaits
<1>5. CASE UNCHANGED pos /\ (Answered("reverted") \/ Answered("expired"))
  <2>1. ~(op.kind = "open" /\ InParts /\ op.pc \in Filling)
    <3> SUFFICES ASSUME op.kind = "open", InParts, op.pc \in Filling PROVE FALSE
      BY Zenon
    <3>1. "expired" \notin scenario.kinds /\ ~Fits(op.tx)
      BY <1>5, KeepsMeans, Zenon DEF Answers, Answered
    <3>2. op.tx.kind = "increase" /\ OnChain(op.tx.nft)
      BY <1>1, <1>2, Zenon DEF Sent
    <3> QED
      BY <3>1, <3>2, Zenon DEF Fits
  <2>2. op.kind = "open" => Clean(op)
    BY <1>2, <1>4, <2>1, Zenon DEF Clean
  <2>3. op'.st # "landed"
    BY <1>5, Zenon DEF Answered
  <2> QED
    BY <1>1, <1>2, <1>3, <1>4, <1>5, <2>1, <2>2, <2>3, Zenon DEF NothingLost, Holding, OnChain
<1>6. CASE Fits(op.tx) /\ pos' = Executed(op.tx) /\ Answered("landed")
  <2>1. /\ \A n \in Nfts : n # op.nft => pos'[n] = pos[n]
        /\ op.tx.kind # "open" => OnChain(op.nft)
        /\ op.tx.kind \in {"open", "increase"} => pos'[op.nft].on = "open"
    <3>1. pos \in [Nfts -> Position]
      BY Zenon DEF Inv, ChainTypeOK, Position
    <3> QED
      BY <1>2, <1>6, <3>1, ExecutedForm, Zenon DEF OnChain
  <2>2. op.kind = "open" /\ Clean(op)' => ~Holding(op.nft)'
    <3> SUFFICES ASSUME op.kind = "open", Clean(op') PROVE pos'[op.nft].liq = 0
      BY <1>3 DEF Holding, Clean
    <3>1. op.pc \in {"confirmCreate", "created"}
      BY <1>2, <1>3, <1>6, Zenon DEF Clean, Awaits, Filling, Sent, Answered
    <3>2. op.tx.kind = "open" /\ op.tx.liq = 0
      BY <1>2, <3>1, Zenon
    <3>3. pos' = [pos EXCEPT ![op.nft].on = "open", ![op.nft].liq = 0]
      BY <1>2, <1>6, <3>2, Zenon DEF Executed
    <3> QED
      BY <1>2, <3>3, Zenon DEF Inv, ChainTypeOK
  <2>3. op.kind = "open" => pos'[op.nft].on = "open"
    BY <1>2, <2>1, Zenon DEF Sent
  <2>4. op'.st = "landed"
    BY <1>6, Zenon DEF Answered
  <2> QED
    BY <1>1, <1>2, <1>3, <1>4, <2>1, <2>2, <2>3, <2>4, Zenon DEF NothingLost, Holding, OnChain
<1> QED
  BY <1>5, <1>6, Zenon DEF Answers

(* Neither does an open leave liquidity behind, nor does any other step    *)
(* of an operation.                                                        *)
LEMMA OpKeepsNothingLost ==
  ASSUME Inv, OpAt, Keeps, NothingLost, OpShape, UNCHANGED scenario
  PROVE  NothingLost'
<1>1. /\ \A n \in Nfts : Holding(n) => Known(n) \/ (op.kind = "open" /\ op.nft = n)
      /\ OnChain(op.nft) /\ (op.kind # "open" \/ op.pc \in {"verify", "verifyFill"}) => Known(op.nft)
      /\ op.kind = "open" /\ Clean(op) => op.nft = None \/ ~Holding(op.nft)
      /\ op.kind = "open" /\ op.st = "landed" => OnChain(op.nft)
      /\ op.kind = "open" /\ InParts /\ op.pc \in Filling =>
           OnChain(op.nft) /\ op.st \in {"none", "flying", "landed"}
  BY Zenon DEF NothingLost, OpShape, OpMoves
<1>2. op # None /\ GoesOn /\ Mints /\ OpenKeeps
  BY KeepsMeans, Zenon DEF Watched, OpShape, OpMoves, OpKeeps
<1>3. \A n \in Nfts : OnChain(n)' => OnChain(n) /\ pos'[n] = pos[n]
  BY OpLeavesChain, Zenon
<1>4. \A n \in Nfts : OnChain(n) /\ Known(n) => Known(n)'
  BY KnownStays, Zenon DEF NextShape
<1>5. \A n \in Nfts : Holding(n)' => OnChain(n) /\ Holding(n)
  BY <1>3, Zenon DEF Holding
<1>6. None \notin Nfts /\ op.nft \in Nfts \cup {None} /\ (op' # None => op' \in Op /\ op'.nft \in Nfts \cup {None})
  BY <1>2, ChainAssumption DEF Nfts, GoesOn, OpFields, Op, Inv, OpOK
<1>7. /\ InParts' <=> InParts
      /\ op' # None /\ op'.st = "landed" /\ op.kind = "open" => pos'[op'.nft].on = "open"
  <2>1. op.nft \in Nfts /\ OnChain(op.nft) => pos'[op.nft] = pos[op.nft]
    BY <1>2, MintForm, Zenon DEF OnChain
  <2>2. op.st = "landed" => op.nft \in Nfts
    BY <1>2, Zenon DEF Inv, OpOK, OpFields, Tx
  <2> QED
    BY <1>1, <1>2, <2>1, <2>2, Zenon DEF GoesOn, InParts, OnChain
<1>8. CASE op.kind # "open"
  <2>1. \A n \in Nfts : Holding(n)' => Known(n)'
    BY <1>1, <1>4, <1>5, <1>8, Zenon
  <2>2. op' # None => op'.kind = op.kind /\ op'.nft = op.nft /\ op.nft \in Nfts
    BY <1>2, <1>6, <1>8, Zenon DEF GoesOn, OpFields, Mints
  <2> QED
    BY <1>1, <1>3, <1>4, <1>8, <2>1, <2>2, Zenon DEF NothingLost
<1>9. CASE op.kind = "open"
  <2>1. op' # None => op'.kind = "open"
    BY <1>2, <1>9, Zenon DEF GoesOn
  <2>2. CASE Clean(op) /\ (op' # None => Clean(op'))
    <3>1. \A n \in Nfts : Holding(n)' => Known(n)'
      BY <1>1, <1>4, <1>5, <1>6, <1>9, <2>2, Zenon
    <3>2. op' # None => op'.nft = None \/ ~(pos'[op'.nft].on = "open" /\ pos'[op'.nft].liq > 0)
      <4>1. CASE op'.nft = op.nft
        BY <1>1, <1>3, <1>6, <1>9, <2>2, <4>1, Zenon DEF Holding, OnChain
      <4>2. CASE op'.nft \in Nfts /\ pos'[op'.nft].on = "minted"
        BY <4>2, Zenon
      <4> QED
        BY <1>2, <4>1, <4>2, MintForm, Zenon
    <3>3. op' # None => op'.pc \notin {"verify", "verifyFill"}
      BY <2>2, Zenon DEF Clean
    <3> QED
      BY <1>7, <1>9, <2>1, <2>2, <3>1, <3>2, <3>3, Zenon DEF NothingLost, Holding, OnChain, Clean
  <2>3. CASE Saves
    <3>1. op.nft \in Nfts /\ op.key \in Targets /\ map'[op.key] = [nft |-> op.nft, stored |-> op.amount]
      BY <1>2, <2>3, Zenon DEF Saves, SetMapping, Inv, ChainTypeOK, OpOK, OpFields, Op
    <3>2. map'[op.key] # None /\ map'[op.key].nft = op.nft
      BY <2>3, <3>1, NoneAssumption DEF Saves, Entry
    <3>3. op.nft \in Mapped' \cup displaced'
      BY <3>1, <3>2, Zenon DEF Mapped
    <3>4. op' # None => op'.nft = op.nft /\ op'.pc \in {"verify", "verifyFill"}
      BY <2>3, KeepsMeans, Zenon DEF Saves, Saved, Watched
    <3> QED
      BY <1>1, <1>4, <1>5, <1>7, <1>9, <2>1, <3>1, <3>3, <3>4, Zenon DEF NothingLost, Clean, Known, Filling, OnChain
  <2>4. CASE op.pc \in {"verify", "verifyFill"} /\ op' = None
    BY <1>1, <1>4, <1>5, <2>4, Zenon DEF NothingLost
  <2>5. CASE ~OnChain(op.nft) /\ (op' # None => op'.nft = op.nft /\ Clean(op'))
    <3>1. \A n \in Nfts : Holding(n)' => Known(n)'
      BY <1>1, <1>4, <1>5, <2>5, Zenon
    <3>2. op' # None => op'.pc \notin {"verify", "verifyFill"} /\ (op'.nft = None \/ pos'[op'.nft].on # "open")
      BY <1>3, <1>6, <2>5, Zenon DEF Clean, OnChain
    <3> QED
      BY <1>7, <1>9, <2>1, <2>5, <3>1, <3>2, Zenon DEF NothingLost, Holding, OnChain, Clean
  <2>6. CASE op' # None /\ op'.pc = "recover" /\ op'.nft = op.nft
    BY <1>1, <1>4, <1>5, <1>7, <1>9, <2>1, <2>6, Zenon DEF NothingLost, Clean, Filling, OnChain
  <2>7. CASE /\ InParts /\ op' # None /\ op'.pc \in Filling /\ op'.nft = op.nft /\ pos' = pos
             /\ op.pc \in Filling \/ op.st = "landed"
    <3>1. pos'[op'.nft].on = "open" /\ op'.st \in {"none", "flying", "landed"}
      BY <1>1, <1>2, <1>9, <2>7, Zenon DEF GoesOn, OnChain
    <3>2. ~Clean(op') /\ op'.pc \notin {"verify", "verifyFill"}
      BY <2>7, Zenon DEF Clean, Filling
    <3> QED
      BY <1>1, <1>4, <1>5, <1>7, <2>1, <2>7, <3>1, <3>2, Zenon DEF NothingLost, Clean, OnChain
  <2>8. ~(InParts /\ op.pc \in Filling /\ (op.st \in {"reverted", "expired"} \/ "timeout" \in scenario.kinds))
    BY <1>1, <1>9, KeepsMeans, Zenon DEF Watched
  <2> QED
    BY <1>2, <1>9, <2>2, <2>3, <2>4, <2>5, <2>6, <2>7, <2>8, KeepsMeans, Zenon DEF OpenKeeps
<1> QED
  BY <1>8, <1>9, Zenon

LEMMA StepNothingLost ==
  ASSUME Inv, OpAt, AllAwaited, NothingLost, NextShape, UNCHANGED scenario
  PROVE  NothingLost'
<1> SUFFICES ASSUME Keeps PROVE NothingLost'
  BY Zenon DEF NothingLost, Keeps, Promised
<1>1. CASE Elsewhere
  <2>1. \A n : OnChain(n) /\ Known(n) => Known(n)'
    BY KnownStays, Zenon
  <2> QED
    BY <1>1, <2>1, Zenon DEF Elsewhere, NothingLost, Holding, OnChain, Clean, InParts
<1>2. CASE Begins
  <2>1. \A n \in Nfts : Holding(n)' => Known(n)'
    BY <1>2, Zenon DEF Begins, world, scans, NothingLost, Holding, OnChain, Known, Mapped
  <2>2. op' # None => \/ op'.kind = "open" /\ op'.nft = None /\ op'.pc = "read" /\ op'.st = "none"
                      \/ op'.kind # "open" /\ op'.nft \in Mapped
    BY <1>2, BegunForm, Zenon
  <2>3. Mapped' = Mapped
    BY <1>2, Zenon DEF Begins, Mapped
  <2> QED
    BY <2>1, <2>2, <2>3, Zenon DEF NothingLost, Known, Filling
<1> QED
  BY <1>1, <1>2, AnswersKeepNothingLost, OpKeepsNothingLost, WatchedSteps, KeepsMeans, Zenon

-----------------------------------------------------------------------------
(* What is added.                                                          *)
LEMMA StepTargetWithinPeak ==
  ASSUME Inv, TargetWithinPeak, NextShape
  PROVE  TargetWithinPeak' /\ \A t \in Targets : peak'[t] \in Nat /\ peak[t] <= peak'[t]
<1>1. \A t \in Targets : target[t].liq \in Nat /\ peak[t] \in Nat
  BY ChainAssumption DEF Inv, ChainTypeOK, Liq
<1>2. CASE TargetMoves
  <2>1. PICK t \in Targets, now \in [on : {"open", "closed"}, liq : Liq] :
          /\ target' = [target EXCEPT ![t] = now]
          /\ peak' = [peak EXCEPT ![t] = IF now.liq > @ THEN now.liq ELSE @]
    BY <1>2, Zenon DEF TargetMoves, TargetActs
  <2>2. now.liq \in Nat
    BY ChainAssumption DEF Liq
  <2> QED
    BY <1>1, <2>1, <2>2 DEF TargetWithinPeak, Inv, ChainTypeOK
<1>3. CASE UNCHANGED <<target, peak>>
  BY <1>1, <1>3 DEF TargetWithinPeak
<1>4. Begins \/ OpShape \/ ScanChecks => UNCHANGED <<target, peak>>
  BY Zenon DEF Begins, OpShape, OpMoves, opLeaves, ScanChecks, world
<1>5. Lands \/ LateLands \/ Expires \/ ScanStarts \/ QueueOrphans(NormalKind) \/ Crash => UNCHANGED <<target, peak>>
  BY Zenon DEF Lands, LateLands, Expires, ScanStarts, QueueOrphans, Crash, world
<1> QED
  BY <1>2, <1>3, <1>4, <1>5, Zenon DEF NextShape

LEMMA MatchesMeans ==
  Matches => Watched /\ "lostAck" \notin scenario.kinds
  BY DEF Matches, Promised, Watched

(* The numbers compared, and the position that an operation works on.      *)
LEMMA Numbers ==
  ASSUME Inv
  PROVE  /\ \A t \in Targets : target[t].liq \in Nat /\ peak[t] \in Nat
         /\ \A n \in Nfts : pos[n].liq \in Nat
         /\ op # None => /\ op.key \in Targets /\ (op.kind \in {"open", "increase"} => op.amount \in Nat)
                         /\ op.kind # "open" \/ op.st # "none" => op.nft \in Nfts
                         /\ op.nft \in Nfts => pos[op.nft].copy = op.key
<1>1. \A t \in Targets : target[t].liq \in Nat /\ peak[t] \in Nat
  BY ChainAssumption DEF Inv, ChainTypeOK, Liq
<1>2. \A n \in Nfts : pos[n].liq \in Nat
  BY Zenon DEF Inv, ChainTypeOK
<1>3. op # None => op.key \in Targets /\ (op.kind \in {"open", "increase"} => op.amount \in Nat)
                   /\ (op.kind # "open" \/ op.st # "none" => op.nft \in Nfts)
  BY Zenon DEF Inv, OpOK, OpFields, Op, Tx
<1>4. op # None /\ op.nft \in Nfts => pos[op.nft].copy = op.key
  BY ChainAssumption DEF Inv, WorksOnEntry, Nfts
<1> QED
  BY <1>1, <1>2, <1>3, <1>4, Zenon

LEMMA AnswersKeepPeak ==
  ASSUME Inv, Matches, OursFit, OpFits, Answers, UNCHANGED scenario
  PROVE  OursFit' /\ OpFits'
<1>1. /\ op # None /\ op.st = "flying" /\ op.tx \in Tx /\ op.tx.nft = op.nft /\ op.nft \in Nfts
      /\ op.pc \in Awaits /\ Sent(op) /\ (op.kind # "open" => op.tx.kind # "open")
      /\ op.kind \in {"open", "increase", "decrease", "close"}
      /\ op.kind = "open" /\ op.pc \in {"confirmCreate", "created"} => op.tx.kind = "open" /\ op.tx.liq = 0
      /\ op.key \in Targets /\ pos[op.nft].copy = op.key /\ peak[op.key] \in Nat
      /\ op.tx.liq \in Nat /\ pos[op.nft].liq \in Nat /\ (op.kind = "open" => op.amount \in Nat)
  BY MatchesMeans, Numbers, Zenon DEF Watched, Answers, Flying, Inv, OpOK, OpFields, Op, OpKind, Tx
<1>2. /\ op' # None /\ op'.kind = op.kind /\ op'.nft = op.nft /\ op'.pc = op.pc /\ op'.key = op.key
      /\ op'.amount = op.amount /\ op'.st \notin {"none", "flying"} /\ UNCHANGED peak
  BY NoneAssumption, Zenon DEF Answers, Answered
<1>3. op.kind = "increase" => op.pc = "confirm"
  BY <1>1, Zenon DEF OpFits
<1>4. op.kind = "open" =>
        /\ op.pc \notin BeforeMint /\ op.amount <= peak[op.key]
        /\ OnChain(op.nft) => /\ pos[op.nft].liq + op.tx.liq <= op.amount
                              /\ op.pc \in {"confirmCreate", "created"} => pos[op.nft].liq = 0
  BY <1>1, Zenon DEF OpFits, InFlight, BeforeMint, Awaits
<1>5. CASE UNCHANGED pos
  <2>1. OursFit'
    BY <1>2, <1>5, Zenon DEF OursFit, OnChain
  <2>2. op.kind = "open" /\ OnChain(op.nft) => pos[op.nft].liq + 0 <= op.amount
    BY <1>1, <1>4
  <2> QED
    BY <1>1, <1>2, <1>3, <1>4, <1>5, <2>1, <2>2, Zenon DEF OpFits, InFlight, OnChain
<1>6. CASE Fits(op.tx) /\ pos' = Executed(op.tx) /\ Answered("landed")
  <2>1. pos \in [Nfts -> Position] /\ op.tx.liq \in Nat /\ op.tx.kind \in TxKind /\ pos[op.nft].liq \in Nat
    BY <1>1, Zenon DEF Inv, ChainTypeOK, Position, Tx
  <2>2. \A n \in Nfts : pos'[n].copy = pos[n].copy /\ (n # op.nft => pos'[n] = pos[n])
    BY <1>1, <1>6, <2>1, ExecutedForm, Zenon
  <2>3. op.kind = "open" =>
          /\ pos'[op.nft].liq \in Nat /\ pos'[op.nft].liq <= op.amount
          /\ op.pc \in {"confirmCreate", "created"} => pos'[op.nft].liq = 0
    <3> SUFFICES ASSUME op.kind = "open"
                 PROVE  /\ pos'[op.nft].liq \in Nat /\ pos'[op.nft].liq <= op.amount
                        /\ op.pc \in {"confirmCreate", "created"} => pos'[op.nft].liq = 0
      BY Zenon
    <3>1. CASE op.tx.kind = "open"
      <4>1. op.tx.liq \in {0, op.amount}
        BY <1>1, <3>1, Zenon DEF Sent
      <4>2. pos'[op.nft].liq = op.tx.liq
        BY <1>1, <1>6, <2>1, <3>1, Zenon DEF Executed, Position
      <4> QED
        BY <1>1, <4>1, <4>2
    <3>2. CASE op.tx.kind = "increase"
      <4>1. OnChain(op.nft) /\ pos'[op.nft].liq = pos[op.nft].liq + op.tx.liq
        BY <1>1, <1>6, <2>1, <3>2, Zenon DEF Executed, Position, Fits
      <4> QED
        BY <1>1, <1>4, <3>2, <4>1
    <3> QED
      BY <1>1, <3>1, <3>2, Zenon DEF Sent
  <2>4. pos'[op.nft].on = "open" => pos'[op.nft].liq <= peak[op.key]
    <3>1. CASE op.kind = "open"
      BY <1>1, <1>4, <2>3, <3>1
    <3>2. CASE op.kind = "increase"
      <4>1. op.tx.kind = "increase" /\ op.tx.liq = op.amount /\ OnChain(op.nft)
        BY <1>1, <1>3, <1>6, <3>2, Zenon DEF Sent, Fits, Filling
      <4>2. pos'[op.nft].liq = pos[op.nft].liq + op.amount
        BY <1>1, <1>6, <2>1, <4>1, Zenon DEF Executed, Position
      <4> QED
        BY <1>1, <1>3, <3>2, <4>1, <4>2, Zenon DEF OpFits
    <3>3. CASE op.tx.kind \in {"decrease", "removeAll"}
      <4>1. CASE op.tx.kind = "decrease"
        BY <1>1, <1>6, <2>1, <4>1 DEF Executed, Position, Fits, OursFit
      <4>2. CASE op.tx.kind = "removeAll"
        BY <1>1, <1>6, <2>1, <4>2 DEF Executed, Position, Fits, OursFit
      <4> QED
        BY <3>3, <4>1, <4>2, Zenon
    <3>4. CASE op.tx.kind \in {"close", "closeAll"}
      BY <1>1, <1>6, <2>1, <3>4, ExecutedForm, Zenon
    <3> QED
      BY <1>1, <2>1, <3>1, <3>2, <3>3, <3>4, Zenon DEF TxKind, Sent
  <2>5. OursFit'
    BY <1>1, <1>2, <2>2, <2>4, Zenon DEF OursFit, OnChain
  <2>6. OpFits'
    <3>1. op.kind = "open" => pos'[op.nft].liq + 0 <= op.amount
      BY <1>1, <2>3
    <3>2. op.kind = "increase" => op'.st = "landed"
      BY <1>6, Zenon DEF Answered
    <3> QED
      BY <1>1, <1>2, <1>3, <1>4, <2>3, <3>1, <3>2, Zenon DEF OpFits, InFlight
  <2> QED
    BY <2>5, <2>6, Zenon
<1> QED
  BY <1>5, <1>6, Zenon DEF Answers

LEMMA OpKeepsPeak ==
  ASSUME Inv, OpAt, Matches, TargetWithinPeak, OursFit, OpFits, OpShape, UNCHANGED scenario
  PROVE  OursFit' /\ OpFits'
<1>1. op # None /\ GoesOn /\ Mints /\ AddsUp /\ UNCHANGED peak
  BY MatchesMeans, Zenon DEF Watched, OpShape, OpMoves, OpKeeps, opLeaves
<1>2. OursFit'
  BY <1>1, OpLeavesChain, Zenon DEF OursFit
<1>3. op.key \in Targets /\ target[op.key].liq \in Nat /\ peak[op.key] \in Nat /\ target[op.key].liq <= peak[op.key]
  BY <1>1, Numbers, Zenon DEF TargetWithinPeak
<1> SUFFICES ASSUME op' # None, op.kind \in {"open", "increase"} PROVE OpFits'
  BY <1>1, <1>2, Zenon DEF OpFits, GoesOn
<1>4. op'.kind = op.kind /\ op'.key = op.key /\ op.amount \in Nat /\ op'.amount \in Nat
  BY <1>1, Numbers, Zenon DEF GoesOn, OpFields
<1>5. CASE op.kind = "open"
  <2>1. op'.amount <= peak[op.key]
    BY <1>1, <1>3, <1>4, <1>5, Zenon DEF OpFits, AddsUp
  <2>2. ASSUME op'.pc \notin BeforeMint, pos'[op'.nft].on = "open"
        PROVE  /\ pos'[op'.nft].liq + InFlight(op') <= op'.amount
               /\ op'.pc \notin {"confirmCreate", "created"}
    <3>1. ~(Fresh # {} /\ pos' = Minted(op.key) /\ op'.nft = FirstFresh)
      <4> SUFFICES ASSUME Fresh # {}, pos' = Minted(op.key), op'.nft = FirstFresh PROVE FALSE
        BY Zenon
      <4>1. FirstFresh \in Nfts /\ pos[FirstFresh].on = "unused"
        BY Zenon DEF OpAt
      <4> QED
        BY <2>2, <4>1, OpLeavesChain, Zenon DEF OnChain
    <3>2. /\ pos' = pos /\ op'.nft = op.nft /\ op'.amount = op.amount
          /\ op.pc \notin BeforeMint /\ op'.pc \notin {"confirmCreate", "created"}
          /\ \/ op'.st # "flying"
             \/ pos[op.nft].liq + op'.tx.liq <= op.amount
             \/ op.pc = "created" /\ op'.tx.liq = op.amount
      BY <1>1, <1>5, <2>2, <3>1, Zenon DEF AddsUp
    <3>3. /\ pos[op.nft].liq + InFlight(op) <= op.amount
          /\ op.pc \in {"confirmCreate", "created"} => pos[op.nft].liq = 0
      BY <1>1, <1>5, <2>2, <3>2, Zenon DEF OpFits, OnChain
    <3>4. op.nft \in Nfts /\ pos[op.nft].liq \in Nat /\ (op.st = "flying" => op.tx.liq \in Nat)
      BY <1>1, <3>2, Numbers, Zenon DEF Inv, OpOK, OpFields, Tx
    <3>5. pos[op.nft].liq + InFlight(op') <= op.amount
      BY <1>4, <3>2, <3>3, <3>4 DEF InFlight
    <3> QED
      BY <3>2, <3>5, Zenon
  <2> QED
    BY <1>1, <1>4, <1>5, <2>1, <2>2, Zenon DEF OpFits, OnChain, InFlight
<1>6. CASE op.kind = "increase"
  <2>1. op.nft \in Nfts /\ op'.nft = op.nft /\ pos' = pos /\ pos[op.nft].liq \in Nat
    <3>1. op.nft \in Nfts /\ pos[op.nft].liq \in Nat /\ None \notin Nfts
      BY <1>1, <1>6, Numbers, ChainAssumption DEF Nfts
    <3>2. op'.nft \in Nfts
      BY <1>1, <1>4, <1>6, Zenon DEF GoesOn, OpFields
    <3> QED
      BY <1>1, <1>6, <3>1, <3>2, Zenon DEF Mints
  <2>2. op'.st # "none" => op'.pc \in Awaits
    BY <1>1, MatchesMeans, Zenon DEF GoesOn, OpFields, Watched
  <2>3. \/ op'.pc \in {"read", "store"}
        \/ /\ op'.pc \in {"delta", "again"}
           /\ IF scenario.dex = "orca"
              THEN op'.amount = pos[op.nft].liq \/ (op.pc \in {"delta", "again"} /\ op'.amount = op.amount)
              ELSE op'.amount = target[op.key].liq
        \/ /\ op'.pc = "send" /\ op.pc = "delta"
           /\ IF scenario.dex = "orca" THEN op.amount + op'.amount = target[op.key].liq
              ELSE pos[op.nft].liq + op'.amount = op.amount
        \/ /\ op'.pc \in {"send", "confirm"} /\ op'.amount = op.amount
           /\ op.pc = "send" \/ (op.pc = "confirm" /\ op.st # "landed")
    BY <1>1, <1>6, MatchesMeans, Zenon DEF AddsUp
  <2>4. op'.st # "none" => op'.pc = "confirm"
    BY <2>2, <2>3, Zenon DEF Awaits
  <2>5. op'.pc \in {"delta", "again"} =>
          IF scenario.dex = "orca" THEN OnChain(op.nft) => op'.amount = pos[op.nft].liq
          ELSE op'.amount <= peak[op.key]
    BY <1>1, <1>3, <1>6, <2>3, Zenon DEF OpFits
  <2>6. OnChain(op.nft) /\ op'.pc \in {"send", "confirm"} => pos[op.nft].liq + op'.amount <= peak[op.key]
    BY <1>1, <1>3, <1>4, <1>6, <2>1, <2>3, Zenon DEF OpFits
  <2> QED
    BY <1>1, <1>4, <1>6, <2>1, <2>4, <2>5, <2>6, Zenon DEF OpFits, OnChain
<1> QED
  BY <1>5, <1>6, Zenon

LEMMA StepWithinPeak ==
  ASSUME Inv, OpAt, AllAwaited, TargetWithinPeak, WithinPeak, NextShape, UNCHANGED scenario
  PROVE  WithinPeak'
<1> SUFFICES ASSUME Matches PROVE OursFit' /\ OpFits'
  BY Zenon DEF WithinPeak, Matches, Promised
<1>1. OursFit /\ OpFits
  BY Zenon DEF WithinPeak
<1>2. CASE Elsewhere
  <2>1. \A t \in Targets : peak[t] \in Nat /\ peak'[t] \in Nat /\ peak[t] <= peak'[t]
    BY Numbers, StepTargetWithinPeak, Zenon
  <2> QED
    BY <1>1, <1>2, <2>1, Numbers DEF Elsewhere, OursFit, OpFits, OnChain, InFlight
<1>3. CASE Begins
  <2>1. UNCHANGED <<pos, peak>>
    BY <1>3, Zenon DEF Begins, world
  <2>2. OursFit'
    BY <1>1, <2>1, Zenon DEF OursFit, OnChain
  <2>3. \A t \in Targets : 0 <= peak'[t]
    BY <2>1, Numbers
  <2>4. OpFits'
    BY <1>3, <2>3, BegunForm, Zenon DEF OpFits, BeforeMint
  <2> QED
    BY <2>2, <2>4, Zenon
<1> QED
  BY <1>1, <1>2, <1>3, AnswersKeepPeak, OpKeepsPeak, WatchedSteps, MatchesMeans, Zenon

=============================================================================
