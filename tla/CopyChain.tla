------------------------------ MODULE CopyChain ------------------------------
(***************************************************************************)
(* What the executors of Orca, Meteora, DAMM v2 and PancakeSwap have in    *)
(* common, and what surrounds them: the target wallets, the chain, the     *)
(* operation queue (SerialExecutor says what it promises), the mapping     *)
(* with the target's liquidity as it was last stored, and the reconcile    *)
(* timer.  Each executor module extends this one with the steps of its own *)
(* operations and its own reconcile scan.                                  *)
(*                                                                         *)
(* Liquidity is a small number and the copy ratio 1, so that ours and the  *)
(* target's can be compared.  A transaction is awaited by the operation    *)
(* that sent it, until it lands, fails or expires; one whose sender has    *)
(* stopped waiting is "late" and may still land.                           *)
(*                                                                         *)
(* A behaviour belongs to a scenario, which says which executor is at work *)
(* and how much may happen, so that a property can say which kinds of      *)
(* fault it survives:                                                      *)
(*   missed       the monitor misses a target's transaction                *)
(*   readError    a read of an account errs or does not see it             *)
(*   expired      a transaction is refused or its blockhash expires        *)
(*   lostAck      a transaction lands but its confirmation throws          *)
(*   timeout      its confirmation throws while it is still on its way     *)
(*   notVerified  verifyTxSuccess() does not find a landed transaction     *)
(*   crash        the process dies and is started again                    *)
(*   chunked      (no fault) Meteora fills a position in several parts     *)
(***************************************************************************)
EXTENDS Naturals, Sequences, FiniteSets

CONSTANTS Targets,     \* positions of the targets
          MaxNfts,     \* bound: positions of ours ever created
          MaxLiq,      \* bound on a target's liquidity
          None,
          MaxQueue,    \* bound on the NORMAL queue for a scan to start
          Scenarios

Nfts == 1..MaxNfts
Liq == 0..MaxLiq
Dex == {"orca", "meteora", "dammv2", "pancakeswap"}
FaultKinds == {"missed", "readError", "expired", "lostAck", "timeout", "notVerified", "crash", "chunked"}

(* A scenario bounds the faults, what the targets do, the operations       *)
(* submitted by the dashboard, a target's liquidity and our positions.     *)
IsScenario(s) ==
  /\ DOMAIN s = {"dex", "kinds", "faults", "events", "userOps", "liq", "nfts"}
  /\ s.dex \in Dex /\ s.kinds \subseteq FaultKinds /\ s.liq \in 1..MaxLiq /\ s.nfts \in 1..MaxNfts
  /\ {s.faults, s.events, s.userOps} \subseteq Nat

ASSUME ChainAssumption ==
  /\ MaxNfts \in Nat /\ MaxLiq \in Nat \ {0} /\ IsFiniteSet(Targets)
  /\ None \notin Nat \cup Targets
  /\ MaxQueue \in Nat /\ \A s \in Scenarios : IsScenario(s)

VARIABLES scenario,
          target,   \* the targets' positions on chain
          pos,      \* our positions on chain, each a copy of a target's
          late,     \* transactions that nobody waits for any more
          map,      \* PositionMap: our position and the stored liquidity
          high, normal,  \* the operation queue
          op,       \* the operation being executed, or None
          scan,     \* the reconcile scan, or None
          loose,    \* history: liquidity withdrawn and not queued as pending swap
          peak,     \* history: the most liquidity a target has had
          displaced, \* history: positions whose entry a scan removed for an older one
          faults, events, userOps  \* counted for the bounds

world == <<target, pos, late, loose, peak>>
queues == <<high, normal>>
scans == <<scan, displaced>>
counts == <<faults, events, userOps>>
vars == <<scenario, world, map, queues, op, scans, counts>>

TxKind == {"open", "increase", "decrease", "close", "removeAll", "closeAll"}
OpKind == {"open", "increase", "decrease", "close", "fees", "manualClose"}

(* A transaction of ours: how much liquidity it adds or removes.           *)
Tx == [kind : TxKind, nft : Nfts, liq : Nat]
Item == [kind : OpKind, key : Targets \cup {None}, nft : Nfts \cup {None}]

(* Where an operation can be: the await that its next step follows.        *)
Places == {"read", "delta", "again", "share", "send", "ack", "confirm", "confirmRemove", "recover",
           "create", "created", "confirmCreate", "fill", "filled", "confirmPart", "confirmFill",
           "verify", "verifyFill", "store", "queue"}

(* The local variables of an operation: the NFT it works on, where it is,  *)
(* attempts made, the amount decided on (None: everything), the stored     *)
(* liquidity it compared with, the transaction it waits for and what has   *)
(* become of it, and what that one brought into the wallet.                *)
Op == [kind : OpKind, key : Targets, nft : Nfts \cup {None}, pc : Places, tries : Nat,
       amount : Nat \cup {None}, stored : Nat, tx : Tx \cup {None},
       st : {"none", "flying", "landed", "reverted", "expired"}, got : Nat]
Entry == [nft : Nfts, stored : Nat]
Scan == [todo : SUBSET (Targets \X Nfts), orphans : SUBSET Targets]

ASSUME NoneAssumption == None \notin Op \cup Entry \cup Scan

ChainTypeOK ==
  /\ target \in [Targets -> [on : {"none", "open", "closed"}, liq : Liq]]
  /\ pos \in [Nfts -> [on : {"unused", "minted", "open", "closed"}, liq : Nat, copy : Targets \cup {None}]]
  /\ late \in Seq(Tx)
  /\ map \in [Targets -> Entry \cup {None}]
  /\ high \in Seq(Item) /\ normal \in Seq(Item)
  /\ op \in Op \cup {None}
  /\ scan \in Scan \cup {None}
  /\ loose \in Nat /\ peak \in [Targets -> Liq] /\ displaced \subseteq Nfts
  /\ scenario \in Scenarios
  /\ faults \in 0..scenario.faults /\ events \in 0..scenario.events /\ userOps \in 0..scenario.userOps

Init ==
  /\ scenario \in Scenarios
  /\ target = [t \in Targets |-> [on |-> "none", liq |-> 0]]
  /\ pos = [n \in Nfts |-> [on |-> "unused", liq |-> 0, copy |-> None]]
  /\ late = <<>>
  /\ map = [t \in Targets |-> None]
  /\ high = <<>> /\ normal = <<>>
  /\ op = None /\ scan = None
  /\ loose = 0 /\ peak = [t \in Targets |-> 0] /\ displaced = {}
  /\ faults = 0 /\ events = 0 /\ userOps = 0

Fault(kind) == kind \in scenario.kinds /\ faults < scenario.faults /\ faults' = faults + 1
NoFault == UNCHANGED faults

-----------------------------------------------------------------------------
(* The targets.  The monitor turns their transaction into an event of the  *)
(* HIGH queue, or misses it.                                               *)

TargetActs(t, now, kind) ==
  /\ events < scenario.events /\ events' = events + 1
  /\ now.liq <= scenario.liq
  /\ target' = [target EXCEPT ![t] = now]
  /\ peak' = [peak EXCEPT ![t] = IF now.liq > @ THEN now.liq ELSE @]
  /\ \/ high' = Append(high, [kind |-> kind, key |-> t, nft |-> None]) /\ NoFault
     \/ high' = high /\ Fault("missed")
  /\ UNCHANGED <<pos, late, loose, map, normal, op, scans, userOps>>

TargetOpens(t) ==
  /\ target[t].on = "none"
  /\ \E l \in Liq \ {0} : TargetActs(t, [on |-> "open", liq |-> l], "open")

TargetIncreases(t) ==
  /\ target[t].on = "open"
  /\ \E l \in Liq : l > target[t].liq /\ TargetActs(t, [on |-> "open", liq |-> l], "increase")

TargetDecreases(t) ==
  /\ target[t].on = "open"
  /\ \E l \in Liq : l < target[t].liq /\ TargetActs(t, [on |-> "open", liq |-> l], "decrease")

(* Collecting fees looks like a decrease that removes nothing.             *)
TargetCollects(t) ==
  /\ target[t].on = "open" /\ target[t].liq > 0
  /\ TargetActs(t, target[t], "decrease")

TargetCloses(t) ==
  /\ target[t].on = "open"
  /\ TargetActs(t, [on |-> "closed", liq |-> 0], "close")

TargetStep ==
  \E t \in Targets : TargetOpens(t) \/ TargetIncreases(t) \/ TargetDecreases(t)
                       \/ TargetCollects(t) \/ TargetCloses(t)

-----------------------------------------------------------------------------
(* The chain.                                                              *)

OnChain(n) == pos[n].on = "open"

(* A transaction that no longer fits fails and changes nothing: a close    *)
(* removes the liquidity its sender saw, and a position with any left      *)
(* cannot be closed.  removeAll and closeAll take what is there.           *)
Fits(tx) ==
  CASE tx.kind = "open" -> pos[tx.nft].on = "minted"
    [] tx.kind \in {"increase", "removeAll", "closeAll"} -> OnChain(tx.nft)
    [] tx.kind = "decrease" -> OnChain(tx.nft) /\ tx.liq <= pos[tx.nft].liq
    [] tx.kind = "close" -> OnChain(tx.nft) /\ tx.liq = pos[tx.nft].liq

Executed(tx) ==
  CASE tx.kind = "open" -> [pos EXCEPT ![tx.nft].on = "open", ![tx.nft].liq = tx.liq]
    [] tx.kind = "increase" -> [pos EXCEPT ![tx.nft].liq = @ + tx.liq]
    [] tx.kind = "decrease" -> [pos EXCEPT ![tx.nft].liq = @ - tx.liq]
    [] tx.kind = "removeAll" -> [pos EXCEPT ![tx.nft].liq = 0]
    [] tx.kind \in {"close", "closeAll"} -> [pos EXCEPT ![tx.nft].on = "closed", ![tx.nft].liq = 0]

(* What it pays out to the wallet.                                         *)
Paid(tx) ==
  CASE tx.kind = "decrease" -> tx.liq
    [] tx.kind \in {"close", "removeAll", "closeAll"} -> pos[tx.nft].liq
    [] OTHER -> 0

Flying == op # None /\ op.st = "flying"

Lands ==
  /\ Flying
  /\ IF Fits(op.tx)
     THEN /\ pos' = Executed(op.tx) /\ loose' = loose + Paid(op.tx)
          /\ op' = [op EXCEPT !.st = "landed", !.got = Paid(op.tx)]
     ELSE op' = [op EXCEPT !.st = "reverted"] /\ UNCHANGED <<pos, loose>>
  /\ UNCHANGED <<target, late, peak, map, queues, scans, counts>>

Without(s, i) == SubSeq(s, 1, i - 1) \o SubSeq(s, i + 1, Len(s))

LateLands ==
  /\ \E i \in DOMAIN late :
       /\ late' = Without(late, i)
       /\ IF Fits(late[i]) THEN pos' = Executed(late[i]) /\ loose' = loose + Paid(late[i])
                           ELSE UNCHANGED <<pos, loose>>
  /\ UNCHANGED <<target, peak, map, queues, op, scans, counts>>

Expires ==
  /\ Fault("expired")
  /\ \/ Flying /\ op' = [op EXCEPT !.st = "expired"] /\ UNCHANGED late
     \/ UNCHANGED op /\ \E i \in DOMAIN late : late' = Without(late, i)
  /\ UNCHANGED <<target, pos, loose, peak, map, queues, scans, events, userOps>>

ChainStep == Lands \/ LateLands

(* Sending, and the two ways in which the wait for a confirmation ends.    *)
Sending(tx, pc) == [op EXCEPT !.tx = tx, !.st = "flying", !.pc = pc, !.nft = tx.nft, !.got = 0]

Confirmed == op # None /\ op.st = "landed" /\ NoFault /\ UNCHANGED late

Throws ==
  /\ op # None
  /\ \/ op.st \in {"reverted", "expired"} /\ NoFault /\ UNCHANGED late
     \/ op.st = "landed" /\ Fault("lostAck") /\ UNCHANGED late
     \/ op.st = "flying" /\ Fault("timeout") /\ late' = Append(late, op.tx)

(* Nothing is awaited any more.                                            *)
Settled(pc) == [op EXCEPT !.pc = pc, !.tx = None, !.st = "none"]

(* Reading a position: its liquidity, None if it is not there.  ReadsTarget *)
(* and ReadsOurs are reads that give None as well when they err; elsewhere *)
(* an error is an exception.                                               *)
TargetLiq(t) == IF target[t].on = "open" THEN target[t].liq ELSE None
OurLiq(n) == IF OnChain(n) THEN pos[n].liq ELSE None
ReadErrs == Fault("readError")

Reads(value, r) == (r = value /\ NoFault) \/ (value # None /\ r = None /\ ReadErrs)
ReadsTarget(t, r) == Reads(TargetLiq(t), r)
ReadsOurs(n, r) == Reads(OurLiq(n), r)

Fresh == {n \in 1..scenario.nfts : pos[n].on = "unused"}
FirstFresh == CHOOSE n \in Fresh : \A m \in Fresh : n <= m
Minted(t) == [pos EXCEPT ![FirstFresh].on = "minted", ![FirstFresh].copy = t]

At(kind, pc) == op # None /\ op.kind = kind /\ op.pc = pc
Done == op' = None
opLeaves == UNCHANGED <<target, peak, queues, scans, events, userOps>>

-----------------------------------------------------------------------------
(* The mapping and the queue.                                              *)

Mapped == {map[t].nft : t \in {u \in Targets : map[u] # None}}

SetMapping(t, n, stored) == map' = [map EXCEPT ![t] = [nft |-> n, stored |-> stored]]
SetTargetLiquidity(t, l) ==
  map' = IF map[t] = None THEN map ELSE [map EXCEPT ![t].stored = l]
DeleteMapping(t) == map' = [map EXCEPT ![t] = None]
EntryOf(t) == IF map[t] = None THEN {} ELSE {map[t].nft}
getTargetLiquidity(t) == IF map[t] = None THEN None ELSE map[t].stored

Running(kind, t, n, pc) ==
  [kind |-> kind, key |-> t, nft |-> n, pc |-> pc, tries |-> 0, amount |-> 0, stored |-> 0,
   tx |-> None, st |-> "none", got |-> 0]

(* findByOurNft()                                                          *)
TargetsOf(n) == {t \in Targets : map[t] # None /\ map[t].nft = n}

(* drain() takes the next item.  OrcaStart and its like say what it may    *)
(* become up to its first await: None when it returns at once.             *)
NextItem == Head(high \o normal)

TakeNext ==
  /\ op = None
  /\ \/ high # <<>> /\ high' = Tail(high) /\ UNCHANGED normal
     \/ high = <<>> /\ normal # <<>> /\ normal' = Tail(normal) /\ UNCHANGED high
  /\ UNCHANGED <<world, map, scans, counts>>

(* The dashboard opens a target or closes a position by hand: executeNow() *)
(* goes before the queue.                                                  *)
DashboardItem ==
  [kind : {"open"}, key : Targets, nft : {None}]
    \cup [kind : {"manualClose"}, key : {None}, nft : Mapped]

TakeFromDashboard ==
  /\ op = None
  /\ userOps < scenario.userOps /\ userOps' = userOps + 1
  /\ UNCHANGED <<world, map, queues, scans, faults, events>>

(* The process dies: what it was waiting for is late.  What the mapping    *)
(* loses with it is PositionStore's concern; here it is kept.              *)
Crash ==
  /\ Fault("crash")
  /\ late' = IF Flying THEN Append(late, op.tx) ELSE late
  /\ op' = None /\ scan' = None /\ high' = <<>> /\ normal' = <<>>
  /\ UNCHANGED <<target, pos, loose, peak, map, displaced, events, userOps>>

(* The reconcile timer: a scan over the entries as they are when it        *)
(* starts.                                                                 *)
ScanStarts ==
  /\ scan = None
  /\ \E t \in Targets : map[t] # None
  /\ Len(normal) < MaxQueue
  /\ scan' = [todo |-> {<<t, map[t].nft>> : t \in {u \in Targets : map[u] # None}}, orphans |-> {}]
  /\ UNCHANGED <<world, map, displaced, queues, op, counts>>

(* What a scan found is queued at NORMAL priority, in the order in which   *)
(* the mapping listed it.                                                  *)
QueueOrphans(kind) ==
  /\ scan # None /\ scan.todo = {}
  /\ \E order \in [1..Cardinality(scan.orphans) -> scan.orphans] :
       /\ scan.orphans \subseteq {order[i] : i \in DOMAIN order}
       /\ normal' = normal \o [i \in DOMAIN order |-> [kind |-> kind, key |-> order[i], nft |-> None]]
  /\ scan' = None
  /\ UNCHANGED <<world, map, displaced, high, op, counts>>

ScanEnds == QueueOrphans("close")

Emptied(t) == target[t].on = "open" /\ target[t].liq = 0

Quiet == op = None /\ high = <<>> /\ normal = <<>> /\ late = <<>>

(* The scenario is one whose faults the promise survives; survives gives   *)
(* the kinds for each executor that makes the promise at all.              *)
Promised(survives) ==
  scenario.dex \in DOMAIN survives /\ scenario.kinds \subseteq survives[scenario.dex]

=============================================================================
