--------------------------- MODULE ByrealPositions ---------------------------
(***************************************************************************)
(* The life of the copied Byreal positions: src/executor/byreal-position.ts *)
(* opens, changes and closes our positions in step with the targets', and  *)
(* keeps the mapping target NFT -> our NFT that all of it depends on.      *)
(*                                                                         *)
(* Actors: the target wallets; the chain, on which a transaction that was  *)
(* sent lands later or expires; the operation queue, which executes one    *)
(* operation at a time (OperationQueue and SerialExecutor say why), target *)
(* events at HIGH priority, clean-up closes at NORMAL, the dashboard's     *)
(* operations at once; the reconcile scan, which runs beside the queue;    *)
(* the write chain, which persists the mapping with a delay                *)
(* (PositionStore); and crashes.                                           *)
(*                                                                         *)
(* Liquidity is abstracted to "some" (live) and "none" (empty); whether    *)
(* the filters of copyOpenPosition accept a position is left open.  A send *)
(* that fails, a read that errs or lags, a lost event, an expired          *)
(* transaction and a crash are faults, bounded by MaxFaults.               *)
(***************************************************************************)
EXTENDS Naturals, Sequences, FiniteSets

CONSTANTS Targets,      \* NFTs of the target positions
          MaxNfts,      \* bound: NFT keypairs we ever generate
          None,
          Cap,          \* config.byrealMaxOpenPositions, 0 for no cap
          MaxTries,     \* bound on the sends of one operation
          MaxFaults,    \* bound
          MaxCrashes,   \* bound
          MaxUserOps,   \* bound: operations submitted by the dashboard
          MaxEvents,    \* bound: what the targets do
          MaxQueue      \* bound on the NORMAL queue for a scan to start

Nfts == 1..MaxNfts

ASSUME NftAssumption ==
  /\ MaxNfts \in Nat /\ IsFiniteSet(Targets)
  /\ None \notin Nfts \cup Targets /\ Targets \cap Nfts = {}
ASSUME PositionBoundsAssumption ==
  /\ Cap \in Nat /\ MaxTries \in Nat \ {0}
  /\ MaxFaults \in Nat /\ MaxCrashes \in Nat /\ MaxUserOps \in Nat /\ MaxEvents \in Nat /\ MaxQueue \in Nat

(* A mapping's key is a target's NFT or, for a position that the audit     *)
(* imported, our own.                                                      *)
Keys == Targets \cup Nfts

VARIABLES target,    \* the targets' positions
          pos,       \* our positions; "minted": keypair generated, not on chain
          inflight,  \* transactions sent, neither landed nor expired
          map,       \* PositionMap in memory
          saved,     \* PositionMap as a restart would load it
          high, normal,  \* the operation queue
          op,        \* the operation being executed, or None
          scan,      \* the reconcile scan, or None
          acked,     \* history: NFTs whose open the RPC node accepted
          excused,   \* history: positions that escaped the mapping in one of
                     \* the ways named at the steps that add to it
          faults, crashes, userOps, events  \* counted for the bounds

world == <<target, pos, inflight>>
vars == <<target, pos, inflight, map, saved, high, normal, op, scan,
          acked, excused, faults, crashes, userOps, events>>

TxKind == {"open", "increase", "decrease", "close"}
OpKind == TxKind \cup {"orphan", "manualClose", "audit"}

(* A queued operation: what, for which key, on which position of ours.     *)
Item == [kind : OpKind, key : Keys \cup {None}, nft : Nfts \cup {None}]
Op == [kind : OpKind, key : Keys \cup {None}, nft : Nfts \cup {None},
       pc : {"read", "send", "confirm", "verify", "import"}, tries : 0..MaxTries, seen : SUBSET Nfts]
ASSUME NoneAssumption == None \notin Op
Entry == Keys \X Nfts
Scan == [todo : SUBSET Entry, checking : Entry \cup {None}, orphans : SUBSET Entry]

TypeOK ==
  /\ target \in [Targets -> {"none", "open", "empty", "closed"}]
  /\ pos \in [Nfts -> {"unused", "minted", "live", "empty", "gone"}]
  /\ inflight \in SUBSET (TxKind \X Nfts)
  /\ map \in [Keys -> Nfts \cup {None}]
  /\ saved \in [Keys -> Nfts \cup {None}]
  /\ high \in Seq(Item) /\ normal \in Seq(Item)
  /\ op \in Op \cup {None}
  /\ scan \in Scan \cup {None}
  /\ acked \in SUBSET Nfts /\ excused \in SUBSET Nfts
  /\ faults \in 0..MaxFaults /\ crashes \in 0..MaxCrashes /\ userOps \in 0..MaxUserOps /\ events \in 0..MaxEvents

Init ==
  /\ target = [t \in Targets |-> "none"]
  /\ pos = [n \in Nfts |-> "unused"]
  /\ inflight = {}
  /\ map = [k \in Keys |-> None]
  /\ saved = map
  /\ high = <<>> /\ normal = <<>>
  /\ op = None /\ scan = None
  /\ acked = {} /\ excused = {}
  /\ faults = 0 /\ crashes = 0 /\ userOps = 0 /\ events = 0

OnChain(n) == pos[n] \in {"live", "empty"}
Mapped == {map[k] : k \in Keys} \ {None}
Fault == faults < MaxFaults /\ faults' = faults + 1
NoFault == UNCHANGED faults

-----------------------------------------------------------------------------
(* The targets and the chain.                                              *)

(* A target acts and the monitor turns the transaction into an event of    *)
(* the HIGH queue, or misses it.                                           *)
TargetActs(t, from, to, kind) ==
  /\ target[t] \in from
  /\ target' = [target EXCEPT ![t] = to]
  /\ events < MaxEvents /\ events' = events + 1
  /\ \/ high' = Append(high, [kind |-> kind, key |-> t, nft |-> None]) /\ NoFault
     \/ high' = high /\ Fault
  /\ UNCHANGED <<pos, inflight, map, saved, normal, op, scan, acked, excused, crashes, userOps>>

targetOpens(t) == TargetActs(t, {"none"}, "open", "open")
targetEmpties(t) == TargetActs(t, {"open"}, "empty", "decrease")
targetRefills(t) == TargetActs(t, {"empty"}, "open", "increase")
targetCloses(t) == TargetActs(t, {"open", "empty"}, "closed", "close")

(* What a transaction does to our position when it is executed; one that   *)
(* no longer fits fails and changes nothing.                               *)
Executed(kind, state) ==
  CASE kind = "open" /\ state = "minted" -> "live"
    [] kind = "increase" /\ state = "empty" -> "live"
    [] kind = "decrease" /\ state = "live" -> "empty"
    [] kind = "close" /\ state \in {"live", "empty"} -> "gone"
    [] OTHER -> state

lands(tx) ==
  /\ tx \in inflight
  /\ inflight' = inflight \ {tx}
  /\ pos' = [pos EXCEPT ![tx[2]] = Executed(tx[1], @)]
  /\ UNCHANGED <<target, map, saved, high, normal, op, scan, acked, excused, faults, crashes, userOps, events>>

(* The blockhash expires first.  Whoever unmapped a position on the        *)
(* strength of a close that never lands has lost it (manualClosePosition). *)
expires(tx) ==
  /\ tx \in inflight
  /\ Fault
  /\ inflight' = inflight \ {tx}
  /\ excused' = IF tx[1] = "close" /\ tx[2] \notin Mapped THEN excused \cup {tx[2]} ELSE excused
  /\ UNCHANGED <<target, pos, map, saved, high, normal, op, scan, acked, crashes, userOps, events>>

-----------------------------------------------------------------------------
(* The operation queue.                                                    *)

CapOverrun == Cap > 0 /\ Cardinality({k \in Keys : map[k] # None}) > Cap

(* getByrealPositionCapStatus().reached *)
CapReached == Cap > 0 /\ Cardinality({k \in Keys : map[k] # None}) >= Cap

Running(item, key, n, pc) ==
  [kind |-> item.kind, key |-> key, nft |-> n, pc |-> pc, tries |-> 0, seen |-> {}]

(* findByOurNft(): some entry that maps to n, if there is one.             *)
FindByOurNft(n) ==
  IF n \in Mapped THEN CHOOSE k \in Keys : map[k] = n ELSE None

(* The synchronous beginning of an operation, up to its first await: None  *)
(* when it returns at once.                                                *)
StartOpen(item) ==
  IF map[item.key] # None \/ CapReached THEN {None} ELSE {Running(item, item.key, None, "read")}
StartOnMapped(item, pc) ==
  IF map[item.key] = None THEN {None} ELSE {Running(item, item.key, map[item.key], pc)}
StartOrphanClose(item) == {Running(item, item.key, item.nft, "send")}
StartManualClose(item) == {Running(item, FindByOurNft(item.nft), item.nft, "send")}
StartAudit(item) == {Running(item, None, None, "read")}

Start(item) ==
  CASE item.kind = "open" -> StartOpen(item)
    [] item.kind \in {"increase", "decrease"} -> StartOnMapped(item, "read")
    [] item.kind = "close" -> StartOnMapped(item, "send")
    [] item.kind = "orphan" -> StartOrphanClose(item)
    [] item.kind = "manualClose" -> StartManualClose(item)
    [] item.kind = "audit" -> StartAudit(item)

(* The queue starts its next item. *)
dispatch ==
  /\ op = None
  /\ \/ high # <<>> /\ op' \in Start(Head(high)) /\ high' = Tail(high) /\ UNCHANGED normal
     \/ high = <<>> /\ normal # <<>> /\ op' \in Start(Head(normal)) /\ normal' = Tail(normal)
        /\ UNCHANGED high
  /\ UNCHANGED <<world, map, saved, scan, acked, excused, faults, crashes, userOps, events>>

(* The dashboard: open a target by hand, close a position by hand, audit   *)
(* the wallet; executeNow() goes before the queue.                         *)
dashboard(item) ==
  /\ op = None
  /\ userOps < MaxUserOps /\ userOps' = userOps + 1
  /\ op' \in Start(item)
  /\ UNCHANGED <<world, map, saved, high, normal, scan, acked, excused, faults, crashes, events>>

DashboardItem ==
  [kind : {"open"}, key : Targets, nft : {None}]
    \cup [kind : {"manualClose"}, key : {None}, nft : {n \in Nfts : pos[n] # "unused"}]
    \cup [kind : {"audit"}, key : {None}, nft : {None}]
-----------------------------------------------------------------------------
(* The steps of the operation being executed.                              *)

Sent(kind, n) == <<kind, n>> \in inflight
Fresh == {n \in Nfts : pos[n] = "unused"}
FirstFresh == CHOOSE n \in Fresh : \A m \in Fresh : n <= m

(* delete() of an entry; n is the position whose state led to it.  What    *)
(* escapes the mapping: a position whose open has not landed yet, one that *)
(* has replaced n under this key since, and n itself if it is on chain.    *)
RemoveEntry(key, n) ==
  IF key = None \/ map[key] = None THEN UNCHANGED <<map, excused>>
  ELSE /\ map' = [map EXCEPT ![key] = None]
       /\ excused' = IF map[key] # n \/ Sent("open", n) \/ OnChain(n)
                     THEN excused \cup {map[key]} ELSE excused

(* The close of n has been executed, or is about to be.                    *)
RemoveClosedEntry(key, n) ==
  IF key = None \/ map[key] = None THEN UNCHANGED <<map, excused>>
  ELSE /\ map' = [map EXCEPT ![key] = None]
       /\ excused' = IF map[key] # n THEN excused \cup {map[key]} ELSE excused

opLeaves == UNCHANGED <<target, saved, high, normal, scan, crashes, userOps, events>>

(* copyOpenPosition reads the target's position, which must still be there *)
(* and pass the filters, and mints the NFT.                                *)
openReads ==
  /\ op # None /\ op.kind = "open" /\ op.pc = "read"
  /\ \/ /\ target[op.key] = "open" /\ Fresh # {}
        /\ op' = [op EXCEPT !.pc = "send", !.nft = FirstFresh]
        /\ pos' = [pos EXCEPT ![FirstFresh] = "minted"]
     \/ op' = None /\ UNCHANGED pos
  /\ UNCHANGED <<inflight, map, acked, excused, faults>> /\ opLeaves

(* The node accepts the open: the mapping is saved before the              *)
(* confirmation.                                                           *)
openSent ==
  /\ op # None /\ op.kind = "open" /\ op.pc = "send"
  /\ pos[op.nft] = "minted"
  /\ inflight' = inflight \cup {<<"open", op.nft>>}
  /\ acked' = acked \cup {op.nft}
  /\ map' = [map EXCEPT ![op.key] = op.nft]
  /\ op' = [op EXCEPT !.pc = "confirm"]
  /\ UNCHANGED <<pos, excused, faults>> /\ opLeaves

(* The confirmation, or its timeout: "best-effort, mapping already saved". *)
openConfirms ==
  /\ op # None /\ op.kind = "open" /\ op.pc = "confirm"
  /\ \/ ~Sent("open", op.nft) /\ NoFault
     \/ Sent("open", op.nft) /\ Fault
  /\ op' = None
  /\ UNCHANGED <<pos, inflight, map, acked, excused>> /\ opLeaves

(* The send throws; the transaction may be on its way all the same.  The   *)
(* same NFT is tried again (retryOnTransient), or a new one (a failed      *)
(* simulation, which sent nothing: by a fault, or since the lost send has  *)
(* landed), or the open is given up: what was sent escapes the mapping.    *)
Escapes(n) == IF <<"open", n>> \in inflight' \/ OnChain(n) THEN excused \cup {n} ELSE excused

openFails(sent) ==
  /\ op # None /\ op.kind = "open" /\ op.pc = "send"
  /\ IF pos[op.nft] = "minted" THEN Fault ELSE ~sent /\ NoFault
  /\ inflight' = IF sent THEN inflight \cup {<<"open", op.nft>>} ELSE inflight
  /\ \/ /\ op.tries < MaxTries - 1 /\ pos[op.nft] = "minted"
        /\ op' = [op EXCEPT !.tries = @ + 1]
        /\ UNCHANGED <<pos, excused>>
     \/ /\ op.tries < MaxTries - 1 /\ Fresh # {} /\ ~sent
        /\ op' = [op EXCEPT !.tries = @ + 1, !.nft = FirstFresh]
        /\ pos' = [pos EXCEPT ![FirstFresh] = "minted"]
        /\ excused' = Escapes(op.nft)
     \/ op' = None /\ excused' = Escapes(op.nft) /\ UNCHANGED pos
  /\ UNCHANGED <<map, acked>> /\ opLeaves

(* copyDecreaseLiquidity and copyIncreaseLiquidity read the target.  A     *)
(* partial decrease or a collection of fees leaves our position live and   *)
(* is not distinguished here; a target that cannot be read is taken for    *)
(* empty ("full decrease for safety").                                     *)
decreaseReads ==
  /\ op # None /\ op.kind = "decrease" /\ op.pc = "read"
  /\ \/ target[op.key] # "open" /\ op' = [op EXCEPT !.pc = "send"] /\ NoFault
     \/ target[op.key] = "open" /\ op' = [op EXCEPT !.pc = "send"] /\ Fault
     \/ target[op.key] = "open" /\ op' = None /\ NoFault
  /\ UNCHANGED <<pos, inflight, map, acked, excused>> /\ opLeaves

increaseReads ==
  /\ op # None /\ op.kind = "increase" /\ op.pc = "read"
  /\ \/ target[op.key] = "open" /\ op' = [op EXCEPT !.pc = "send"]
     \/ op' = None
  /\ UNCHANGED <<pos, inflight, map, acked, excused, faults>> /\ opLeaves

ChangeSent(kind) ==
  /\ op # None /\ op.kind = kind /\ op.pc = "send"
  /\ OnChain(op.nft)
  /\ inflight' = inflight \cup {<<kind, op.nft>>}
  /\ op' = None
  /\ UNCHANGED <<pos, map, acked, excused, faults>> /\ opLeaves

decreaseSent == ChangeSent("decrease")
increaseSent == ChangeSent("increase")

(* copyClosePosition and closeOrphan wait for the outcome;                 *)
(* manualClosePosition removes the mapping as soon as the node accepts.    *)
CloseSent(kind) ==
  /\ op # None /\ op.kind = kind /\ op.pc = "send"
  /\ OnChain(op.nft)
  /\ inflight' = inflight \cup {<<"close", op.nft>>}
  /\ op' = [op EXCEPT !.pc = "verify"]
  /\ UNCHANGED <<pos, map, acked, excused, faults>> /\ opLeaves

closeSent == CloseSent("close")
orphanCloseSent == CloseSent("orphan")

manualCloseSent ==
  /\ op # None /\ op.kind = "manualClose" /\ op.pc = "send"
  /\ OnChain(op.nft)
  /\ inflight' = inflight \cup {<<"close", op.nft>>}
  /\ RemoveClosedEntry(op.key, op.nft)
  /\ op' = None
  /\ UNCHANGED <<pos, acked, faults>> /\ opLeaves

(* A send on an existing position throws: again, or given up.              *)
sendFails(sent) ==
  /\ op # None /\ op.kind # "open" /\ op.pc = "send"
  /\ OnChain(op.nft)
  /\ Fault
  /\ LET tx == IF op.kind \in {"increase", "decrease"} THEN op.kind ELSE "close"
     IN  inflight' = IF sent THEN inflight \cup {<<tx, op.nft>>} ELSE inflight
  /\ \/ op.tries < MaxTries - 1 /\ op' = [op EXCEPT !.tries = @ + 1]
     \/ op' = None
  /\ UNCHANGED <<pos, map, acked, excused>> /\ opLeaves

(* The position does not exist.  The copy operations keep the mapping; the *)
(* two clean-up operations remove it, manualClosePosition after looking    *)
(* for it once more.                                                       *)
GoneFor(kinds) ==
  /\ op # None /\ op.kind \in kinds /\ op.pc = "send"
  /\ ~OnChain(op.nft)
  /\ op' = None
  /\ UNCHANGED <<pos, inflight, acked, faults>> /\ opLeaves

ManualKey == IF op.key # None THEN op.key ELSE FindByOurNft(op.nft)

copyFindsGone == GoneFor({"close", "increase", "decrease"}) /\ UNCHANGED <<map, excused>>
orphanFindsGone == GoneFor({"orphan"}) /\ RemoveEntry(op.key, op.nft)
manualFindsGone == GoneFor({"manualClose"}) /\ RemoveEntry(ManualKey, op.nft)

(* The last try fails with "Blockhash not found": a transient error, but   *)
(* its text is what the clean-up operations take for a position that is    *)
(* gone.                                                                   *)
BlockhashNotFound(kind) ==
  /\ op # None /\ op.kind = kind /\ op.pc = "send"
  /\ OnChain(op.nft) /\ op.tries = MaxTries - 1
  /\ Fault
  /\ op' = None
  /\ UNCHANGED <<pos, inflight, acked>> /\ opLeaves

orphanBlockhash == BlockhashNotFound("orphan") /\ RemoveEntry(op.key, op.nft)
manualBlockhash == BlockhashNotFound("manualClose") /\ RemoveEntry(ManualKey, op.nft)

(* verifyTxSuccess() *)
Verified(kind) ==
  /\ op # None /\ op.kind = kind /\ op.pc = "verify"
  /\ pos[op.nft] = "gone"
  /\ RemoveClosedEntry(op.key, op.nft)
  /\ op' = None
  /\ UNCHANGED <<pos, inflight, acked, faults>> /\ opLeaves

closeVerified == Verified("close")
orphanCloseVerified == Verified("orphan")

DeletesUnverified ==
  /\ op # None /\ op.pc = "verify"
  /\ IF Sent("close", op.nft) \/ pos[op.nft] = "gone" THEN Fault ELSE NoFault
  /\ RemoveClosedEntry(op.key, op.nft)
  /\ op' = None
  /\ UNCHANGED <<pos, inflight, acked>> /\ opLeaves

(* It found the transaction failed, or did not find it: the attempt is     *)
(* repeated (copyClosePosition) or the mapping kept.                       *)
closeNotVerified ==
  /\ op # None /\ op.pc = "verify"
  /\ IF Sent("close", op.nft) \/ pos[op.nft] = "gone" THEN Fault ELSE NoFault
  /\ \/ op.kind = "close" /\ op.tries < MaxTries - 1
        /\ op' = [op EXCEPT !.pc = "send", !.tries = @ + 1]
     \/ op' = None
  /\ UNCHANGED <<pos, inflight, map, acked, excused>> /\ opLeaves

(* The on-chain audit: the positions in the wallet (or fewer, when a read  *)
(* fails) that nothing maps are mapped to themselves and queued to be      *)
(* closed.                                                                 *)
auditReads ==
  /\ op # None /\ op.kind = "audit" /\ op.pc = "read"
  /\ \E S \in SUBSET {n \in Nfts : OnChain(n)} :
       /\ IF \A n \in Nfts : OnChain(n) => n \in S THEN NoFault ELSE Fault
       /\ op' = [op EXCEPT !.pc = "import", !.seen = S]
  /\ UNCHANGED <<pos, inflight, map, acked, excused>> /\ opLeaves

AllSeen(seen) == seen

(* diffByrealNftAudit().unmappedOnChain *)
Unmapped(seen) == seen \ Mapped

(* The orders in which a set of items can be queued.                       *)
Orders(S) == {s \in [1..Cardinality(S) -> S] : S \subseteq {s[i] : i \in DOMAIN s}}

auditImports ==
  /\ op # None /\ op.kind = "audit" /\ op.pc = "import"
  /\ LET imported == Unmapped(op.seen)
     IN  /\ map' = [k \in Keys |-> IF k \in imported THEN k ELSE map[k]]
         /\ \E items \in Orders([kind : {"manualClose"}, key : {None}, nft : imported]) :
              normal' = normal \o items
         /\ excused' = excused \ imported
  /\ op' = None
  /\ UNCHANGED <<target, pos, inflight, saved, high, scan, acked, faults, crashes, userOps, events>>

-----------------------------------------------------------------------------
(* The reconcile scan, beside the queue.                                   *)

scanLeaves == UNCHANGED <<world, saved, high, op, acked, crashes, userOps, events>>

ScansUnmappedToo ==
  /\ scan = None
  /\ Len(normal) < MaxQueue
  /\ scan' = [todo |-> {<<k, map[k]>> : k \in Keys}, checking |-> None, orphans |-> {}]
  /\ UNCHANGED <<map, normal, excused, faults>> /\ scanLeaves

(* The scan runs over the entries as they are when it starts.              *)
scanStarts ==
  /\ scan = None
  /\ \E k \in Keys : map[k] # None
  /\ Len(normal) < MaxQueue
  /\ scan' = [todo |-> {<<k, map[k]>> : k \in {k \in Keys : map[k] # None}},
              checking |-> None, orphans |-> {}]
  /\ UNCHANGED <<map, normal, excused, faults>> /\ scanLeaves

(* The target's position is gone or has no liquidity.                      *)
TargetOrphaned(key) == IF key \in Targets THEN target[key] # "open" ELSE pos[key] # "live"

scanChecksTarget ==
  /\ scan # None /\ scan.checking = None
  /\ \E e \in scan.todo :
       \/ TargetOrphaned(e[1]) /\ NoFault
          /\ scan' = [scan EXCEPT !.todo = @ \ {e}, !.checking = e]
       \/ ~TargetOrphaned(e[1]) /\ NoFault /\ scan' = [scan EXCEPT !.todo = @ \ {e}]
       \/ Fault /\ scan' = [scan EXCEPT !.todo = @ \ {e}]
  /\ UNCHANGED <<map, normal, excused>> /\ scanLeaves

KeepsGoneEntry ==
  /\ scan # None /\ scan.checking # None
  /\ scan' = IF pos[scan.checking[2]] = "live"
             THEN [scan EXCEPT !.checking = None, !.orphans = @ \cup {scan.checking}]
             ELSE [scan EXCEPT !.checking = None]
  /\ UNCHANGED <<map, excused, faults, normal>> /\ scanLeaves

(* Our position of the same entry: gone or without liquidity, the mapping  *)
(* is removed; there, its close is due; not readable, the entry is left.   *)
scanChecksOurs ==
  /\ scan # None /\ scan.checking # None
  /\ LET e == scan.checking
     IN  \/ pos[e[2]] # "live" /\ NoFault
            /\ RemoveEntry(e[1], e[2]) /\ scan' = [scan EXCEPT !.checking = None]
         \/ pos[e[2]] = "live" /\ NoFault
            /\ scan' = [scan EXCEPT !.checking = None, !.orphans = @ \cup {e}]
            /\ UNCHANGED <<map, excused>>
         \/ Fault /\ scan' = [scan EXCEPT !.checking = None] /\ UNCHANGED <<map, excused>>
  /\ UNCHANGED normal /\ scanLeaves

scanEnds ==
  /\ scan # None /\ scan.checking = None /\ scan.todo = {}
  /\ \E items \in Orders({[kind |-> "orphan", key |-> e[1], nft |-> e[2]] : e \in scan.orphans}) :
       normal' = normal \o items
  /\ scan' = None
  /\ UNCHANGED <<map, excused, faults>> /\ scanLeaves

-----------------------------------------------------------------------------
(* Persistence.                                                            *)

persist ==
  /\ saved # map
  /\ saved' = map
  /\ UNCHANGED <<world, map, high, normal, op, scan, acked, excused, faults, crashes, userOps, events>>

(* The process dies and is started again: what was mapped since the last   *)
(* write, or sent and not yet mapped, escapes.                             *)
crash ==
  /\ crashes < MaxCrashes /\ crashes' = crashes + 1
  /\ map' = saved
  /\ op' = None /\ scan' = None /\ high' = <<>> /\ normal' = <<>>
  /\ excused' = excused \cup (Mapped \ {saved[k] : k \in Keys})
                        \cup (IF op # None /\ op.kind = "open" /\ op.nft # None THEN {op.nft} ELSE {})
  /\ UNCHANGED <<world, saved, acked, faults, userOps, events>>

-----------------------------------------------------------------------------
TargetStep ==
  \E t \in Targets : targetOpens(t) \/ targetEmpties(t) \/ targetRefills(t) \/ targetCloses(t)

OpStep ==
  \/ openReads \/ openSent \/ openConfirms \/ openFails(TRUE) \/ openFails(FALSE)
  \/ decreaseReads \/ increaseReads \/ decreaseSent \/ increaseSent
  \/ closeSent \/ orphanCloseSent \/ manualCloseSent \/ sendFails(TRUE) \/ sendFails(FALSE)
  \/ copyFindsGone \/ orphanFindsGone \/ manualFindsGone \/ orphanBlockhash \/ manualBlockhash
  \/ closeVerified \/ orphanCloseVerified \/ closeNotVerified
  \/ auditReads \/ auditImports

ScanStep == scanStarts \/ scanChecksTarget \/ scanChecksOurs \/ scanEnds

Lands == \E tx \in inflight : lands(tx)

Next ==
  \/ TargetStep
  \/ Lands
  \/ \E tx \in inflight : expires(tx)
  \/ dispatch
  \/ \E item \in DashboardItem : dashboard(item)
  \/ OpStep
  \/ ScanStep
  \/ persist
  \/ crash

(* An operation that was started is executed to its end, the queue goes on *)
(* to the next one, the reconcile timer fires again and again, and a       *)
(* transaction that does not expire lands.  Nothing is assumed of the      *)
(* targets, of the user, or of faults (of which there are finitely many).  *)
Fairness ==
  /\ WF_vars(Lands) /\ WF_vars(dispatch) /\ WF_vars(OpStep) /\ WF_vars(ScanStep)

Spec == Init /\ [][Next]_vars /\ Fairness

-----------------------------------------------------------------------------
(* Every position of ours that exists on chain is mapped, or is what the   *)
(* running operation works on, or is being closed, or escaped in one of    *)
(* the ways this module names: a send whose acknowledgement was lost, a    *)
(* manual close that expired, a crash before the write, or the removal of  *)
(* an entry on a reading that no longer (or never) held.  No other         *)
(* interleaving of events, clean-up, audit, scan and late transactions     *)
(* loses a position.                                                       *)
OrphansAreExplained ==
  \A n \in Nfts : OnChain(n) =>
    \/ n \in Mapped
    \/ op # None /\ op.nft = n
    \/ Sent("close", n)
    \/ n \in excused

(* No two entries share a position of ours: what findByOurNft() returns,   *)
(* and hence what a manual close unmaps, is determined by the position.    *)
MappingInjective ==
  \A j, k \in Keys : map[j] # None /\ map[j] = map[k] => j = k

(* The cap is checked before the awaits of copyOpenPosition and the entry  *)
(* added after them; still no more than Cap positions copied from targets  *)
(* are ever mapped, after a restart either.                                *)
CapRespected == Cap > 0 => Cardinality({t \in Targets : map[t] # None}) <= Cap

(* The close of a target's position is followed, by the event or by the    *)
(* reconcile scan if the event was lost, by the end of our entry for it.   *)
ClosedTargetIsReleased ==
  \A t \in Targets : target[t] = "closed" ~> map[t] = None

(* byreal-position.ts, at the mapping's save in copyOpenPosition: "Save    *)
(* mapping IMMEDIATELY after send (before confirm).  Prevents orphaned     *)
(* positions if confirm times out but TX actually landed".  So an open the *)
(* node accepted lands as a mapped position.                               *)
AcceptedOpenLandsMapped ==
  [][\A n \in acked : pos[n] = "minted" /\ pos'[n] = "live" => n \in Mapped]_vars

(* "Orphan already gone, mapping removed" (closeOrphan), "position already *)
(* gone on-chain, mapping removed" (manualClosePosition): an operation     *)
(* that ends without having sent its close unmaps no position that is      *)
(* still on chain.                                                         *)
UnmappedAsGoneIsGone ==
  [][\A n \in Nfts :
       op # None /\ op' = None /\ inflight' = inflight /\ op.nft = n
         /\ n \in Mapped /\ map' # map => ~OnChain(n)]_vars

=============================================================================
