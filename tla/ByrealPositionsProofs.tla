----------------------- MODULE ByrealPositionsProofs -----------------------
(***************************************************************************)
(* Proofs about the copied Byreal positions, for any finite set of target  *)
(* positions, any number of NFTs, any cap and any bounds: no two entries   *)
(* share a position, the cap holds, and a position of ours that nothing    *)
(* maps is explained.                                                      *)
(***************************************************************************)
EXTENDS ByrealPositions, FiniteSetTheorems, TLAPS

-----------------------------------------------------------------------------
(* The operators the model is built from.                                  *)

(* There are finitely many keys.                                           *)
LEMMA KeysFinite == IsFiniteSet(Nfts) /\ IsFiniteSet(Keys) /\ Nfts \subseteq Nat
<1>1. IsFiniteSet(Nfts)
  BY NftAssumption, FS_Interval DEF Nfts
<1>2. IsFiniteSet(Keys)
  BY <1>1, NftAssumption, FS_Union DEF Keys
<1>3. Nfts \subseteq Nat
  BY NftAssumption DEF Nfts
<1> QED BY <1>1, <1>2, <1>3

(* A finite set put in some order is a sequence of its elements.           *)
LEMMA OrdersFit ==
  ASSUME NEW S, IsFiniteSet(S), NEW T, S \subseteq T, NEW s \in Orders(S)
  PROVE  s \in Seq(T)
<1>1. Cardinality(S) \in Nat
  BY FS_CardinalityType
<1>2. s \in [1..Cardinality(S) -> T]
  BY DEF Orders
<1> QED BY <1>1, <1>2

(* The keypair that an open generates has not been used before.            *)
LEMMA FirstFreshFacts ==
  ASSUME Fresh # {}
  PROVE  FirstFresh \in Nfts /\ pos[FirstFresh] = "unused"
<1> DEFINE R == OpToRel(<, Nat)
           Below(m, n) == <<m, n>> \in R
<1>1. Fresh \subseteq Nat
  BY KeysFinite DEF Fresh
<1>2. IsWellFoundedOn(R, Nat)
  BY NatLessThanWellFounded
<1>3. \A m, n \in Nat : m < n => Below(m, n)
  BY DEF OpToRel
<1> HIDE DEF R
<1>4. PICK n \in Fresh : \A m \in Fresh : ~Below(m, n)
  BY <1>1, <1>2, WFMin
<1> HIDE DEF Below
<1>5. \A m \in Fresh : n <= m
  BY <1>1, <1>3, <1>4
<1>6. FirstFresh \in Fresh
  BY <1>4, <1>5 DEF FirstFresh
<1> QED BY <1>6 DEF Fresh

(* The entry that findByOurNft() returns maps to the position asked for.   *)
LEMMA FindByOurNftFacts ==
  ASSUME NEW n, FindByOurNft(n) # None
  PROVE  FindByOurNft(n) \in Keys /\ map[FindByOurNft(n)] = n /\ n \in Mapped
BY DEF FindByOurNft, Mapped

-----------------------------------------------------------------------------
(* The shape of the state: what the queues hold and which operation is at  *)
(* which step.  The steps read map[op.key] and pos[op.nft], so the types   *)
(* alone are not inductive.                                                *)

HighItem == [kind : TxKind, key : Targets, nft : {None}]
NormalItem ==
  [kind : {"orphan"}, key : Keys, nft : Nfts]
    \cup [kind : {"manualClose"}, key : {None}, nft : Nfts]

Fits(o) ==
  /\ o \in Op /\ o.tries < MaxTries
  /\ o.kind = "open" =>
       /\ o.key \in Targets /\ o.pc \in {"read", "send", "confirm"}
       /\ o.pc # "read" => o.nft \in Nfts
  /\ o.kind \in {"increase", "decrease", "close", "orphan"} => o.key \in Keys /\ o.nft \in Nfts
  /\ o.kind = "manualClose" => o.nft \in Nfts
  /\ o.kind = "audit" => o.pc \in {"read", "import"}
  /\ o.pc = "verify" => o.kind \in {"close", "orphan"}

Shape ==
  /\ TypeOK
  /\ high \in Seq(HighItem) /\ normal \in Seq(NormalItem)
  /\ op # None => Fits(op)

LEMMA ItemTypes == HighItem \subseteq Item /\ NormalItem \subseteq Item
BY DEF HighItem, NormalItem, Item, OpKind, TxKind, Keys

(* An operation that starts fits its step.                                 *)
LEMMA StartFits ==
  ASSUME Shape, NEW item \in HighItem \cup NormalItem \cup DashboardItem, NEW o \in Start(item)
  PROVE  o = None \/ Fits(o)
<1>1. map \in [Keys -> Nfts \cup {None}] /\ MaxTries \in Nat \ {0}
  BY PositionBoundsAssumption DEF Shape, TypeOK
<1>2. ASSUME NEW key \in Keys \cup {None}, NEW n \in Nfts \cup {None}, NEW pc \in {"read", "send"},
             item.kind \in OpKind
      PROVE  LET r == Running(item, key, n, pc)
             IN  /\ r \in Op /\ r.tries < MaxTries
                 /\ r.kind = item.kind /\ r.key = key /\ r.nft = n /\ r.pc = pc
  BY <1>1, <1>2 DEF Running, Op
<1>3. CASE item.kind = "open" /\ item.key \in Targets
  <2>1. o = None \/ o = Running(item, item.key, None, "read")
    BY <1>3 DEF Start, StartOpen
  <2> QED BY <1>2, <1>3, <2>1 DEF Fits, OpKind, TxKind, Keys
<1>4. CASE item \in HighItem /\ item.kind \in {"increase", "decrease", "close"}
  <2>1. item.key \in Targets /\ item.key \in Keys
    BY <1>4 DEF HighItem, Keys
  <2>2. o = None \/ (map[item.key] # None /\ \E pc \in {"read", "send"} : o = Running(item, item.key, map[item.key], pc))
    BY <1>4 DEF Start, StartOnMapped
  <2> QED BY <1>1, <1>2, <1>4, <2>1, <2>2 DEF Fits, OpKind, TxKind
<1>5. CASE item \in NormalItem /\ item.kind = "orphan"
  <2>1. item.key \in Keys /\ item.nft \in Nfts
    BY <1>5 DEF NormalItem
  <2>2. o = Running(item, item.key, item.nft, "send")
    BY <1>5 DEF Start, StartOrphanClose
  <2> QED BY <1>2, <1>5, <2>1, <2>2 DEF Fits, OpKind
<1>6. CASE item.kind = "manualClose" /\ item.nft \in Nfts
  <2>1. FindByOurNft(item.nft) \in Keys \cup {None}
    BY FindByOurNftFacts
  <2>2. o = Running(item, FindByOurNft(item.nft), item.nft, "send")
    BY <1>6 DEF Start, StartManualClose
  <2> QED BY <1>2, <1>6, <2>1, <2>2 DEF Fits, OpKind
<1>7. CASE item.kind = "audit"
  <2>1. o = Running(item, None, None, "read")
    BY <1>7 DEF Start, StartAudit
  <2> QED BY <1>2, <1>7, <2>1 DEF Fits, OpKind
<1> QED BY <1>3, <1>4, <1>5, <1>6, <1>7 DEF HighItem, NormalItem, DashboardItem, TxKind

(* An operation's step leaves the shape of the queues and of the scan.     *)
LEMMA OpStepShape ==
  ASSUME Shape, opLeaves, Fault \/ NoFault,
         pos' \in [Nfts -> {"unused", "minted", "live", "empty", "gone"}],
         inflight' \in SUBSET (TxKind \X Nfts),
         map' \in [Keys -> Nfts \cup {None}],
         acked' \in SUBSET Nfts, excused' \in SUBSET Nfts,
         op' = None \/ Fits(op')
  PROVE  Shape'
<1>1. faults' \in 0..MaxFaults
  BY PositionBoundsAssumption DEF Shape, TypeOK, Fault, NoFault
<1>2. op' \in Op \cup {None}
  BY DEF Fits
<1> QED BY <1>1, <1>2 DEF Shape, TypeOK, opLeaves, Fits

(* A step of the scan leaves the operation and the HIGH queue.             *)
LEMMA ScanStepShape ==
  ASSUME Shape, scanLeaves, Fault \/ NoFault,
         map' \in [Keys -> Nfts \cup {None}], excused' \in SUBSET Nfts,
         scan' \in Scan \cup {None}, normal' \in Seq(NormalItem)
  PROVE  Shape'
<1>1. faults' \in 0..MaxFaults
  BY PositionBoundsAssumption DEF Shape, TypeOK, Fault, NoFault
<1>2. normal' \in Seq(Item)
  BY ItemTypes
<1> QED BY <1>1, <1>2 DEF Shape, TypeOK, scanLeaves, world, Fits

(* Removing an entry leaves a mapping.                                     *)
LEMMA RemoveTypes ==
  ASSUME Shape, NEW key \in Keys \cup {None}, NEW n,
         RemoveEntry(key, n) \/ RemoveClosedEntry(key, n)
  PROVE  map' \in [Keys -> Nfts \cup {None}] /\ excused' \in SUBSET Nfts
<1>1. map \in [Keys -> Nfts \cup {None}] /\ excused \in SUBSET Nfts
  BY DEF Shape, TypeOK
<1>2. CASE key = None \/ map[key] = None
  BY <1>1, <1>2 DEF RemoveEntry, RemoveClosedEntry
<1>3. CASE ~(key = None \/ map[key] = None)
  <2>1. map' = [map EXCEPT ![key] = None] /\ excused' \in {excused, excused \cup {map[key]}}
    BY <1>3 DEF RemoveEntry, RemoveClosedEntry
  <2>2. map[key] \in Nfts
    BY <1>1, <1>3
  <2> QED BY <1>1, <2>1, <2>2
<1> QED BY <1>2, <1>3

(* A clean-up operation's key.                                             *)
LEMMA OpKeys ==
  ASSUME Shape, op # None
  PROVE  op.key \in Keys \cup {None} /\ ManualKey \in Keys \cup {None}
<1>1. op.key \in Keys \cup {None}
  BY DEF Shape, Fits, Op
<1> QED BY <1>1, FindByOurNftFacts DEF ManualKey

(* A transaction executed leaves a position in one of its states.          *)
LEMMA ExecutedType ==
  ASSUME NEW kind, NEW state \in {"unused", "minted", "live", "empty", "gone"}
  PROVE  /\ Executed(kind, state) \in {"unused", "minted", "live", "empty", "gone"}
         /\ Executed(kind, state) = "unused" <=> state = "unused"
         /\ Executed(kind, state) \in {"live", "empty"} =>
              (kind = "open" /\ state = "minted") \/ (state \in {"live", "empty"} /\ kind # "close")
         /\ Executed(kind, state) = "minted" => state = "minted" /\ kind # "open"
         /\ state = "minted" /\ kind # "open" => Executed(kind, state) = "minted"
BY DEF Executed

LEMMA InitShape == Init => Shape
<1> SUFFICES ASSUME Init PROVE Shape
  OBVIOUS
<1>1. high \in Seq(HighItem) /\ normal \in Seq(NormalItem) /\ high \in Seq(Item) /\ normal \in Seq(Item)
  BY DEF Init
<1>2. op = None /\ scan = None /\ map = [k \in Keys |-> None] /\ saved = [k \in Keys |-> None]
  BY DEF Init
<1>3. faults \in 0..MaxFaults /\ crashes \in 0..MaxCrashes /\ userOps \in 0..MaxUserOps /\ events \in 0..MaxEvents
  BY PositionBoundsAssumption DEF Init
<1> QED BY <1>1, <1>2, <1>3 DEF Init, Shape, TypeOK

(* An operation that tries again, with the same or another NFT, from the   *)
(* step it is at or from its send, fits its step.                          *)
LEMMA RetryFits ==
  ASSUME Fits(op), op.tries < MaxTries - 1
  PROVE  /\ Fits([op EXCEPT !.tries = @ + 1])
         /\ op.kind = "close" => Fits([op EXCEPT !.pc = "send", !.tries = @ + 1])
         /\ \A n \in Nfts : Fits([op EXCEPT !.tries = @ + 1, !.nft = n])
<1>1. op \in Op /\ op.tries \in 0..MaxTries /\ MaxTries \in Nat
  BY PositionBoundsAssumption DEF Fits, Op
<1>2. op.tries + 1 \in 0..MaxTries /\ op.tries + 1 < MaxTries
  BY <1>1
<1>3. Fits([op EXCEPT !.tries = @ + 1])
  <2> DEFINE o == [op EXCEPT !.tries = @ + 1]
  <2>1. o \in Op /\ o.tries = op.tries + 1 /\ o.kind = op.kind /\ o.key = op.key /\ o.nft = op.nft /\ o.pc = op.pc
    BY <1>1, <1>2 DEF Op
  <2> QED BY <1>2, <2>1 DEF Fits
<1>4. ASSUME op.kind = "close" PROVE Fits([op EXCEPT !.pc = "send", !.tries = @ + 1])
  <2> DEFINE o == [op EXCEPT !.pc = "send", !.tries = @ + 1]
  <2>1. o \in Op /\ o.tries = op.tries + 1 /\ o.kind = op.kind /\ o.key = op.key /\ o.nft = op.nft /\ o.pc = "send"
    BY <1>1, <1>2 DEF Op
  <2> QED BY <1>2, <1>4, <2>1 DEF Fits
<1>5. ASSUME NEW n \in Nfts PROVE Fits([op EXCEPT !.tries = @ + 1, !.nft = n])
  <2> DEFINE o == [op EXCEPT !.tries = @ + 1, !.nft = n]
  <2>1. o \in Op /\ o.tries = op.tries + 1 /\ o.kind = op.kind /\ o.key = op.key /\ o.nft = n /\ o.pc = op.pc
    BY <1>1, <1>2 DEF Op
  <2> QED BY <1>2, <2>1 DEF Fits
<1> QED BY <1>3, <1>4, <1>5

(* The steps of the operation being executed keep the shape.               *)
LEMMA OpStepKeepsShape ==
  ASSUME Shape, OpStep
  PROVE  Shape'
<1> DEFINE States == {"unused", "minted", "live", "empty", "gone"}
<1>1. /\ pos \in [Nfts -> States] /\ inflight \in SUBSET (TxKind \X Nfts)
      /\ map \in [Keys -> Nfts \cup {None}] /\ acked \in SUBSET Nfts /\ excused \in SUBSET Nfts
      /\ op # None => Fits(op)
      /\ MaxTries \in Nat \ {0}
  BY PositionBoundsAssumption DEF Shape, TypeOK
<1>2. op # None /\ op.kind # "open" /\ op.pc = "send" => op.nft \in Nfts
  BY <1>1 DEF Fits, Op, OpKind, TxKind
<1>3. ASSUME NEW k \in TxKind, NEW n \in Nfts
      PROVE  inflight \cup {<<k, n>>} \in SUBSET (TxKind \X Nfts)
  BY <1>1
<1>4. CASE openReads
  <2>1. CASE op' = None /\ UNCHANGED pos
    BY <1>1, <1>4, <2>1, OpStepShape DEF openReads, NoFault
  <2>2. CASE Fresh # {} /\ op' = [op EXCEPT !.pc = "send", !.nft = FirstFresh]
             /\ pos' = [pos EXCEPT ![FirstFresh] = "minted"]
    <3>1. FirstFresh \in Nfts
      BY <2>2, FirstFreshFacts
    <3>2. Fits(op')
      BY <1>1, <1>4, <2>2, <3>1 DEF openReads, Fits, Op
    <3> QED BY <1>1, <1>4, <2>2, <3>1, <3>2, OpStepShape DEF openReads, NoFault
  <2> QED BY <1>4, <2>1, <2>2 DEF openReads
<1>5. CASE openSent
  <2>1. op.key \in Targets /\ op.nft \in Nfts
    BY <1>1, <1>5 DEF openSent, Fits
  <2>2. Fits(op')
    BY <1>1, <1>5 DEF openSent, Fits, Op
  <2>3. map' \in [Keys -> Nfts \cup {None}]
    BY <1>1, <1>5, <2>1 DEF openSent, Keys
  <2> QED BY <1>1, <1>3, <1>5, <2>1, <2>2, <2>3, OpStepShape DEF openSent, NoFault, TxKind
<1>6. CASE openConfirms
  BY <1>1, <1>6, OpStepShape DEF openConfirms
<1>7. ASSUME NEW sent \in BOOLEAN, openFails(sent) PROVE Shape'
  <2>1. op # None /\ op.nft \in Nfts /\ op.tries \in 0..MaxTries
    BY <1>1, <1>7 DEF openFails, Fits, Op
  <2>2. inflight' \in SUBSET (TxKind \X Nfts)
    BY <1>1, <1>3, <1>7, <2>1 DEF openFails, TxKind
  <2>3. excused' \in SUBSET Nfts
    BY <1>1, <1>7, <2>1 DEF openFails, Escapes
  <2>4. op' = None \/ Fits(op')
    <3>1. CASE op.tries < MaxTries - 1 /\ op' = [op EXCEPT !.tries = @ + 1]
      BY <1>1, <2>1, <3>1, RetryFits
    <3>2. CASE op.tries < MaxTries - 1 /\ Fresh # {} /\ op' = [op EXCEPT !.tries = @ + 1, !.nft = FirstFresh]
      BY <1>1, <2>1, <3>2, FirstFreshFacts, RetryFits
    <3> QED BY <1>7, <3>1, <3>2 DEF openFails
  <2>5. pos' \in [Nfts -> States]
    BY <1>1, <1>7, FirstFreshFacts DEF openFails
  <2>6. Fault \/ NoFault
    BY <1>7 DEF openFails
  <2> QED BY <1>1, <1>7, <2>2, <2>3, <2>4, <2>5, <2>6, OpStepShape DEF openFails
<1>8. CASE decreaseReads \/ increaseReads
  <2>1. op' = None \/ op' = [op EXCEPT !.pc = "send"]
    BY <1>8 DEF decreaseReads, increaseReads
  <2>2. op' = None \/ Fits(op')
    BY <1>1, <1>8, <2>1 DEF decreaseReads, increaseReads, Fits, Op
  <2> QED BY <1>1, <1>8, <2>2, OpStepShape DEF decreaseReads, increaseReads, NoFault
<1>9. CASE decreaseSent \/ increaseSent
  BY <1>1, <1>2, <1>3, <1>9, OpStepShape DEF decreaseSent, increaseSent, ChangeSent, NoFault, TxKind
<1>10. CASE closeSent \/ orphanCloseSent
  <2>1. op # None /\ op.kind \in {"close", "orphan"} /\ op' = [op EXCEPT !.pc = "verify"]
    BY <1>10 DEF closeSent, orphanCloseSent, CloseSent
  <2>2. Fits(op')
    BY <1>1, <2>1 DEF Fits, Op
  <2> QED BY <1>1, <1>2, <1>3, <1>10, <2>2, OpStepShape DEF closeSent, orphanCloseSent, CloseSent, NoFault, TxKind
<1>11. CASE manualCloseSent
  BY <1>1, <1>2, <1>3, <1>11, OpStepShape, OpKeys, RemoveTypes DEF manualCloseSent, NoFault, TxKind
<1>12. ASSUME NEW sent \in BOOLEAN, sendFails(sent) PROVE Shape'
  <2>1. op # None /\ op.nft \in Nfts /\ op.tries \in 0..MaxTries
    BY <1>1, <1>2, <1>12 DEF sendFails, Fits, Op
  <2>2. op' = None \/ Fits(op')
    BY <1>1, <1>12, RetryFits DEF sendFails
  <2>3. inflight' \in SUBSET (TxKind \X Nfts)
    BY <1>1, <1>3, <1>12, <2>1 DEF sendFails, TxKind
  <2> QED BY <1>1, <1>12, <2>2, <2>3, OpStepShape DEF sendFails
<1>13. CASE copyFindsGone
  BY <1>1, <1>13, OpStepShape DEF copyFindsGone, GoneFor, NoFault
<1>14. CASE orphanFindsGone \/ manualFindsGone
  BY <1>1, <1>14, OpStepShape, OpKeys, RemoveTypes DEF orphanFindsGone, manualFindsGone, GoneFor, NoFault
<1>15. CASE orphanBlockhash \/ manualBlockhash
  BY <1>1, <1>15, OpStepShape, OpKeys, RemoveTypes DEF orphanBlockhash, manualBlockhash, BlockhashNotFound
<1>16. CASE closeVerified \/ orphanCloseVerified
  BY <1>1, <1>16, OpStepShape, OpKeys, RemoveTypes DEF closeVerified, orphanCloseVerified, Verified, NoFault
<1>17. CASE closeNotVerified
  <2>1. op # None /\ op.tries \in 0..MaxTries
    BY <1>1, <1>17 DEF closeNotVerified, Fits, Op
  <2>2. op' = None \/ Fits(op')
    BY <1>1, <1>17, RetryFits DEF closeNotVerified
  <2>3. Fault \/ NoFault
    BY <1>17 DEF closeNotVerified
  <2> QED BY <1>1, <1>17, <2>2, <2>3, OpStepShape DEF closeNotVerified
<1>18. CASE auditReads
  <2>1. PICK S \in SUBSET Nfts : op' = [op EXCEPT !.pc = "import", !.seen = S]
    BY <1>18 DEF auditReads
  <2>2. Fits(op')
    BY <1>1, <1>18, <2>1 DEF auditReads, Fits, Op
  <2>3. Fault \/ NoFault
    BY <1>18 DEF auditReads
  <2> QED BY <1>1, <1>18, <2>2, <2>3, OpStepShape DEF auditReads
<1>19. CASE auditImports
  <2> DEFINE imported == Unmapped(op.seen)
             items == [kind : {"manualClose"}, key : {None}, nft : imported]
             item(n) == [kind |-> "manualClose", key |-> None, nft |-> n]
             f == [n \in imported |-> item(n)]
  <2>1. imported \in SUBSET Nfts
    BY <1>1, <1>19 DEF auditImports, Unmapped, Fits, Op
  <2>2. IsFiniteSet(items)
    <3>1. IsFiniteSet(imported)
      BY <2>1, KeysFinite, FS_Subset
    <3>2. f \in Surjection(imported, items)
      BY DEF Surjection
    <3> QED BY <3>1, <3>2, FS_Surjection
  <2>3. items \subseteq NormalItem
    BY <2>1 DEF NormalItem
  <2>4. \A s \in Orders(items) : s \in Seq(NormalItem)
    BY <2>2, <2>3, OrdersFit
  <2>5. (\E s \in Orders(items) : normal' = normal \o s) /\ map' = [k \in Keys |-> IF k \in imported THEN k ELSE map[k]]
        /\ excused' = excused \ imported /\ op' = None
    BY <1>19 DEF auditImports
  <2> HIDE DEF items, imported
  <2>6. normal' \in Seq(NormalItem) /\ normal' \in Seq(Item)
    BY <2>4, <2>5, ItemTypes DEF Shape
  <2>7. map' \in [Keys -> Nfts \cup {None}] /\ excused' \in SUBSET Nfts
    BY <1>1, <2>1, <2>5 DEF Keys
  <2> QED BY <1>19, <2>5, <2>6, <2>7 DEF auditImports, Shape, TypeOK
<1> QED
  BY <1>4, <1>5, <1>6, <1>7, <1>8, <1>9, <1>10, <1>11, <1>12, <1>13, <1>14, <1>15, <1>16, <1>17, <1>18, <1>19
  DEF OpStep

(* The steps of the reconcile scan keep the shape.                         *)
LEMMA ScanStepKeepsShape ==
  ASSUME Shape, ScanStep
  PROVE  Shape'
<1>1. /\ map \in [Keys -> Nfts \cup {None}] /\ excused \in SUBSET Nfts /\ normal \in Seq(NormalItem)
      /\ scan # None => scan \in Scan
  BY DEF Shape, TypeOK
<1>2. CASE scanStarts
  <2> DEFINE entries == {<<k, map[k]>> : k \in {k \in Keys : map[k] # None}}
  <2>1. entries \in SUBSET Entry
    BY <1>1 DEF Entry
  <2>2. scan' = [todo |-> entries, checking |-> None, orphans |-> {}]
    BY <1>2 DEF scanStarts
  <2> HIDE DEF entries
  <2>3. scan' \in Scan
    BY <2>1, <2>2 DEF Scan
  <2> QED BY <1>1, <1>2, <2>3, ScanStepShape DEF scanStarts, NoFault
<1>3. CASE scanChecksTarget
  <2>1. scan \in Scan
    BY <1>1, <1>3 DEF scanChecksTarget
  <2>2. PICK e \in scan.todo : scan' = [scan EXCEPT !.todo = @ \ {e}, !.checking = e]
                               \/ scan' = [scan EXCEPT !.todo = @ \ {e}]
    BY <1>3 DEF scanChecksTarget
  <2>3. scan' \in Scan
    BY <2>1, <2>2 DEF Scan
  <2>4. Fault \/ NoFault
    BY <1>3 DEF scanChecksTarget
  <2> QED BY <1>1, <1>3, <2>3, <2>4, ScanStepShape DEF scanChecksTarget
<1>4. CASE scanChecksOurs
  <2> DEFINE e == scan.checking
  <2>1. scan \in Scan /\ e \in Entry /\ e[1] \in Keys
    BY <1>1, <1>4 DEF scanChecksOurs, Scan, Entry
  <2>2. \/ scan' = [scan EXCEPT !.checking = None]
        \/ scan' = [scan EXCEPT !.checking = None, !.orphans = @ \cup {e}]
    BY <1>4 DEF scanChecksOurs
  <2>3. scan' \in Scan
    BY <2>1, <2>2 DEF Scan
  <2>4. RemoveEntry(e[1], e[2]) \/ UNCHANGED <<map, excused>>
    BY <1>4 DEF scanChecksOurs
  <2>5. map' \in [Keys -> Nfts \cup {None}] /\ excused' \in SUBSET Nfts
    BY <1>1, <2>1, <2>4, RemoveTypes
  <2>6. Fault \/ NoFault
    BY <1>4 DEF scanChecksOurs
  <2> QED BY <1>1, <1>4, <2>3, <2>5, <2>6, ScanStepShape DEF scanChecksOurs
<1>5. CASE scanEnds
  <2> DEFINE item(e) == [kind |-> "orphan", key |-> e[1], nft |-> e[2]]
             items == {item(e) : e \in scan.orphans}
             f == [e \in scan.orphans |-> item(e)]
  <2>1. scan.orphans \in SUBSET Entry
    BY <1>1, <1>5 DEF scanEnds, Scan
  <2>2. IsFiniteSet(items)
    <3>1. IsFiniteSet(scan.orphans)
      BY <2>1, KeysFinite, FS_Product, FS_Subset DEF Entry
    <3>2. f \in Surjection(scan.orphans, items)
      BY DEF Surjection
    <3> QED BY <3>1, <3>2, FS_Surjection
  <2>3. items \subseteq NormalItem
    BY <2>1 DEF NormalItem, Entry
  <2>4. \A s \in Orders(items) : s \in Seq(NormalItem)
    BY <2>2, <2>3, OrdersFit
  <2>5. (\E s \in Orders(items) : normal' = normal \o s) /\ scan' = None
    BY <1>5 DEF scanEnds
  <2> HIDE DEF items
  <2>6. normal' \in Seq(NormalItem)
    BY <1>1, <2>4, <2>5
  <2> QED BY <1>1, <1>5, <2>5, <2>6, ScanStepShape DEF scanEnds, NoFault
<1> QED BY <1>2, <1>3, <1>4, <1>5 DEF ScanStep

(* A target's event is a HIGH item.                                        *)
LEMMA TargetActsKeepsShape ==
  ASSUME Shape, NEW t \in Targets, NEW from, NEW to \in {"open", "empty", "closed"}, NEW kind \in TxKind,
         TargetActs(t, from, to, kind)
  PROVE  Shape'
<1> DEFINE item == [kind |-> kind, key |-> t, nft |-> None]
<1>1. item \in HighItem
  BY DEF HighItem
<1>2. high' = high \/ high' = Append(high, item)
  BY DEF TargetActs
<1> HIDE DEF item
<1>3. high' \in Seq(HighItem) /\ high' \in Seq(Item)
  <2>1. high \in Seq(HighItem)
    BY DEF Shape
  <2>2. high' \in Seq(HighItem)
    BY <1>1, <1>2, <2>1
  <2> QED BY <2>2, ItemTypes
<1>4. faults' \in 0..MaxFaults /\ events' \in 0..MaxEvents
  BY PositionBoundsAssumption DEF TargetActs, Shape, TypeOK, Fault, NoFault
<1>5. target' \in [Targets -> {"none", "open", "empty", "closed"}]
  BY DEF TargetActs, Shape, TypeOK
<1> QED BY <1>3, <1>4, <1>5 DEF TargetActs, Shape, TypeOK, Fits

(* The types of ByrealPositions are inductive with the shape of the queues *)
(* and of the operation.                                                   *)
LEMMA NextKeepsShape ==
  ASSUME Shape, [Next]_vars
  PROVE  Shape'
<1>1. CASE TargetStep
  BY <1>1, TargetActsKeepsShape DEF TargetStep, targetOpens, targetEmpties, targetRefills, targetCloses, TxKind
<1>2. CASE Lands
  <2>1. PICK tx \in inflight : lands(tx)
    BY <1>2 DEF Lands
  <2>2. tx[2] \in Nfts /\ pos' = [pos EXCEPT ![tx[2]] = Executed(tx[1], pos[tx[2]])]
    BY <2>1 DEF lands, Shape, TypeOK
  <2>3. pos' \in [Nfts -> {"unused", "minted", "live", "empty", "gone"}]
    BY <2>2, ExecutedType DEF Shape, TypeOK
  <2> QED BY <2>1, <2>3 DEF lands, Shape, TypeOK, Fits
<1>3. ASSUME NEW tx \in inflight, expires(tx) PROVE Shape'
  <2>1. excused' \in SUBSET Nfts /\ inflight' \in SUBSET (TxKind \X Nfts)
    BY <1>3 DEF expires, Shape, TypeOK
  <2>2. faults' \in 0..MaxFaults
    BY <1>3, PositionBoundsAssumption DEF expires, Shape, TypeOK, Fault
  <2> QED BY <1>3, <2>1, <2>2 DEF expires, Shape, TypeOK, Fits
<1>4. CASE dispatch
  <2>1. PICK item \in HighItem \cup NormalItem : op' \in Start(item)
    BY <1>4 DEF dispatch, Shape
  <2>2. op' = None \/ Fits(op')
    BY <2>1, StartFits
  <2>3. /\ high' \in Seq(HighItem) /\ normal' \in Seq(NormalItem)
        /\ high' \in Seq(Item) /\ normal' \in Seq(Item)
    <3>1. high \in Seq(HighItem) /\ normal \in Seq(NormalItem)
      BY DEF Shape
    <3>2. high' = high \/ (high # <<>> /\ high' = Tail(high))
      BY <1>4 DEF dispatch
    <3>3. normal' = normal \/ (normal # <<>> /\ normal' = Tail(normal))
      BY <1>4 DEF dispatch
    <3>4. high' \in Seq(HighItem)
      BY <3>1, <3>2
    <3>5. normal' \in Seq(NormalItem)
      BY <3>1, <3>3
    <3> QED BY <3>4, <3>5, ItemTypes
  <2> QED BY <1>4, <2>2, <2>3 DEF dispatch, Shape, TypeOK, Fits, world
<1>5. ASSUME NEW item \in DashboardItem, dashboard(item) PROVE Shape'
  <2>1. op' = None \/ Fits(op')
    BY <1>5, StartFits DEF dashboard
  <2>2. userOps' \in 0..MaxUserOps
    BY <1>5, PositionBoundsAssumption DEF dashboard, Shape, TypeOK
  <2> QED BY <1>5, <2>1, <2>2 DEF dashboard, Shape, TypeOK, Fits, world
<1>6. CASE OpStep
  BY <1>6, OpStepKeepsShape
<1>7. CASE ScanStep
  BY <1>7, ScanStepKeepsShape
<1>8. CASE persist
  BY <1>8 DEF persist, Shape, TypeOK, Fits, world
<1>9. CASE crash
  <2>1. crashes' \in 0..MaxCrashes
    BY <1>9, PositionBoundsAssumption DEF crash, Shape, TypeOK
  <2>2. Mapped \subseteq Nfts
    BY DEF Mapped, Shape, TypeOK
  <2>3. op # None /\ op.nft # None => op.nft \in Nfts
    BY DEF Shape, Fits, Op
  <2>4. excused' \in SUBSET Nfts
    BY <1>9, <2>2, <2>3 DEF crash, Shape, TypeOK
  <2>5. /\ high' \in Seq(HighItem) /\ normal' \in Seq(NormalItem)
        /\ high' \in Seq(Item) /\ normal' \in Seq(Item)
    BY <1>9 DEF crash
  <2> QED BY <1>9, <2>1, <2>4, <2>5 DEF crash, Shape, TypeOK, world
<1>10. CASE UNCHANGED vars
  BY <1>10 DEF vars, Shape, TypeOK, Fits
<1> QED BY <1>1, <1>2, <1>3, <1>4, <1>5, <1>6, <1>7, <1>8, <1>9, <1>10 DEF Next

(* Every variable keeps its type, in every execution and for every value   *)
(* of the constants.                                                       *)
THEOREM ByrealTypeCorrect == Spec => []TypeOK
<1>1. Shape => TypeOK
  BY DEF Shape
<1> QED BY <1>1, InitShape, NextKeepsShape, PTL DEF Spec

-----------------------------------------------------------------------------
(* What a step does to the mapping.  Only openSent, auditImports and a     *)
(* crash add entries; every other step is Quiet: it removes one entry at   *)
(* most, and an open that runs on keeps its key and either its NFT or a    *)
(* fresh one.                                                              *)

Opening == op # None /\ op.kind = "open" /\ op.pc \in {"read", "send"}

RemovesOneAtMost == map' = map \/ \E key \in Keys : map' = [map EXCEPT ![key] = None]

OpenGoesOn ==
  \/ op = None /\ op'.pc = "read" /\ map' = map /\ map[op'.key] = None /\ ~CapReached
  \/ /\ Opening /\ op'.key = op.key
     /\ op'.pc = "send" => \/ op.pc = "send" /\ op'.nft = op.nft
                           \/ pos[op'.nft] = "unused" /\ pos'[op'.nft] = "minted"

Quiet ==
  /\ RemovesOneAtMost /\ saved' = saved
  /\ Opening' => OpenGoesOn
  /\ op' # None => \A n \in op'.seen : pos[n] # "unused" \/ (op # None /\ n \in op.seen)
  /\ \A n \in Nfts : pos'[n] = "unused" => pos[n] = "unused"

(* An open starts only for a target that is not mapped, below the cap.     *)
LEMMA StartOpening ==
  ASSUME Shape, NEW item \in HighItem \cup NormalItem \cup DashboardItem, NEW o \in Start(item), o # None
  PROVE  /\ o.seen = {}
         /\ o.kind = "open" => o.pc = "read" /\ map[o.key] = None /\ ~CapReached
<1>1. ASSUME NEW key, NEW n, NEW pc
      PROVE  LET r == Running(item, key, n, pc)
             IN  r.seen = {} /\ r.kind = item.kind /\ r.key = key /\ r.pc = pc
  BY DEF Running
<1>2. item.kind \in OpKind
  BY DEF HighItem, NormalItem, DashboardItem, OpKind, TxKind
<1>3. CASE item.kind = "open"
  BY <1>1, <1>3 DEF Start, StartOpen
<1>4. CASE item.kind \in {"increase", "decrease", "close"}
  BY <1>1, <1>4 DEF Start, StartOnMapped
<1>5. CASE item.kind = "orphan"
  BY <1>1, <1>5 DEF Start, StartOrphanClose
<1>6. CASE item.kind = "manualClose"
  BY <1>1, <1>6 DEF Start, StartManualClose
<1>7. CASE item.kind = "audit"
  BY <1>1, <1>7 DEF Start, StartAudit
<1> QED BY <1>2, <1>3, <1>4, <1>5, <1>6, <1>7 DEF OpKind, TxKind

(* delete() removes one entry at most.                                     *)
LEMMA RemoveUnmaps ==
  ASSUME NEW key \in Keys \cup {None}, NEW n, RemoveEntry(key, n) \/ RemoveClosedEntry(key, n)
  PROVE  RemovesOneAtMost
<1>1. CASE key = None \/ map[key] = None
  BY <1>1 DEF RemoveEntry, RemoveClosedEntry, RemovesOneAtMost
<1>2. CASE ~(key = None \/ map[key] = None)
  BY <1>2 DEF RemoveEntry, RemoveClosedEntry, RemovesOneAtMost
<1> QED BY <1>1, <1>2

(* A step of an operation other than openSent and auditImports is quiet.   *)
LEMMA OpStepQuiet ==
  ASSUME Shape, OpStep, ~openSent, ~auditImports
  PROVE  Quiet
<1>1. /\ op # None => Fits(op)
      /\ pos \in [Nfts -> {"unused", "minted", "live", "empty", "gone"}]
  BY DEF Shape, TypeOK
<1>2. ASSUME op' = None, RemovesOneAtMost, opLeaves, UNCHANGED pos
      PROVE  Quiet
  BY <1>2 DEF Quiet, opLeaves, Opening
<1>3. ASSUME op # None, op.kind # "open", op'.kind = op.kind, op'.seen = op.seen,
             map' = map, opLeaves, UNCHANGED pos
      PROVE  Quiet
  BY <1>3 DEF Quiet, opLeaves, Opening, RemovesOneAtMost
<1>4. CASE openReads
  <2>1. CASE op' = None /\ UNCHANGED pos
    BY <1>2, <1>4, <2>1 DEF openReads, RemovesOneAtMost
  <2>2. CASE Fresh # {} /\ op' = [op EXCEPT !.pc = "send", !.nft = FirstFresh]
             /\ pos' = [pos EXCEPT ![FirstFresh] = "minted"]
    <3>1. op # None /\ op.kind = "open" /\ op.pc = "read" /\ op \in Op
      BY <1>1, <1>4 DEF openReads, Fits
    <3>2. /\ op'.pc = "send" /\ op'.nft = FirstFresh /\ op'.key = op.key
          /\ op'.kind = op.kind /\ op'.seen = op.seen
      BY <3>1, <2>2 DEF Op
    <3>3. FirstFresh \in Nfts /\ pos[FirstFresh] = "unused" /\ pos'[FirstFresh] = "minted"
      BY <1>1, <2>2, FirstFreshFacts
    <3>4. \A n \in Nfts : pos'[n] = "unused" => pos[n] = "unused"
      BY <1>1, <2>2, <3>3
    <3> QED BY <1>4, <3>1, <3>2, <3>3, <3>4 DEF openReads, opLeaves, Quiet, OpenGoesOn, Opening, RemovesOneAtMost
  <2> QED BY <1>4, <2>1, <2>2 DEF openReads
<1>5. CASE openConfirms
  BY <1>2, <1>5 DEF openConfirms, RemovesOneAtMost
<1>6. ASSUME NEW sent \in BOOLEAN, openFails(sent) PROVE Quiet
  <2>1. op # None /\ op.kind = "open" /\ op.pc = "send" /\ op \in Op /\ op.nft \in Nfts
    BY <1>1, <1>6 DEF openFails, Fits
  <2>2. CASE op' = [op EXCEPT !.tries = @ + 1] /\ UNCHANGED pos
    <3>1. op'.kind = op.kind /\ op'.pc = op.pc /\ op'.nft = op.nft /\ op'.key = op.key /\ op'.seen = op.seen
      BY <2>1, <2>2 DEF Op
    <3> QED BY <1>6, <2>1, <2>2, <3>1 DEF openFails, opLeaves, Quiet, OpenGoesOn, Opening, RemovesOneAtMost
  <2>3. CASE Fresh # {} /\ op' = [op EXCEPT !.tries = @ + 1, !.nft = FirstFresh]
             /\ pos' = [pos EXCEPT ![FirstFresh] = "minted"]
    <3>1. op'.kind = op.kind /\ op'.pc = op.pc /\ op'.nft = FirstFresh /\ op'.key = op.key /\ op'.seen = op.seen
      BY <2>1, <2>3 DEF Op
    <3>2. FirstFresh \in Nfts /\ pos[FirstFresh] = "unused" /\ pos'[FirstFresh] = "minted"
      BY <1>1, <2>3, FirstFreshFacts
    <3>3. \A n \in Nfts : pos'[n] = "unused" => pos[n] = "unused"
      BY <1>1, <2>3, <3>2
    <3> QED BY <1>6, <2>1, <3>1, <3>2, <3>3 DEF openFails, opLeaves, Quiet, OpenGoesOn, Opening, RemovesOneAtMost
  <2>4. CASE op' = None /\ UNCHANGED pos
    BY <1>2, <1>6, <2>4 DEF openFails, RemovesOneAtMost
  <2> QED BY <1>6, <2>2, <2>3, <2>4 DEF openFails
<1>7. CASE decreaseReads \/ increaseReads
  <2>1. op # None /\ op \in Op /\ op.kind # "open"
    BY <1>1, <1>7 DEF decreaseReads, increaseReads, Fits
  <2>2. CASE op' = [op EXCEPT !.pc = "send"]
    <3>1. op'.kind = op.kind /\ op'.seen = op.seen
      BY <2>1, <2>2 DEF Op
    <3> QED BY <1>3, <1>7, <2>1, <3>1 DEF decreaseReads, increaseReads
  <2>3. CASE op' = None
    BY <1>2, <1>7, <2>3 DEF decreaseReads, increaseReads, RemovesOneAtMost
  <2> QED BY <1>7, <2>2, <2>3 DEF decreaseReads, increaseReads
<1>8. CASE decreaseSent \/ increaseSent
  BY <1>2, <1>8 DEF decreaseSent, increaseSent, ChangeSent, RemovesOneAtMost
<1>9. CASE closeSent \/ orphanCloseSent
  <2>1. op # None /\ op \in Op /\ op.kind # "open" /\ op' = [op EXCEPT !.pc = "verify"]
    BY <1>1, <1>9 DEF closeSent, orphanCloseSent, CloseSent, Fits
  <2>2. op'.kind = op.kind /\ op'.seen = op.seen
    BY <2>1 DEF Op
  <2> QED BY <1>3, <1>9, <2>1, <2>2 DEF closeSent, orphanCloseSent, CloseSent
<1>10. CASE manualCloseSent
  BY <1>2, <1>10, OpKeys, RemoveUnmaps DEF manualCloseSent
<1>11. ASSUME NEW sent \in BOOLEAN, sendFails(sent) PROVE Quiet
  <2>1. op # None /\ op \in Op /\ op.kind # "open"
    BY <1>1, <1>11 DEF sendFails, Fits
  <2>2. CASE op' = [op EXCEPT !.tries = @ + 1]
    <3>1. op'.kind = op.kind /\ op'.seen = op.seen
      BY <2>1, <2>2 DEF Op
    <3> QED BY <1>3, <1>11, <2>1, <3>1 DEF sendFails
  <2>3. CASE op' = None
    BY <1>2, <1>11, <2>3 DEF sendFails, RemovesOneAtMost
  <2> QED BY <1>11, <2>2, <2>3 DEF sendFails
<1>12. CASE copyFindsGone
  BY <1>2, <1>12 DEF copyFindsGone, GoneFor, RemovesOneAtMost
<1>13. CASE orphanFindsGone \/ manualFindsGone
  BY <1>2, <1>13, OpKeys, RemoveUnmaps DEF orphanFindsGone, manualFindsGone, GoneFor
<1>14. CASE orphanBlockhash \/ manualBlockhash
  BY <1>2, <1>14, OpKeys, RemoveUnmaps DEF orphanBlockhash, manualBlockhash, BlockhashNotFound
<1>15. CASE closeVerified \/ orphanCloseVerified
  BY <1>2, <1>15, OpKeys, RemoveUnmaps DEF closeVerified, orphanCloseVerified, Verified
<1>16. CASE closeNotVerified
  <2>1. op # None /\ op \in Op /\ op.kind # "open"
    BY <1>1, <1>16 DEF closeNotVerified, Fits
  <2>2. CASE op' = [op EXCEPT !.pc = "send", !.tries = @ + 1]
    <3>1. op'.kind = op.kind /\ op'.seen = op.seen
      BY <2>1, <2>2 DEF Op
    <3> QED BY <1>3, <1>16, <2>1, <3>1 DEF closeNotVerified
  <2>3. CASE op' = None
    BY <1>2, <1>16, <2>3 DEF closeNotVerified, RemovesOneAtMost
  <2> QED BY <1>16, <2>2, <2>3 DEF closeNotVerified
<1>17. CASE auditReads
  <2>1. op # None /\ op \in Op /\ op.kind = "audit"
    BY <1>1, <1>17 DEF auditReads, Fits
  <2>2. PICK S \in SUBSET {n \in Nfts : OnChain(n)} : op' = [op EXCEPT !.pc = "import", !.seen = S]
    BY <1>17 DEF auditReads
  <2>3. op'.kind = "audit" /\ op'.seen = S
    BY <2>1, <2>2 DEF Op
  <2> QED BY <1>17, <2>2, <2>3 DEF auditReads, opLeaves, Quiet, Opening, RemovesOneAtMost, OnChain
<1> QED
  BY <1>4, <1>5, <1>6, <1>7, <1>8, <1>9, <1>10, <1>11, <1>12, <1>13, <1>14, <1>15, <1>16, <1>17
  DEF OpStep

LEMMA StepKinds ==
  ASSUME Shape, [Next]_vars
  PROVE  Quiet \/ openSent \/ auditImports \/ persist \/ crash
<1>1. op # None => Fits(op)
  BY DEF Shape
<1>2. ASSUME op' = op, RemovesOneAtMost, saved' = saved,
             \A n \in Nfts : pos'[n] = "unused" => pos[n] = "unused"
      PROVE  Quiet
  BY <1>2 DEF Quiet, Opening, OpenGoesOn
<1>3. ASSUME op = None, NEW item \in HighItem \cup NormalItem \cup DashboardItem, op' \in Start(item),
             UNCHANGED <<pos, map, saved>>
      PROVE  Quiet
  BY <1>3, StartOpening DEF Quiet, Opening, OpenGoesOn, RemovesOneAtMost
<1>4. CASE TargetStep
  BY <1>2, <1>4
  DEF TargetStep, targetOpens, targetEmpties, targetRefills, targetCloses, TargetActs, RemovesOneAtMost
<1>5. CASE Lands
  <2>1. PICK tx \in inflight : lands(tx)
    BY <1>5 DEF Lands
  <2>2. /\ tx[2] \in Nfts /\ pos' = [pos EXCEPT ![tx[2]] = Executed(tx[1], pos[tx[2]])]
        /\ pos \in [Nfts -> {"unused", "minted", "live", "empty", "gone"}]
    BY <2>1 DEF lands, Shape, TypeOK
  <2>3. \A n \in Nfts : pos'[n] = "unused" => pos[n] = "unused"
    BY <2>2, ExecutedType
  <2> QED BY <1>2, <2>1, <2>3 DEF lands, RemovesOneAtMost
<1>6. ASSUME NEW tx \in inflight, expires(tx) PROVE Quiet
  BY <1>2, <1>6 DEF expires, RemovesOneAtMost
<1>7. CASE dispatch
  <2>1. PICK item \in HighItem \cup NormalItem : op' \in Start(item)
    BY <1>7 DEF dispatch, Shape
  <2> QED BY <1>3, <1>7, <2>1 DEF dispatch, world
<1>8. ASSUME NEW item \in DashboardItem, dashboard(item) PROVE Quiet
  BY <1>3, <1>8 DEF dashboard, world
<1>9. CASE OpStep
  BY <1>9, OpStepQuiet
<1>10. CASE ScanStep
  <2>1. CASE scanStarts \/ scanChecksTarget \/ scanEnds
    BY <1>2, <1>10, <2>1 DEF scanStarts, scanChecksTarget, scanEnds, scanLeaves, world, RemovesOneAtMost
  <2>2. CASE scanChecksOurs
    <3>1. scan.checking[1] \in Keys
      BY <2>2 DEF scanChecksOurs, Shape, TypeOK, Scan, Entry
    <3>2. RemoveEntry(scan.checking[1], scan.checking[2]) \/ UNCHANGED map
      BY <2>2 DEF scanChecksOurs
    <3>3. RemovesOneAtMost
      BY <3>1, <3>2, RemoveUnmaps DEF RemovesOneAtMost
    <3> QED BY <1>2, <2>2, <3>3 DEF scanChecksOurs, scanLeaves, world
  <2> QED BY <1>10, <2>1, <2>2 DEF ScanStep
<1>11. CASE UNCHANGED vars
  BY <1>2, <1>11 DEF vars, RemovesOneAtMost
<1> QED BY <1>4, <1>5, <1>6, <1>7, <1>8, <1>9, <1>10, <1>11 DEF Next

-----------------------------------------------------------------------------
(* No two entries share a position.  An entry is added for a position that *)
(* nothing maps: the NFT of an open was fresh when it was generated and    *)
(* nothing else can map it, and the audit imports what is unmapped.  The   *)
(* same of the mapping a restart loads.                                    *)

Unique ==
  /\ MappingInjective
  /\ \A j, k \in Keys : saved[j] # None /\ saved[j] = saved[k] => j = k
  /\ \A k \in Keys : map[k] # None => pos[map[k]] # "unused"
  /\ \A k \in Keys : saved[k] # None => pos[saved[k]] # "unused"
  /\ op # None => \A n \in op.seen : pos[n] # "unused"
  /\ Opening => map[op.key] = None
  /\ Opening /\ op.pc = "send" => pos[op.nft] # "unused" /\ op.nft \notin Mapped

LEMMA NextKeepsUnique ==
  ASSUME Shape, Unique, [Next]_vars
  PROVE  Unique'
<1>1. Shape'
  BY NextKeepsShape
<1>2. /\ map \in [Keys -> Nfts \cup {None}] /\ map' \in [Keys -> Nfts \cup {None}]
      /\ saved \in [Keys -> Nfts \cup {None}]
      /\ op # None => Fits(op)
      /\ op' # None => Fits(op')
      /\ None \notin Nfts /\ Targets \subseteq Keys /\ Nfts \subseteq Keys
  BY <1>1, NftAssumption DEF Shape, TypeOK, Keys
<1>3. CASE Quiet
  <2>1. \A k \in Keys : map'[k] = map[k] \/ map'[k] = None
    BY <1>2, <1>3 DEF Quiet, RemovesOneAtMost
  <2>2. MappingInjective'
    BY <2>1 DEF MappingInjective, Unique
  <2>3. \A k \in Keys : /\ map'[k] # None => pos'[map'[k]] # "unused"
                        /\ saved'[k] # None => pos'[saved'[k]] # "unused"
    BY <1>2, <1>3, <2>1 DEF Quiet, Unique
  <2>4. op' # None => \A n \in op'.seen : pos'[n] # "unused"
    BY <1>2, <1>3 DEF Quiet, Unique, Fits, Op
  <2>5. Opening' => map'[op'.key] = None
    <3> SUFFICES ASSUME Opening' PROVE map'[op'.key] = None
      OBVIOUS
    <3>1. op'.key \in Keys
      BY <1>2 DEF Opening, Fits
    <3>2. map[op'.key] = None
      BY <1>3 DEF Quiet, OpenGoesOn, Unique
    <3> QED BY <2>1, <3>1, <3>2
  <2>6. Opening' /\ op'.pc = "send" => pos'[op'.nft] # "unused" /\ op'.nft \notin Mapped'
    <3> SUFFICES ASSUME Opening', op'.pc = "send" PROVE pos'[op'.nft] # "unused" /\ op'.nft \notin Mapped'
      OBVIOUS
    <3>1. op'.nft \in Nfts
      BY <1>2 DEF Opening, Fits
    <3>2. Mapped' \subseteq Mapped
      BY <2>1 DEF Mapped
    <3>3. CASE Opening /\ op.pc = "send" /\ op'.nft = op.nft
      BY <1>3, <3>1, <3>2, <3>3 DEF Quiet, Unique
    <3>4. CASE pos[op'.nft] = "unused" /\ pos'[op'.nft] = "minted"
      BY <3>2, <3>4 DEF Mapped, Unique
    <3> QED BY <1>3, <3>3, <3>4 DEF Quiet, OpenGoesOn
  <2> QED BY <1>3, <2>2, <2>3, <2>4, <2>5, <2>6 DEF Unique, Quiet
<1>4. CASE openSent
  <2>1. /\ op.key \in Keys /\ op.nft \in Nfts /\ op.nft \notin Mapped /\ pos[op.nft] # "unused"
        /\ op \in Op /\ op # None
    BY <1>2, <1>4 DEF openSent, Unique, Opening, Fits
  <2>2. map' = [map EXCEPT ![op.key] = op.nft] /\ pos' = pos /\ saved' = saved
    BY <1>4 DEF openSent, opLeaves
  <2>3. op'.pc = "confirm" /\ op'.seen = op.seen
    BY <1>4, <2>1 DEF openSent, Op
  <2>4. MappingInjective'
    BY <1>2, <2>1, <2>2 DEF MappingInjective, Unique, Mapped
  <2> QED BY <1>2, <2>1, <2>2, <2>3, <2>4 DEF Unique, Opening
<1>5. CASE auditImports
  <2> DEFINE imported == Unmapped(op.seen)
  <2>1. \A n \in imported : n \in Nfts /\ n \notin Mapped /\ pos[n] # "unused"
    BY <1>2, <1>5 DEF auditImports, Unmapped, Unique, Fits, Op
  <2>2. /\ map' = [k \in Keys |-> IF k \in imported THEN k ELSE map[k]]
        /\ pos' = pos /\ saved' = saved /\ op' = None
    BY <1>5 DEF auditImports
  <2> HIDE DEF imported
  <2>3. MappingInjective'
    BY <1>2, <2>1, <2>2 DEF MappingInjective, Unique, Mapped
  <2>4. \A k \in Keys : map'[k] # None => pos'[map'[k]] # "unused"
    BY <1>2, <2>1, <2>2 DEF Unique
  <2> QED BY <2>2, <2>3, <2>4 DEF Unique, Opening
<1>6. CASE persist
  BY <1>6 DEF persist, world, Unique, MappingInjective, Mapped, Opening
<1>7. CASE crash
  BY <1>7 DEF crash, world, Unique, MappingInjective, Opening
<1> QED BY <1>3, <1>4, <1>5, <1>6, <1>7, StepKinds

LEMMA InitUnique == Init => Unique
<1> SUFFICES ASSUME Init PROVE Unique
  OBVIOUS
<1>1. op = None /\ map = [k \in Keys |-> None] /\ saved = [k \in Keys |-> None]
  BY DEF Init
<1> QED BY <1>1 DEF Unique, MappingInjective, Opening

(* The mapping target NFT -> our NFT is injective in every execution, with *)
(* crashes, scans and audits between the steps of the opens: what          *)
(* findByOurNft() returns, and a manual close unmaps, is the one entry of  *)
(* its position.                                                           *)
THEOREM MappingStaysInjective == Spec => []MappingInjective
<1>1. Shape /\ Unique => MappingInjective
  BY DEF Unique
<1> QED BY <1>1, InitShape, InitUnique, NextKeepsShape, NextKeepsUnique, PTL DEF Spec

-----------------------------------------------------------------------------
(* The cap.  It is checked before the awaits of copyOpenPosition; it still *)
(* holds when the entry is added because one operation runs at a time and  *)
(* nothing that runs beside it adds an entry.                              *)

WithinCap ==
  /\ CapRespected
  /\ Cap > 0 => Cardinality({t \in Targets : saved[t] # None}) <= Cap
  /\ Opening => ~CapReached

LEMMA NextKeepsWithinCap ==
  ASSUME Shape, WithinCap, [Next]_vars
  PROVE  WithinCap'
<1> DEFINE targets == {t \in Targets : map[t] # None}
           keys == {k \in Keys : map[k] # None}
<1>1. Shape'
  BY NextKeepsShape
<1>2. /\ map \in [Keys -> Nfts \cup {None}]
      /\ op # None => Fits(op)
      /\ None \notin Nfts /\ Targets \subseteq Keys /\ Nfts \subseteq Keys /\ Targets \cap Nfts = {}
      /\ Cap \in Nat
  BY NftAssumption, PositionBoundsAssumption DEF Shape, TypeOK, Keys
<1>3. IsFiniteSet(keys) /\ IsFiniteSet(targets)
  <2>1. keys \in SUBSET Keys /\ targets \in SUBSET Keys
    BY <1>2
  <2> QED BY <2>1, KeysFinite, FS_Subset
<1>4. Cardinality(keys) \in Nat /\ Cardinality(targets) \in Nat
  BY <1>3, FS_CardinalityType
<1>5. CASE Quiet
  <2>1. \A k \in Keys : map'[k] # None => map[k] # None
    BY <1>2, <1>5 DEF Quiet, RemovesOneAtMost
  <2>2. targets' \in SUBSET targets /\ keys' \in SUBSET keys
    BY <1>2, <2>1
  <2>3. /\ Cardinality(targets') <= Cardinality(targets) /\ Cardinality(targets') \in Nat
        /\ Cardinality(keys') <= Cardinality(keys) /\ Cardinality(keys') \in Nat
    BY <1>3, <2>2, FS_Subset, FS_CardinalityType
  <2>4. CapRespected'
    BY <1>2, <1>4, <2>3 DEF CapRespected, WithinCap
  <2>5. ~CapReached => ~CapReached'
    BY <1>2, <1>4, <2>3 DEF CapReached
  <2>6. Opening' => ~CapReached
    BY <1>5 DEF Quiet, OpenGoesOn, WithinCap
  <2> QED BY <1>5, <2>4, <2>5, <2>6 DEF WithinCap, Quiet
<1>6. CASE openSent
  <2>1. op.key \in Targets /\ op # None /\ op \in Op /\ map' = [map EXCEPT ![op.key] = op.nft]
    BY <1>2, <1>6 DEF openSent, Fits
  <2>2. op'.pc = "confirm"
    BY <1>6, <2>1 DEF openSent, Op
  <2>3. Cap > 0 => Cardinality(keys) < Cap
    BY <1>2, <1>4, <1>6 DEF WithinCap, CapReached, openSent, Opening
  <2>4. targets \in SUBSET keys /\ targets' \in SUBSET (targets \cup {op.key})
    BY <1>2, <2>1
  <2>5. Cardinality(targets) <= Cardinality(keys)
    BY <1>3, <2>4, FS_Subset
  <2>6. IsFiniteSet(targets \cup {op.key}) /\ Cardinality(targets \cup {op.key}) <= Cardinality(targets) + 1
    <3> HIDE DEF targets, keys
    <3>1. /\ IsFiniteSet(targets \cup {op.key})
          /\ \/ Cardinality(targets \cup {op.key}) = Cardinality(targets)
             \/ Cardinality(targets \cup {op.key}) = Cardinality(targets) + 1
      BY <1>3, FS_AddElement
    <3> QED BY <1>4, <3>1
  <2>7. Cardinality(targets') <= Cardinality(targets \cup {op.key})
    BY <2>4, <2>6, FS_Subset
  <2>8. Cardinality(targets') \in Nat /\ Cardinality(targets \cup {op.key}) \in Nat
    BY <2>4, <2>6, FS_Subset, FS_CardinalityType
  <2>9. CapRespected'
    BY <1>2, <1>4, <2>3, <2>5, <2>6, <2>7, <2>8 DEF CapRespected
  <2> QED BY <1>6, <2>2, <2>9 DEF WithinCap, openSent, opLeaves, Opening
<1>7. CASE auditImports
  <2>1. Unmapped(op.seen) \subseteq Nfts
    BY <1>2, <1>7 DEF auditImports, Unmapped, Fits, Op
  <2>2. targets' = targets
    BY <1>2, <1>7, <2>1 DEF auditImports
  <2> QED BY <1>7, <2>2 DEF auditImports, WithinCap, CapRespected, Opening
<1>8. CASE persist
  BY <1>8 DEF persist, world, WithinCap, CapRespected, CapReached, Opening
<1>9. CASE crash
  BY <1>9 DEF crash, world, WithinCap, CapRespected, Opening
<1> QED BY <1>5, <1>6, <1>7, <1>8, <1>9, StepKinds

LEMMA InitWithinCap == Init => WithinCap
<1> SUFFICES ASSUME Init PROVE WithinCap
  OBVIOUS
<1>1. op = None /\ {t \in Targets : map[t] # None} = {} /\ {t \in Targets : saved[t] # None} = {}
  BY DEF Init, Keys
<1> QED BY <1>1, FS_EmptySet, PositionBoundsAssumption DEF WithinCap, CapRespected, Opening

(* No more than Cap target positions are ever copied at once, whatever the *)
(* interleaving of the open's awaits with scans, writes and restarts.      *)
THEOREM CapAlwaysRespected == Spec => []CapRespected
<1>1. Shape /\ WithinCap => CapRespected
  BY DEF WithinCap
<1> QED BY <1>1, InitShape, InitWithinCap, NextKeepsShape, NextKeepsWithinCap, PTL DEF Spec

-----------------------------------------------------------------------------
(* The orphans.  A position may come to be on chain long after its open    *)
(* was sent, so the argument is about the transactions too: an open in     *)
(* flight is for a position that is mapped, or escaped, or that the        *)
(* running open still works on.                                            *)

Minting(n) == op # None /\ op.kind = "open" /\ op.pc = "send" /\ op.nft = n

Explained ==
  \A n \in Nfts :
    /\ Sent("open", n) => pos[n] = "minted" /\ (n \in Mapped \cup excused \/ Minting(n))
    /\ OnChain(n) => n \in Mapped \cup excused \/ Minting(n) \/ Sent("close", n)

(* An entry under one of our own NFTs maps it to itself (the audit's       *)
(* import), so that importing it again overwrites nothing.                 *)
SelfKeys == \A n \in Nfts : map[n] \in {n, None} /\ saved[n] \in {n, None}

LEMMA NextKeepsSelfKeys ==
  ASSUME Shape, SelfKeys, [Next]_vars
  PROVE  SelfKeys'
<1>1. /\ map \in [Keys -> Nfts \cup {None}]
      /\ op # None => Fits(op)
      /\ Nfts \subseteq Keys /\ Targets \cap Nfts = {}
  BY NftAssumption DEF Shape, TypeOK, Keys
<1>2. CASE Quiet
  BY <1>1, <1>2 DEF Quiet, RemovesOneAtMost, SelfKeys
<1>3. CASE openSent
  BY <1>1, <1>3 DEF openSent, opLeaves, Fits, SelfKeys
<1>4. CASE auditImports
  BY <1>1, <1>4 DEF auditImports, SelfKeys
<1>5. CASE persist
  BY <1>5 DEF persist, SelfKeys
<1>6. CASE crash
  BY <1>6 DEF crash, SelfKeys
<1> QED BY <1>2, <1>3, <1>4, <1>5, <1>6, StepKinds

(* A step that leaves the positions as they are keeps what explains them   *)
(* if whatever it unmaps is not on its way and is not on chain, or is      *)
(* being closed.                                                           *)
LEMMA ExplainedKept ==
  ASSUME Explained, pos' = pos,
         ASSUME NEW n \in Nfts
         PROVE  /\ Sent("open", n)' => Sent("open", n)
                /\ Sent("close", n) => Sent("close", n)'
                /\ Minting(n) => Minting(n)'
                /\ n \in Mapped \cup excused =>
                     \/ n \in Mapped' \cup excused'
                     \/ ~Sent("open", n) /\ (~OnChain(n) \/ Sent("close", n)')
  PROVE  Explained'
<1> SUFFICES ASSUME NEW n \in Nfts
             PROVE  /\ Sent("open", n)' => pos'[n] = "minted" /\ (n \in Mapped' \cup excused' \/ Minting(n)')
                    /\ OnChain(n)' => n \in Mapped' \cup excused' \/ Minting(n)' \/ Sent("close", n)'
  BY DEF Explained
<1>1. OnChain(n)' => OnChain(n)
  BY DEF OnChain
<1> QED BY <1>1 DEF Explained

(* delete() of an entry on a reading: what it loses is excused, or is      *)
(* neither on its way nor on chain.                                        *)
LEMMA RemoveEntryExplains ==
  ASSUME Shape, NEW key \in Keys \cup {None}, NEW m, RemoveEntry(key, m), NEW n \in Mapped \cup excused
  PROVE  n \in Mapped' \cup excused' \/ (~Sent("open", n) /\ ~OnChain(n))
<1>1. map \in [Keys -> Nfts \cup {None}]
  BY DEF Shape, TypeOK
<1>2. CASE key = None \/ map[key] = None
  BY <1>2 DEF RemoveEntry, Mapped
<1>3. CASE ~(key = None \/ map[key] = None)
  <2>1. map' = [map EXCEPT ![key] = None] /\ excused \subseteq excused'
        /\ (map[key] # m \/ Sent("open", m) \/ OnChain(m) => map[key] \in excused')
    BY <1>3 DEF RemoveEntry
  <2>2. n = map[key] \/ n \in Mapped' \cup excused'
    BY <1>1, <1>3, <2>1 DEF Mapped
  <2> QED BY <2>1, <2>2
<1> QED BY <1>2, <1>3

(* delete() after a close: what it loses is excused, or is what was        *)
(* closed.                                                                 *)
LEMMA RemoveClosedEntryExplains ==
  ASSUME Shape, NEW key \in Keys \cup {None}, NEW m, RemoveClosedEntry(key, m), NEW n \in Mapped \cup excused
  PROVE  n \in Mapped' \cup excused' \/ n = m
<1>1. map \in [Keys -> Nfts \cup {None}]
  BY DEF Shape, TypeOK
<1>2. CASE key = None \/ map[key] = None
  BY <1>2 DEF RemoveClosedEntry, Mapped
<1>3. CASE ~(key = None \/ map[key] = None)
  <2>1. map' = [map EXCEPT ![key] = None] /\ excused \subseteq excused'
        /\ (map[key] # m => map[key] \in excused')
    BY <1>3 DEF RemoveClosedEntry
  <2>2. n = map[key] \/ n \in Mapped' \cup excused'
    BY <1>1, <1>3, <2>1 DEF Mapped
  <2> QED BY <2>1, <2>2
<1> QED BY <1>2, <1>3

(* The steps of an open: what it gives up while on its way or on chain is  *)
(* excused, and what it maps had no entry before.                          *)
LEMMA OpenExplains ==
  ASSUME Shape, Unique, Explained,
         openReads \/ openSent \/ openConfirms \/ openFails(TRUE) \/ openFails(FALSE)
  PROVE  Explained'
<1>1. /\ pos \in [Nfts -> {"unused", "minted", "live", "empty", "gone"}]
      /\ map \in [Keys -> Nfts \cup {None}] /\ inflight \in SUBSET (TxKind \X Nfts)
      /\ op # None => Fits(op)
      /\ Targets \subseteq Keys
  BY DEF Shape, TypeOK, Keys
<1>2. CASE openReads
  <2>1. \A n \in Nfts : ~Minting(n)
    BY <1>2 DEF openReads, Minting
  <2>2. \A n \in Nfts : Sent("open", n)' = Sent("open", n) /\ Sent("close", n)' = Sent("close", n)
    BY <1>2 DEF openReads, Sent
  <2>3. Mapped' = Mapped /\ excused' = excused
    BY <1>2 DEF openReads, Mapped
  <2>4. CASE pos' = pos
    BY <2>1, <2>2, <2>3, <2>4, ExplainedKept
  <2>5. CASE Fresh # {} /\ pos' = [pos EXCEPT ![FirstFresh] = "minted"]
    <3>1. \A n \in Nfts : pos'[n] = pos[n] \/ (pos[n] = "unused" /\ pos'[n] = "minted")
      BY <1>1, <2>5, FirstFreshFacts
    <3> QED BY <2>1, <2>2, <2>3, <3>1 DEF Explained, OnChain
  <2> QED BY <1>2, <2>4, <2>5 DEF openReads
<1>3. CASE openSent
  <2>1. op # None /\ op.kind = "open" /\ op.pc = "send" /\ op.key \in Keys /\ op.nft \in Nfts /\ op \in Op
    BY <1>1, <1>3 DEF openSent, Fits
  <2>2. map[op.key] = None /\ pos[op.nft] = "minted"
    BY <1>3, <2>1 DEF openSent, Unique, Opening
  <2>3. Mapped' = Mapped \cup {op.nft} /\ excused' = excused /\ pos' = pos
    <3>1. map' = [map EXCEPT ![op.key] = op.nft]
      BY <1>3 DEF openSent
    <3>2. op.nft # None
      BY <2>1, NftAssumption
    <3> QED BY <1>1, <1>3, <2>1, <2>2, <3>1, <3>2 DEF openSent, Mapped
  <2>4. \A n \in Nfts : Sent("open", n)' => Sent("open", n) \/ n = op.nft
    BY <1>3 DEF openSent, Sent
  <2>5. \A n \in Nfts : Sent("close", n) => Sent("close", n)'
    BY <1>3 DEF openSent, Sent
  <2>6. \A n \in Nfts : Minting(n) => n = op.nft
    BY DEF Minting
  <2> QED BY <2>2, <2>3, <2>4, <2>5, <2>6 DEF Explained, OnChain
<1>4. CASE openConfirms
  <2>1. \A n \in Nfts : ~Minting(n)
    BY <1>4 DEF openConfirms, Minting
  <2> QED BY <1>4, <2>1, ExplainedKept DEF openConfirms, Sent, Mapped
<1>5. ASSUME NEW sent \in BOOLEAN, openFails(sent) PROVE Explained'
  <2>1. op # None /\ op.kind = "open" /\ op.pc = "send" /\ op.nft \in Nfts /\ op \in Op
    BY <1>1, <1>5 DEF openFails, Fits
  <2>2. PICK m \in Nfts : op.nft = m
    BY <2>1
  <2>3. Mapped' = Mapped
    BY <1>5 DEF openFails, Mapped
  <2>4. \A n \in Nfts : Sent("open", n)' => Sent("open", n) \/ (n = m /\ sent)
    BY <1>5, <2>2 DEF openFails, Sent
  <2>5. \A n \in Nfts : Sent("close", n)' = Sent("close", n)
    BY <1>5, <2>2 DEF openFails, Sent
  <2>6. sent => pos[m] = "minted"
    BY <1>5, <2>2 DEF openFails
  <2>7. \A n \in Nfts : Minting(n) => n = m
    BY <2>2 DEF Minting
  <2>8. CASE op.tries < MaxTries - 1 /\ op' = [op EXCEPT !.tries = @ + 1] /\ pos' = pos /\ excused' = excused
    <3>1. Fits(op')
      BY <1>1, <2>1, <2>8, RetryFits
    <3>2. op'.kind = "open" /\ op'.pc = "send" /\ op'.nft = m
      BY <2>1, <2>2, <2>8 DEF Op
    <3>3. Minting(m)'
      BY <3>1, <3>2, NoneAssumption DEF Minting, Fits
    <3> QED BY <2>3, <2>4, <2>5, <2>6, <2>7, <2>8, <3>3 DEF Explained, OnChain
  <2>9. CASE excused' = Escapes(op.nft) /\ ((Fresh # {} /\ pos' = [pos EXCEPT ![FirstFresh] = "minted"]) \/ pos' = pos)
    <3>1. \A n \in Nfts : pos'[n] = pos[n] \/ (pos[n] = "unused" /\ pos'[n] = "minted")
      BY <1>1, <2>9, FirstFreshFacts
    <3>2. excused \subseteq excused' /\ (Sent("open", m)' \/ OnChain(m) => m \in excused')
      BY <2>9, <2>2 DEF Escapes, Sent
    <3>3. \A n \in Nfts : OnChain(n)' => OnChain(n)
      BY <3>1 DEF OnChain
    <3> QED BY <2>3, <2>4, <2>5, <2>6, <2>7, <3>1, <3>2, <3>3 DEF Explained
  <2> QED BY <1>5, <2>8, <2>9 DEF openFails
<1> QED BY <1>2, <1>3, <1>4, <1>5

(* The steps of the other operations.                                      *)
LEMMA OtherOpsExplain ==
  ASSUME Shape, Unique, SelfKeys, Explained, OpStep, op # None, op.kind # "open"
  PROVE  Explained'
<1>1. /\ pos \in [Nfts -> {"unused", "minted", "live", "empty", "gone"}]
      /\ map \in [Keys -> Nfts \cup {None}]
      /\ Fits(op)
  BY DEF Shape, TypeOK
<1>2. \A n \in Nfts : ~Minting(n)
  BY DEF Minting
<1>3. op.key \in Keys \cup {None} /\ ManualKey \in Keys \cup {None}
  BY OpKeys
<1>4. CASE decreaseReads \/ increaseReads \/ copyFindsGone \/ closeNotVerified \/ auditReads
  <2>1. UNCHANGED <<pos, inflight, map, excused>>
    BY <1>4 DEF decreaseReads, increaseReads, copyFindsGone, GoneFor, closeNotVerified, auditReads
  <2> QED BY <1>2, <2>1, ExplainedKept DEF Sent, Mapped
<1>5. CASE decreaseSent \/ increaseSent \/ closeSent \/ orphanCloseSent \/ sendFails(TRUE) \/ sendFails(FALSE)
  <2>1. UNCHANGED <<pos, map, excused>>
    BY <1>5 DEF decreaseSent, increaseSent, ChangeSent, closeSent, orphanCloseSent, CloseSent, sendFails
  <2>2. inflight' = inflight \/ \E k \in {"increase", "decrease", "close"} : inflight' = inflight \cup {<<k, op.nft>>}
    BY <1>5 DEF decreaseSent, increaseSent, ChangeSent, closeSent, orphanCloseSent, CloseSent, sendFails
  <2>3. \A n \in Nfts : (Sent("open", n)' => Sent("open", n)) /\ (Sent("close", n) => Sent("close", n)')
    BY <2>2 DEF Sent
  <2> QED BY <1>2, <2>1, <2>3, ExplainedKept DEF Mapped
<1>6. CASE manualCloseSent
  <2>1. PICK m \in Nfts : op.nft = m
    BY <1>1, <1>6 DEF manualCloseSent, Fits
  <2>2. pos' = pos /\ inflight' = inflight \cup {<<"close", m>>} /\ RemoveClosedEntry(op.key, m) /\ OnChain(m)
    BY <1>6, <2>1 DEF manualCloseSent
  <2>3. \A n \in Nfts : (Sent("open", n)' => Sent("open", n)) /\ (Sent("close", n) => Sent("close", n)')
    BY <2>2 DEF Sent
  <2>4. Sent("close", m)' /\ ~Sent("open", m)
    BY <2>2 DEF Sent, Explained, OnChain
  <2>5. \A n \in Mapped \cup excused : n \in Mapped' \cup excused' \/ n = m
    BY <1>3, <2>2, RemoveClosedEntryExplains
  <2> QED BY <1>2, <2>2, <2>3, <2>4, <2>5, ExplainedKept
<1>7. CASE orphanFindsGone \/ manualFindsGone \/ orphanBlockhash \/ manualBlockhash
  <2>1. pos' = pos /\ inflight' = inflight /\ \E key \in Keys \cup {None} : RemoveEntry(key, op.nft)
    BY <1>3, <1>7 DEF orphanFindsGone, manualFindsGone, orphanBlockhash, manualBlockhash, GoneFor, BlockhashNotFound
  <2>2. \A n \in Mapped \cup excused : n \in Mapped' \cup excused' \/ (~Sent("open", n) /\ ~OnChain(n))
    BY <2>1, RemoveEntryExplains
  <2> QED BY <1>2, <2>1, <2>2, ExplainedKept DEF Sent
<1>8. CASE closeVerified \/ orphanCloseVerified
  <2>1. pos' = pos /\ inflight' = inflight /\ RemoveClosedEntry(op.key, op.nft) /\ pos[op.nft] = "gone"
        /\ op.nft \in Nfts
    BY <1>1, <1>8 DEF closeVerified, orphanCloseVerified, Verified, Fits
  <2>2. ~Sent("open", op.nft) /\ ~OnChain(op.nft)
    BY <2>1 DEF Explained, OnChain
  <2>3. \A n \in Mapped \cup excused : n \in Mapped' \cup excused' \/ n = op.nft
    BY <1>3, <2>1, RemoveClosedEntryExplains
  <2> QED BY <1>2, <2>1, <2>2, <2>3, ExplainedKept DEF Sent
<1>9. CASE auditImports
  <2> DEFINE imported == Unmapped(op.seen)
  <2>1. imported \subseteq Nfts /\ imported \subseteq Keys /\ imported \cap Mapped = {}
    BY <1>1, <1>9 DEF auditImports, Unmapped, Fits, Op, Keys
  <2>2. map' = [k \in Keys |-> IF k \in imported THEN k ELSE map[k]] /\ excused' = excused \ imported
        /\ pos' = pos /\ inflight' = inflight
    BY <1>9 DEF auditImports
  <2> HIDE DEF imported
  <2>3. \A k \in imported : map[k] = None
    BY <2>1, NftAssumption DEF SelfKeys, Mapped
  <2>4. Mapped \cup imported \subseteq Mapped'
    BY <1>1, <2>1, <2>2, <2>3, NftAssumption DEF Mapped
  <2>5. \A n \in Mapped \cup excused : n \in Mapped' \cup excused'
    BY <2>2, <2>4
  <2> QED BY <1>2, <2>2, <2>5, ExplainedKept DEF Sent
<1>10. CASE openReads \/ openSent \/ openConfirms \/ openFails(TRUE) \/ openFails(FALSE)
  BY <1>10 DEF openReads, openSent, openConfirms, openFails
<1> QED BY <1>4, <1>5, <1>6, <1>7, <1>8, <1>9, <1>10 DEF OpStep

LEMMA NextKeepsExplained ==
  ASSUME Shape, Unique, SelfKeys, Explained, [Next]_vars
  PROVE  Explained'
<1>1. /\ pos \in [Nfts -> {"unused", "minted", "live", "empty", "gone"}]
      /\ map \in [Keys -> Nfts \cup {None}] /\ inflight \in SUBSET (TxKind \X Nfts)
      /\ op # None => Fits(op)
  BY DEF Shape, TypeOK
<1>2. ASSUME UNCHANGED <<pos, inflight, map, excused>>, op' = op \/ op = None
      PROVE  Explained'
  BY <1>2, ExplainedKept DEF Sent, Mapped, Minting
<1>3. CASE TargetStep
  BY <1>2, <1>3 DEF TargetStep, targetOpens, targetEmpties, targetRefills, targetCloses, TargetActs
<1>4. CASE Lands
  <2>1. PICK tx \in inflight : lands(tx)
    BY <1>4 DEF Lands
  <2>2. PICK k \in TxKind, m \in Nfts : tx = <<k, m>>
    BY <1>1, <2>1
  <2>3. pos' = [pos EXCEPT ![m] = Executed(k, pos[m])] /\ inflight' = inflight \ {<<k, m>>}
        /\ UNCHANGED <<map, excused, op>>
    BY <2>1, <2>2 DEF lands
  <2>4. Mapped' = Mapped /\ \A n \in Nfts : Minting(n)' = Minting(n)
    BY <2>3 DEF Mapped, Minting
  <2>5. \A n \in Nfts : /\ Sent("open", n)' <=> Sent("open", n) /\ ~(k = "open" /\ n = m)
                        /\ Sent("close", n)' <=> Sent("close", n) /\ ~(k = "close" /\ n = m)
    BY <2>3 DEF Sent
  <2>6. Sent(k, m)
    BY <2>1, <2>2 DEF Sent
  <2>7. ASSUME NEW n \in Nfts, n # m
        PROVE  /\ Sent("open", n)' => pos'[n] = "minted" /\ (n \in Mapped' \cup excused' \/ Minting(n)')
               /\ OnChain(n)' => n \in Mapped' \cup excused' \/ Minting(n)' \/ Sent("close", n)'
    <3>1. pos'[n] = pos[n]
      BY <1>1, <2>3, <2>7
    <3> QED BY <2>3, <2>4, <2>5, <2>7, <3>1 DEF Explained, OnChain
  <2>8. /\ Sent("open", m)' => pos'[m] = "minted" /\ (m \in Mapped' \cup excused' \/ Minting(m)')
        /\ OnChain(m)' => m \in Mapped' \cup excused' \/ Minting(m)' \/ Sent("close", m)'
    <3>1. pos'[m] = Executed(k, pos[m])
      BY <1>1, <2>3
    <3>2. pos[m] = "minted" /\ k # "open" => pos'[m] = "minted"
      BY <1>1, <3>1, ExecutedType
    <3>3. OnChain(m)' => (k = "open" /\ pos[m] = "minted") \/ (OnChain(m) /\ k # "close")
      BY <1>1, <3>1, ExecutedType DEF OnChain
    <3> QED BY <2>3, <2>4, <2>5, <2>6, <3>2, <3>3 DEF Explained
  <2> QED BY <2>7, <2>8 DEF Explained
<1>5. ASSUME NEW tx \in inflight, expires(tx) PROVE Explained'
  <2>1. PICK k \in TxKind, m \in Nfts : tx = <<k, m>>
    BY <1>1
  <2>2. inflight' = inflight \ {<<k, m>>} /\ UNCHANGED <<pos, map, op>>
        /\ excused \subseteq excused' /\ (k = "close" => m \in Mapped \cup excused')
    BY <1>5, <2>1 DEF expires
  <2>3. Mapped' = Mapped /\ \A n \in Nfts : Minting(n)' = Minting(n) /\ OnChain(n)' = OnChain(n)
    BY <2>2 DEF Mapped, Minting, OnChain
  <2>4. \A n \in Nfts : /\ Sent("open", n)' => Sent("open", n)
                        /\ Sent("close", n) => Sent("close", n)' \/ (k = "close" /\ n = m)
    BY <2>2 DEF Sent
  <2> QED BY <2>2, <2>3, <2>4 DEF Explained
<1>6. CASE dispatch
  BY <1>2, <1>6 DEF dispatch, world
<1>7. ASSUME NEW item \in DashboardItem, dashboard(item) PROVE Explained'
  BY <1>2, <1>7 DEF dashboard, world
<1>8. CASE OpStep
  <2>1. op # None
    BY <1>8
    DEF OpStep, openReads, openSent, openConfirms, openFails, decreaseReads, increaseReads, decreaseSent,
        increaseSent, ChangeSent, closeSent, orphanCloseSent, CloseSent, manualCloseSent, sendFails, copyFindsGone,
        orphanFindsGone, manualFindsGone, GoneFor, orphanBlockhash, manualBlockhash, BlockhashNotFound,
        closeVerified, orphanCloseVerified, Verified, closeNotVerified, auditReads, auditImports
  <2>2. CASE op.kind = "open"
    <3>1. openReads \/ openSent \/ openConfirms \/ openFails(TRUE) \/ openFails(FALSE)
      BY <1>1, <1>8, <2>1, <2>2
      DEF OpStep, decreaseReads, increaseReads, decreaseSent,
          increaseSent, ChangeSent, closeSent, orphanCloseSent, CloseSent, manualCloseSent, sendFails, copyFindsGone,
          orphanFindsGone, manualFindsGone, GoneFor, orphanBlockhash, manualBlockhash, BlockhashNotFound,
          closeVerified, orphanCloseVerified, Verified, closeNotVerified, auditReads, auditImports, Fits
    <3> QED BY <3>1, OpenExplains
  <2> QED BY <1>8, <2>1, <2>2, OtherOpsExplain
<1>9. CASE ScanStep
  <2>1. CASE scanStarts \/ scanChecksTarget \/ scanEnds
    BY <1>2, <2>1 DEF scanStarts, scanChecksTarget, scanEnds, scanLeaves, world
  <2>2. CASE scanChecksOurs
    <3>1. scan.checking[1] \in Keys
      BY <2>2 DEF scanChecksOurs, Shape, TypeOK, Scan, Entry
    <3>2. UNCHANGED <<pos, inflight, op>>
      BY <2>2 DEF scanChecksOurs, scanLeaves, world
    <3>3. RemoveEntry(scan.checking[1], scan.checking[2]) \/ UNCHANGED <<map, excused>>
      BY <2>2 DEF scanChecksOurs
    <3>4. CASE UNCHANGED <<map, excused>>
      BY <1>2, <3>2, <3>4
    <3>5. CASE RemoveEntry(scan.checking[1], scan.checking[2])
      <4>1. \A n \in Mapped \cup excused : n \in Mapped' \cup excused' \/ (~Sent("open", n) /\ ~OnChain(n))
        BY <3>1, <3>5, RemoveEntryExplains
      <4> QED BY <3>2, <4>1, ExplainedKept DEF Sent, Minting
    <3> QED BY <3>3, <3>4, <3>5
  <2> QED BY <1>9, <2>1, <2>2 DEF ScanStep
<1>10. CASE persist
  BY <1>2, <1>10 DEF persist, world
<1>11. CASE crash
  <2>1. UNCHANGED <<pos, inflight>> /\ map' = saved /\ op' = None
    BY <1>11 DEF crash, world
  <2>2. excused \subseteq excused' /\ Mapped \subseteq Mapped' \cup excused'
    BY <1>11 DEF crash, Mapped
  <2>3. \A n \in Nfts : Minting(n) => n \in excused'
    BY <1>11, NftAssumption DEF crash, Minting
  <2>4. \A n \in Nfts : Sent("open", n)' = Sent("open", n) /\ Sent("close", n)' = Sent("close", n) /\ OnChain(n)' = OnChain(n)
    BY <2>1 DEF Sent, OnChain
  <2> QED BY <2>1, <2>2, <2>3, <2>4 DEF Explained
<1>12. CASE UNCHANGED vars
  BY <1>2, <1>12 DEF vars
<1> QED BY <1>3, <1>4, <1>5, <1>6, <1>7, <1>8, <1>9, <1>10, <1>11, <1>12 DEF Next

LEMMA InitExplained == Init => Explained /\ SelfKeys
<1> SUFFICES ASSUME Init PROVE Explained /\ SelfKeys
  OBVIOUS
<1>1. inflight = {} /\ \A n \in Nfts : pos[n] = "unused" /\ map[n] = None /\ saved[n] = None
  BY DEF Init, Keys
<1> QED BY <1>1 DEF Explained, SelfKeys, Sent, OnChain

(* A position of ours that is on chain is mapped, or is being opened or    *)
(* closed, or escaped in one of the ways the steps name: no interleaving   *)
(* of events, clean-up, audit, scan, restarts and late transactions loses  *)
(* one in any other way, for any number of each.                           *)
THEOREM OrphansAlwaysExplained == Spec => []OrphansAreExplained
<1>1. Explained => OrphansAreExplained
  BY DEF Explained, OrphansAreExplained, Minting
<1>2. Init => Shape /\ Unique /\ SelfKeys /\ Explained
  BY InitShape, InitUnique, InitExplained
<1>3. Shape /\ Unique /\ SelfKeys /\ Explained /\ [Next]_vars => (Shape /\ Unique /\ SelfKeys /\ Explained)'
  BY NextKeepsShape, NextKeepsUnique, NextKeepsSelfKeys, NextKeepsExplained
<1> QED BY <1>1, <1>2, <1>3, PTL DEF Spec

=============================================================================
