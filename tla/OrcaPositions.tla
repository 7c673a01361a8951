---------------------------- MODULE OrcaPositions ----------------------------
(***************************************************************************)
(* The Orca executor: src/executor/orca-position.ts.                       *)
(*                                                                         *)
(* Whether the pauses, the close-only wallets, the filters and the swaps   *)
(* that fund a deposit let an open or an increase pass is left open        *)
(* (OrcaStart and the first read of the operation may end it).  The lock   *)
(* "busy" is left out: the queue executes one operation at a time.  A      *)
(* position's fees are not counted, so collecting them ends an operation   *)
(* without an effect.                                                      *)
(***************************************************************************)
EXTENDS CopyChain

ORCA_MAX_OPEN_ATTEMPTS == 2
ORCA_MAX_INCREASE_ATTEMPTS == 2
ORCA_MAX_DECREASE_ATTEMPTS == 2
ORCA_MAX_CLOSE_ATTEMPTS == 3

(* The operations up to their first await.                                 *)
orcaCopyOpenPosition(t) ==
  IF map[t] # None THEN {None} ELSE {None, Running("open", t, None, "read")}
orcaCopyIncreaseLiquidity(t) ==
  IF map[t] = None THEN {None} ELSE {None, Running("increase", t, map[t].nft, "read")}
orcaCopyDecreaseLiquidity(t) ==
  IF map[t] = None THEN {None} ELSE {Running("decrease", t, map[t].nft, "read")}
orcaCopyClosePosition(t) ==
  IF map[t] = None THEN {None} ELSE {Running("close", t, map[t].nft, "send")}
orcaManualClosePosition(n) ==
  IF TargetsOf(n) = {} THEN {None} ELSE UNION {orcaCopyClosePosition(t) : t \in TargetsOf(n)}

OrcaStart(item) ==
  CASE item.kind = "open" -> orcaCopyOpenPosition(item.key)
    [] item.kind = "increase" -> orcaCopyIncreaseLiquidity(item.key)
    [] item.kind = "decrease" -> orcaCopyDecreaseLiquidity(item.key)
    [] item.kind = "close" -> orcaCopyClosePosition(item.key)
    [] item.kind = "manualClose" -> orcaManualClosePosition(item.nft)

(* verifyTxSuccess() does not find a transaction that succeeded.           *)
orcaVerifyTxFails == Fault("notVerified")

(* parseTxTokenChanges() and addPendingSwap() for every mint it lists.     *)
orcaAddPendingSwaps(got) == loose' = loose - got

-----------------------------------------------------------------------------
(* Open.                                                                   *)

(* The target is read (again, up to three times, while it is not there);   *)
(* without liquidity there is nothing to copy; the filters or a swap that  *)
(* fails may end the operation.                                            *)
orcaOpenReads ==
  /\ At("open", "read")
  /\ \E r \in {target[op.key].liq, None} :
       /\ ReadsTarget(op.key, r)
       /\ \/ r \notin {None, 0} /\ op' = [op EXCEPT !.pc = "send", !.amount = r]
          \/ Done
  /\ UNCHANGED <<pos, late, loose, map>> /\ opLeaves

(* openPosition() generates the NFT's keypair, buildAndExecute() sends.    *)
orcaOpenSends ==
  /\ At("open", "send") /\ Fresh # {}
  /\ pos' = Minted(op.key)
  /\ op' = Sending([kind |-> "open", nft |-> FirstFresh, liq |-> op.amount], "confirm")
  /\ UNCHANGED <<late, loose, map, faults>> /\ opLeaves

OrcaSavesNoLiquidity ==
  /\ At("open", "confirm") /\ Confirmed
  /\ SetMapping(op.key, op.nft, None)
  /\ Done
  /\ UNCHANGED <<pos, loose>> /\ opLeaves

(* The mapping is saved with the liquidity the target had when it was      *)
(* read.                                                                   *)
orcaOpenConfirmed ==
  /\ At("open", "confirm") /\ Confirmed
  /\ SetMapping(op.key, op.nft, op.amount)
  /\ Done
  /\ UNCHANGED <<pos, loose>> /\ opLeaves

orcaOpenThrows ==
  /\ At("open", "confirm") /\ Throws
  /\ op' = Settled("recover")
  /\ UNCHANGED <<pos, loose, map>> /\ opLeaves

OrcaRetryOpen ==
  \/ /\ op.tries + 1 < ORCA_MAX_OPEN_ATTEMPTS /\ Fresh # {}
     /\ op' = [op EXCEPT !.pc = "send", !.tries = @ + 1]
  \/ Done

OrcaRetriesWithoutLooking ==
  /\ At("open", "recover") /\ NoFault
  /\ OrcaRetryOpen /\ UNCHANGED map
  /\ UNCHANGED <<pos, late, loose>> /\ opLeaves

(* After an exception the position is looked up: if it exists, the mapping *)
(* is saved all the same; if not, the open is tried again with a new NFT   *)
(* (a simulation or transient error) or given up.                          *)
orcaOpenRecovers ==
  /\ At("open", "recover")
  /\ \E r \in {pos[op.nft].liq, None} :
       /\ ReadsOurs(op.nft, r)
       /\ \/ r # None /\ SetMapping(op.key, op.nft, op.amount) /\ Done
          \/ r = None /\ OrcaRetryOpen /\ UNCHANGED map
  /\ UNCHANGED <<pos, late, loose>> /\ opLeaves

-----------------------------------------------------------------------------
(* Increase.                                                               *)

orcaIncreaseReadsOurs ==
  /\ At("increase", "read")
  /\ \E r \in {pos[op.nft].liq, None} :
       /\ ReadsOurs(op.nft, r)
       /\ \/ r # None /\ op' = [op EXCEPT !.pc = "delta", !.amount = r]
          \/ Done
  /\ UNCHANGED <<pos, late, loose, map>> /\ opLeaves

OrcaAddsAllTheTargetHas ==
  /\ At("increase", "delta")
  /\ \E r \in {target[op.key].liq, None} :
       /\ ReadsTarget(op.key, r)
       /\ \/ r = None /\ Done
          \/ r # None /\ op' = [op EXCEPT !.pc = "send", !.amount = r, !.tries = 0]
  /\ UNCHANGED <<pos, late, loose, map>> /\ opLeaves

(* The increase makes up for what the target has and we have not.  If that *)
(* is nothing, both are read once more after a while.                      *)
orcaIncreaseReadsTarget ==
  /\ At("increase", "delta")
  /\ \E r \in {target[op.key].liq, None} :
       /\ ReadsTarget(op.key, r)
       /\ \/ r = None /\ Done
          \/ /\ r # None /\ r > op.amount
             /\ \/ op' = [op EXCEPT !.pc = "send", !.amount = r - op.amount, !.tries = 0]
                \/ Done
          \/ /\ r # None /\ r <= op.amount
             /\ IF op.tries = 0 THEN op' = [op EXCEPT !.pc = "again", !.tries = 1] ELSE Done
  /\ UNCHANGED <<pos, late, loose, map>> /\ opLeaves

(* Our position is read again; if that fails, the old reading is kept.     *)
orcaIncreaseRereadsOurs ==
  /\ At("increase", "again")
  /\ \E r \in {pos[op.nft].liq, None} :
       /\ ReadsOurs(op.nft, r)
       /\ op' = [op EXCEPT !.pc = "delta", !.amount = IF r = None THEN @ ELSE r]
  /\ UNCHANGED <<pos, late, loose, map>> /\ opLeaves

orcaIncreaseSends ==
  /\ At("increase", "send")
  /\ op' = Sending([kind |-> "increase", nft |-> op.nft, liq |-> op.amount], "confirm")
  /\ UNCHANGED <<pos, late, loose, map, faults>> /\ opLeaves

orcaIncreaseConfirmed ==
  /\ At("increase", "confirm") /\ Confirmed
  /\ op' = Settled("store")
  /\ UNCHANGED <<pos, loose, map>> /\ opLeaves

(* After an exception the same amount is sent again, or the increase is    *)
(* given up.                                                               *)
orcaIncreaseThrows ==
  /\ At("increase", "confirm") /\ Throws
  /\ \/ op.tries + 1 < ORCA_MAX_INCREASE_ATTEMPTS /\ op' = [Settled("send") EXCEPT !.tries = @ + 1]
     \/ Done
  /\ UNCHANGED <<pos, loose, map>> /\ opLeaves

(* The stored liquidity becomes what the target has now.                   *)
orcaIncreaseStores ==
  /\ At("increase", "store")
  /\ \E r \in {target[op.key].liq, None} :
       /\ ReadsTarget(op.key, r)
       /\ IF r = None THEN UNCHANGED map ELSE SetTargetLiquidity(op.key, r)
  /\ Done
  /\ UNCHANGED <<pos, late, loose>> /\ opLeaves

-----------------------------------------------------------------------------
(* Decrease.                                                               *)

(* The target is read: gone or empty, ours is emptied; less than what is   *)
(* stored, ours is decreased in proportion; otherwise fees are collected.  *)
orcaDecreaseReadsTarget ==
  /\ At("decrease", "read")
  /\ \E r \in {target[op.key].liq, None} :
       /\ ReadsTarget(op.key, r)
       /\ LET stored == getTargetLiquidity(op.key)
          IN  \/ r \in {None, 0} /\ op' = [op EXCEPT !.pc = "send", !.amount = None]
              \/ r \notin {None, 0} /\ stored # None /\ r < stored
                 /\ op' = [op EXCEPT !.pc = "share", !.amount = r, !.stored = stored]
              \/ r \notin {None, 0} /\ ~(stored # None /\ r < stored) /\ Done
  /\ UNCHANGED <<pos, late, loose, map>> /\ opLeaves

(* Of mine, the share that the target removed of what was stored.          *)
OrcaProportionalShare(mine, stored, current) == (mine * (stored - current)) \div stored

(* Our share, everything if ours cannot be read; the stored liquidity is   *)
(* brought up to date before anything is sent.                             *)
orcaDecreaseReadsOurs ==
  /\ At("decrease", "share")
  /\ \E r \in {pos[op.nft].liq, None} :
       /\ ReadsOurs(op.nft, r)
       /\ LET share == IF r = None THEN None
                       ELSE OrcaProportionalShare(r, op.stored, op.amount)
          IN  IF share = 0 THEN Done ELSE op' = [op EXCEPT !.pc = "send", !.amount = share]
  /\ SetTargetLiquidity(op.key, op.amount)
  /\ UNCHANGED <<pos, late, loose>> /\ opLeaves

OrcaDecreaseOf(mine) == IF op.amount = None \/ op.amount > mine THEN mine ELSE op.amount

orcaDecreaseSends ==
  /\ At("decrease", "send")
  /\ \E r \in {pos[op.nft].liq, None} :
       /\ ReadsOurs(op.nft, r)
       /\ IF r \in {None, 0} THEN Done
          ELSE op' = Sending([kind |-> "decrease", nft |-> op.nft, liq |-> OrcaDecreaseOf(r)], "confirm")
  /\ UNCHANGED <<pos, late, loose, map>> /\ opLeaves

orcaDecreaseConfirmed ==
  /\ At("decrease", "confirm") /\ Confirmed
  /\ op' = Settled("queue")
  /\ UNCHANGED <<pos, loose, map>> /\ opLeaves

orcaDecreaseThrows ==
  /\ At("decrease", "confirm") /\ Throws
  /\ \/ op.tries + 1 < ORCA_MAX_DECREASE_ATTEMPTS /\ op' = [Settled("send") EXCEPT !.tries = @ + 1]
     \/ Done
  /\ UNCHANGED <<pos, loose, map>> /\ opLeaves

OrcaForgetsReceived ==
  /\ op # None /\ op.kind \in {"decrease", "close"} /\ op.pc = "queue"
  /\ NoFault /\ UNCHANGED loose
  /\ Done
  /\ UNCHANGED <<pos, late, map>> /\ opLeaves

(* parseTxTokenChanges() of the last transaction, and addPendingSwap() for *)
(* what it brought; nothing when it cannot be read.                        *)
orcaReceivedQueued ==
  /\ op # None /\ op.kind \in {"decrease", "close"} /\ op.pc = "queue"
  /\ \/ orcaAddPendingSwaps(op.got) /\ NoFault
     \/ UNCHANGED loose /\ Fault("readError")
  /\ Done
  /\ UNCHANGED <<pos, late, map>> /\ opLeaves

-----------------------------------------------------------------------------
(* Close.                                                                  *)

(* Our position is read at every attempt; one that is not seen is          *)
(* unmapped.                                                               *)
orcaCloseSends ==
  /\ At("close", "send")
  /\ \E r \in {pos[op.nft].liq, None} :
       /\ ReadsOurs(op.nft, r)
       /\ IF r = None THEN DeleteMapping(op.key) /\ Done
          ELSE /\ op' = Sending([kind |-> "close", nft |-> op.nft, liq |-> r], "confirm")
               /\ UNCHANGED map
  /\ UNCHANGED <<pos, late, loose>> /\ opLeaves

OrcaRetryClose ==
  IF op.tries + 1 < ORCA_MAX_CLOSE_ATTEMPTS THEN op' = [Settled("send") EXCEPT !.tries = @ + 1] ELSE Done

orcaCloseConfirmed ==
  /\ At("close", "confirm") /\ Confirmed
  /\ op' = Settled("verify")
  /\ UNCHANGED <<pos, loose, map>> /\ opLeaves

(* Not every error is retried.                                             *)
orcaCloseThrows ==
  /\ At("close", "confirm") /\ Throws
  /\ OrcaRetryClose \/ Done
  /\ UNCHANGED <<pos, loose, map>> /\ opLeaves

(* verifyTxSuccess(): the mapping goes only when the transaction is found  *)
(* to have succeeded.                                                      *)
orcaCloseVerified ==
  /\ At("close", "verify")
  /\ \/ NoFault /\ DeleteMapping(op.key) /\ op' = Settled("queue")
     \/ orcaVerifyTxFails /\ OrcaRetryClose /\ UNCHANGED map
  /\ UNCHANGED <<pos, late, loose>> /\ opLeaves

-----------------------------------------------------------------------------
OrcaScansEmptiedOnly ==
  /\ scan # None
  /\ \E e \in scan.todo : \E r \in {target[e[1]].liq, None} :
       /\ ReadsTarget(e[1], r)
       /\ scan' = [todo |-> scan.todo \ {e},
                   orphans |-> IF r = 0 THEN scan.orphans \cup {e[1]} ELSE scan.orphans]
  /\ UNCHANGED <<world, map, displaced, queues, op, events, userOps>>

(* reconcileOrcaPositions(): a target that is not seen, or has no          *)
(* liquidity, makes our position an orphan.                                *)
orcaScanChecks ==
  /\ scan # None
  /\ \E e \in scan.todo : \E r \in {target[e[1]].liq, None} :
       /\ ReadsTarget(e[1], r)
       /\ scan' = [todo |-> scan.todo \ {e},
                   orphans |-> IF r \in {None, 0} THEN scan.orphans \cup {e[1]} ELSE scan.orphans]
  /\ UNCHANGED <<world, map, displaced, queues, op, events, userOps>>

-----------------------------------------------------------------------------
orcaDispatch == TakeNext /\ op' \in OrcaStart(NextItem)
orcaDashboard == TakeFromDashboard /\ \E item \in DashboardItem : op' \in OrcaStart(item)

OrcaOpStep ==
  \/ orcaOpenReads \/ orcaOpenSends \/ orcaOpenConfirmed \/ orcaOpenThrows \/ orcaOpenRecovers
  \/ orcaIncreaseReadsOurs \/ orcaIncreaseReadsTarget \/ orcaIncreaseRereadsOurs
  \/ orcaIncreaseSends \/ orcaIncreaseConfirmed \/ orcaIncreaseThrows \/ orcaIncreaseStores
  \/ orcaDecreaseReadsTarget \/ orcaDecreaseReadsOurs \/ orcaDecreaseSends
  \/ orcaDecreaseConfirmed \/ orcaDecreaseThrows \/ orcaReceivedQueued
  \/ orcaCloseSends \/ orcaCloseConfirmed \/ orcaCloseThrows \/ orcaCloseVerified

OrcaScanStep == ScanStarts \/ orcaScanChecks \/ ScanEnds

OrcaNext ==
  \/ TargetStep \/ ChainStep \/ Expires \/ orcaDispatch \/ orcaDashboard \/ OrcaOpStep
  \/ OrcaScanStep \/ Crash

=============================================================================
