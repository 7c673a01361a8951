--------------------------- MODULE DammV2Positions ---------------------------
(***************************************************************************)
(* The Meteora DAMM v2 executor: src/executor/dammv2-position.ts.          *)
(*                                                                         *)
(* As in OrcaPositions, pauses, filters and funding swaps may end an open  *)
(* or an increase, and what only collects fees ends without an effect.     *)
(* signAndSend() repeats one signed transaction: a lost confirmation is    *)
(* one that no repetition got.  A position is created empty and filled by  *)
(* a second transaction.                                                   *)
(***************************************************************************)
EXTENDS CopyChain

DAMM_MAX_OPEN_ATTEMPTS == 2
DAMM_MAX_ADD_ATTEMPTS == 2
DAMM_MAX_DECREASE_ATTEMPTS == 2
DAMM_MAX_CLOSE_ATTEMPTS == 3

dammCopyOpenPosition(t) ==
  IF map[t] # None THEN {None} ELSE {None, Running("open", t, None, "read")}
dammCopyAddLiquidity(t) ==
  IF map[t] = None THEN {None} ELSE {None, Running("increase", t, map[t].nft, "read")}
dammCopyRemoveLiquidity(t) ==
  IF map[t] = None THEN {None} ELSE {Running("decrease", t, map[t].nft, "read")}
dammCopyClosePosition(t) ==
  IF map[t] = None THEN {None} ELSE {Running("close", t, map[t].nft, "send")}
dammCopyClaimFee(t) == {None}
dammManualClosePosition(n) ==
  IF TargetsOf(n) = {} THEN {None} ELSE UNION {dammCopyClosePosition(t) : t \in TargetsOf(n)}

DammStart(item) ==
  CASE item.kind = "open" -> dammCopyOpenPosition(item.key)
    [] item.kind = "increase" -> dammCopyAddLiquidity(item.key)
    [] item.kind = "decrease" -> dammCopyRemoveLiquidity(item.key)
    [] item.kind = "close" -> dammCopyClosePosition(item.key)
    [] item.kind = "fees" -> dammCopyClaimFee(item.key)
    [] item.kind = "manualClose" -> dammManualClosePosition(item.nft)

(* Another attempt after an exception, if it is of the kind that is        *)
(* retried and attempts are left.                                          *)
DammRetry(pc, max) ==
  \/ op.tries + 1 < max /\ op' = [Settled(pc) EXCEPT !.tries = @ + 1]
  \/ Done

(* On this DEX a claim of fees has an event of its own.                    *)
DammTargetClaims(t) ==
  target[t].on = "open" /\ target[t].liq > 0 /\ TargetActs(t, target[t], "fees")

(* signAndSend(): the operation waits until the transaction is confirmed   *)
(* (Confirmed) or the repetitions are used up (Throws).                    *)
dammSignAndSend(tx, pc) == Sending(tx, pc)

(* verifyTxSuccess() does not find a transaction that succeeded.           *)
dammVerifyTxFails == Fault("notVerified")

(* parseTxTokenChanges() and addPendingSwap() for every mint it lists.     *)
dammAddPendingSwaps(got) == loose' = loose - got

-----------------------------------------------------------------------------
(* Open.                                                                   *)

dammOpenReads ==
  /\ At("open", "read")
  /\ \/ NoFault /\ TargetLiq(op.key) \notin {None, 0}
        /\ op' = [op EXCEPT !.pc = "create", !.amount = TargetLiq(op.key)]
     \/ NoFault /\ Done
     \/ ReadErrs /\ Done
  /\ UNCHANGED <<pos, late, loose, map>> /\ opLeaves

(* Every attempt generates a keypair and creates an empty position.        *)
dammOpenCreates ==
  /\ At("open", "create") /\ Fresh # {}
  /\ pos' = Minted(op.key)
  /\ op' = dammSignAndSend([kind |-> "open", nft |-> FirstFresh, liq |-> 0], "created")
  /\ UNCHANGED <<late, loose, map, faults>> /\ opLeaves

DammRetryOpen == (Fresh # {} /\ DammRetry("create", DAMM_MAX_OPEN_ATTEMPTS)) \/ Done

dammOpenThrows ==
  /\ op # None /\ op.kind = "open" /\ op.pc \in {"created", "filled"} /\ Throws
  /\ DammRetryOpen
  /\ UNCHANGED <<pos, loose, map>> /\ opLeaves

(* The pool is read again and the liquidity added.                         *)
dammOpenFills ==
  /\ At("open", "created") /\ Confirmed
  /\ op' = dammSignAndSend([kind |-> "increase", nft |-> op.nft, liq |-> op.amount], "filled")
  /\ UNCHANGED <<pos, loose, map>> /\ opLeaves

dammOpenPoolReadErrs ==
  /\ At("open", "created") /\ op.st = "landed" /\ ReadErrs
  /\ DammRetryOpen
  /\ UNCHANGED <<pos, late, loose, map>> /\ opLeaves

(* The mapping is saved when both transactions have been confirmed.        *)
dammOpenFilled ==
  /\ At("open", "filled") /\ Confirmed
  /\ SetMapping(op.key, op.nft, op.amount)
  /\ op' = Settled("verify")
  /\ UNCHANGED <<pos, loose>> /\ opLeaves

(* If verifyTxSuccess() does not find the transaction, the mapping is      *)
(* deleted again and the open repeated.                                    *)
dammOpenVerified ==
  /\ At("open", "verify")
  /\ \/ NoFault /\ Done /\ UNCHANGED map
     \/ /\ dammVerifyTxFails /\ DeleteMapping(op.key)
        /\ IF op.tries + 1 < DAMM_MAX_OPEN_ATTEMPTS /\ Fresh # {}
           THEN op' = [Settled("create") EXCEPT !.tries = @ + 1] ELSE Done
  /\ UNCHANGED <<pos, late, loose>> /\ opLeaves

-----------------------------------------------------------------------------
(* Increase.                                                               *)

dammAddReadsTarget ==
  /\ At("increase", "read")
  /\ \/ NoFault /\ TargetLiq(op.key) # None
        /\ op' = [op EXCEPT !.pc = "delta", !.amount = TargetLiq(op.key)]
     \/ NoFault /\ TargetLiq(op.key) = None /\ Done
     \/ ReadErrs /\ Done
  /\ UNCHANGED <<pos, late, loose, map>> /\ opLeaves

(* The difference to ours; if there is none, both are read once more.      *)
dammAddReadsOurs ==
  /\ At("increase", "delta")
  /\ LET mine == OurLiq(op.nft)
     IN  \/ NoFault /\ mine # None /\ op.amount > mine
            /\ op' = [op EXCEPT !.pc = "send", !.amount = @ - mine, !.tries = 0]
         \/ NoFault /\ mine # None /\ op.amount > mine /\ Done
         \/ NoFault /\ mine # None /\ op.amount <= mine
            /\ IF op.tries = 0 THEN op' = [op EXCEPT !.pc = "read", !.tries = 1] ELSE Done
         \/ NoFault /\ mine = None /\ Done
         \/ ReadErrs /\ Done
  /\ UNCHANGED <<pos, late, loose, map>> /\ opLeaves

dammAddSends ==
  /\ At("increase", "send")
  /\ \/ NoFault /\ op' = dammSignAndSend([kind |-> "increase", nft |-> op.nft, liq |-> op.amount], "confirm")
     \/ ReadErrs /\ DammRetry("send", DAMM_MAX_ADD_ATTEMPTS)
  /\ UNCHANGED <<pos, late, loose, map>> /\ opLeaves

dammAddConfirmed ==
  /\ At("increase", "confirm") /\ Confirmed
  /\ op' = Settled("store")
  /\ UNCHANGED <<pos, loose, map>> /\ opLeaves

dammAddThrows ==
  /\ At("increase", "confirm") /\ Throws
  /\ DammRetry("send", DAMM_MAX_ADD_ATTEMPTS)
  /\ UNCHANGED <<pos, loose, map>> /\ opLeaves

dammAddStores ==
  /\ At("increase", "store")
  /\ \/ NoFault /\ TargetLiq(op.key) # None /\ SetTargetLiquidity(op.key, TargetLiq(op.key))
     \/ NoFault /\ TargetLiq(op.key) = None /\ UNCHANGED map
     \/ ReadErrs /\ UNCHANGED map
  /\ Done
  /\ UNCHANGED <<pos, late, loose>> /\ opLeaves

-----------------------------------------------------------------------------
(* Decrease.                                                               *)

DammCollectsFromEmptied ==
  /\ At("decrease", "read") /\ NoFault
  /\ LET current == TargetLiq(op.key)
         stored == getTargetLiquidity(op.key)
     IN  IF current = None \/ stored = None \/ current >= stored \/ current = 0 THEN Done
         ELSE op' = [op EXCEPT !.pc = "share", !.amount = current, !.stored = stored]
  /\ UNCHANGED <<pos, late, loose, map>> /\ opLeaves

(* A target that is gone, empty or not readable: everything is removed     *)
(* (amount None).  If the pool cannot be read, nothing is.                 *)
dammRemoveReadsTarget ==
  /\ At("decrease", "read")
  /\ LET current == TargetLiq(op.key)
         stored == getTargetLiquidity(op.key)
     IN  \/ NoFault /\ current \in {None, 0} /\ op' = [op EXCEPT !.pc = "send", !.amount = None]
         \/ ReadErrs /\ op' = [op EXCEPT !.pc = "send", !.amount = None]
         \/ ReadErrs /\ Done
         \/ NoFault /\ current \notin {None, 0} /\ stored # None /\ current < stored
            /\ op' = [op EXCEPT !.pc = "share", !.amount = current, !.stored = stored]
         \/ NoFault /\ current \notin {None, 0} /\ ~(stored # None /\ current < stored) /\ Done
  /\ UNCHANGED <<pos, late, loose, map>> /\ opLeaves

(* Of mine, the share that the target removed of what was stored.          *)
DammProportionalShare(mine, stored, current) == (mine * (stored - current)) \div stored

(* Our share, everything if ours cannot be read; the stored liquidity is   *)
(* brought up to date before anything is sent.                             *)
dammRemoveReadsOurs ==
  /\ At("decrease", "share")
  /\ \E r \in {pos[op.nft].liq, None} :
       /\ ReadsOurs(op.nft, r)
       /\ LET share == IF r = None THEN None
                       ELSE DammProportionalShare(r, op.stored, op.amount)
          IN  IF share = 0 THEN Done ELSE op' = [op EXCEPT !.pc = "send", !.amount = share]
  /\ SetTargetLiquidity(op.key, op.amount)
  /\ UNCHANGED <<pos, late, loose>> /\ opLeaves

dammRemoveTx(mine) ==
  IF op.amount = None THEN [kind |-> "removeAll", nft |-> op.nft, liq |-> 0]
  ELSE [kind |-> "decrease", nft |-> op.nft, liq |-> IF op.amount < mine THEN op.amount ELSE mine]

dammRemoveSends ==
  /\ At("decrease", "send")
  /\ LET mine == OurLiq(op.nft)
     IN  \/ NoFault /\ mine \in {None, 0} /\ Done
         \/ NoFault /\ mine \notin {None, 0} /\ op' = dammSignAndSend(dammRemoveTx(mine), "confirm")
         \/ ReadErrs /\ DammRetry("send", DAMM_MAX_DECREASE_ATTEMPTS)
  /\ UNCHANGED <<pos, late, loose, map>> /\ opLeaves

dammRemoveConfirmed ==
  /\ At("decrease", "confirm") /\ Confirmed
  /\ op' = Settled("queue")
  /\ UNCHANGED <<pos, loose, map>> /\ opLeaves

dammRemoveThrows ==
  /\ At("decrease", "confirm") /\ Throws
  /\ DammRetry("send", DAMM_MAX_DECREASE_ATTEMPTS)
  /\ UNCHANGED <<pos, loose, map>> /\ opLeaves

(* parseTxTokenChanges() of the transaction, and addPendingSwap() for what *)
(* it brought; nothing when it cannot be read.                             *)
dammReceivedQueued ==
  /\ op # None /\ op.kind \in {"decrease", "close"} /\ op.pc = "queue"
  /\ \/ dammAddPendingSwaps(op.got) /\ NoFault
     \/ UNCHANGED loose /\ ReadErrs
  /\ Done
  /\ UNCHANGED <<pos, late, map>> /\ opLeaves

-----------------------------------------------------------------------------
(* Close: one transaction that removes what is there and closes the        *)
(* position, or a plain close of an empty one.                             *)

(* A pool that cannot be read makes a new attempt; a position that cannot  *)
(* be read, for whatever reason, is taken for gone and unmapped.           *)
dammCloseSends ==
  /\ At("close", "send")
  /\ LET mine == OurLiq(op.nft)
     IN  \/ NoFault /\ mine = None /\ DeleteMapping(op.key) /\ Done
         \/ ReadErrs /\ DeleteMapping(op.key) /\ Done
         \/ ReadErrs /\ UNCHANGED map /\ DammRetry("send", DAMM_MAX_CLOSE_ATTEMPTS)
         \/ NoFault /\ mine # None /\ UNCHANGED map
            /\ op' = dammSignAndSend([kind |-> IF mine > 0 THEN "closeAll" ELSE "close",
                              nft |-> op.nft, liq |-> 0], "confirm")
  /\ UNCHANGED <<pos, late, loose>> /\ opLeaves

dammCloseThrows ==
  /\ At("close", "confirm") /\ Throws
  /\ DammRetry("send", DAMM_MAX_CLOSE_ATTEMPTS)
  /\ UNCHANGED <<pos, loose, map>> /\ opLeaves

dammCloseConfirmed ==
  /\ At("close", "confirm") /\ Confirmed
  /\ op' = Settled("verify")
  /\ UNCHANGED <<pos, loose, map>> /\ opLeaves

dammCloseVerified ==
  /\ At("close", "verify")
  /\ \/ NoFault /\ DeleteMapping(op.key) /\ op' = Settled("queue")
     \/ /\ dammVerifyTxFails /\ UNCHANGED map
        /\ IF op.tries + 1 < DAMM_MAX_CLOSE_ATTEMPTS THEN op' = [Settled("send") EXCEPT !.tries = @ + 1] ELSE Done
  /\ UNCHANGED <<pos, late, loose>> /\ opLeaves

-----------------------------------------------------------------------------
(* reconcileDammV2Positions(): an entry whose position of ours is gone is  *)
(* deleted, even when the target has been opened again since the scan      *)
(* began; the target is not looked at.                                     *)
dammScanChecks ==
  /\ scan # None
  /\ \E e \in scan.todo :
       /\ scan' = [scan EXCEPT !.todo = @ \ {e}]
       /\ \/ NoFault /\ OurLiq(e[2]) = None /\ DeleteMapping(e[1])
             /\ displaced' = displaced \cup (EntryOf(e[1]) \ {e[2]})
          \/ NoFault /\ OurLiq(e[2]) # None /\ UNCHANGED <<map, displaced>>
          \/ ReadErrs /\ UNCHANGED <<map, displaced>>
  /\ UNCHANGED <<world, queues, op, events, userOps>>

-----------------------------------------------------------------------------
dammDispatch == TakeNext /\ op' \in DammStart(NextItem)
dammDashboard == TakeFromDashboard /\ \E item \in DashboardItem : op' \in DammStart(item)

DammOpStep ==
  \/ dammOpenReads \/ dammOpenCreates \/ dammOpenThrows \/ dammOpenFills
  \/ dammOpenPoolReadErrs \/ dammOpenFilled \/ dammOpenVerified
  \/ dammAddReadsTarget \/ dammAddReadsOurs \/ dammAddSends \/ dammAddConfirmed
  \/ dammAddThrows \/ dammAddStores
  \/ dammRemoveReadsTarget \/ dammRemoveReadsOurs \/ dammRemoveSends \/ dammRemoveConfirmed
  \/ dammRemoveThrows
  \/ dammReceivedQueued \/ dammCloseSends \/ dammCloseThrows \/ dammCloseConfirmed
  \/ dammCloseVerified

DammScanStep == ScanStarts \/ dammScanChecks \/ ScanEnds

DammTargetDoes ==
  \E t \in Targets : TargetOpens(t) \/ TargetIncreases(t) \/ TargetDecreases(t)
                       \/ DammTargetClaims(t) \/ TargetCloses(t)

DammNext ==
  \/ DammTargetDoes \/ ChainStep \/ Expires \/ dammDispatch \/ dammDashboard \/ DammOpStep
  \/ DammScanStep \/ Crash

=============================================================================
