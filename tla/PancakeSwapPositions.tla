------------------------- MODULE PancakeSwapPositions -------------------------
(***************************************************************************)
(* The PancakeSwap executor: src/executor/pancakeswap-position.ts.         *)
(*                                                                         *)
(* As in OrcaPositions, filters and funding swaps may end an open or an    *)
(* increase, and collecting fees has no effect.  sendTransaction() returns *)
(* as soon as the transaction is accepted: only an open waits for it, as   *)
(* well as it can, and a close, which verifies it.  retryOnTransient()     *)
(* sends again what failed with a transient error: three times in the      *)
(* code, as often as the faults allow here.  The liquidity that a full     *)
(* decrease removes is the one the SDK reads while it builds the           *)
(* transaction; it throws for a position that is not there.                *)
(***************************************************************************)
EXTENDS CopyChain

PANCAKE_MAX_OPEN_ATTEMPTS == 2
PANCAKE_MAX_ATTEMPTS == 2
PANCAKE_MAX_DECREASE_ATTEMPTS == 2
PANCAKE_MAX_CLOSE_ATTEMPTS == 3

pancakeCopyOpenPosition(t) ==
  IF map[t] # None THEN {None} ELSE {None, Running("open", t, None, "read")}
pancakeCopyIncreaseLiquidity(t) ==
  IF map[t] = None THEN {None} ELSE {Running("increase", t, map[t].nft, "read")}
pancakeCopyDecreaseLiquidity(t) ==
  IF map[t] = None THEN {None} ELSE {Running("decrease", t, map[t].nft, "read")}
pancakeCopyClosePosition(t) ==
  IF map[t] = None THEN {None} ELSE {Running("close", t, map[t].nft, "send")}
pancakeManualClosePosition(n) == {Running("manualClose", t, n, "send") : t \in TargetsOf(n)}

(* The dashboard names our NFT, the reconcile scan the target.             *)
PancakeStart(item) ==
  CASE item.kind = "open" -> pancakeCopyOpenPosition(item.key)
    [] item.kind = "increase" -> pancakeCopyIncreaseLiquidity(item.key)
    [] item.kind = "decrease" -> pancakeCopyDecreaseLiquidity(item.key)
    [] item.kind = "close" -> pancakeCopyClosePosition(item.key)
    [] item.kind = "manualClose" ->
         IF item.nft # None THEN pancakeManualClosePosition(item.nft)
         ELSE IF map[item.key] = None THEN {None} ELSE pancakeManualClosePosition(map[item.key].nft)

(* An exception: the same again (retryOnTransient), another attempt, or    *)
(* the end.                                                                *)
PancakeAgain == op.st # "reverted" /\ op' = Settled("send")
PancakeRetry(max) == op.tries + 1 < max /\ op' = [Settled("send") EXCEPT !.tries = @ + 1]

(* The transaction was accepted and nobody waits for it.                   *)
PancakeAccepted == NoFault /\ late' = IF Flying THEN Append(late, op.tx) ELSE late

-----------------------------------------------------------------------------
(* Open.                                                                   *)

pancakeOpenReads ==
  /\ At("open", "read")
  /\ \E r \in {target[op.key].liq, None} :
       /\ ReadsTarget(op.key, r)
       /\ \/ r # None /\ op' = [op EXCEPT !.pc = "send", !.amount = r]
          \/ Done
  /\ UNCHANGED <<pos, late, loose, map>> /\ opLeaves

(* An attempt has one NFT, however often its transaction is sent.          *)
pancakeOpenSends ==
  /\ At("open", "send")
  /\ LET n == IF op.nft = None THEN FirstFresh ELSE op.nft
     IN  /\ op.nft = None => Fresh # {}
         /\ pos' = IF op.nft = None THEN Minted(op.key) ELSE pos
         /\ op' = Sending([kind |-> "open", nft |-> n, liq |-> op.amount], "ack")
  /\ UNCHANGED <<late, loose, map, faults>> /\ opLeaves

PancakeSavesWhenConfirmed ==
  /\ At("open", "ack") /\ PancakeAccepted
  /\ IF op.st = "landed" THEN SetMapping(op.key, op.nft, op.amount) ELSE UNCHANGED map
  /\ Done
  /\ UNCHANGED <<pos, loose>> /\ opLeaves

(* The mapping is saved as soon as the transaction is accepted.            *)
pancakeOpenAccepted ==
  /\ At("open", "ack") /\ NoFault
  /\ SetMapping(op.key, op.nft, op.amount)
  /\ op' = [op EXCEPT !.pc = "confirm"]
  /\ UNCHANGED <<pos, late, loose>> /\ opLeaves

pancakeOpenThrows ==
  /\ At("open", "ack") /\ Throws
  /\ \/ PancakeAgain
     \/ /\ op.tries + 1 < PANCAKE_MAX_OPEN_ATTEMPTS /\ Fresh # {}
        /\ op' = [Settled("send") EXCEPT !.tries = @ + 1, !.nft = None]
     \/ Done
  /\ UNCHANGED <<pos, loose, map>> /\ opLeaves

(* The confirmation is waited for, whatever comes of it.                   *)
pancakeOpenConfirmed ==
  /\ At("open", "confirm")
  /\ \/ op.st # "flying" /\ NoFault /\ UNCHANGED late
     \/ Throws
  /\ Done
  /\ UNCHANGED <<pos, loose, map>> /\ opLeaves

-----------------------------------------------------------------------------
(* Increase.                                                               *)

pancakeIncreaseReadsTarget ==
  /\ At("increase", "read")
  /\ \E r \in {target[op.key].liq, None} :
       /\ ReadsTarget(op.key, r)
       /\ IF r = None THEN Done ELSE op' = [op EXCEPT !.pc = "delta", !.amount = r]
  /\ UNCHANGED <<pos, late, loose, map>> /\ opLeaves

(* The difference to ours, which counts as nothing when it cannot be read. *)
pancakeIncreaseReadsOurs ==
  /\ At("increase", "delta")
  /\ \E r \in {pos[op.nft].liq, None} :
       /\ ReadsOurs(op.nft, r)
       /\ LET mine == IF r = None THEN 0 ELSE r
          IN  \/ op.amount > mine /\ op' = [op EXCEPT !.pc = "send", !.amount = @ - mine]
              \/ Done
  /\ UNCHANGED <<pos, late, loose, map>> /\ opLeaves

pancakeIncreaseSends ==
  /\ At("increase", "send")
  /\ op' = Sending([kind |-> "increase", nft |-> op.nft, liq |-> op.amount], "ack")
  /\ UNCHANGED <<pos, late, loose, map, faults>> /\ opLeaves

pancakeIncreaseAccepted ==
  /\ At("increase", "ack") /\ PancakeAccepted
  /\ op' = Settled("store")
  /\ UNCHANGED <<pos, loose, map>> /\ opLeaves

pancakeIncreaseThrows ==
  /\ At("increase", "ack") /\ Throws
  /\ PancakeAgain \/ PancakeRetry(PANCAKE_MAX_ATTEMPTS) \/ Done
  /\ UNCHANGED <<pos, loose, map>> /\ opLeaves

(* The stored liquidity becomes what the target has now.                   *)
pancakeIncreaseStores ==
  /\ At("increase", "store")
  /\ \E r \in {target[op.key].liq, None} :
       /\ ReadsTarget(op.key, r)
       /\ IF r = None THEN UNCHANGED map ELSE SetTargetLiquidity(op.key, r)
  /\ Done
  /\ UNCHANGED <<pos, late, loose>> /\ opLeaves

-----------------------------------------------------------------------------
(* Decrease.                                                               *)

pancakeDecreaseReadsTarget ==
  /\ At("decrease", "read")
  /\ \E r \in {target[op.key].liq, None} :
       /\ ReadsTarget(op.key, r)
       /\ LET stored == getTargetLiquidity(op.key)
          IN  \/ r \in {None, 0} /\ op' = [op EXCEPT !.pc = "send", !.amount = None]
              \/ r \notin {None, 0} /\ stored # None /\ r < stored
                 /\ op' = [op EXCEPT !.pc = "share", !.amount = r, !.stored = stored]
              \/ r \notin {None, 0} /\ ~(stored # None /\ r < stored) /\ Done
  /\ UNCHANGED <<pos, late, loose, map>> /\ opLeaves

(* Of mine, the share that the target removed of what was stored.          *)
PancakeProportionalShare(mine, stored, current) == (mine * (stored - current)) \div stored

(* Our share, everything if ours cannot be read; the stored liquidity is   *)
(* brought up to date before anything is sent.                             *)
pancakeDecreaseReadsOurs ==
  /\ At("decrease", "share")
  /\ \E r \in {pos[op.nft].liq, None} :
       /\ ReadsOurs(op.nft, r)
       /\ LET share == IF r = None THEN None
                       ELSE PancakeProportionalShare(r, op.stored, op.amount)
          IN  IF share = 0 THEN Done ELSE op' = [op EXCEPT !.pc = "send", !.amount = share]
  /\ SetTargetLiquidity(op.key, op.amount)
  /\ UNCHANGED <<pos, late, loose>> /\ opLeaves

PancakeDecreaseOf(mine) == IF op.amount = None \/ op.amount > mine THEN mine ELSE op.amount

(* A partial decrease of a position that is gone or empty is over; a full  *)
(* one throws if the position is gone.                                     *)
pancakeDecreaseSends ==
  /\ At("decrease", "send")
  /\ \E r \in {pos[op.nft].liq, None} :
       /\ ReadsOurs(op.nft, r)
       /\ \/ r \notin {None, 0}
             /\ op' = Sending([kind |-> "decrease", nft |-> op.nft, liq |-> PancakeDecreaseOf(r)], "ack")
          \/ r \in {None, 0} /\ Done
          \/ r = None /\ op.amount = None /\ OnChain(op.nft) /\ (PancakeAgain \/ PancakeRetry(PANCAKE_MAX_DECREASE_ATTEMPTS))
  /\ UNCHANGED <<pos, late, loose, map>> /\ opLeaves

(* What it brings is only logged.                                          *)
pancakeDecreaseAccepted ==
  /\ At("decrease", "ack") /\ PancakeAccepted
  /\ Done
  /\ UNCHANGED <<pos, loose, map>> /\ opLeaves

pancakeDecreaseThrows ==
  /\ At("decrease", "ack") /\ Throws
  /\ PancakeAgain \/ PancakeRetry(PANCAKE_MAX_DECREASE_ATTEMPTS) \/ Done
  /\ UNCHANGED <<pos, loose, map>> /\ opLeaves

-----------------------------------------------------------------------------
(* Close, by the target's event, and by hand or by the reconcile scan.     *)

(* The liquidity is removed and the position closed in one transaction.    *)
pancakeCloseSends ==
  /\ op # None /\ op.kind \in {"close", "manualClose"} /\ op.pc = "send"
  /\ \E r \in {pos[op.nft].liq, None} :
       /\ ReadsOurs(op.nft, r)
       /\ \/ r # None /\ op' = Sending([kind |-> "close", nft |-> op.nft, liq |-> r],
                                       IF op.kind = "close" THEN "verify" ELSE "ack")
          \/ r = None /\ OnChain(op.nft) /\ PancakeAgain
          \/ r = None /\ OnChain(op.nft) /\ op.kind = "close" /\ PancakeRetry(PANCAKE_MAX_CLOSE_ATTEMPTS)
          \/ r = None /\ Done
  /\ UNCHANGED <<pos, late, loose, map>> /\ opLeaves

PancakeUnmapsUnverified ==
  /\ At("close", "verify") /\ op.st \in {"landed", "reverted"} /\ NoFault /\ UNCHANGED late
  /\ DeleteMapping(op.key) /\ Done
  /\ UNCHANGED <<pos, loose>> /\ opLeaves

(* The mapping goes when the transaction is found to have succeeded.       *)
pancakeCloseVerified ==
  /\ At("close", "verify") /\ Confirmed
  /\ DeleteMapping(op.key) /\ Done
  /\ UNCHANGED <<pos, loose>> /\ opLeaves

PancakeNotVerified ==
  \/ op.st \in {"reverted", "expired"} /\ NoFault /\ UNCHANGED late
  \/ op.st = "landed" /\ Fault("notVerified") /\ UNCHANGED late
  \/ op.st = "flying" /\ Fault("timeout") /\ late' = Append(late, op.tx)

(* Otherwise another attempt, or the entry stays.  The send itself may     *)
(* throw as well.                                                          *)
pancakeCloseNotVerified ==
  /\ At("close", "verify")
  /\ \/ PancakeNotVerified /\ IF op.tries + 1 < PANCAKE_MAX_CLOSE_ATTEMPTS THEN PancakeRetry(PANCAKE_MAX_CLOSE_ATTEMPTS) ELSE Done
     \/ Throws /\ op.st # "reverted" /\ (PancakeAgain \/ Done)
  /\ UNCHANGED <<pos, loose, map>> /\ opLeaves

(* manualClosePosition() removes the mapping as soon as its transaction is *)
(* accepted.                                                               *)
pancakeManualCloseAccepted ==
  /\ At("manualClose", "ack") /\ PancakeAccepted
  /\ DeleteMapping(op.key) /\ Done
  /\ UNCHANGED <<pos, loose>> /\ opLeaves

pancakeManualCloseThrows ==
  /\ At("manualClose", "ack") /\ Throws
  /\ PancakeAgain \/ Done
  /\ UNCHANGED <<pos, loose, map>> /\ opLeaves

-----------------------------------------------------------------------------
(* reconcilePcsPositions(): a target that is not there makes our position  *)
(* an orphan, a read that errs says nothing.  Liquidity is not looked at.  *)
pancakeScanChecks ==
  /\ scan # None
  /\ \E e \in scan.todo :
       LET gone == [todo |-> scan.todo \ {e}, orphans |-> scan.orphans \cup {e[1]}]
           kept == [todo |-> scan.todo \ {e}, orphans |-> scan.orphans]
       IN  \/ NoFault /\ scan' = IF TargetLiq(e[1]) = None THEN gone ELSE kept
           \/ ReadErrs /\ scan' = kept
  /\ UNCHANGED <<world, map, displaced, queues, op, events, userOps>>

pancakeScanEnds == QueueOrphans("manualClose")

-----------------------------------------------------------------------------
pancakeDispatch == TakeNext /\ op' \in PancakeStart(NextItem)
pancakeDashboard == TakeFromDashboard /\ \E item \in DashboardItem : op' \in PancakeStart(item)

PancakeOpStep ==
  \/ pancakeOpenReads \/ pancakeOpenSends \/ pancakeOpenAccepted \/ pancakeOpenThrows
  \/ pancakeOpenConfirmed
  \/ pancakeIncreaseReadsTarget \/ pancakeIncreaseReadsOurs \/ pancakeIncreaseSends
  \/ pancakeIncreaseAccepted \/ pancakeIncreaseThrows \/ pancakeIncreaseStores
  \/ pancakeDecreaseReadsTarget \/ pancakeDecreaseReadsOurs \/ pancakeDecreaseSends
  \/ pancakeDecreaseAccepted \/ pancakeDecreaseThrows
  \/ pancakeCloseSends \/ pancakeCloseVerified \/ pancakeCloseNotVerified
  \/ pancakeManualCloseAccepted \/ pancakeManualCloseThrows

PancakeScanStep == ScanStarts \/ pancakeScanChecks \/ pancakeScanEnds

PancakeNext ==
  \/ TargetStep \/ ChainStep \/ Expires \/ pancakeDispatch \/ pancakeDashboard
  \/ PancakeOpStep \/ PancakeScanStep \/ Crash

=============================================================================
