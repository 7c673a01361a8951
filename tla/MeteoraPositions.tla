-------------------------- MODULE MeteoraPositions --------------------------
(***************************************************************************)
(* The Meteora DLMM executor: src/executor/meteora-position.ts.            *)
(*                                                                         *)
(* As in OrcaPositions, pauses, filters and funding swaps may end an open  *)
(* or an increase, and collecting fees has no effect.  signAndSend() sends *)
(* the same signed transaction again until it is confirmed, so a repeated  *)
(* send is one transaction; a lost confirmation is one that no repetition  *)
(* got.  The SDK's list of transactions that remove liquidity is one       *)
(* transaction here, and none when there is no liquidity.                  *)
(***************************************************************************)
EXTENDS CopyChain

METEORA_MAX_OPEN_ATTEMPTS == 2
METEORA_MAX_ADD_ATTEMPTS == 2
METEORA_MAX_DECREASE_ATTEMPTS == 2
METEORA_MAX_CLOSE_ATTEMPTS == 3

meteoraCopyOpenPosition(t) ==
  IF map[t] # None THEN {None} ELSE {None, Running("open", t, None, "read")}
meteoraCopyAddLiquidity(t) ==
  IF map[t] = None THEN {None} ELSE {None, Running("increase", t, map[t].nft, "read")}
meteoraCopyRemoveLiquidity(t) ==
  IF map[t] = None THEN {None} ELSE {Running("decrease", t, map[t].nft, "read")}
meteoraCopyClosePosition(t) ==
  IF map[t] = None THEN {None} ELSE {Running("close", t, map[t].nft, "send")}
meteoraManualClosePosition(n) ==
  IF TargetsOf(n) = {} THEN {None} ELSE UNION {meteoraCopyClosePosition(t) : t \in TargetsOf(n)}

MeteoraStart(item) ==
  CASE item.kind = "open" -> meteoraCopyOpenPosition(item.key)
    [] item.kind = "increase" -> meteoraCopyAddLiquidity(item.key)
    [] item.kind = "decrease" -> meteoraCopyRemoveLiquidity(item.key)
    [] item.kind = "close" -> meteoraCopyClosePosition(item.key)
    [] item.kind = "manualClose" -> meteoraManualClosePosition(item.nft)

(* Another attempt after an exception, if it is of the kind that is        *)
(* retried and attempts are left.                                          *)
MeteoraRetry(pc, max) ==
  \/ op.tries + 1 < max /\ op' = [Settled(pc) EXCEPT !.tries = @ + 1]
  \/ Done

(* signAndSend(): the operation waits until the transaction is confirmed   *)
(* (Confirmed) or the repetitions are used up (Throws).                    *)
meteoraSignAndSend(tx, pc) == Sending(tx, pc)

(* verifyTxSuccess() does not find a transaction that succeeded.           *)
meteoraVerifyTxFails == Fault("notVerified")

(* parseTxTokenChanges() and addPendingSwap() for every mint it lists.     *)
meteoraAddPendingSwaps(got) == loose' = loose - got

-----------------------------------------------------------------------------
(* Open.                                                                   *)

(* Three reads of the target; filters and swaps may end the operation.  A  *)
(* position of more than 70 bins is created first and filled after that.   *)
meteoraOpenReads ==
  /\ At("open", "read")
  /\ \/ NoFault /\ TargetLiq(op.key) \notin {None, 0}
        /\ \E pc \in {"send", "create"} : op' = [op EXCEPT !.pc = pc, !.amount = TargetLiq(op.key)]
     \/ NoFault /\ Done
     \/ ReadErrs /\ Done
  /\ UNCHANGED <<pos, late, loose, map>> /\ opLeaves

(* Every attempt generates a new keypair.                                  *)
meteoraOpenSends ==
  /\ op # None /\ op.kind = "open" /\ op.pc \in {"send", "create"} /\ Fresh # {}
  /\ pos' = Minted(op.key)
  /\ op' = IF op.pc = "send"
           THEN meteoraSignAndSend([kind |-> "open", nft |-> FirstFresh, liq |-> op.amount], "confirm")
           ELSE meteoraSignAndSend([kind |-> "open", nft |-> FirstFresh, liq |-> 0], "confirmCreate")
  /\ UNCHANGED <<late, loose, map, faults>> /\ opLeaves

MeteoraRetryOpen(pc) == (Fresh # {} /\ MeteoraRetry(pc, METEORA_MAX_OPEN_ATTEMPTS)) \/ Done

meteoraOpenThrows ==
  /\ op # None /\ op.kind = "open" /\ op.pc \in {"confirm", "confirmCreate", "confirmPart", "confirmFill"} /\ Throws
  /\ MeteoraRetryOpen(IF op.pc = "confirm" THEN "send" ELSE "create")
  /\ UNCHANGED <<pos, loose, map>> /\ opLeaves

(* The empty position is verified, then filled.                            *)
meteoraOpenCreated ==
  /\ At("open", "confirmCreate") /\ op.st = "landed" /\ UNCHANGED late
  /\ \/ NoFault /\ op' = Settled("fill")
     \/ meteoraVerifyTxFails /\ MeteoraRetryOpen("create")
  /\ UNCHANGED <<pos, loose, map>> /\ opLeaves

(* addLiquidityByStrategyChunkable() gives one transaction or, where the   *)
(* scenario has it, several, which are sent one after the other.  What has *)
(* landed of them is what the new position holds.                          *)
meteoraOpenFills ==
  /\ At("open", "fill")
  /\ \E part \in 1..op.amount :
       LET filled == pos[op.nft].liq + part
       IN  /\ filled = op.amount \/ (filled < op.amount /\ "chunked" \in scenario.kinds)
           /\ op' = meteoraSignAndSend([kind |-> "increase", nft |-> op.nft, liq |-> part],
                                       IF filled = op.amount THEN "confirmFill" ELSE "confirmPart")
  /\ UNCHANGED <<pos, late, loose, map, faults>> /\ opLeaves

meteoraOpenPartFilled ==
  /\ At("open", "confirmPart") /\ Confirmed
  /\ op' = Settled("fill")
  /\ UNCHANGED <<pos, loose, map>> /\ opLeaves

(* The mapping is saved when the last transaction has been confirmed, with *)
(* what the target held when it was read.                                  *)
meteoraOpenConfirmed ==
  /\ op # None /\ op.kind = "open" /\ op.pc \in {"confirm", "confirmFill"} /\ Confirmed
  /\ SetMapping(op.key, op.nft, op.amount)
  /\ op' = Settled(IF op.pc = "confirm" THEN "verify" ELSE "verifyFill")
  /\ UNCHANGED <<pos, loose>> /\ opLeaves

(* verifyTxSuccess(): if it does not find the transaction, the mapping is  *)
(* deleted again and the open repeated.                                    *)
meteoraOpenVerified ==
  /\ op # None /\ op.kind = "open" /\ op.pc \in {"verify", "verifyFill"}
  /\ \/ NoFault /\ Done /\ UNCHANGED map
     \/ /\ meteoraVerifyTxFails /\ DeleteMapping(op.key)
        /\ IF op.tries + 1 < METEORA_MAX_OPEN_ATTEMPTS /\ Fresh # {}
           THEN op' = [Settled(IF op.pc = "verify" THEN "send" ELSE "create") EXCEPT !.tries = @ + 1]
           ELSE Done
  /\ UNCHANGED <<pos, late, loose>> /\ opLeaves

-----------------------------------------------------------------------------
(* Increase.                                                               *)

meteoraAddReadsTarget ==
  /\ At("increase", "read")
  /\ \/ NoFault /\ TargetLiq(op.key) # None
        /\ op' = [op EXCEPT !.pc = "delta", !.amount = TargetLiq(op.key)]
     \/ NoFault /\ TargetLiq(op.key) = None /\ Done
     \/ ReadErrs /\ Done
  /\ UNCHANGED <<pos, late, loose, map>> /\ opLeaves

(* The difference to ours; if there is none, both are read once more.      *)
meteoraAddReadsOurs ==
  /\ At("increase", "delta")
  /\ LET mine == OurLiq(op.nft)
     IN  \/ NoFault /\ mine # None /\ op.amount > mine
            /\ op' = [op EXCEPT !.pc = "send", !.amount = @ - mine, !.tries = 0]
         \/ NoFault /\ mine # None /\ op.amount > mine /\ Done
         \/ NoFault /\ mine # None /\ op.amount <= mine
            /\ IF op.tries = 0 THEN op' = [op EXCEPT !.pc = "read", !.tries = 1] ELSE Done
         \/ NoFault /\ mine = None /\ Done
         \/ ReadErrs /\ Done
  /\ UNCHANGED <<pos, late, loose, map>> /\ opLeaves

meteoraAddSends ==
  /\ At("increase", "send")
  /\ op' = meteoraSignAndSend([kind |-> "increase", nft |-> op.nft, liq |-> op.amount], "confirm")
  /\ UNCHANGED <<pos, late, loose, map, faults>> /\ opLeaves

meteoraAddConfirmed ==
  /\ At("increase", "confirm") /\ Confirmed
  /\ op' = Settled("store")
  /\ UNCHANGED <<pos, loose, map>> /\ opLeaves

meteoraAddThrows ==
  /\ At("increase", "confirm") /\ Throws
  /\ MeteoraRetry("send", METEORA_MAX_ADD_ATTEMPTS)
  /\ UNCHANGED <<pos, loose, map>> /\ opLeaves

meteoraAddStores ==
  /\ At("increase", "store")
  /\ \/ NoFault /\ TargetLiq(op.key) # None /\ SetTargetLiquidity(op.key, TargetLiq(op.key))
     \/ NoFault /\ TargetLiq(op.key) = None /\ UNCHANGED map
     \/ ReadErrs /\ UNCHANGED map
  /\ Done
  /\ UNCHANGED <<pos, late, loose>> /\ opLeaves

-----------------------------------------------------------------------------
(* Decrease.                                                               *)

MeteoraFullBps == 10000

(* Basis points that the target removed of what was stored.                *)
MeteoraRemoveBps(stored, current) == ((stored - current) * MeteoraFullBps) \div stored

(* A target that is gone, empty or not readable: everything is removed, as *)
(* when a scan has removed the entry, and with it the target's wallet.     *)
(* The stored liquidity is brought up to date before anything is sent.     *)
meteoraRemoveReadsTarget ==
  /\ At("decrease", "read")
  /\ LET current == TargetLiq(op.key)
         stored == getTargetLiquidity(op.key)
     IN  \/ NoFault /\ (current \in {None, 0} \/ stored = None) /\ UNCHANGED map
            /\ op' = [op EXCEPT !.pc = "send", !.amount = MeteoraFullBps]
         \/ ReadErrs /\ UNCHANGED map
            /\ op' = [op EXCEPT !.pc = "send", !.amount = MeteoraFullBps]
         \/ NoFault /\ current \notin {None, 0} /\ stored # None /\ current < stored
            /\ SetTargetLiquidity(op.key, current)
            /\ IF MeteoraRemoveBps(stored, current) = 0 THEN Done
               ELSE op' = [op EXCEPT !.pc = "send", !.amount = MeteoraRemoveBps(stored, current)]
         \/ NoFault /\ current \notin {None, 0} /\ ~(stored # None /\ current < stored)
            /\ UNCHANGED map /\ Done
  /\ UNCHANGED <<pos, late, loose>> /\ opLeaves

(* The share is one of what we hold at each attempt; nothing is sent for a *)
(* position that is gone.                                                  *)
meteoraRemoveSends ==
  /\ At("decrease", "send")
  /\ LET mine == OurLiq(op.nft)
     IN  \/ NoFault /\ mine \in {None, 0} /\ Done
         \/ NoFault /\ mine \notin {None, 0}
            /\ op' = meteoraSignAndSend([kind |-> "decrease", nft |-> op.nft,
                              liq |-> (mine * op.amount) \div MeteoraFullBps], "confirm")
         \/ ReadErrs /\ MeteoraRetry("send", METEORA_MAX_DECREASE_ATTEMPTS)
  /\ UNCHANGED <<pos, late, loose, map>> /\ opLeaves

meteoraRemoveConfirmed ==
  /\ At("decrease", "confirm") /\ Confirmed
  /\ op' = Settled("queue")
  /\ UNCHANGED <<pos, loose, map>> /\ opLeaves

meteoraRemoveThrows ==
  /\ At("decrease", "confirm") /\ Throws
  /\ MeteoraRetry("send", METEORA_MAX_DECREASE_ATTEMPTS)
  /\ UNCHANGED <<pos, loose, map>> /\ opLeaves

(* parseTxTokenChanges() of the last transaction, and addPendingSwap() for *)
(* what that one brought.                                                  *)
meteoraReceivedQueued ==
  /\ op # None /\ op.kind \in {"decrease", "close"} /\ op.pc = "queue"
  /\ \/ meteoraAddPendingSwaps(op.got) /\ NoFault
     \/ UNCHANGED loose /\ ReadErrs
  /\ Done
  /\ UNCHANGED <<pos, late, map>> /\ opLeaves

-----------------------------------------------------------------------------
(* Close: a transaction that removes the liquidity, then one that closes   *)
(* the account.                                                            *)

MeteoraClosesWithoutRemoving ==
  /\ At("close", "send") /\ NoFault
  /\ IF OurLiq(op.nft) = None THEN DeleteMapping(op.key) /\ Done
     ELSE UNCHANGED map /\ op' = meteoraSignAndSend([kind |-> "close", nft |-> op.nft, liq |-> 0], "confirm")
  /\ UNCHANGED <<pos, late, loose>> /\ opLeaves

(* "CRITICAL: distinguish 429/transient errors from position genuinely     *)
(* gone": only the latter removes the mapping.                             *)
meteoraCloseSends ==
  /\ At("close", "send")
  /\ LET mine == OurLiq(op.nft)
     IN  \/ NoFault /\ mine = None /\ DeleteMapping(op.key) /\ Done
         \/ NoFault /\ mine = 0 /\ UNCHANGED map
            /\ op' = meteoraSignAndSend([kind |-> "close", nft |-> op.nft, liq |-> 0], "confirm")
         \/ NoFault /\ mine \notin {None, 0} /\ UNCHANGED map
            /\ op' = meteoraSignAndSend([kind |-> "decrease", nft |-> op.nft, liq |-> mine], "confirmRemove")
         \/ ReadErrs /\ UNCHANGED map /\ MeteoraRetry("send", METEORA_MAX_CLOSE_ATTEMPTS)
  /\ UNCHANGED <<pos, late, loose>> /\ opLeaves

meteoraCloseRemoved ==
  /\ At("close", "confirmRemove") /\ Confirmed
  /\ op' = meteoraSignAndSend([kind |-> "close", nft |-> op.nft, liq |-> 0], "confirm")
  /\ UNCHANGED <<pos, loose, map>> /\ opLeaves

meteoraCloseThrows ==
  /\ op # None /\ op.kind = "close" /\ op.pc \in {"confirmRemove", "confirm"} /\ Throws
  /\ MeteoraRetry("send", METEORA_MAX_CLOSE_ATTEMPTS)
  /\ UNCHANGED <<pos, loose, map>> /\ opLeaves

meteoraCloseConfirmed ==
  /\ At("close", "confirm") /\ Confirmed
  /\ op' = Settled("verify")
  /\ UNCHANGED <<pos, loose, map>> /\ opLeaves

meteoraCloseVerified ==
  /\ At("close", "verify")
  /\ \/ NoFault /\ DeleteMapping(op.key) /\ op' = Settled("queue")
     \/ /\ meteoraVerifyTxFails /\ UNCHANGED map
        /\ IF op.tries + 1 < METEORA_MAX_CLOSE_ATTEMPTS THEN op' = [Settled("send") EXCEPT !.tries = @ + 1] ELSE Done
  /\ UNCHANGED <<pos, late, loose>> /\ opLeaves

-----------------------------------------------------------------------------
(* reconcileMeteoraPositions(): an entry whose position of ours is gone is *)
(* deleted, even when the target has been opened again since the scan      *)
(* began; the target is not looked at.                                     *)
meteoraScanChecks ==
  /\ scan # None
  /\ \E e \in scan.todo :
       /\ scan' = [scan EXCEPT !.todo = @ \ {e}]
       /\ \/ NoFault /\ OurLiq(e[2]) = None /\ DeleteMapping(e[1])
             /\ displaced' = displaced \cup (EntryOf(e[1]) \ {e[2]})
          \/ NoFault /\ OurLiq(e[2]) # None /\ UNCHANGED <<map, displaced>>
          \/ ReadErrs /\ UNCHANGED <<map, displaced>>
  /\ UNCHANGED <<world, queues, op, events, userOps>>

-----------------------------------------------------------------------------
meteoraDispatch == TakeNext /\ op' \in MeteoraStart(NextItem)
meteoraDashboard == TakeFromDashboard /\ \E item \in DashboardItem : op' \in MeteoraStart(item)

MeteoraOpStep ==
  \/ meteoraOpenReads \/ meteoraOpenSends \/ meteoraOpenThrows \/ meteoraOpenCreated
  \/ meteoraOpenFills \/ meteoraOpenPartFilled \/ meteoraOpenConfirmed \/ meteoraOpenVerified
  \/ meteoraAddReadsTarget \/ meteoraAddReadsOurs \/ meteoraAddSends \/ meteoraAddConfirmed
  \/ meteoraAddThrows \/ meteoraAddStores
  \/ meteoraRemoveReadsTarget \/ meteoraRemoveSends \/ meteoraRemoveConfirmed
  \/ meteoraRemoveThrows \/ meteoraReceivedQueued
  \/ meteoraCloseSends \/ meteoraCloseRemoved \/ meteoraCloseThrows \/ meteoraCloseConfirmed
  \/ meteoraCloseVerified

MeteoraScanStep == ScanStarts \/ meteoraScanChecks \/ ScanEnds

MeteoraNext ==
  \/ TargetStep \/ ChainStep \/ Expires \/ meteoraDispatch \/ meteoraDashboard
  \/ MeteoraOpStep \/ MeteoraScanStep \/ Crash

=============================================================================
