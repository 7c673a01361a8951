------------------------------ MODULE Executors ------------------------------
(***************************************************************************)
(* The executors of Orca, Meteora, DAMM v2 and PancakeSwap, each in the    *)
(* surroundings of CopyChain.  A behaviour is one executor's: they share   *)
(* no position, and the queue executes one operation at a time.            *)
(*                                                                         *)
(* The four promise the same and keep it to different degrees.  Every      *)
(* property here names, per executor, the kinds of fault it survives; with *)
(* any other kind it does not hold.                                        *)
(***************************************************************************)
EXTENDS OrcaPositions, MeteoraPositions, DammV2Positions, PancakeSwapPositions

dispatch ==
  /\ UNCHANGED scenario
  /\ \/ scenario.dex = "orca" /\ orcaDispatch
     \/ scenario.dex = "meteora" /\ meteoraDispatch
     \/ scenario.dex = "dammv2" /\ dammDispatch
     \/ scenario.dex = "pancakeswap" /\ pancakeDispatch

OpStep ==
  /\ UNCHANGED scenario
  /\ \/ scenario.dex = "orca" /\ OrcaOpStep
     \/ scenario.dex = "meteora" /\ MeteoraOpStep
     \/ scenario.dex = "dammv2" /\ DammOpStep
     \/ scenario.dex = "pancakeswap" /\ PancakeOpStep

ScanStep ==
  /\ UNCHANGED scenario
  /\ \/ scenario.dex = "orca" /\ OrcaScanStep
     \/ scenario.dex = "meteora" /\ MeteoraScanStep
     \/ scenario.dex = "dammv2" /\ DammScanStep
     \/ scenario.dex = "pancakeswap" /\ PancakeScanStep

SettleStep == ChainStep /\ UNCHANGED scenario

Next ==
  /\ UNCHANGED scenario
  /\ \/ scenario.dex = "orca" /\ OrcaNext
     \/ scenario.dex = "meteora" /\ MeteoraNext
     \/ scenario.dex = "dammv2" /\ DammNext
     \/ scenario.dex = "pancakeswap" /\ PancakeNext

(* Operations settle, the queue goes on, the timer fires again and again,  *)
(* and a transaction that does not expire lands.                           *)
Fairness ==
  WF_vars(SettleStep) /\ WF_vars(dispatch) /\ WF_vars(OpStep) /\ WF_vars(ScanStep)

Spec == Init /\ [][Next]_vars /\ Fairness

TypeOK == ChainTypeOK

-----------------------------------------------------------------------------
(* Every position of ours that holds liquidity is mapped or is the one the *)
(* running operation works on.  On Orca a lost confirmation is made good   *)
(* by looking the position up before the open is tried again.  Meteora     *)
(* starts anew with another position when a fill fails: nothing is lost if *)
(* it was the only one, but what earlier ones brought is.  The scans of    *)
(* Meteora and DAMM v2 lose the position of a target that is opened again  *)
(* during the scan.                                                        *)
NoLostLiquidity ==
  \/ Promised([orca |-> {"missed", "expired", "lostAck", "notVerified"},
               meteora |-> {"missed", "readError", "expired"}, dammv2 |-> {"missed", "expired"}])
  \/ Promised([meteora |-> {"missed", "readError", "chunked"}])
  => \A n \in Nfts : OnChain(n) /\ pos[n].liq > 0 =>
       n \in Mapped \/ n \in displaced \/ (op # None /\ op.nft = n)

(* Ours never holds more than the target once held: the increases, each of *)
(* a difference read some time before, do not add up to more.              *)
OursWithinPeak ==
  Promised([orca |-> {"missed", "expired"}, meteora |-> {"missed", "expired", "chunked"},
            dammv2 |-> {"missed", "expired"}])
  => \A n \in Nfts : OnChain(n) => pos[n].liq <= peak[pos[n].copy]

(* When nothing is left to do, all that was withdrawn from positions has   *)
(* been queued as pending swap (addPendingSwap after a decrease or close). *)
ReceivedTokensAreQueued ==
  Promised([orca |-> {"missed", "expired"}, dammv2 |-> {"missed", "expired"}])
  => (Quiet => loose = 0)

(* An entry is removed only when its position is not on chain.  A close    *)
(* has verified its transaction, and an error is not taken for a position  *)
(* that is gone.  PancakeSwap's manualClosePosition() alone does not wait; *)
(* and a scan that began before the target was opened again takes the new  *)
(* position for the old one.                                               *)
UnmappedOnlyWhenGone ==
  [][Promised([orca |-> FaultKinds \ {"readError"}, meteora |-> FaultKinds \ {"notVerified"},
               dammv2 |-> FaultKinds \ {"readError", "notVerified"}, pancakeswap |-> FaultKinds])
     => \A n \in Mapped \ Mapped' : At("manualClose", "ack") \/ ~OnChain(n) \/ n \in displaced']_vars

(* pancakeswap-position.ts:599, "Save mapping immediately": a position     *)
(* that comes into being is in the mapping, or the open that sent it still *)
(* runs and will save it.                                                  *)
LandsRecorded ==
  [][Promised([pancakeswap |-> {"missed", "readError", "expired", "notVerified"}])
     => \A n \in Nfts : OnChain(n)' /\ ~OnChain(n) => n \in Mapped \/ (op # None /\ op.nft = n)]_vars

(* A target that is closed is followed, by its event or by the reconcile   *)
(* scan, by the close of every position of ours that copies it.            *)
ClosedTargetIsReleased ==
  Promised([orca |-> {"missed", "expired", "lostAck", "notVerified"},
            meteora |-> {"chunked"}, dammv2 |-> {}, pancakeswap |-> {}])
  => \A t \in Targets : target[t].on = "closed" ~> \A n \in Nfts : pos[n].copy = t => ~OnChain(n) \/ n \in displaced

(* A target that is emptied, and stays so, is followed by ours, through    *)
(* copyDecreaseLiquidity or through the scan.                              *)
EmptiedTargetIsFollowed ==
  Promised([orca |-> {"missed", "expired", "lostAck", "notVerified"}, meteora |-> {"chunked"}, dammv2 |-> {}])
  => \A t \in Targets :
       Emptied(t) ~> (~Emptied(t) \/ \A n \in Nfts : pos[n].copy = t => pos[n].liq = 0 \/ n \in displaced)

(* Whatever goes wrong in between, no dead entry stays in the mapping:     *)
(* Orca's scan removes the entry of a closed target in the end, and the    *)
(* scans of Meteora and DAMM v2, if not the operation that closed it, the  *)
(* entry of a position of ours that no longer exists.                      *)
NoDeadEntryStays ==
  /\ Promised([orca |-> FaultKinds])
     => \A t \in Targets : target[t].on = "closed" ~> map[t] = None
  /\ Promised([meteora |-> FaultKinds, dammv2 |-> FaultKinds])
     => \A t \in Targets, n \in Nfts :
          (map[t] # None /\ map[t].nft = n /\ pos[n].on = "closed")
            ~> ~(map[t] # None /\ map[t].nft = n)

=============================================================================
