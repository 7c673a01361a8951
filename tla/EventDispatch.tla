---------------------------- MODULE EventDispatch ----------------------------
(***************************************************************************)
(* From a log notification to a copy, in index.ts: duplicates and spam are *)
(* dropped, the rest waits in the queue, one transaction at a time is      *)
(* parsed and its events are handled one after the other.  The copies are  *)
(* those of the executors' modules, abstracted to what they do to the      *)
(* mapping and to the referers.                                            *)
(***************************************************************************)
EXTENDS WebSocketMonitor, RiskControls, PumpApproval

VARIABLES
  landed,        \* how many of scenario.txs are on chain
  inFlight,      \* notifications on their way, <<connection, tx>>
  processedSignatures,  \* in order of insertion
  accepted,      \* history: transactions that passed the duplicate test
  opQueue,       \* transactions waiting
  current,       \* None or [tx, left, stage]: the transaction in work, its events left
  positionMap,   \* the targets we have a position for
  openedReferers \* the target copied for each referer, or None

dispatchVars ==
  <<landed, inFlight, processedSignatures, accepted, opQueue, current, positionMap, openedReferers>>
workVars == <<opQueue, current, positionMap, openedReferers>>

Positions == DOMAIN scenario.positions
Pos(p) == scenario.positions[p]
Tx(i) == scenario.txs[i]
Referers == {Pos(p).referer : p \in Positions} \ {None}

DispatchInit ==
  /\ landed = 0 /\ inFlight = {} /\ processedSignatures = <<>> /\ accepted = <<>>
  /\ opQueue = <<>> /\ current = None /\ positionMap = {}
  /\ openedReferers = [r \in Referers |-> None]

(* A transaction of a target: every listener gets it.                      *)
lands ==
  /\ landed < Len(scenario.txs) /\ landed' = landed + 1
  /\ inFlight' = inFlight \cup {<<c, landed + 1>> : c \in {d \in Conns \ zombies : Tx(landed + 1).wallet \in listeners[d]}}
  /\ UNCHANGED <<processedSignatures, accepted, workVars>>

OnChain(kind, p) ==
  \E i \in 1..landed : \E j \in DOMAIN Tx(i).events : Tx(i).events[j] = [kind |-> kind, pos |-> p]
TargetExists(p) == ~OnChain("close", p)

EvictsEarly(seen) == IF Len(seen) >= DedupSize THEN Tail(seen) ELSE seen
Evicted(seen) == IF Len(seen) > DedupSize THEN Tail(seen) ELSE seen

(* The callback: duplicates, the oldest signature forgotten, spam.         *)
TxCallback(i) ==
  IF Tx(i).is = "failed" \/ \E k \in DOMAIN processedSignatures : processedSignatures[k] = i
  THEN UNCHANGED <<processedSignatures, accepted, opQueue>>
  ELSE /\ processedSignatures' = Evicted(Append(processedSignatures, i))
       /\ accepted' = Append(accepted, i)
       /\ opQueue' = IF Tx(i).is = "spam" THEN opQueue ELSE Append(opQueue, i)

delivers ==
  \E n \in inFlight :
    /\ \/ NoFault /\ inFlight' = inFlight \ {n}
       \/ Fault("redelivered") /\ UNCHANGED inFlight
    /\ IF n[1] \notin zombies /\ Tx(n[2]).wallet \in listeners[n[1]]
       THEN eventArrives /\ TxCallback(n[2])
       ELSE UNCHANGED <<monitorVars, processedSignatures, accepted, opQueue>>
    /\ UNCHANGED <<landed, current, positionMap, openedReferers>>

(* parseTransaction(): which of the parsers run, and what they give.       *)
parsersRun(involved) ==
  {d \in involved :
     /\ d # "byreal" => "byreal" \notin involved
     /\ d \in {"meteora", "pancakeswap", "dammv2"} => "orca" \notin involved
     /\ d = "pancakeswap" => "meteora" \notin involved}

parsed(i) ==
  LET swaps == {j \in DOMAIN Tx(i).events : Tx(i).events[j].kind = "swap"}
      lp == {j \in DOMAIN Tx(i).events \ swaps : Pos(Tx(i).events[j].pos).dex \in parsersRun(Tx(i).involved)}
  IN IF lp # {} \/ "byreal" \in Tx(i).involved THEN lp ELSE swaps

(* The next event of the transaction, or the end of it.                    *)
Goes(i, left) ==
  current' = IF left = {} THEN None ELSE [tx |-> i, left |-> left, stage |-> "handle"]

parseTransaction ==
  /\ current = None /\ opQueue # <<>>
  /\ opQueue' = Tail(opQueue)
  /\ \/ NoFault /\ Goes(Head(opQueue), parsed(Head(opQueue)))
     \/ (Fault("unparsed") \/ Fault("throws")) /\ current' = None
  /\ UNCHANGED <<landed, inFlight, processedSignatures, accepted, positionMap, openedReferers>>

First == CHOOSE j \in current.left : \A k \in current.left : j <= k
Event == Tx(current.tx).events[First]
Target == Event.pos
Dex == Pos(Target).dex
Wallet == Tx(current.tx).wallet
At(stage) == current # None /\ current.stage = stage
NextEvent == Goes(current.tx, current.left \ {First})

(* isRefererDuplicateEntry(), with the wallet that opened.                 *)
isRefererDuplicate(r, wallet) ==
  /\ r # None /\ openedReferers[r] # None
  /\ LET blocker == Pos(openedReferers[r]).wallet
     IN /\ ~(scenario.allow.sameWallet /\ blocker = wallet)
        /\ ~(blocker # wallet /\ (blocker \in scenario.allow.openedBy \/ wallet \in scenario.allow.afterOthers))

(* The tests of handleEvent() before each copy.                            *)
Mapped == Target \in positionMap
Unpaused == ~drawdownPaused /\ Dex \notin solPaused
MayAdd == Unpaused /\ Wallet \notin settings.closeOnly[Dex]
TokenAllowed == ~(tokenBlacklist /\ Pos(Target).pump)
NotCooling == ~isTokenCoolingDown(Pos(Target).token)
MintsKnown == scenario.mintsKnown

byrealOpens ==
  /\ MayAdd /\ (MintsKnown => NotCooling /\ TokenAllowed)
  /\ ~Mapped /\ ~isRefererDuplicate(Pos(Target).referer, Wallet)
byrealIncreases == MayAdd /\ Mapped /\ TokenAllowed
byrealDecreases == Mapped
ClosesUnlessPaused == Unpaused /\ Mapped
byrealCloses == Mapped
orcaOpens == MayAdd /\ ~Mapped
orcaIncreases == MayAdd /\ Mapped
orcaDecreases == Mapped
orcaCloses == Mapped
meteoraOpens == MayAdd /\ ~Mapped
meteoraAdds == MayAdd /\ Mapped
meteoraRemoves == Mapped
meteoraCloses == Mapped
pcsOpens == MayAdd /\ (MintsKnown => NotCooling /\ TokenAllowed) /\ ~Mapped
pcsIncreases == MayAdd /\ Mapped
pcsDecreases == Mapped
pcsCloses == Mapped
dammv2Opens == MayAdd /\ ~Mapped
dammv2Adds == MayAdd /\ Mapped
dammv2Removes == Mapped
dammv2Closes == Mapped
dammv2Claims == Mapped

Copied(dex, kind) ==
  CASE kind = "open" -> (CASE dex = "byreal" -> byrealOpens [] dex = "orca" -> orcaOpens
                           [] dex = "meteora" -> meteoraOpens [] dex = "pancakeswap" -> pcsOpens
                           [] dex = "dammv2" -> dammv2Opens)
    [] kind = "increase" -> (CASE dex = "byreal" -> byrealIncreases [] dex = "orca" -> orcaIncreases
                               [] dex = "meteora" -> meteoraAdds [] dex = "pancakeswap" -> pcsIncreases
                               [] dex = "dammv2" -> dammv2Adds)
    [] kind = "decrease" -> (CASE dex = "byreal" -> byrealDecreases [] dex = "orca" -> orcaDecreases
                               [] dex = "meteora" -> meteoraRemoves [] dex = "pancakeswap" -> pcsDecreases
                               [] dex = "dammv2" -> dammv2Removes)
    [] kind = "close" -> (CASE dex = "byreal" -> byrealCloses [] dex = "orca" -> orcaCloses
                            [] dex = "meteora" -> meteoraCloses [] dex = "pancakeswap" -> pcsCloses
                            [] dex = "dammv2" -> dammv2Closes)
    [] kind = "claim" -> dex = "dammv2" /\ dammv2Claims
    [] kind = "swap" -> TRUE

(* One event up to its first await.  A cooldown looked at may have ended.  *)
handleEvent ==
  /\ At("handle")
  /\ IF Dex \in scenario.enabled /\ Copied(Dex, Event.kind)
     THEN current' = [current EXCEPT !.stage = "copy"] ELSE NextEvent
  /\ IF Event.kind = "open" /\ Dex \in {"byreal", "pancakeswap"} /\ MintsKnown /\ MayAdd
     THEN ForgetsElapsed(Pos(Target).token) ELSE UNCHANGED cooldownVars
  /\ UNCHANGED <<faults, opQueue, positionMap, openedReferers, pumpVars, drawdownVars, solPaused>>

(* The copy throws: the rest of the transaction is dropped.                *)
copyThrows ==
  /\ At("copy") /\ Fault("throws")
  /\ current' = None
  /\ UNCHANGED <<opQueue, positionMap, openedReferers, pumpVars, riskVars>>

(* copyOpenPosition() reads the target and applies its filters.            *)
SeesTarget == IF TargetExists(Target) THEN NoFault ELSE Fault("lagging")
FiltersPass == (Dex # "byreal" => TokenAllowed) /\ (Pos(Target).pump => pumpAllows)

openReads ==
  /\ At("copy") /\ Event.kind = "open"
  /\ \/ ~TargetExists(Target) /\ NoFault /\ NextEvent /\ UNCHANGED pumpVars
     \/ SeesTarget /\ FiltersPass /\ current' = [current EXCEPT !.stage = "send"] /\ UNCHANGED pumpVars
     \/ SeesTarget /\ ~FiltersPass /\ NextEvent
        /\ IF (Dex # "byreal" => TokenAllowed) THEN pumpSkips ELSE UNCHANGED pumpVars
  /\ UNCHANGED <<opQueue, positionMap, openedReferers, riskVars>>

(* The mapping and the referer are recorded together; or the open fails,   *)
(* perhaps for want of SOL.                                                *)
addOpenedReferer ==
  IF Dex = "byreal" /\ Pos(Target).referer # None
  THEN [openedReferers EXCEPT ![Pos(Target).referer] = Target] ELSE openedReferers
openSends ==
  /\ At("send") /\ NextEvent
  /\ \/ /\ NoFault
        /\ positionMap' = positionMap \cup {Target} /\ openedReferers' = addOpenedReferer
        /\ UNCHANGED solPaused
     \/ /\ Fault("fails")
        /\ solPaused' \in {solPaused, solPaused \cup {Dex}}
        /\ UNCHANGED <<positionMap, openedReferers>>
  /\ UNCHANGED <<opQueue, pumpVars, drawdownVars, cooldownVars>>

(* Increases, decreases, claims and swaps leave the mapping alone.         *)
changes ==
  /\ At("copy") /\ Event.kind \in {"increase", "decrease", "claim", "swap"} /\ NextEvent
  /\ NoFault \/ Fault("fails")
  /\ UNCHANGED <<opQueue, positionMap, openedReferers, pumpVars, riskVars>>

KeepsReferer(p) == openedReferers
removeOpenedRefererByTargetNft(p) ==
  [r \in Referers |-> IF openedReferers[r] = p THEN None ELSE openedReferers[r]]
closes ==
  /\ At("copy") /\ Event.kind = "close" /\ NextEvent
  /\ \/ /\ NoFault
        /\ positionMap' = positionMap \ {Target}
        /\ openedReferers' = removeOpenedRefererByTargetNft(Target)
        /\ awaitingPnl' = IF Dex = "byreal" THEN Append(awaitingPnl, Pos(Target).token) ELSE awaitingPnl
     \/ Fault("fails") /\ UNCHANGED <<positionMap, openedReferers, awaitingPnl>>
  /\ UNCHANGED <<opQueue, pumpVars, drawdownVars, solPaused, tokenLossStreak, tokenCooldowns, results>>

WorkStep ==
  /\ handleEvent \/ copyThrows \/ openReads \/ openSends \/ changes \/ closes
  /\ UNCHANGED <<landed, inFlight, processedSignatures, accepted>>

=============================================================================
