----------------------------- MODULE WalletUsers -----------------------------
(***************************************************************************)
(* What uses the wallet's tokens: the copied opens and increases that buy  *)
(* what they deposit, the closes and sales, the timer that follows the     *)
(* balance of tokens waiting to be sold, and the daily purchase.  The      *)
(* first two take turns in the operation queue; the others run beside it.  *)
(***************************************************************************)
EXTENDS Funding, PendingSwaps, DailyConversion

vars == <<scenario, walletVars, fund, pendingVars, dacVars>>

Init == WalletInit /\ FundInit /\ PendingInit /\ DacInit

Funds == sale = None /\ FundStep /\ UNCHANGED <<scenario, pendingVars, dacVars>>
Sells ==
  /\ SaleStep \/ (NewSale /\ (FundEnded \/ fund.pc = "balances"))
  /\ UNCHANGED <<scenario, fund, dacVars>>
Syncs == SyncStep /\ UNCHANGED <<scenario, fund, dacVars>>
Clears == clearAllPendingSwaps /\ UNCHANGED <<scenario, fund, dacVars>>
Converts == DacStep /\ UNCHANGED <<scenario, fund, pendingVars>>
Expires == holdingsExpire /\ UNCHANGED <<scenario, fund, pendingVars, dacVars>>

Next == Funds \/ Sells \/ Syncs \/ Clears \/ Converts \/ Expires

(* Operations that began settle, and the ten-minute timer fires again and  *)
(* again; nothing else is assumed to happen.                               *)
Fairness ==
  /\ WF_vars(Funds) /\ WF_vars(Syncs)
  /\ WF_vars(SaleStep /\ UNCHANGED <<scenario, fund, dacVars>>)

Spec == Init /\ [][Next]_vars /\ Fairness

-----------------------------------------------------------------------------
Alone(user) == scenario.users = {user}
Start(m) == scenario.wallet[m]

(* The wallet can pay for everything the operation lacks, and for the      *)
(* buffer where the cost is estimated.                                     *)
Ample ==
  LET cost(s) == IF rule.estimates /\ mint(s) # "USDC" THEN estimateSwapCost(need(s)) ELSE need(s)
  IN  Start("USDC") >= cost("A") + cost("B")

(* Where token B is not read again it must not be what pays for A.         *)
PlanHolds == rule.readsOther \/ Start(mint("B")) = 0 \/ Start(mint("A")) >= need("A")

(* A wallet with enough USDC funds every copied open and increase (an open *)
(* on Orca asks for 5% more than it spends): when nothing fails, the first *)
(* deposit is sent, with all that is needed of each side up to slippage,   *)
(* and it succeeds. Without PlanHolds this is not so on Byreal and         *)
(* PancakeSwap, which count B tokens they have just spent on A; but the    *)
(* second attempt reads the balances again, so that a deposit fails for    *)
(* good only if there is nothing of a side it needs.                       *)
FundsSuffice ==
  Alone("fund") /\ scenario.kinds = {} =>
    /\ Ample /\ PlanHolds =>
         /\ fund.pc \notin {"null", "failed", "retry", "swapBack"}
         /\ fund.pc = "deposit" => \A s \in Side : fund.seen[s] >= need(s) - scenario.slippage
    /\ ~rule.swapsBack /\ fund.pc = "failed" => \E s \in Side : need(s) > 0 /\ wallet[mint(s)] = 0

(* The pre-swaps never leave more of a token in the wallet than there was  *)
(* or than the position needs, whatever swaps and deposits fail; reads     *)
(* that fail and swaps that are executed after all are excluded.           *)
NeverOverbuys ==
  Alone("fund") /\ scenario.kinds \cap {"readError", "lostAck"} = {} =>
    \A s \in Side :
      mint(s) # "USDC" => wallet[mint(s)] <= IF Start(mint(s)) > need(s) THEN Start(mint(s)) ELSE need(s)

(* An Orca open that bought tokens and failed sells them again: it leaves  *)
(* no more of them than it found; and one that returns null by its "Pre-   *)
(* check: estimate total USDC cost" has not bought either side.  Excluded  *)
(* are an open that cannot buy token B (noRoute: token A stays) and one    *)
(* from which a failed read hides what was bought.                         *)
FailedOpenIsUndone ==
  Alone("fund") /\ scenario.kinds \subseteq {"txFails"} =>
    /\ rule.swapsBack /\ fund.pc \in {"null", "failed"} => \A m \in {"X", "Y"} : wallet[m] <= Start(m)
    /\ rule.estimates /\ fund.pc = "null" => wallet = scenario.wallet

(* However closes, sales, clears and the timer interleave, the entry of a  *)
(* token ends up gone or equal to the balance; and if nothing was sold,    *)
(* cleared or misread, and no target's close was noted, every token        *)
(* received is in it.                                                      *)
PendingConverges ==
  Alone("pending") =>
    /\ <>[](pending \in {None, wallet["X"]})
    /\ scenario.kinds = {} /\ scenario.bounds.notes + scenario.bounds.sells + scenario.bounds.clears = 0
       => <>[](IF pending = None THEN wallet["X"] = 0 ELSE pending = wallet["X"])

(* logPendingStatus() is said to "clean up zero-amount entries": an entry  *)
(* it removes without a look at the balance is empty when it is removed.   *)
CleansOnlyZeroEntries ==
  [][sync # None /\ ~sync.asked /\ pending # None /\ pending' = None /\ sync' = None => pending = 0]_vars

(* The same-day guard: the scheduler buys successfully at most once a day, *)
(* whatever the user does with the hour, and with purchases by hand.  It   *)
(* takes a crash, or a reload that misses a queued record, to break it.    *)
OneSuccessADay ==
  scenario.kinds \cap {"lagging", "crash"} = {} => \A d \in DOMAIN successes : successes[d] <= 1

(* While the conversion is enabled something will start it again: a timer, *)
(* a callback that is about to arm one, a start that waits for the         *)
(* history, or a scheduled run.                                            *)
SchedulerStaysArmed ==
  DacUsed /\ "dbDown" \notin scenario.kinds /\ settings.enabled =>
    timers # {} \/ due > 0 \/ loads > 0 \/ (run # None /\ run.scheduled)

=============================================================================
