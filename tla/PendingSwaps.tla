---------------------------- MODULE PendingSwaps ----------------------------
(***************************************************************************)
(* The record of tokens that closed positions brought and that wait to be  *)
(* sold (state/pending-swaps-store.ts), for one token X; the closes that   *)
(* add to it, the sales, and the ten-minute timer that brings the record   *)
(* in line with the wallet.  Closes and sales are items of the operation   *)
(* queue; the timer is not.                                                *)
(***************************************************************************)
EXTENDS Wallet

VARIABLES
  pending,   \* the amount in X's entry, None if there is none
  sync,      \* logPendingStatus(): None, or the entry and the balance read
  sale,      \* the running close or sale, or None
  did        \* operations so far, by kind

pendingVars == <<pending, sync, sale, did>>

PendingInit ==
  pending = None /\ sync = None /\ sale = None /\ did = [closes |-> 0, notes |-> 0, sells |-> 0, clears |-> 0]

Received == 2   \* what a close brings
Dust == 0

Does(what) ==
  /\ "pending" \in scenario.users /\ did[what] < scenario.bounds[what]
  /\ did' = [did EXCEPT ![what] = @ + 1]

AmountIn(entry) == IF entry = None THEN 0 ELSE entry

(* A close is confirmed; its transaction is parsed for what it brought.    *)
closeLands ==
  /\ sale = None /\ Does("closes")
  /\ wallet' = [wallet EXCEPT !["X"] = @ + Received]
  /\ sale' = [kind |-> "close", amount |-> Received]
  /\ UNCHANGED <<holdings, faults, pending, sync>>

addPendingSwap ==
  /\ sale # None /\ sale.kind = "close"
  /\ pending' = AmountIn(pending) + sale.amount
  /\ sale' = None
  /\ UNCHANGED <<walletVars, sync, did>>

(* addBotReceived() makes an entry that holds nothing of ours.             *)
recordBotCloseReceived ==
  /\ sale = None /\ Does("notes")
  /\ pending' = AmountIn(pending)
  /\ UNCHANGED <<walletVars, sync, sale>>

(* Triggered by the target's own swap, which gives a cap, or by the        *)
(* dashboard, which gives none.                                            *)
swapTokenToUSDC(cap) ==
  /\ sale = None /\ Does("sells")
  /\ \E r \in Readings({"X"}) :
       /\ ReadsAs({"X"}, r)
       /\ LET amount == IF cap # None /\ cap < r["X"] THEN cap ELSE r["X"]
          IN  sale' = IF amount <= Dust THEN None ELSE [kind |-> "sell", amount |-> amount]
  /\ UNCHANGED <<wallet, holdings, pending, sync>>

sells ==
  /\ sale # None /\ sale.kind = "sell"
  /\ \E got \in 0..sale.amount : jupSwapExactIn("X", "USDC", sale.amount, got)
  /\ sale' = None
  /\ UNCHANGED <<pending, sync, did>>

clearAllPendingSwaps ==
  /\ Does("clears") /\ pending # None
  /\ pending' = None
  /\ UNCHANGED <<walletVars, sync, sale>>

(* The timer takes all entries as they are and goes through them one after *)
(* the other, so that X's turn comes later.                                *)
logPendingStatus ==
  /\ "pending" \in scenario.users /\ sync = None /\ pending # None
  /\ sync' = [entry |-> pending, asked |-> FALSE, balance |-> None]
  /\ UNCHANGED <<walletVars, pending, sale, did>>

entryReached ==
  /\ sync # None /\ ~sync.asked
  /\ IF sync.entry = 0 THEN pending' = None /\ sync' = None
     ELSE sync' = [sync EXCEPT !.asked = TRUE] /\ UNCHANGED pending
  /\ UNCHANGED <<walletVars, sale, did>>

balanceAnswered ==
  /\ sync # None /\ sync.asked /\ sync.balance = None
  /\ \E r \in Readings({"X"}) :
       ReadsAs({"X"}, r) /\ sync' = [sync EXCEPT !.balance = r["X"]]
  /\ UNCHANGED <<wallet, holdings, pending, sale, did>>

OnlyDropsDust ==
  /\ sync # None /\ sync.balance # None
  /\ pending' = IF sync.balance <= Dust THEN None ELSE pending
  /\ sync' = None
  /\ UNCHANGED <<walletVars, sale, did>>

(* Whatever happened to the entry meanwhile is overwritten.                *)
syncsPending ==
  /\ sync # None /\ sync.balance # None
  /\ pending' = IF sync.balance <= Dust THEN None
                ELSE IF sync.balance # sync.entry THEN sync.balance ELSE pending
  /\ sync' = None
  /\ UNCHANGED <<walletVars, sale, did>>

SyncStep == logPendingStatus \/ entryReached \/ balanceAnswered \/ syncsPending
SaleStep == addPendingSwap \/ sells
NewSale == closeLands \/ recordBotCloseReceived \/ \E cap \in {1, None} : swapTokenToUSDC(cap)

=============================================================================
