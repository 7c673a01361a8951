------------------------------- MODULE Wallet -------------------------------
(***************************************************************************)
(* The tokens in the bot's wallet and the Jupiter swaps that exchange them *)
(* (executor/jupiter-swap.ts).  Everything that spends from the wallet     *)
(* extends this module.                                                    *)
(*                                                                         *)
(* Amounts are small numbers and every rate is one to one; a swap yields   *)
(* what was wanted or, where the scenario has slippage, one less.          *)
(***************************************************************************)
EXTENDS Integers, Sequences, FiniteSets

CONSTANTS
  None,
  Scenarios    \* who uses the wallet, and the faults they meet

Mints == {"USDC", "SOL", "X", "Y"}

(* noRoute: Jupiter has no quote, or the swap is not executed.             *)
(* lostAck: a swap is executed and reported as failed.                     *)
(* readError: a balance cannot be read.  txFails: a transaction fails for  *)
(* reasons of its own.  dbDown: the history cannot be loaded.  lagging: it *)
(* is loaded before it is written.  crash: the bot is restarted.           *)
FaultKinds == {"noRoute", "lostAck", "readError", "txFails", "dbDown", "lagging", "crash"}

ASSUME ScenarioAssumption ==
  \A s \in Scenarios :
    /\ s.kinds \subseteq FaultKinds /\ s.faults \in Nat /\ s.slippage \in {0, 1}
    /\ s.wallet \in [Mints -> Nat] /\ s.users \subseteq {"fund", "pending", "dac"}

VARIABLES
  scenario,    \* one of Scenarios, chosen at the start
  wallet,      \* the wallet's balance of each mint
  holdings,    \* holdingsCache: balances as fetched at some time, or None
  faults       \* faults that happened so far

walletVars == <<wallet, holdings, faults>>

WalletInit ==
  /\ scenario \in Scenarios
  /\ wallet = scenario.wallet
  /\ holdings = None
  /\ faults = 0

Fault(kind) ==
  /\ kind \in scenario.kinds /\ faults < scenario.faults
  /\ faults' = faults + 1
NoFault == UNCHANGED faults

(* getTokenBalance() gives 0 when the balance cannot be read.  Several     *)
(* balances that are read one after the other are read in one step.        *)
Readings(mints) ==
  {[m \in mints |-> IF m = bad THEN 0 ELSE wallet[m]] : bad \in mints \cup {None}}
ReadsAs(mints, r) ==
  IF r = [m \in mints |-> wallet[m]] THEN NoFault ELSE Fault("readError")

-----------------------------------------------------------------------------
(* Swaps.  Each operator constrains the wallet, the cache and the fault    *)
(* count; got is the amount received, 0 when null is returned.             *)

Moved(in, out, amount, got) == [wallet EXCEPT ![in] = @ - amount, ![out] = @ + got]

Outputs(amount) == {amount, amount - scenario.slippage} \ {0}

(* metisSwap() and ultraSwap() after the cache is left as kept; a swap     *)
(* that succeeded invalidates it.  A resend is of the same transaction,    *)
(* which is executed once.                                                 *)
jupSwap(in, out, amount, got, kept) ==
  \/ /\ wallet[in] >= amount /\ got \in Outputs(amount) /\ NoFault
     /\ wallet' = Moved(in, out, amount, got)
     /\ holdings' = None
  \/ wallet[in] < amount /\ got = 0 /\ NoFault /\ UNCHANGED wallet /\ holdings' = kept
  \/ got = 0 /\ Fault("noRoute") /\ UNCHANGED wallet /\ holdings' = kept
  \/ /\ wallet[in] >= amount /\ got = 0 /\ Fault("lostAck")
     /\ wallet' = Moved(in, out, amount, amount)
     /\ holdings' = kept

jupSwapExactIn(in, out, amount, got) == jupSwap(in, out, amount, got, holdings)

(* The input's balance is looked up in the cache, which is filled if it is *)
(* empty, before anything is sent.                                         *)
getInputBalance == IF holdings = None THEN wallet ELSE holdings

swapForToken(in, out, want, got) ==
  \/ got = 0 /\ Fault("noRoute") /\ UNCHANGED <<wallet, holdings>>
  \/ /\ getInputBalance[in] < want
     /\ got = 0 /\ NoFault /\ holdings' = getInputBalance /\ UNCHANGED wallet
  \/ getInputBalance[in] >= want /\ jupSwap(in, out, want, got, getInputBalance)
  \/ holdings = None /\ Fault("readError") /\ got = 0 /\ wallet[in] < want /\ UNCHANGED <<wallet, holdings>>

(* The pool of the position itself; the cache is left alone.               *)
swapViaByrealPool(in, out, want, got) ==
  \/ /\ wallet[in] >= want /\ got = want /\ NoFault
     /\ wallet' = Moved(in, out, want, got)
     /\ UNCHANGED holdings
  \/ got = 0 /\ wallet[in] < want /\ NoFault /\ UNCHANGED <<wallet, holdings>>
  \/ got = 0 /\ Fault("noRoute") /\ UNCHANGED <<wallet, holdings>>

(* HOLDINGS_CACHE_MS have passed.                                          *)
holdingsExpire ==
  /\ holdings # None /\ holdings' = None
  /\ UNCHANGED <<wallet, faults>>

=============================================================================
