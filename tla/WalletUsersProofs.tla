-------------------------- MODULE WalletUsersProofs --------------------------
(***************************************************************************)
(* Proofs about the users of the wallet: the daily purchase succeeds at    *)
(* most once a day and stays armed, and the pre-swaps of a copied open or  *)
(* increase never buy too much.                                            *)
(***************************************************************************)
EXTENDS WalletUsers, TLAPS

-----------------------------------------------------------------------------
(* The types of the state.  Every balance is a natural number: this is     *)
(* what the amounts of the other invariants rest on.                       *)

Balances == [Mints -> Nat]
Method == [in : Mints, pool : BOOLEAN]
Purchase == [mint : Mints, amount : Nat]
Fund ==
  [pc : {"idle", "balances", "estimate", "buy", "bought", "deposit", "retry", "swapBack", "done", "null", "failed"},
   seen : [Side -> Nat], side : Side, methods : Seq(Method), got : Nat, bought : Seq(Purchase), tries : {0, 1}]
FundState == {f \in Fund : f.pc = "swapBack" => f.bought # <<>>}

WalletTypes ==
  scenario \in Scenarios /\ wallet \in Balances /\ holdings \in Balances \cup {None} /\ faults \in Nat
FundTypes == fund \in FundState
PendingTypes ==
  /\ pending \in Nat \cup {None}
  /\ sync \in [entry : Nat, asked : BOOLEAN, balance : Nat \cup {None}] \cup {None}
  /\ sale \in [kind : {"close", "sell"}, amount : Nat] \cup {None}
DacTypes ==
  /\ clock \in Nat /\ settings \in [enabled : BOOLEAN, hour : Hours]
  /\ loads \in Nat /\ due \in Nat /\ run \in Run \cup {None}
  /\ history \in SUBSET Nat /\ table \in SUBSET Nat /\ unwritten \in Seq(Nat)
  /\ successes \in [DOMAIN successes -> Nat]

Types == WalletTypes /\ FundTypes /\ PendingTypes /\ DacTypes

-----------------------------------------------------------------------------
(* Swaps keep the wallet typed.                                            *)

(* What Moved() does to the wallet that it is applied to: the tokens that  *)
(* a swap of jupiter-swap.ts takes and gives, where the wallet can pay.    *)
LEMMA MovedFacts ==
  ASSUME wallet \in Balances, NEW in \in Mints, NEW out \in Mints, NEW amount \in Nat, NEW got \in Nat,
         wallet[in] >= amount
  PROVE  /\ Moved(in, out, amount, got) \in Balances
         /\ Moved(in, out, amount, got)[out] <= wallet[out] + got
         /\ \A m \in Mints \ {out} : Moved(in, out, amount, got)[m] <= wallet[m]
         /\ \A m \in Mints \ {in} : Moved(in, out, amount, got)[m] >= wallet[m]
         /\ in # out => /\ Moved(in, out, amount, got)[out] = wallet[out] + got
                        /\ Moved(in, out, amount, got)[in] = wallet[in] - amount
         /\ \A m \in Mints \ {in, out} : Moved(in, out, amount, got)[m] = wallet[m]
  BY DEF Moved, Balances

(* A fault is counted.                                                     *)
LEMMA FaultTypes ==
  ASSUME faults \in Nat, NoFault \/ \E kind \in FaultKinds : Fault(kind)
  PROVE  faults' \in Nat
  BY DEF NoFault, Fault

(* Reading balances (getTokenBalance) yields natural numbers.              *)
LEMMA ReadingTypes ==
  ASSUME wallet \in Balances, NEW mints \in SUBSET Mints, NEW r \in Readings(mints)
  PROVE  r \in [mints -> Nat]
  BY DEF Readings, Balances

LEMMA ReadsAsTypes ==
  ASSUME faults \in Nat, NEW mints, NEW r, ReadsAs(mints, r)
  PROVE  faults' \in Nat
  BY DEF ReadsAs, NoFault, Fault

(* A Jupiter swap, however it ends, keeps wallet and cache typed.          *)
LEMMA SwapTypes ==
  ASSUME WalletTypes, scenario' = scenario, NEW in \in Mints, NEW out \in Mints, NEW amount \in Nat, NEW got \in Nat,
         NEW kept \in Balances \cup {None}, jupSwap(in, out, amount, got, kept)
  PROVE  WalletTypes'
<1>1. faults' \in Nat
  BY DEF jupSwap, NoFault, Fault, WalletTypes
<1>2. wallet' \in Balances
  BY MovedFacts, Zenon DEF jupSwap, WalletTypes
<1>3. holdings' \in Balances \cup {None}
  BY Zenon DEF jupSwap
<1> QED BY <1>1, <1>2, <1>3, Zenon DEF WalletTypes

LEMMA SwapForTokenTypes ==
  ASSUME WalletTypes, scenario' = scenario, NEW in \in Mints, NEW out \in Mints, NEW want \in Nat, NEW got \in Nat,
         swapForToken(in, out, want, got)
  PROVE  WalletTypes'
<1>1. getInputBalance \in Balances
  BY Zenon DEF getInputBalance, WalletTypes
<1>2. CASE jupSwap(in, out, want, got, getInputBalance)
  BY <1>1, <1>2, SwapTypes, Zenon
<1>3. CASE ~jupSwap(in, out, want, got, getInputBalance)
  BY <1>1, <1>3 DEF swapForToken, NoFault, Fault, WalletTypes
<1> QED BY <1>2, <1>3, Zenon

LEMMA PoolSwapTypes ==
  ASSUME WalletTypes, scenario' = scenario, NEW in \in Mints, NEW out \in Mints, NEW want \in Nat, NEW got \in Nat,
         swapViaByrealPool(in, out, want, got)
  PROVE  WalletTypes'
<1>1. faults' \in Nat
  BY DEF swapViaByrealPool, NoFault, Fault, WalletTypes
<1>2. wallet' \in Balances
  BY MovedFacts, Zenon DEF swapViaByrealPool, WalletTypes
<1> QED BY <1>1, <1>2, Zenon DEF swapViaByrealPool, WalletTypes

-----------------------------------------------------------------------------
(* Every step keeps the types.                                             *)

(* What a scenario of a funded operation is made of.                       *)
LEMMA ScenarioFacts ==
  ASSUME scenario \in Scenarios
  PROVE  /\ \A s \in Side : mint(s) \in Mints /\ need(s) \in Nat
         /\ mint("A") # mint("B") /\ SideMints \in SUBSET Mints
         /\ Bought \in Mints /\ scenario.slippage \in {0, 1} /\ scenario.wallet \in Balances
  BY ScenarioAssumption, FundAssumption, DacAssumption DEF mint, need, SideMints, Bought, Side, Balances

(* The swaps to try are a sequence of methods, and the plan of a copied    *)
(* open or increase goes on with a typed state.                            *)
LEMMA MethodsTypes ==
  ASSUME scenario \in Scenarios, NEW f, NEW s \in Side
  PROVE  Methods(f, s) \in Seq(Method)
<1> DEFINE pay == <<[in |-> mint(Other(s)), pool |-> FALSE]>>
                  \o (IF rule.pool THEN <<[in |-> mint(Other(s)), pool |-> TRUE]>> ELSE <<>>)
           usdc == IF mint(s) = "USDC" THEN <<>> ELSE <<[in |-> "USDC", pool |-> FALSE]>>
           mayPay == IF s = "A" THEN f.seen["B"] > 0
                     ELSE IF rule.surplusOnly THEN f.seen["A"] > need("A") ELSE f.seen["A"] > 0
           paid == IF mayPay THEN pay ELSE <<>>
<1>1. [in |-> mint(Other(s)), pool |-> FALSE] \in Method /\ [in |-> mint(Other(s)), pool |-> TRUE] \in Method
  BY ScenarioFacts, Zenon DEF Method, Other, Side
<1>2. [in |-> "USDC", pool |-> FALSE] \in Method
  BY Zenon DEF Method, Mints
<1>3. usdc \in Seq(Method)
  BY <1>2
<1>4. pay \in Seq(Method)
  BY <1>1
<1>5. paid \in Seq(Method)
  BY <1>4
<1>6. paid \o usdc \in Seq(Method) /\ usdc \o paid \in Seq(Method)
  BY <1>3, <1>5
<1>7. Methods(f, s) \in {usdc, paid \o usdc, usdc \o paid}
  BY Zenon DEF Methods
<1> QED BY <1>3, <1>6, <1>7, Zenon

LEMMA PlanTypes ==
  ASSUME scenario \in Scenarios, NEW f \in FundState
  PROVE  /\ \A s \in Side : Deficit(f, s) \in Nat /\ Deficit(f, s) <= need(s)
         /\ \A s \in Side : Buying(f, s) \in FundState
         /\ Ready(f) \in FundState
         /\ AfterA(f) \in FundState /\ BuysSides(f) \in FundState
         /\ \A s \in Side : After(f, s) \in FundState
         /\ GivesUp(f) \in FundState /\ RetriesOnce(f) \in FundState
<1>1. \A s \in Side : Deficit(f, s) \in Nat /\ Deficit(f, s) <= need(s)
  BY ScenarioFacts DEF Deficit, FundState, Fund
<1>2. \A s \in Side : Buying(f, s) \in FundState
  <2>1. TAKE s \in Side
  <2>2. Methods(f, s) \in Seq(Method)
    BY MethodsTypes, Zenon
  <2> HIDE DEF Method, Purchase
  <2> QED BY <2>2, Zenon DEF Buying, FundState, Fund
<1>3. Ready(f) \in FundState
  BY Zenon DEF Ready, FundState, Fund
<1>4. AfterA(f) \in FundState
  BY <1>2, <1>3, Zenon DEF AfterA, Side
<1>5. BuysSides(f) \in FundState
  BY <1>2, <1>4, Zenon DEF BuysSides, Side
<1>6. GivesUp(f) \in FundState
  BY Zenon DEF GivesUp, FundState, Fund
<1>7. RetriesOnce(f) \in FundState
  BY <1>6, Zenon DEF RetriesOnce, FundState, Fund
<1> QED BY <1>1, <1>2, <1>3, <1>4, <1>5, <1>6, <1>7, Zenon DEF After

(* The state after countsBought, before the plan goes on.                  *)
Now(r, parsed) == IF parsed THEN fund.seen[fund.side] + fund.got ELSE r[mint(fund.side)]
Gained(r, parsed) == Now(r, parsed) - fund.seen[fund.side]
OtherNow(r) ==
  IF fund.side = "A" /\ rule.readsOther THEN r[mint("B")] ELSE fund.seen[Other(fund.side)]
SeenNow(r, parsed) == [x \in Side |-> IF x = fund.side THEN Now(r, parsed) ELSE OtherNow(r)]
BoughtNow(r, parsed) ==
  IF Gained(r, parsed) > 0
  THEN Append(fund.bought, [mint |-> mint(fund.side), amount |-> Gained(r, parsed)]) ELSE fund.bought
Counted(r, parsed) == [fund EXCEPT !.seen = SeenNow(r, parsed), !.bought = BoughtNow(r, parsed)]

LEMMA CountsAsCounted ==
  ASSUME FundTypes, countsBought
  PROVE  \E r \in Readings(SideMints), parsed \in BOOLEAN :
           /\ ReadsAs(SideMints, r) /\ (mint(fund.side) = "SOL" => ~parsed)
           /\ fund' = After(Counted(r, parsed), fund.side)
  BY Zenon DEF countsBought, Counted, SeenNow, BoughtNow, Gained, Now, OtherNow, FundTypes, FundState, Fund

LEMMA CountedFacts ==
  ASSUME WalletTypes, FundTypes, fund.pc = "bought", NEW r \in Readings(SideMints), NEW parsed \in BOOLEAN
  PROVE  /\ Counted(r, parsed) \in FundState
         /\ Now(r, parsed) \in Nat /\ OtherNow(r) \in Nat
         /\ Counted(r, parsed).seen = SeenNow(r, parsed)
         /\ SeenNow(r, parsed)[fund.side] = Now(r, parsed) /\ SeenNow(r, parsed)[Other(fund.side)] = OtherNow(r)
         /\ Counted(r, parsed).bought = BoughtNow(r, parsed)
<1>1. /\ fund.side \in Side /\ Other(fund.side) \in Side /\ Other(fund.side) # fund.side
      /\ fund.seen \in [Side -> Nat] /\ fund.got \in Nat /\ fund.bought \in Seq(Purchase)
  BY Zenon DEF FundTypes, FundState, Fund, Other, Side
<1>2. r \in [SideMints -> Nat] /\ mint(fund.side) \in SideMints /\ mint("B") \in SideMints
  BY <1>1, ReadingTypes, ScenarioFacts, Zenon DEF WalletTypes, SideMints, Side
<1>3. r[mint(fund.side)] \in Nat /\ r[mint("B")] \in Nat
  BY <1>2, Zenon
<1>4. fund.seen[fund.side] \in Nat /\ fund.seen[Other(fund.side)] \in Nat
  BY <1>1, Zenon
<1>5. fund.seen[fund.side] + fund.got \in Nat
  BY <1>1, <1>4
<1>6. Now(r, parsed) \in Nat /\ OtherNow(r) \in Nat
  BY <1>3, <1>4, <1>5, Zenon DEF Now, OtherNow
<1>7. SeenNow(r, parsed) \in [Side -> Nat]
  BY <1>6, Zenon DEF SeenNow
<1>8. BoughtNow(r, parsed) \in Seq(Purchase)
  <2>1. Gained(r, parsed) > 0 => [mint |-> mint(fund.side), amount |-> Gained(r, parsed)] \in Purchase
    BY <1>1, <1>4, <1>6, ScenarioFacts DEF WalletTypes, Gained, Purchase
  <2> QED BY <1>1, <2>1 DEF BoughtNow
<1>9. Counted(r, parsed) \in FundState /\ Counted(r, parsed).seen = SeenNow(r, parsed)
      /\ Counted(r, parsed).bought = BoughtNow(r, parsed)
  BY <1>7, <1>8, Zenon DEF Counted, FundTypes, FundState, Fund
<1>10. SeenNow(r, parsed)[fund.side] = Now(r, parsed) /\ SeenNow(r, parsed)[Other(fund.side)] = OtherNow(r)
  BY <1>1, Zenon DEF SeenNow
<1> QED BY <1>6, <1>9, <1>10, Zenon

LEMMA FundStepTypes ==
  ASSUME WalletTypes, FundTypes, scenario' = scenario, FundStep
  PROVE  WalletTypes' /\ FundTypes'
<1> USE DEF WalletTypes, FundTypes
<1>0. scenario \in Scenarios /\ SideMints \in SUBSET Mints /\ \A s \in Side : mint(s) \in SideMints
  BY ScenarioFacts, Zenon DEF SideMints
<1>r. ASSUME NEW r \in Readings(SideMints)
      PROVE  BothRead(fund, r) \in FundState
  <2>1. r \in [SideMints -> Nat]
    BY <1>0, <1>r, ReadingTypes, Zenon
  <2>2. [s \in Side |-> r[mint(s)]] \in [Side -> Nat]
    BY <1>0, <2>1, Zenon
  <2> QED BY <2>2, Zenon DEF BothRead, FundState, Fund
<1>1. CASE readsBalances
  <2>1. PICK r \in Readings(SideMints) :
          /\ ReadsAs(SideMints, r)
          /\ fund' = IF rule.estimates THEN [BothRead(fund, r) EXCEPT !.pc = "estimate"]
                     ELSE BuysSides(BothRead(fund, r))
    BY <1>1, Zenon DEF readsBalances
  <2>2. [BothRead(fund, r) EXCEPT !.pc = "estimate"] \in FundState
    BY <1>r, Zenon DEF FundState, Fund
  <2>3. fund' \in FundState
    BY <2>1, <2>2, <1>r, PlanTypes, Zenon
  <2> QED BY <1>1, <2>1, <2>3, ReadsAsTypes, Zenon DEF readsBalances
<1>2. CASE estimatesCost
  <2>1. fund' \in FundState
    <3>1. [fund EXCEPT !.pc = "null"] \in FundState
      BY Zenon DEF FundState, Fund
    <3>2. BuysSides(fund) \in FundState
      BY PlanTypes, Zenon
    <3> QED BY <1>2, <3>1, <3>2, Zenon DEF estimatesCost
  <2> QED BY <1>2, <2>1 DEF estimatesCost, NoFault, Fault
<1>3. CASE buys
  <2>1. PICK got \in 0..need(fund.side) :
          /\ swaps(Head(fund.methods), fund.side, got)
          /\ fund' = IF got = 0 THEN [fund EXCEPT !.methods = Tail(@)]
                     ELSE [fund EXCEPT !.pc = "bought", !.got = got]
    BY <1>3, Zenon DEF buys
  <2>2. fund.side \in Side /\ fund.methods \in Seq(Method) /\ fund.methods # <<>>
    BY <1>3, Zenon DEF buys, FundState, Fund
  <2>3. Head(fund.methods) \in Method /\ Tail(fund.methods) \in Seq(Method)
    BY <2>2
  <2>4. got \in Nat /\ Deficit(fund, fund.side) \in Nat /\ mint(fund.side) \in Mints
    <3>1. need(fund.side) \in Nat /\ mint(fund.side) \in Mints
      BY <2>2, ScenarioFacts, Zenon
    <3>2. Deficit(fund, fund.side) \in Nat
      BY <2>2, PlanTypes, Zenon
    <3> QED BY <3>1, <3>2
  <2>5. fund' \in FundState
    BY <2>1, <2>3, <2>4, Zenon DEF FundState, Fund
  <2>6. WalletTypes'
    BY <2>1, <2>3, <2>4, SwapForTokenTypes, PoolSwapTypes, Zenon DEF swaps, Method
  <2> QED BY <2>5, <2>6, Zenon
<1>4. CASE cannotBuy
  <2>1. [fund EXCEPT !.pc = "null"] \in FundState /\ fund.side \in Side
    BY Zenon DEF FundState, Fund
  <2> QED BY <1>4, <2>1, PlanTypes, Zenon DEF cannotBuy, walletVars
<1>5. CASE countsBought
  <2>1. PICK r \in Readings(SideMints), parsed \in BOOLEAN :
          ReadsAs(SideMints, r) /\ fund' = After(Counted(r, parsed), fund.side)
    BY <1>5, CountsAsCounted, Zenon
  <2>2. Counted(r, parsed) \in FundState /\ fund.side \in Side
    BY <1>5, CountedFacts, Zenon DEF countsBought, FundState, Fund
  <2>3. fund' \in FundState
    BY <2>1, <2>2, PlanTypes, Zenon
  <2> QED BY <1>5, <2>1, <2>3, ReadsAsTypes, Zenon DEF countsBought
<1>6. CASE deposits
  <2>1. \A s \in Side : Deposited(s) \in Nat /\ Deposited(s) <= wallet[mint(s)]
    <3>1. TAKE s \in Side
    <3>2. need(s) \in Nat /\ fund.seen[s] \in Nat
      BY ScenarioFacts, Zenon DEF FundState, Fund
    <3>3. Cap(s) \in Nat
      BY <3>2, Zenon DEF Cap, Least
    <3>4. Deposited(s) <= wallet[mint(s)] /\ wallet[mint(s)] \in Nat
      BY <1>6, ScenarioFacts, Zenon DEF deposits, Fits, Balances
    <3> QED BY <3>2, <3>3, <3>4, Zenon DEF Deposited, Least
  <2>2. wallet' \in Balances
    BY <1>6, <2>1, ScenarioFacts DEF deposits, Balances, Side
  <2>3. fund' \in FundState
    BY <1>6, Zenon DEF deposits, FundState, Fund
  <2> QED BY <1>6, <2>2, <2>3, Zenon DEF deposits, NoFault
<1>7. CASE depositFails
  BY <1>7, PlanTypes DEF depositFails, NoFault, Fault
<1>8. CASE rereadsBalances
  <2>1. PICK r \in Readings(SideMints) : ReadsAs(SideMints, r) /\ fund' = [BothRead(fund, r) EXCEPT !.pc = "deposit"]
    BY <1>8, Zenon DEF rereadsBalances
  <2>2. fund' \in FundState
    BY <2>1, <1>r, Zenon DEF FundState, Fund
  <2> QED BY <1>8, <2>1, <2>2, ReadsAsTypes, Zenon DEF rereadsBalances
<1>9. CASE swapsBack
  <2> DEFINE b == Head(fund.bought)
  <2>1. b \in Purchase /\ Tail(fund.bought) \in Seq(Purchase)
    BY <1>9 DEF swapsBack, FundState, Fund
  <2>2. fund' \in FundState
    BY <1>9, <2>1, Zenon DEF swapsBack, FundState, Fund
  <2>3. CASE b.mint \in {"USDC", "SOL"}
    BY <1>9, <2>2, <2>3, Zenon DEF swapsBack, walletVars
  <2>4. CASE b.mint \notin {"USDC", "SOL"}
    <3>1. PICK got \in 0..b.amount : jupSwap(b.mint, "USDC", b.amount, got, holdings)
      BY <1>9, <2>4, Zenon DEF swapsBack, jupSwapExactIn
    <3>2. b.mint \in Mints /\ "USDC" \in Mints /\ b.amount \in Nat /\ got \in Nat
      BY <2>1 DEF Purchase, Mints
    <3> QED BY <2>2, <3>1, <3>2, SwapTypes, Zenon
  <2> QED BY <2>3, <2>4, Zenon
<1> QED BY <1>1, <1>2, <1>3, <1>4, <1>5, <1>6, <1>7, <1>8, <1>9, Zenon DEF FundStep

LEMMA PendingStepTypes ==
  ASSUME WalletTypes, PendingTypes, scenario' = scenario,
         SaleStep \/ NewSale \/ SyncStep \/ clearAllPendingSwaps
  PROVE  WalletTypes' /\ PendingTypes'
<1>r. ASSUME NEW r \in Readings({"X"})
      PROVE  r["X"] \in Nat
  BY ReadingTypes DEF WalletTypes, Mints
<1>1. CASE closeLands
  <2>1. wallet' \in Balances
    <3>1. wallet["X"] + Received \in Nat
      BY DEF WalletTypes, Balances, Mints, Received
    <3> QED BY <1>1, <3>1, Zenon DEF closeLands, WalletTypes, Balances
  <2> QED BY <1>1, <2>1, Zenon DEF closeLands, WalletTypes, PendingTypes, Received
<1>2. CASE addPendingSwap
  BY <1>2 DEF addPendingSwap, AmountIn, walletVars, WalletTypes, PendingTypes
<1>3. CASE recordBotCloseReceived
  BY <1>3, Zenon DEF recordBotCloseReceived, AmountIn, walletVars, WalletTypes, PendingTypes
<1>4. ASSUME NEW cap \in {1, None}, swapTokenToUSDC(cap)
      PROVE  WalletTypes' /\ PendingTypes'
  <2> DEFINE amount(r) == IF cap # None /\ cap < r["X"] THEN cap ELSE r["X"]
  <2>1. PICK r \in Readings({"X"}) :
          /\ ReadsAs({"X"}, r)
          /\ sale' = IF amount(r) <= Dust THEN None ELSE [kind |-> "sell", amount |-> amount(r)]
    BY <1>4, Zenon DEF swapTokenToUSDC
  <2>2. amount(r) \in Nat
    BY <1>r, <1>4
  <2>3. faults' \in Nat
    BY <2>1, ReadsAsTypes, Zenon DEF WalletTypes
  <2> QED BY <1>4, <2>1, <2>2, <2>3, Zenon DEF swapTokenToUSDC, WalletTypes, PendingTypes
<1>5. CASE sells
  <2>1. PICK got \in 0..sale.amount : jupSwap("X", "USDC", sale.amount, got, holdings)
    BY <1>5, Zenon DEF sells, jupSwapExactIn
  <2>2. sale.amount \in Nat /\ got \in Nat /\ "X" \in Mints /\ "USDC" \in Mints
    BY <1>5 DEF sells, PendingTypes, Mints
  <2>3. WalletTypes'
    BY <2>1, <2>2, SwapTypes, Zenon DEF WalletTypes
  <2> QED BY <1>5, <2>3, Zenon DEF sells, PendingTypes
<1>6. CASE clearAllPendingSwaps
  BY <1>6, Zenon DEF clearAllPendingSwaps, walletVars, WalletTypes, PendingTypes
<1>7. CASE logPendingStatus
  BY <1>7, Zenon DEF logPendingStatus, walletVars, WalletTypes, PendingTypes
<1>8. CASE entryReached
  BY <1>8, Zenon DEF entryReached, walletVars, WalletTypes, PendingTypes
<1>9. CASE balanceAnswered
  <2>1. PICK r \in Readings({"X"}) : ReadsAs({"X"}, r) /\ sync' = [sync EXCEPT !.balance = r["X"]]
    BY <1>9, Zenon DEF balanceAnswered
  <2>2. faults' \in Nat
    BY <2>1, ReadsAsTypes, Zenon DEF WalletTypes
  <2> QED BY <1>9, <1>r, <2>1, <2>2, Zenon DEF balanceAnswered, WalletTypes, PendingTypes
<1>10. CASE syncsPending
  BY <1>10, Zenon DEF syncsPending, walletVars, WalletTypes, PendingTypes
<1> QED BY <1>1, <1>2, <1>3, <1>4, <1>5, <1>6, <1>7, <1>8, <1>9, <1>10, Zenon DEF SaleStep, NewSale, SyncStep

(* A run ends (its record kept and queued) or goes on; both keep the types *)
(* of the daily purchase.                                                  *)
LEMMA FinishesTypes ==
  ASSUME DacTypes, run # None, NEW success \in BOOLEAN, finishes(success),
         UNCHANGED <<clock, settings, loads, table>>
  PROVE  DacTypes'
<1>1. run \in Run
  BY Zenon DEF DacTypes
<1>2. run.day \in Nat
  BY <1>1, Zenon DEF Run
<1>3. unwritten' \in Seq(Nat)
  BY <1>2 DEF finishes, DacTypes
<1>4. successes' \in [DOMAIN successes' -> Nat]
  <2>1. CASE success /\ run.scheduled /\ run.day \in DOMAIN successes
    <3>1. successes[run.day] + 1 \in Nat
      BY <2>1 DEF DacTypes
    <3>2. successes' = [successes EXCEPT ![run.day] = successes[run.day] + 1]
      BY <2>1, Zenon DEF finishes
    <3> QED BY <3>1, <3>2, Zenon DEF DacTypes
  <2>2. CASE ~(success /\ run.scheduled /\ run.day \in DOMAIN successes)
    <3>1. successes' = successes
      BY <2>2, Zenon DEF finishes, DacTypes
    <3> QED BY <3>1, Zenon DEF DacTypes
  <2> QED BY <2>1, <2>2, Zenon
<1>5. due' \in Nat /\ run' = None /\ history' \in SUBSET Nat
  BY <1>2 DEF finishes, DacTypes
<1> QED BY <1>3, <1>4, <1>5, Zenon DEF DacTypes

LEMMA GoesOnTypes ==
  ASSUME DacTypes, NEW r \in Run, goesOn(r), UNCHANGED <<clock, settings, loads, table>>
  PROVE  DacTypes'
  BY Zenon DEF goesOn, DacTypes

LEMMA RunStepTypes ==
  ASSUME WalletTypes, DacTypes, scenario' = scenario, RunStep
  PROVE  WalletTypes' /\ DacTypes'
<1>0. UNCHANGED <<clock, settings, loads, table>> /\ Bought \in Mints /\ "USDC" \in Mints
  BY ScenarioFacts, Zenon DEF RunStep, WalletTypes, Mints
<1>1. CASE calculatesProfit
  <2>1. run \in Run /\ [run EXCEPT !.pc = "before"] \in Run
    BY <1>1, Zenon DEF calculatesProfit, At, DacTypes, Run
  <2> QED BY <1>0, <1>1, <2>1, FinishesTypes, GoesOnTypes, Zenon DEF calculatesProfit, At, walletVars, WalletTypes
<1>2. CASE readsBefore
  <2>1. PICK r \in Readings({Bought}) :
          ReadsAs({Bought}, r) /\ goesOn([run EXCEPT !.pc = "swap", !.pre = r[Bought]])
    BY <1>2, Zenon DEF readsBefore
  <2>2. r[Bought] \in Nat
    BY <1>0, ReadingTypes DEF WalletTypes
  <2>3. [run EXCEPT !.pc = "swap", !.pre = r[Bought]] \in Run
    BY <1>2, <2>2, Zenon DEF readsBefore, At, DacTypes, Run
  <2>4. faults' \in Nat
    BY <2>1, ReadsAsTypes, Zenon DEF WalletTypes
  <2>5. DacTypes'
    BY <1>0, <2>1, <2>3, GoesOnTypes, Zenon
  <2> QED BY <1>2, <2>4, <2>5, Zenon DEF readsBefore, WalletTypes
<1>3. CASE dacSwaps
  <2>1. PICK got \in 0..Amount :
          /\ jupSwap("USDC", Bought, Amount, got, holdings)
          /\ IF got = 0 THEN finishes(FALSE) ELSE goesOn([run EXCEPT !.pc = "after", !.got = got])
    BY <1>3, Zenon DEF dacSwaps, jupSwapExactIn
  <2>2. got \in Nat /\ Amount \in Nat
    BY DEF Amount
  <2>3. WalletTypes'
    BY <1>0, <2>1, <2>2, SwapTypes, Zenon DEF WalletTypes
  <2>4. [run EXCEPT !.pc = "after", !.got = got] \in Run /\ run # None
    BY <1>3, <2>2, Zenon DEF dacSwaps, At, DacTypes, Run
  <2>5. DacTypes'
    BY <1>0, <2>1, <2>4, FinishesTypes, GoesOnTypes, Zenon
  <2> QED BY <2>3, <2>5, Zenon
<1>4. CASE readsAfter
  <2> DEFINE delta == wallet[Bought] - run.pre
  <2>1. run \in Run /\ run # None /\ wallet[Bought] \in Nat
    BY <1>0, <1>4, Zenon DEF readsAfter, At, DacTypes, WalletTypes, Balances
  <2>2. ASSUME delta > 0
        PROVE  [run EXCEPT !.pc = "transfer", !.delta = delta] \in Run
    <3>1. delta \in Nat
      BY <2>1, <2>2 DEF Run
    <3> HIDE DEF delta
    <3> QED BY <2>1, <3>1, Zenon DEF Run
  <2>3. DacTypes'
    BY <1>0, <1>4, <2>1, <2>2, FinishesTypes, GoesOnTypes, Zenon DEF readsAfter
  <2>4. faults' \in Nat
    <3>1. NoFault \/ Fault("readError")
      BY <1>4, Zenon DEF readsAfter
    <3> QED BY <3>1, FaultTypes, Zenon DEF WalletTypes, FaultKinds
  <2> QED BY <1>4, <2>3, <2>4, Zenon DEF readsAfter, WalletTypes
<1>5. CASE dacTransfers
  <2>1. run \in Run /\ run # None /\ wallet[Bought] \in Nat /\ run.delta \in Nat
    BY <1>0, <1>5, Zenon DEF dacTransfers, At, DacTypes, WalletTypes, Balances, Run
  <2>2. DacTypes'
    BY <1>0, <1>5, <2>1, FinishesTypes, Zenon DEF dacTransfers
  <2>3. faults' \in Nat
    <3>1. NoFault \/ Fault("lostAck") \/ Fault("txFails")
      BY <1>5, Zenon DEF dacTransfers
    <3> QED BY <3>1, FaultTypes, Zenon DEF WalletTypes, FaultKinds
  <2>4. wallet' \in Balances
    <3>1. CASE UNCHANGED wallet
      BY <3>1, Zenon DEF WalletTypes
    <3>2. CASE wallet[Bought] >= run.delta /\ wallet' = [wallet EXCEPT ![Bought] = @ - run.delta]
      <4>1. wallet[Bought] - run.delta \in Nat
        BY <2>1, <3>2
      <4> QED BY <3>2, <4>1, Zenon DEF WalletTypes, Balances
    <3> QED BY <1>5, <3>1, <3>2, Zenon DEF dacTransfers
  <2> QED BY <1>5, <2>2, <2>3, <2>4, Zenon DEF dacTransfers, WalletTypes
<1> QED BY <1>1, <1>2, <1>3, <1>4, <1>5, Zenon DEF RunStep

LEMMA DacStepTypes ==
  ASSUME WalletTypes, DacTypes, scenario' = scenario, DacStep
  PROVE  WalletTypes' /\ DacTypes'
<1>1. \A scheduled \in BOOLEAN : NewRun(scheduled) \in Run
  BY DEF NewRun, Run, Day, SlotsPerDay, DacTypes
<1>2. CASE timerFires
  BY <1>1, <1>2, Zenon DEF timerFires, walletVars, WalletTypes, DacTypes
<1>3. CASE armsAgain
  BY <1>3 DEF armsAgain, walletVars, WalletTypes, DacTypes
<1>4. CASE triggerByHand
  BY <1>1, <1>4, Zenon DEF triggerByHand, walletVars, WalletTypes, DacTypes
<1>5. CASE savesSettings
  BY <1>5 DEF savesSettings, walletVars, WalletTypes, DacTypes
<1>6. CASE loadDacHistory
  BY <1>6 DEF loadDacHistory, NoFault, Fault, WalletTypes, DacTypes
<1>7. CASE writesHistory
  <2>1. Head(unwritten) \in Nat /\ Tail(unwritten) \in Seq(Nat)
    BY <1>7 DEF writesHistory, DacTypes
  <2> QED BY <1>7, <2>1, Zenon DEF writesHistory, walletVars, WalletTypes, DacTypes
<1>8. CASE dacRestarts
  BY <1>8 DEF dacRestarts, Fault, WalletTypes, DacTypes
<1>9. CASE clockTicks
  BY <1>9 DEF clockTicks, walletVars, WalletTypes, DacTypes
<1> QED BY <1>2, <1>3, <1>4, <1>5, <1>6, <1>7, <1>8, <1>9, RunStepTypes, Zenon DEF DacStep

LEMMA NextKeepsTypes ==
  ASSUME Types, [Next]_vars
  PROVE  Types'
<1> USE DEF Types
<1>1. CASE Funds
  BY <1>1, FundStepTypes, Zenon DEF Funds, pendingVars, dacVars, PendingTypes, DacTypes
<1>2. CASE Sells \/ Syncs \/ Clears
  <2>1. WalletTypes' /\ PendingTypes'
    BY <1>2, PendingStepTypes, Zenon DEF Sells, Syncs, Clears
  <2> QED BY <1>2, <2>1, Zenon DEF Sells, Syncs, Clears, dacVars, FundTypes, DacTypes
<1>3. CASE Converts
  BY <1>3, DacStepTypes, Zenon DEF Converts, pendingVars, FundTypes, PendingTypes
<1>4. CASE Expires
  BY <1>4, Zenon DEF Expires, holdingsExpire, pendingVars, dacVars, WalletTypes, FundTypes, PendingTypes, DacTypes
<1>5. CASE UNCHANGED vars
  BY <1>5, Zenon DEF vars, walletVars, pendingVars, dacVars, WalletTypes, FundTypes, PendingTypes, DacTypes
<1> QED BY <1>1, <1>2, <1>3, <1>4, <1>5, Zenon DEF Next

LEMMA InitTypes == Init => Types
<1> SUFFICES ASSUME Init PROVE Types
  OBVIOUS
<1>1. WalletTypes
  BY ScenarioFacts, Zenon DEF Init, WalletInit, WalletTypes
<1>2. FundTypes
  <2>1. <<>> \in Seq(Method) /\ <<>> \in Seq(Purchase)
    OBVIOUS
  <2> QED BY <2>1, Zenon DEF Init, FundInit, FundTypes, FundState, Fund, Side
<1>3. PendingTypes
  BY Zenon DEF Init, PendingInit, PendingTypes
<1>4. DacTypes
  BY DEF Init, DacInit, DacTypes, Hours, SlotsPerDay
<1> QED BY <1>1, <1>2, <1>3, <1>4, Zenon DEF Types

-----------------------------------------------------------------------------
(* The scheduler of the daily purchase stays armed.                        *)

(* What arms the next run: the disjunction of SchedulerStaysArmed.         *)
Armed == timers # {} \/ due > 0 \/ loads > 0 \/ (run # None /\ run.scheduled)

(* scheduleNextDac() arms a timer while the conversion is enabled.         *)
LEMMA SchedulingArms ==
  ASSUME NEW armed, scheduleNextDac(armed), settings.enabled
  PROVE  timers' # {}
<1>1. timers' = ArmsOver(armed)
  BY Zenon DEF scheduleNextDac
<1>2. [at |-> msUntilNextDac, own |-> TRUE] \in ArmsOver(armed)
  BY Zenon DEF ArmsOver
<1> QED BY <1>1, <1>2, Zenon

(* A scheduled run that goes on stays scheduled; one that ends leaves its  *)
(* callback to arm the next timer.                                         *)
LEMMA RunStepStaysArmed ==
  ASSUME Types, RunStep, Armed
  PROVE  Armed'
<1>0. /\ run \in Run /\ run # None /\ due \in Nat
      /\ UNCHANGED <<timers, loads>>
  BY Zenon DEF RunStep, calculatesProfit, readsBefore, dacSwaps, readsAfter, dacTransfers, At, Types, DacTypes
<1>1. ASSUME NEW success \in BOOLEAN, finishes(success)
      PROVE  Armed'
  BY <1>0, <1>1 DEF finishes, Armed
<1>2. ASSUME NEW r \in Run, goesOn(r), r.scheduled = run.scheduled
      PROVE  Armed'
  BY <1>0, <1>2, DacAssumption, Zenon DEF goesOn, Armed
<1>3. CASE calculatesProfit
  <2>1. [run EXCEPT !.pc = "before"] \in Run /\ [run EXCEPT !.pc = "before"].scheduled = run.scheduled
    BY <1>0, Zenon DEF Run
  <2> QED BY <1>1, <1>2, <1>3, <2>1, Zenon DEF calculatesProfit
<1>4. CASE readsBefore
  <2>1. PICK r \in Readings({Bought}) : goesOn([run EXCEPT !.pc = "swap", !.pre = r[Bought]])
    BY <1>4, Zenon DEF readsBefore
  <2>2. r[Bought] \in Nat
    BY ReadingTypes, ScenarioFacts DEF Types, WalletTypes
  <2> DEFINE next == [run EXCEPT !.pc = "swap", !.pre = r[Bought]]
  <2>3. next \in Run /\ next.scheduled = run.scheduled
    BY <1>0, <2>2, Zenon DEF Run
  <2> QED BY <1>2, <2>1, <2>3, Zenon
<1>5. CASE dacSwaps
  <2>1. PICK got \in 0..Amount :
          IF got = 0 THEN finishes(FALSE) ELSE goesOn([run EXCEPT !.pc = "after", !.got = got])
    BY <1>5, Zenon DEF dacSwaps
  <2> DEFINE next == [run EXCEPT !.pc = "after", !.got = got]
  <2>2. next \in Run /\ next.scheduled = run.scheduled
    <3>1. got \in Nat
      BY DEF Amount
    <3> QED BY <1>0, <3>1, Zenon DEF Run
  <2> QED BY <1>1, <1>2, <2>1, <2>2, Zenon
<1>6. CASE readsAfter
  <2> DEFINE delta == wallet[Bought] - run.pre
             next == [run EXCEPT !.pc = "transfer", !.delta = delta]
  <2>1. CASE \E success \in BOOLEAN : finishes(success)
    BY <1>1, <2>1, Zenon
  <2>2. CASE delta > 0 /\ goesOn(next)
    <3>1. wallet[Bought] \in Nat /\ run.pre \in Nat
      BY <1>0, ScenarioFacts, Zenon DEF Types, WalletTypes, Balances, Run
    <3>2. delta \in Nat
      BY <2>2, <3>1
    <3> HIDE DEF delta
    <3>3. next \in Run /\ next.scheduled = run.scheduled
      BY <1>0, <3>2, Zenon DEF Run
    <3> QED BY <1>2, <2>2, <3>3, Zenon
  <2> QED BY <1>6, <2>1, <2>2, Zenon DEF readsAfter
<1>7. CASE dacTransfers
  BY <1>1, <1>7, Zenon DEF dacTransfers
<1> QED BY <1>3, <1>4, <1>5, <1>6, <1>7, Zenon DEF RunStep

LEMMA NextKeepsArmed ==
  ASSUME Types, SchedulerStaysArmed, [Next]_vars
  PROVE  SchedulerStaysArmed'
<1> SUFFICES ASSUME scenario' = scenario, DacUsed, "dbDown" \notin scenario.kinds, settings'.enabled
             PROVE  Armed'
  BY Zenon DEF SchedulerStaysArmed, Armed, DacUsed, Next, vars, Funds, Sells, Syncs, Clears, Converts, Expires
<1>1. settings' = settings => Armed
  BY Zenon DEF SchedulerStaysArmed, Armed
<1>t. loads \in Nat /\ due \in Nat
  BY Zenon DEF Types, DacTypes
<1>2. CASE UNCHANGED dacVars
  BY <1>1, <1>2, Zenon DEF dacVars, Armed
<1>3. CASE timerFires
  <2>1. CASE run' = NewRun(TRUE)
    <3>1. NewRun(TRUE) \in Run /\ NewRun(TRUE).scheduled
      BY DEF NewRun, Run, Day, SlotsPerDay, Types, DacTypes
    <3> QED BY <2>1, <3>1, DacAssumption, Zenon DEF Armed
  <2>2. CASE \E armed \in SUBSET timers : scheduleNextDac(armed)
    BY <1>3, <2>2, SchedulingArms, Zenon DEF timerFires, Armed
  <2> QED BY <1>3, <2>1, <2>2, Zenon DEF timerFires
<1>4. CASE armsAgain
  BY <1>4, SchedulingArms, Zenon DEF armsAgain, Armed
<1>5. CASE triggerByHand
  BY <1>1, <1>5, Zenon DEF triggerByHand, mayRun, Armed
<1>6. CASE RunStep
  BY <1>1, <1>6, RunStepStaysArmed, Zenon DEF RunStep
<1>7. CASE savesSettings
  BY <1>7, <1>t DEF savesSettings, Armed
<1>8. CASE loadDacHistory
  BY <1>8, SchedulingArms, Zenon DEF loadDacHistory, Fault, Armed
<1>9. CASE writesHistory
  BY <1>1, <1>9, Zenon DEF writesHistory, Armed
<1>10. CASE dacRestarts
  BY <1>10 DEF dacRestarts, Armed
<1>11. CASE clockTicks
  BY <1>1, <1>11, Zenon DEF clockTicks, Armed
<1> QED BY <1>2, <1>3, <1>4, <1>5, <1>6, <1>7, <1>8, <1>9, <1>10, <1>11, Zenon
        DEF Next, vars, Funds, Sells, Syncs, Clears, Converts, Expires, DacStep

(* While the daily conversion is enabled something will start it again,    *)
(* unless the history could not be loaded: whatever startDacScheduler(),   *)
(* triggerDac() and the callbacks of executor/dac.ts do with settings,     *)
(* timers, runs by hand and restarts.                                      *)
THEOREM SchedulerAlwaysArmed == Spec => []SchedulerStaysArmed
<1>1. Init => Types /\ SchedulerStaysArmed
  BY InitTypes DEF Init, DacInit, SchedulerStaysArmed
<1>2. Types /\ SchedulerStaysArmed /\ [Next]_vars => Types' /\ SchedulerStaysArmed'
  BY NextKeepsTypes, NextKeepsArmed, Zenon
<1> QED BY <1>1, <1>2, PTL DEF Spec

-----------------------------------------------------------------------------
(* The daily purchase succeeds once a day.                                 *)

(* A success is remembered in memory; what memory holds is in the table or *)
(* queued for it, so that a reload that finds nothing queued forgets no    *)
(* day; and a scheduled run is of a day without a success.                 *)
Remembered ==
  scenario.kinds \cap {"lagging", "crash"} = {} =>
    /\ \A d \in DOMAIN successes : successes[d] = 0 \/ (successes[d] = 1 /\ d \in history)
    /\ \A d \in history : d \in table \/ \E i \in 1..Len(unwritten) : unwritten[i] = d
    /\ run # None /\ run.scheduled /\ run.day \in DOMAIN successes => successes[run.day] = 0

LEMMA NextKeepsRemembered ==
  ASSUME Types, Remembered, [Next]_vars
  PROVE  Remembered'
<1> SUFFICES ASSUME scenario' = scenario, scenario.kinds \cap {"lagging", "crash"} = {}
             PROVE  Remembered'
  BY Zenon DEF Remembered, Next, vars, Funds, Sells, Syncs, Clears, Converts, Expires
<1> DEFINE Days == /\ \A d \in DOMAIN successes : successes[d] = 0 \/ (successes[d] = 1 /\ d \in history)
           Kept == /\ \A d \in history : d \in table \/ \E i \in 1..Len(unwritten) : unwritten[i] = d
           Fresh == run # None /\ run.scheduled /\ run.day \in DOMAIN successes => successes[run.day] = 0
<1>0. Days /\ Kept /\ Fresh
  BY Zenon DEF Remembered
<1>t. run \in Run \cup {None} /\ unwritten \in Seq(Nat) /\ successes \in [DOMAIN successes -> Nat]
  BY Zenon DEF Types, DacTypes
<1> SUFFICES Days' /\ Kept' /\ Fresh'
  BY Zenon DEF Remembered
<1>f. ASSUME NEW success \in BOOLEAN, finishes(success), run # None, table' = table
      PROVE  Days' /\ Kept' /\ Fresh'
  <2>1. run \in Run /\ run.day \in Nat
    BY <1>t, <1>f, Zenon DEF Run
  <2>2. Days'
    BY <1>0, <1>t, <1>f DEF finishes
  <2>3. Kept'
    <3>1. CASE success
      <4>1. history' = history \cup {run.day} /\ unwritten' = Append(unwritten, run.day)
        BY <1>f, <3>1, Zenon DEF finishes
      <4>2. Len(unwritten') = Len(unwritten) + 1 /\ unwritten'[Len(unwritten) + 1] = run.day
        BY <1>t, <2>1, <4>1
      <4>3. \A i \in 1..Len(unwritten) : unwritten'[i] = unwritten[i] /\ i \in 1..Len(unwritten')
        BY <1>t, <2>1, <4>1
      <4>4. Len(unwritten) + 1 \in 1..Len(unwritten')
        BY <1>t, <4>2
      <4>5. \A d \in history' : d \in history \/ d = run.day
        BY <4>1, Zenon
      <4>6. \A d \in history : d \in table' \/ \E i \in 1..Len(unwritten') : unwritten'[i] = d
        BY <1>0, <1>f, <4>3, Zenon
      <4> QED BY <4>2, <4>4, <4>5, <4>6, Zenon
    <3>2. CASE ~success
      BY <1>0, <1>f, <3>2, Zenon DEF finishes
    <3> QED BY <3>1, <3>2, Zenon
  <2> QED BY <1>f, <2>2, <2>3, Zenon DEF finishes
<1>g. ASSUME NEW r, goesOn(r), r.scheduled = run.scheduled, r.day = run.day, run # None, table' = table
      PROVE  Days' /\ Kept' /\ Fresh'
  BY <1>0, <1>g, Zenon DEF goesOn
<1>1. CASE UNCHANGED dacVars
  BY <1>0, <1>1, Zenon DEF dacVars
<1>2. CASE timerFires
  <2>1. CASE mayRun(TRUE) /\ run' = NewRun(TRUE)
    <3>1. run'.day \notin history
      BY <2>1, Zenon DEF mayRun, NewRun
    <3>2. UNCHANGED <<history, unwritten, table, successes>>
      BY <1>2, Zenon DEF timerFires
    <3>3. run'.day \in DOMAIN successes => successes[run'.day] = 0
      BY <1>0, <3>1, Zenon
    <3> QED BY <1>0, <3>2, <3>3, Zenon
  <2>2. CASE UNCHANGED run
    BY <1>0, <1>2, <2>2, Zenon DEF timerFires
  <2> QED BY <1>2, <2>1, <2>2, Zenon DEF timerFires
<1>3. CASE triggerByHand
  <2>1. ~run'.scheduled
    BY <1>3, Zenon DEF triggerByHand, NewRun
  <2> QED BY <1>0, <1>3, <2>1, Zenon DEF triggerByHand
<1>4. CASE RunStep
  <2>0. run \in Run /\ run # None /\ table' = table
    BY <1>4, <1>t, Zenon DEF RunStep, calculatesProfit, readsBefore, dacSwaps, readsAfter, dacTransfers, At
  <2>1. \A success \in BOOLEAN : finishes(success) => Days' /\ Kept' /\ Fresh'
    BY <1>f, <2>0, Zenon
  <2>2. \A r \in {[run EXCEPT !.pc = "before"]}
               \cup {[run EXCEPT !.pc = "swap", !.pre = n] : n \in {x[Bought] : x \in Readings({Bought})}}
               \cup {[run EXCEPT !.pc = "after", !.got = n] : n \in 0..Amount}
               \cup {[run EXCEPT !.pc = "transfer", !.delta = wallet[Bought] - run.pre]} :
          r.scheduled = run.scheduled /\ r.day = run.day
    BY <2>0, Zenon DEF Run
  <2> HIDE DEF Days, Kept, Fresh
  <2>3. CASE calculatesProfit
    BY <1>g, <2>0, <2>1, <2>2, <2>3, Zenon DEF calculatesProfit
  <2>4. CASE readsBefore
    BY <1>g, <2>0, <2>1, <2>2, <2>4, Zenon DEF readsBefore
  <2>5. CASE dacSwaps
    BY <1>g, <2>0, <2>1, <2>2, <2>5, Zenon DEF dacSwaps
  <2>6. CASE readsAfter
    BY <1>g, <2>0, <2>1, <2>2, <2>6, Zenon DEF readsAfter
  <2>7. CASE dacTransfers
    BY <2>1, <2>7, Zenon DEF dacTransfers
  <2> QED BY <1>4, <2>3, <2>4, <2>5, <2>6, <2>7, Zenon DEF RunStep
<1>5. CASE armsAgain \/ savesSettings \/ clockTicks
  BY <1>0, <1>5, Zenon DEF armsAgain, savesSettings, clockTicks
<1>6. CASE loadDacHistory
  <2>1. CASE unwritten = <<>> /\ history' = table
    BY <1>0, <1>6, <2>1 DEF loadDacHistory
  <2>2. CASE history' = history
    BY <1>0, <1>6, <2>2, Zenon DEF loadDacHistory
  <2> QED BY <1>6, <2>1, <2>2, Zenon DEF loadDacHistory, Fault
<1>7. CASE writesHistory
  <2>1. unwritten # <<>> /\ table' = table \cup {Head(unwritten)} /\ unwritten' = Tail(unwritten) /\ history' = history
    BY <1>7, Zenon DEF writesHistory
  <2>2. ASSUME NEW i \in 1..Len(unwritten), unwritten[i] \notin table'
        PROVE  \E j \in 1..Len(unwritten') : unwritten'[j] = unwritten[i]
    <3>1. i # 1
      BY <2>1, <2>2
    <3>2. i - 1 \in 1..Len(unwritten') /\ unwritten'[i - 1] = unwritten[i]
      BY <1>t, <2>1, <2>2, <3>1
    <3> QED BY <3>2, Zenon
  <2>3. Kept'
    BY <1>0, <2>1, <2>2
  <2> QED BY <1>0, <1>7, <2>3, Zenon DEF writesHistory
<1>8. CASE dacRestarts
  BY <1>8, Zenon DEF dacRestarts, Fault
<1> QED BY <1>1, <1>2, <1>3, <1>4, <1>5, <1>6, <1>7, <1>8, Zenon
        DEF Next, vars, Funds, Sells, Syncs, Clears, Converts, Expires, DacStep

(* The same-day guard of triggerDac() holds: the scheduler buys with       *)
(* success at most once a day, whatever the user does with the hour or     *)
(* triggers by hand, unless the bot crashes or reloads its history before  *)
(* the record of a run is written.                                         *)
THEOREM OneSuccessEveryDay == Spec => []OneSuccessADay
<1>1. Init => Types /\ Remembered
  BY InitTypes, Zenon DEF Init, DacInit, Remembered
<1>2. Types /\ Remembered /\ [Next]_vars => Types' /\ Remembered'
  BY NextKeepsTypes, NextKeepsRemembered, Zenon
<1>3. Types /\ Remembered => OneSuccessADay
  BY DEF Remembered, OneSuccessADay
<1> QED BY <1>1, <1>2, <1>3, PTL DEF Spec

-----------------------------------------------------------------------------
(* The pre-swaps never buy too much.                                       *)

(* When only a copied open or increase uses the wallet, nothing else runs: *)
(* then only the steps of that operation change the balances.              *)
NothingElse ==
  Alone("fund") => sale = None /\ run = None /\ timers = {} /\ loads = 0 /\ due = 0

LEMMA NextKeepsNothingElse ==
  ASSUME NothingElse, [Next]_vars
  PROVE  /\ NothingElse' /\ scenario' = scenario
         /\ Alone("fund") => \/ FundStep
                             \/ wallet' = wallet /\ fund' = fund /\ holdings' \in {holdings, None}
<1>0. scenario' = scenario
  BY Zenon DEF Next, vars, Funds, Sells, Syncs, Clears, Converts, Expires
<1> SUFFICES ASSUME Alone("fund")
             PROVE  /\ NothingElse'
                    /\ FundStep \/ (wallet' = wallet /\ fund' = fund /\ holdings' \in {holdings, None})
  BY <1>0, Zenon DEF NothingElse, Alone
<1>1. sale = None /\ run = None /\ timers = {} /\ loads = 0 /\ due = 0
  BY Zenon DEF NothingElse
<1>2. "pending" \notin scenario.users /\ ~DacUsed
  BY Zenon DEF Alone, DacUsed
<1>3. CASE Funds
  BY <1>1, <1>3, Zenon DEF Funds, NothingElse, pendingVars, dacVars
<1>4. CASE Sells
  BY <1>1, <1>2, <1>4, Zenon DEF Sells, SaleStep, addPendingSwap, sells, NewSale, closeLands, recordBotCloseReceived,
                          swapTokenToUSDC, Does
<1>5. CASE Syncs
  BY <1>1, <1>5, Zenon DEF Syncs, SyncStep, logPendingStatus, entryReached, balanceAnswered, syncsPending,
                    NothingElse, walletVars, dacVars
<1>6. CASE Clears
  BY <1>1, <1>6, Zenon DEF Clears, clearAllPendingSwaps, NothingElse, walletVars, dacVars
<1>7. CASE Converts
  <2>1. ~RunStep
    BY <1>1, Zenon DEF RunStep, calculatesProfit, readsBefore, dacSwaps, readsAfter, dacTransfers, At
  <2>2. writesHistory
    <3>1. ~timerFires
      BY <1>1, Zenon DEF timerFires
    <3>2. ~armsAgain /\ ~loadDacHistory
      BY <1>1 DEF armsAgain, loadDacHistory
    <3>3. ~triggerByHand /\ ~savesSettings /\ ~dacRestarts /\ ~clockTicks
      BY <1>2, Zenon DEF triggerByHand, savesSettings, dacRestarts, clockTicks
    <3> QED BY <1>7, <2>1, <3>1, <3>2, <3>3, Zenon DEF Converts, DacStep
  <2> QED BY <1>1, <1>7, <2>2, Zenon DEF Converts, writesHistory, NothingElse, walletVars, pendingVars
<1>8. CASE Expires
  BY <1>1, <1>8, Zenon DEF Expires, holdingsExpire, NothingElse, pendingVars, dacVars
<1>9. CASE UNCHANGED vars
  BY <1>1, <1>9, Zenon DEF vars, NothingElse, walletVars, pendingVars, dacVars
<1> QED BY <1>3, <1>4, <1>5, <1>6, <1>7, <1>8, <1>9, Zenon DEF Next

LEMMA InitNothingElse == Init => NothingElse
  BY Zenon DEF Init, PendingInit, DacInit, NothingElse, Alone, DacUsed

(* The plan does not count less of a side than the wallet holds while it   *)
(* may still buy of that side.  (It may count more: what paid for the      *)
(* other side.)                                                            *)
Counts(w, f, s) == mint(s) # "USDC" => w[mint(s)] <= f.seen[s]

PlanCounts(w, f) ==
  /\ f.pc = "estimate" => \A s \in Side : Counts(w, f, s)
  /\ f.pc = "buy" => Counts(w, f, f.side)
  /\ f.pc \in {"buy", "bought"} /\ f.side = "A" => Counts(w, f, "B")

Bound(s) == IF Start(mint(s)) > need(s) THEN Start(mint(s)) ELSE need(s)
WithinBound(w) == \A s \in Side : mint(s) # "USDC" => w[mint(s)] <= Bound(s)

NoMisreading == Alone("fund") /\ scenario.kinds \cap {"readError", "lostAck"} = {}

Thrifty == NoMisreading => WithinBound(wallet) /\ PlanCounts(wallet, fund)

(* How the plan goes on keeps the count, if it counts enough of the sides  *)
(* that are still to be bought.                                            *)
LEMMA PlanGoesOn ==
  ASSUME NEW w, NEW f \in FundState, Counts(w, f, "B")
  PROVE  PlanCounts(w, AfterA(f)) /\ (Counts(w, f, "A") => PlanCounts(w, BuysSides(f)))
<1>1. PlanCounts(w, Ready(f))
  BY Zenon DEF PlanCounts, Ready, FundState, Fund
<1>2. PlanCounts(w, Buying(f, "B"))
  BY Zenon DEF PlanCounts, Buying, Counts, FundState, Fund, Side
<1>3. Counts(w, f, "A") => PlanCounts(w, Buying(f, "A"))
  BY Zenon DEF PlanCounts, Buying, Counts, FundState, Fund, Side
<1> QED BY <1>1, <1>2, <1>3, Zenon DEF AfterA, BuysSides

LEMMA PlanEnds ==
  ASSUME NEW w, NEW f \in FundState
  PROVE  PlanCounts(w, Ready(f)) /\ (f.pc \notin {"estimate", "buy", "bought"} => PlanCounts(w, f))
  BY Zenon DEF PlanCounts, Ready, FundState, Fund

(* A purchase that is not misreported adds at most what was wanted, to the *)
(* side that was short, and takes from no side but the one that pays.      *)
LEMMA PurchaseBounds ==
  ASSUME WalletTypes, "lostAck" \notin scenario.kinds, NEW in \in Mints, NEW out \in Mints, NEW want \in Nat, NEW got \in Nat,
         swapForToken(in, out, want, got) \/ swapViaByrealPool(in, out, want, got)
  PROVE  /\ got = 0 => wallet' = wallet
         /\ wallet'[out] <= wallet[out] + want
         /\ \A m \in Mints \ {out} : wallet'[m] <= wallet[m]
<1>1. CASE wallet' = wallet
  BY <1>1 DEF WalletTypes, Balances
<1>2. CASE wallet[in] >= want /\ got # 0 /\ got <= want /\ wallet' = Moved(in, out, want, got)
  <2>1. wallet[out] \in Nat
    BY Zenon DEF WalletTypes, Balances
  <2>2. wallet' \in Balances /\ wallet'[out] <= wallet[out] + got /\ \A m \in Mints \ {out} : wallet'[m] <= wallet[m]
    BY <1>2, MovedFacts, Zenon DEF WalletTypes
  <2>3. wallet'[out] \in Nat
    BY <2>2, Zenon DEF Balances
  <2> QED BY <1>2, <2>1, <2>2, <2>3
<1>3. scenario.slippage \in {0, 1}
  BY ScenarioFacts, Zenon DEF WalletTypes
<1>4. \A n \in Outputs(want) : n # 0 /\ n <= want
  BY <1>3 DEF Outputs
<1>5. CASE want = 0 /\ wallet' = Moved(in, out, want, got) /\ got = want /\ wallet[in] >= want
  <2>1. wallet \in Balances /\ wallet[in] >= 0 /\ wallet' = Moved(in, out, 0, 0)
    BY <1>5, Zenon DEF WalletTypes
  <2>2. Moved(in, out, 0, 0) = wallet
    BY <2>1 DEF Moved, Balances
  <2>3. \A m \in Mints : wallet[m] \in Nat
    BY <2>1, Zenon DEF Balances
  <2> QED BY <1>5, <2>1, <2>2, <2>3
<1>6. wallet' = wallet \/ (wallet[in] >= want /\ wallet' = Moved(in, out, want, got) /\ (got \in Outputs(want) \/ got = want))
  BY Zenon DEF swapForToken, swapViaByrealPool, jupSwap, Fault, WalletTypes
<1> QED BY <1>1, <1>2, <1>4, <1>5, <1>6

LEMMA FundStepThrifty ==
  ASSUME Types, NoMisreading, scenario' = scenario, WithinBound(wallet), PlanCounts(wallet, fund), FundStep
  PROVE  WithinBound(wallet') /\ PlanCounts(wallet', fund')
<1>0. WalletTypes /\ fund \in FundState /\ fund' \in FundState /\ scenario \in Scenarios
  BY FundStepTypes, Zenon DEF Types, FundTypes, WalletTypes
<1>s. \A s \in Side : /\ mint(s) \in Mints /\ mint(s) \in SideMints /\ need(s) \in Nat
                      /\ wallet[mint(s)] \in Nat /\ fund.seen[s] \in Nat /\ Bound(s) \in Nat /\ Bound(s) >= need(s)
  <2>1. TAKE s \in Side
  <2>2. mint(s) \in Mints /\ mint(s) \in SideMints /\ need(s) \in Nat
    BY <1>0, ScenarioFacts, Zenon DEF SideMints
  <2>3. wallet[mint(s)] \in Nat /\ fund.seen[s] \in Nat
    BY <1>0, <2>2, Zenon DEF WalletTypes, Balances, FundState, Fund
  <2>4. Start(mint(s)) \in Nat
    BY <1>0, <2>2, ScenarioFacts, Zenon DEF Start, Balances
  <2> QED BY <2>2, <2>3, <2>4 DEF Bound
<1>r. \A r : ReadsAs(SideMints, r) => \A s \in Side : r[mint(s)] = wallet[mint(s)]
  BY <1>s DEF ReadsAs, Fault, NoMisreading
<1>b. ASSUME NEW r, ReadsAs(SideMints, r), BothRead(fund, r) \in FundState
      PROVE  \A s \in Side : Counts(wallet, BothRead(fund, r), s)
  <2>1. \A s \in Side : BothRead(fund, r).seen[s] = r[mint(s)]
    BY <1>0, Zenon DEF BothRead, FundState, Fund
  <2>2. \A s \in Side : BothRead(fund, r).seen[s] = wallet[mint(s)]
    BY <1>b, <1>r, <2>1, Zenon
  <2> QED BY <1>s, <2>2 DEF Counts
<1>c. \A r \in Readings(SideMints) : BothRead(fund, r) \in FundState
  <2>1. TAKE r \in Readings(SideMints)
  <2>2. r \in [SideMints -> Nat]
    BY <1>0, ReadingTypes, ScenarioFacts, Zenon DEF WalletTypes
  <2>3. [s \in Side |-> r[mint(s)]] \in [Side -> Nat]
    BY <1>s, <2>2, Zenon
  <2> QED BY <1>0, <2>3, Zenon DEF BothRead, FundState, Fund
<1>1. CASE readsBalances
  <2>1. PICK r \in Readings(SideMints) :
          /\ ReadsAs(SideMints, r)
          /\ fund' = IF rule.estimates THEN [BothRead(fund, r) EXCEPT !.pc = "estimate"]
                     ELSE BuysSides(BothRead(fund, r))
    BY <1>1, Zenon DEF readsBalances
  <2> DEFINE f == BothRead(fund, r)
  <2>2. f \in FundState /\ \A s \in Side : Counts(wallet, f, s)
    BY <1>b, <1>c, <2>1, Zenon
  <2> HIDE DEF f
  <2>3. PlanCounts(wallet, BuysSides(f))
    BY <2>2, PlanGoesOn, Zenon DEF Side
  <2>4. PlanCounts(wallet, [f EXCEPT !.pc = "estimate"])
    BY <2>2, Zenon DEF PlanCounts, Counts, FundState, Fund
  <2> QED BY <1>1, <2>1, <2>3, <2>4, Zenon DEF readsBalances, f
<1>2. CASE estimatesCost
  <2>1. Counts(wallet, fund, "A") /\ Counts(wallet, fund, "B")
    BY <1>2, Zenon DEF estimatesCost, PlanCounts, Side
  <2>2. PlanCounts(wallet, BuysSides(fund))
    BY <1>0, <2>1, PlanGoesOn, Zenon
  <2>3. PlanCounts(wallet, [fund EXCEPT !.pc = "null"])
    BY <1>0, Zenon DEF PlanCounts, FundState, Fund
  <2> QED BY <1>2, <2>2, <2>3, Zenon DEF estimatesCost
<1>3. CASE buys
  <2> DEFINE s == fund.side
  <2>1. PICK got \in 0..need(s) :
          /\ swaps(Head(fund.methods), s, got)
          /\ fund' = IF got = 0 THEN [fund EXCEPT !.methods = Tail(@)]
                     ELSE [fund EXCEPT !.pc = "bought", !.got = got]
    BY <1>3, Zenon DEF buys
  <2>2. s \in Side /\ Head(fund.methods) \in Method /\ fund.pc = "buy"
    BY <1>0, <1>3 DEF buys, FundState, Fund
  <2>3. got \in Nat /\ Deficit(fund, s) \in Nat /\ mint(s) \in Mints
    <3>1. need(s) \in Nat /\ mint(s) \in Mints
      BY <1>s, <2>2, Zenon
    <3>2. Deficit(fund, s) \in Nat
      BY <1>0, <2>2, PlanTypes, Zenon
    <3> QED BY <3>1, <3>2
  <2>4. /\ got = 0 => wallet' = wallet
        /\ wallet'[mint(s)] <= wallet[mint(s)] + Deficit(fund, s)
        /\ \A m \in Mints \ {mint(s)} : wallet'[m] <= wallet[m]
    BY <1>0, <2>1, <2>2, <2>3, PurchaseBounds, Zenon DEF swaps, Method, NoMisreading
  <2>5. WalletTypes'
    BY FundStepTypes, Zenon DEF Types
  <2>6. \A x \in Side : wallet'[mint(x)] \in Nat
    BY <1>s, <2>5, Zenon DEF WalletTypes, Balances
  <2>7. \A x \in Side \ {s} : mint(x) # mint(s)
    BY <1>0, <2>2, ScenarioFacts, Zenon DEF Side
  <2>8. WithinBound(wallet')
    <3>1. \A x \in Side \ {s} : wallet'[mint(x)] <= wallet[mint(x)]
      BY <1>s, <2>4, <2>7, Zenon
    <3>2. mint(s) # "USDC" => wallet'[mint(s)] <= Bound(s)
      <4>1. SUFFICES ASSUME mint(s) # "USDC" PROVE wallet'[mint(s)] <= Bound(s)
        OBVIOUS
      <4>2. wallet[mint(s)] <= fund.seen[s] /\ wallet[mint(s)] <= Bound(s)
        BY <2>2, <4>1, Zenon DEF PlanCounts, Counts, WithinBound
      <4> QED BY <1>s, <2>2, <2>4, <2>6, <4>2 DEF Deficit
    <3> HIDE DEF s
    <3>3. \A x \in Side : mint(x) # "USDC" => wallet[mint(x)] <= Bound(x)
      BY Zenon DEF WithinBound
    <3> QED BY <1>s, <2>6, <3>1, <3>2, <3>3 DEF WithinBound
  <2>9. CASE got = 0
    <3>1. wallet' = wallet /\ fund'.pc = fund.pc /\ fund'.side = fund.side /\ fund'.seen = fund.seen
      BY <1>0, <2>1, <2>4, <2>9, Zenon DEF FundState, Fund
    <3> QED BY <2>8, <3>1, Zenon DEF PlanCounts, Counts
  <2>10. CASE got # 0
    <3>1. fund'.pc = "bought" /\ fund'.side = fund.side /\ fund'.seen = fund.seen
      BY <1>0, <2>1, <2>10, Zenon DEF FundState, Fund
    <3>2. s = "A" => Counts(wallet', fund', "B")
      BY <1>s, <2>2, <2>4, <2>6, <2>7, <3>1 DEF PlanCounts, Counts, Side
    <3> QED BY <2>8, <3>1, <3>2, Zenon DEF PlanCounts
  <2> QED BY <2>9, <2>10, Zenon
<1>4. CASE cannotBuy
  <2>1. PlanCounts(wallet, [fund EXCEPT !.pc = "null"])
    BY <1>0, Zenon DEF PlanCounts, FundState, Fund
  <2>2. fund.side = "A" => PlanCounts(wallet, AfterA(fund))
    BY <1>0, <1>4, PlanGoesOn, Zenon DEF cannotBuy, PlanCounts
  <2>3. PlanCounts(wallet, Ready(fund))
    BY <1>0, PlanEnds, Zenon
  <2> QED BY <1>4, <2>1, <2>2, <2>3, Zenon DEF cannotBuy, After, walletVars
<1>5. CASE countsBought
  <2>1. PICK r \in Readings(SideMints), parsed \in BOOLEAN :
          ReadsAs(SideMints, r) /\ fund' = After(Counted(r, parsed), fund.side)
    BY <1>0, <1>5, CountsAsCounted, Zenon DEF FundTypes
  <2> DEFINE f == Counted(r, parsed)
  <2>2. wallet' = wallet /\ fund.pc = "bought"
    BY <1>5, Zenon DEF countsBought
  <2>3. f \in FundState /\ f.seen[Other(fund.side)] = OtherNow(r)
    BY <1>0, <2>2, CountedFacts, Zenon DEF FundTypes
  <2> HIDE DEF f
  <2>4. CASE fund.side = "B"
    <3>1. fund' = Ready(f)
      BY <2>1, <2>4, Zenon DEF After, f
    <3> QED BY <2>2, <2>3, <3>1, PlanEnds, Zenon
  <2>5. CASE fund.side = "A"
    <3>1. fund' = AfterA(f)
      BY <2>1, <2>5, Zenon DEF After, f
    <3>2. f.seen["B"] \in {wallet[mint("B")], fund.seen["B"]}
      BY <1>r, <2>1, <2>3, <2>5, Zenon DEF OtherNow, Other, Side
    <3>3. Counts(wallet, f, "B")
      BY <1>s, <2>2, <2>5, <3>2 DEF PlanCounts, Counts, Side
    <3> QED BY <2>2, <2>3, <3>1, <3>3, PlanGoesOn, Zenon
  <2> QED BY <1>0, <2>4, <2>5, Zenon DEF FundState, Fund, Side
<1>6. CASE deposits
  <2>1. fund'.pc = "done"
    BY <1>0, <1>6, Zenon DEF deposits, FundState, Fund
  <2>2. \A s \in Side : wallet'[mint(s)] <= wallet[mint(s)] /\ wallet'[mint(s)] \in Nat
    <3>1. WalletTypes'
      BY FundStepTypes, Zenon DEF Types
    <3>2. \A s \in Side : wallet'[mint(s)] \in Nat
      BY <1>s, <3>1, Zenon DEF WalletTypes, Balances
    <3>3. \A s \in Side : Deposited(s) \in Nat
      BY <1>s, Zenon DEF Deposited, Least, Cap
    <3> QED BY <1>6, <1>s, <3>2, <3>3 DEF deposits, Side
  <2>3. WithinBound(wallet')
    BY <1>s, <2>2 DEF WithinBound
  <2> QED BY <2>1, <2>3, Zenon DEF PlanCounts
<1>7. CASE depositFails
  <2>1. fund'.pc \in {"retry", "swapBack", "failed"}
    BY <1>0, <1>7, Zenon DEF depositFails, RetriesOnce, GivesUp, FundState, Fund
  <2> QED BY <1>7, <2>1, Zenon DEF depositFails, PlanCounts
<1>8. CASE rereadsBalances
  <2>1. fund'.pc = "deposit"
    BY <1>0, <1>8, Zenon DEF rereadsBalances, BothRead, FundState, Fund
  <2> QED BY <1>8, <2>1, Zenon DEF rereadsBalances, PlanCounts
<1>9. CASE swapsBack
  <2> DEFINE b == Head(fund.bought)
  <2>1. b \in Purchase /\ fund'.pc \in {"failed", "swapBack"}
    <3>1. fund.bought \in Seq(Purchase) /\ fund.bought # <<>>
      BY <1>0, <1>9, Zenon DEF swapsBack, FundState, Fund
    <3>2. fund'.pc \in {"failed", "swapBack"}
      BY <1>0, <1>9, Zenon DEF swapsBack, FundState, Fund
    <3> QED BY <3>1, <3>2
  <2>2. \A m \in Mints \ {"USDC"} : wallet'[m] <= wallet[m]
    <3>1. CASE wallet' = wallet
      BY <1>0, <3>1 DEF WalletTypes, Balances
    <3>2. CASE \E got \in 0..b.amount : wallet[b.mint] >= b.amount /\ wallet' = Moved(b.mint, "USDC", b.amount, got)
      <4>1. b.mint \in Mints /\ b.amount \in Nat /\ "USDC" \in Mints
        BY <2>1, Zenon DEF Purchase, Mints
      <4>2. PICK got \in 0..b.amount : wallet[b.mint] >= b.amount /\ wallet' = Moved(b.mint, "USDC", b.amount, got)
        BY <3>2, Zenon
      <4>3. got \in Nat /\ wallet \in Balances
        BY <1>0, <4>1 DEF WalletTypes
      <4> QED BY <4>1, <4>2, <4>3, MovedFacts, Zenon
    <3>3. wallet' = wallet \/ \E got \in 0..b.amount : wallet[b.mint] >= b.amount /\ wallet' = Moved(b.mint, "USDC", b.amount, got)
      BY <1>9, Zenon DEF swapsBack, jupSwapExactIn, jupSwap, Fault, NoMisreading, walletVars
    <3> QED BY <3>1, <3>2, <3>3, Zenon
  <2>3. WalletTypes'
    BY FundStepTypes, Zenon DEF Types
  <2>4. \A s \in Side : wallet'[mint(s)] \in Nat
    BY <1>s, <2>3, Zenon DEF WalletTypes, Balances
  <2>5. WithinBound(wallet')
    BY <1>s, <2>2, <2>4 DEF WithinBound
  <2> QED BY <2>1, <2>5, Zenon DEF PlanCounts
<1> QED BY <1>1, <1>2, <1>3, <1>4, <1>5, <1>6, <1>7, <1>8, <1>9, Zenon DEF FundStep

LEMMA NextKeepsThrifty ==
  ASSUME Types, NothingElse, Thrifty, [Next]_vars
  PROVE  Thrifty'
<1>0. scenario' = scenario
  BY NextKeepsNothingElse, Zenon
<1> SUFFICES ASSUME NoMisreading
             PROVE  WithinBound(wallet') /\ PlanCounts(wallet', fund')
  BY <1>0, Zenon DEF Thrifty, NoMisreading, Alone, WithinBound, PlanCounts, Counts, Bound, Start, mint, need
<1>1. WithinBound(wallet) /\ PlanCounts(wallet, fund)
  BY Zenon DEF Thrifty
<1> QED BY <1>0, <1>1, NextKeepsNothingElse, FundStepThrifty, Zenon DEF NoMisreading

(* The pre-swaps of a copied open or increase never leave more of a token  *)
(* in the wallet than there was or than the position needs, whatever swaps *)
(* and deposits fail: for every pool, balance and rule of the executors,   *)
(* if no balance is misread and no swap misreported.                       *)
THEOREM PreSwapsNeverOverbuy == Spec => []NeverOverbuys
<1> DEFINE Inv == Types /\ NothingElse /\ Thrifty
<1>1. Init => Inv
  <2> SUFFICES ASSUME Init PROVE Inv
    OBVIOUS
  <2>1. Types /\ NothingElse
    BY InitTypes, InitNothingElse, Zenon
  <2>2. \A s \in Side : wallet[mint(s)] = Start(mint(s)) /\ Start(mint(s)) \in Nat /\ need(s) \in Nat
    BY <2>1, ScenarioFacts, Zenon DEF Init, WalletInit, Start, Types, WalletTypes, Balances
  <2>3. WithinBound(wallet)
    BY <2>2 DEF WithinBound, Bound
  <2>4. PlanCounts(wallet, fund)
    BY Zenon DEF Init, FundInit, PlanCounts
  <2> QED BY <2>1, <2>3, <2>4, Zenon DEF Thrifty
<1>2. Inv /\ [Next]_vars => Inv'
  BY NextKeepsTypes, NextKeepsNothingElse, NextKeepsThrifty, Zenon
<1>3. Inv => NeverOverbuys
  BY Zenon DEF Thrifty, NoMisreading, WithinBound, Bound, NeverOverbuys
<1> QED BY <1>1, <1>2, <1>3, PTL DEF Spec

=============================================================================
