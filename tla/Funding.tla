------------------------------- MODULE Funding -------------------------------
(***************************************************************************)
(* How a copied open or increase gets the two tokens it deposits: the      *)
(* "pre-swap" part of copyOpenPosition() and copyIncreaseLiquidity() of    *)
(* the five executors.  They follow one plan, buy what is short of token   *)
(* A, then of token B, deposit, and if that fails read the balances again  *)
(* and deposit once more; and differ in the details that a rule records.   *)
(***************************************************************************)
EXTENDS Wallet

VARIABLE fund   \* the state of the operation

Side == {"A", "B"}
Other(s) == IF s = "A" THEN "B" ELSE "A"
mint(s) == scenario.fund.mint[s]
need(s) == scenario.fund.need[s]

(* skipsUsdc: a side that is USDC is not bought.  readsOther: B is read    *)
(* again after A was bought.  surplusOnly: A pays for B only if there is   *)
(* more of A than needed.  pool: the position's own pool is tried too.     *)
(* aborts: a side that cannot be bought ends the operation.  needsBalance: *)
(* so does a wallet with neither token.  wholeBalance: a side of which     *)
(* nothing is needed is capped by the balance.  estimates: the cost is     *)
(* checked first.  swapsBack: what was bought is sold after a failure.     *)
byrealOpen ==
  [skipsUsdc |-> FALSE, readsOther |-> FALSE, surplusOnly |-> FALSE, pool |-> TRUE, aborts |-> TRUE,
   needsBalance |-> TRUE, wholeBalance |-> FALSE, estimates |-> FALSE, swapsBack |-> FALSE]
byrealIncrease == byrealOpen
pcsOpen == [byrealOpen EXCEPT !.pool = FALSE]
pcsIncrease == [pcsOpen EXCEPT !.aborts = FALSE]
orcaOpen ==
  [skipsUsdc |-> TRUE, readsOther |-> TRUE, surplusOnly |-> TRUE, pool |-> FALSE, aborts |-> TRUE,
   needsBalance |-> TRUE, wholeBalance |-> TRUE, estimates |-> TRUE, swapsBack |-> TRUE]
meteoraOpen == [orcaOpen EXCEPT !.estimates = FALSE, !.swapsBack = FALSE]
dammv2Open == meteoraOpen
orcaIncrease == [meteoraOpen EXCEPT !.needsBalance = FALSE]
meteoraAdd == orcaIncrease
dammv2Add == orcaIncrease

Rules == {"byrealOpen", "byrealIncrease", "pcsOpen", "pcsIncrease", "orcaOpen", "orcaIncrease",
          "meteoraOpen", "meteoraAdd", "dammv2Open", "dammv2Add"}

rule ==
  LET rules == [byrealOpen |-> byrealOpen, byrealIncrease |-> byrealIncrease,
                pcsOpen |-> pcsOpen, pcsIncrease |-> pcsIncrease,
                orcaOpen |-> orcaOpen, orcaIncrease |-> orcaIncrease,
                meteoraOpen |-> meteoraOpen, meteoraAdd |-> meteoraAdd,
                dammv2Open |-> dammv2Open, dammv2Add |-> dammv2Add]
  IN  rules[scenario.fund.rule]

(* The two tokens of a pool differ, and an operation that needs nothing of *)
(* either has returned before.                                             *)
ASSUME FundAssumption ==
  \A s \in Scenarios :
    /\ s.fund.rule \in Rules
    /\ s.fund.mint \in [Side -> Mints] /\ s.fund.mint["A"] # s.fund.mint["B"]
    /\ s.fund.need \in [Side -> Nat] /\ s.fund.need["A"] + s.fund.need["B"] > 0

FundInit ==
  fund = [pc |-> IF "fund" \in scenario.users THEN "balances" ELSE "idle",
          seen |-> [s \in Side |-> 0], side |-> "A", methods |-> <<>>, got |-> 0,
          bought |-> <<>>, tries |-> 0]

FundEnded == fund.pc \in {"idle", "done", "null", "failed"}

-----------------------------------------------------------------------------
(* Which side is bought next, and from what.                               *)

WholeNeed(f, s) == IF f.seen[s] < need(s) THEN need(s) ELSE 0

Deficit(f, s) == IF f.seen[s] < need(s) THEN need(s) - f.seen[s] ELSE 0
Short(f, s) == Deficit(f, s) > 0 /\ ~(rule.skipsUsdc /\ mint(s) = "USDC")

Methods(f, s) ==
  LET pay == <<[in |-> mint(Other(s)), pool |-> FALSE]>>
             \o (IF rule.pool THEN <<[in |-> mint(Other(s)), pool |-> TRUE]>> ELSE <<>>)
      usdc == IF mint(s) = "USDC" THEN <<>> ELSE <<[in |-> "USDC", pool |-> FALSE]>>
      mayPay == IF s = "A" THEN f.seen["B"] > 0
                ELSE IF rule.surplusOnly THEN f.seen["A"] > need("A") ELSE f.seen["A"] > 0
      paid == IF mayPay THEN pay ELSE <<>>
  IN  IF mint(s) = "SOL" THEN usdc
      ELSE IF s = "A" THEN paid \o usdc ELSE usdc \o paid

Buying(f, s) == [f EXCEPT !.pc = "buy", !.side = s, !.methods = Methods(f, s)]

Ready(f) ==
  [f EXCEPT !.pc = IF rule.needsBalance /\ \A s \in Side : f.seen[s] = 0 THEN "null" ELSE "deposit"]

AfterA(f) == IF Short(f, "B") THEN Buying(f, "B") ELSE Ready(f)
BuysSides(f) == IF Short(f, "A") THEN Buying(f, "A") ELSE AfterA(f)
After(f, s) == IF s = "A" THEN AfterA(f) ELSE Ready(f)

-----------------------------------------------------------------------------
BothRead(f, r) == [f EXCEPT !.seen = [s \in Side |-> r[mint(s)]]]
SideMints == {mint(s) : s \in Side}

readsBalances ==
  /\ fund.pc = "balances"
  /\ \E r \in Readings(SideMints) :
       /\ ReadsAs(SideMints, r)
       /\ LET f == BothRead(fund, r)
          IN  fund' = IF rule.estimates THEN [f EXCEPT !.pc = "estimate"] ELSE BuysSides(f)
  /\ UNCHANGED <<wallet, holdings>>

(* Orca's open adds up what both sides cost, a side other than USDC with a *)
(* buffer of 5%; a side whose price is not known is left out of the sum.   *)
estimateSwapCost(outputAmount) == (outputAmount * 105) \div 100
EstimatedCost(unknown) ==
  LET cost(s) == IF s \in unknown THEN 0
                 ELSE IF mint(s) = "USDC" THEN Deficit(fund, s) ELSE estimateSwapCost(Deficit(fund, s))
  IN  cost("A") + cost("B")

SwappedSides == {s \in Side : mint(s) # "USDC"}
UsdcSeen == IF SwappedSides = Side THEN wallet["USDC"] ELSE fund.seen[CHOOSE s \in Side : mint(s) = "USDC"]

estimatesCost ==
  /\ fund.pc = "estimate"
  /\ \/ \E unknown \in SUBSET SwappedSides :
          /\ IF unknown = {} THEN NoFault ELSE Fault("noRoute")
          /\ fund' = IF EstimatedCost(unknown) > UsdcSeen THEN [fund EXCEPT !.pc = "null"] ELSE BuysSides(fund)
     \/ /\ SwappedSides = Side /\ EstimatedCost({}) > 0 /\ Fault("readError")
        /\ fund' = [fund EXCEPT !.pc = "null"]
  /\ UNCHANGED <<wallet, holdings>>

swaps(method, s, got) ==
  IF method.pool THEN swapViaByrealPool(method.in, mint(s), Deficit(fund, s), got)
  ELSE swapForToken(method.in, mint(s), Deficit(fund, s), got)

(* The methods are tried in turn until one reports success.                *)
buys ==
  /\ fund.pc = "buy" /\ fund.methods # <<>>
  /\ \E got \in 0..need(fund.side) :
       /\ swaps(Head(fund.methods), fund.side, got)
       /\ fund' = IF got = 0 THEN [fund EXCEPT !.methods = Tail(@)]
                  ELSE [fund EXCEPT !.pc = "bought", !.got = got]

cannotBuy ==
  /\ fund.pc = "buy" /\ fund.methods = <<>>
  /\ fund' = IF rule.aborts THEN [fund EXCEPT !.pc = "null"] ELSE After(fund, fund.side)
  /\ UNCHANGED walletVars

(* getActualSwapOutput() gives what was received; if it cannot, and for    *)
(* SOL always, the balance is read again.                                  *)
KeepsOldB ==
  /\ fund.pc = "bought" /\ NoFault
  /\ LET s == fund.side
     IN  fund' = After([fund EXCEPT !.seen[s] = @ + fund.got,
                                    !.bought = Append(@, [mint |-> mint(s), amount |-> fund.got])], s)
  /\ UNCHANGED <<wallet, holdings>>

countsBought ==
  /\ fund.pc = "bought"
  /\ LET s == fund.side
         again == s = "A" /\ rule.readsOther
     IN  \E r \in Readings(SideMints), parsed \in BOOLEAN :
           LET now == IF parsed THEN fund.seen[s] + fund.got ELSE r[mint(s)]
               gained == now - fund.seen[s]
               other == IF again THEN r[mint("B")] ELSE fund.seen[Other(s)]
           IN  /\ ReadsAs(SideMints, r)
               /\ mint(s) = "SOL" => ~parsed
               /\ fund' = After([fund EXCEPT
                                   !.seen = [x \in Side |-> IF x = s THEN now ELSE other],
                                   !.bought = IF gained > 0
                                              THEN Append(@, [mint |-> mint(s), amount |-> gained]) ELSE @], s)
  /\ UNCHANGED <<wallet, holdings>>

-----------------------------------------------------------------------------
Least(m, n) == IF m < n THEN m ELSE n

Cap(s) ==
  IF rule.wholeBalance /\ need(s) = 0 THEN fund.seen[s] ELSE Least(need(s), fund.seen[s])
Deposited(s) == Least(Cap(s), need(s))

(* The program takes the deposit if the wallet has it, and something of    *)
(* each side that the price range asks for; of the other side it takes     *)
(* nothing, whatever the cap.                                              *)
Fits == \A s \in Side : Deposited(s) <= wallet[mint(s)] /\ (need(s) > 0 => Cap(s) > 0)

deposits ==
  /\ fund.pc = "deposit" /\ Fits /\ NoFault
  /\ wallet' = [m \in Mints |->
                  wallet[m] - (IF m = mint("A") THEN Deposited("A") ELSE 0)
                            - (IF m = mint("B") THEN Deposited("B") ELSE 0)]
  /\ fund' = [fund EXCEPT !.pc = "done"]
  /\ UNCHANGED holdings

KeepsPurchase(f) == [f EXCEPT !.pc = "failed"]

GivesUp(f) == [f EXCEPT !.pc = IF rule.swapsBack /\ f.bought # <<>> THEN "swapBack" ELSE "failed"]

(* A simulation failure is tried once more; other errors may not be.       *)
RetriesOnce(f) == IF f.tries = 0 THEN [f EXCEPT !.pc = "retry", !.tries = 1] ELSE GivesUp(f)

depositFails ==
  /\ fund.pc = "deposit"
  /\ \/ /\ ~Fits /\ NoFault
        /\ fund' = RetriesOnce(fund)
     \/ Fault("txFails") /\ fund' \in {RetriesOnce(fund), GivesUp(fund)}
  /\ UNCHANGED <<wallet, holdings>>

rereadsBalances ==
  /\ fund.pc = "retry"
  /\ \E r \in Readings(SideMints) :
       ReadsAs(SideMints, r) /\ fund' = [BothRead(fund, r) EXCEPT !.pc = "deposit"]
  /\ UNCHANGED <<wallet, holdings>>

(* swapBackOnFailure(): all but stablecoins and SOL, one after the other.  *)
swapsBack ==
  /\ fund.pc = "swapBack"
  /\ LET b == Head(fund.bought)
         rest == [fund EXCEPT !.bought = Tail(@),
                              !.pc = IF Tail(fund.bought) = <<>> THEN "failed" ELSE "swapBack"]
     IN  /\ fund' = rest
         /\ IF b.mint \in {"USDC", "SOL"} THEN UNCHANGED walletVars
            ELSE \E got \in 0..b.amount : jupSwapExactIn(b.mint, "USDC", b.amount, got)

FundStep ==
  \/ readsBalances \/ estimatesCost \/ buys \/ cannotBuy \/ countsBought
  \/ deposits \/ depositFails \/ rereadsBalances \/ swapsBack

=============================================================================
