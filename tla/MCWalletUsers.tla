---------------------------- MODULE MCWalletUsers ----------------------------
EXTENDS WalletUsers, TLC

Base ==
  [users |-> {}, kinds |-> {}, faults |-> 0, slippage |-> 0,
   wallet |-> [m \in Mints |-> 0],
   fund |-> [rule |-> "orcaOpen", mint |-> [A |-> "X", B |-> "Y"], need |-> [A |-> 1, B |-> 1]],
   bounds |-> [closes |-> 0, notes |-> 0, sells |-> 0, clears |-> 0],
   dac |-> [mint |-> "Y", days |-> 1, edits |-> 0, transfers |-> TRUE]]

Purse(usdc, sol, x, y) ==
  ("USDC" :> usdc) @@ ("SOL" :> sol) @@ ("X" :> x) @@ ("Y" :> y)
Pair(a, b) == [A |-> a, B |-> b]

Fund(r, kinds, n, slippage, purse, mints, needs) ==
  [Base EXCEPT !.users = {"fund"}, !.kinds = kinds, !.faults = n, !.slippage = slippage,
               !.wallet = purse, !.fund = [rule |-> r, mint |-> mints, need |-> needs]]

FundScenarios ==
  {Fund(r, {}, 0, slippage, Purse(usdc, 0, x, y), mints, needs) :
     r \in Rules, slippage \in {0, 1}, usdc \in {20, 40, 42, 50}, x \in {0, 10, 30}, y \in {0, 30},
     mints \in {Pair("X", "Y"), Pair("X", "USDC"), Pair("SOL", "X"), Pair("X", "SOL")},
     needs \in {Pair(20, 20), Pair(0, 20), Pair(30, 10)}}
  \cup
  {Fund(r, kinds, 2, 0, Purse(usdc, 0, x, y), mints, Pair(20, 20)) :
     r \in Rules, kinds \in {{"txFails"}, {"noRoute", "txFails"}, {"txFails", "readError"}, {"lostAck", "txFails"}},
     usdc \in {20, 42}, x \in {0, 10, 30}, y \in {0, 30}, mints \in {Pair("X", "Y"), Pair("SOL", "X")}}

PendingScenarios ==
  {[Base EXCEPT !.users = {"pending"}, !.kinds = kinds, !.faults = 1,
                !.bounds = [closes |-> 2, notes |-> n, sells |-> sold, clears |-> sold]] :
     kinds \in {{}, {"readError", "noRoute"}, {"lostAck"}}, sold \in {0, 2}, n \in {0, 1}}

CleanupScenarios ==
  {[Base EXCEPT !.users = {"pending"},
                !.bounds = [closes |-> 1, notes |-> 1, sells |-> 1, clears |-> 0]]}

Dac(kinds, edited, transferred) ==
  [Base EXCEPT !.users = {"dac"}, !.kinds = kinds, !.faults = 1, !.wallet = Purse(6, 0, 0, 1),
               !.dac = [mint |-> "Y", days |-> 2, edits |-> edited, transfers |-> transferred]]

DacScenarios ==
  {Dac({}, 2, TRUE), Dac({"noRoute"}, 2, FALSE)}
  \cup {Dac(kinds, 1, TRUE) :
          kinds \in {{"noRoute", "readError"}, {"txFails", "lostAck"}, {"dbDown"}, {"lagging"}, {"crash"}}}

MixedScenarios ==
  {[Fund(r, {}, 0, 0, Purse(4, 0, 0, 0), Pair("X", "Y"), Pair(2, 1))
      EXCEPT !.users = {"fund", "pending", "dac"},
             !.bounds = [closes |-> 1, notes |-> 0, sells |-> 1, clears |-> 0],
             !.dac = [mint |-> "X", days |-> 1, edits |-> 0, transfers |-> TRUE]] :
     r \in {"orcaOpen", "byrealOpen"}}

AllScenarios == FundScenarios \cup PendingScenarios \cup DacScenarios \cup MixedScenarios

=============================================================================
