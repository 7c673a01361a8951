----------------------------- MODULE MCExecutors -----------------------------
(* Executors on small instances. *)
EXTENDS Executors

Scenario(dex, kinds, nfaults, nevents, nuserOps, liq, nfts) ==
  [dex |-> dex, kinds |-> kinds, faults |-> nfaults, events |-> nevents,
   userOps |-> nuserOps, liq |-> liq, nfts |-> nfts]

SafetyScenarios ==
  {Scenario("orca", {"missed", "expired", "lostAck", "notVerified"}, 2, 4, 1, 2, 2),
   Scenario("orca", {"missed", "expired"}, 1, 4, 0, 3, 2),
   Scenario("orca", FaultKinds \ {"readError"}, 2, 3, 0, 2, 2),
   Scenario("meteora", {"missed", "readError", "expired"}, 2, 3, 1, 2, 3),
   Scenario("meteora", FaultKinds \ {"notVerified"}, 2, 3, 0, 1, 2),
   Scenario("meteora", {"missed", "expired"}, 1, 4, 0, 2, 2),
   Scenario("meteora", {"missed", "readError", "chunked"}, 1, 3, 1, 3, 2),
   Scenario("meteora", {"missed", "expired", "chunked"}, 2, 3, 0, 3, 2),
   Scenario("meteora", {"expired"}, 1, 2, 2, 1, 3),
   Scenario("dammv2", {"missed", "expired"}, 2, 4, 1, 2, 2),
   Scenario("dammv2", {"expired"}, 1, 2, 2, 1, 3),
   Scenario("dammv2", FaultKinds \ {"readError", "notVerified"}, 2, 3, 0, 1, 2),
   Scenario("pancakeswap", {"missed", "readError", "expired", "notVerified"}, 2, 3, 1, 2, 2),
   Scenario("pancakeswap", FaultKinds, 2, 3, 0, 2, 2)}

ReleaseScenarios ==
  {Scenario("orca", {"missed", "expired", "lostAck", "notVerified"}, 1, 3, 1, 1, 2),
   Scenario("orca", FaultKinds, 2, 3, 0, 1, 2),
   Scenario("meteora", {"chunked"}, 0, 4, 1, 2, 2),
   Scenario("meteora", FaultKinds, 2, 3, 0, 1, 2),
   Scenario("dammv2", {}, 0, 4, 1, 2, 2),
   Scenario("dammv2", FaultKinds, 2, 3, 0, 1, 2),
   Scenario("pancakeswap", {}, 0, 4, 0, 2, 2)}

=============================================================================
