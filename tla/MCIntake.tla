------------------------------ MODULE MCIntake ------------------------------
EXTENDS Intake

Wallets(targets, closing) ==
  [targets |-> [d \in Dexes |-> targets], closeOnly |-> [d \in Dexes |-> closing], valid |-> TRUE]
Broken == [Wallets({"v"}, {}) EXCEPT !.valid = FALSE]

P(dex, wallet, referer, pump) ==
  [dex |-> dex, wallet |-> wallet, referer |-> referer, pump |-> pump, token |-> "T"]
Ev(kind, pos) == [kind |-> kind, pos |-> pos]
T(wallet, involved, events) == [wallet |-> wallet, is |-> "dex", involved |-> involved, events |-> events]

NoAllow == [sameWallet |-> FALSE, openedBy |-> {}, afterOthers |-> {}]
Base ==
  [kinds |-> {}, faults |-> 0, settings |-> Wallets({"v", "w"}, {}), saved |-> {}, edits |-> 0,
   positions |-> [p |-> P("byreal", "v", None, FALSE)], txs |-> <<>>, enabled |-> Dexes, mintsKnown |-> TRUE,
   allow |-> NoAllow, whitelist |-> {}, snapshots |-> 0, toggles |-> 0, hours |-> 0,
   pumpMode |-> "off", pumpUsers |-> {}, answers |-> 0]

Life(d, w, p) == <<T(w, {d}, <<Ev("open", p)>>), T(w, {d}, <<Ev("close", p)>>)>>

(* The connection, alone and with transactions before and after its faults. *)
MonitorScenarios ==
  {[Base EXCEPT !.kinds = {"zombie", "quiet"}, !.faults = 3],
   [Base EXCEPT !.kinds = {"subscribeFails", "zombie"}, !.faults = 3],
   [Base EXCEPT !.kinds = {"quiet", "subscribeFails"}, !.faults = 1, !.edits = 2,
                !.saved = {Broken, Wallets({"v"}, {})}]}
  \cup
  {[Base EXCEPT !.kinds = kinds, !.faults = 2, !.edits = 1, !.saved = {Wallets({"v"}, {}), Wallets({}, {"v"})},
                !.txs = Life("byreal", "v", "p")] :
     kinds \in {{"zombie"}, {"quiet", "subscribeFails"}, {"zombie", "redelivered"}, {"zombie", "refused"}}}

(* Every executor, with every kind of event, pauses and faults.            *)
Dealings(d) ==
  [Base EXCEPT !.positions = [p |-> P(d, "v", None, FALSE), q |-> P(d, "w", None, FALSE)],
               !.settings = Wallets({"v"}, {"w"}), !.faults = 1,
               !.txs = <<T("v", {d}, <<Ev("open", "p"), Ev("increase", "p")>>),
                         T("w", {d}, <<Ev("open", "q")>>),
                         T("v", {d}, <<Ev("claim", "p"), Ev("decrease", "p"), Ev("close", "p")>>)>>]
DexScenarios ==
  {[Dealings(d) EXCEPT !.snapshots = 2] : d \in Dexes}
  \cup {[Dealings(d) EXCEPT !.kinds = kinds] :
          d \in {"byreal", "orca"}, kinds \in {{"fails"}, {"throws", "unparsed"}, {"lagging"}}}
  \cup {[Base EXCEPT !.kinds = {"redelivered"}, !.faults = 2,
                     !.txs = Life("byreal", "v", "p") \o <<[T("w", {}, <<>>) EXCEPT !.is = "spam"],
                                                           [T("w", {}, <<>>) EXCEPT !.is = "failed"]>>]}
  \cup {[Base EXCEPT !.enabled = on,
                     !.positions = [p |-> P(d, "v", None, FALSE), q |-> P(e, "v", None, FALSE)],
                     !.txs = <<T("v", {d, e}, <<Ev("open", "p"), Ev("open", "q")>>),
                               T("v", {d}, <<Ev("swap", "p")>>),
                               T("v", {e, d}, <<Ev("close", "q"), Ev("close", "p")>>)>>] :
          d \in Dexes, e \in Dexes, on \in {Dexes, {"byreal", "dammv2"}}}

(* Two wallets that copy the same position, and losses in a row.           *)
RefererScenarios ==
  {[Base EXCEPT !.positions = [p |-> P("byreal", "v", "r", FALSE), q |-> P("byreal", "w", "r", FALSE)],
                !.allow = allow, !.mintsKnown = known,
                !.txs = Life("byreal", "v", "p") \o Life("byreal", "w", "q")] :
     allow \in {NoAllow, [NoAllow EXCEPT !.sameWallet = TRUE], [NoAllow EXCEPT !.openedBy = {"v"}]},
     known \in BOOLEAN}
  \cup
  {[Base EXCEPT !.positions = [p |-> P("byreal", "v", None, FALSE), q |-> P("byreal", "v", None, FALSE),
                               o |-> P("byreal", "v", None, FALSE), n |-> P("pancakeswap", "v", None, FALSE)],
                !.hours = 1, !.whitelist = white,
                !.txs = <<T("v", {"byreal"}, <<Ev("open", "p"), Ev("open", "q"), Ev("open", "o")>>),
                          T("v", {"byreal"}, <<Ev("close", "p"), Ev("close", "q"), Ev("close", "o")>>),
                          T("v", {"pancakeswap"}, <<Ev("open", "n")>>)>>] :
     white \in {{}, {"T"}}}

RiskScenarios == {[Base EXCEPT !.snapshots = 5, !.toggles = n] : n \in {0, 2}}

(* A pump token seen twice.                                                *)
PumpScenarios ==
  {[Base EXCEPT !.positions = [p |-> P(d, "v", None, TRUE), q |-> P(d, "v", None, TRUE)],
                !.pumpMode = "discord", !.answers = 2, !.hours = 2, !.kinds = kinds, !.faults = 1,
                !.txs = <<T("v", {d}, <<Ev("open", "p")>>), T("v", {d}, <<Ev("open", "q")>>)>>] :
     <<d, kinds>> \in {<<"byreal", {"pollFails"}>>, <<"orca", {"others"}>>, <<"meteora", {"untimed"}>>}}
  \cup
  {[Base EXCEPT !.positions = [p |-> P("pancakeswap", "v", None, TRUE)], !.pumpMode = mode, !.pumpUsers = {"dashboard"},
                !.answers = 1, !.hours = 2, !.kinds = kinds, !.faults = 1,
                !.txs = <<T("v", {"pancakeswap"}, <<Ev("open", "p")>>)>>] :
     mode \in {"discord", "full"}, kinds \in {{}, {"others"}}}

AllScenarios == MonitorScenarios \cup DexScenarios \cup RefererScenarios \cup RiskScenarios \cup PumpScenarios

=============================================================================
