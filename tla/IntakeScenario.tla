--------------------------- MODULE IntakeScenario ---------------------------
(***************************************************************************)
(* What happens around the intake of target transactions: the transactions *)
(* themselves, the settings, and the faults a scenario allows.             *)
(***************************************************************************)
EXTENDS Integers, Sequences, FiniteSets

CONSTANTS
  None,
  Scenarios,
  MaxRetries,        \* reconnections without a subscription before the bot exits
  DedupSize,         \* signatures remembered
  LossStreakLimit    \* losses in a row before a token cools down

Dexes == {"byreal", "orca", "meteora", "pancakeswap", "dammv2"}

(* zombie: a connection stops notifying.  quiet: the targets do nothing    *)
(* for twenty minutes.  subscribeFails: onLogs() throws.  redelivered: a   *)
(* notification comes twice.  unparsed: a transaction cannot be fetched.   *)
(* throws: the parser or a copy throws.  fails: a copy returns null.       *)
(* lagging: the node read from is behind.  pollFails: the approvals cannot *)
(* be fetched or cleaned up.  others: other tokens expire in the same poll.*)
(* refused: settings are answered with an error when the wallets are       *)
(* replaced already.  untimed: an answer comes without its time.           *)
FaultKinds ==
  {"zombie", "quiet", "subscribeFails", "redelivered", "unparsed", "throws", "fails", "lagging",
   "pollFails", "others", "refused", "untimed"}

EventKinds == {"open", "increase", "decrease", "close", "claim", "swap"}

ASSUME IntakeAssumption ==
  /\ {MaxRetries, DedupSize, LossStreakLimit} \subseteq Nat \ {0}
  /\ None \notin Nat
  /\ \A s \in Scenarios :
       /\ s.kinds \subseteq FaultKinds /\ s.faults \in Nat /\ s.edits \in Nat
       /\ None \notin DOMAIN s.positions
       /\ \A p \in DOMAIN s.positions : s.positions[p].dex \in Dexes
       /\ Len(s.txs) \in Nat
       /\ \A i \in 1..Len(s.txs) : s.txs[i].events \in Seq([kind : EventKinds, pos : DOMAIN s.positions])

VARIABLES
  scenario,    \* one of Scenarios, chosen at the start
  faults,      \* faults that happened so far
  time         \* hours

ScenarioInit == scenario \in Scenarios /\ faults = 0 /\ time = 0

Fault(kind) ==
  /\ kind \in scenario.kinds /\ faults < scenario.faults
  /\ faults' = faults + 1
NoFault == UNCHANGED faults

=============================================================================
