---------------------------- MODULE RiskControls ----------------------------
(***************************************************************************)
(* What stops opens: the drawdown protection of index.ts, fed by the asset *)
(* snapshots, the pause of an executor that ran out of SOL, and the        *)
(* cooldown of a token after losses in a row.                              *)
(***************************************************************************)
EXTENDS IntakeScenario

VARIABLES
  startAssetUsd,     \* whether the first snapshot was taken
  thresholdOn,       \* config.drawdownThresholdPct > 0
  toggles,           \* changes of it so far
  drawdownWarning,
  drawdownPaused,    \* on all executors: they are set together
  snapshots,         \* history: whether each later snapshot was below the threshold
  solPaused,         \* the executors that ran out of SOL
  tokenLossStreak,
  tokenCooldowns,    \* per token the hour the cooldown ends, 0 for none
  awaitingPnl,       \* tokens of closed positions whose PnL is being fetched, a sequence
  results            \* history: per token whether each close was a loss

riskVars ==
  <<startAssetUsd, thresholdOn, toggles, drawdownWarning, drawdownPaused, snapshots, solPaused,
    tokenLossStreak, tokenCooldowns, awaitingPnl, results>>
drawdownVars == <<startAssetUsd, thresholdOn, toggles, drawdownWarning, drawdownPaused, snapshots>>
cooldownVars == <<tokenLossStreak, tokenCooldowns, awaitingPnl, results>>

COOLDOWN_HOURS == 1
Tokens == {scenario.positions[p].token : p \in DOMAIN scenario.positions}

RiskInit ==
  /\ startAssetUsd = FALSE /\ thresholdOn = TRUE /\ toggles = 0
  /\ drawdownWarning = FALSE /\ drawdownPaused = FALSE /\ snapshots = <<>>
  /\ solPaused = {}
  /\ tokenLossStreak = [t \in Tokens |-> 0] /\ tokenCooldowns = [t \in Tokens |-> 0]
  /\ awaitingPnl = <<>> /\ results = [t \in Tokens |-> <<>>]

(* The snapshot callback.                                                  *)
firstSnapshot ==
  /\ ~startAssetUsd /\ scenario.snapshots > 0
  /\ startAssetUsd' = TRUE
  /\ UNCHANGED <<thresholdOn, toggles, drawdownWarning, drawdownPaused, snapshots>>

KeepsWarning(low) ==
  IF low THEN IF drawdownWarning THEN drawdownPaused' = TRUE /\ UNCHANGED drawdownWarning
                                 ELSE drawdownWarning' = TRUE /\ UNCHANGED drawdownPaused
         ELSE UNCHANGED <<drawdownWarning, drawdownPaused>>
checksDrawdown(low) ==
  IF low THEN IF drawdownWarning THEN drawdownPaused' = TRUE /\ UNCHANGED drawdownWarning
                                 ELSE drawdownWarning' = TRUE /\ UNCHANGED drawdownPaused
         ELSE drawdownWarning' = FALSE /\ UNCHANGED drawdownPaused

snapshotCallback ==
  /\ startAssetUsd /\ Len(snapshots) < scenario.snapshots
  /\ \E low \in BOOLEAN :
       /\ snapshots' = Append(snapshots, low)
       /\ IF drawdownPaused \/ ~thresholdOn
          THEN UNCHANGED <<drawdownWarning, drawdownPaused>>
          ELSE checksDrawdown(low)
  /\ UNCHANGED <<startAssetUsd, thresholdOn, toggles>>

savesThreshold ==
  /\ toggles < scenario.toggles
  /\ toggles' = toggles + 1 /\ thresholdOn' = ~thresholdOn
  /\ UNCHANGED <<startAssetUsd, drawdownWarning, drawdownPaused, snapshots>>

(* isTokenCoolingDown() and what it forgets when the time is up.           *)
isTokenCoolingDown(token) == tokenCooldowns[token] > time

ForgetsElapsed(token) ==
  LET elapsed == tokenCooldowns[token] # 0 /\ ~isTokenCoolingDown(token)
  IN /\ tokenCooldowns' = IF elapsed THEN [tokenCooldowns EXCEPT ![token] = 0] ELSE tokenCooldowns
     /\ tokenLossStreak' = IF elapsed THEN [tokenLossStreak EXCEPT ![token] = 0] ELSE tokenLossStreak
     /\ UNCHANGED <<awaitingPnl, results>>

(* recordTokenPnl(): a profit ends streak and cooldown.                    *)
OnlyEndsCooldown(token) ==
  tokenCooldowns' = [tokenCooldowns EXCEPT ![token] = 0] /\ UNCHANGED tokenLossStreak
recordsProfit(token) ==
  /\ tokenCooldowns' = [tokenCooldowns EXCEPT ![token] = 0]
  /\ tokenLossStreak' = [tokenLossStreak EXCEPT ![token] = 0]
recordsLoss(token) ==
  /\ tokenLossStreak' = [tokenLossStreak EXCEPT ![token] = @ + 1]
  /\ tokenCooldowns' = IF tokenLossStreak'[token] >= LossStreakLimit /\ token \notin scenario.whitelist
                       THEN [tokenCooldowns EXCEPT ![token] = time + COOLDOWN_HOURS]
                       ELSE tokenCooldowns

(* fetchPositionPnl(), called beside the queue for each position closed,   *)
(* answers in any order or finds nothing.                                  *)
fetchPositionPnl ==
  \E i \in DOMAIN awaitingPnl :
    LET token == awaitingPnl[i]
    IN /\ awaitingPnl' = SubSeq(awaitingPnl, 1, i - 1) \o SubSeq(awaitingPnl, i + 1, Len(awaitingPnl))
       /\ \/ recordsLoss(token) /\ results' = [results EXCEPT ![token] = Append(@, TRUE)]
          \/ recordsProfit(token) /\ results' = [results EXCEPT ![token] = Append(@, FALSE)]
          \/ UNCHANGED <<tokenCooldowns, tokenLossStreak, results>>

RiskStep ==
  \/ (firstSnapshot \/ snapshotCallback \/ savesThreshold) /\ UNCHANGED <<solPaused, cooldownVars>>
  \/ fetchPositionPnl /\ UNCHANGED <<drawdownVars, solPaused>>

=============================================================================
