----------------------------- MODULE IntakeProofs -----------------------------
(***************************************************************************)
(* Proofs about the intake of target transactions: the safety properties   *)
(* of Intake, each from an inductive invariant of the component it is      *)
(* about and a lemma that says which steps change that component's state.  *)
(***************************************************************************)
EXTENDS Intake, WellFoundedInduction, NaturalsInduction, TLAPS

-----------------------------------------------------------------------------
(* The drawdown protection.                                                *)

(* Only the snapshots and the change of the threshold touch it.            *)
LEMMA DrawdownSteps ==
  ASSUME [Next]_vars
  PROVE  /\ scenario' = scenario
         /\ firstSnapshot \/ snapshotCallback \/ savesThreshold \/ UNCHANGED drawdownVars
<1>0. scenario' = scenario
  BY Zenon DEF Next, vars
<1> SUFFICES firstSnapshot \/ snapshotCallback \/ savesThreshold \/ UNCHANGED drawdownVars
  BY <1>0, Zenon
<1>1. CASE UNCHANGED riskVars
  BY <1>1, Zenon DEF riskVars, drawdownVars
<1>2. CASE Controls
  BY <1>2, Zenon DEF Controls, RiskStep
<1>3. CASE Works
  <2>1. CASE handleEvent \/ openSends \/ closes
    BY <2>1, Zenon DEF handleEvent, openSends, closes
  <2>2. CASE copyThrows \/ openReads \/ changes
    BY <1>1, <2>2, Zenon DEF copyThrows, openReads, changes
  <2> QED BY <1>3, <2>1, <2>2, Zenon DEF Works, WorkStep
<1> QED BY <1>1, <1>2, <1>3, Zenon DEF Next, vars, Monitors, Approves, Lands, Delivers, Parses, timePasses

(* Two snapshots in a row were below the threshold.                        *)
LowTwice == \E i \in 1..Len(snapshots) - 1 : snapshots[i] /\ snapshots[i + 1]

LastLow == Len(snapshots) > 0 /\ snapshots[Len(snapshots)]

(* While the threshold is never changed, a warning stands for a low last   *)
(* snapshot: the next low one confirms it.                                 *)
Confirmed ==
  /\ snapshots \in Seq(BOOLEAN) /\ toggles \in Nat
  /\ thresholdOn \in BOOLEAN /\ drawdownWarning \in BOOLEAN /\ drawdownPaused \in BOOLEAN
  /\ scenario.toggles = 0 =>
       /\ thresholdOn
       /\ drawdownWarning /\ ~drawdownPaused => LastLow
       /\ drawdownPaused => LowTwice

LEMMA NextKeepsConfirmed ==
  ASSUME Confirmed, [Next]_vars
  PROVE  Confirmed'
<1>0. scenario' = scenario
  BY DrawdownSteps, Zenon
<1>1. CASE UNCHANGED drawdownVars
  BY <1>0, <1>1, Zenon DEF drawdownVars, Confirmed, LowTwice, LastLow
<1>2. CASE firstSnapshot
  BY <1>0, <1>2, Zenon DEF firstSnapshot, Confirmed, LowTwice, LastLow
<1>3. CASE savesThreshold
  <2>1. scenario.toggles # 0
    BY <1>3 DEF savesThreshold, Confirmed
  <2>2. toggles' \in Nat /\ thresholdOn' \in BOOLEAN
    BY <1>3 DEF savesThreshold, Confirmed
  <2> QED BY <1>0, <1>3, <2>1, <2>2, Zenon DEF savesThreshold, Confirmed
<1>4. CASE snapshotCallback
  <2>1. PICK low \in BOOLEAN :
          /\ snapshots' = Append(snapshots, low)
          /\ IF drawdownPaused \/ ~thresholdOn
             THEN UNCHANGED <<drawdownWarning, drawdownPaused>>
             ELSE checksDrawdown(low)
    BY <1>4, Zenon DEF snapshotCallback
  <2>2. /\ snapshots' \in Seq(BOOLEAN) /\ Len(snapshots) \in Nat
        /\ Len(snapshots') = Len(snapshots) + 1 /\ snapshots'[Len(snapshots')] = low
        /\ \A i \in 1..Len(snapshots) : snapshots'[i] = snapshots[i]
    BY <2>1 DEF Confirmed
  <2>3. toggles' = toggles /\ thresholdOn' = thresholdOn
    BY <1>4, Zenon DEF snapshotCallback
  <2>4. drawdownWarning' \in BOOLEAN /\ drawdownPaused' \in BOOLEAN
    BY <2>1, Zenon DEF checksDrawdown, Confirmed
  <2>5. LowTwice => LowTwice'
    <3>1. SUFFICES ASSUME LowTwice PROVE LowTwice'
      OBVIOUS
    <3>2. PICK i \in 1..Len(snapshots) - 1 : snapshots[i] /\ snapshots[i + 1]
      BY <3>1, Zenon DEF LowTwice
    <3>3. i \in 1..Len(snapshots') - 1 /\ i \in 1..Len(snapshots) /\ i + 1 \in 1..Len(snapshots)
      BY <2>2
    <3>4. snapshots'[i] /\ snapshots'[i + 1]
      BY <2>2, <3>2, <3>3, Zenon
    <3> QED BY <3>3, <3>4, Zenon DEF LowTwice
  <2>6. ASSUME LastLow, low
        PROVE  LowTwice'
    <3>1. Len(snapshots) \in 1..Len(snapshots') - 1 /\ Len(snapshots) \in 1..Len(snapshots)
      BY <2>2, <2>6 DEF LastLow
    <3>2. snapshots'[Len(snapshots)] /\ snapshots'[Len(snapshots) + 1]
      BY <2>2, <2>6, <3>1, Zenon DEF LastLow
    <3> QED BY <3>1, <3>2, Zenon DEF LowTwice
  <2>7. ASSUME scenario.toggles = 0, drawdownPaused'
        PROVE  LowTwice'
    BY <2>1, <2>5, <2>6, <2>7, Zenon DEF checksDrawdown, Confirmed
  <2>8. ASSUME scenario.toggles = 0, drawdownWarning', ~drawdownPaused'
        PROVE  LastLow'
    <3>1. low
      BY <2>1, <2>8, Zenon DEF checksDrawdown, Confirmed
    <3> QED BY <2>2, <3>1 DEF LastLow
  <2>9. scenario.toggles = 0 => thresholdOn'
    BY <2>3, Zenon DEF Confirmed
  <2>10. toggles' \in Nat /\ thresholdOn' \in BOOLEAN
    BY <2>3, Zenon DEF Confirmed
  <2> QED BY <1>0, <2>2, <2>4, <2>7, <2>8, <2>9, <2>10, Zenon DEF Confirmed
<1> QED BY <1>1, <1>2, <1>3, <1>4, DrawdownSteps, Zenon

(* The drawdown protection of index.ts pauses the opens only after two low *)
(* snapshots in a row, as long as nobody changes the threshold.            *)
THEOREM PausesAreConfirmed == Spec => []PauseIsConfirmed
<1>1. Init => Confirmed
  <2> SUFFICES ASSUME Init PROVE Confirmed
    OBVIOUS
  <2>1. snapshots = <<>> /\ toggles = 0
    BY Zenon DEF Init, RiskInit
  <2>2. thresholdOn = TRUE /\ drawdownWarning = FALSE /\ drawdownPaused = FALSE
    BY Zenon DEF Init, RiskInit
  <2>3. snapshots \in Seq(BOOLEAN) /\ toggles \in Nat
    BY <2>1
  <2> QED BY <2>2, <2>3, Zenon DEF Confirmed
<1>2. Confirmed /\ [Next]_vars => Confirmed'
  BY NextKeepsConfirmed, Zenon
<1>3. Confirmed => PauseIsConfirmed
  BY Zenon DEF Confirmed, LowTwice, PauseIsConfirmed
<1> QED BY <1>1, <1>2, <1>3, PTL DEF Spec

-----------------------------------------------------------------------------
(* The cooldown of a token.                                                *)

(* What changes streaks and cooldowns: a result that comes in, and a look  *)
(* at a cooldown that is over.                                             *)
LEMMA CooldownSteps ==
  ASSUME [Next]_vars
  PROVE  /\ scenario' = scenario
         /\ \/ fetchPositionPnl /\ time' = time
            \/ (\E token : ForgetsElapsed(token)) /\ time' = time
            \/ UNCHANGED <<tokenLossStreak, tokenCooldowns, results>> /\ time' \in {time, time + 1}
<1>0. scenario' = scenario
  BY Zenon DEF Next, vars
<1>1. CASE UNCHANGED riskVars /\ time' \in {time, time + 1}
  BY <1>0, <1>1, Zenon DEF riskVars
<1>2. CASE Controls
  BY <1>0, <1>2, Zenon DEF Controls, RiskStep, cooldownVars
<1>3. CASE Works
  <2>0. time' = time
    BY <1>3, Zenon DEF Works
  <2>1. CASE handleEvent
    BY <1>0, <2>0, <2>1, Zenon DEF handleEvent, cooldownVars
  <2>2. CASE openSends \/ closes
    BY <1>0, <2>0, <2>2, Zenon DEF openSends, closes, cooldownVars
  <2>3. CASE copyThrows \/ openReads \/ changes
    BY <1>1, <2>0, <2>3, Zenon DEF copyThrows, openReads, changes
  <2> QED BY <1>3, <2>1, <2>2, <2>3, Zenon DEF Works, WorkStep
<1> QED BY <1>1, <1>2, <1>3, Zenon DEF Next, vars, Monitors, Approves, Lands, Delivers, Parses, timePasses

(* A streak counts losses at the end of the results; a token cools down    *)
(* only while its streak has reached the limit.                            *)
LastAreLosses(t) ==
  /\ tokenLossStreak[t] <= Len(results[t])
  /\ \A i \in Len(results[t]) - tokenLossStreak[t] + 1 .. Len(results[t]) : results[t][i]
CoolsOnStreak(t) == tokenCooldowns[t] > time => tokenLossStreak[t] >= LossStreakLimit

CooldownTypes ==
  /\ time \in Nat
  /\ tokenLossStreak \in [Tokens -> Nat] /\ tokenCooldowns \in [Tokens -> Nat]
  /\ results \in [Tokens -> Seq(BOOLEAN)]
Streaks == CooldownTypes /\ \A t \in Tokens : LastAreLosses(t) /\ CoolsOnStreak(t)

LEMMA OneMoreResult ==
  ASSUME NEW s \in Seq(BOOLEAN), NEW loss \in BOOLEAN
  PROVE  /\ Append(s, loss) \in Seq(BOOLEAN) /\ Len(Append(s, loss)) = Len(s) + 1
         /\ Append(s, loss)[Len(s) + 1] = loss
         /\ \A i \in 1..Len(s) : Append(s, loss)[i] = s[i]
  OBVIOUS

LEMMA NextKeepsStreaks ==
  ASSUME Streaks, [Next]_vars
  PROVE  Streaks'
<1>0. scenario' = scenario /\ Tokens' = Tokens
  BY CooldownSteps, Zenon DEF Tokens
<1>t. CooldownTypes
  BY Zenon DEF Streaks
<1>l. LossStreakLimit \in Nat \ {0}
  BY IntakeAssumption, Zenon
(* What happens to one token leaves the others as they are.                *)
<1>o. ASSUME NEW token, time' = time, CooldownTypes',
             \A t \in Tokens \ {token} :
               /\ tokenLossStreak'[t] = tokenLossStreak[t] /\ tokenCooldowns'[t] = tokenCooldowns[t]
               /\ results'[t] = results[t],
             token \in Tokens => LastAreLosses(token)' /\ CoolsOnStreak(token)'
      PROVE  Streaks'
  <2>1. ASSUME NEW t \in Tokens \ {token}
        PROVE  LastAreLosses(t)' /\ CoolsOnStreak(t)'
    BY <1>o, <2>1, Zenon DEF Streaks, LastAreLosses, CoolsOnStreak
  <2> QED BY <1>0, <1>o, <2>1, Zenon DEF Streaks
<1>1. CASE UNCHANGED <<tokenLossStreak, tokenCooldowns, results>> /\ time' \in {time, time + 1}
  <2>1. CooldownTypes'
    BY <1>0, <1>1, <1>t DEF CooldownTypes
  <2>2. \A t \in Tokens : LastAreLosses(t)'
    BY <1>1, Zenon DEF Streaks, LastAreLosses
  <2>3. \A t \in Tokens : CoolsOnStreak(t)'
    BY <1>1, <1>t DEF Streaks, CoolsOnStreak, CooldownTypes
  <2> QED BY <1>0, <2>1, <2>2, <2>3, Zenon DEF Streaks
<1>2. ASSUME NEW token, ForgetsElapsed(token), time' = time
      PROVE  Streaks'
  <2>1. CASE UNCHANGED <<tokenLossStreak, tokenCooldowns>>
    BY <1>1, <1>2, <2>1, Zenon DEF ForgetsElapsed
  <2>2. CASE tokenCooldowns' = [tokenCooldowns EXCEPT ![token] = 0] /\ tokenLossStreak' = [tokenLossStreak EXCEPT ![token] = 0]
    <3>1. results' = results
      BY <1>2, Zenon DEF ForgetsElapsed
    <3>2. CooldownTypes'
      BY <1>0, <1>2, <1>t, <2>2, <3>1, Zenon DEF CooldownTypes
    <3>3. ASSUME token \in Tokens
          PROVE  LastAreLosses(token)' /\ CoolsOnStreak(token)'
      <4>1. tokenLossStreak'[token] = 0 /\ tokenCooldowns'[token] = 0 /\ Len(results'[token]) \in Nat
        BY <1>t, <2>2, <3>1, <3>3 DEF CooldownTypes
      <4>2. LastAreLosses(token)'
        BY <4>1 DEF LastAreLosses
      <4>3. CoolsOnStreak(token)'
        BY <1>2, <1>t, <4>1 DEF CoolsOnStreak, CooldownTypes
      <4> QED BY <4>2, <4>3, Zenon
    <3> QED BY <1>2, <1>o, <1>t, <2>2, <3>1, <3>2, <3>3, Zenon DEF CooldownTypes
  <2> QED BY <1>2, <2>1, <2>2, Zenon DEF ForgetsElapsed
<1>3. ASSUME NEW token, recordsLoss(token), results' = [results EXCEPT ![token] = Append(@, TRUE)], time' = time
      PROVE  Streaks'
  <2>1. CASE token \notin Tokens
    BY <1>1, <1>3, <1>t, <2>1, Zenon DEF recordsLoss, CooldownTypes
  <2>2. CASE token \in Tokens
    <3> DEFINE n == tokenLossStreak[token]
               res == results[token]
    <3>1. n \in Nat /\ res \in Seq(BOOLEAN) /\ Len(res) \in Nat
      BY <1>t, <2>2 DEF CooldownTypes
    <3>2. /\ tokenLossStreak' = [tokenLossStreak EXCEPT ![token] = n + 1]
          /\ tokenLossStreak'[token] = n + 1
      BY <1>3, <1>t, <2>2, Zenon DEF recordsLoss, CooldownTypes
    <3>3. results' = [results EXCEPT ![token] = Append(res, TRUE)] /\ results'[token] = Append(res, TRUE)
      BY <1>3, <1>t, <2>2, Zenon DEF CooldownTypes
    <3>4. /\ Append(res, TRUE) \in Seq(BOOLEAN) /\ Len(Append(res, TRUE)) = Len(res) + 1
          /\ Append(res, TRUE)[Len(res) + 1] = TRUE
          /\ \A i \in 1..Len(res) : Append(res, TRUE)[i] = res[i]
      <4> HIDE DEF res
      <4> QED BY <3>1, OneMoreResult, Zenon
    <3>5. \/ tokenCooldowns' = tokenCooldowns
          \/ tokenCooldowns' = [tokenCooldowns EXCEPT ![token] = time + COOLDOWN_HOURS] /\ n + 1 >= LossStreakLimit
      <4>1. \/ tokenCooldowns' = tokenCooldowns
            \/ /\ tokenCooldowns' = [tokenCooldowns EXCEPT ![token] = time + COOLDOWN_HOURS]
               /\ tokenLossStreak'[token] >= LossStreakLimit
        BY <1>3, Zenon DEF recordsLoss
      <4> QED BY <3>2, <4>1, Zenon
    <3>6. CooldownTypes'
      <4>1. tokenLossStreak' \in [Tokens -> Nat]
        BY <1>t, <3>1, <3>2 DEF CooldownTypes
      <4>2. tokenCooldowns' \in [Tokens -> Nat]
        BY <1>t, <3>5 DEF CooldownTypes, COOLDOWN_HOURS
      <4>3. results' \in [Tokens -> Seq(BOOLEAN)]
        BY <1>t, <3>3, <3>4, Zenon DEF CooldownTypes
      <4> QED BY <1>0, <1>3, <1>t, <4>1, <4>2, <4>3, Zenon DEF CooldownTypes
    <3>7. LastAreLosses(token)'
      <4>1. n <= Len(res) /\ \A i \in Len(res) - n + 1 .. Len(res) : res[i]
        BY <2>2, Zenon DEF Streaks, LastAreLosses
      <4>2. ASSUME NEW i \in Len(res) - n + 1 .. Len(res) + 1
            PROVE  Append(res, TRUE)[i]
        <5>1. CASE i = Len(res) + 1
          BY <3>4, <5>1, Zenon
        <5>2. CASE i # Len(res) + 1
          <6>1. i \in Len(res) - n + 1 .. Len(res) /\ i \in 1..Len(res)
            BY <3>1, <4>1, <5>2
          <6> QED BY <3>4, <4>1, <6>1, Zenon
        <5> QED BY <5>1, <5>2, Zenon
      <4>3. Len(res) + 1 - (n + 1) + 1 = Len(res) - n + 1 /\ n + 1 <= Len(res) + 1
        BY <3>1, <4>1
      <4> DEFINE longer == Append(res, TRUE)
      <4>4. /\ tokenLossStreak'[token] = n + 1 /\ results'[token] = longer /\ Len(longer) = Len(res) + 1
            /\ \A i \in Len(res) - n + 1 .. Len(res) + 1 : longer[i]
        BY <3>2, <3>3, <3>4, <4>2, Zenon
      <4> HIDE DEF longer, n, res
      <4>5. tokenLossStreak'[token] <= Len(results'[token])
        BY <4>3, <4>4, Zenon
      <4>6. Len(results'[token]) - tokenLossStreak'[token] + 1 = Len(res) - n + 1
        BY <3>1, <4>4
      <4>7. ASSUME NEW i \in Len(results'[token]) - tokenLossStreak'[token] + 1 .. Len(results'[token])
            PROVE  results'[token][i]
        <5>1. i \in Len(res) - n + 1 .. Len(res) + 1
          BY <4>4, <4>6, <4>7, Zenon
        <5> QED BY <4>4, <5>1, Zenon
      <4> QED BY <4>5, <4>7, Zenon DEF LastAreLosses
    <3>8. CoolsOnStreak(token)'
      <4>1. tokenCooldowns[token] > time => n >= LossStreakLimit
        BY <2>2, Zenon DEF Streaks, CoolsOnStreak
      <4>2. tokenCooldowns'[token] > time => n + 1 >= LossStreakLimit
        BY <1>l, <3>1, <3>5, <4>1
      <4>3. tokenLossStreak'[token] = n + 1
        BY <3>2, Zenon
      <4> HIDE DEF n
      <4> QED BY <1>3, <4>2, <4>3, Zenon DEF CoolsOnStreak
    <3>9. \A t \in Tokens \ {token} :
            /\ tokenLossStreak'[t] = tokenLossStreak[t] /\ tokenCooldowns'[t] = tokenCooldowns[t]
            /\ results'[t] = results[t]
      BY <1>t, <3>2, <3>3, <3>5, Zenon DEF CooldownTypes
    <3> QED BY <1>3, <1>o, <3>6, <3>7, <3>8, <3>9, Zenon
  <2> QED BY <2>1, <2>2, Zenon
<1>4. ASSUME NEW token, recordsProfit(token), results' = [results EXCEPT ![token] = Append(@, FALSE)], time' = time
      PROVE  Streaks'
  <2>1. CASE token \notin Tokens
    BY <1>1, <1>4, <1>t, <2>1, Zenon DEF recordsProfit, CooldownTypes
  <2>2. CASE token \in Tokens
    <3>1. results[token] \in Seq(BOOLEAN) /\ results' = [results EXCEPT ![token] = Append(results[token], FALSE)]
      BY <1>4, <1>t, <2>2, Zenon DEF CooldownTypes
    <3>2. Append(results[token], FALSE) \in Seq(BOOLEAN)
      BY <3>1
    <3>3. results' \in [Tokens -> Seq(BOOLEAN)]
      BY <1>t, <3>1, <3>2, Zenon DEF CooldownTypes
    <3>4. CooldownTypes'
      BY <1>0, <1>4, <1>t, <3>3, Zenon DEF recordsProfit, CooldownTypes
    <3>5. tokenLossStreak'[token] = 0 /\ tokenCooldowns'[token] = 0 /\ Len(results'[token]) \in Nat
      BY <1>4, <1>t, <2>2, <3>3 DEF recordsProfit, CooldownTypes
    <3>6. LastAreLosses(token)'
      BY <3>5 DEF LastAreLosses
    <3>7. CoolsOnStreak(token)'
      BY <1>4, <1>t, <3>5 DEF CoolsOnStreak, CooldownTypes
    <3>8. \A t \in Tokens \ {token} :
            /\ tokenLossStreak'[t] = tokenLossStreak[t] /\ tokenCooldowns'[t] = tokenCooldowns[t]
            /\ results'[t] = results[t]
      BY <1>4, <1>t, <3>1, Zenon DEF recordsProfit, CooldownTypes
    <3> QED BY <1>4, <1>o, <3>4, <3>6, <3>7, <3>8, Zenon
  <2> QED BY <2>1, <2>2, Zenon
<1>5. CASE fetchPositionPnl /\ time' = time
  BY <1>1, <1>3, <1>4, <1>5, Zenon DEF fetchPositionPnl
<1> QED BY <1>1, <1>2, <1>5, CooldownSteps, Zenon

(* A token of which a position was closed cools down (recordTokenPnl() of  *)
(* byreal-position.ts) only while its last LossStreakLimit results were    *)
(* losses: for every limit, and in whatever order the results come in.     *)
THEOREM CoolsOnlyAfterLosses == Spec => []CoolsAfterLosses
<1>1. Init => Streaks
  <2> SUFFICES ASSUME Init PROVE Streaks
    OBVIOUS
  <2>1. /\ tokenLossStreak = [t \in Tokens |-> 0] /\ tokenCooldowns = [t \in Tokens |-> 0]
        /\ results = [t \in Tokens |-> <<>>] /\ time = 0
    BY Zenon DEF Init, RiskInit, ScenarioInit
  <2>2. <<>> \in Seq(BOOLEAN) /\ Len(<<>>) = 0
    OBVIOUS
  <2>3. CooldownTypes
    BY <2>1, <2>2, Zenon DEF CooldownTypes
  <2>4. \A t \in Tokens : tokenLossStreak[t] = 0 /\ tokenCooldowns[t] = 0 /\ Len(results[t]) = 0
    BY <2>1, <2>2, Zenon
  <2> QED BY <2>1, <2>3, <2>4 DEF Streaks, LastAreLosses, CoolsOnStreak
<1>2. Streaks /\ [Next]_vars => Streaks'
  BY NextKeepsStreaks, Zenon
<1>3. Streaks => CoolsAfterLosses
  <2> SUFFICES ASSUME Streaks, NEW t \in Tokens, isTokenCoolingDown(t)
               PROVE  /\ Len(results[t]) >= LossStreakLimit
                      /\ \A i \in Len(results[t]) - LossStreakLimit + 1 .. Len(results[t]) : results[t][i]
    BY Zenon DEF CoolsAfterLosses
  <2>1. /\ tokenLossStreak[t] \in Nat /\ LossStreakLimit \in Nat /\ Len(results[t]) \in Nat
        /\ tokenLossStreak[t] >= LossStreakLimit /\ tokenLossStreak[t] <= Len(results[t])
    BY IntakeAssumption DEF Streaks, CooldownTypes, CoolsOnStreak, LastAreLosses, isTokenCoolingDown
  <2>2. \A i \in Len(results[t]) - LossStreakLimit + 1 .. Len(results[t]) :
          i \in Len(results[t]) - tokenLossStreak[t] + 1 .. Len(results[t])
    BY <2>1
  <2> QED BY <2>1, <2>2 DEF Streaks, LastAreLosses
<1> QED BY <1>1, <1>2, <1>3, PTL DEF Spec

-----------------------------------------------------------------------------
(* The decision on a pump token.                                           *)

(* Only the approval itself and an open that is skipped touch it.          *)
LEMMA PumpSteps ==
  ASSUME [Next]_vars
  PROVE  /\ scenario' = scenario
         /\ \/ (PumpStep \/ pumpSkips) /\ time' = time
            \/ UNCHANGED pumpVars /\ time' \in {time, time + 1}
<1>0. scenario' = scenario
  BY Zenon DEF Next, vars
<1>1. CASE UNCHANGED pumpVars /\ time' \in {time, time + 1}
  BY <1>0, <1>1, Zenon
<1>2. CASE Approves
  BY <1>0, <1>2, Zenon DEF Approves
<1>3. CASE Works
  <2>0. time' = time
    BY <1>3, Zenon DEF Works
  <2>1. CASE handleEvent \/ copyThrows \/ openSends \/ changes \/ closes
    BY <1>1, <2>0, <2>1, Zenon DEF handleEvent, copyThrows, openSends, changes, closes
  <2>2. CASE openReads
    BY <1>0, <1>1, <2>0, <2>2, Zenon DEF openReads
  <2> QED BY <1>3, <2>1, <2>2, Zenon DEF Works, WorkStep
<1> QED BY <1>1, <1>2, <1>3, Zenon DEF Next, vars, Monitors, Controls, Lands, Delivers, Parses, timePasses

Answer == [status : {"approved", "rejected"}, timestamp : Nat \cup {None}]
Entry == [detectedAt : Nat, status : {"pending", "approved", "rejected"}, byHand : BOOLEAN]
Poll == [at : {"expiry", "fetch", "apply", "delete"}, now : Nat, entry : Nat, data : Answer \cup {None}]

ApprovedByUser ==
  isPumpApproved /\ ~pumpEntry.byHand =>
    \E a \in answers : a.status = "approved" /\ (a.timestamp = None \/ a.timestamp >= pumpEntry.detectedAt)
ExpiredByAge == "others" \notin scenario.kinds => \A age \in expiries : age > EXPIRY_HOURS

(* What the worker keeps, and what a poll carries, is an answer that a     *)
(* user gave; and a poll waits before the test of an entry's age only if   *)
(* other tokens expire.                                                    *)
Decided ==
  /\ time \in Nat /\ answers \subseteq Answer
  /\ pumpEntry # None => pumpEntry \in Entry
  /\ kv # None => kv \in answers
  /\ poll # None => /\ poll \in Poll
                    /\ poll.data # None => poll.data \in answers
                    /\ poll.at = "expiry" => "others" \in scenario.kinds
  /\ ApprovedByUser /\ ExpiredByAge

(* resolvePump() keeps the invariant where what it decides is justified.   *)
LEMMA ResolveKeeps ==
  ASSUME Decided, NEW status \in {"approved", "rejected"}, NEW byHand \in BOOLEAN, resolvePump(status, byHand),
         answers' = answers,
         pumpEntry # None /\ status = "approved" /\ ~byHand =>
           \E a \in answers : a.status = "approved" /\ (a.timestamp = None \/ a.timestamp >= pumpEntry.detectedAt)
  PROVE  (pumpEntry' # None => pumpEntry' \in Entry) /\ ApprovedByUser'
<1>1. CASE pumpEntry = None
  BY <1>1, Zenon DEF resolvePump, ApprovedByUser, isPumpApproved
<1>2. CASE pumpEntry # None
  <2>1. pumpEntry \in Entry
    BY <1>2, Zenon DEF Decided
  <2>2. pumpEntry' = [pumpEntry EXCEPT !.status = status, !.byHand = byHand]
    BY <1>2, Zenon DEF resolvePump
  <2>3. /\ pumpEntry' \in Entry /\ pumpEntry'.status = status /\ pumpEntry'.byHand = byHand
        /\ pumpEntry'.detectedAt = pumpEntry.detectedAt
    BY <2>1, <2>2, Zenon DEF Entry
  <2> QED BY <1>2, <2>3, Zenon DEF ApprovedByUser, isPumpApproved
<1> QED BY <1>1, <1>2, Zenon

LEMMA NextKeepsDecided ==
  ASSUME Decided, [Next]_vars
  PROVE  Decided'
<1>0. scenario' = scenario
  BY PumpSteps, Zenon
<1>1. CASE UNCHANGED pumpVars /\ time' \in {time, time + 1}
  BY <1>0, <1>1 DEF pumpVars, Decided, ApprovedByUser, ExpiredByAge, isPumpApproved
<1> SUFFICES ASSUME PumpStep \/ pumpSkips, time' = time
             PROVE  Decided'
  BY <1>1, PumpSteps, Zenon
<1>n. ASSUME addPumpPending
      PROVE  pumpEntry' \in Entry /\ pumpEntry'.status = "pending"
  BY <1>n, Zenon DEF addPumpPending, Entry, Decided
(* The entry stays as it is, is made anew, deleted, or resolved by hand.   *)
<1>2. CASE pumpSkips
  <2>1. (pumpEntry' # None => pumpEntry' \in Entry) /\ ApprovedByUser'
    BY <1>2, <1>n, Zenon DEF pumpSkips, Decided, ApprovedByUser, isPumpApproved
  <2> QED BY <1>0, <1>2, <2>1, Zenon DEF pumpSkips, Decided, ExpiredByAge
<1>3. CASE userAnswers
  <2>1. PICK status \in {"approved", "rejected"}, timestamp \in {time, None} :
          kv' = [status |-> status, timestamp |-> timestamp] /\ answers' = answers \cup {kv'}
    BY <1>3, Zenon DEF userAnswers
  <2>2. kv' \in Answer /\ kv' \in answers' /\ answers' \subseteq Answer /\ answers \subseteq answers'
    BY <2>1 DEF Answer, Decided
  <2>3. ApprovedByUser'
    BY <1>3, <2>2, Zenon DEF userAnswers, Decided, ApprovedByUser, isPumpApproved
  <2> QED BY <1>0, <1>3, <2>2, <2>3, Zenon DEF userAnswers, Decided, ExpiredByAge
<1>4. CASE dashboardResolves
  <2>1. (pumpEntry' # None => pumpEntry' \in Entry) /\ ApprovedByUser'
    <3>1. ASSUME NEW status \in {"approved", "rejected"}, resolvePump(status, TRUE)
          PROVE  (pumpEntry' # None => pumpEntry' \in Entry) /\ ApprovedByUser'
      BY <1>4, <3>1, ResolveKeeps, Zenon DEF dashboardResolves
    <3> QED BY <1>4, <1>n, <3>1, Zenon DEF dashboardResolves, ApprovedByUser, isPumpApproved
  <2> QED BY <1>0, <1>4, <2>1, Zenon DEF dashboardResolves, Decided, ExpiredByAge
<1>5. CASE pollStarts
  <2>1. pumpEntry \in Entry
    BY <1>5, Zenon DEF pollStarts, Decided
  <2>2. poll' # None => poll' \in Poll /\ poll'.data = None /\ (poll'.at = "expiry" => "others" \in scenario.kinds)
    BY <1>5, <2>1 DEF pollStarts, Fault, Poll, Entry, Decided
  <2>3. (pumpEntry' # None => pumpEntry' \in Entry) /\ ApprovedByUser' /\ ExpiredByAge'
    <3>1. CASE UNCHANGED <<pumpEntry, tokenBlacklist, expiries>>
      BY <1>0, <1>5, <3>1, Zenon DEF pollStarts, Decided, ApprovedByUser, ExpiredByAge, isPumpApproved
    <3>2. CASE HasExpired(pumpEntry.detectedAt, time) /\ expires(pumpEntry.detectedAt, time)
      <4>1. resolvePump("rejected", FALSE) /\ answers' = answers
        BY <1>5, <3>2, Zenon DEF pollStarts, expires
      <4>2. expiries' = expiries \cup {time - pumpEntry.detectedAt} /\ time - pumpEntry.detectedAt > EXPIRY_HOURS
        BY <1>5, <3>2, Zenon DEF pollStarts, expires, HasExpired
      <4>3. (pumpEntry' # None => pumpEntry' \in Entry) /\ ApprovedByUser'
        BY <4>1, ResolveKeeps, Zenon
      <4>4. ExpiredByAge'
        BY <1>0, <4>2, Zenon DEF ExpiredByAge, Decided
      <4> QED BY <4>3, <4>4, Zenon
    <3> QED BY <1>5, <3>1, <3>2, Zenon DEF pollStarts, expires
  <2> QED BY <1>0, <1>5, <2>2, <2>3, Zenon DEF pollStarts, Decided
<1>6. CASE pollExpires
  <2>1. poll \in Poll /\ "others" \in scenario.kinds /\ answers' = answers
    BY <1>6, Zenon DEF pollExpires, Decided
  <2>2. poll' \in Poll /\ poll'.data = poll.data /\ poll'.at = "fetch"
    BY <1>6, <2>1, Zenon DEF pollExpires, Poll
  <2>3. (pumpEntry' # None => pumpEntry' \in Entry) /\ ApprovedByUser'
    <3>1. CASE UNCHANGED pumpEntry
      BY <2>1, <3>1, Zenon DEF Decided, ApprovedByUser, isPumpApproved
    <3>2. CASE resolvePump("rejected", FALSE)
      BY <2>1, <3>2, ResolveKeeps, Zenon
    <3> QED BY <1>6, <3>1, <3>2, Zenon DEF pollExpires, expires
  <2>4. ExpiredByAge'
    BY <1>0, <2>1, Zenon DEF ExpiredByAge
  <2> QED BY <1>0, <1>6, <2>1, <2>2, <2>3, <2>4, Zenon DEF pollExpires, Decided
<1>7. CASE pollFetches
  <2>1. poll \in Poll
    BY <1>7, Zenon DEF pollFetches, Decided
  <2>2. poll' # None => poll' \in Poll /\ poll'.data = kv /\ poll'.at = "apply"
    BY <1>7, <2>1, Zenon DEF pollFetches, Poll, Decided
  <2> QED BY <1>0, <1>7, <2>2, Zenon DEF pollFetches, Decided, ApprovedByUser, ExpiredByAge, isPumpApproved
<1>8. CASE pollApplies
  <2>1. poll \in Poll /\ answers' = answers
    BY <1>8, Zenon DEF pollApplies, Decided
  <2>2. poll' # None => poll' \in Poll /\ poll'.data = poll.data /\ poll'.at = "delete"
    BY <1>8, <2>1, Zenon DEF pollApplies, Poll
  <2>3. (pumpEntry' # None => pumpEntry' \in Entry) /\ ApprovedByUser'
    <3>1. CASE UNCHANGED pumpEntry
      BY <2>1, <3>1, Zenon DEF Decided, ApprovedByUser, isPumpApproved
    <3>2. CASE poll.data # None /\ IsFresh(poll.data) /\ resolvePump(poll.data.status, FALSE)
      <4>1. /\ poll.data \in answers /\ poll.data \in Answer
            /\ pumpEntry # None => poll.data.timestamp = None \/ poll.data.timestamp >= pumpEntry.detectedAt
        <5>1. poll.data \in answers /\ poll.data \in Answer
          BY <1>8, <3>2, Zenon DEF pollApplies, Decided
        <5>2. poll.data.timestamp \in Nat \cup {None} /\ (pumpEntry # None => pumpEntry.detectedAt \in Nat)
          BY <5>1, Zenon DEF Answer, Entry, Decided
        <5> QED BY <3>2, <5>1, <5>2 DEF IsFresh
      <4>2. poll.data.status \in {"approved", "rejected"}
        BY <4>1, Zenon DEF Answer
      <4> QED BY <2>1, <3>2, <4>1, <4>2, ResolveKeeps, Zenon
    <3> QED BY <1>8, <3>1, <3>2, Zenon DEF pollApplies
  <2> QED BY <1>0, <1>8, <2>1, <2>2, <2>3, Zenon DEF pollApplies, Decided, ExpiredByAge
<1>9. CASE pollDeletes
  BY <1>0, <1>9, Zenon DEF pollDeletes, Decided, ApprovedByUser, ExpiredByAge, isPumpApproved
<1> QED BY <1>2, <1>3, <1>4, <1>5, <1>6, <1>7, <1>8, <1>9, Zenon DEF PumpStep

(* The decision of pump-pending.ts on a token is one on this detection of  *)
(* it: it is approved only by hand or by a user's answer that does not say *)
(* that it was given before, however polls, answers, expiries and new      *)
(* detections interleave; and rejected for its age only after the hour,    *)
(* unless other tokens expire in the same poll.                            *)
THEOREM DecisionsAreCurrent == Spec => []DecisionIsCurrent
<1>1. Init => Decided
  BY DEF Init, PumpInit, ScenarioInit, Decided, ApprovedByUser, ExpiredByAge, isPumpApproved
<1>2. Decided /\ [Next]_vars => Decided'
  BY NextKeepsDecided, Zenon
<1>3. Decided => DecisionIsCurrent
  BY Zenon DEF Decided, ApprovedByUser, ExpiredByAge, DecisionIsCurrent
<1> QED BY <1>1, <1>2, <1>3, PTL DEF Spec

-----------------------------------------------------------------------------
(* The dispatch: its types.                                                *)

TxIndex == 1..Len(scenario.txs)
Work == [tx : TxIndex, left : SUBSET Nat, stage : {"handle", "copy", "send"}]
IsWork(w) == w \in Work /\ w.left # {} /\ w.left \subseteq DOMAIN Tx(w.tx).events

(* Only transactions of the scenario are notified, queued and worked on,   *)
(* and the work is on events of the transaction.                           *)
DispatchTypes ==
  /\ scenario \in Scenarios /\ landed \in 0..Len(scenario.txs)
  /\ \A n \in inFlight : n[2] \in TxIndex
  /\ accepted \in Seq(TxIndex) /\ processedSignatures \in Seq(TxIndex) /\ opQueue \in Seq(TxIndex)
  /\ current # None => IsWork(current)

(* The events of a transaction are about the scenario's positions.         *)
LEMMA EventFacts ==
  ASSUME scenario \in Scenarios, NEW i \in TxIndex
  PROVE  /\ DOMAIN Tx(i).events \subseteq Nat
         /\ \A j \in DOMAIN Tx(i).events : Tx(i).events[j].kind \in EventKinds /\ Tx(i).events[j].pos \in Positions
<1> DEFINE E == [kind : EventKinds, pos : Positions]
<1>1. Tx(i).events \in Seq(E)
  BY IntakeAssumption, Zenon DEF TxIndex, Tx, Positions
<1> HIDE DEF E
<1>2. DOMAIN Tx(i).events = 1..Len(Tx(i).events) /\ Len(Tx(i).events) \in Nat
  BY <1>1
<1>3. \A j \in DOMAIN Tx(i).events : Tx(i).events[j] \in E
  BY <1>1, <1>2
<1> QED BY <1>2, <1>3 DEF E

(* The event that is handled first is one of those left.                   *)
LEMMA LeastOfSet ==
  ASSUME NEW S \in SUBSET Nat, S # {}
  PROVE  \E x \in S : \A y \in S : x <= y
<1> DEFINE Below == OpToRel(<, Nat)
<1>1. IsWellFoundedOn(Below, Nat)
  BY NatLessThanWellFounded, Zenon
<1>2. PICK x \in S : \A y \in S : ~(<<y, x>> \in Below)
  <2> HIDE DEF Below
  <2> QED BY <1>1, WFMin, Zenon
<1>3. \A y \in S : x <= y
  <2>1. TAKE y \in S
  <2>2. ~(y < x)
    BY <1>2, Zenon DEF OpToRel
  <2> QED BY <2>2
<1> QED BY <1>3, Zenon

LEMMA FirstFacts ==
  ASSUME DispatchTypes, current # None
  PROVE  /\ First \in current.left /\ current.tx \in TxIndex /\ current.left \subseteq Nat
         /\ Event.kind \in EventKinds /\ Target \in Positions /\ Dex \in Dexes
<1>1. current \in Work /\ current.left # {} /\ current.left \subseteq DOMAIN Tx(current.tx).events
  BY Zenon DEF DispatchTypes, IsWork
<1>2. current.tx \in TxIndex /\ current.left \subseteq Nat
  BY <1>1, Zenon DEF Work
<1>3. First \in current.left
  BY <1>1, <1>2, LeastOfSet, Zenon DEF First
<1>4. Event.kind \in EventKinds /\ Target \in Positions
  BY <1>1, <1>2, <1>3, EventFacts, Zenon DEF DispatchTypes, Event, Target
<1>5. Dex \in Dexes
  BY <1>4, IntakeAssumption, Zenon DEF DispatchTypes, Dex, Pos, Positions
<1> QED BY <1>2, <1>3, <1>4, <1>5, Zenon

(* The work goes on with the events left.                                  *)
LEMMA GoesTypes ==
  ASSUME DispatchTypes, NEW i \in TxIndex, NEW left \in SUBSET DOMAIN Tx(i).events, Goes(i, left)
  PROVE  current' # None => IsWork(current')
<1>1. left \subseteq Nat
  BY EventFacts, Zenon DEF DispatchTypes
<1>2. CASE left # {}
  <2>1. current' = [tx |-> i, left |-> left, stage |-> "handle"]
    BY <1>2, Zenon DEF Goes
  <2> QED BY <1>1, <1>2, <2>1, Zenon DEF IsWork, Work
<1>3. CASE left = {}
  BY <1>3, Zenon DEF Goes
<1> QED BY <1>2, <1>3, Zenon

LEMMA NextEventTypes ==
  ASSUME DispatchTypes, current # None, NextEvent
  PROVE  /\ current' # None => IsWork(current') /\ current'.stage = "handle"
<1>1. current.tx \in TxIndex /\ current.left \ {First} \subseteq DOMAIN Tx(current.tx).events
  BY FirstFacts, Zenon DEF DispatchTypes, IsWork
<1>2. current' # None => IsWork(current')
  BY <1>1, GoesTypes, Zenon DEF NextEvent
<1> QED BY <1>2, Zenon DEF NextEvent, Goes

(* What one step of the work does to it: the next stage, the next event,   *)
(* or the end.                                                             *)
LEMMA WorkShape ==
  ASSUME WorkStep
  PROVE  /\ current # None
         /\ \/ current.stage = "handle" /\ current' = [current EXCEPT !.stage = "copy"]
            \/ current.stage = "copy" /\ current' = [current EXCEPT !.stage = "send"]
            \/ current' = None \/ NextEvent
<1>1. CASE handleEvent
  BY <1>1, Zenon DEF handleEvent, At
<1>2. CASE copyThrows
  BY <1>2, Zenon DEF copyThrows, At
<1>3. CASE openReads
  BY <1>3, Zenon DEF openReads, At
<1>4. CASE openSends \/ changes \/ closes
  BY <1>4, Zenon DEF openSends, changes, closes, At
<1> QED BY <1>1, <1>2, <1>3, <1>4, Zenon DEF WorkStep

LEMMA NextKeepsDispatchTypes ==
  ASSUME DispatchTypes, [Next]_vars
  PROVE  DispatchTypes'
<1>0. scenario' = scenario /\ TxIndex' = TxIndex /\ \A w : IsWork(w)' = IsWork(w)
  BY Zenon DEF Next, vars, TxIndex, IsWork, Work, Tx
<1>1. CASE UNCHANGED dispatchVars
  BY <1>0, <1>1, Zenon DEF dispatchVars, DispatchTypes
<1>2. CASE lands
  <2>1. landed + 1 \in TxIndex /\ landed' \in 0..Len(scenario.txs)
    BY <1>2, IntakeAssumption DEF lands, DispatchTypes, TxIndex
  <2>2. \A n \in inFlight' : n[2] \in TxIndex
    BY <1>2, <2>1 DEF lands, DispatchTypes
  <2> QED BY <1>0, <1>2, <2>1, <2>2, Zenon DEF lands, workVars, DispatchTypes
<1>3. CASE delivers
  <2>1. PICK n \in inFlight :
          /\ inFlight' \subseteq inFlight
          /\ TxCallback(n[2]) \/ UNCHANGED <<processedSignatures, accepted, opQueue>>
    BY <1>3, Zenon DEF delivers
  <2>2. n[2] \in TxIndex
    BY Zenon DEF DispatchTypes
  <2>3. accepted' \in Seq(TxIndex) /\ processedSignatures' \in Seq(TxIndex) /\ opQueue' \in Seq(TxIndex)
    <3> DEFINE i == n[2]
    <3>1. i \in TxIndex /\ accepted \in Seq(TxIndex) /\ processedSignatures \in Seq(TxIndex) /\ opQueue \in Seq(TxIndex)
      BY <2>2, Zenon DEF DispatchTypes
    <3> HIDE DEF i, TxIndex
    <3>2. /\ Append(accepted, i) \in Seq(TxIndex) /\ Append(opQueue, i) \in Seq(TxIndex)
          /\ Append(processedSignatures, i) \in Seq(TxIndex) /\ Append(processedSignatures, i) # <<>>
      BY <3>1
    <3>3. Evicted(Append(processedSignatures, i)) \in Seq(TxIndex)
      BY <3>2 DEF Evicted
    <3> QED BY <2>1, <3>1, <3>2, <3>3, Zenon DEF TxCallback, i
  <2> QED BY <1>0, <1>3, <2>1, <2>3, Zenon DEF delivers, DispatchTypes
<1>4. CASE parseTransaction
  <2>1. Head(opQueue) \in TxIndex /\ Tail(opQueue) \in Seq(TxIndex)
    BY <1>4 DEF parseTransaction, DispatchTypes
  <2>2. parsed(Head(opQueue)) \in SUBSET DOMAIN Tx(Head(opQueue)).events
    BY Zenon DEF parsed
  <2>3. current' # None => IsWork(current')
    BY <1>4, <2>1, <2>2, GoesTypes, Zenon DEF parseTransaction
  <2> QED BY <1>0, <1>4, <2>1, <2>3, Zenon DEF parseTransaction, DispatchTypes
<1>5. CASE WorkStep
  <2>1. current # None /\ IsWork(current)
    BY <1>5, WorkShape, Zenon DEF DispatchTypes
  <2>2. current' # None => IsWork(current')
    <3>1. \A stage \in {"copy", "send"} : IsWork([current EXCEPT !.stage = stage])
      BY <2>1, Zenon DEF IsWork, Work
    <3> QED BY <1>5, <2>1, <3>1, WorkShape, NextEventTypes, Zenon
  <2>3. UNCHANGED <<landed, inFlight, processedSignatures, accepted, opQueue>>
    BY <1>5, Zenon DEF WorkStep, handleEvent, copyThrows, openReads, openSends, changes, closes
  <2> QED BY <1>0, <2>2, <2>3, Zenon DEF DispatchTypes
<1> QED BY <1>1, <1>2, <1>3, <1>4, <1>5, Zenon
        DEF Next, vars, Monitors, Controls, Approves, Lands, Delivers, Parses, Works, timePasses

LEMMA InitDispatchTypes == Init => DispatchTypes
<1> SUFFICES ASSUME Init PROVE DispatchTypes
  OBVIOUS
<1>1. scenario \in Scenarios /\ Len(scenario.txs) \in Nat
  BY IntakeAssumption, Zenon DEF Init, ScenarioInit
<1>2. <<>> \in Seq(TxIndex)
  OBVIOUS
<1> QED BY <1>1, <1>2 DEF Init, DispatchInit, DispatchTypes

-----------------------------------------------------------------------------
(* The duplicate test.                                                     *)

(* The signatures remembered are the last ones taken, DedupSize of them    *)
(* as soon as that many were taken.                                        *)
RemembersLast ==
  /\ Len(processedSignatures) = IF Len(accepted) < DedupSize THEN Len(accepted) ELSE DedupSize
  /\ \A k \in 1..Len(processedSignatures) :
       processedSignatures[k] = accepted[Len(accepted) - Len(processedSignatures) + k]

LEMMA AcceptingSteps ==
  ASSUME [Next]_vars
  PROVE  \/ UNCHANGED <<processedSignatures, accepted>>
         \/ \E n \in inFlight : TxCallback(n[2])
<1>1. CASE delivers
  BY <1>1, Zenon DEF delivers
<1>2. CASE ~delivers
  BY <1>2, Zenon DEF Next, vars, Monitors, Controls, Approves, Lands, Delivers, Parses, Works, timePasses,
              dispatchVars, lands, parseTransaction, WorkStep
<1> QED BY <1>1, <1>2, Zenon

LEMMA NextKeepsTaken ==
  ASSUME DispatchTypes, RemembersLast, TakenOnce, [Next]_vars
  PROVE  RemembersLast' /\ TakenOnce'
<1>1. CASE UNCHANGED <<processedSignatures, accepted>>
  BY <1>1, Zenon DEF RemembersLast, TakenOnce
<1>2. ASSUME NEW i \in TxIndex, TxCallback(i), ~UNCHANGED <<processedSignatures, accepted>>
      PROVE  RemembersLast' /\ TakenOnce'
  <2> DEFINE seen == processedSignatures
             more == Append(seen, i)
             N == Len(accepted)
             L == Len(seen)
  <2>0. DedupSize \in Nat \ {0}
    BY IntakeAssumption, Zenon
  <2>1. seen \in Seq(TxIndex) /\ accepted \in Seq(TxIndex) /\ N \in Nat /\ L \in Nat
    BY DEF DispatchTypes
  <2>2. (\A k \in DOMAIN seen : seen[k] # i) /\ accepted' = Append(accepted, i) /\ processedSignatures' = Evicted(more)
    BY <1>2, Zenon DEF TxCallback
  <2>3. \A k \in 1..L : seen[k] # i
    BY <2>1, <2>2
  <2>4. L = (IF N < DedupSize THEN N ELSE DedupSize) /\ \A k \in 1..L : seen[k] = accepted[N - L + k]
    BY Zenon DEF RemembersLast
  <2>5. /\ more \in Seq(TxIndex) /\ more # <<>> /\ Len(more) = L + 1 /\ more[L + 1] = i
        /\ \A k \in 1..L : more[k] = seen[k]
    <3>1. more \in Seq(TxIndex) /\ Len(more) = L + 1
      BY <2>1
    <3>2. more[L + 1] = i
      BY <2>1
    <3>3. \A k \in 1..L : more[k] = seen[k]
      BY <2>1
    <3>4. more # <<>>
      BY <2>1, <3>1
    <3> QED BY <3>1, <3>2, <3>3, <3>4, Zenon
  <2>6. /\ Len(accepted') = N + 1 /\ accepted'[N + 1] = i
        /\ \A k \in 1..N : accepted'[k] = accepted[k]
    BY <2>1, <2>2
  <2>7. /\ Len(Tail(more)) = L /\ \A k \in 1..L : Tail(more)[k] = more[k + 1]
    BY <2>1, <2>5
  <2> HIDE DEF more, seen, N, L
  <2>8. RemembersLast'
    <3>1. CASE L = DedupSize
      <4>1. processedSignatures' = Tail(more)
        BY <2>0, <2>2, <2>5, <3>1 DEF Evicted
      <4>2. ASSUME NEW k \in 1..L
            PROVE  Tail(more)[k] = accepted'[N + 1 - L + k]
        <5>1. CASE k = L
          <6>1. Tail(more)[k] = more[L + 1]
            BY <2>7, <4>2, <5>1, Zenon
          <6>2. N + 1 - L + k = N + 1
            BY <2>1, <5>1
          <6> QED BY <2>5, <2>6, <6>1, <6>2, Zenon
        <5>2. CASE k # L
          <6>1. k + 1 \in 1..L /\ N - L + (k + 1) \in 1..N /\ N + 1 - L + k = N - L + (k + 1)
            <7>1. k \in Nat /\ k >= 1 /\ k + 1 <= L
              BY <2>1, <4>2, <5>2
            <7>2. N \in Nat /\ L \in Nat /\ L <= N
              BY <2>1, <2>4
            <7> QED BY <7>1, <7>2
          <6>2. Tail(more)[k] = seen[k + 1]
            BY <2>5, <2>7, <4>2, <6>1, Zenon
          <6> QED BY <2>4, <2>6, <6>1, <6>2, Zenon
        <5> QED BY <5>1, <5>2, Zenon
      <4>3. ~(N + 1 < DedupSize)
        BY <2>0, <2>1, <2>4, <3>1
      <4>4. Len(processedSignatures') = L
        BY <2>7, <4>1, Zenon
      <4>5. \A k \in 1..L : processedSignatures'[k] = accepted'[Len(accepted') - Len(processedSignatures') + k]
        <5>1. TAKE k \in 1..L
        <5>2. Len(accepted') - Len(processedSignatures') + k = N + 1 - L + k
          BY <2>1, <2>6, <4>4
        <5>3. processedSignatures'[k] = accepted'[N + 1 - L + k]
          BY <4>1, <4>2, Zenon
        <5> QED BY <5>2, <5>3, Zenon
      <4> QED BY <2>6, <3>1, <4>3, <4>4, <4>5, Zenon DEF RemembersLast
    <3>2. CASE L # DedupSize
      <4>1. L = N /\ N < DedupSize
        BY <2>0, <2>1, <2>4, <3>2, Zenon
      <4>2. processedSignatures' = more
        BY <2>0, <2>1, <2>2, <2>5, <4>1 DEF Evicted
      <4>3. ASSUME NEW k \in 1..N + 1
            PROVE  more[k] = accepted'[k]
        <5>1. CASE k = N + 1
          BY <2>5, <2>6, <4>1, <5>1, Zenon
        <5>2. CASE k # N + 1
          <6>1. k \in 1..N
            BY <2>1, <5>2
          <6>2. more[k] = accepted[N - L + k] /\ N - L + k = k
            BY <2>1, <2>4, <2>5, <4>1, <6>1
          <6> QED BY <2>6, <6>1, <6>2, Zenon
        <5> QED BY <5>1, <5>2, Zenon
      <4>4. Len(more) = N + 1 /\ (N + 1 < DedupSize \/ N + 1 = DedupSize)
        BY <2>0, <2>1, <2>5, <4>1
      <4>5. \A k \in 1..N + 1 : N + 1 - (N + 1) + k = k
        BY <2>1
      <4> QED BY <2>6, <4>2, <4>3, <4>4, <4>5 DEF RemembersLast
    <3> QED BY <3>1, <3>2, Zenon
  <2>9. TakenOnce'
    <3>1. SUFFICES ASSUME NEW a \in 1..N + 1, NEW b \in 1..N + 1, a < b, accepted'[a] = accepted'[b]
                   PROVE  b - a > DedupSize
      <4>1. DOMAIN accepted' = 1..N + 1
        BY <2>1, <2>2 DEF N
      <4> QED BY <4>1, Zenon DEF TakenOnce
    <3>2. CASE b = N + 1
      <4>1. a \in 1..N /\ accepted[a] = i
        BY <2>1, <2>6, <3>1, <3>2
      <4>2. ~(a > N - L)
        <5>1. SUFFICES ASSUME a > N - L PROVE FALSE
          OBVIOUS
        <5>2. a - (N - L) \in 1..L /\ N - L + (a - (N - L)) = a
          BY <2>1, <4>1, <5>1
        <5> QED BY <2>3, <2>4, <4>1, <5>2, Zenon
      <4> QED BY <2>0, <2>1, <2>4, <3>2, <4>1, <4>2
    <3>3. CASE b # N + 1
      <4>1. a \in 1..N /\ b \in 1..N
        BY <2>1, <3>1, <3>3
      <4>2. DOMAIN accepted = 1..N
        BY <2>1 DEF N
      <4>3. accepted[a] = accepted[b]
        BY <2>6, <3>1, <4>1, Zenon
      <4> QED BY <3>1, <4>1, <4>2, <4>3, Zenon DEF TakenOnce
    <3> QED BY <3>2, <3>3, Zenon
  <2> QED BY <2>8, <2>9, Zenon
<1>3. \A n \in inFlight : n[2] \in TxIndex
  BY Zenon DEF DispatchTypes
<1> QED BY <1>1, <1>2, <1>3, AcceptingSteps, Zenon

(* The duplicate test of index.ts: a signature is taken a second time only *)
(* when DedupSize others were taken in between, for every DedupSize and    *)
(* whatever connections and listeners notify it, and however often.        *)
THEOREM SignaturesTakenOnce == Spec => []TakenOnce
<1> DEFINE Inv == DispatchTypes /\ RemembersLast /\ TakenOnce
<1>1. Init => Inv
  <2> SUFFICES ASSUME Init PROVE Inv
    OBVIOUS
  <2>1. processedSignatures = <<>> /\ accepted = <<>> /\ DedupSize \in Nat \ {0}
    BY IntakeAssumption, Zenon DEF Init, DispatchInit
  <2>2. RemembersLast /\ TakenOnce
    BY <2>1 DEF RemembersLast, TakenOnce
  <2> QED BY <2>2, InitDispatchTypes, Zenon
<1>2. Inv /\ [Next]_vars => Inv'
  BY NextKeepsDispatchTypes, NextKeepsTaken, Zenon
<1> QED BY <1>1, <1>2, PTL DEF Spec

-----------------------------------------------------------------------------
(* The referers of the positions copied.                                   *)

RefererTypes ==
  positionMap \subseteq Positions /\ openedReferers \in [Referers -> Positions \cup {None}]

(* An open that passed the test on its referer keeps it unmapped: nothing  *)
(* else is copied before it is sent.                                       *)
OpenOf(r) ==
  /\ current # None /\ current.stage \in {"copy", "send"}
  /\ Event.kind = "open" /\ Dex = "byreal" /\ r # None /\ Pos(Target).referer = r
OpensUnmapped == NoAllowLists => \A r \in Referers : OpenOf(r) => openedReferers[r] = None
SendsOpens == current # None /\ current.stage = "send" => Event.kind = "open"

Refers == RefererTypes /\ OpensUnmapped /\ SendsOpens /\ ReferersMatchMapping

LEMMA NextKeepsRefers ==
  ASSUME DispatchTypes, Refers, [Next]_vars
  PROVE  Refers'
<1>0. /\ scenario' = scenario /\ Positions' = Positions /\ Referers' = Referers
      /\ NoAllowLists' = NoAllowLists /\ \A p : Pos(p)' = Pos(p)
  BY Zenon DEF Next, vars, Positions, Referers, Pos, NoAllowLists
<1>1. scenario \in Scenarios /\ None \notin Positions
  BY IntakeAssumption, Zenon DEF DispatchTypes, Positions
<1>2. ASSUME UNCHANGED <<positionMap, openedReferers>>
      PROVE  RefererTypes' /\ ReferersMatchMapping'
  BY <1>0, <1>2, Zenon DEF Refers, RefererTypes, ReferersMatchMapping
<1>3. ASSUME UNCHANGED <<positionMap, openedReferers>>, current' = None \/ current'.stage = "handle"
      PROVE  Refers'
  BY <1>2, <1>3, Zenon DEF Refers, OpensUnmapped, OpenOf, SendsOpens
<1>4. ASSUME UNCHANGED <<positionMap, openedReferers, current>>
      PROVE  Refers'
  <2>1. current # None => Event' = Event /\ Target' = Target /\ Dex' = Dex
    BY <1>0, <1>4, Zenon DEF Event, Target, Dex, First, Tx, Pos
  <2> QED BY <1>0, <1>2, <1>4, <2>1, Zenon DEF Refers, OpensUnmapped, OpenOf, SendsOpens, Pos
<1>5. ASSUME NEW stage \in {"copy", "send"}, current # None,
             current' = [current EXCEPT !.stage = stage], UNCHANGED <<positionMap, openedReferers>>,
             stage = "send" => Event.kind = "open",
             NoAllowLists => \A r \in Referers :
               Event.kind = "open" /\ Dex = "byreal" /\ Pos(Target).referer = r => openedReferers[r] = None
      PROVE  Refers'
  <2>1. current \in Work
    BY <1>5, Zenon DEF DispatchTypes, IsWork
  <2>2. current'.tx = current.tx /\ current'.left = current.left /\ current'.stage = stage
    BY <1>5, <2>1, Zenon DEF Work
  <2>3. Event' = Event /\ Target' = Target /\ Dex' = Dex
    BY <1>0, <2>2, Zenon DEF Event, Target, Dex, First, Tx, Pos
  <2>4. OpensUnmapped'
    BY <1>0, <1>5, <2>3, Zenon DEF OpensUnmapped, OpenOf, Pos
  <2>5. SendsOpens'
    BY <1>5, <2>2, <2>3, Zenon DEF SendsOpens
  <2> QED BY <1>2, <1>5, <2>4, <2>5, Zenon DEF Refers
<1>6. ASSUME NextEvent
      PROVE  current' = None \/ current'.stage = "handle"
  BY <1>6, Zenon DEF NextEvent, Goes
<1>7. CASE handleEvent
  <2>1. current # None /\ UNCHANGED <<positionMap, openedReferers>>
    BY <1>7, Zenon DEF handleEvent, At
  <2>2. CASE Copied(Dex, Event.kind) /\ current' = [current EXCEPT !.stage = "copy"]
    <3>1. ASSUME NoAllowLists, NEW r \in Referers, Event.kind = "open", Dex = "byreal", Pos(Target).referer = r
          PROVE  openedReferers[r] = None
      <4>1. byrealOpens
        BY <2>2, <3>1, Zenon DEF Copied
      <4>2. r # None
        BY Zenon DEF Referers
      <4> QED BY <3>1, <4>1, <4>2, Zenon DEF byrealOpens, isRefererDuplicate, NoAllowLists
    <3> QED BY <1>5, <2>1, <2>2, <3>1, Zenon
  <2>3. CASE NextEvent
    BY <1>3, <1>6, <2>1, <2>3, Zenon
  <2> QED BY <1>7, <2>2, <2>3, Zenon DEF handleEvent
<1>8. CASE openReads
  <2>1. current # None /\ current.stage = "copy" /\ Event.kind = "open" /\ UNCHANGED <<positionMap, openedReferers>>
    BY <1>8, Zenon DEF openReads, At
  <2>2. CASE current' = [current EXCEPT !.stage = "send"]
    <3>1. NoAllowLists => \A r \in Referers :
            Event.kind = "open" /\ Dex = "byreal" /\ Pos(Target).referer = r => openedReferers[r] = None
      BY <2>1, Zenon DEF Refers, OpensUnmapped, OpenOf, Referers
    <3> QED BY <1>5, <2>1, <2>2, <3>1, Zenon
  <2>3. CASE NextEvent
    BY <1>3, <1>6, <2>1, <2>3, Zenon
  <2> QED BY <1>8, <2>2, <2>3, Zenon DEF openReads
<1>9. CASE openSends
  <2>1. current # None /\ current.stage = "send" /\ NextEvent
    BY <1>9, Zenon DEF openSends, At
  <2>2. CASE UNCHANGED <<positionMap, openedReferers>>
    BY <1>3, <1>6, <2>1, <2>2, Zenon
  <2>3. CASE positionMap' = positionMap \cup {Target} /\ openedReferers' = addOpenedReferer
    <3>1. Target \in Positions /\ Event.kind = "open"
      BY <2>1, FirstFacts, Zenon DEF Refers, SendsOpens
    <3>2. Pos(Target).referer # None => Pos(Target).referer \in Referers
      BY <3>1, Zenon DEF Referers
    <3>3. RefererTypes'
      <4>1. positionMap' \subseteq Positions
        BY <2>3, <3>1, Zenon DEF Refers, RefererTypes
      <4>2. openedReferers' \in [Referers -> Positions \cup {None}]
        BY <2>3, <3>1, <3>2, Zenon DEF addOpenedReferer, Refers, RefererTypes
      <4> QED BY <1>0, <4>1, <4>2, Zenon DEF RefererTypes
    <3>4. ASSUME NoAllowLists
          PROVE  ReferersMatchMapping'
      <4> DEFINE t == Target
                 f == Pos(Target).referer
      <4>1. /\ openedReferers \in [Referers -> Positions \cup {None}]
            /\ \A r \in Referers : openedReferers[r] # None => openedReferers[r] \in positionMap
            /\ \A p \in positionMap :
                 (Pos(p).dex = "byreal" /\ Pos(p).referer # None) => openedReferers[Pos(p).referer] = p
        BY <3>4, Zenon DEF Refers, RefererTypes, ReferersMatchMapping
      <4>2. positionMap' = positionMap \cup {t}
        BY <2>3, Zenon
      <4>3. CASE Dex = "byreal" /\ f # None
        <5>1. f \in Referers /\ openedReferers[f] = None /\ openedReferers' = [openedReferers EXCEPT ![f] = t]
          BY <2>1, <2>3, <3>1, <3>2, <3>4, <4>3, Zenon DEF addOpenedReferer, Refers, OpensUnmapped, OpenOf
        <5>2. t \in Positions /\ Pos(t).referer = f /\ positionMap \subseteq Positions
          BY <3>1, Zenon DEF Refers, RefererTypes
        <5> HIDE DEF t, f
        <5>3. \A r \in Referers : openedReferers'[r] # None => openedReferers'[r] \in positionMap'
          BY <4>1, <4>2, <5>1, Zenon
        <5>4. ASSUME NEW p \in positionMap', Pos(p).dex = "byreal", Pos(p).referer # None
              PROVE  openedReferers'[Pos(p).referer] = p
          <6>1. CASE p = t
            BY <4>1, <5>1, <5>2, <6>1, Zenon
          <6>2. CASE p \in positionMap
            <7>1. p # None /\ openedReferers[Pos(p).referer] = p /\ Pos(p).referer \in Referers
              BY <1>1, <4>1, <5>2, <5>4, <6>2, Zenon DEF Referers
            <7>2. Pos(p).referer # f
              BY <5>1, <7>1, Zenon
            <7> QED BY <4>1, <5>1, <7>1, <7>2, Zenon
          <6> QED BY <4>2, <5>4, <6>1, <6>2, Zenon
        <5> QED BY <1>0, <5>3, <5>4, Zenon DEF ReferersMatchMapping, Pos
      <4>4. CASE ~(Dex = "byreal" /\ f # None)
        <5>1. openedReferers' = openedReferers /\ ~(Pos(t).dex = "byreal" /\ Pos(t).referer # None)
          BY <2>3, <4>4, Zenon DEF addOpenedReferer, Dex
        <5> HIDE DEF t, f
        <5> QED BY <1>0, <4>1, <4>2, <5>1, Zenon DEF ReferersMatchMapping, Pos
      <4> QED BY <4>3, <4>4, Zenon
    <3>5. ReferersMatchMapping'
      BY <1>0, <3>4, Zenon DEF ReferersMatchMapping
    <3> QED BY <1>6, <2>1, <3>3, <3>5, Zenon DEF Refers, OpensUnmapped, OpenOf, SendsOpens
  <2> QED BY <1>9, <2>2, <2>3, Zenon DEF openSends
<1>10. CASE closes
  <2>1. current # None /\ NextEvent
    BY <1>10, Zenon DEF closes, At
  <2>2. CASE UNCHANGED <<positionMap, openedReferers>>
    BY <1>3, <1>6, <2>1, <2>2, Zenon
  <2>3. CASE positionMap' = positionMap \ {Target} /\ openedReferers' = removeOpenedRefererByTargetNft(Target)
    <3> DEFINE t == Target
    <3>1. /\ t \in Positions /\ positionMap' = positionMap \ {t}
          /\ openedReferers' = [r \in Referers |-> IF openedReferers[r] = t THEN None ELSE openedReferers[r]]
      BY <2>1, <2>3, FirstFacts, Zenon DEF removeOpenedRefererByTargetNft
    <3> HIDE DEF t
    <3>2. RefererTypes'
      BY <1>0, <3>1, Zenon DEF Refers, RefererTypes
    <3>3. ReferersMatchMapping'
      <4>1. SUFFICES ASSUME NoAllowLists
                     PROVE  /\ \A r \in Referers : openedReferers'[r] # None => openedReferers'[r] \in positionMap'
                            /\ \A p \in positionMap' :
                                 (Pos(p).dex = "byreal" /\ Pos(p).referer # None) => openedReferers'[Pos(p).referer] = p
        BY <1>0, Zenon DEF ReferersMatchMapping, Pos
      <4>2. /\ openedReferers \in [Referers -> Positions \cup {None}] /\ positionMap \subseteq Positions
            /\ \A r \in Referers : openedReferers[r] # None => openedReferers[r] \in positionMap
            /\ \A p \in positionMap :
                 (Pos(p).dex = "byreal" /\ Pos(p).referer # None) => openedReferers[Pos(p).referer] = p
        BY <4>1, Zenon DEF Refers, RefererTypes, ReferersMatchMapping
      <4>3. \A r \in Referers : openedReferers'[r] # None => openedReferers'[r] \in positionMap'
        BY <3>1, <4>2, Zenon
      <4>4. ASSUME NEW p \in positionMap', Pos(p).dex = "byreal", Pos(p).referer # None
            PROVE  openedReferers'[Pos(p).referer] = p
        <5>1. p \in positionMap /\ p # t /\ Pos(p).referer \in Referers
          BY <3>1, <4>2, <4>4, Zenon DEF Referers
        <5> QED BY <3>1, <4>2, <4>4, <5>1, Zenon
      <4> QED BY <4>3, <4>4, Zenon
    <3> QED BY <1>6, <2>1, <3>2, <3>3, Zenon DEF Refers, OpensUnmapped, OpenOf, SendsOpens
  <2> QED BY <1>10, <2>2, <2>3, Zenon DEF closes
<1>11. CASE copyThrows \/ changes
  BY <1>3, <1>6, <1>11, Zenon DEF copyThrows, changes
<1>12. CASE parseTransaction
  BY <1>3, <1>12 DEF parseTransaction, Goes
<1>13. CASE UNCHANGED dispatchVars \/ lands \/ delivers
  BY <1>4, <1>13, Zenon DEF dispatchVars, workVars, lands, delivers
<1> QED BY <1>7, <1>8, <1>9, <1>10, <1>11, <1>12, <1>13, Zenon
        DEF Next, vars, Monitors, Controls, Approves, Lands, Delivers, Parses, Works, WorkStep, timePasses

(* opened-referers-store.ts: where the settings allow no second copy, the  *)
(* referers recorded are those of the positions mapped: no referer is      *)
(* copied twice and none stays blocked after the close of its copy,        *)
(* whatever the transactions, the order they are notified in and the       *)
(* copies that fail.                                                       *)
THEOREM ReferersAlwaysMatch == Spec => []ReferersMatchMapping
<1> DEFINE Inv == DispatchTypes /\ Refers
<1>1. Init => Inv
  <2> SUFFICES ASSUME Init PROVE Inv
    OBVIOUS
  <2>1. current = None /\ positionMap = {} /\ openedReferers = [r \in Referers |-> None]
    BY Zenon DEF Init, DispatchInit
  <2>2. Refers
    BY <2>1, Zenon DEF Refers, RefererTypes, OpensUnmapped, OpenOf, SendsOpens, ReferersMatchMapping
  <2> QED BY <2>2, InitDispatchTypes, Zenon
<1>2. Inv /\ [Next]_vars => Inv'
  BY NextKeepsDispatchTypes, NextKeepsRefers, Zenon
<1> QED BY <1>1, <1>2, PTL DEF Spec, Refers

-----------------------------------------------------------------------------
(* The subscriptions.                                                      *)

MonitorTypes ==
  /\ scenario \in Scenarios /\ connection \in Conns
  /\ listeners = [c \in Conns |-> listeners[c]]

(* There are listeners on one connection at most, the current one, and     *)
(* the ids remembered are theirs: what subscribe() removes is what is      *)
(* there.  During the sleep of a reconnection there are none.              *)
OneSubscription ==
  ~overlapped =>
    /\ subscriptionIds \in {None, connection}
    /\ reconnecting => subscriptionIds = None
    /\ \A c \in Conns : c # subscriptionIds => listeners[c] = {}
    /\ settings.valid /\ "refused" \notin scenario.kinds => listeners[connection] \subseteq getAllMonitoredWallets

LEMMA ConnFacts ==
  ASSUME scenario \in Scenarios
  PROVE  /\ MaxConns \in Nat /\ 1 \in Conns /\ None \notin Conns /\ Conns \subseteq Nat
         /\ \A c \in Conns : c < MaxConns => c + 1 \in Conns /\ c + 1 # c
<1>1. scenario.faults \in Nat /\ scenario.edits \in Nat /\ MaxRetries \in Nat /\ None \notin Nat
  BY IntakeAssumption, Zenon
<1>2. MaxConns \in Nat /\ MaxConns >= 2
  BY <1>1 DEF MaxConns
<1> QED BY <1>1, <1>2 DEF Conns

(* After the listeners of the current connection are removed there are     *)
(* none.                                                                   *)
LEMMA RemovalClears ==
  ASSUME MonitorTypes, OneSubscription, ~overlapped
  PROVE  \A c \in Conns : removeAllSubscriptions(connection)[c] = {}
<1>1. subscriptionIds \in {None, connection} /\ \A c \in Conns : c # subscriptionIds => listeners[c] = {}
  BY Zenon DEF OneSubscription
<1>2. CASE subscriptionIds = connection
  BY <1>1, <1>2, Zenon DEF removeAllSubscriptions, MonitorTypes
<1>3. CASE subscriptionIds # connection
  <2>1. \A c \in Conns : c # subscriptionIds
    BY <1>1, <1>3, ConnFacts, Zenon DEF MonitorTypes
  <2> QED BY <1>1, <1>3, <2>1, Zenon DEF removeAllSubscriptions
<1> QED BY <1>2, <1>3, Zenon

LEMMA NextKeepsMonitorTypes ==
  ASSUME MonitorTypes, [Next]_vars
  PROVE  MonitorTypes'
<1>0. scenario' = scenario /\ Conns' = Conns
  BY Zenon DEF Next, vars, Conns, MaxConns
<1>1. \A c \in Conns :
        removeAllSubscriptions(c) = [d \in Conns |-> removeAllSubscriptions(c)[d]]
  BY Zenon DEF removeAllSubscriptions, MonitorTypes
<1>2. ASSUME NEW c \in Conns, subscribe(c) \/ subscribeThrows(c)
      PROVE  listeners' = [d \in Conns |-> listeners'[d]]
  BY <1>1, <1>2, Zenon DEF subscribe, subscribeThrows
<1>3. CASE UNCHANGED <<connection, listeners>>
  BY <1>0, <1>3, Zenon DEF MonitorTypes
<1>4. CASE startHeartbeat
  BY <1>0, <1>1, <1>4, Zenon DEF startHeartbeat, MonitorTypes
<1>5. CASE reconnect
  <2>1. connection' = connection + 1 /\ connection + 1 \in Conns
    BY <1>5, ConnFacts, Zenon DEF reconnect, MonitorTypes
  <2>2. subscribe(connection + 1) \/ subscribeThrows(connection + 1)
    BY <1>5, Zenon DEF reconnect
  <2> QED BY <1>0, <1>2, <2>1, <2>2, Zenon DEF MonitorTypes
<1>6. CASE resubscribe
  <2>1. connection' = connection /\ connection \in Conns
    BY <1>6, Zenon DEF resubscribe, MonitorTypes
  <2>2. \/ subscribe(connection) \/ subscribeThrows(connection)
        \/ listeners' = removeAllSubscriptions(connection) \/ UNCHANGED listeners
    BY <1>6, Zenon DEF resubscribe
  <2> QED BY <1>0, <1>1, <1>2, <2>1, <2>2, Zenon DEF MonitorTypes
<1>7. CASE becomesZombie \/ silencePasses \/ delivers
  BY <1>3, <1>7, Zenon DEF becomesZombie, silencePasses, delivers, eventArrives, monitorVars
<1> QED BY <1>3, <1>4, <1>5, <1>6, <1>7, Zenon
        DEF Next, vars, Monitors, Controls, Approves, Lands, Delivers, Parses, Works, timePasses,
            MonitorStep, monitorVars

LEMMA NextKeepsOneSubscription ==
  ASSUME MonitorTypes, OneSubscription, [Next]_vars
  PROVE  OneSubscription'
<1>0. scenario' = scenario /\ Conns' = Conns
  BY Zenon DEF Next, vars, Conns, MaxConns
<1> DEFINE wallets == getAllMonitoredWallets'
<1>1. ASSUME UNCHANGED <<connection, listeners, subscriptionIds, reconnecting, settings, overlapped>>
      PROVE  OneSubscription'
  BY <1>0, <1>1, Zenon DEF OneSubscription, getAllMonitoredWallets
(* The listeners are removed and those of some wallets are added on c.     *)
<1>2. ASSUME NEW c \in Conns, connection' = c, subscriptionIds' = c, ~reconnecting',
             \A d \in Conns : removeAllSubscriptions(c)[d] = {},
             NEW some \in SUBSET wallets,
             listeners' = [removeAllSubscriptions(c) EXCEPT ![c] = @ \cup some]
      PROVE  OneSubscription'
  <2> HIDE DEF wallets
  <2>1. removeAllSubscriptions(c) = [d \in Conns |-> removeAllSubscriptions(c)[d]]
    BY Zenon DEF removeAllSubscriptions, MonitorTypes
  <2>2. \A d \in Conns : listeners'[d] = IF d = c THEN some ELSE {}
    BY <1>2, <2>1, Zenon
  <2>3. \A d \in Conns : d # c => listeners'[d] = {}
    BY <2>2, Zenon
  <2>4. listeners'[c] \subseteq getAllMonitoredWallets'
    BY <1>2, <2>2, Zenon DEF wallets
  <2> QED BY <1>0, <1>2, <2>3, <2>4, Zenon DEF OneSubscription
(* They are removed, and a reconnection sleeps or the bot exits.           *)
<1>3. ASSUME ~overlapped, listeners' = removeAllSubscriptions(connection), subscriptionIds' = None,
             UNCHANGED connection
      PROVE  OneSubscription'
  <2>1. \A c \in Conns : listeners'[c] = {}
    BY <1>3, RemovalClears, Zenon
  <2> QED BY <1>0, <1>3, <2>1, Zenon DEF OneSubscription, MonitorTypes
<1>4. CASE startHeartbeat
  BY <1>3, <1>4, Zenon DEF startHeartbeat, OneSubscription
<1>5. CASE reconnect
  <2>1. SUFFICES ASSUME ~overlapped PROVE OneSubscription'
    BY <1>5, Zenon DEF reconnect, OneSubscription
  <2> DEFINE c == connection + 1
  <2>2. c \in Conns /\ c # connection /\ connection' = c /\ ~reconnecting'
    BY <1>5, ConnFacts, Zenon DEF reconnect, MonitorTypes
  <2>3. subscriptionIds = None /\ \A d \in Conns : listeners[d] = {}
    BY <1>5, <2>1, ConnFacts, Zenon DEF reconnect, OneSubscription, MonitorTypes
  <2>4. \A d \in Conns : removeAllSubscriptions(c)[d] = {}
    BY <2>2, <2>3, ConnFacts, Zenon DEF removeAllSubscriptions, MonitorTypes
  <2>5. /\ subscriptionIds' = c
        /\ \E some \in SUBSET wallets : listeners' = [removeAllSubscriptions(c) EXCEPT ![c] = @ \cup some]
    BY <1>5, Zenon DEF reconnect, subscribe, subscribeThrows
  <2> HIDE DEF c, wallets
  <2> QED BY <1>2, <2>2, <2>4, <2>5, Zenon
<1>6. CASE resubscribe
  <2>1. SUFFICES ASSUME ~overlapped' PROVE OneSubscription'
    BY Zenon DEF OneSubscription
  <2>2. ~overlapped /\ connection' = connection /\ connection \in Conns
    <3>1. overlapped' = (overlapped \/ reconnecting) \/ overlapped' = TRUE \/ overlapped' = overlapped
      BY <1>6, Zenon DEF resubscribe
    <3>2. ~overlapped
      BY <2>1, <3>1, Zenon
    <3> QED BY <1>6, <3>2, Zenon DEF resubscribe, MonitorTypes
  <2>3. CASE subscribe(connection) /\ overlapped' = (overlapped \/ reconnecting) /\ UNCHANGED reconnecting
    <3>1. ~reconnecting' /\ \A d \in Conns : removeAllSubscriptions(connection)[d] = {}
      BY <2>1, <2>2, <2>3, RemovalClears, Zenon
    <3>2. /\ subscriptionIds' = connection
          /\ listeners' = [removeAllSubscriptions(connection) EXCEPT ![connection] = @ \cup wallets]
      BY <2>3, Zenon DEF subscribe
    <3> HIDE DEF wallets
    <3> QED BY <1>2, <2>2, <3>1, <3>2, Zenon
  <2>4. CASE listeners' = removeAllSubscriptions(connection) /\ subscriptionIds' = None
    BY <1>3, <2>2, <2>4, Zenon
  <2>5. CASE /\ settings'.valid => "refused" \in scenario.kinds
             /\ UNCHANGED <<listeners, subscriptionIds, reconnecting>>
    BY <1>0, <2>2, <2>5, Zenon DEF OneSubscription
  <2> QED BY <1>6, <2>1, <2>3, <2>4, <2>5, Zenon DEF resubscribe, Fault
<1>7. CASE becomesZombie \/ silencePasses \/ delivers
  BY <1>1, <1>7, Zenon DEF becomesZombie, silencePasses, delivers, eventArrives, monitorVars
<1> QED BY <1>1, <1>4, <1>5, <1>6, <1>7, Zenon
        DEF Next, vars, Monitors, Controls, Approves, Lands, Delivers, Parses, Works, timePasses,
            MonitorStep, monitorVars

(* websocket.ts: however connections fail, zombies are replaced and        *)
(* settings are saved, no listener is left for a wallet that is not in     *)
(* the settings, as long as no settings were saved during the sleep of a   *)
(* reconnection, the settings parse and no request that replaced the       *)
(* wallets was refused for another field.                                  *)
THEOREM OnlyTargetsHeard == Spec => []ListensOnlyToTargets
<1> DEFINE Inv == MonitorTypes /\ OneSubscription
<1>1. Init => Inv
  <2> SUFFICES ASSUME Init PROVE Inv
    OBVIOUS
  <2>1. /\ scenario \in Scenarios /\ connection = 1 /\ subscriptionIds = 1 /\ ~reconnecting
        /\ listeners = [c \in Conns |-> IF c = 1 THEN getAllMonitoredWallets ELSE {}]
    BY Zenon DEF Init, ScenarioInit, MonitorInit
  <2> QED BY <2>1, ConnFacts, Zenon DEF MonitorTypes, OneSubscription
<1>2. Inv /\ [Next]_vars => Inv'
  BY NextKeepsMonitorTypes, NextKeepsOneSubscription, Zenon
<1>3. Inv => ListensOnlyToTargets
  <2> SUFFICES ASSUME Inv, settings.valid, ~overlapped, "refused" \notin scenario.kinds, NEW c \in Conns
               PROVE  listeners[c] \subseteq getAllMonitoredWallets
    BY Zenon DEF ListensOnlyToTargets
  <2> QED BY ConnFacts, Zenon DEF MonitorTypes, OneSubscription
<1> QED BY <1>1, <1>2, <1>3, PTL DEF Spec

=============================================================================
