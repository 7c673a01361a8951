------------------------------- MODULE Intake -------------------------------
(***************************************************************************)
(* The monitor, the dispatch of what it notifies, the controls on opens    *)
(* and the approval of tokens, running side by side on one event loop.     *)
(***************************************************************************)
EXTENDS EventDispatch

vars == <<scenario, faults, time, monitorVars, riskVars, pumpVars, dispatchVars>>

Init == ScenarioInit /\ MonitorInit /\ RiskInit /\ PumpInit /\ DispatchInit

timePasses ==
  /\ time < scenario.hours /\ time' = time + 1
  /\ UNCHANGED <<faults, monitorVars, riskVars, pumpVars, dispatchVars>>

Monitors == MonitorStep /\ UNCHANGED <<time, riskVars, pumpVars, dispatchVars>>
Controls == RiskStep /\ UNCHANGED <<faults, time, monitorVars, pumpVars, dispatchVars>>
Approves == PumpStep /\ UNCHANGED <<time, monitorVars, riskVars, dispatchVars>>
Lands == lands /\ UNCHANGED <<faults, time, monitorVars, riskVars, pumpVars>>
Delivers == delivers /\ UNCHANGED <<time, riskVars, pumpVars>>
Parses == parseTransaction /\ UNCHANGED <<time, monitorVars, riskVars, pumpVars>>
Works == WorkStep /\ UNCHANGED <<time, monitorVars>>

(* Nothing runs after the exit but the chain and the users.                *)
Next ==
  /\ UNCHANGED scenario
  /\ ~exited
  /\ Monitors \/ Controls \/ Approves \/ Lands \/ Delivers \/ Parses \/ Works \/ timePasses

(* The timer fires, the sleep of a reconnection ends, silence goes on when *)
(* no listener is left that could be notified, notifications arrive and    *)
(* the queue works.  Users, targets and faults are not assumed to act; nor *)
(* to be silent: one wallet that is heard may keep the guard from firing.  *)
OnlyMonitor == ~exited /\ UNCHANGED <<scenario, time, riskVars, pumpVars, dispatchVars>>
OnlyDispatch == ~exited /\ UNCHANGED <<scenario, time>>
Spec ==
  /\ Init /\ [][Next]_vars
  /\ WF_vars(startHeartbeat /\ OnlyMonitor) /\ WF_vars(reconnect /\ OnlyMonitor)
  /\ WF_vars(Heard = {} /\ silencePasses /\ OnlyMonitor)
  /\ WF_vars(Delivers /\ OnlyDispatch) /\ WF_vars(Parses /\ OnlyDispatch) /\ WF_vars(Works /\ OnlyDispatch)

-----------------------------------------------------------------------------
(* websocket.ts, the zombie guard: whatever happens to a connection or to  *)
(* a subscription, the bot does not stay deaf: it hears some wallet again  *)
(* or exits; and it exits only after maxRetries attempts to subscribe have *)
(* failed: zombies and quiet targets never make it exit.  It hears all its *)
(* wallets again if subscriptions do not fail half way and settings take   *)
(* effect: otherwise the wallets that are heard reset lastEventTime, and   *)
(* the guard need not fire for those that are not.                         *)
AllHeard == getAllMonitoredWallets \subseteq Heard
TakesEffect == settings.valid /\ ~overlapped /\ scenario.kinds \cap {"subscribeFails", "refused"} = {}
MonitorRecovers ==
  /\ []<>(Heard # {} \/ exited)
  /\ []<>(TakesEffect => AllHeard \/ exited)
  /\ [](exited => failed >= MaxRetries)

(* websocket.ts, subscribe(): no listener is left for a wallet that was    *)
(* taken out of the settings.  Not when the settings were saved during the *)
(* sleep of a reconnection: that subscription is made on the old           *)
(* connection and its ids are then removed from the new one.  Settings     *)
(* that do not parse, or whose request is refused after the wallets were   *)
(* replaced, leave the old listeners in place.                             *)
ListensOnlyToTargets ==
  settings.valid /\ ~overlapped /\ "refused" \notin scenario.kinds =>
    \A c \in Conns : listeners[c] \subseteq getAllMonitoredWallets

(* index.ts, the duplicate test: a signature is taken a second time only   *)
(* when DedupSize others were taken in between, however many connections   *)
(* and listeners notify it.                                                *)
TakenOnce ==
  \A i, j \in DOMAIN accepted : (i < j /\ accepted[i] = accepted[j]) => j - i > DedupSize

(* index.ts, handleEvent(): once a target's close was notified, its        *)
(* position is not mapped in the end: pauses, close-only wallets, filters  *)
(* and the order of the notifications do not stop it.  Not promised when a *)
(* copy fails, a transaction cannot be fetched, a node lags, or the        *)
(* transaction also involves a DEX whose parser goes first.                *)
CloseNotified(p) ==
  \E n \in DOMAIN accepted :
    LET tx == Tx(accepted[n])
    IN /\ parsersRun(tx.involved) = tx.involved
       /\ \E j \in DOMAIN tx.events : tx.events[j] = [kind |-> "close", pos |-> p]
CopiesWork == scenario.kinds \cap {"fails", "throws", "unparsed", "lagging"} = {}
CloseIsFollowed ==
  CopiesWork => <>[](exited \/ \A p \in Positions : CloseNotified(p) => p \notin positionMap)

(* opened-referers-store.ts: "stops two of our target wallets both         *)
(* mirroring the same underlying position": the referers recorded are      *)
(* those of the positions mapped, so none is copied twice and none stays   *)
(* blocked after its close.  Not when the settings allow a second copy,    *)
(* which overwrites the record of the first.                               *)
NoAllowLists ==
  ~scenario.allow.sameWallet /\ scenario.allow.openedBy = {} /\ scenario.allow.afterOthers = {}
ReferersMatchMapping ==
  NoAllowLists =>
    /\ \A r \in Referers : openedReferers[r] # None => openedReferers[r] \in positionMap
    /\ \A p \in positionMap :
         (Pos(p).dex = "byreal" /\ Pos(p).referer # None) => openedReferers[Pos(p).referer] = p

(* index.ts, drawdown protection: opens are paused only after two low      *)
(* snapshots in a row.  Not when the threshold was switched off meanwhile: *)
(* the warning outlives the snapshots that are not looked at.              *)
PauseIsConfirmed ==
  (drawdownPaused /\ scenario.toggles = 0) =>
     \E i \in 1..Len(snapshots) - 1 : snapshots[i] /\ snapshots[i + 1]

(* byreal-position.ts, recordTokenPnl(): a token cools down only while its *)
(* last LossStreakLimit results were losses, in the order they came in.    *)
CoolsAfterLosses ==
  \A t \in Tokens : isTokenCoolingDown(t) =>
     /\ Len(results[t]) >= LossStreakLimit
     /\ \A i \in Len(results[t]) - LossStreakLimit + 1 .. Len(results[t]) : results[t][i]

(* pump-pending.ts: the decision on a token is one on this detection of    *)
(* it.  It counts as approved only when the operator did it by hand or a   *)
(* user approved it after it was detected: the answer to an earlier        *)
(* detection, left behind in the worker, does not count, unless it has no  *)
(* timestamp: such an answer is taken for a fresh one.  And it is rejected *)
(* for its age only after an hour; not when other tokens expire in the     *)
(* same poll: the entry may then be replaced during the wait, and the new  *)
(* one is rejected for the old one.                                        *)
DecisionIsCurrent ==
  /\ isPumpApproved /\ ~pumpEntry.byHand =>
       \E a \in answers :
         a.status = "approved" /\ (a.timestamp = None \/ a.timestamp >= pumpEntry.detectedAt)
  /\ "others" \notin scenario.kinds => \A age \in expiries : age > EXPIRY_HOURS

=============================================================================
