-------------------------- MODULE WebSocketMonitor --------------------------
(***************************************************************************)
(* The log subscriptions of monitor/websocket.ts: one listener per wallet  *)
(* on the current connection, a guard that makes a new connection after a  *)
(* long silence, and the dashboard, which changes the settings and         *)
(* subscribes again.  Connections are numbered; one that became a zombie   *)
(* notifies no more and does not say so.                                   *)
(***************************************************************************)
EXTENDS IntakeScenario

VARIABLES
  connection,       \* the current connection
  listeners,        \* listeners[c]: the wallets listened to on connection c
  subscriptionIds,  \* the connection the remembered ids belong to, or None
  zombies,          \* the connections that notify no more
  retryCount,
  reconnecting,
  silent,           \* no event for SILENCE_RECONNECT_MIN
  exited,           \* process.exit(1)
  settings,         \* [targets, closeOnly, valid], by DEX
  edits,            \* settings saved so far
  failed,           \* history: subscriptions that failed
  overlapped        \* history: a subscription was made while one to come was asleep

monitorVars ==
  <<connection, listeners, subscriptionIds, zombies, retryCount, reconnecting, silent, exited,
    settings, edits, failed, overlapped>>

MaxConns == scenario.faults + scenario.edits + MaxRetries + 2
Conns == 1..MaxConns

(* Every list of the settings.  A list with an address that does not parse *)
(* throws, see subscribe.                                                  *)
getAllMonitoredWallets == UNION {settings.targets[d] \cup settings.closeOnly[d] : d \in Dexes}

(* What the live connections notify, an old one that kept its listeners    *)
(* included; and all there is to hear, on the current one.                 *)
Heard == UNION {listeners[c] : c \in Conns \ zombies}
Listening ==
  /\ connection \notin zombies /\ settings.valid
  /\ listeners[connection] = getAllMonitoredWallets

(* start() has subscribed and set the timer.                               *)
MonitorInit ==
  /\ connection = 1 /\ zombies = {} /\ retryCount = 0 /\ subscriptionIds = 1
  /\ reconnecting = FALSE /\ silent = FALSE /\ exited = FALSE
  /\ settings = scenario.settings /\ edits = 0
  /\ listeners = [c \in Conns |-> IF c = 1 THEN getAllMonitoredWallets ELSE {}]
  /\ failed = 0 /\ overlapped = FALSE

(* The remembered ids mean something on the connection they came from.     *)
RemovesNothing(c) == listeners
removeAllSubscriptions(c) ==
  IF subscriptionIds = c THEN [listeners EXCEPT ![c] = {}] ELSE listeners

(* A subscribe() on c that succeeds, and one that throws after some        *)
(* wallets: at the first one when the settings do not parse.               *)
subscribe(c) ==
  /\ settings'.valid /\ NoFault
  /\ listeners' = [removeAllSubscriptions(c) EXCEPT ![c] = @ \cup getAllMonitoredWallets']
  /\ subscriptionIds' = c /\ retryCount' = 0
  /\ UNCHANGED failed
subscribeThrows(c) ==
  /\ \E some \in SUBSET getAllMonitoredWallets' :
       /\ IF settings'.valid THEN Fault("subscribeFails") /\ some # getAllMonitoredWallets'
                             ELSE NoFault /\ some = {}
       /\ listeners' = [removeAllSubscriptions(c) EXCEPT ![c] = @ \cup some]
  /\ subscriptionIds' = c /\ failed' = failed + 1

(* reconnect() up to its sleep; its caller drops the subscriptions.        *)
reconnectStarts ==
  \/ /\ retryCount >= MaxRetries /\ exited' = TRUE
     /\ UNCHANGED <<retryCount, reconnecting>>
  \/ /\ retryCount < MaxRetries /\ retryCount' = retryCount + 1 /\ reconnecting' = TRUE
     /\ UNCHANGED exited

HeartbeatTriesOnce ==
  /\ silent /\ ~reconnecting /\ ~exited /\ retryCount = 0
  /\ silent' = FALSE
  /\ listeners' = removeAllSubscriptions(connection) /\ subscriptionIds' = None
  /\ reconnectStarts
  /\ UNCHANGED <<faults, connection, zombies, settings, edits, failed, overlapped>>
(* The timer finds the silence too long.                                   *)
startHeartbeat ==
  /\ silent /\ ~reconnecting /\ ~exited
  /\ silent' = FALSE
  /\ listeners' = removeAllSubscriptions(connection) /\ subscriptionIds' = None
  /\ reconnectStarts
  /\ UNCHANGED <<faults, connection, zombies, settings, edits, failed, overlapped>>

(* The sleep is over: a fresh connection.  When subscribe() fails here it  *)
(* calls reconnect(), which returns at once because one is in progress.    *)
reconnect ==
  /\ reconnecting /\ ~exited /\ connection < MaxConns
  /\ connection' = connection + 1
  /\ UNCHANGED settings
  /\ \/ subscribe(connection + 1)
     \/ subscribeThrows(connection + 1) /\ UNCHANGED retryCount
  /\ reconnecting' = FALSE
  /\ UNCHANGED <<zombies, silent, exited, edits, overlapped>>

(* The dashboard saves the settings and calls resubscribe(), which gives   *)
(* up before subscribe() when they do not parse.  It is not called at all  *)
(* when a later field of the request is refused (server.ts:1508-1516).     *)
resubscribe ==
  /\ ~exited /\ edits < scenario.edits
  /\ edits' = edits + 1
  /\ settings' \in scenario.saved
  /\ \/ /\ subscribe(connection)
        /\ overlapped' = (overlapped \/ reconnecting)
        /\ UNCHANGED <<reconnecting, exited>>
     \/ /\ settings'.valid /\ subscribeThrows(connection) /\ reconnecting
        /\ overlapped' = TRUE
        /\ UNCHANGED <<retryCount, reconnecting, exited>>
     \/ /\ settings'.valid /\ ~reconnecting /\ Fault("subscribeFails")
        /\ failed' = failed + 1
        /\ listeners' = removeAllSubscriptions(connection) /\ subscriptionIds' = None
        /\ reconnectStarts
        /\ UNCHANGED overlapped
     \/ /\ IF settings'.valid THEN Fault("refused") ELSE NoFault
        /\ UNCHANGED <<listeners, subscriptionIds, retryCount, reconnecting, exited, failed, overlapped>>
  /\ UNCHANGED <<connection, zombies, silent>>

becomesZombie ==
  /\ connection \notin zombies /\ ~exited /\ Fault("zombie")
  /\ zombies' = zombies \cup {connection}
  /\ UNCHANGED <<connection, listeners, subscriptionIds, retryCount, reconnecting, silent, exited,
                 settings, edits, failed, overlapped>>

(* Twenty minutes; the sleep of a reconnection lasts one at most.  When    *)
(* only some of the wallets are heard it depends on what those do.         *)
silencePasses ==
  /\ ~silent /\ ~exited /\ ~reconnecting /\ silent' = TRUE
  /\ IF Listening THEN Fault("quiet") ELSE NoFault
  /\ UNCHANGED <<connection, listeners, subscriptionIds, zombies, retryCount, reconnecting, exited,
                 settings, edits, failed, overlapped>>

(* The first lines of the listener, for a notification of any kind.        *)
eventArrives ==
  /\ silent' = FALSE /\ retryCount' = 0
  /\ UNCHANGED <<connection, listeners, subscriptionIds, zombies, reconnecting, exited, settings,
                 edits, failed, overlapped>>

MonitorStep == startHeartbeat \/ reconnect \/ resubscribe \/ becomesZombie \/ silencePasses

=============================================================================
