# Verification of the copy bot

TLA+ modules beside the code of the CLMM copy bot. The bot watches target
wallets, copies their liquidity positions on Solana, and keeps a mapping
target NFT -> our NFT on which every later increase, decrease and close depends.

## The system

| part | source | modelled by |
|---|---|---|
| operation queue | executor/queue.ts | `OperationQueue`, abstractly `SerialExecutor` |
| position map | state/position-map.ts, write-chain.ts, repo/positions.ts | `PositionStore` |
| Byreal positions | executor/byreal-position.ts | `ByrealPositions` |
| other executors | executor/{orca,meteora,dammv2,pancakeswap}-position.ts | `OrcaPositions`, `MeteoraPositions`, `DammV2Positions`, `PancakeSwapPositions` on `CopyChain`; `Executors` puts them together |
| swaps, funding of a deposit | executor/jupiter-swap.ts, the executors | `Wallet`, `Funding` |
| pending swaps | state/pending-swaps-store.ts, executor/byreal-position.ts | `PendingSwaps` |
| daily conversion | executor/dac.ts | `DailyConversion` |
| WebSocket monitor | monitor/websocket.ts | `WebSocketMonitor` |
| event dispatch, parser's choice of DEX, referers | index.ts, monitor/parser.ts, state/opened-referers-store.ts | `EventDispatch` |
| drawdown pause, loss streaks | index.ts, executor/byreal-position.ts | `RiskControls` |
| pump approval | state/pump-pending.ts | `PumpApproval` |
| dashboard | dashboard/server.ts | its operations, in the modules they act on |

`WalletUsers` composes funding, pending swaps and the conversion, which share one
wallet; `Intake` composes what lies between the WebSocket and a copy.

Target events enter the queue at HIGH priority, clean-up closes at NORMAL, the
dashboard goes first with `executeNow()`. The reconcile scan runs beside the
queue and only queues what it wants closed, but removes entries itself. The
mapping is persisted by the write chain after the fact. The daily conversion and
the sale of pending tokens use the same wallet without going through the queue.

What is hard about it: the scan and the dashboard act while an operation awaits the
chain; a transaction that was sent may land after everyone gave up on it, or never;
acknowledgements get lost and sends are repeated; a restart keeps only what the write
chains have written; events are missed, come twice, or come from a connection that
is thought dead; balances are read before others spend them. What has to hold: one
operation uses the queue at a time; a position of ours does not drop out of the
mapping while it exists; a target's close is followed by ours; a restart loads a state
that was; a deposit is funded and a failed one leaves nothing bought. `PROJECT.json`
lists the hazards with the line at which each one bites.

JavaScript runs on one thread, so a step is the code between two awaits.

## Modules

**OperationQueue** has a variable per field of the class, plus the pending
`setImmediate` callbacks and the place each `executeNow()` invocation is at.
A caller that finds the queue still busy after its sleep is a stuttering step.
**SerialExecutor** is what its users rely on: one operation at a time, HIGH
before NORMAL, nothing overtakes a waiting immediate call, everything gets a turn.

**PositionStore** keeps entries with an NFT and the four columns that setters
write (pool, dex, lockedSol, targetLiquidity); wallet, ticks and creation time are
left out. `versions` and `lost` are history variables: the map before each queued
call, and the dropped calls that no later one made good. A failed call may have
taken effect.

**ByrealPositions** abstracts liquidity to live or empty, so a partial decrease
and a fee collection change nothing; `copyOpenPosition`'s filters may or may not
stop an open. The retry loops nested in each operation are one bound on tries,
`MaxTries`. `excused` is a history variable: the positions that escaped the mapping,
added to by the steps that let them. Preflight being skipped, more than one scan
at a time, several events in one transaction, and the checks whether an entry
belongs to another DEX are not in this module.

**CopyChain** has the chain, the mapping with the stored target liquidity, the
queue as `SerialExecutor` promises it and the reconcile timer. The four executor
modules extend it with an action per step of each operation, retries and clean-up
included; their actions carry the executor's name (`orcaOpenReads`,
`meteoraOpenFills`), and `Executors` extends all four. Liquidity is a small number and
the copy ratio 1; prices, ticks and filters are left out. `op` holds the local
variables of the running operation: `op.pc` is the await its next step follows (one of
`Places`), `op.stored` the liquidity it compared with. `late` is the sequence of
transactions whose sender stopped waiting; `loose`, `peak` and `displaced` (positions
whose entry a scan removed on what it had read about an older one) are history. The
scan takes the entries and queues the orphans in any order. A Meteora position of more
than 70 bins is filled by a list of transactions (meteora-position.ts:829): with the
kind `chunked` a fill may take several, each of them may fail, and the open then
starts anew with another position. An executor does not store liquidity, or does not
scan targets, where the code does not: the modules differ as the sources do.

**Wallet** has the balances of four mints, `holdingsCache` and a swap by its
outcomes (done, failed, no route, executed after an error). Every token has the price
of one USDC, and slippage is a whole unit. **Funding** is the pre-swap part of
ten operations, each a record of what the source does there (which side first, what is
read again, estimates, retries, swap-back). Orca's open asks for 5% more USDC than the
swaps will cost (orca-position.ts:385); amounts are tens of units so that this shows. **PendingSwaps** follows one token,
**DailyConversion** a clock of a few hours a day, with timers, history and table.

**WebSocketMonitor** keeps the listeners of every connection, since a connection that
is replaced is not closed. Settings that are saved replace the wallets and resubscribe;
they may not parse, and a request may be refused after it has replaced the wallets
(server.ts:1508-1516). **EventDispatch** goes from a landed transaction by way of
notification, duplicate test, queue and parser to `handleEvent`, with the tests in
front of each copied event (`current` is the transaction being worked on and the events
left of it); the copy itself succeeds or fails. **RiskControls** has
the drawdown snapshots and the loss streaks, **PumpApproval** one token with its entry, the
worker's answer, with or without a timestamp, and the poll. `IntakeScenario` has what these four share.

The larger modules take a *scenario*: which executor, rule or wallets, which kinds of
fault and how many. It is chosen at the start and never changes, so that one run
covers many instances and a property can say which faults it survives.

## Runs

| run | instance | shows |
|---|---|---|
| queue | 2 immediate calls, 3 items | exclusion, no lost wake-up, order, progress, refinement of SerialExecutor |
| store | 2 targets, 2 NFTs, 3 mutations, 3 failures, 1 retry | the table is a past state of the map; mutations arrive |
| store_healing | 1 target, 3 retries, 4 failures | **violated**: a dropped `set()` is not healed by the next setter |
| byreal_safety | 2 targets, 2 NFTs, cap 1, 1 fault, 1 crash, 1 user operation, 3 events | every unmapped position is explained; injective mapping; cap |
| byreal_release | 1 target, 2 NFTs, no cap, 2 faults, 1 crash, 1 user operation, 3 events | a closed target's entry is removed in the end |
| byreal_confirm | 1 target, 1 NFT, no crash | **violated**: an accepted open can land unmapped |
| byreal_gone | 1 target, 1 NFT, 3 tries, 3 faults | **violated**: "Blockhash not found" unmaps an existing position |
| executors_safety | 14 scenarios over the 4 executors: 1 target, up to 3 NFTs, liquidity up to 3, 2 faults, 4 events | liquidity stays mapped; increases do not overshoot; what is withdrawn is queued for a sale; an entry goes only with its position; a PancakeSwap open is recorded when it lands |
| executors_release | 7 scenarios, liquidity up to 2 | closed and emptied targets are followed; no fault leaves a dead entry |
| wallet | 10 funding rules with 4 pairs of tokens, 24 wallets and 3 needs each, and with 2 faults; 2 closes, 2 sales and clears of a token; 2 days of the conversion; all at once | funding suffices and does not overbuy; a failed open is undone; pending entries converge to the balance; one success a day; the scheduler stays armed |
| pending_cleanup | 1 close, 1 note, 1 sale | **violated**: the timer deletes an entry that is no longer empty |
| intake | 2 wallets, 1 to 4 positions, 2 to 4 transactions, 3 faults, 2 edits of the settings, 2 answers | the monitor recovers; duplicates, closes, referers, pause, cooldown and pump approval |

Bounds. Two calls and three items give two callers waiting at once with items of
both priorities behind them. Three failures with one retry give a drop and a
retry. Two targets meet at a cap of one; two NFTs allow an open to be repeated
with a new one. `MaxTries` is 2 in the passing Byreal runs and the code's 3 in
byreal_gone. `MaxQueue` keeps scans from queueing the same orphan without end,
which the code does not prevent. In the executors two faults give a lost
confirmation whose retry fails too, liquidity 2 or 3 a partial decrease after a
partial increase and a fill in three parts, and 3 NFTs an open repeated beside a
position displaced; targets do not interact there, so one is enough. In the wallet 42
USDC are just what an estimate for needs of 20 and 20 asks for, and 40 just too few. In the
intake, `MaxRetries` and `DedupSize` stand for 20 and 1000 and are 2: three faults
exceed the one, and three transactions the other. Two days let a conversion miss,
repeat or follow the one of the day before. Deadlock is not checked: every one of
these systems may run out of things to do within its bounds.

Fairness. Timers and `setImmediate` callbacks fire; the operations settle, since
the RPC calls they await time out; the reconcile and ten-minute timers fire again and
again; the heartbeat fires and the sleep of a reconnection ends; when no listener is
left that could be notified, silence goes on until the guard sees it; the database
answers in the end; a transaction lands unless it expires. Targets, users and faults
are never assumed to act. Nor are wallets assumed to be silent: one that is heard
resets `lastEventTime` for all.

## Findings

* store_healing: write-chain.ts:14 says a dropped upsert "is healed by the row's
  next mutation". The setters are UPDATEs and do not insert the missing row.
* byreal_confirm: the comment at byreal-position.ts:1407 says saving the mapping
  before the confirmation prevents orphaned positions. A reconcile scan that finds
  the target gone and our position not there *yet* deletes the mapping.
* byreal_gone: `closeOrphan` matches `/not found/i`, and so also the transient
  "Blockhash not found" after the last retry.
* pending_cleanup: byreal-position.ts:2439 says `logPendingStatus()` cleans up
  "zero-amount entries". It tests the amount, awaits other balances, then deletes;
  a close in between fills the entry.

### What the properties leave out

A property of the executors names the faults it survives. Outside them the code
behaves as follows. For the executors, each exclusion answers a counterexample of TLC:
with the fault added to the scenario and to the property's list, the run fails.
Hazards in this list have no property in `PROJECT.json`, or a note on what is left.

* Byreal: the ways in which a position escapes the mapping are those that add to
  `excused` (an open repeated after a lost acknowledgement, a crash before the mapping
  is written, a manual close that expires, an orphan close that meets a newer entry, a
  scan during an open or increase). OrphansAreExplained says there are no others.
* Orca: a failed read of a living target makes the scan queue the close of ours
  (orca-position.ts:1930); the catch for transient errors at 1948 is never reached.
  The stored liquidity is only refreshed after an increase (1307) that can be read.
* Meteora: an open repeated after an error (870) uses a new keypair, without
  looking for the first; when one of several fills fails, what the earlier ones
  brought stays in the first position, outside the mapping. The scan
  removes an entry by its target's key after awaiting the chain (1556-1564): if the
  target was closed and opened again meanwhile, the entry of the new position goes
  (`displaced`; DAMM v2 alike). A target's close that is missed is not noticed by the
  scan, which reads our positions only. Received tokens are parsed from the last of
  several transactions (1031).
* DAMM v2: the mapping is written after the deposit is confirmed (796), so a lost
  confirmation leaves the position outside it; a read that errs during a close
  counts as a position that is gone (1361).
* Orca, Meteora and DAMM v2: an increase whose confirmation is lost is repeated and may
  be added twice.
* PancakeSwap: two increases in a row add the same difference twice when the
  first has not landed at the second's reading (691); the tokens of a partial decrease
  are logged under "Queue received tokens as pending swaps" (1012) and not queued; a manual close is unmapped when
  it is accepted and may expire (1214).
* Funding: Byreal and PancakeSwap count token B they have just paid for A with; a
  balance that cannot be read counts as 0 and is bought again, and so is a swap
  executed after an error; without a route for token B, token A stays bought.
* Conversion: a history that cannot be loaded after a change of settings ends the
  schedule; a timer replaced by another start is not cleared and fires as well.
* Monitor: settings saved during the sleep of a reconnection leave listeners that
  nothing removes, and so do settings refused half way. When a subscription fails after
  some wallets, and these stay busy, the guard need not fire for the others:
  MonitorRecovers then promises only that some wallet is heard. A transaction with two DEXes yields the first one's events; an
  event that throws drops the rest of its transaction. A threshold switched off keeps
  the drawdown warning, so that PauseIsConfirmed is stated without such switches. Where the allow lists admit a second copy, the first one's
  referer is overwritten.
* Pump approval: an answer without a timestamp counts as fresh, also for a later
  detection (pump-pending.ts:175); an approval not polled before the expiry is lost, and with several
  tokens expiring in one poll a new entry may be rejected for the old one.

## Proofs

Eight modules hold the theorems, which are for every value of the constants that the
named assumptions allow. TLC evaluates the assumptions on every run.

**OperationQueueProofs**, for any finite set of calls and any number of items: type
correctness, mutual exclusion, no lost wake-up, truthful flags, that immediate calls
are not overtaken, the order of items, and that each step of the queue is a step or a
stutter of SerialExecutor. The inductive invariant is TypeOK /\ MutualExclusion /\
FlagsAgree /\ NoLostWakeup: exclusion alone is not inductive, because the code tests
its flags and not the callers, and FlagsAgree ties the two together. The order needs
that both queues are sorted by id.

**PositionStoreProofs**, for any targets, values, retries and bounds: type
correctness, ChainReplaysMemory and TableIsPastMemory; their conjunction is inductive.
A call applied to table and past memory alike keeps them in agreement
(AppliedAgrees), a dropped one does once it counts as lost (DroppedAgrees), and a call
repeated after a lost acknowledgement has no second effect (ApplyIdempotent).

**ByrealPositionsProofs**, for any finite set of targets, any number of NFTs, any cap:
type correctness, MappingInjective, CapRespected and OrphansAreExplained. Types need
`Shape`, what the queues hold and which operation can be at which step. Injectivity
(`Unique`) needs that the NFT of a running open is mapped nowhere, in memory or in what
a restart loads. The cap (`WithinCap`) needs that nothing beside a running open adds an
entry. Orphans (`Explained`) need an account of the transactions in flight: an open that
was sent is for a position that is mapped, excused, or still worked on.

**SolanaSteps, CopyChainProofs, ExecutorsProofs**, for any finite set of targets, any
amounts, NFTs, faults and scenarios: TypeOK, UnmappedOnlyWhenGone, LandsRecorded,
NoLostLiquidity, OursWithinPeak and ReceivedTokensAreQueued. There are some seventy
actions and few things they can do, so `ExecutorShapes` describes a step by its effects
(OpMoves on operation, chain and mapping; OpKeeps for the promises), SolanaSteps and
ExecutorsProofs show that each action has that shape, and CopyChainProofs shows that a
step of that shape keeps the invariants. `Inv` ties the mapping, the running operation and
the chain together: an entry is a position that copies its target, the entry of the
operation's target is the operation's, a close that landed has closed. None of this is
in the types, and without it a step could read a position that was never minted.
`Promises` has one clause for each of the last three properties: what an unsaved open can
have on chain at each await, a fill in parts included (NothingLost); that what was
withdrawn is in the hands of the running operation until it is queued (LooseIsHeld); and
that ours, what is in flight and the amount decided on add up to no more than the peak
(WithinPeak). Each is stated for the fault kinds its property names, and
only for these: NoLostLiquidity for missed, expired, lostAck and notVerified on Orca,
missed, readError and either expired or chunked on Meteora, missed and expired on
DAMM v2; OursWithinPeak and ReceivedTokensAreQueued for missed and expired (Meteora's
peak with chunked); UnmappedOnlyWhenGone for all but readError on Orca and DAMM v2 and
notVerified on Meteora and DAMM v2; LandsRecorded without lostAck, timeout and crash.

**WalletUsersProofs**, for any scenarios: SchedulerStaysArmed (`Armed`, with what a run
in progress will arm), OneSuccessADay (`Remembered`: a success is in memory, and what is
in memory is in the table or queued for it) and NeverOverbuys (`Thrifty`: besides the
bound, the balances an operation counts with are those of the wallet where it has
yet to buy).

**IntakeProofs**, for any scenarios and limits, each property from an invariant of the
component it is about: PauseIsConfirmed (a warning stands for a low last snapshot),
CoolsAfterLosses (the streak counts the last results), DecisionIsCurrent (what the
worker keeps and a poll carries is an answer that a user gave, with its time or none),
TakenOnce (the signatures remembered are the last ones taken), ReferersMatchMapping (an
open that passed the test keeps its referer unmapped) and ListensOnlyToTargets (there
are listeners on one connection at most, and the ids remembered are theirs).

Assumptions. Sets of calls and targets are finite; bounds, limits and amounts are natural
numbers, `MaxTries`, `MaxLiq` and the limits of the intake not zero; `None`, `NoItem` and `Absent` are none of
the values they stand beside; scenarios are well formed (ScenarioAssumption,
FundAssumption, DacAssumption, IntakeAssumption, ChainAssumption). FundAssumption says
that the two tokens of a pool differ and that something of them is needed: the code
has returned before otherwise.

Only model-checked: liveness (EverythingRuns, MutationsArePersisted,
ClosedTargetIsReleased, EmptiedTargetIsFollowed, NoDeadEntryStays, PendingConverges,
MonitorRecovers, CloseIsFollowed, and progress in the refinement of SerialExecutor),
which is outside the prover's reach; FundsSuffice and FailedOpenIsUndone, which need the
exact sum of several swaps with a buffer that is rounded, for each of ten rules.

## Not modelled

* Auto claim is a conversation with a web service whose answers decide everything;
  it keeps no state but a history.
* The signers work on the bytes of a transaction, which the models do not have.
* How the parser decodes an event, prices, ticks and amounts of a position: data,
  with no second definition in the code to compare with.
* The filters of an open (pool data caches, TVL, fees): a free choice in the
  executors.
* Start-up, lock file, shutdown, migration, dashboard routing, notifications,
  histories, activity log, fee collection and asset views: I/O or presentation.
* The persistence of referers, pending swaps and pump entries: the write chain is that
  of `PositionStore`; a crash between two chains is not looked at.

## Plan

1. Referers beside positions on two write chains, with a crash between them.
2. Signers: unlock state and connection limits.
3. A theorem for the first part of FundsSuffice, one rule at a time.
