--------------------------- MODULE DailyConversion ---------------------------
(***************************************************************************)
(* The daily purchase of executor/dac.ts: a timer that fires at a set hour *)
(* and arms itself again, the purchase and the transfer of what it bought, *)
(* the history that keeps it to one a day, and the dashboard that changes  *)
(* the hour or triggers a purchase by hand.                                *)
(*                                                                         *)
(* A day has SlotsPerDay hours.  startDacScheduler() loads the history     *)
(* before it arms a timer, and nobody waits for it after a change of       *)
(* settings.                                                               *)
(***************************************************************************)
EXTENDS Wallet

VARIABLES
  clock,       \* hours since the start
  settings,    \* dacEnabled and dacExecuteHour
  timers,      \* armed timers: when, and whether schedulerTimer refers to it
  loads,       \* startDacScheduler() calls that wait for the history
  due,         \* timer callbacks that finished their run and will arm again
  run,         \* the run in progress (dacRunning), or None
  history,     \* dacHistory: the days of the successful runs in memory
  unwritten,   \* records queued for the table
  table,       \* the same days in the table
  successes,   \* scheduled runs that succeeded, by day
  edits        \* changes of settings, manual triggers so far

dacVars == <<clock, settings, timers, loads, due, run, history, unwritten, table, successes, edits>>

SlotsPerDay == 2
Hours == 0..(SlotsPerDay - 1)
Day(t) == t \div SlotsPerDay

DacUsed == "dac" \in scenario.users
MaxClock == scenario.dac.days * SlotsPerDay - 1
Amount == 2   \* dacAmountUsd
Bought == scenario.dac.mint

(* dacRunning with what the run knows: the state of a run.                 *)
Run == [pc : {"profit", "before", "swap", "after", "transfer"}, scheduled : BOOLEAN,
        day : Nat, pre : Nat, got : Nat, delta : Nat]

ASSUME DacAssumption ==
  /\ \A s \in Scenarios : s.dac.mint \in Mints /\ s.dac.transfers \in BOOLEAN /\ s.dac.days \in Nat /\ s.dac.edits \in Nat
  /\ None \notin Run

DacInit ==
  /\ clock = 0 /\ settings = [enabled |-> TRUE, hour |-> 1]
  /\ timers = {} /\ loads = (IF DacUsed THEN 1 ELSE 0) /\ due = 0 /\ run = None
  /\ history = {} /\ unwritten = <<>> /\ table = {}
  /\ successes = [d \in 0..Day(MaxClock) |-> 0] /\ edits = 0

-----------------------------------------------------------------------------
(* The time of the next run is later than now, today or tomorrow.          *)
msUntilNextDac ==
  CHOOSE t \in (clock + 1)..(clock + SlotsPerDay) : t % SlotsPerDay = settings.hour

ArmsOver(armed) ==
  {[t EXCEPT !.own = FALSE] : t \in armed} \cup {[at |-> msUntilNextDac, own |-> TRUE]}

scheduleNextDac(armed) == timers' = IF settings.enabled THEN ArmsOver(armed) ELSE armed

NewRun(scheduled) ==
  [pc |-> "profit", scheduled |-> scheduled, day |-> Day(clock), pre |-> 0, got |-> 0, delta |-> 0]

GuardedByFlagOnly(scheduled) == run = None

(* triggerDac() goes ahead: no run in progress, and for a scheduled one no *)
(* success today.                                                          *)
mayRun(scheduled) == run = None /\ (scheduled => Day(clock) \notin history)

timerFires ==
  \E t \in timers :
    /\ t.at = clock
    /\ IF mayRun(TRUE)
       THEN run' = NewRun(TRUE) /\ timers' = timers \ {t}
       ELSE scheduleNextDac(timers \ {t}) /\ UNCHANGED run
    /\ UNCHANGED <<walletVars, clock, settings, loads, due, history, unwritten, table, successes, edits>>

ArmsNothing ==
  /\ due > 0 /\ due' = due - 1
  /\ UNCHANGED timers
  /\ UNCHANGED <<walletVars, clock, settings, loads, run, history, unwritten, table, successes, edits>>

armsAgain ==
  /\ due > 0 /\ due' = due - 1
  /\ scheduleNextDac(timers)
  /\ UNCHANGED <<walletVars, clock, settings, loads, run, history, unwritten, table, successes, edits>>

(* POST /api/dac/trigger                                                   *)
triggerByHand ==
  /\ DacUsed /\ edits < scenario.dac.edits /\ edits' = edits + 1
  /\ mayRun(FALSE) /\ run' = NewRun(FALSE)
  /\ UNCHANGED <<walletVars, clock, settings, timers, loads, due, history, unwritten, table, successes>>

-----------------------------------------------------------------------------
(* The run.  finishes() clears the flag, keeps the record and queues its   *)
(* write; the callback arms the next timer once the notification is sent.  *)

finishes(success) ==
  /\ run' = None
  /\ history' = IF success THEN history \cup {run.day} ELSE history
  /\ unwritten' = IF success THEN Append(unwritten, run.day) ELSE unwritten
  /\ successes' = IF success /\ run.scheduled THEN [successes EXCEPT ![run.day] = @ + 1] ELSE successes
  /\ due' = IF run.scheduled THEN due + 1 ELSE due

goesOn(r) == run' = r /\ UNCHANGED <<history, unwritten, successes, due>>
At(pc) == run # None /\ run.pc = pc

calculatesProfit ==
  /\ At("profit")
  /\ \/ ~run.scheduled /\ goesOn([run EXCEPT !.pc = "before"])
     \/ run.scheduled /\ (goesOn([run EXCEPT !.pc = "before"]) \/ finishes(FALSE))
  /\ UNCHANGED walletVars

(* A balance that cannot be read is taken for an account that is not there. *)
readsBefore ==
  /\ At("before")
  /\ \E r \in Readings({Bought}) :
       ReadsAs({Bought}, r) /\ goesOn([run EXCEPT !.pc = "swap", !.pre = r[Bought]])
  /\ UNCHANGED <<wallet, holdings>>

dacSwaps ==
  /\ At("swap")
  /\ \E got \in 0..Amount :
       /\ jupSwapExactIn("USDC", Bought, Amount, got)
       /\ IF got = 0 THEN finishes(FALSE) ELSE goesOn([run EXCEPT !.pc = "after", !.got = got])

(* Without a wallet to transfer to the balance is only for the record.     *)
readsAfter ==
  /\ At("after")
  /\ LET delta == wallet[Bought] - run.pre
     IN  \/ ~scenario.dac.transfers /\ NoFault /\ finishes(TRUE)
         \/ /\ scenario.dac.transfers
            /\ \/ NoFault /\ delta > 0 /\ goesOn([run EXCEPT !.pc = "transfer", !.delta = delta])
               \/ NoFault /\ delta <= 0 /\ finishes(FALSE)
               \/ Fault("readError") /\ finishes(FALSE)
  /\ UNCHANGED <<wallet, holdings>>

dacTransfers ==
  /\ At("transfer")
  /\ \/ /\ wallet[Bought] >= run.delta
        /\ \/ NoFault /\ finishes(TRUE)
           \/ Fault("lostAck") /\ finishes(FALSE)
        /\ wallet' = [wallet EXCEPT ![Bought] = @ - run.delta]
     \/ wallet[Bought] < run.delta /\ NoFault /\ finishes(FALSE) /\ UNCHANGED wallet
     \/ Fault("txFails") /\ finishes(FALSE) /\ UNCHANGED wallet
  /\ UNCHANGED holdings

RunStep ==
  /\ calculatesProfit \/ readsBefore \/ dacSwaps \/ readsAfter \/ dacTransfers
  /\ UNCHANGED <<clock, settings, timers, loads, table, edits>>

-----------------------------------------------------------------------------
(* POST /api/dac/config: the timer that schedulerTimer refers to is        *)
(* cleared, and the scheduler started again.                               *)
savesSettings ==
  /\ DacUsed /\ edits < scenario.dac.edits /\ edits' = edits + 1
  /\ settings' \in [enabled : BOOLEAN, hour : Hours] \ {settings}
  /\ timers' = {t \in timers : ~t.own}
  /\ loads' = loads + 1
  /\ UNCHANGED <<walletVars, clock, due, run, history, unwritten, table, successes>>

(* startDacScheduler() goes on with what the table held.  A load that      *)
(* fails after a change of settings arms nothing; the first load ends the  *)
(* bot if it fails, which is not followed.                                 *)
loadDacHistory ==
  /\ loads > 0 /\ loads' = loads - 1
  /\ \/ /\ IF unwritten = <<>> THEN NoFault ELSE Fault("lagging")
        /\ history' = table
        /\ scheduleNextDac(timers)
     \/ edits > 0 /\ Fault("dbDown") /\ UNCHANGED <<history, timers>>
  /\ UNCHANGED <<wallet, holdings, clock, settings, due, run, unwritten, table, successes, edits>>

writesHistory ==
  /\ unwritten # <<>>
  /\ table' = table \cup {Head(unwritten)} /\ unwritten' = Tail(unwritten)
  /\ UNCHANGED <<walletVars, clock, settings, timers, loads, due, run, history, successes, edits>>

dacRestarts ==
  /\ DacUsed /\ Fault("crash")
  /\ timers' = {} /\ loads' = 1 /\ due' = 0 /\ run' = None /\ unwritten' = <<>> /\ history' = {}
  /\ UNCHANGED <<wallet, holdings, clock, settings, table, successes, edits>>

(* A timer that is due fires before the next hour; the seconds a load or   *)
(* a run takes may fall into it.                                           *)
clockTicks ==
  /\ DacUsed /\ clock < MaxClock /\ \A t \in timers : t.at # clock
  /\ clock' = clock + 1
  /\ UNCHANGED <<walletVars, settings, timers, loads, due, run, history, unwritten, table, successes, edits>>

DacStep ==
  \/ timerFires \/ armsAgain \/ triggerByHand \/ RunStep \/ savesSettings
  \/ loadDacHistory \/ writesHistory \/ dacRestarts \/ clockTicks

=============================================================================
