---------------------------- MODULE PumpApproval ----------------------------
(***************************************************************************)
(* The approval of a pump token, state/pump-pending.ts: an open of it puts *)
(* it on the list, a user answers on Discord, and each look at the         *)
(* dashboard polls the answers.  One token; an entry is known by the hour  *)
(* it was detected, and an entry made anew is a new object.                *)
(***************************************************************************)
EXTENDS IntakeScenario

VARIABLES
  pumpEntry,       \* None or [detectedAt, status, byHand]
  tokenBlacklist,  \* whether the token is on it
  kv,              \* the answer kept by the worker: None or [status, timestamp],
                   \* where the timestamp may be missing (None)
  answers,         \* history: the answers users gave
  poll,            \* None or a pollApprovals() in progress
  expiries         \* history: the ages at which entries expired

pumpVars == <<pumpEntry, tokenBlacklist, kv, answers, poll, expiries>>

EXPIRY_HOURS == 1

PumpInit ==
  /\ pumpEntry = None /\ tokenBlacklist = FALSE /\ kv = None /\ answers = {}
  /\ poll = None /\ expiries = {}

isPumpApproved == pumpEntry # None /\ pumpEntry.status = "approved"
isPumpRejected == pumpEntry # None /\ pumpEntry.status = "rejected"
isPumpPending ==
  pumpEntry # None /\ pumpEntry.status = "pending" /\ time - pumpEntry.detectedAt <= EXPIRY_HOURS

addPumpPending == pumpEntry' = [detectedAt |-> time, status |-> "pending", byHand |-> FALSE]

resolvePump(status, byHand) ==
  IF pumpEntry = None THEN UNCHANGED <<pumpEntry, tokenBlacklist>>
  ELSE /\ pumpEntry' = [pumpEntry EXCEPT !.status = status, !.byHand = byHand]
       /\ tokenBlacklist' = (tokenBlacklist \/ status = "rejected")

(* The filter of an open of a pump token: it goes on, or it is skipped and *)
(* the token may be put on the list.                                       *)
pumpAllows == scenario.pumpMode = "off" \/ isPumpApproved
pumpSkips ==
  /\ ~pumpAllows
  /\ IF scenario.pumpMode = "discord" /\ ~isPumpRejected /\ ~isPumpPending
     THEN addPumpPending ELSE UNCHANGED pumpEntry
  /\ UNCHANGED <<tokenBlacklist, kv, answers, poll, expiries>>

(* A user answers the message of some detection.                           *)
userAnswers ==
  /\ pumpEntry # None /\ Cardinality(answers) < scenario.answers
  /\ \E status \in {"approved", "rejected"}, timestamp \in {time, None} :
       /\ IF timestamp = None THEN Fault("untimed") ELSE NoFault
       /\ kv' = [status |-> status, timestamp |-> timestamp]
       /\ answers' = answers \cup {kv'}
  /\ UNCHANGED <<pumpEntry, tokenBlacklist, poll, expiries>>

(* POST /api/pump-pending/resolve and /test.                               *)
dashboardResolves ==
  /\ pumpEntry # None /\ "dashboard" \in scenario.pumpUsers
  /\ \/ \E status \in {"approved", "rejected"} : resolvePump(status, TRUE)
     \/ pumpEntry' = None /\ UNCHANGED tokenBlacklist
     \/ addPumpPending /\ UNCHANGED tokenBlacklist
  /\ UNCHANGED <<kv, answers, poll, expiries>>

(* The entry with that hour is pending: the one on the list, or an object  *)
(* replaced or deleted while it was.                                       *)
StillPending(entry) ==
  (pumpEntry # None /\ pumpEntry.detectedAt = entry) => pumpEntry.status = "pending"
HasExpired(entry, now) == StillPending(entry) /\ now - entry > EXPIRY_HOURS

expires(entry, now) ==
  IF HasExpired(entry, now)
  THEN /\ resolvePump("rejected", FALSE)
       /\ expiries' = expiries \cup (IF pumpEntry = None THEN {} ELSE {time - pumpEntry.detectedAt})
  ELSE UNCHANGED <<pumpEntry, tokenBlacklist, expiries>>

(* pollApprovals() lists the entries and tests each in turn.  The token is *)
(* tested at once, or after an await for each one that expired before it.  *)
pollStarts ==
  /\ scenario.pumpMode = "discord" /\ poll = None /\ pumpEntry # None
  /\ \/ /\ NoFault /\ expires(pumpEntry.detectedAt, time)
        /\ poll' = [at |-> "fetch", now |-> time, entry |-> pumpEntry.detectedAt, data |-> None]
     \/ /\ Fault("others") /\ UNCHANGED <<pumpEntry, tokenBlacklist, expiries>>
        /\ poll' = [at |-> "expiry", now |-> time, entry |-> pumpEntry.detectedAt, data |-> None]
  /\ UNCHANGED <<kv, answers>>

pollExpires ==
  /\ poll # None /\ poll.at = "expiry"
  /\ expires(poll.entry, poll.now)
  /\ poll' = [poll EXCEPT !.at = "fetch"]
  /\ UNCHANGED <<kv, answers>>

(* The answers arrive, if this token or another one was pending.           *)
AnyPending == (pumpEntry # None /\ pumpEntry.status = "pending") \/ "others" \in scenario.kinds
pollFetches ==
  /\ poll # None /\ poll.at = "fetch"
  /\ \/ AnyPending /\ NoFault /\ poll' = [poll EXCEPT !.at = "apply", !.data = kv]
     \/ AnyPending /\ Fault("pollFails") /\ poll' = None
     \/ ~AnyPending /\ NoFault /\ poll' = None
  /\ UNCHANGED <<pumpEntry, tokenBlacklist, kv, answers, expiries>>

TakesAnyAnswer(result) == TRUE
IsFresh(result) == ~(result.timestamp # None /\ result.timestamp < pumpEntry.detectedAt)

pollApplies ==
  /\ poll # None /\ poll.at = "apply"
  /\ IF poll.data # None /\ pumpEntry # None /\ pumpEntry.status = "pending" /\ IsFresh(poll.data)
     THEN resolvePump(poll.data.status, FALSE) /\ poll' = [poll EXCEPT !.at = "delete"]
     ELSE UNCHANGED <<pumpEntry, tokenBlacklist>> /\ poll' = None
  /\ UNCHANGED <<kv, answers, expiries>>

(* The clean-up of the worker's copy, best effort.                         *)
pollDeletes ==
  /\ poll # None /\ poll.at = "delete"
  /\ \/ NoFault /\ kv' = None
     \/ Fault("pollFails") /\ UNCHANGED kv
  /\ poll' = None
  /\ UNCHANGED <<pumpEntry, tokenBlacklist, answers, expiries>>

PumpStep ==
  \/ (dashboardResolves \/ pollExpires \/ pollApplies) /\ NoFault
  \/ userAnswers \/ pollStarts \/ pollFetches \/ pollDeletes

=============================================================================
