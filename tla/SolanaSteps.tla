---------------------------- MODULE SolanaSteps ----------------------------
(***************************************************************************)
(* Every step of the three executors on Solana, Orca, Meteora and DAMM v2, *)
(* has the shape that CopyChainProofs reasons about.                       *)
(***************************************************************************)
EXTENDS OrcaPositions, MeteoraPositions, DammV2Positions, ExecutorShapes, TLAPS

(* Attempts are counted.                                                   *)
LEMMA TriesCount ==
  ASSUME op \in Op
  PROVE  op.tries + 1 \in Nat
  BY DEF Op

(* What the ways of changing an operation leave.                            *)
LEMMA NotesPlace ==
  ASSUME op \in Op, NEW pc \in Places, op' = [op EXCEPT !.pc = pc]
  PROVE  Notes(pc, op.amount, op.stored)
  BY Zenon DEF Op, Notes

LEMMA NotesTries ==
  ASSUME op \in Op, NEW pc \in Places, NEW k \in Nat, op' = [op EXCEPT !.pc = pc, !.tries = k]
  PROVE  Notes(pc, op.amount, op.stored)
  BY Zenon DEF Op, Notes

LEMMA NotesAmount ==
  ASSUME op \in Op, NEW pc \in Places, NEW a \in Nat \cup {None}, op' = [op EXCEPT !.pc = pc, !.amount = a]
  PROVE  Notes(pc, a, op.stored)
  BY Zenon DEF Op, Notes

LEMMA NotesDelta ==
  ASSUME op \in Op, NEW pc \in Places, NEW a \in Nat, NEW k \in Nat,
         op' = [op EXCEPT !.pc = pc, !.amount = a, !.tries = k]
  PROVE  Notes(pc, a, op.stored)
  BY Zenon DEF Op, Notes

LEMMA NotesShare ==
  ASSUME op \in Op, NEW pc \in Places, NEW a \in Nat, NEW s \in Nat,
         op' = [op EXCEPT !.pc = pc, !.amount = a, !.stored = s]
  PROVE  Notes(pc, a, s)
  BY Zenon DEF Op, Notes

LEMMA RestsPlace ==
  ASSUME op \in Op, NEW pc \in Places, op' = Settled(pc)
  PROVE  Rests(pc, op.nft)
  BY Zenon DEF Op, Settled, Rests

LEMMA RestsTries ==
  ASSUME op \in Op, NEW pc \in Places, op' = [Settled(pc) EXCEPT !.tries = op.tries + 1]
  PROVE  Rests(pc, op.nft)
  BY TriesCount, Zenon DEF Op, Settled, Rests

LEMMA RestsAnew ==
  ASSUME op \in Op, NEW pc \in Places, op' = [Settled(pc) EXCEPT !.tries = op.tries + 1, !.nft = None]
  PROVE  Rests(pc, None)
  BY TriesCount, Zenon DEF Op, Settled, Rests

(* A share is a number, and what is sent is a transaction.                *)
LEMMA ShareIsNat ==
  ASSUME NEW mine \in Nat, NEW stored \in Nat, NEW current \in Nat, current < stored
  PROVE  (mine * (stored - current)) \div stored \in Nat
<1>1. mine * (stored - current) \in Nat
  OBVIOUS
<1> DEFINE x == mine * (stored - current)
<1> HIDE DEF x
<1> QED
  BY <1>1 DEF x

LEMMA SendingForm ==
  ASSUME op \in Op, NEW tx \in Tx, NEW pc \in Places, op' = Sending(tx, pc)
  PROVE  /\ op' \in Op /\ op'.pc = pc /\ op'.tx = tx /\ op'.nft = tx.nft /\ op'.st = "flying" /\ op'.got = 0
         /\ op'.kind = op.kind /\ op'.key = op.key /\ op'.amount = op.amount /\ op'.stored = op.stored
<1>1. tx.nft \in Nfts
  BY Zenon DEF Tx
<1> QED
  BY <1>1, Zenon DEF Op, Sending

LEMMA SendsForm ==
  ASSUME op \in Op, NEW k \in TxKind, NEW n \in Nfts, NEW l \in Nat, NEW pc \in Places,
         op' = Sending([kind |-> k, nft |-> n, liq |-> l], pc)
  PROVE  Sends(k, n, l, pc)
<1> DEFINE tx == [kind |-> k, nft |-> n, liq |-> l]
<1>1. tx \in Tx /\ tx.kind = k /\ tx.nft = n /\ tx.liq = l
  BY Zenon DEF Tx
<1>2. op' = Sending(tx, pc)
  OBVIOUS
<1> HIDE DEF tx
<1> QED
  BY <1>1, <1>2, SendingForm, Zenon DEF Sends

(* What a read of the chain returns is a quantity or nothing, and nothing  *)
(* means that the position is gone.                                        *)
LEMMA ReadsFit ==
  ASSUME OpAt
  PROVE  /\ \A t \in Targets : TargetLiq(t) \in Nat \cup {None}
         /\ \A n \in Nfts : OurLiq(n) \in Nat \cup {None} /\ (OurLiq(n) = None => ~OnChain(n))
  BY ChainAssumption, Zenon DEF OpAt, TargetLiq, OurLiq, OnChain

(* The state before a step, fact by fact.                                  *)
LEMMA AtOp ==
  ASSUME OpAt, op # None
  PROVE  op \in Op /\ OpFields(op) /\ op.key \in Targets
  BY Zenon DEF OpAt, OpFields

LEMMA AtReads ==
  ASSUME OpAt
  PROVE  /\ \A t \in Targets : target[t].liq \in Nat /\ (map[t] # None => map[t].stored \in Nat)
         /\ \A n \in Nfts : pos[n].liq \in Nat
  BY Zenon DEF OpAt

LEMMA AtFresh ==
  ASSUME OpAt, Fresh # {}
  PROVE  FirstFresh \in Nfts /\ pos[FirstFresh].on = "unused"
  BY Zenon DEF OpAt

LEMMA AtClosed ==
  ASSUME OpAt
  PROVE  ClosedByClose
  BY Zenon DEF OpAt

(* What is left to show of a step, by the operation that takes it.         *)
LEMMA OpenKept ==
  ASSUME op.kind = "open", OpenKeeps, AddsUp
  PROVE  OpKeeps
  BY Zenon DEF OpKeeps, HandsOn

LEMMA IncreaseKept ==
  ASSUME op.kind = "increase", AddsUp
  PROVE  OpKeeps
  BY Zenon DEF OpKeeps, OpenKeeps, HandsOn

LEMMA DecreaseKept ==
  ASSUME op.kind \in {"decrease", "close"}, HandsOn
  PROVE  OpKeeps
  BY Zenon DEF OpKeeps, OpenKeeps, AddsUp

(* What a scan learns about an entry.                                      *)
LEMMA ScanFinds ==
  ASSUME OpAt, scan # None, NEW e \in scan.todo
  PROVE  /\ [scan EXCEPT !.todo = scan.todo \ {e}] = [todo |-> scan.todo \ {e}, orphans |-> scan.orphans]
         /\ OurLiq(e[2]) = None => ~OnChain(e[2])
<1>1. scan \in Scan /\ e[2] \in Nfts
  BY Zenon DEF OpAt, Scan
<1>2. OurLiq(e[2]) = None => ~OnChain(e[2])
  BY <1>1, ChainAssumption, Zenon DEF OpAt, OurLiq
<1>3. \A sc \in Scan : \A w : [sc EXCEPT !.todo = w] = [todo |-> w, orphans |-> sc.orphans]
  BY DEF Scan
<1> QED
  BY <1>1, <1>2, <1>3, Zenon

(* orcaOpenReads has the shape of a step.                               *)
LEMMA OrcaOpenReadsStep ==
  ASSUME OpAt, scenario.dex = "orca", orcaOpenReads
  PROVE  OpShape
<1> USE DEF At, Done, Fault, NoFault, ReadErrs, Reads, ReadsTarget, TargetLiq, StepOf
<1> SUFFICES ASSUME StepOf /\ op.kind = "open" /\ op.pc = "read" /\ UNCHANGED <<pos, map, late, loose>>
             PROVE  OpMoves /\ OpenKeeps /\ AddsUp
  BY AtOp, OpenKept, Zenon DEF orcaOpenReads, OpShape, opLeaves, queues, scans, FaultStep
<1>1. op' = None \/ Notes("send", target[op.key].liq, op.stored)
  BY NotesAmount, AtReads, Zenon DEF orcaOpenReads, Places
<1> QED
  BY <1>1, AtReads, Zenon DEF Notes, OpMoves, GoesOn, Mints, Maps, Abandons, Saved, Sent, OpenKeeps,
     AddsUp, Clean, OpFields, BeforeMint, Awaits, Filling

(* orcaOpenSends has the shape of a step.                               *)
LEMMA OrcaOpenSendsStep ==
  ASSUME OpAt, scenario.dex = "orca", orcaOpenSends
  PROVE  OpShape
<1> USE DEF At, StepOf
<1> SUFFICES ASSUME /\ StepOf /\ op.kind = "open" /\ op.pc = "send"
                    /\ Fresh # {} /\ pos' = Minted(op.key) /\ UNCHANGED <<map, late, loose>>
             PROVE  OpMoves /\ OpenKeeps /\ AddsUp
  BY AtOp, OpenKept, Zenon DEF orcaOpenSends, OpShape, opLeaves, queues, scans, FaultStep
<1>1. FirstFresh \in Nfts /\ op.amount \in Nat /\ "open" \in TxKind /\ "confirm" \in Places
  BY AtFresh, Zenon DEF OpFields, TxKind, Places
<1>2. Sends("open", FirstFresh, op.amount, "confirm")
  BY <1>1, SendsForm, Zenon DEF orcaOpenSends
<1> QED
  BY <1>1, <1>2, NoneAssumption, Zenon DEF Sends, OpMoves, GoesOn, Mints, Maps, Abandons, Saved, Sent,
     OpenKeeps, AddsUp, Clean, OpFields, BeforeMint, Awaits, Filling

(* orcaOpenConfirmed has the shape of a step.                           *)
LEMMA OrcaOpenConfirmedStep ==
  ASSUME OpAt, scenario.dex = "orca", orcaOpenConfirmed
  PROVE  OpShape
<1> USE DEF At, Done, Confirmed, NoFault, SetMapping, StepOf
<1> SUFFICES ASSUME /\ StepOf /\ op.kind = "open" /\ op.pc = "confirm" /\ op.st = "landed"
                    /\ op' = None /\ SetMapping(op.key, op.nft, op.amount) /\ UNCHANGED <<pos, late, loose>>
             PROVE  OpMoves /\ OpenKeeps /\ AddsUp
  BY AtOp, OpenKept, Zenon DEF orcaOpenConfirmed, OpShape, opLeaves, queues, scans, FaultStep
<1> QED
  BY Zenon DEF Saves, OpMoves, GoesOn, Mints, Maps, Abandons, Saved, Sent, OpenKeeps, AddsUp, Clean,
     OpFields, BeforeMint, Awaits, Filling

(* orcaOpenThrows has the shape of a step.                              *)
LEMMA OrcaOpenThrowsStep ==
  ASSUME OpAt, scenario.dex = "orca", orcaOpenThrows
  PROVE  OpShape
<1> USE DEF At, Throws, Settled, Fault, NoFault, StepOf
<1> SUFFICES ASSUME /\ StepOf /\ op.kind = "open" /\ op.pc = "confirm"
                    /\ UNCHANGED <<pos, map, loose>> /\ Abandons
             PROVE  OpMoves /\ OpenKeeps /\ AddsUp
  BY AtOp, OpenKept, Zenon DEF orcaOpenThrows, Abandons, OpShape, opLeaves, queues, scans,
     FaultStep
<1>1. Rests("recover", op.nft)
  BY RestsPlace, Zenon DEF orcaOpenThrows, Places
<1> QED
  BY <1>1, NoneAssumption, Zenon DEF Rests, OpMoves, GoesOn, Mints, Maps, Abandons, Saved, Sent,
     OpenKeeps, AddsUp, Clean, OpFields, BeforeMint, Awaits, Filling

(* orcaOpenRecovers has the shape of a step.                            *)
LEMMA OrcaOpenRecoversStep ==
  ASSUME OpAt, scenario.dex = "orca", orcaOpenRecovers
  PROVE  OpShape
<1> USE DEF At, Done, Fault, NoFault, ReadErrs, Reads, ReadsOurs, OurLiq, OnChain, SetMapping,
   StepOf
<1> SUFFICES ASSUME StepOf /\ op.kind = "open" /\ op.pc = "recover" /\ UNCHANGED <<pos, late, loose>>
             PROVE  OpMoves /\ OpenKeeps /\ AddsUp
  BY AtOp, OpenKept, Zenon DEF orcaOpenRecovers, OpShape, opLeaves, queues, scans, FaultStep
<1>1. pos[op.nft].liq # None
  BY AtReads, ChainAssumption, Zenon DEF OpFields, BeforeMint
<1>2. \/ op' = None /\ SetMapping(op.key, op.nft, op.amount) /\ OnChain(op.nft)
      \/ /\ map' = map /\ (~OnChain(op.nft) \/ "readError" \in scenario.kinds)
         /\ op' = None \/ op' = [op EXCEPT !.pc = "send", !.tries = op.tries + 1]
  BY <1>1, Zenon DEF orcaOpenRecovers, OrcaRetryOpen
<1>3. \/ op' = None /\ SetMapping(op.key, op.nft, op.amount) /\ OnChain(op.nft)
      \/ /\ map' = map /\ (~OnChain(op.nft) \/ "readError" \in scenario.kinds)
         /\ op' = None \/ Notes("send", op.amount, op.stored)
  BY <1>2, TriesCount, NotesTries, Zenon DEF Places
<1> QED
  BY <1>3, Zenon DEF Notes, Saves, OpMoves, GoesOn, Mints, Maps, Abandons, Saved, Sent, OpenKeeps,
     AddsUp, Clean, OpFields, BeforeMint, Awaits, Filling

(* orcaIncreaseReadsOurs has the shape of a step.                       *)
LEMMA OrcaIncreaseReadsOursStep ==
  ASSUME OpAt, scenario.dex = "orca", orcaIncreaseReadsOurs
  PROVE  OpShape
<1> USE DEF At, Done, Fault, NoFault, ReadErrs, Reads, ReadsOurs, OurLiq, OnChain, StepOf
<1> SUFFICES ASSUME StepOf /\ op.kind = "increase" /\ op.pc = "read" /\ UNCHANGED <<pos, map, late, loose>>
             PROVE  OpMoves /\ AddsUp
  BY AtOp, IncreaseKept, Zenon DEF orcaIncreaseReadsOurs, OpShape, opLeaves, queues, scans,
     FaultStep
<1>1. op' = None \/ Notes("delta", pos[op.nft].liq, op.stored)
  BY NotesAmount, AtReads, Zenon DEF orcaIncreaseReadsOurs, Places, OpFields, BeforeMint
<1> QED
  BY <1>1, AtReads, Zenon DEF Notes, OpMoves, GoesOn, Mints, Maps, Abandons, Saved, Sent, AddsUp,
     OpFields, BeforeMint, Awaits, Filling

(* orcaIncreaseReadsTarget has the shape of a step.                     *)
LEMMA OrcaIncreaseReadsTargetStep ==
  ASSUME OpAt, scenario.dex = "orca", orcaIncreaseReadsTarget
  PROVE  OpShape
<1> USE DEF At, Done, Fault, NoFault, ReadErrs, Reads, ReadsTarget, TargetLiq, StepOf
<1> SUFFICES ASSUME StepOf /\ op.kind = "increase" /\ op.pc = "delta" /\ UNCHANGED <<pos, map, late, loose>>
             PROVE  OpMoves /\ AddsUp
  BY AtOp, IncreaseKept, Zenon DEF orcaIncreaseReadsTarget, OpShape, opLeaves, queues, scans,
     FaultStep
<1>1. \/ op' = None
      \/ /\ target[op.key].liq > op.amount
         /\ op' = [op EXCEPT !.pc = "send", !.amount = target[op.key].liq - op.amount, !.tries = 0]
      \/ op' = [op EXCEPT !.pc = "again", !.tries = 1]
  BY AtReads, Zenon DEF orcaIncreaseReadsTarget
<1>2. target[op.key].liq > op.amount =>
        target[op.key].liq - op.amount \in Nat /\ op.amount + (target[op.key].liq - op.amount) = target[op.key].liq
  BY AtReads DEF OpFields, BeforeMint
<1>3. \/ op' = None \/ Notes("again", op.amount, op.stored)
      \/ \E a \in Nat : op.amount + a = target[op.key].liq /\ Notes("send", a, op.stored)
  BY <1>1, <1>2, 0 \in Nat, 1 \in Nat, NotesTries, NotesDelta, Zenon DEF Places
<1> QED
  BY <1>3, Zenon DEF Notes, OpMoves, GoesOn, Mints, Maps, Abandons, Saved, Sent, AddsUp, OpFields,
     BeforeMint, Awaits, Filling

(* orcaIncreaseRereadsOurs has the shape of a step.                     *)
LEMMA OrcaIncreaseRereadsOursStep ==
  ASSUME OpAt, scenario.dex = "orca", orcaIncreaseRereadsOurs
  PROVE  OpShape
<1> USE DEF At, Fault, NoFault, ReadErrs, Reads, ReadsOurs, OurLiq, OnChain, StepOf
<1> SUFFICES ASSUME StepOf /\ op.kind = "increase" /\ op.pc = "again" /\ UNCHANGED <<pos, map, late, loose>>
             PROVE  OpMoves /\ AddsUp
  BY AtOp, IncreaseKept, Zenon DEF orcaIncreaseRereadsOurs, OpShape, opLeaves, queues, scans,
     FaultStep
<1>1. \E a \in {op.amount, pos[op.nft].liq} : Notes("delta", a, op.stored)
  BY NotesAmount, AtReads, Zenon DEF orcaIncreaseRereadsOurs, Places, OpFields, BeforeMint
<1> QED
  BY <1>1, AtReads, Zenon DEF Notes, OpMoves, GoesOn, Mints, Maps, Abandons, Saved, Sent, AddsUp,
     OpFields, BeforeMint, Awaits, Filling

(* orcaIncreaseSends has the shape of a step.                           *)
LEMMA OrcaIncreaseSendsStep ==
  ASSUME OpAt, scenario.dex = "orca", orcaIncreaseSends
  PROVE  OpShape
<1> USE DEF At, StepOf
<1> SUFFICES ASSUME StepOf /\ op.kind = "increase" /\ op.pc = "send" /\ UNCHANGED <<pos, map, late, loose>>
             PROVE  OpMoves /\ AddsUp
  BY AtOp, IncreaseKept, Zenon DEF orcaIncreaseSends, OpShape, opLeaves, queues, scans,
     FaultStep
<1>1. op.nft \in Nfts /\ op.amount \in Nat /\ "increase" \in TxKind /\ "confirm" \in Places
  BY Zenon DEF OpFields, TxKind, Places
<1>2. Sends("increase", op.nft, op.amount, "confirm")
  BY <1>1, SendsForm, Zenon DEF orcaIncreaseSends
<1> QED
  BY <1>1, <1>2, Zenon DEF Sends, OpMoves, GoesOn, Mints, Maps, Abandons, Saved, Sent, AddsUp, OpFields,
     BeforeMint, Awaits, Filling

(* orcaIncreaseConfirmed has the shape of a step.                       *)
LEMMA OrcaIncreaseConfirmedStep ==
  ASSUME OpAt, scenario.dex = "orca", orcaIncreaseConfirmed
  PROVE  OpShape
<1> USE DEF At, Confirmed, Settled, NoFault, StepOf
<1> SUFFICES ASSUME StepOf /\ op.kind = "increase" /\ op.pc = "confirm" /\ UNCHANGED <<pos, map, late, loose>>
             PROVE  OpMoves /\ AddsUp
  BY AtOp, IncreaseKept, Zenon DEF orcaIncreaseConfirmed, OpShape, opLeaves, queues, scans,
     FaultStep
<1>1. Rests("store", op.nft)
  BY RestsPlace, Zenon DEF orcaIncreaseConfirmed, Places
<1> QED
  BY <1>1, Zenon DEF Rests, OpMoves, GoesOn, Mints, Maps, Abandons, Saved, Sent, AddsUp, OpFields,
     BeforeMint, Awaits, Filling

(* orcaIncreaseThrows has the shape of a step.                          *)
LEMMA OrcaIncreaseThrowsStep ==
  ASSUME OpAt, scenario.dex = "orca", orcaIncreaseThrows
  PROVE  OpShape
<1> USE DEF At, Done, Throws, Settled, Fault, NoFault, StepOf
<1> SUFFICES ASSUME /\ StepOf /\ op.kind = "increase" /\ op.pc = "confirm" /\ UNCHANGED <<pos, map, loose>> /\ Abandons
                    /\ op.st = "landed" => "lostAck" \in scenario.kinds
             PROVE  OpMoves /\ AddsUp
  BY AtOp, IncreaseKept, Zenon DEF orcaIncreaseThrows, Abandons, OpShape, opLeaves, queues,
     scans, FaultStep
<1>1. op' = None \/ Rests("send", op.nft)
  BY RestsTries, Zenon DEF orcaIncreaseThrows, Places
<1> QED
  BY <1>1, Zenon DEF Rests, OpMoves, GoesOn, Mints, Maps, Abandons, Saved, Sent, AddsUp, OpFields,
     BeforeMint, Awaits, Filling

(* orcaIncreaseStores has the shape of a step.                          *)
LEMMA OrcaIncreaseStoresStep ==
  ASSUME OpAt, scenario.dex = "orca", orcaIncreaseStores
  PROVE  OpShape
<1> USE DEF At, Done, Fault, NoFault, ReadErrs, Reads, ReadsTarget, TargetLiq,
   SetTargetLiquidity, StepOf
<1> SUFFICES ASSUME /\ StepOf /\ op.kind = "increase" /\ op' = None /\ UNCHANGED <<pos, late, loose>>
                    /\ map' = map \/ \E l \in Nat : SetTargetLiquidity(op.key, l)
             PROVE  OpMoves /\ AddsUp
  BY AtOp, AtReads, IncreaseKept, Zenon DEF orcaIncreaseStores, OpShape, opLeaves, queues, scans,
     FaultStep
<1> QED
  BY Zenon DEF OpMoves, GoesOn, Mints, Maps, Abandons, Saved, Sent, AddsUp, OpFields, BeforeMint,
     Awaits, Filling

(* orcaDecreaseReadsTarget has the shape of a step.                     *)
LEMMA OrcaDecreaseReadsTargetStep ==
  ASSUME OpAt, scenario.dex = "orca", orcaDecreaseReadsTarget
  PROVE  OpShape
<1> USE DEF At, Done, Fault, NoFault, ReadErrs, Reads, ReadsTarget, TargetLiq, StepOf
<1> SUFFICES ASSUME StepOf /\ op.kind = "decrease" /\ op.pc = "read" /\ UNCHANGED <<pos, map, late, loose>>
             PROVE  OpMoves /\ HandsOn
  BY AtOp, DecreaseKept, Zenon DEF orcaDecreaseReadsTarget, OpShape, opLeaves, queues, scans,
     FaultStep
<1> DEFINE stored == getTargetLiquidity(op.key)
<1>1. target[op.key].liq \in Nat /\ (stored # None => stored \in Nat)
  BY AtReads, Zenon DEF getTargetLiquidity
<1>2. \E r \in {target[op.key].liq, None} :
        \/ op' = None
        \/ op' = [op EXCEPT !.pc = "send", !.amount = None]
        \/ /\ r # None /\ stored # None /\ r < stored
           /\ op' = [op EXCEPT !.pc = "share", !.amount = r, !.stored = stored]
  BY Zenon DEF orcaDecreaseReadsTarget
<1> HIDE DEF stored
<1>3. \/ op' = None
      \/ op' = [op EXCEPT !.pc = "send", !.amount = None]
      \/ \E r \in Nat, s \in Nat : r < s /\ op' = [op EXCEPT !.pc = "share", !.amount = r, !.stored = s]
  BY <1>1, <1>2, Zenon
<1>4. \/ op' = None \/ Notes("send", None, op.stored)
      \/ \E r \in Nat, s \in Nat : r < s /\ Notes("share", r, s)
  BY <1>3, NotesAmount, NotesShare, Zenon DEF Places
<1> QED
  BY <1>4, Zenon DEF Notes, OpMoves, GoesOn, Mints, Maps, Abandons, Saved, Sent, HandsOn, OpFields,
     BeforeMint, Awaits, Filling

(* orcaDecreaseReadsOurs has the shape of a step.                       *)
LEMMA OrcaDecreaseReadsOursStep ==
  ASSUME OpAt, scenario.dex = "orca", orcaDecreaseReadsOurs
  PROVE  OpShape
<1> USE DEF At, Done, Fault, NoFault, ReadErrs, Reads, ReadsOurs, OurLiq, OnChain,
   SetTargetLiquidity, StepOf
<1> SUFFICES ASSUME /\ StepOf /\ op.kind = "decrease" /\ op.pc = "share" /\ UNCHANGED <<pos, late, loose>>
                    /\ SetTargetLiquidity(op.key, op.amount)
             PROVE  OpMoves /\ HandsOn
  BY AtOp, DecreaseKept, Zenon DEF orcaDecreaseReadsOurs, OpShape, opLeaves, queues, scans,
     FaultStep
<1>1. \A r \in Nat : OrcaProportionalShare(r, op.stored, op.amount) \in Nat
  BY ShareIsNat, Zenon DEF OrcaProportionalShare, Op, OpFields, BeforeMint
<1>2. op' = None \/ \E a \in Nat \cup {None} : op' = [op EXCEPT !.pc = "send", !.amount = a]
  BY <1>1, AtReads, Zenon DEF orcaDecreaseReadsOurs, OpFields, BeforeMint
<1>3. op' = None \/ \E a \in Nat \cup {None} : Notes("send", a, op.stored)
  BY <1>2, NotesAmount, Zenon DEF Places
<1> QED
  BY <1>3, Zenon DEF Notes, OpMoves, GoesOn, Mints, Maps, Abandons, Saved, Sent, HandsOn, OpFields,
     BeforeMint, Awaits, Filling

(* orcaDecreaseSends has the shape of a step.                           *)
LEMMA OrcaDecreaseSendsStep ==
  ASSUME OpAt, scenario.dex = "orca", orcaDecreaseSends
  PROVE  OpShape
<1> USE DEF At, Done, Fault, NoFault, ReadErrs, Reads, ReadsOurs, OurLiq, OnChain, StepOf
<1> SUFFICES ASSUME StepOf /\ op.kind = "decrease" /\ op.pc = "send" /\ UNCHANGED <<pos, map, late, loose>>
             PROVE  OpMoves /\ HandsOn
  BY AtOp, DecreaseKept, Zenon DEF orcaDecreaseSends, OpShape, opLeaves, queues, scans,
     FaultStep
<1>1. \A r \in Nat : OrcaDecreaseOf(r) \in Nat
  BY Zenon DEF OrcaDecreaseOf, Op
<1>2. op' = None \/ \E l \in Nat : op' = Sending([kind |-> "decrease", nft |-> op.nft, liq |-> l], "confirm")
  BY <1>1, AtReads, Zenon DEF orcaDecreaseSends, OpFields, BeforeMint
<1>3. op \in Op /\ op.nft \in Nfts /\ "decrease" \in TxKind /\ "confirm" \in Places
  BY Zenon DEF Places, TxKind, OpFields, BeforeMint
<1>4. ASSUME NEW r \in Nat, op' = Sending([kind |-> "decrease", nft |-> op.nft, liq |-> r], "confirm")
      PROVE  \E l \in Nat : Sends("decrease", op.nft, l, "confirm")
  BY <1>3, <1>4, SendsForm, Zenon
<1>5. op' = None \/ \E l \in Nat : Sends("decrease", op.nft, l, "confirm")
  BY <1>2, <1>4, Zenon
<1> QED
  BY <1>5, Zenon DEF Sends, OpMoves, GoesOn, Mints, Maps, Abandons, Saved, Sent, HandsOn, OpFields,
     BeforeMint, Awaits, Filling

(* orcaDecreaseConfirmed has the shape of a step.                       *)
LEMMA OrcaDecreaseConfirmedStep ==
  ASSUME OpAt, scenario.dex = "orca", orcaDecreaseConfirmed
  PROVE  OpShape
<1> USE DEF At, Confirmed, Settled, NoFault, StepOf
<1> SUFFICES ASSUME StepOf /\ op.kind = "decrease" /\ op.pc = "confirm" /\ UNCHANGED <<pos, map, late, loose>>
             PROVE  OpMoves /\ HandsOn
  BY AtOp, DecreaseKept, Zenon DEF orcaDecreaseConfirmed, OpShape, opLeaves, queues, scans,
     FaultStep
<1>1. Rests("queue", op.nft)
  BY RestsPlace, Zenon DEF orcaDecreaseConfirmed, Places
<1> QED
  BY <1>1, NoneAssumption, Zenon DEF Rests, OpMoves, GoesOn, Mints, Maps, Abandons, Saved, Sent,
     HandsOn, OpFields, BeforeMint, Awaits, Filling

(* orcaDecreaseThrows has the shape of a step.                          *)
LEMMA OrcaDecreaseThrowsStep ==
  ASSUME OpAt, scenario.dex = "orca", orcaDecreaseThrows
  PROVE  OpShape
<1> USE DEF At, Done, Throws, Settled, Fault, NoFault, StepOf
<1> SUFFICES ASSUME /\ StepOf /\ op.kind = "decrease" /\ op.pc = "confirm" /\ UNCHANGED <<pos, map, loose>> /\ Abandons
                    /\ op.st = "landed" => "lostAck" \in scenario.kinds
             PROVE  OpMoves /\ HandsOn
  BY AtOp, DecreaseKept, Zenon DEF orcaDecreaseThrows, Abandons, OpShape, opLeaves, queues,
     scans, FaultStep
<1>1. op' = None \/ Rests("send", op.nft)
  BY RestsTries, Zenon DEF orcaDecreaseThrows, Places
<1> QED
  BY <1>1, Zenon DEF Rests, OpMoves, GoesOn, Mints, Maps, Abandons, Saved, Sent, HandsOn, OpFields,
     BeforeMint, Awaits, Filling

(* orcaReceivedQueued has the shape of a step.                          *)
LEMMA OrcaReceivedQueuedStep ==
  ASSUME OpAt, scenario.dex = "orca", orcaReceivedQueued
  PROVE  OpShape
<1> USE DEF Done, Fault, NoFault, StepOf
<1> SUFFICES ASSUME /\ StepOf /\ op.kind \in {"decrease", "close"} /\ op' = None /\ UNCHANGED <<pos, map, late>>
                    /\ loose' = loose - op.got \/ (loose' = loose /\ "readError" \in scenario.kinds)
             PROVE  OpMoves /\ OpKeeps
  BY AtOp, Zenon DEF orcaReceivedQueued, orcaAddPendingSwaps, OpShape, opLeaves, queues, scans,
     FaultStep
<1> QED
  BY Zenon DEF OpMoves, GoesOn, Mints, Maps, Abandons, Saved, Sent, OpKeeps, OpenKeeps, HandsOn,
     AddsUp, Clean, OpFields, BeforeMint, Awaits, Filling

(* orcaCloseSends has the shape of a step.                              *)
LEMMA OrcaCloseSendsStep ==
  ASSUME OpAt, scenario.dex = "orca", orcaCloseSends
  PROVE  OpShape
<1> USE DEF At, Done, Fault, NoFault, ReadErrs, Reads, ReadsOurs, OurLiq, OnChain, DeleteMapping,
   StepOf
<1> SUFFICES ASSUME StepOf /\ op.kind = "close" /\ op.pc = "send" /\ UNCHANGED <<pos, late, loose>>
             PROVE  OpMoves /\ HandsOn
  BY AtOp, DecreaseKept, Zenon DEF orcaCloseSends, OpShape, opLeaves, queues, scans, FaultStep
<1>1. pos[op.nft].liq \in Nat
  BY AtReads, Zenon DEF OpFields, BeforeMint
<1>2. \/ op' = None /\ Unmaps
      \/ map' = map /\ \E l \in Nat : op' = Sending([kind |-> "close", nft |-> op.nft, liq |-> l], "confirm")
  <2>1. PICK r \in {pos[op.nft].liq, None} :
          /\ ReadsOurs(op.nft, r)
          /\ IF r = None THEN DeleteMapping(op.key) /\ op' = None
             ELSE /\ op' = Sending([kind |-> "close", nft |-> op.nft, liq |-> r], "confirm")
                  /\ map' = map
    BY Zenon DEF orcaCloseSends
  <2>2. CASE r = None
    <3>1. ~OnChain(op.nft) \/ "readError" \in scenario.kinds
      BY <2>1, <2>2, <1>1, Zenon, ChainAssumption
    <3> QED
      BY <2>1, <2>2, <3>1, Zenon DEF Unmaps
  <2>3. CASE r # None
    BY <2>1, <2>3, <1>1, Zenon
  <2> QED
    BY <2>2, <2>3, Zenon
<1>3. op \in Op /\ op.nft \in Nfts /\ "close" \in TxKind /\ "confirm" \in Places
  BY Zenon DEF Places, TxKind, OpFields, BeforeMint
<1>4. ASSUME NEW r \in Nat, op' = Sending([kind |-> "close", nft |-> op.nft, liq |-> r], "confirm")
      PROVE  \E l \in Nat : Sends("close", op.nft, l, "confirm")
  BY <1>3, <1>4, SendsForm, Zenon
<1>5. \/ op' = None /\ Unmaps
      \/ map' = map /\ \E l \in Nat : Sends("close", op.nft, l, "confirm")
  BY <1>2, <1>4, Zenon
<1> QED
  BY <1>5, Zenon DEF Sends, OpMoves, GoesOn, Mints, Maps, Abandons, Saved, Sent, HandsOn, OpFields,
     BeforeMint, Awaits, Filling

(* orcaCloseConfirmed has the shape of a step.                          *)
LEMMA OrcaCloseConfirmedStep ==
  ASSUME OpAt, scenario.dex = "orca", orcaCloseConfirmed
  PROVE  OpShape
<1> USE DEF At, Confirmed, Settled, NoFault, StepOf
<1> SUFFICES ASSUME /\ StepOf /\ op.kind = "close" /\ op.pc = "confirm" /\ op.st = "landed"
                    /\ UNCHANGED <<pos, map, late, loose>>
             PROVE  OpMoves /\ HandsOn
  BY AtOp, DecreaseKept, Zenon DEF orcaCloseConfirmed, OpShape, opLeaves, queues, scans,
     FaultStep
<1>1. Rests("verify", op.nft)
  BY RestsPlace, Zenon DEF orcaCloseConfirmed, Places
<1> QED
  BY <1>1, NoneAssumption, Zenon DEF Rests, OpMoves, GoesOn, Mints, Maps, Abandons, Saved, Sent,
     HandsOn, OpFields, BeforeMint, Awaits, Filling

(* orcaCloseThrows has the shape of a step.                             *)
LEMMA OrcaCloseThrowsStep ==
  ASSUME OpAt, scenario.dex = "orca", orcaCloseThrows
  PROVE  OpShape
<1> USE DEF At, Done, Throws, Settled, Fault, NoFault, StepOf
<1> SUFFICES ASSUME /\ StepOf /\ op.kind = "close" /\ op.pc = "confirm" /\ UNCHANGED <<pos, map, loose>> /\ Abandons
                    /\ op.st = "landed" => "lostAck" \in scenario.kinds
             PROVE  OpMoves /\ HandsOn
  BY AtOp, DecreaseKept, Zenon DEF orcaCloseThrows, Abandons, OpShape, opLeaves, queues, scans,
     FaultStep
<1>1. op' = None \/ Rests("send", op.nft)
  BY RestsTries, Zenon DEF orcaCloseThrows, OrcaRetryClose, Places
<1> QED
  BY <1>1, Zenon DEF Rests, OpMoves, GoesOn, Mints, Maps, Abandons, Saved, Sent, HandsOn, OpFields,
     BeforeMint, Awaits, Filling

(* orcaCloseVerified has the shape of a step.                           *)
LEMMA OrcaCloseVerifiedStep ==
  ASSUME OpAt, scenario.dex = "orca", orcaCloseVerified
  PROVE  OpShape
<1> USE DEF At, Done, Settled, Fault, NoFault, DeleteMapping, StepOf
<1> SUFFICES ASSUME StepOf /\ op.kind = "close" /\ op.pc = "verify" /\ UNCHANGED <<pos, late, loose>>
             PROVE  OpMoves /\ HandsOn
  BY AtOp, DecreaseKept, Zenon DEF orcaCloseVerified, orcaVerifyTxFails, OpShape, opLeaves,
     queues, scans, FaultStep
<1>1. \/ DeleteMapping(op.key) /\ op' = Settled("queue")
      \/ "notVerified" \in scenario.kinds /\ map' = map /\ (op' = None \/ op' = [Settled("send") EXCEPT !.tries = op.tries + 1])
  BY Zenon DEF orcaCloseVerified, OrcaRetryClose, orcaVerifyTxFails
<1>2. \/ DeleteMapping(op.key) /\ Rests("queue", op.nft)
      \/ "notVerified" \in scenario.kinds /\ map' = map /\ (op' = None \/ Rests("send", op.nft))
  BY <1>1, RestsPlace, RestsTries, Zenon DEF Places
<1>3. ~OnChain(op.nft)
  BY AtClosed, Zenon DEF ClosedByClose, OnChain, OpFields, BeforeMint, Awaits, Filling
<1> QED
  BY <1>2, <1>3, NoneAssumption, Zenon DEF Rests, Unmaps, OpMoves, GoesOn, Mints, Maps, Abandons, Saved,
     Sent, HandsOn, OpFields, BeforeMint, Awaits, Filling

(* Every step of an operation on Orca has this shape.                      *)
LEMMA OrcaSteps ==
  ASSUME OpAt, scenario.dex = "orca", OrcaOpStep
  PROVE  OpShape
  BY OrcaOpenReadsStep, OrcaOpenSendsStep, OrcaOpenConfirmedStep, OrcaOpenThrowsStep,
     OrcaOpenRecoversStep, OrcaIncreaseReadsOursStep, OrcaIncreaseReadsTargetStep,
     OrcaIncreaseRereadsOursStep, OrcaIncreaseSendsStep, OrcaIncreaseConfirmedStep,
     OrcaIncreaseThrowsStep, OrcaIncreaseStoresStep, OrcaDecreaseReadsTargetStep,
     OrcaDecreaseReadsOursStep, OrcaDecreaseSendsStep, OrcaDecreaseConfirmedStep,
     OrcaDecreaseThrowsStep, OrcaReceivedQueuedStep, OrcaCloseSendsStep, OrcaCloseConfirmedStep,
     OrcaCloseThrowsStep, OrcaCloseVerifiedStep, Zenon DEF OrcaOpStep

(* What an operation on Orca is when it begins.                            *)
LEMMA OrcaStarts ==
  ASSUME scenario.dex = "orca", NEW item \in HighItem \cup NormalItem \cup DashboardItem,
         op' \in OrcaStart(item)
  PROVE  Began
<1>1. \/ item.kind \in {"open", "increase", "decrease", "close"} /\ item.key \in Targets
      \/ item.kind = "manualClose"
  BY Zenon DEF HighItem, NormalItem, DashboardItem, HighKinds, NormalKind
<1> QED
  BY <1>1, Zenon DEF OrcaStart, orcaCopyOpenPosition, orcaCopyIncreaseLiquidity,
     orcaCopyDecreaseLiquidity, orcaCopyClosePosition, orcaManualClosePosition,
     TargetsOf, Running, Began

(* Every step of a behaviour of Orca has one of the shapes.                *)
LEMMA OrcaShapes ==
  ASSUME OpAt, scenario.dex = "orca", OrcaNext
  PROVE  StepShape
<1>1. orcaScanChecks => ScanChecks
  BY Zenon DEF orcaScanChecks, Reads, ReadsTarget, ReadErrs, ScanChecks, FaultStep, Fault, NoFault
<1>2. ScanEnds => QueueOrphans(NormalKind)
  BY Zenon DEF ScanEnds, NormalKind
<1>3. orcaDispatch \/ orcaDashboard => StepShape
  BY OrcaStarts, Zenon DEF orcaDispatch, orcaDashboard, StepShape
<1> QED
  BY <1>1, <1>2, <1>3, OrcaSteps, Zenon DEF OrcaNext, OrcaScanStep, ChainStep, StepShape

(* meteoraOpenReads has the shape of a step.                            *)
LEMMA MeteoraOpenReadsStep ==
  ASSUME OpAt, scenario.dex = "meteora", meteoraOpenReads
  PROVE  OpShape
<1> USE DEF At, Done, Fault, NoFault, ReadErrs, StepOf
<1> SUFFICES ASSUME StepOf /\ op.kind = "open" /\ op.pc = "read" /\ UNCHANGED <<pos, map, late, loose>>
             PROVE  OpMoves /\ OpenKeeps /\ AddsUp
  BY AtOp, OpenKept, Zenon DEF meteoraOpenReads, TargetLiq, OpShape, opLeaves, queues, scans,
     FaultStep
<1>1. op' = None \/ \E pc \in {"send", "create"} : op' = [op EXCEPT !.pc = pc, !.amount = target[op.key].liq]
  BY AtReads, Zenon DEF meteoraOpenReads, TargetLiq
<1>2. op' = None \/ \E pc \in {"send", "create"} : Notes(pc, target[op.key].liq, op.stored)
  BY <1>1, AtReads, NotesAmount, Zenon DEF Places
<1> QED
  BY <1>2, AtReads, Zenon DEF Notes, OpMoves, GoesOn, Mints, Maps, Abandons, Saved, Sent, OpenKeeps,
     AddsUp, Clean, OpFields, BeforeMint, Awaits, Filling, InParts

(* meteoraOpenSends has the shape of a step.                            *)
LEMMA MeteoraOpenSendsStep ==
  ASSUME OpAt, scenario.dex = "meteora", meteoraOpenSends
  PROVE  OpShape
<1> USE DEF StepOf
<1> SUFFICES ASSUME /\ StepOf /\ op.kind = "open" /\ op.pc \in {"send", "create"}
                    /\ Fresh # {} /\ pos' = Minted(op.key) /\ UNCHANGED <<map, late, loose>>
             PROVE  OpMoves /\ OpenKeeps /\ AddsUp
  BY AtOp, OpenKept, Zenon DEF meteoraOpenSends, OpShape, opLeaves, queues, scans, FaultStep
<1>1. \/ op' = Sending([kind |-> "open", nft |-> FirstFresh, liq |-> op.amount], "confirm")
      \/ op' = Sending([kind |-> "open", nft |-> FirstFresh, liq |-> 0], "confirmCreate")
  BY Zenon DEF meteoraOpenSends, meteoraSignAndSend
<1>2. FirstFresh \in Nfts
  BY AtFresh, Zenon
<1>3. op \in Op /\ {0, op.amount} \subseteq Nat /\ "open" \in TxKind /\ {"confirm", "confirmCreate"} \subseteq Places
  BY DEF TxKind, Places, OpFields, BeforeMint
<1>4. \/ Sends("open", FirstFresh, op.amount, "confirm")
      \/ Sends("open", FirstFresh, 0, "confirmCreate")
  BY <1>1, <1>2, <1>3, SendsForm, Zenon
<1> QED
  BY <1>2, <1>4, NoneAssumption, Zenon DEF Sends, OpMoves, GoesOn, Mints, Maps, Abandons, Saved, Sent,
     OpenKeeps, AddsUp, Clean, OpFields, BeforeMint, Awaits, Filling, InParts

(* meteoraOpenThrows has the shape of a step.                           *)
LEMMA MeteoraOpenThrowsStep ==
  ASSUME OpAt, scenario.dex = "meteora", meteoraOpenThrows
  PROVE  OpShape
<1> USE DEF Done, Throws, Settled, Fault, NoFault, MeteoraRetry, MeteoraRetryOpen, StepOf
<1> SUFFICES ASSUME /\ StepOf /\ op.kind = "open" /\ op.pc \in {"confirm", "confirmCreate", "confirmPart", "confirmFill"}
                    /\ UNCHANGED <<pos, map, loose>> /\ Abandons
                    /\ op.st = "landed" => "lostAck" \in scenario.kinds
                    /\ \/ op.st \in {"reverted", "expired"}
                       \/ scenario.kinds \cap {"timeout", "lostAck"} # {}
             PROVE  OpMoves /\ OpenKeeps /\ AddsUp
  BY AtOp, OpenKept, Zenon DEF meteoraOpenThrows, Abandons, OpShape, opLeaves, queues, scans,
     FaultStep
<1> DEFINE pc == IF op.pc = "confirm" THEN "send" ELSE "create"
<1>1. op' = None \/ op' = [Settled(pc) EXCEPT !.tries = op.tries + 1]
  BY Zenon DEF meteoraOpenThrows
<1>2. pc \in {"send", "create"}
  OBVIOUS
<1> HIDE DEF pc
<1>3. op' = None \/ Rests(pc, op.nft)
  BY <1>1, <1>2, RestsTries, Zenon DEF Places
<1> QED
  BY <1>2, <1>3, Zenon DEF Rests, OpMoves, GoesOn, Mints, Maps, Abandons, Saved, Sent, OpenKeeps,
     AddsUp, Clean, OpFields, BeforeMint, Awaits, Filling, InParts

(* meteoraOpenCreated has the shape of a step.                          *)
LEMMA MeteoraOpenCreatedStep ==
  ASSUME OpAt, scenario.dex = "meteora", meteoraOpenCreated
  PROVE  OpShape
<1> USE DEF At, Done, Settled, Fault, NoFault, meteoraVerifyTxFails, MeteoraRetry,
   MeteoraRetryOpen, StepOf
<1> SUFFICES ASSUME /\ StepOf /\ op.kind = "open" /\ op.pc = "confirmCreate" /\ op.st = "landed"
                    /\ UNCHANGED <<pos, map, late, loose>>
             PROVE  OpMoves /\ OpenKeeps /\ AddsUp
  BY AtOp, OpenKept, Zenon DEF meteoraOpenCreated, OpShape, opLeaves, queues, scans, FaultStep
<1>1. op' = None \/ op' = Settled("fill") \/ op' = [Settled("create") EXCEPT !.tries = op.tries + 1]
  BY Zenon DEF meteoraOpenCreated
<1>2. op' = None \/ Rests("fill", op.nft) \/ Rests("create", op.nft)
  BY <1>1, RestsPlace, RestsTries, Zenon DEF Places
<1> QED
  BY <1>2, Zenon DEF Rests, OpMoves, GoesOn, Mints, Maps, Abandons, Saved, Sent, OpenKeeps, AddsUp,
     Clean, OpFields, BeforeMint, Awaits, Filling, InParts

(* meteoraOpenFills has the shape of a step.                            *)
LEMMA MeteoraOpenFillsStep ==
  ASSUME OpAt, scenario.dex = "meteora", meteoraOpenFills
  PROVE  OpShape
<1> USE DEF At, StepOf
<1> SUFFICES ASSUME StepOf /\ op.kind = "open" /\ op.pc = "fill" /\ UNCHANGED <<pos, map, late, loose>>
             PROVE  OpMoves /\ OpenKeeps /\ AddsUp
  BY AtOp, OpenKept, Zenon DEF meteoraOpenFills, OpShape, opLeaves, queues, scans, FaultStep
<1>1. op \in Op /\ op.nft \in Nfts /\ op.amount \in Nat /\ "increase" \in TxKind
      /\ {"confirmFill", "confirmPart"} \subseteq Places
  BY Zenon DEF TxKind, Places, OpFields, BeforeMint
<1>2. PICK part \in 1..op.amount, pc \in {"confirmFill", "confirmPart"} :
        /\ op' = Sending([kind |-> "increase", nft |-> op.nft, liq |-> part], pc)
        /\ pos[op.nft].liq + part = op.amount \/ pos[op.nft].liq + part < op.amount
        /\ pc = "confirmPart" => InParts
  BY Zenon DEF meteoraOpenFills, meteoraSignAndSend, InParts
<1>3. part \in Nat /\ pos[op.nft].liq + part <= op.amount
  BY <1>1, <1>2, AtReads
<1>4. Sends("increase", op.nft, part, pc)
  BY <1>1, <1>2, <1>3, SendsForm, Zenon
<1>5. OpFields(op')
  BY <1>2, <1>4, Zenon DEF Sends, OpFields, Sent, BeforeMint, Awaits, Filling
<1>6. OpMoves
  BY <1>4, <1>5, Zenon DEF Sends, OpMoves, GoesOn, Mints, Maps, Abandons, Saved
<1>7. OpenKeeps
  BY <1>2, <1>4, NoneAssumption, Zenon DEF Sends, OpenKeeps, Clean, Filling
<1>8. AddsUp
  BY <1>2, <1>3, <1>4, Zenon DEF Sends, AddsUp, BeforeMint
<1> QED
  BY <1>6, <1>7, <1>8, Zenon

(* meteoraOpenPartFilled has the shape of a step.                       *)
LEMMA MeteoraOpenPartFilledStep ==
  ASSUME OpAt, scenario.dex = "meteora", meteoraOpenPartFilled
  PROVE  OpShape
<1> USE DEF At, Confirmed, NoFault, StepOf
<1> SUFFICES ASSUME StepOf /\ op.kind = "open" /\ op.pc = "confirmPart" /\ UNCHANGED <<pos, map, late, loose>>
             PROVE  OpMoves /\ OpenKeeps /\ AddsUp
  BY AtOp, OpenKept, Zenon DEF meteoraOpenPartFilled, OpShape, opLeaves, queues, scans, FaultStep
<1>1. Rests("fill", op.nft)
  BY RestsPlace, Zenon DEF meteoraOpenPartFilled, Places
<1>2. OpFields(op')
  BY <1>1, Zenon DEF Rests, OpFields, BeforeMint
<1>3. OpMoves
  BY <1>1, <1>2, Zenon DEF Rests, OpMoves, GoesOn, Mints, Maps, Abandons, Saved
<1>4. OpenKeeps
  BY <1>1, NoneAssumption, Zenon DEF Rests, OpenKeeps, OpFields, Filling
<1>5. AddsUp
  BY <1>1, Zenon DEF Rests, AddsUp, BeforeMint
<1> QED
  BY <1>3, <1>4, <1>5, Zenon

(* meteoraOpenConfirmed has the shape of a step.                        *)
LEMMA MeteoraOpenConfirmedStep ==
  ASSUME OpAt, scenario.dex = "meteora", meteoraOpenConfirmed
  PROVE  OpShape
<1> USE DEF Confirmed, Settled, NoFault, SetMapping, StepOf
<1> SUFFICES ASSUME /\ StepOf /\ op.kind = "open" /\ op.pc \in {"confirm", "confirmFill"}
                    /\ UNCHANGED <<pos, late, loose>> /\ op.st = "landed" /\ SetMapping(op.key, op.nft, op.amount)
             PROVE  OpMoves /\ OpenKeeps /\ AddsUp
  BY AtOp, OpenKept, Zenon DEF meteoraOpenConfirmed, OpShape, opLeaves, queues, scans, FaultStep
<1>1. \E pc \in {"verify", "verifyFill"} : Rests(pc, op.nft)
  BY RestsPlace, Zenon DEF meteoraOpenConfirmed, Places
<1> QED
  BY <1>1, Zenon DEF Rests, Saves, OpMoves, GoesOn, Mints, Maps, Abandons, Saved, Sent, OpenKeeps,
     AddsUp, Clean, OpFields, BeforeMint, Awaits, Filling, InParts

(* meteoraOpenVerified has the shape of a step.                         *)
LEMMA MeteoraOpenVerifiedStep ==
  ASSUME OpAt, scenario.dex = "meteora", meteoraOpenVerified
  PROVE  OpShape
<1> USE DEF Done, Settled, Fault, NoFault, meteoraVerifyTxFails, DeleteMapping, StepOf
<1> SUFFICES ASSUME /\ StepOf /\ op.kind = "open" /\ op.pc \in {"verify", "verifyFill"}
                    /\ UNCHANGED <<pos, late, loose>>
             PROVE  OpMoves /\ OpenKeeps /\ AddsUp
  BY AtOp, OpenKept, Zenon DEF meteoraOpenVerified, OpShape, opLeaves, queues, scans, FaultStep
<1>1. \/ op' = None /\ map' = map
      \/ /\ DeleteMapping(op.key) /\ "notVerified" \in scenario.kinds
         /\ op' = None \/ \E pc \in {"send", "create"} : op' = [Settled(pc) EXCEPT !.tries = op.tries + 1]
  BY Zenon DEF meteoraOpenVerified
<1>2. \/ op' = None /\ map' = map
      \/ /\ DeleteMapping(op.key) /\ "notVerified" \in scenario.kinds
         /\ op' = None \/ \E pc \in {"send", "create"} : Rests(pc, op.nft)
  BY <1>1, RestsTries, Zenon DEF Places
<1> QED
  BY <1>2, Zenon DEF Rests, Unmaps, OpMoves, GoesOn, Mints, Maps, Abandons, Saved, Sent, OpenKeeps,
     AddsUp, Clean, OpFields, BeforeMint, Awaits, Filling, InParts

(* meteoraAddReadsTarget has the shape of a step.                       *)
LEMMA MeteoraAddReadsTargetStep ==
  ASSUME OpAt, scenario.dex = "meteora", meteoraAddReadsTarget
  PROVE  OpShape
<1> USE DEF At, Done, Fault, NoFault, ReadErrs, StepOf
<1> SUFFICES ASSUME StepOf /\ op.kind = "increase" /\ op.pc = "read" /\ UNCHANGED <<pos, map, late, loose>>
             PROVE  OpMoves /\ AddsUp
  BY AtOp, IncreaseKept, Zenon DEF meteoraAddReadsTarget, OpShape, opLeaves, queues, scans,
     FaultStep
<1>1. op' = None \/ Notes("delta", target[op.key].liq, op.stored)
  BY AtReads, NotesAmount, Zenon DEF meteoraAddReadsTarget, TargetLiq, Places
<1> QED
  BY <1>1, AtReads, Zenon DEF Notes, OpMoves, GoesOn, Mints, Maps, Abandons, Saved, Sent, AddsUp,
     OpFields, BeforeMint, Awaits, Filling

(* meteoraAddReadsOurs has the shape of a step.                         *)
LEMMA MeteoraAddReadsOursStep ==
  ASSUME OpAt, scenario.dex = "meteora", meteoraAddReadsOurs
  PROVE  OpShape
<1> USE DEF At, Done, Fault, NoFault, ReadErrs, StepOf
<1> SUFFICES ASSUME StepOf /\ op.kind = "increase" /\ op.pc = "delta" /\ UNCHANGED <<pos, map, late, loose>>
             PROVE  OpMoves /\ AddsUp
  BY AtOp, IncreaseKept, Zenon DEF meteoraAddReadsOurs, OpShape, opLeaves, queues, scans,
     FaultStep
<1>1. \/ op' = None
      \/ /\ op.amount > pos[op.nft].liq
         /\ op' = [op EXCEPT !.pc = "send", !.amount = op.amount - pos[op.nft].liq, !.tries = 0]
      \/ op' = [op EXCEPT !.pc = "read", !.tries = 1]
  BY Zenon DEF meteoraAddReadsOurs, OurLiq
<1>2. op.amount > pos[op.nft].liq =>
        op.amount - pos[op.nft].liq \in Nat /\ pos[op.nft].liq + (op.amount - pos[op.nft].liq) = op.amount
  BY AtReads DEF OpFields, BeforeMint
<1>3. \/ op' = None \/ Notes("read", op.amount, op.stored)
      \/ \E a \in Nat : pos[op.nft].liq + a = op.amount /\ Notes("send", a, op.stored)
  BY <1>1, <1>2, 0 \in Nat, 1 \in Nat, NotesTries, NotesDelta, Zenon DEF Places
<1> QED
  BY <1>3, Zenon DEF Notes, OpMoves, GoesOn, Mints, Maps, Abandons, Saved, Sent, AddsUp, OpFields,
     BeforeMint, Awaits, Filling

(* meteoraAddSends has the shape of a step.                             *)
LEMMA MeteoraAddSendsStep ==
  ASSUME OpAt, scenario.dex = "meteora", meteoraAddSends
  PROVE  OpShape
<1> USE DEF At, StepOf
<1> SUFFICES ASSUME StepOf /\ op.kind = "increase" /\ op.pc = "send" /\ UNCHANGED <<pos, map, late, loose>>
             PROVE  OpMoves /\ AddsUp
  BY AtOp, IncreaseKept, Zenon DEF meteoraAddSends, OpShape, opLeaves, queues, scans, FaultStep
<1>1. op \in Op /\ op.nft \in Nfts /\ op.amount \in Nat /\ "increase" \in TxKind /\ "confirm" \in Places
  BY Zenon DEF TxKind, Places, OpFields, BeforeMint
<1>2. Sends("increase", op.nft, op.amount, "confirm")
  BY <1>1, SendsForm, Zenon DEF meteoraAddSends, meteoraSignAndSend
<1> QED
  BY <1>2, Zenon DEF Sends, OpMoves, GoesOn, Mints, Maps, Abandons, Saved, Sent, AddsUp, OpFields,
     BeforeMint, Awaits, Filling

(* meteoraAddConfirmed has the shape of a step.                         *)
LEMMA MeteoraAddConfirmedStep ==
  ASSUME OpAt, scenario.dex = "meteora", meteoraAddConfirmed
  PROVE  OpShape
<1> USE DEF At, Confirmed, Settled, NoFault, StepOf
<1> SUFFICES ASSUME StepOf /\ op.kind = "increase" /\ op.pc = "confirm" /\ UNCHANGED <<pos, map, late, loose>>
             PROVE  OpMoves /\ AddsUp
  BY AtOp, IncreaseKept, Zenon DEF meteoraAddConfirmed, OpShape, opLeaves, queues, scans,
     FaultStep
<1>1. Rests("store", op.nft)
  BY RestsPlace, Zenon DEF meteoraAddConfirmed, Places
<1> QED
  BY <1>1, Zenon DEF Rests, OpMoves, GoesOn, Mints, Maps, Abandons, Saved, Sent, AddsUp, OpFields,
     BeforeMint, Awaits, Filling

(* meteoraAddThrows has the shape of a step.                            *)
LEMMA MeteoraAddThrowsStep ==
  ASSUME OpAt, scenario.dex = "meteora", meteoraAddThrows
  PROVE  OpShape
<1> USE DEF At, Done, Throws, Settled, Fault, NoFault, MeteoraRetry, StepOf
<1> SUFFICES ASSUME /\ StepOf /\ op.kind = "increase" /\ op.pc = "confirm" /\ UNCHANGED <<pos, map, loose>> /\ Abandons
                    /\ op.st = "landed" => "lostAck" \in scenario.kinds
             PROVE  OpMoves /\ AddsUp
  BY AtOp, IncreaseKept, Zenon DEF meteoraAddThrows, Abandons, OpShape, opLeaves, queues, scans,
     FaultStep
<1>1. op' = None \/ Rests("send", op.nft)
  BY RestsTries, Zenon DEF meteoraAddThrows, Places
<1> QED
  BY <1>1, Zenon DEF Rests, OpMoves, GoesOn, Mints, Maps, Abandons, Saved, Sent, AddsUp, OpFields,
     BeforeMint, Awaits, Filling

(* meteoraAddStores has the shape of a step.                            *)
LEMMA MeteoraAddStoresStep ==
  ASSUME OpAt, scenario.dex = "meteora", meteoraAddStores
  PROVE  OpShape
<1> USE DEF At, Done, Fault, NoFault, ReadErrs, SetTargetLiquidity, StepOf
<1> SUFFICES ASSUME /\ StepOf /\ op.kind = "increase" /\ op' = None /\ UNCHANGED <<pos, late, loose>>
                    /\ map' = map \/ \E l \in Nat : SetTargetLiquidity(op.key, l)
             PROVE  OpMoves /\ AddsUp
  BY ReadsFit, AtOp, IncreaseKept, Zenon DEF meteoraAddStores, OpShape, opLeaves, queues, scans,
     FaultStep
<1> QED
  BY Zenon DEF OpMoves, GoesOn, Mints, Maps, Abandons, Saved, Sent, AddsUp, OpFields, BeforeMint,
     Awaits, Filling

(* meteoraRemoveReadsTarget has the shape of a step.                    *)
LEMMA MeteoraRemoveReadsTargetStep ==
  ASSUME OpAt, scenario.dex = "meteora", meteoraRemoveReadsTarget
  PROVE  OpShape
<1> USE DEF At, Done, Fault, NoFault, ReadErrs, SetTargetLiquidity, StepOf
<1> SUFFICES ASSUME StepOf /\ op.kind = "decrease" /\ op.pc = "read" /\ UNCHANGED <<pos, late, loose>>
             PROVE  OpMoves /\ HandsOn
  BY AtOp, DecreaseKept, Zenon DEF meteoraRemoveReadsTarget, OpShape, opLeaves, queues, scans,
     FaultStep
<1> DEFINE current == TargetLiq(op.key)
           stored == getTargetLiquidity(op.key)
<1>1. (current # None => current \in Nat) /\ (stored # None => stored \in Nat)
  BY ReadsFit, AtReads, Zenon DEF getTargetLiquidity
<1>2. /\ map' = map \/ (current # None /\ SetTargetLiquidity(op.key, current))
      /\ \/ op' = None
         \/ op' = [op EXCEPT !.pc = "send", !.amount = MeteoraFullBps]
         \/ /\ current # None /\ stored # None /\ current < stored
            /\ op' = [op EXCEPT !.pc = "send", !.amount = MeteoraRemoveBps(stored, current)]
  BY Zenon DEF meteoraRemoveReadsTarget
<1> HIDE DEF current, stored
<1>3. MeteoraFullBps \in Nat
  BY DEF MeteoraFullBps
<1>4. current \in Nat /\ stored \in Nat /\ current < stored => MeteoraRemoveBps(stored, current) \in Nat
  BY DEF MeteoraRemoveBps, MeteoraFullBps
<1>5. /\ map' = map \/ \E l \in Nat : SetTargetLiquidity(op.key, l)
      /\ op' = None \/ \E a \in Nat : op' = [op EXCEPT !.pc = "send", !.amount = a]
  BY <1>1, <1>2, <1>3, <1>4, Zenon
<1>6. op' = None \/ \E a \in Nat : Notes("send", a, op.stored)
  BY <1>5, NotesAmount, Zenon DEF Places
<1> QED
  BY <1>5, <1>6, Zenon DEF Notes, OpMoves, GoesOn, Mints, Maps, Abandons, Saved, Sent, HandsOn,
     OpFields, BeforeMint, Awaits, Filling

(* meteoraRemoveSends has the shape of a step.                          *)
LEMMA MeteoraRemoveSendsStep ==
  ASSUME OpAt, scenario.dex = "meteora", meteoraRemoveSends
  PROVE  OpShape
<1> USE DEF At, Done, Settled, Fault, NoFault, ReadErrs, MeteoraRetry, StepOf
<1> SUFFICES ASSUME StepOf /\ op.kind = "decrease" /\ op.pc = "send" /\ UNCHANGED <<pos, map, late, loose>>
             PROVE  OpMoves /\ HandsOn
  BY AtOp, DecreaseKept, Zenon DEF meteoraRemoveSends, OpShape, opLeaves, queues, scans,
     FaultStep
<1>1. \A mine \in Nat : (mine * op.amount) \div MeteoraFullBps \in Nat
  BY DEF MeteoraFullBps, OpFields, BeforeMint
<1>2. \/ op' = None \/ op' = [Settled("send") EXCEPT !.tries = op.tries + 1]
      \/ \E l \in Nat : op' = Sending([kind |-> "decrease", nft |-> op.nft, liq |-> l], "confirm")
  BY ReadsFit, <1>1, Zenon DEF meteoraRemoveSends, meteoraSignAndSend, OpFields, BeforeMint
<1>3. op \in Op /\ op.nft \in Nfts /\ "decrease" \in TxKind /\ {"confirm", "send"} \subseteq Places
  BY Zenon DEF TxKind, Places, OpFields, BeforeMint
<1>4. (\E l \in Nat : op' = Sending([kind |-> "decrease", nft |-> op.nft, liq |-> l], "confirm"))
      => \E l \in Nat : Sends("decrease", op.nft, l, "confirm")
  BY <1>3, SendsForm, Zenon
<1>5. op' = [Settled("send") EXCEPT !.tries = op.tries + 1] => Rests("send", op.nft)
  BY <1>3, RestsTries, Zenon
<1>6. \/ op' = None \/ Rests("send", op.nft)
      \/ \E l \in Nat : Sends("decrease", op.nft, l, "confirm")
  BY <1>2, <1>4, <1>5, Zenon
<1> QED
  BY <1>6, Zenon DEF Sends, Rests, OpMoves, GoesOn, Mints, Maps, Abandons, Saved, Sent, HandsOn,
     OpFields, BeforeMint, Awaits, Filling

(* meteoraRemoveConfirmed has the shape of a step.                      *)
LEMMA MeteoraRemoveConfirmedStep ==
  ASSUME OpAt, scenario.dex = "meteora", meteoraRemoveConfirmed
  PROVE  OpShape
<1> USE DEF At, Confirmed, Settled, NoFault, StepOf
<1> SUFFICES ASSUME StepOf /\ op.kind = "decrease" /\ op.pc = "confirm" /\ UNCHANGED <<pos, map, late, loose>>
             PROVE  OpMoves /\ HandsOn
  BY AtOp, DecreaseKept, Zenon DEF meteoraRemoveConfirmed, OpShape, opLeaves, queues, scans,
     FaultStep
<1>1. Rests("queue", op.nft)
  BY RestsPlace, Zenon DEF meteoraRemoveConfirmed, Places
<1> QED
  BY <1>1, Zenon DEF Rests, OpMoves, GoesOn, Mints, Maps, Abandons, Saved, Sent, HandsOn, OpFields,
     BeforeMint, Awaits, Filling

(* meteoraRemoveThrows has the shape of a step.                         *)
LEMMA MeteoraRemoveThrowsStep ==
  ASSUME OpAt, scenario.dex = "meteora", meteoraRemoveThrows
  PROVE  OpShape
<1> USE DEF At, Done, Throws, Settled, Fault, NoFault, MeteoraRetry, StepOf
<1> SUFFICES ASSUME /\ StepOf /\ op.kind = "decrease" /\ op.pc = "confirm" /\ UNCHANGED <<pos, map, loose>> /\ Abandons
                    /\ op.st = "landed" => "lostAck" \in scenario.kinds
             PROVE  OpMoves /\ HandsOn
  BY AtOp, DecreaseKept, Zenon DEF meteoraRemoveThrows, Abandons, OpShape, opLeaves, queues,
     scans, FaultStep
<1>1. op' = None \/ Rests("send", op.nft)
  BY RestsTries, Zenon DEF meteoraRemoveThrows, Places
<1> QED
  BY <1>1, Zenon DEF Rests, OpMoves, GoesOn, Mints, Maps, Abandons, Saved, Sent, HandsOn, OpFields,
     BeforeMint, Awaits, Filling

(* meteoraReceivedQueued has the shape of a step.                       *)
LEMMA MeteoraReceivedQueuedStep ==
  ASSUME OpAt, scenario.dex = "meteora", meteoraReceivedQueued
  PROVE  OpShape
<1> USE DEF Done, Fault, NoFault, ReadErrs, StepOf
<1> SUFFICES ASSUME /\ StepOf /\ op.kind \in {"decrease", "close"} /\ op' = None
                    /\ UNCHANGED <<pos, map, late>> /\ (loose' = loose \/ loose' = loose - op.got)
             PROVE  OpMoves /\ OpKeeps
  BY AtOp, Zenon DEF meteoraReceivedQueued, meteoraAddPendingSwaps, OpShape, opLeaves, queues,
     scans, FaultStep
<1> QED
  BY Zenon DEF OpMoves, GoesOn, Mints, Maps, Abandons, Saved, Sent, OpKeeps, OpenKeeps, HandsOn,
     AddsUp, Clean, OpFields, BeforeMint, Awaits, Filling

(* meteoraCloseSends has the shape of a step.                           *)
LEMMA MeteoraCloseSendsStep ==
  ASSUME OpAt, scenario.dex = "meteora", meteoraCloseSends
  PROVE  OpShape
<1> USE DEF At, Done, Settled, Fault, NoFault, ReadErrs, MeteoraRetry, DeleteMapping, StepOf
<1> SUFFICES ASSUME StepOf /\ op.kind = "close" /\ op.pc = "send" /\ UNCHANGED <<pos, late, loose>>
             PROVE  OpMoves /\ HandsOn
  BY AtOp, DecreaseKept, Zenon DEF meteoraCloseSends, OpShape, opLeaves, queues, scans,
     FaultStep
<1>1. \/ op' = None /\ (map' = map \/ (DeleteMapping(op.key) /\ ~OnChain(op.nft)))
      \/ map' = map /\ op' = [Settled("send") EXCEPT !.tries = op.tries + 1]
      \/ map' = map /\ op' = Sending([kind |-> "close", nft |-> op.nft, liq |-> 0], "confirm")
      \/ map' = map /\ \E l \in Nat : op' = Sending([kind |-> "decrease", nft |-> op.nft, liq |-> l], "confirmRemove")
  BY ReadsFit, Zenon DEF meteoraCloseSends, meteoraSignAndSend, OpFields, BeforeMint
<1>2. /\ op \in Op /\ op.nft \in Nfts /\ 0 \in Nat
      /\ {"decrease", "close"} \subseteq TxKind /\ {"confirm", "confirmRemove", "send"} \subseteq Places
  BY Zenon DEF TxKind, Places, OpFields, BeforeMint
<1>3. op' = Sending([kind |-> "close", nft |-> op.nft, liq |-> 0], "confirm")
      => \E l \in Nat : Sends("close", op.nft, l, "confirm")
  BY <1>2, SendsForm, Zenon
<1>4. (\E l \in Nat : op' = Sending([kind |-> "decrease", nft |-> op.nft, liq |-> l], "confirmRemove"))
      => \E l \in Nat : Sends("decrease", op.nft, l, "confirmRemove")
  BY <1>2, SendsForm, Zenon
<1>5. op' = [Settled("send") EXCEPT !.tries = op.tries + 1] => Rests("send", op.nft)
  BY <1>2, RestsTries, Zenon
<1>6. \/ op' = None /\ (map' = map \/ (DeleteMapping(op.key) /\ ~OnChain(op.nft)))
      \/ map' = map /\ Rests("send", op.nft)
      \/ map' = map /\ \E l \in Nat : Sends("close", op.nft, l, "confirm")
      \/ map' = map /\ \E l \in Nat : Sends("decrease", op.nft, l, "confirmRemove")
  BY <1>1, <1>3, <1>4, <1>5, Zenon
<1> QED
  BY <1>6, Zenon DEF Sends, Rests, Unmaps, OpMoves, GoesOn, Mints, Maps, Abandons, Saved, Sent, HandsOn,
     OpFields, BeforeMint, Awaits, Filling

(* meteoraCloseRemoved has the shape of a step.                         *)
LEMMA MeteoraCloseRemovedStep ==
  ASSUME OpAt, scenario.dex = "meteora", meteoraCloseRemoved
  PROVE  OpShape
<1> USE DEF At, Confirmed, NoFault, StepOf
<1> SUFFICES ASSUME /\ StepOf /\ op.kind = "close" /\ op.pc = "confirmRemove"
                    /\ UNCHANGED <<pos, map, late, loose>>
             PROVE  OpMoves /\ HandsOn
  BY AtOp, DecreaseKept, Zenon DEF meteoraCloseRemoved, OpShape, opLeaves, queues, scans,
     FaultStep
<1>1. op \in Op /\ op.nft \in Nfts /\ 0 \in Nat /\ "close" \in TxKind /\ "confirm" \in Places
  BY Zenon DEF TxKind, Places, OpFields, BeforeMint
<1>2. \E l \in Nat : Sends("close", op.nft, l, "confirm")
  BY <1>1, SendsForm, Zenon DEF meteoraCloseRemoved, meteoraSignAndSend
<1> QED
  BY <1>2, Zenon DEF Sends, OpMoves, GoesOn, Mints, Maps, Abandons, Saved, Sent, HandsOn, OpFields,
     BeforeMint, Awaits, Filling

(* meteoraCloseThrows has the shape of a step.                          *)
LEMMA MeteoraCloseThrowsStep ==
  ASSUME OpAt, scenario.dex = "meteora", meteoraCloseThrows
  PROVE  OpShape
<1> USE DEF Done, Throws, Settled, Fault, NoFault, MeteoraRetry, StepOf
<1> SUFFICES ASSUME /\ StepOf /\ op.kind = "close" /\ op.pc \in {"confirmRemove", "confirm"}
                    /\ UNCHANGED <<pos, map, loose>> /\ Abandons
                    /\ op.st = "landed" => "lostAck" \in scenario.kinds
             PROVE  OpMoves /\ HandsOn
  BY AtOp, DecreaseKept, Zenon DEF meteoraCloseThrows, Abandons, OpShape, opLeaves, queues,
     scans, FaultStep
<1>1. op' = None \/ Rests("send", op.nft)
  BY RestsTries, Zenon DEF meteoraCloseThrows, Places
<1> QED
  BY <1>1, Zenon DEF Rests, OpMoves, GoesOn, Mints, Maps, Abandons, Saved, Sent, HandsOn, OpFields,
     BeforeMint, Awaits, Filling

(* meteoraCloseConfirmed has the shape of a step.                       *)
LEMMA MeteoraCloseConfirmedStep ==
  ASSUME OpAt, scenario.dex = "meteora", meteoraCloseConfirmed
  PROVE  OpShape
<1> USE DEF At, Confirmed, Settled, NoFault, StepOf
<1> SUFFICES ASSUME /\ StepOf /\ op.kind = "close" /\ op.pc = "confirm"
                    /\ UNCHANGED <<pos, map, late, loose>> /\ op.st = "landed"
             PROVE  OpMoves /\ HandsOn
  BY AtOp, DecreaseKept, Zenon DEF meteoraCloseConfirmed, OpShape, opLeaves, queues, scans,
     FaultStep
<1>1. Rests("verify", op.nft)
  BY RestsPlace, Zenon DEF meteoraCloseConfirmed, Places
<1> QED
  BY <1>1, Zenon DEF Rests, OpMoves, GoesOn, Mints, Maps, Abandons, Saved, Sent, HandsOn, OpFields,
     BeforeMint, Awaits, Filling

(* meteoraCloseVerified has the shape of a step.                        *)
LEMMA MeteoraCloseVerifiedStep ==
  ASSUME OpAt, scenario.dex = "meteora", meteoraCloseVerified
  PROVE  OpShape
<1> USE DEF At, Done, Settled, Fault, NoFault, meteoraVerifyTxFails, DeleteMapping, StepOf
<1> SUFFICES ASSUME StepOf /\ op.kind = "close" /\ op.pc = "verify" /\ UNCHANGED <<pos, late, loose>>
             PROVE  OpMoves /\ HandsOn
  BY AtOp, DecreaseKept, Zenon DEF meteoraCloseVerified, OpShape, opLeaves, queues, scans,
     FaultStep
<1>1. \/ DeleteMapping(op.key) /\ op' = Settled("queue")
      \/ map' = map /\ (op' = None \/ op' = [Settled("send") EXCEPT !.tries = op.tries + 1])
  BY Zenon DEF meteoraCloseVerified
<1>2. \/ DeleteMapping(op.key) /\ Rests("queue", op.nft)
      \/ map' = map /\ (op' = None \/ Rests("send", op.nft))
  BY <1>1, RestsPlace, RestsTries, Zenon DEF Places
<1>3. ~OnChain(op.nft)
  BY AtClosed, Zenon DEF ClosedByClose, OnChain, OpFields, BeforeMint, Awaits, Filling
<1> QED
  BY <1>2, <1>3, Zenon DEF Rests, Unmaps, OpMoves, GoesOn, Mints, Maps, Abandons, Saved, Sent, HandsOn,
     OpFields, BeforeMint, Awaits, Filling

(* Every step of an operation on Meteora has this shape.                   *)
LEMMA MeteoraSteps ==
  ASSUME OpAt, scenario.dex = "meteora", MeteoraOpStep
  PROVE  OpShape
  BY MeteoraOpenReadsStep, MeteoraOpenSendsStep, MeteoraOpenThrowsStep, MeteoraOpenCreatedStep,
     MeteoraOpenFillsStep, MeteoraOpenPartFilledStep, MeteoraOpenConfirmedStep, MeteoraOpenVerifiedStep,
     MeteoraAddReadsTargetStep, MeteoraAddReadsOursStep, MeteoraAddSendsStep,
     MeteoraAddConfirmedStep, MeteoraAddThrowsStep, MeteoraAddStoresStep,
     MeteoraRemoveReadsTargetStep, MeteoraRemoveSendsStep, MeteoraRemoveConfirmedStep,
     MeteoraRemoveThrowsStep, MeteoraReceivedQueuedStep, MeteoraCloseSendsStep,
     MeteoraCloseRemovedStep, MeteoraCloseThrowsStep, MeteoraCloseConfirmedStep,
     MeteoraCloseVerifiedStep, Zenon DEF MeteoraOpStep

(* What an operation on Meteora is when it begins.                         *)
LEMMA MeteoraStarts ==
  ASSUME scenario.dex = "meteora", NEW item \in HighItem \cup NormalItem \cup DashboardItem,
         op' \in MeteoraStart(item)
  PROVE  Began
<1>1. \/ item.kind \in {"open", "increase", "decrease", "close"} /\ item.key \in Targets
      \/ item.kind = "manualClose"
  BY Zenon DEF HighItem, NormalItem, DashboardItem, HighKinds, NormalKind
<1> QED
  BY <1>1, Zenon DEF MeteoraStart, meteoraCopyOpenPosition, meteoraCopyAddLiquidity,
     meteoraCopyRemoveLiquidity, meteoraCopyClosePosition, meteoraManualClosePosition,
     TargetsOf, Running, Began

(* Every step of a behaviour of Meteora has one of the shapes.             *)
LEMMA MeteoraShapes ==
  ASSUME OpAt, scenario.dex = "meteora", MeteoraNext
  PROVE  StepShape
<1>1. meteoraScanChecks => ScanChecks
  <2> SUFFICES ASSUME meteoraScanChecks PROVE ScanChecks
    OBVIOUS
  <2>1. scan # None
    BY Zenon DEF meteoraScanChecks
  <2> QED
    BY <2>1, ScanFinds, Zenon DEF meteoraScanChecks, ScanChecks, FaultStep, Fault, NoFault, ReadErrs
<1>2. ScanEnds => QueueOrphans(NormalKind)
  BY Zenon DEF ScanEnds, NormalKind
<1>3. meteoraDispatch \/ meteoraDashboard => StepShape
  BY MeteoraStarts, Zenon DEF meteoraDispatch, meteoraDashboard, StepShape
<1> QED
  BY <1>1, <1>2, <1>3, MeteoraSteps, Zenon DEF MeteoraNext, MeteoraScanStep, ChainStep, StepShape

(* dammOpenReads has the shape of a step.                               *)
LEMMA DammOpenReadsStep ==
  ASSUME OpAt, scenario.dex = "dammv2", dammOpenReads
  PROVE  OpShape
<1> USE DEF At, Done, Fault, NoFault, ReadErrs, StepOf
<1> SUFFICES ASSUME StepOf /\ op.kind = "open" /\ op.pc = "read" /\ UNCHANGED <<pos, map, late, loose>>
             PROVE  OpMoves /\ OpenKeeps /\ AddsUp
  BY AtOp, OpenKept, Zenon DEF dammOpenReads, TargetLiq, OpShape, opLeaves, queues, scans,
     FaultStep
<1>1. op' = None \/ op' = [op EXCEPT !.pc = "create", !.amount = target[op.key].liq]
  BY AtReads, Zenon DEF dammOpenReads, TargetLiq
<1>2. op' = None \/ Notes("create", target[op.key].liq, op.stored)
  BY <1>1, AtReads, NotesAmount, Zenon DEF Places
<1> QED
  BY <1>2, AtReads, Zenon DEF Notes, OpMoves, GoesOn, Mints, Maps, Abandons, Saved, Sent, OpenKeeps,
     AddsUp, Clean, OpFields, BeforeMint, Awaits, Filling

(* dammOpenCreates has the shape of a step.                             *)
LEMMA DammOpenCreatesStep ==
  ASSUME OpAt, scenario.dex = "dammv2", dammOpenCreates
  PROVE  OpShape
<1> USE DEF At, StepOf
<1> SUFFICES ASSUME /\ StepOf /\ op.kind = "open" /\ op.pc = "create"
                    /\ Fresh # {} /\ pos' = Minted(op.key) /\ UNCHANGED <<map, late, loose>>
             PROVE  OpMoves /\ OpenKeeps /\ AddsUp
  BY AtOp, OpenKept, Zenon DEF dammOpenCreates, OpShape, opLeaves, queues, scans, FaultStep
<1>1. FirstFresh \in Nfts
  BY AtFresh, Zenon
<1>2. op \in Op /\ 0 \in Nat /\ "open" \in TxKind /\ "created" \in Places
  BY Zenon DEF TxKind, Places, OpFields, BeforeMint
<1>3. Sends("open", FirstFresh, 0, "created")
  BY <1>1, <1>2, SendsForm, Zenon DEF dammOpenCreates, dammSignAndSend
<1> QED
  BY <1>1, <1>3, NoneAssumption, Zenon DEF Sends, OpMoves, GoesOn, Mints, Maps, Abandons, Saved, Sent,
     OpenKeeps, AddsUp, Clean, OpFields, BeforeMint, Awaits, Filling

(* dammOpenThrows has the shape of a step.                              *)
LEMMA DammOpenThrowsStep ==
  ASSUME OpAt, scenario.dex = "dammv2", dammOpenThrows
  PROVE  OpShape
<1> USE DEF Done, Throws, Settled, Fault, NoFault, DammRetry, DammRetryOpen, StepOf
<1> SUFFICES ASSUME /\ StepOf /\ op.kind = "open" /\ op.pc \in {"created", "filled"}
                    /\ UNCHANGED <<pos, map, loose>> /\ Abandons
                    /\ op.st = "landed" => "lostAck" \in scenario.kinds
             PROVE  OpMoves /\ OpenKeeps /\ AddsUp
  BY AtOp, OpenKept, Zenon DEF dammOpenThrows, Abandons, OpShape, opLeaves, queues, scans,
     FaultStep
<1>1. op' = None \/ op' = [Settled("create") EXCEPT !.tries = op.tries + 1]
  BY Zenon DEF dammOpenThrows
<1>2. op' = None \/ Rests("create", op.nft)
  BY <1>1, RestsTries, Zenon DEF Places
<1> QED
  BY <1>2, Zenon DEF Rests, OpMoves, GoesOn, Mints, Maps, Abandons, Saved, Sent, OpenKeeps, AddsUp,
     Clean, OpFields, BeforeMint, Awaits, Filling

(* dammOpenFills has the shape of a step.                               *)
LEMMA DammOpenFillsStep ==
  ASSUME OpAt, scenario.dex = "dammv2", dammOpenFills
  PROVE  OpShape
<1> USE DEF At, Confirmed, NoFault, StepOf
<1> SUFFICES ASSUME StepOf /\ op.kind = "open" /\ op.pc = "created" /\ UNCHANGED <<pos, map, late, loose>>
             PROVE  OpMoves /\ OpenKeeps /\ AddsUp
  BY AtOp, OpenKept, Zenon DEF dammOpenFills, OpShape, opLeaves, queues, scans, FaultStep
<1>1. op \in Op /\ op.nft \in Nfts /\ op.amount \in Nat /\ "increase" \in TxKind /\ "filled" \in Places
  BY Zenon DEF TxKind, Places, OpFields, BeforeMint
<1>2. Sends("increase", op.nft, op.amount, "filled")
  BY <1>1, SendsForm, Zenon DEF dammOpenFills, dammSignAndSend
<1> QED
  BY <1>2, Zenon DEF Sends, OpMoves, GoesOn, Mints, Maps, Abandons, Saved, Sent, OpenKeeps, AddsUp,
     Clean, OpFields, BeforeMint, Awaits, Filling

(* dammOpenPoolReadErrs has the shape of a step.                        *)
LEMMA DammOpenPoolReadErrsStep ==
  ASSUME OpAt, scenario.dex = "dammv2", dammOpenPoolReadErrs
  PROVE  OpShape
<1> USE DEF At, Done, Settled, Fault, ReadErrs, DammRetry, DammRetryOpen, StepOf
<1> SUFFICES ASSUME StepOf /\ op.kind = "open" /\ op.pc = "created" /\ UNCHANGED <<pos, map, late, loose>>
             PROVE  OpMoves /\ OpenKeeps /\ AddsUp
  BY AtOp, OpenKept, Zenon DEF dammOpenPoolReadErrs, OpShape, opLeaves, queues, scans, FaultStep
<1>1. op' = None \/ op' = [Settled("create") EXCEPT !.tries = op.tries + 1]
  BY Zenon DEF dammOpenPoolReadErrs
<1>2. op' = None \/ Rests("create", op.nft)
  BY <1>1, RestsTries, Zenon DEF Places
<1> QED
  BY <1>2, Zenon DEF Rests, OpMoves, GoesOn, Mints, Maps, Abandons, Saved, Sent, OpenKeeps, AddsUp,
     Clean, OpFields, BeforeMint, Awaits, Filling

(* dammOpenFilled has the shape of a step.                              *)
LEMMA DammOpenFilledStep ==
  ASSUME OpAt, scenario.dex = "dammv2", dammOpenFilled
  PROVE  OpShape
<1> USE DEF At, Confirmed, Settled, NoFault, SetMapping, StepOf
<1> SUFFICES ASSUME /\ StepOf /\ op.kind = "open" /\ op.pc = "filled"
                    /\ UNCHANGED <<pos, late, loose>> /\ op.st = "landed" /\ SetMapping(op.key, op.nft, op.amount)
             PROVE  OpMoves /\ OpenKeeps /\ AddsUp
  BY AtOp, OpenKept, Zenon DEF dammOpenFilled, OpShape, opLeaves, queues, scans, FaultStep
<1>1. Rests("verify", op.nft)
  BY RestsPlace, Zenon DEF dammOpenFilled, Places
<1> QED
  BY <1>1, Zenon DEF Rests, Saves, OpMoves, GoesOn, Mints, Maps, Abandons, Saved, Sent, OpenKeeps,
     AddsUp, Clean, OpFields, BeforeMint, Awaits, Filling

(* dammOpenVerified has the shape of a step.                            *)
LEMMA DammOpenVerifiedStep ==
  ASSUME OpAt, scenario.dex = "dammv2", dammOpenVerified
  PROVE  OpShape
<1> USE DEF At, Done, Settled, Fault, NoFault, dammVerifyTxFails, DeleteMapping, StepOf
<1> SUFFICES ASSUME StepOf /\ op.kind = "open" /\ op.pc = "verify" /\ UNCHANGED <<pos, late, loose>>
             PROVE  OpMoves /\ OpenKeeps /\ AddsUp
  BY AtOp, OpenKept, Zenon DEF dammOpenVerified, OpShape, opLeaves, queues, scans, FaultStep
<1>1. \/ op' = None /\ map' = map
      \/ /\ DeleteMapping(op.key) /\ "notVerified" \in scenario.kinds
         /\ op' = None \/ op' = [Settled("create") EXCEPT !.tries = op.tries + 1]
  BY Zenon DEF dammOpenVerified
<1>2. \/ op' = None /\ map' = map
      \/ /\ DeleteMapping(op.key) /\ "notVerified" \in scenario.kinds
         /\ op' = None \/ Rests("create", op.nft)
  BY <1>1, RestsTries, Zenon DEF Places
<1> QED
  BY <1>2, Zenon DEF Rests, Unmaps, OpMoves, GoesOn, Mints, Maps, Abandons, Saved, Sent, OpenKeeps,
     AddsUp, Clean, OpFields, BeforeMint, Awaits, Filling

(* dammAddReadsTarget has the shape of a step.                          *)
LEMMA DammAddReadsTargetStep ==
  ASSUME OpAt, scenario.dex = "dammv2", dammAddReadsTarget
  PROVE  OpShape
<1> USE DEF At, Done, Fault, NoFault, ReadErrs, StepOf
<1> SUFFICES ASSUME StepOf /\ op.kind = "increase" /\ op.pc = "read" /\ UNCHANGED <<pos, map, late, loose>>
             PROVE  OpMoves /\ AddsUp
  BY AtOp, IncreaseKept, Zenon DEF dammAddReadsTarget, OpShape, opLeaves, queues, scans,
     FaultStep
<1>1. op' = None \/ Notes("delta", target[op.key].liq, op.stored)
  BY AtReads, NotesAmount, Zenon DEF dammAddReadsTarget, TargetLiq, Places
<1> QED
  BY <1>1, AtReads, Zenon DEF Notes, OpMoves, GoesOn, Mints, Maps, Abandons, Saved, Sent, AddsUp,
     OpFields, BeforeMint, Awaits, Filling

(* dammAddReadsOurs has the shape of a step.                            *)
LEMMA DammAddReadsOursStep ==
  ASSUME OpAt, scenario.dex = "dammv2", dammAddReadsOurs
  PROVE  OpShape
<1> USE DEF At, Done, Fault, NoFault, ReadErrs, StepOf
<1> SUFFICES ASSUME StepOf /\ op.kind = "increase" /\ op.pc = "delta" /\ UNCHANGED <<pos, map, late, loose>>
             PROVE  OpMoves /\ AddsUp
  BY AtOp, IncreaseKept, Zenon DEF dammAddReadsOurs, OpShape, opLeaves, queues, scans, FaultStep
<1>1. \/ op' = None
      \/ /\ op.amount > pos[op.nft].liq
         /\ op' = [op EXCEPT !.pc = "send", !.amount = op.amount - pos[op.nft].liq, !.tries = 0]
      \/ op' = [op EXCEPT !.pc = "read", !.tries = 1]
  BY Zenon DEF dammAddReadsOurs, OurLiq
<1>2. op.amount > pos[op.nft].liq =>
        op.amount - pos[op.nft].liq \in Nat /\ pos[op.nft].liq + (op.amount - pos[op.nft].liq) = op.amount
  BY AtReads DEF OpFields, BeforeMint
<1>3. \/ op' = None \/ Notes("read", op.amount, op.stored)
      \/ \E a \in Nat : pos[op.nft].liq + a = op.amount /\ Notes("send", a, op.stored)
  BY <1>1, <1>2, 0 \in Nat, 1 \in Nat, NotesTries, NotesDelta, Zenon DEF Places
<1> QED
  BY <1>3, Zenon DEF Notes, OpMoves, GoesOn, Mints, Maps, Abandons, Saved, Sent, AddsUp, OpFields,
     BeforeMint, Awaits, Filling

(* dammAddSends has the shape of a step.                                *)
LEMMA DammAddSendsStep ==
  ASSUME OpAt, scenario.dex = "dammv2", dammAddSends
  PROVE  OpShape
<1> USE DEF At, Done, Settled, Fault, NoFault, ReadErrs, DammRetry, StepOf
<1> SUFFICES ASSUME StepOf /\ op.kind = "increase" /\ op.pc = "send" /\ UNCHANGED <<pos, map, late, loose>>
             PROVE  OpMoves /\ AddsUp
  BY AtOp, IncreaseKept, Zenon DEF dammAddSends, OpShape, opLeaves, queues, scans, FaultStep
<1>1. \/ op' = None \/ op' = [Settled("send") EXCEPT !.tries = op.tries + 1]
      \/ op' = Sending([kind |-> "increase", nft |-> op.nft, liq |-> op.amount], "confirm")
  BY Zenon DEF dammAddSends, dammSignAndSend
<1>2. op \in Op /\ op.nft \in Nfts /\ op.amount \in Nat /\ "increase" \in TxKind /\ {"confirm", "send"} \subseteq Places
  BY Zenon DEF TxKind, Places, OpFields, BeforeMint
<1>3. op' = Sending([kind |-> "increase", nft |-> op.nft, liq |-> op.amount], "confirm")
      => Sends("increase", op.nft, op.amount, "confirm")
  BY <1>2, SendsForm, Zenon
<1>4. op' = [Settled("send") EXCEPT !.tries = op.tries + 1] => Rests("send", op.nft)
  BY <1>2, RestsTries, Zenon
<1>5. \/ op' = None \/ Rests("send", op.nft)
      \/ Sends("increase", op.nft, op.amount, "confirm")
  BY <1>1, <1>3, <1>4, Zenon
<1> QED
  BY <1>5, Zenon DEF Sends, Rests, OpMoves, GoesOn, Mints, Maps, Abandons, Saved, Sent, AddsUp,
     OpFields, BeforeMint, Awaits, Filling

(* dammAddConfirmed has the shape of a step.                            *)
LEMMA DammAddConfirmedStep ==
  ASSUME OpAt, scenario.dex = "dammv2", dammAddConfirmed
  PROVE  OpShape
<1> USE DEF At, Confirmed, Settled, NoFault, StepOf
<1> SUFFICES ASSUME StepOf /\ op.kind = "increase" /\ op.pc = "confirm" /\ UNCHANGED <<pos, map, late, loose>>
             PROVE  OpMoves /\ AddsUp
  BY AtOp, IncreaseKept, Zenon DEF dammAddConfirmed, OpShape, opLeaves, queues, scans, FaultStep
<1>1. Rests("store", op.nft)
  BY RestsPlace, Zenon DEF dammAddConfirmed, Places
<1> QED
  BY <1>1, Zenon DEF Rests, OpMoves, GoesOn, Mints, Maps, Abandons, Saved, Sent, AddsUp, OpFields,
     BeforeMint, Awaits, Filling

(* dammAddThrows has the shape of a step.                               *)
LEMMA DammAddThrowsStep ==
  ASSUME OpAt, scenario.dex = "dammv2", dammAddThrows
  PROVE  OpShape
<1> USE DEF At, Done, Throws, Settled, Fault, NoFault, DammRetry, StepOf
<1> SUFFICES ASSUME /\ StepOf /\ op.kind = "increase" /\ op.pc = "confirm" /\ UNCHANGED <<pos, map, loose>> /\ Abandons
                    /\ op.st = "landed" => "lostAck" \in scenario.kinds
             PROVE  OpMoves /\ AddsUp
  BY AtOp, IncreaseKept, Zenon DEF dammAddThrows, Abandons, OpShape, opLeaves, queues, scans,
     FaultStep
<1>1. op' = None \/ Rests("send", op.nft)
  BY RestsTries, Zenon DEF dammAddThrows, Places
<1> QED
  BY <1>1, Zenon DEF Rests, OpMoves, GoesOn, Mints, Maps, Abandons, Saved, Sent, AddsUp, OpFields,
     BeforeMint, Awaits, Filling

(* dammAddStores has the shape of a step.                               *)
LEMMA DammAddStoresStep ==
  ASSUME OpAt, scenario.dex = "dammv2", dammAddStores
  PROVE  OpShape
<1> USE DEF At, Done, Fault, NoFault, ReadErrs, SetTargetLiquidity, StepOf
<1> SUFFICES ASSUME /\ StepOf /\ op.kind = "increase" /\ op' = None /\ UNCHANGED <<pos, late, loose>>
                    /\ map' = map \/ \E l \in Nat : SetTargetLiquidity(op.key, l)
             PROVE  OpMoves /\ AddsUp
  BY ReadsFit, AtOp, IncreaseKept, Zenon DEF dammAddStores, OpShape, opLeaves, queues, scans,
     FaultStep
<1> QED
  BY Zenon DEF OpMoves, GoesOn, Mints, Maps, Abandons, Saved, Sent, AddsUp, OpFields, BeforeMint,
     Awaits, Filling

(* dammRemoveReadsTarget has the shape of a step.                       *)
LEMMA DammRemoveReadsTargetStep ==
  ASSUME OpAt, scenario.dex = "dammv2", dammRemoveReadsTarget
  PROVE  OpShape
<1> USE DEF At, Done, Fault, NoFault, ReadErrs, StepOf
<1> SUFFICES ASSUME StepOf /\ op.kind = "decrease" /\ op.pc = "read" /\ UNCHANGED <<pos, map, late, loose>>
             PROVE  OpMoves /\ HandsOn
  BY AtOp, DecreaseKept, Zenon DEF dammRemoveReadsTarget, OpShape, opLeaves, queues, scans,
     FaultStep
<1> DEFINE current == TargetLiq(op.key)
           stored == getTargetLiquidity(op.key)
<1>1. (current # None => current \in Nat) /\ (stored # None => stored \in Nat)
  BY ReadsFit, AtReads, Zenon DEF getTargetLiquidity
<1>2. \/ op' = None \/ op' = [op EXCEPT !.pc = "send", !.amount = None]
      \/ /\ current # None /\ stored # None /\ current < stored
         /\ op' = [op EXCEPT !.pc = "share", !.amount = current, !.stored = stored]
  BY Zenon DEF dammRemoveReadsTarget
<1> HIDE DEF current, stored
<1>3. op' = None \/ Notes("send", None, op.stored) \/ (stored # None /\ current # None /\ current < stored /\ Notes("share", current, stored))
  BY <1>1, <1>2, NotesAmount, NotesShare, Zenon DEF Places
<1> QED
  BY <1>1, <1>3, Zenon DEF Notes, OpMoves, GoesOn, Mints, Maps, Abandons, Saved, Sent, HandsOn,
     OpFields, BeforeMint, Awaits, Filling

(* dammRemoveReadsOurs has the shape of a step.                         *)
LEMMA DammRemoveReadsOursStep ==
  ASSUME OpAt, scenario.dex = "dammv2", dammRemoveReadsOurs
  PROVE  OpShape
<1> USE DEF At, Done, Fault, NoFault, ReadErrs, Reads, ReadsOurs, SetTargetLiquidity, StepOf
<1> SUFFICES ASSUME /\ StepOf /\ op.kind = "decrease" /\ op.pc = "share"
                    /\ UNCHANGED <<pos, late, loose>> /\ SetTargetLiquidity(op.key, op.amount)
             PROVE  OpMoves /\ HandsOn
  BY AtOp, DecreaseKept, Zenon DEF dammRemoveReadsOurs, OpShape, opLeaves, queues, scans,
     FaultStep
<1>1. op.nft \in Nfts /\ op.amount \in Nat /\ op.stored \in Nat /\ op.amount < op.stored /\ pos[op.nft].liq \in Nat
  BY AtReads, Zenon DEF Op, OpFields, BeforeMint
<1>2. DammProportionalShare(pos[op.nft].liq, op.stored, op.amount) \in Nat
  BY <1>1, ShareIsNat, Zenon DEF DammProportionalShare
<1>3. op' = None \/ \E a \in Nat \cup {None} : op' = [op EXCEPT !.pc = "send", !.amount = a]
  BY <1>2, Zenon DEF dammRemoveReadsOurs
<1>4. op' = None \/ \E a \in Nat \cup {None} : Notes("send", a, op.stored)
  BY <1>3, NotesAmount, Zenon DEF Places
<1> QED
  BY <1>1, <1>4, Zenon DEF Notes, OpMoves, GoesOn, Mints, Maps, Abandons, Saved, Sent, HandsOn,
     OpFields, BeforeMint, Awaits, Filling

(* dammRemoveSends has the shape of a step.                             *)
LEMMA DammRemoveSendsStep ==
  ASSUME OpAt, scenario.dex = "dammv2", dammRemoveSends
  PROVE  OpShape
<1> USE DEF At, Done, Settled, Fault, NoFault, ReadErrs, DammRetry, StepOf
<1> SUFFICES ASSUME StepOf /\ op.kind = "decrease" /\ op.pc = "send" /\ UNCHANGED <<pos, map, late, loose>>
             PROVE  OpMoves /\ HandsOn
  BY AtOp, DecreaseKept, Zenon DEF dammRemoveSends, OpShape, opLeaves, queues, scans, FaultStep
<1>1. \A mine \in Nat : op.amount # None => (IF op.amount < mine THEN op.amount ELSE mine) \in Nat
  BY Zenon DEF Op
<1>2. \/ op' = None \/ op' = [Settled("send") EXCEPT !.tries = op.tries + 1]
      \/ op' = Sending([kind |-> "removeAll", nft |-> op.nft, liq |-> 0], "confirm")
      \/ \E l \in Nat : op' = Sending([kind |-> "decrease", nft |-> op.nft, liq |-> l], "confirm")
  BY ReadsFit, <1>1, Zenon DEF dammRemoveSends, dammRemoveTx, dammSignAndSend, OpFields, BeforeMint
<1>3. op \in Op /\ op.nft \in Nfts /\ 0 \in Nat /\ {"decrease", "removeAll"} \subseteq TxKind /\ {"confirm", "send"} \subseteq Places
  BY Zenon DEF TxKind, Places, OpFields, BeforeMint
<1>4. op' = Sending([kind |-> "removeAll", nft |-> op.nft, liq |-> 0], "confirm")
      => \E l \in Nat : Sends("removeAll", op.nft, l, "confirm")
  BY <1>3, SendsForm, Zenon
<1>5. (\E l \in Nat : op' = Sending([kind |-> "decrease", nft |-> op.nft, liq |-> l], "confirm"))
      => \E l \in Nat : Sends("decrease", op.nft, l, "confirm")
  BY <1>3, SendsForm, Zenon
<1>6. op' = [Settled("send") EXCEPT !.tries = op.tries + 1] => Rests("send", op.nft)
  BY <1>3, RestsTries, Zenon
<1>7. \/ op' = None \/ Rests("send", op.nft)
      \/ \E k \in {"decrease", "removeAll"}, l \in Nat : Sends(k, op.nft, l, "confirm")
  BY <1>2, <1>4, <1>5, <1>6, Zenon
<1> QED
  BY <1>7, Zenon DEF Sends, Rests, OpMoves, GoesOn, Mints, Maps, Abandons, Saved, Sent, HandsOn,
     OpFields, BeforeMint, Awaits, Filling

(* dammRemoveConfirmed has the shape of a step.                         *)
LEMMA DammRemoveConfirmedStep ==
  ASSUME OpAt, scenario.dex = "dammv2", dammRemoveConfirmed
  PROVE  OpShape
<1> USE DEF At, Confirmed, Settled, NoFault, StepOf
<1> SUFFICES ASSUME StepOf /\ op.kind = "decrease" /\ op.pc = "confirm" /\ UNCHANGED <<pos, map, late, loose>>
             PROVE  OpMoves /\ HandsOn
  BY AtOp, DecreaseKept, Zenon DEF dammRemoveConfirmed, OpShape, opLeaves, queues, scans,
     FaultStep
<1>1. Rests("queue", op.nft)
  BY RestsPlace, Zenon DEF dammRemoveConfirmed, Places
<1> QED
  BY <1>1, NoneAssumption, Zenon DEF Rests, OpMoves, GoesOn, Mints, Maps, Abandons, Saved, Sent,
     HandsOn, OpFields, BeforeMint, Awaits, Filling

(* dammRemoveThrows has the shape of a step.                            *)
LEMMA DammRemoveThrowsStep ==
  ASSUME OpAt, scenario.dex = "dammv2", dammRemoveThrows
  PROVE  OpShape
<1> USE DEF At, Done, Throws, Settled, Fault, NoFault, DammRetry, StepOf
<1> SUFFICES ASSUME /\ StepOf /\ op.kind = "decrease" /\ op.pc = "confirm" /\ UNCHANGED <<pos, map, loose>> /\ Abandons
                    /\ op.st = "landed" => "lostAck" \in scenario.kinds
             PROVE  OpMoves /\ HandsOn
  BY AtOp, DecreaseKept, Zenon DEF dammRemoveThrows, Abandons, OpShape, opLeaves, queues, scans,
     FaultStep
<1>1. op' = None \/ Rests("send", op.nft)
  BY RestsTries, Zenon DEF dammRemoveThrows, Places
<1> QED
  BY <1>1, Zenon DEF Rests, OpMoves, GoesOn, Mints, Maps, Abandons, Saved, Sent, HandsOn, OpFields,
     BeforeMint, Awaits, Filling

(* dammReceivedQueued has the shape of a step.                          *)
LEMMA DammReceivedQueuedStep ==
  ASSUME OpAt, scenario.dex = "dammv2", dammReceivedQueued
  PROVE  OpShape
<1> USE DEF Done, Fault, NoFault, ReadErrs, StepOf
<1> SUFFICES ASSUME /\ StepOf /\ op.kind \in {"decrease", "close"} /\ op' = None /\ UNCHANGED <<pos, map, late>>
                    /\ loose' = loose - op.got \/ (loose' = loose /\ "readError" \in scenario.kinds)
             PROVE  OpMoves /\ OpKeeps
  BY AtOp, Zenon DEF dammReceivedQueued, dammAddPendingSwaps, OpShape, opLeaves, queues, scans,
     FaultStep
<1> QED
  BY Zenon DEF OpMoves, GoesOn, Mints, Maps, Abandons, Saved, Sent, OpKeeps, OpenKeeps, HandsOn,
     AddsUp, Clean, OpFields, BeforeMint, Awaits, Filling

(* dammCloseSends has the shape of a step.                              *)
LEMMA DammCloseSendsStep ==
  ASSUME OpAt, scenario.dex = "dammv2", dammCloseSends
  PROVE  OpShape
<1> USE DEF At, Done, Settled, Fault, NoFault, ReadErrs, DammRetry, DeleteMapping, StepOf
<1> SUFFICES ASSUME StepOf /\ op.kind = "close" /\ op.pc = "send" /\ UNCHANGED <<pos, late, loose>>
             PROVE  OpMoves /\ HandsOn
  BY AtOp, DecreaseKept, Zenon DEF dammCloseSends, OpShape, opLeaves, queues, scans, FaultStep
<1>1. \/ op' = None /\ (map' = map \/ (DeleteMapping(op.key) /\ (~OnChain(op.nft) \/ "readError" \in scenario.kinds)))
      \/ map' = map /\ op' = [Settled("send") EXCEPT !.tries = op.tries + 1]
      \/ map' = map /\ \E k \in {"close", "closeAll"} : op' = Sending([kind |-> k, nft |-> op.nft, liq |-> 0], "confirm")
  BY ReadsFit, Zenon DEF dammCloseSends, dammSignAndSend, OpFields, BeforeMint
<1>2. /\ op \in Op /\ op.nft \in Nfts /\ 0 \in Nat
      /\ {"close", "closeAll"} \subseteq TxKind /\ {"confirm", "send"} \subseteq Places
  BY Zenon DEF TxKind, Places, OpFields, BeforeMint
<1>3. (\E k \in {"close", "closeAll"} : op' = Sending([kind |-> k, nft |-> op.nft, liq |-> 0], "confirm"))
      => \E k \in {"close", "closeAll"}, l \in Nat : Sends(k, op.nft, l, "confirm")
  BY <1>2, SendsForm, Zenon
<1>4. op' = [Settled("send") EXCEPT !.tries = op.tries + 1] => Rests("send", op.nft)
  BY <1>2, RestsTries, Zenon
<1>5. \/ op' = None /\ (map' = map \/ (DeleteMapping(op.key) /\ (~OnChain(op.nft) \/ "readError" \in scenario.kinds)))
      \/ map' = map /\ Rests("send", op.nft)
      \/ map' = map /\ \E k \in {"close", "closeAll"}, l \in Nat : Sends(k, op.nft, l, "confirm")
  BY <1>1, <1>3, <1>4, Zenon
<1> QED
  BY <1>5, Zenon DEF Sends, Rests, Unmaps, OpMoves, GoesOn, Mints, Maps, Abandons, Saved, Sent, HandsOn,
     OpFields, BeforeMint, Awaits, Filling

(* dammCloseThrows has the shape of a step.                             *)
LEMMA DammCloseThrowsStep ==
  ASSUME OpAt, scenario.dex = "dammv2", dammCloseThrows
  PROVE  OpShape
<1> USE DEF At, Done, Throws, Settled, Fault, NoFault, DammRetry, StepOf
<1> SUFFICES ASSUME /\ StepOf /\ op.kind = "close" /\ op.pc = "confirm" /\ UNCHANGED <<pos, map, loose>> /\ Abandons
                    /\ op.st = "landed" => "lostAck" \in scenario.kinds
             PROVE  OpMoves /\ HandsOn
  BY AtOp, DecreaseKept, Zenon DEF dammCloseThrows, Abandons, OpShape, opLeaves, queues, scans,
     FaultStep
<1>1. op' = None \/ Rests("send", op.nft)
  BY RestsTries, Zenon DEF dammCloseThrows, Places
<1> QED
  BY <1>1, Zenon DEF Rests, OpMoves, GoesOn, Mints, Maps, Abandons, Saved, Sent, HandsOn, OpFields,
     BeforeMint, Awaits, Filling

(* dammCloseConfirmed has the shape of a step.                          *)
LEMMA DammCloseConfirmedStep ==
  ASSUME OpAt, scenario.dex = "dammv2", dammCloseConfirmed
  PROVE  OpShape
<1> USE DEF At, Confirmed, Settled, NoFault, StepOf
<1> SUFFICES ASSUME /\ StepOf /\ op.kind = "close" /\ op.pc = "confirm"
                    /\ UNCHANGED <<pos, map, late, loose>> /\ op.st = "landed"
             PROVE  OpMoves /\ HandsOn
  BY AtOp, DecreaseKept, Zenon DEF dammCloseConfirmed, OpShape, opLeaves, queues, scans,
     FaultStep
<1>1. Rests("verify", op.nft)
  BY RestsPlace, Zenon DEF dammCloseConfirmed, Places
<1> QED
  BY <1>1, NoneAssumption, Zenon DEF Rests, OpMoves, GoesOn, Mints, Maps, Abandons, Saved, Sent,
     HandsOn, OpFields, BeforeMint, Awaits, Filling

(* dammCloseVerified has the shape of a step.                           *)
LEMMA DammCloseVerifiedStep ==
  ASSUME OpAt, scenario.dex = "dammv2", dammCloseVerified
  PROVE  OpShape
<1> USE DEF At, Done, Settled, Fault, NoFault, dammVerifyTxFails, DeleteMapping, StepOf
<1> SUFFICES ASSUME StepOf /\ op.kind = "close" /\ op.pc = "verify" /\ UNCHANGED <<pos, late, loose>>
             PROVE  OpMoves /\ HandsOn
  BY AtOp, DecreaseKept, Zenon DEF dammCloseVerified, OpShape, opLeaves, queues, scans,
     FaultStep
<1>1. \/ DeleteMapping(op.key) /\ op' = Settled("queue")
      \/ "notVerified" \in scenario.kinds /\ map' = map /\ (op' = None \/ op' = [Settled("send") EXCEPT !.tries = op.tries + 1])
  BY Zenon DEF dammCloseVerified
<1>2. \/ DeleteMapping(op.key) /\ Rests("queue", op.nft)
      \/ "notVerified" \in scenario.kinds /\ map' = map /\ (op' = None \/ Rests("send", op.nft))
  BY <1>1, RestsPlace, RestsTries, Zenon DEF Places
<1>3. ~OnChain(op.nft)
  BY AtClosed, Zenon DEF ClosedByClose, OnChain, OpFields, BeforeMint, Awaits, Filling
<1> QED
  BY <1>2, <1>3, NoneAssumption, Zenon DEF Rests, Unmaps, OpMoves, GoesOn, Mints, Maps, Abandons, Saved,
     Sent, HandsOn, OpFields, BeforeMint, Awaits, Filling

(* Every step of an operation on DAMM v2 has this shape.                   *)
LEMMA DammSteps ==
  ASSUME OpAt, scenario.dex = "dammv2", DammOpStep
  PROVE  OpShape
  BY DammOpenReadsStep, DammOpenCreatesStep, DammOpenThrowsStep, DammOpenFillsStep,
     DammOpenPoolReadErrsStep, DammOpenFilledStep, DammOpenVerifiedStep, DammAddReadsTargetStep,
     DammAddReadsOursStep, DammAddSendsStep, DammAddConfirmedStep, DammAddThrowsStep,
     DammAddStoresStep, DammRemoveReadsTargetStep, DammRemoveReadsOursStep, DammRemoveSendsStep,
     DammRemoveConfirmedStep, DammRemoveThrowsStep, DammReceivedQueuedStep, DammCloseSendsStep,
     DammCloseThrowsStep, DammCloseConfirmedStep, DammCloseVerifiedStep, Zenon DEF DammOpStep

(* What an operation on DAMM v2 is when it begins.                         *)
LEMMA DammStarts ==
  ASSUME scenario.dex = "dammv2", NEW item \in HighItem \cup NormalItem \cup DashboardItem,
         op' \in DammStart(item)
  PROVE  Began
<1>1. \/ item.kind \in {"open", "increase", "decrease", "close"} /\ item.key \in Targets
      \/ item.kind = "manualClose"
      \/ item.kind = "fees"
  BY Zenon DEF HighItem, NormalItem, DashboardItem, HighKinds, NormalKind
<1> QED
  BY <1>1, Zenon DEF DammStart, dammCopyOpenPosition, dammCopyAddLiquidity,
     dammCopyRemoveLiquidity, dammCopyClosePosition, dammManualClosePosition, dammCopyClaimFee,
     TargetsOf, Running, Began

(* Every step of a behaviour of DAMM v2 has one of the shapes.             *)
LEMMA DammShapes ==
  ASSUME OpAt, scenario.dex = "dammv2", DammNext
  PROVE  StepShape
<1>1. dammScanChecks => ScanChecks
  <2> SUFFICES ASSUME dammScanChecks PROVE ScanChecks
    OBVIOUS
  <2>1. scan # None
    BY Zenon DEF dammScanChecks
  <2> QED
    BY <2>1, ScanFinds, Zenon DEF dammScanChecks, ScanChecks, FaultStep, Fault, NoFault, ReadErrs
<1>2. ScanEnds => QueueOrphans(NormalKind)
  BY Zenon DEF ScanEnds, NormalKind
<1>3. dammDispatch \/ dammDashboard => StepShape
  BY DammStarts, Zenon DEF dammDispatch, dammDashboard, StepShape
<1>4. DammTargetDoes => StepShape
  BY Zenon DEF DammTargetDoes, DammTargetClaims, TargetStep, StepShape
<1> QED
  BY <1>1, <1>2, <1>3, <1>4, DammSteps, Zenon DEF DammNext, DammScanStep, ChainStep, StepShape

=============================================================================
