-------------------------- MODULE ExecutorsProofs --------------------------
(***************************************************************************)
(* Proofs about Executors: what the four executors promise, for any        *)
(* targets, any bounds and any scenario.                                   *)
(***************************************************************************)
EXTENDS Executors, SolanaSteps, CopyChainProofs, FiniteSetTheorems, WellFoundedInduction,
        NaturalsInduction

-----------------------------------------------------------------------------
(* The promises that only the executors on Solana make ask nothing of      *)
(* PancakeSwap.                                                            *)
LEMMA PancakeKept ==
  ASSUME scenario.dex = "pancakeswap"
  PROVE  OpKeeps
  BY Zenon DEF OpKeeps

(* pancakeOpenReads has the shape of a step.                            *)
LEMMA PancakeOpenReadsStep ==
  ASSUME OpAt, scenario.dex = "pancakeswap", pancakeOpenReads
  PROVE  OpShape
<1> USE DEF At, Done, Fault, NoFault, ReadErrs, Reads, ReadsTarget, StepOf
<1> SUFFICES ASSUME StepOf /\ op.kind = "open" /\ op.pc = "read" /\ UNCHANGED <<pos, map, late, loose>>
             PROVE  OpMoves
  BY AtOp, PancakeKept, Zenon DEF pancakeOpenReads, OpShape, opLeaves, queues, scans, FaultStep
<1>1. target[op.key].liq \in Nat
  BY AtReads, Zenon
<1>2. op' = None \/ \E a \in Nat : op' = [op EXCEPT !.pc = "send", !.amount = a]
  BY <1>1, Zenon DEF pancakeOpenReads
<1>3. op' = None \/ \E a \in Nat : Notes("send", a, op.stored)
  BY <1>2, NotesAmount, Zenon DEF Places
<1> QED
  BY <1>3, Zenon DEF Notes, OpMoves, GoesOn, Mints, Maps, Abandons, Saved, Sent, OpFields, BeforeMint,
     Awaits, Filling

(* pancakeOpenSends has the shape of a step.                            *)
LEMMA PancakeOpenSendsStep ==
  ASSUME OpAt, scenario.dex = "pancakeswap", pancakeOpenSends
  PROVE  OpShape
<1> USE DEF At, StepOf
<1> DEFINE n == IF op.nft = None THEN FirstFresh ELSE op.nft
<1> SUFFICES ASSUME /\ StepOf /\ op.kind = "open" /\ op.pc = "send" /\ UNCHANGED <<map, late, loose>>
                    /\ \/ op.nft = None /\ Fresh # {} /\ pos' = Minted(op.key)
                       \/ op.nft # None /\ pos' = pos
             PROVE  OpMoves
  BY AtOp, PancakeKept, Zenon DEF pancakeOpenSends, OpShape, opLeaves, queues, scans, FaultStep
<1>1. op' = Sending([kind |-> "open", nft |-> n, liq |-> op.amount], "ack")
  BY Zenon DEF pancakeOpenSends
<1>2. n \in Nfts /\ (op.nft = None => n = FirstFresh) /\ (op.nft # None => n = op.nft)
  <2>1. Fresh # {} => FirstFresh \in Nfts
    BY AtFresh, Zenon
  <2> QED
    BY <2>1, Zenon DEF Op
<1> HIDE DEF n
<1>3. op \in Op /\ op.amount \in Nat /\ "open" \in TxKind /\ "ack" \in Places
  BY Zenon DEF TxKind, Places, OpFields, BeforeMint
<1>4. \E l \in Nat : Sends("open", n, l, "ack")
  BY <1>1, <1>2, <1>3, SendsForm, Zenon
<1> QED
  BY <1>2, <1>4, NoneAssumption, Zenon DEF Sends, OpMoves, GoesOn, Mints, Maps, Abandons, Saved, Sent,
     OpFields, BeforeMint, Awaits, Filling

(* pancakeOpenAccepted has the shape of a step.                         *)
LEMMA PancakeOpenAcceptedStep ==
  ASSUME OpAt, scenario.dex = "pancakeswap", pancakeOpenAccepted
  PROVE  OpShape
<1> USE DEF At, NoFault, SetMapping, StepOf
<1> SUFFICES ASSUME /\ StepOf /\ op.kind = "open" /\ op.pc = "ack"
                    /\ UNCHANGED <<pos, late, loose>> /\ SetMapping(op.key, op.nft, op.amount)
             PROVE  OpMoves
  BY AtOp, PancakeKept, Zenon DEF pancakeOpenAccepted, OpShape, opLeaves, queues, scans,
     FaultStep
<1>1. Notes("confirm", op.amount, op.stored)
  BY NotesPlace, Zenon DEF pancakeOpenAccepted, Places
<1> QED
  BY <1>1, Zenon DEF Notes, Saves, OpMoves, GoesOn, Mints, Maps, Abandons, Saved, Sent, OpFields,
     BeforeMint, Awaits, Filling

(* pancakeOpenThrows has the shape of a step.                           *)
LEMMA PancakeOpenThrowsStep ==
  ASSUME OpAt, scenario.dex = "pancakeswap", pancakeOpenThrows
  PROVE  OpShape
<1> USE DEF At, Done, Throws, Settled, Fault, NoFault, PancakeAgain, StepOf
<1> SUFFICES ASSUME StepOf /\ op.kind = "open" /\ op.pc = "ack" /\ UNCHANGED <<pos, map, loose>> /\ Abandons
             PROVE  OpMoves
  BY AtOp, PancakeKept, Zenon DEF pancakeOpenThrows, Abandons, OpShape, opLeaves, queues, scans,
     FaultStep
<1>1. \/ op' = None \/ op' = Settled("send")
      \/ op' = [Settled("send") EXCEPT !.tries = op.tries + 1, !.nft = None]
  BY Zenon DEF pancakeOpenThrows
<1>2. op' = None \/ Rests("send", op.nft) \/ Rests("send", None)
  BY <1>1, RestsPlace, RestsAnew, Zenon DEF Places
<1> QED
  BY <1>2, Zenon DEF Rests, OpMoves, GoesOn, Mints, Maps, Abandons, Saved, Sent, OpFields, BeforeMint,
     Awaits, Filling

(* pancakeOpenConfirmed has the shape of a step.                        *)
LEMMA PancakeOpenConfirmedStep ==
  ASSUME OpAt, scenario.dex = "pancakeswap", pancakeOpenConfirmed
  PROVE  OpShape
<1> USE DEF At, Done, Throws, Fault, NoFault, StepOf
<1> SUFFICES ASSUME /\ StepOf /\ op.kind = "open" /\ op.pc = "confirm"
                    /\ UNCHANGED <<pos, map, loose>> /\ op' = None /\ Abandons
             PROVE  OpMoves
  BY AtOp, PancakeKept, Zenon DEF pancakeOpenConfirmed, Abandons, OpShape, opLeaves, queues,
     scans, FaultStep
<1> QED
  BY Zenon DEF OpMoves, GoesOn, Mints, Maps, Abandons, Saved, Sent, OpFields, BeforeMint, Awaits, Filling

(* pancakeIncreaseReadsTarget has the shape of a step.                  *)
LEMMA PancakeIncreaseReadsTargetStep ==
  ASSUME OpAt, scenario.dex = "pancakeswap", pancakeIncreaseReadsTarget
  PROVE  OpShape
<1> USE DEF At, Done, Fault, NoFault, ReadErrs, Reads, ReadsTarget, StepOf
<1> SUFFICES ASSUME StepOf /\ op.kind = "increase" /\ op.pc = "read" /\ UNCHANGED <<pos, map, late, loose>>
             PROVE  OpMoves
  BY AtOp, PancakeKept, Zenon DEF pancakeIncreaseReadsTarget, OpShape, opLeaves, queues, scans,
     FaultStep
<1>1. target[op.key].liq \in Nat
  BY AtReads, Zenon
<1>2. op' = None \/ \E a \in Nat : op' = [op EXCEPT !.pc = "delta", !.amount = a]
  BY <1>1, Zenon DEF pancakeIncreaseReadsTarget
<1>3. op' = None \/ \E a \in Nat : Notes("delta", a, op.stored)
  BY <1>2, NotesAmount, Zenon DEF Places
<1> QED
  BY <1>3, Zenon DEF Notes, OpMoves, GoesOn, Mints, Maps, Abandons, Saved, Sent, OpFields, BeforeMint,
     Awaits, Filling

(* pancakeIncreaseReadsOurs has the shape of a step.                    *)
LEMMA PancakeIncreaseReadsOursStep ==
  ASSUME OpAt, scenario.dex = "pancakeswap", pancakeIncreaseReadsOurs
  PROVE  OpShape
<1> USE DEF At, Done, Fault, NoFault, ReadErrs, Reads, ReadsOurs, StepOf
<1> SUFFICES ASSUME StepOf /\ op.kind = "increase" /\ op.pc = "delta" /\ UNCHANGED <<pos, map, late, loose>>
             PROVE  OpMoves
  BY AtOp, PancakeKept, Zenon DEF pancakeIncreaseReadsOurs, OpShape, opLeaves, queues, scans,
     FaultStep
<1>1. op.nft \in Nfts /\ pos[op.nft].liq \in Nat
  BY AtReads, Zenon DEF OpFields, BeforeMint
<1>2. \/ op' = None
      \/ \E mine \in Nat : op.amount > mine /\ op' = [op EXCEPT !.pc = "send", !.amount = op.amount - mine]
  BY <1>1, 0 \in Nat, Zenon DEF pancakeIncreaseReadsOurs
<1>3. \A mine \in Nat : op.amount > mine => op.amount - mine \in Nat
  BY DEF OpFields, BeforeMint
<1>4. op' = None \/ \E a \in Nat : Notes("send", a, op.stored)
  BY <1>2, <1>3, NotesAmount, Zenon DEF Places
<1> QED
  BY <1>4, Zenon DEF Notes, OpMoves, GoesOn, Mints, Maps, Abandons, Saved, Sent, OpFields, BeforeMint,
     Awaits, Filling

(* pancakeIncreaseSends has the shape of a step.                        *)
LEMMA PancakeIncreaseSendsStep ==
  ASSUME OpAt, scenario.dex = "pancakeswap", pancakeIncreaseSends
  PROVE  OpShape
<1> USE DEF At, StepOf
<1> SUFFICES ASSUME StepOf /\ op.kind = "increase" /\ op.pc = "send" /\ UNCHANGED <<pos, map, late, loose>>
             PROVE  OpMoves
  BY AtOp, PancakeKept, Zenon DEF pancakeIncreaseSends, OpShape, opLeaves, queues, scans,
     FaultStep
<1>1. op \in Op /\ op.nft \in Nfts /\ op.amount \in Nat /\ "increase" \in TxKind /\ "ack" \in Places
  BY Zenon DEF TxKind, Places, OpFields, BeforeMint
<1>2. \E l \in Nat : Sends("increase", op.nft, l, "ack")
  BY <1>1, SendsForm, Zenon DEF pancakeIncreaseSends
<1> QED
  BY <1>2, Zenon DEF Sends, OpMoves, GoesOn, Mints, Maps, Abandons, Saved, Sent, OpFields, BeforeMint,
     Awaits, Filling

(* pancakeIncreaseAccepted has the shape of a step.                     *)
LEMMA PancakeIncreaseAcceptedStep ==
  ASSUME OpAt, scenario.dex = "pancakeswap", pancakeIncreaseAccepted
  PROVE  OpShape
<1> USE DEF At, Settled, NoFault, PancakeAccepted, Flying, StepOf
<1> SUFFICES ASSUME /\ StepOf /\ op.kind = "increase" /\ op.pc = "ack"
                    /\ UNCHANGED <<pos, map, loose>> /\ Abandons
             PROVE  OpMoves
  BY AtOp, PancakeKept, Zenon DEF pancakeIncreaseAccepted, Abandons, OpShape, opLeaves, queues,
     scans, FaultStep
<1>1. Rests("store", op.nft)
  BY RestsPlace, Zenon DEF pancakeIncreaseAccepted, Places
<1> QED
  BY <1>1, Zenon DEF Rests, OpMoves, GoesOn, Mints, Maps, Abandons, Saved, Sent, OpFields, BeforeMint,
     Awaits, Filling

(* pancakeIncreaseThrows has the shape of a step.                       *)
LEMMA PancakeIncreaseThrowsStep ==
  ASSUME OpAt, scenario.dex = "pancakeswap", pancakeIncreaseThrows
  PROVE  OpShape
<1> USE DEF At, Done, Throws, Settled, Fault, NoFault, PancakeAgain, PancakeRetry, StepOf
<1> SUFFICES ASSUME /\ StepOf /\ op.kind = "increase" /\ op.pc = "ack"
                    /\ UNCHANGED <<pos, map, loose>> /\ Abandons
             PROVE  OpMoves
  BY AtOp, PancakeKept, Zenon DEF pancakeIncreaseThrows, Abandons, OpShape, opLeaves, queues,
     scans, FaultStep
<1>1. op' = None \/ op' = Settled("send") \/ op' = [Settled("send") EXCEPT !.tries = op.tries + 1]
  BY Zenon DEF pancakeIncreaseThrows
<1>2. op' = None \/ Rests("send", op.nft)
  BY <1>1, RestsPlace, RestsTries, Zenon DEF Places
<1> QED
  BY <1>2, Zenon DEF Rests, OpMoves, GoesOn, Mints, Maps, Abandons, Saved, Sent, OpFields, BeforeMint,
     Awaits, Filling

(* pancakeIncreaseStores has the shape of a step.                       *)
LEMMA PancakeIncreaseStoresStep ==
  ASSUME OpAt, scenario.dex = "pancakeswap", pancakeIncreaseStores
  PROVE  OpShape
<1> USE DEF At, Done, Fault, NoFault, ReadErrs, Reads, ReadsTarget, SetTargetLiquidity, StepOf
<1> SUFFICES ASSUME StepOf /\ op' = None /\ UNCHANGED <<pos, late, loose>>
             PROVE  OpMoves
  BY AtOp, PancakeKept, Zenon DEF pancakeIncreaseStores, OpShape, opLeaves, queues, scans,
     FaultStep
<1>1. target[op.key].liq \in Nat
  BY AtReads, Zenon
<1>2. map' = map \/ \E l \in Nat : SetTargetLiquidity(op.key, l)
  BY <1>1, Zenon DEF pancakeIncreaseStores
<1> QED
  BY <1>2, Zenon DEF OpMoves, GoesOn, Mints, Maps, Abandons, Saved, Sent, OpFields, BeforeMint,
     Awaits, Filling

(* pancakeDecreaseReadsTarget has the shape of a step.                  *)
LEMMA PancakeDecreaseReadsTargetStep ==
  ASSUME OpAt, scenario.dex = "pancakeswap", pancakeDecreaseReadsTarget
  PROVE  OpShape
<1> USE DEF At, Done, Fault, NoFault, ReadErrs, Reads, ReadsTarget, StepOf
<1> SUFFICES ASSUME StepOf /\ op.kind = "decrease" /\ op.pc = "read" /\ UNCHANGED <<pos, map, late, loose>>
             PROVE  OpMoves
  BY AtOp, PancakeKept, Zenon DEF pancakeDecreaseReadsTarget, OpShape, opLeaves, queues, scans,
     FaultStep
<1> DEFINE r == target[op.key].liq
           stored == getTargetLiquidity(op.key)
<1>1. r \in Nat /\ (stored # None => stored \in Nat)
  BY AtReads, Zenon DEF getTargetLiquidity
<1>2. \/ op' = None \/ op' = [op EXCEPT !.pc = "send", !.amount = None]
      \/ stored # None /\ r < stored /\ op' = [op EXCEPT !.pc = "share", !.amount = r, !.stored = stored]
  BY Zenon DEF pancakeDecreaseReadsTarget
<1> HIDE DEF r, stored
<1>3. \/ op' = None \/ Notes("send", None, op.stored)
      \/ stored # None /\ r < stored /\ Notes("share", r, stored)
  BY <1>1, <1>2, NotesAmount, NotesShare, Zenon DEF Places
<1> QED
  BY <1>1, <1>3, Zenon DEF Notes, OpMoves, GoesOn, Mints, Maps, Abandons, Saved, Sent, OpFields,
     BeforeMint, Awaits, Filling

(* pancakeDecreaseReadsOurs has the shape of a step.                    *)
LEMMA PancakeDecreaseReadsOursStep ==
  ASSUME OpAt, scenario.dex = "pancakeswap", pancakeDecreaseReadsOurs
  PROVE  OpShape
<1> USE DEF At, Done, Fault, NoFault, ReadErrs, Reads, ReadsOurs, SetTargetLiquidity, StepOf
<1> SUFFICES ASSUME /\ StepOf /\ op.kind = "decrease" /\ op.pc = "share"
                    /\ UNCHANGED <<pos, late, loose>> /\ SetTargetLiquidity(op.key, op.amount)
             PROVE  OpMoves
  BY AtOp, PancakeKept, Zenon DEF pancakeDecreaseReadsOurs, OpShape, opLeaves, queues, scans,
     FaultStep
<1>1. op.nft \in Nfts /\ op.amount \in Nat /\ op.stored \in Nat /\ op.amount < op.stored /\ pos[op.nft].liq \in Nat
  BY AtReads, Zenon DEF Op, OpFields, BeforeMint
<1>2. PancakeProportionalShare(pos[op.nft].liq, op.stored, op.amount) \in Nat
  BY <1>1, ShareIsNat, Zenon DEF PancakeProportionalShare
<1>3. op' = None \/ \E a \in Nat \cup {None} : op' = [op EXCEPT !.pc = "send", !.amount = a]
  BY <1>2, Zenon DEF pancakeDecreaseReadsOurs
<1>4. op' = None \/ \E a \in Nat \cup {None} : Notes("send", a, op.stored)
  BY <1>3, NotesAmount, Zenon DEF Places
<1> QED
  BY <1>1, <1>4, Zenon DEF Notes, OpMoves, GoesOn, Mints, Maps, Abandons, Saved, Sent, OpFields,
     BeforeMint, Awaits, Filling

(* pancakeDecreaseSends has the shape of a step.                        *)
LEMMA PancakeDecreaseSendsStep ==
  ASSUME OpAt, scenario.dex = "pancakeswap", pancakeDecreaseSends
  PROVE  OpShape
<1> USE DEF At, Done, Settled, Fault, NoFault, ReadErrs, Reads, ReadsOurs, PancakeAgain,
   PancakeRetry, StepOf
<1> SUFFICES ASSUME StepOf /\ op.kind = "decrease" /\ op.pc = "send" /\ UNCHANGED <<pos, map, late, loose>>
             PROVE  OpMoves
  BY AtOp, PancakeKept, Zenon DEF pancakeDecreaseSends, OpShape, opLeaves, queues, scans,
     FaultStep
<1>1. op.nft \in Nfts /\ pos[op.nft].liq \in Nat
  BY AtReads, Zenon DEF OpFields, BeforeMint
<1>2. PancakeDecreaseOf(pos[op.nft].liq) \in Nat
  BY <1>1, Zenon DEF PancakeDecreaseOf, Op
<1>3. \/ op' = None \/ op' = Settled("send") \/ op' = [Settled("send") EXCEPT !.tries = op.tries + 1]
      \/ \E l \in Nat : op' = Sending([kind |-> "decrease", nft |-> op.nft, liq |-> l], "ack")
  BY <1>2, Zenon DEF pancakeDecreaseSends
<1>4. op \in Op /\ op.nft \in Nfts /\ "decrease" \in TxKind /\ {"ack", "send"} \subseteq Places
  BY Zenon DEF TxKind, Places, OpFields, BeforeMint
<1>5. (\E l \in Nat : op' = Sending([kind |-> "decrease", nft |-> op.nft, liq |-> l], "ack"))
      => \E l \in Nat : Sends("decrease", op.nft, l, "ack")
  BY <1>4, SendsForm, Zenon
<1>6. op' = Settled("send") \/ op' = [Settled("send") EXCEPT !.tries = op.tries + 1] => Rests("send", op.nft)
  BY <1>4, RestsPlace, RestsTries, Zenon
<1>7. \/ op' = None \/ Rests("send", op.nft)
      \/ \E l \in Nat : Sends("decrease", op.nft, l, "ack")
  BY <1>3, <1>5, <1>6, Zenon
<1> QED
  BY <1>7, Zenon DEF Sends, Rests, OpMoves, GoesOn, Mints, Maps, Abandons, Saved, Sent, OpFields,
     BeforeMint, Awaits, Filling

(* pancakeDecreaseAccepted has the shape of a step.                     *)
LEMMA PancakeDecreaseAcceptedStep ==
  ASSUME OpAt, scenario.dex = "pancakeswap", pancakeDecreaseAccepted
  PROVE  OpShape
<1> USE DEF At, Done, NoFault, PancakeAccepted, Flying, StepOf
<1> SUFFICES ASSUME /\ StepOf /\ op.kind = "decrease" /\ op.pc = "ack"
                    /\ UNCHANGED <<pos, map, loose>> /\ op' = None /\ Abandons
             PROVE  OpMoves
  BY AtOp, PancakeKept, Zenon DEF pancakeDecreaseAccepted, Abandons, OpShape, opLeaves, queues,
     scans, FaultStep
<1> QED
  BY Zenon DEF OpMoves, GoesOn, Mints, Maps, Abandons, Saved, Sent, OpFields, BeforeMint, Awaits, Filling

(* pancakeDecreaseThrows has the shape of a step.                       *)
LEMMA PancakeDecreaseThrowsStep ==
  ASSUME OpAt, scenario.dex = "pancakeswap", pancakeDecreaseThrows
  PROVE  OpShape
<1> USE DEF At, Done, Throws, Settled, Fault, NoFault, PancakeAgain, PancakeRetry, StepOf
<1> SUFFICES ASSUME /\ StepOf /\ op.kind = "decrease" /\ op.pc = "ack"
                    /\ UNCHANGED <<pos, map, loose>> /\ Abandons
             PROVE  OpMoves
  BY AtOp, PancakeKept, Zenon DEF pancakeDecreaseThrows, Abandons, OpShape, opLeaves, queues,
     scans, FaultStep
<1>1. op' = None \/ op' = Settled("send") \/ op' = [Settled("send") EXCEPT !.tries = op.tries + 1]
  BY Zenon DEF pancakeDecreaseThrows
<1>2. op' = None \/ Rests("send", op.nft)
  BY <1>1, RestsPlace, RestsTries, Zenon DEF Places
<1> QED
  BY <1>2, Zenon DEF Rests, OpMoves, GoesOn, Mints, Maps, Abandons, Saved, Sent, OpFields, BeforeMint,
     Awaits, Filling

(* pancakeCloseSends has the shape of a step.                           *)
LEMMA PancakeCloseSendsStep ==
  ASSUME OpAt, scenario.dex = "pancakeswap", pancakeCloseSends
  PROVE  OpShape
<1> USE DEF Done, Settled, Fault, NoFault, ReadErrs, Reads, ReadsOurs, PancakeAgain,
   PancakeRetry, StepOf
<1> SUFFICES ASSUME /\ StepOf /\ op.kind \in {"close", "manualClose"} /\ op.pc = "send"
                    /\ UNCHANGED <<pos, map, late, loose>>
             PROVE  OpMoves
  BY AtOp, PancakeKept, Zenon DEF pancakeCloseSends, OpShape, opLeaves, queues, scans, FaultStep
<1> DEFINE pc == IF op.kind = "close" THEN "verify" ELSE "ack"
<1>1. op.nft \in Nfts /\ pos[op.nft].liq \in Nat
  BY AtReads, Zenon DEF OpFields, BeforeMint
<1>2. \/ op' = None \/ op' = Settled("send") \/ op' = [Settled("send") EXCEPT !.tries = op.tries + 1]
      \/ op' = Sending([kind |-> "close", nft |-> op.nft, liq |-> pos[op.nft].liq], pc)
  BY Zenon DEF pancakeCloseSends
<1>3. op \in Op /\ "close" \in TxKind /\ "send" \in Places /\ pc \in Places /\ pc \in {"verify", "ack"}
  BY Zenon DEF TxKind, Places, OpFields, BeforeMint
<1> HIDE DEF pc
<1>4. op' = Sending([kind |-> "close", nft |-> op.nft, liq |-> pos[op.nft].liq], pc)
      => \E l \in Nat : Sends("close", op.nft, l, pc)
  BY <1>1, <1>3, SendsForm, Zenon
<1>5. op' = Settled("send") \/ op' = [Settled("send") EXCEPT !.tries = op.tries + 1] => Rests("send", op.nft)
  BY <1>3, RestsPlace, RestsTries, Zenon
<1>6. \/ op' = None \/ Rests("send", op.nft)
      \/ \E l \in Nat : Sends("close", op.nft, l, pc)
  BY <1>2, <1>4, <1>5, Zenon
<1> QED
  BY <1>3, <1>6, Zenon DEF Sends, Rests, OpMoves, GoesOn, Mints, Maps, Abandons, Saved, Sent, OpFields,
     BeforeMint, Awaits, Filling

(* pancakeCloseVerified has the shape of a step.                        *)
LEMMA PancakeCloseVerifiedStep ==
  ASSUME OpAt, scenario.dex = "pancakeswap", pancakeCloseVerified
  PROVE  OpShape
<1> USE DEF At, Done, Confirmed, NoFault, DeleteMapping, StepOf
<1> SUFFICES ASSUME /\ StepOf /\ op.kind = "close" /\ op.pc = "verify"
                    /\ UNCHANGED <<pos, late, loose>> /\ op.st = "landed" /\ op' = None /\ DeleteMapping(op.key)
             PROVE  OpMoves
  BY AtOp, PancakeKept, Zenon DEF pancakeCloseVerified, OpShape, opLeaves, queues, scans,
     FaultStep
<1>1. ~OnChain(op.nft)
  BY AtClosed, Zenon DEF ClosedByClose, OnChain, OpFields, BeforeMint, Awaits, Filling
<1> QED
  BY <1>1, Zenon DEF Unmaps, OpMoves, GoesOn, Mints, Maps, Abandons, Saved, Sent, OpFields, BeforeMint,
     Awaits, Filling

(* pancakeCloseNotVerified has the shape of a step.                     *)
LEMMA PancakeCloseNotVerifiedStep ==
  ASSUME OpAt, scenario.dex = "pancakeswap", pancakeCloseNotVerified
  PROVE  OpShape
<1> USE DEF At, Done, Throws, Settled, Fault, NoFault, PancakeAgain, PancakeRetry,
   PancakeNotVerified, StepOf
<1> SUFFICES ASSUME /\ StepOf /\ op.kind = "close" /\ op.pc = "verify"
                    /\ UNCHANGED <<pos, map, loose>> /\ Abandons
             PROVE  OpMoves
  BY AtOp, PancakeKept, Zenon DEF pancakeCloseNotVerified, Abandons, OpShape, opLeaves, queues,
     scans, FaultStep
<1>1. op' = None \/ op' = Settled("send") \/ op' = [Settled("send") EXCEPT !.tries = op.tries + 1]
  BY Zenon DEF pancakeCloseNotVerified
<1>2. op' = None \/ Rests("send", op.nft)
  BY <1>1, RestsPlace, RestsTries, Zenon DEF Places
<1> QED
  BY <1>2, Zenon DEF Rests, OpMoves, GoesOn, Mints, Maps, Abandons, Saved, Sent, OpFields, BeforeMint,
     Awaits, Filling

(* pancakeManualCloseAccepted has the shape of a step.                  *)
LEMMA PancakeManualCloseAcceptedStep ==
  ASSUME OpAt, scenario.dex = "pancakeswap", pancakeManualCloseAccepted
  PROVE  OpShape
<1> USE DEF At, Done, NoFault, PancakeAccepted, Flying, DeleteMapping, StepOf
<1> SUFFICES ASSUME /\ StepOf /\ op.kind = "manualClose" /\ op.pc = "ack"
                    /\ UNCHANGED <<pos, loose>> /\ op' = None /\ Abandons /\ DeleteMapping(op.key)
             PROVE  OpMoves
  BY AtOp, PancakeKept, Zenon DEF pancakeManualCloseAccepted, Abandons, OpShape, opLeaves,
     queues, scans, FaultStep
<1> QED
  BY Zenon DEF Unmaps, OpMoves, GoesOn, Mints, Maps, Abandons, Saved, Sent, OpFields, BeforeMint,
     Awaits, Filling

(* pancakeManualCloseThrows has the shape of a step.                    *)
LEMMA PancakeManualCloseThrowsStep ==
  ASSUME OpAt, scenario.dex = "pancakeswap", pancakeManualCloseThrows
  PROVE  OpShape
<1> USE DEF At, Done, Throws, Settled, Fault, NoFault, PancakeAgain, StepOf
<1> SUFFICES ASSUME /\ StepOf /\ op.kind = "manualClose" /\ op.pc = "ack"
                    /\ UNCHANGED <<pos, map, loose>> /\ Abandons
             PROVE  OpMoves
  BY AtOp, PancakeKept, Zenon DEF pancakeManualCloseThrows, Abandons, OpShape, opLeaves, queues,
     scans, FaultStep
<1>1. op' = None \/ op' = Settled("send") \/ op' = [Settled("send") EXCEPT !.tries = op.tries + 1]
  BY Zenon DEF pancakeManualCloseThrows
<1>2. op' = None \/ Rests("send", op.nft)
  BY <1>1, RestsPlace, RestsTries, Zenon DEF Places
<1> QED
  BY <1>2, Zenon DEF Rests, OpMoves, GoesOn, Mints, Maps, Abandons, Saved, Sent, OpFields, BeforeMint,
     Awaits, Filling

(* Every step of an operation on PancakeSwap has this shape.               *)
LEMMA PancakeSteps ==
  ASSUME OpAt, scenario.dex = "pancakeswap", PancakeOpStep
  PROVE  OpShape
  BY PancakeOpenReadsStep, PancakeOpenSendsStep, PancakeOpenAcceptedStep, PancakeOpenThrowsStep,
     PancakeOpenConfirmedStep, PancakeIncreaseReadsTargetStep, PancakeIncreaseReadsOursStep,
     PancakeIncreaseSendsStep, PancakeIncreaseAcceptedStep, PancakeIncreaseThrowsStep,
     PancakeIncreaseStoresStep, PancakeDecreaseReadsTargetStep, PancakeDecreaseReadsOursStep,
     PancakeDecreaseSendsStep, PancakeDecreaseAcceptedStep, PancakeDecreaseThrowsStep,
     PancakeCloseSendsStep, PancakeCloseVerifiedStep, PancakeCloseNotVerifiedStep,
     PancakeManualCloseAcceptedStep, PancakeManualCloseThrowsStep, Zenon DEF PancakeOpStep

(* What an operation on PancakeSwap is when it begins.                     *)
LEMMA PancakeStarts ==
  ASSUME scenario.dex = "pancakeswap", NEW item \in HighItem \cup NormalItem \cup DashboardItem,
         op' \in PancakeStart(item)
  PROVE  Began
<1>1. \/ item.kind \in {"open", "increase", "decrease", "close"} /\ item.key \in Targets
      \/ item.kind = "manualClose"
  BY Zenon DEF HighItem, NormalItem, DashboardItem, HighKinds, NormalKind
<1>2. \A m : op' \in pancakeManualClosePosition(m) => Began
  BY Zenon DEF pancakeManualClosePosition, TargetsOf, Running, Began
<1>3. CASE item.kind = "manualClose"
  BY <1>1, <1>2, <1>3, Zenon DEF PancakeStart, Began
<1>4. CASE item.kind # "manualClose"
  BY <1>1, <1>4, Zenon DEF PancakeStart, pancakeCopyOpenPosition,
     pancakeCopyIncreaseLiquidity, pancakeCopyDecreaseLiquidity, pancakeCopyClosePosition,
     Running, Began
<1> QED
  BY <1>3, <1>4, Zenon

(* Every step of a behaviour of PancakeSwap has one of the shapes.         *)
LEMMA PancakeShapes ==
  ASSUME OpAt, scenario.dex = "pancakeswap", PancakeNext
  PROVE  StepShape
<1>1. pancakeScanChecks => ScanChecks
  BY Zenon DEF pancakeScanChecks, ReadErrs, ScanChecks, FaultStep, Fault, NoFault
<1>2. pancakeScanEnds => QueueOrphans(NormalKind)
  BY Zenon DEF pancakeScanEnds, NormalKind
<1>3. pancakeDispatch \/ pancakeDashboard => StepShape
  BY PancakeStarts, Zenon DEF pancakeDispatch, pancakeDashboard, StepShape
<1> QED
  BY <1>1, <1>2, <1>3, PancakeSteps, Zenon DEF PancakeNext, PancakeScanStep, ChainStep, StepShape

-----------------------------------------------------------------------------
(* The NFT that is minted next is one that is left.                        *)
LEMMA FirstFreshFits ==
  ASSUME Fresh # {}, scenario.nfts \in 1..MaxNfts
  PROVE  FirstFresh \in Nfts /\ pos[FirstFresh].on = "unused"
<1> DEFINE Below == OpToRel(<, Nat)
<1>1. Fresh \in SUBSET Nat /\ Fresh \subseteq Nfts
  BY ChainAssumption DEF Fresh, Nfts
<1>2. PICK x \in Fresh : \A y \in Fresh : ~(<<y, x>> \in Below)
  <2>1. IsWellFoundedOn(Below, Nat)
    BY NatLessThanWellFounded, Zenon
  <2> HIDE DEF Below
  <2> QED
    BY <1>1, <2>1, WFMin, Zenon
<1>3. ASSUME NEW y \in Fresh PROVE x <= y
  <2>1. x \in Nat /\ y \in Nat
    BY <1>1, Zenon
  <2>2. ~(y < x)
    BY <1>2, <2>1, Zenon DEF OpToRel
  <2> QED
    BY <2>1, <2>2
<1>4. FirstFresh \in Fresh
  BY <1>3, Zenon DEF FirstFresh
<1> QED
  BY <1>1, <1>4, Zenon DEF Fresh

(* The invariant gives the steps what they need.                           *)
LEMMA InvGivesOpAt == Inv => OpAt
<1> SUFFICES ASSUME Inv PROVE OpAt
  OBVIOUS
<1>1. scenario.nfts \in 1..MaxNfts
  BY ChainAssumption, Zenon DEF Inv, ChainTypeOK, IsScenario
<1>2. op # None => OpFields(op) /\ op.key \in Targets
  BY Zenon DEF Inv, OpOK, OpFields, Op
<1>3. \A t \in Targets : target[t].liq \in Nat /\ (map[t] # None => map[t].stored \in Nat)
  BY ChainAssumption DEF Inv, ChainTypeOK, Liq, Entry
<1>4. \A n \in Nfts : pos[n].liq \in Nat
  BY Zenon DEF Inv, ChainTypeOK
<1>5. scan # None => scan \in Scan
  BY Zenon DEF Inv, ChainTypeOK
<1> QED
  BY <1>1, <1>2, <1>3, <1>4, <1>5, FirstFreshFits, Zenon DEF OpAt, Inv

(* What a scan found can be counted.                                       *)
LEMMA OrphansCount ==
  ASSUME Inv, scan # None
  PROVE  Cardinality(scan.orphans) \in Nat
<1>1. scan.orphans \subseteq Targets
  BY Zenon DEF Inv, ChainTypeOK, Scan
<1> QED
  BY <1>1, ChainAssumption, FS_Subset, FS_CardinalityType, Zenon

(* Every step has one of the shapes.                                       *)
LEMMA NextHasShape ==
  ASSUME Inv, Next
  PROVE  NextShape /\ UNCHANGED scenario
<1>1. CASE scenario.dex = "orca" /\ OrcaNext
  BY <1>1, InvGivesOpAt, OrcaShapes, StepHasShape, Zenon DEF Next
<1>2. CASE scenario.dex = "meteora" /\ MeteoraNext
  BY <1>2, InvGivesOpAt, MeteoraShapes, StepHasShape, Zenon DEF Next
<1>3. CASE scenario.dex = "dammv2" /\ DammNext
  BY <1>3, InvGivesOpAt, DammShapes, StepHasShape, Zenon DEF Next
<1>4. CASE scenario.dex = "pancakeswap" /\ PancakeNext
  BY <1>4, InvGivesOpAt, PancakeShapes, StepHasShape, Zenon DEF Next
<1> QED
  BY <1>1, <1>2, <1>3, <1>4, Zenon DEF Next

(* Every step keeps the invariant.                                         *)
LEMMA NextInv ==
  ASSUME Inv, [Next]_vars
  PROVE  Inv'
<1>1. CASE Next
  <2>1. NextShape /\ UNCHANGED scenario /\ OpAt
    BY <1>1, NextHasShape, InvGivesOpAt, Zenon
  <2>2. QueueOrphans(NormalKind) => Inv'
    BY <2>1, OrphansCount, QueueOrphansKeepsInv, Zenon DEF QueueOrphans
  <2> QED
    BY <2>1, <2>2, TargetKeepsInv, LandsKeepsInv, LateKeepsInv, ExpiresKeepsInv, BeginsKeepsInv,
       OpShapeKeepsInv, ScanStartKeepsInv, ScanCheckKeepsInv, CrashKeepsInv, Zenon DEF NextShape
<1>2. CASE UNCHANGED vars
  <2>1. OpInv' /\ QueuesOK'
    BY <1>2, OpInvFrame, QueuesFrame, Zenon DEF vars, world, queues, Inv, OpInv
  <2>2. ChainTypeOK'
    BY <1>2, Zenon DEF vars, world, queues, scans, counts, Inv, ChainTypeOK
  <2> QED
    BY <2>1, <2>2, Zenon DEF Inv, OpInv
<1> QED
  BY <1>1, <1>2, Zenon

(* What the executors rely on while they wait holds throughout: types, the *)
(* operation's local variables at every await, the entries, and that the   *)
(* entry of its target, if there is one, is the running operation's.       *)
THEOREM ExecutorsInvariant == Spec => []Inv
  BY InitInv, NextInv, PTL DEF Spec

(* The types of the executors' state, for any targets and scenarios.       *)
THEOREM ExecutorsTypeCorrect == Spec => []TypeOK
<1>1. Inv => TypeOK
  BY Zenon DEF Inv, TypeOK
<1> QED
  BY <1>1, ExecutorsInvariant, PTL

(* An entry is removed only when its position is not on chain:             *)
(* copyClosePosition() removes it after the close is verified or when the  *)
(* position cannot be seen, and a scan after it has looked.  This is under *)
(* every kind of fault but the ones that deceive the reads behind it: a    *)
(* read error on Orca and DAMM v2 looks like a position that is gone, and  *)
(* a landed transaction that is not verified on Meteora and DAMM v2 makes  *)
(* an open remove the entry again.  manualClosePosition() of PancakeSwap   *)
(* does not wait for the close, and a scan may take the position of a      *)
(* target opened again for the one it listed; both are excepted.           *)
THEOREM EntriesOutliveTheirPositions == Spec => UnmappedOnlyWhenGone
<1>1. Inv /\ [Next]_vars => [UnmapsGone]_vars
  BY NextHasShape, StepUnmapsGone, Zenon
<1> QED
  BY <1>1, ExecutorsInvariant, PTL DEF Spec, UnmappedOnlyWhenGone, UnmapsGone

(* A position of PancakeSwap comes into being only when its open still     *)
(* waits for it: copyOpenPosition() saves the mapping after the send has   *)
(* been confirmed, and gives a transaction up only when its wait times out *)
(* or the process dies.                                                    *)
THEOREM PositionsAreRecorded == Spec => LandsRecorded
<1>1. Init => NoLateOpen
  BY DEF Init, NoLateOpen
<1>2. Inv /\ NoLateOpen /\ [Next]_vars => NoLateOpen'
  <2>1. UNCHANGED vars /\ NoLateOpen => NoLateOpen'
    BY Zenon DEF vars, world, NoLateOpen, Promised, Tx, Nfts
  <2> QED
    BY <2>1, NextHasShape, StepNoLateOpen, Zenon
<1>3. Inv /\ NoLateOpen /\ [Next]_vars => [Records]_vars
  BY NextHasShape, InvGivesOpAt, StepRecords, Zenon
<1> QED
  BY <1>1, <1>2, <1>3, ExecutorsInvariant, PTL DEF Spec, LandsRecorded, Records

(* Every step keeps what the promises of Orca, Meteora and DAMM v2 rest    *)
(* on.                                                                     *)
LEMMA NextPromises ==
  ASSUME Inv, Promises, [Next]_vars
  PROVE  Promises'
<1>1. CASE Next
  <2>1. NextShape /\ UNCHANGED scenario /\ OpAt
    BY <1>1, NextHasShape, InvGivesOpAt, Zenon
  <2> QED
    BY <2>1, StepAllAwaited, StepNothingLost, StepLooseIsHeld, StepTargetWithinPeak, StepWithinPeak, Zenon
       DEF Promises
<1>2. CASE UNCHANGED vars
  <2>1. UNCHANGED <<scenario, target, pos, late, map, op, loose, peak, displaced>>
    BY <1>2, Zenon DEF vars, world, scans
  <2>2. AllAwaited' /\ TargetWithinPeak' /\ LooseIsHeld'
    BY <2>1, Zenon DEF Promises, AllAwaited, TargetWithinPeak, LooseIsHeld, Queues, Promised
  <2>3. NothingLost'
    BY <2>1, Zenon DEF Promises, NothingLost, Keeps, Promised, Holding, Known, Mapped, OnChain, Clean, InParts
  <2>4. WithinPeak'
    BY <2>1, Zenon DEF Promises, WithinPeak, Matches, Promised, OursFit, OpFits, OnChain, InFlight
  <2> QED
    BY <2>2, <2>3, <2>4, Zenon DEF Promises
<1> QED
  BY <1>1, <1>2, Zenon

(* What the next three theorems rest on: every transaction is waited for,  *)
(* liquidity is known to the mapping, what was withdrawn is in the hands   *)
(* of the operation, and what is added fits below the target's peak.       *)
THEOREM PromisesHold == Spec => []Promises
<1>1. Init => Promises
  <2> SUFFICES ASSUME Init PROVE Promises
    OBVIOUS
  <2>1. AllAwaited /\ TargetWithinPeak /\ LooseIsHeld
    BY DEF Init, AllAwaited, TargetWithinPeak, LooseIsHeld
  <2>2. NothingLost /\ WithinPeak
    BY Zenon DEF Init, NothingLost, WithinPeak, OursFit, OpFits, Holding, OnChain
  <2> QED
    BY <2>1, <2>2, Zenon DEF Promises
<1> QED
  BY <1>1, NextPromises, ExecutorsInvariant, PTL DEF Spec

(* No position of ours with liquidity drops out of the mapping: an open    *)
(* that landed is saved or looked up before copyOpenPosition() tries again *)
(* with a new NFT, and an entry goes only with its position.  For any      *)
(* number of targets, positions and faults of the kinds survived, none of  *)
(* which is a timeout or a crash: Orca survives missed events, expired,    *)
(* unconfirmed and unverified transactions, Meteora and DAMM v2 missed     *)
(* events and expired transactions, Meteora read errors too.  A position   *)
(* that Meteora fills in several transactions is safe as long as none of   *)
(* them fails: the mapping is saved after the last one.                    *)
THEOREM NoLiquidityIsLost == Spec => []NoLostLiquidity
<1>1. Promises => NoLostLiquidity
  BY Zenon DEF Promises, NothingLost, Keeps, Known, Holding, NoLostLiquidity
<1> QED
  BY <1>1, PromisesHold, PTL

(* The differences that copyIncreaseLiquidity() adds, each of two readings *)
(* taken at different times and sent again after a failure, never bring    *)
(* ours above the most the target has had, and neither do the parts in     *)
(* which Meteora fills a position.  Events may be missed and transactions  *)
(* may expire; a lost confirmation may make an increase add twice.         *)
THEOREM IncreasesDoNotOvershoot == Spec => []OursWithinPeak
<1>1. Promises => OursWithinPeak
  BY Zenon DEF Promises, WithinPeak, Matches, OursFit, OursWithinPeak
<1> QED
  BY <1>1, PromisesHold, PTL

(* Whatever a decrease or close of Orca or DAMM v2 withdraws, in however   *)
(* many attempts, has been queued as pending swap when nothing is left to  *)
(* do.                                                                     *)
THEOREM WithdrawnIsQueued == Spec => []ReceivedTokensAreQueued
<1>1. Promises => ReceivedTokensAreQueued
  BY Zenon DEF Promises, LooseIsHeld, Queues, ReceivedTokensAreQueued, Quiet
<1> QED
  BY <1>1, PromisesHold, PTL

=============================================================================
