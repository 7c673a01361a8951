--------------------------- MODULE ExecutorShapes ---------------------------
(***************************************************************************)
(* The definitions that the proofs about Executors use: the inductive      *)
(* invariant, and the shape that the steps of the four executors have in   *)
(* common.                                                                 *)
(***************************************************************************)
EXTENDS CopyChain

-----------------------------------------------------------------------------
(* What the queue holds: a target's event at HIGH priority, what a scan    *)
(* found at NORMAL.                                                        *)
HighKinds == {"open", "increase", "decrease", "close"}
               \cup (IF scenario.dex = "dammv2" THEN {"fees"} ELSE {})

HighItem == [kind : HighKinds, key : Targets, nft : {None}]

NormalKind == IF scenario.dex = "pancakeswap" THEN "manualClose" ELSE "close"

NormalItem == [kind : {NormalKind}, key : Targets, nft : {None}]

QueuesOK == high \in Seq(HighItem) /\ normal \in Seq(NormalItem)

(* What an operation knows at each of its awaits.                          *)
BeforeMint == {"read", "send", "create"}

Awaits == {"confirm", "confirmRemove", "confirmCreate", "created", "confirmPart", "confirmFill", "filled"}

(* Meteora fills a position that it has created, in parts if there are     *)
(* several.                                                                *)
Filling == {"fill", "confirmPart", "confirmFill"}

InParts == scenario.dex = "meteora" /\ "chunked" \in scenario.kinds

(* An executor that waits for the confirmation knows what it has sent.     *)
Sent(o) ==
  /\ o.kind \in {"open", "increase"} =>
       /\ o.tx.kind \in {"open", "increase"} /\ o.pc # "confirmRemove"
       /\ o.tx.liq = o.amount \/ (o.tx.kind = "open" /\ o.tx.liq = 0) \/ o.pc \in Filling
       /\ o.pc \in Filling => o.tx.kind = "increase"
  /\ o.kind \in {"decrease", "close"} =>
       /\ o.tx.kind \notin {"open", "increase"} /\ o.pc \in {"confirm", "confirmRemove"}
       /\ scenario.dex # "meteora" => o.pc = "confirm"

OpFields(o) ==
  /\ o \in Op /\ o.kind # "fees"
  /\ o.kind # "open" \/ o.pc \notin BeforeMint => o.nft \in Nfts
  /\ o.kind \in {"open", "increase"} => o.amount \in Nat
  /\ scenario.dex = "meteora" => o.amount \in Nat
  /\ o.pc = "share" => o.amount \in Nat /\ o.amount < o.stored
  /\ o.st # "none" => o.tx \in Tx /\ o.tx.nft = o.nft
  /\ o.st # "none" /\ o.kind # "open" => o.tx.kind # "open"
  /\ o.st # "none" /\ o.kind \in {"close", "manualClose"} /\ o.pc # "confirmRemove"
       => o.tx.kind \in {"close", "closeAll"}
  /\ o.st # "none" /\ o.kind = "open" /\ o.pc \in {"confirmCreate", "created"}
       => o.tx.kind = "open" /\ o.tx.liq = 0
  /\ o.st # "none" /\ scenario.dex # "pancakeswap" => o.pc \in Awaits /\ Sent(o)
  /\ o.kind = "manualClose" => scenario.dex = "pancakeswap"
  /\ o.pc = "confirmPart" => InParts

OpOK == op # None => OpFields(op) /\ op.got <= loose

(* An entry is a position of ours that copies its target, and an executor  *)
(* that waits for the confirmation saves none that does not exist.         *)
EntriesOK ==
  \A t \in Targets : map[t] # None =>
    /\ pos[map[t].nft].copy = t
    /\ pos[map[t].nft].on \in {"minted", "open", "closed"}
    /\ scenario.dex # "pancakeswap" => pos[map[t].nft].on # "minted"

(* The entry of its target, if there is one, is the running operation's.   *)
Saved(o) ==
  \/ o.pc \in {"verify", "verifyFill"}
  \/ scenario.dex = "pancakeswap" /\ o.pc = "confirm"

WorksOnEntry ==
  op # None =>
    /\ op.nft # None => pos[op.nft].copy = op.key /\ pos[op.nft].on # "unused"
    /\ map[op.key] # None => map[op.key].nft = op.nft
    /\ op.kind = "open" /\ ~Saved(op) => map[op.key] = None

(* A close that landed has closed the position.                            *)
ClosedByClose ==
  op # None /\ op.kind \in {"close", "manualClose"} =>
    /\ op.st = "landed" /\ op.tx.kind \in {"close", "closeAll"} => pos[op.nft].on = "closed"
    /\ op.st = "none" /\ op.pc = "verify" => pos[op.nft].on = "closed"

-----------------------------------------------------------------------------
(* What a step of a running operation may do, whatever the executor: to    *)
(* the operation itself, to our positions (mint one), to the mapping, to   *)
(* the transactions nobody waits for and to what was withdrawn.            *)
GoesOn ==
  op' # None =>
    /\ OpFields(op') /\ op'.kind = op.kind /\ op'.key = op.key /\ op'.got \in {op.got, 0}
    /\ op'.st \in {"none", "flying"} \/ (op'.st = op.st /\ op'.nft = op.nft)
    /\ op.kind = "open" /\ Saved(op) => Saved(op') \/ DeleteMapping(op.key)
    /\ op.kind \in {"close", "manualClose"} =>
         /\ op'.st \in {"none", "flying"}
         /\ op'.st = "none" /\ op'.pc = "verify" =>
              op.st = "landed" /\ op.tx.kind \in {"close", "closeAll"}

Mints ==
  \/ pos' = pos /\ (op' # None => op'.nft \in {op.nft, None} /\ (Saved(op) => op'.nft = op.nft))
  \/ /\ Fresh # {} /\ pos' = Minted(op.key)
     /\ op.kind = "open" /\ ~Saved(op) /\ op' # None /\ op'.nft = FirstFresh /\ map' = map

Unmaps ==
  /\ DeleteMapping(op.key)
  /\ \/ ~OnChain(op.nft)
     \/ At("manualClose", "ack")
     \/ "readError" \in scenario.kinds /\ scenario.dex \in {"orca", "dammv2"}
     \/ "notVerified" \in scenario.kinds /\ scenario.dex \in {"meteora", "dammv2"}

Saves ==
  /\ op.kind = "open" /\ ~Saved(op) /\ op.nft \in Nfts /\ op.amount \in Nat
  /\ SetMapping(op.key, op.nft, op.amount)
  /\ scenario.dex # "pancakeswap" => op.st = "landed" \/ OnChain(op.nft)
  /\ op' # None => Saved(op') /\ op'.nft = op.nft

Maps == map' = map \/ Saves \/ Unmaps \/ \E l \in Nat : SetTargetLiquidity(op.key, l)

Abandons ==
  \/ late' = late
  \/ /\ op.st = "flying" /\ late' = Append(late, op.tx)
     /\ "timeout" \in scenario.kinds \/ (scenario.dex = "pancakeswap" /\ op.kind # "open")

FaultStep == faults' = faults \/ (faults < scenario.faults /\ faults' = faults + 1)

OpMoves ==
  /\ op # None /\ opLeaves /\ FaultStep
  /\ GoesOn /\ Mints /\ Maps /\ Abandons
  /\ loose' = loose \/ (loose' = loose - op.got /\ op' = None)

(* What the promises rest on.  An open that has saved nothing yet has no   *)
(* liquidity on chain, unless it has just landed, is looking it up or is   *)
(* filled in parts.                                                        *)
Clean(o) ==
  /\ o.pc \notin {"recover", "verify", "verifyFill"}
  /\ ~(o.st = "landed" /\ o.pc \in {"confirm", "confirmFill", "filled"})
  /\ o.pc \in Filling => ~InParts

(* An open leaves no liquidity that the mapping does not know: it has none *)
(* before and after the step, saves it, ends with its entry saved, finds   *)
(* nothing when it looks the position up, goes to look it up or goes on    *)
(* filling it; unless a confirmation is lost and not looked up, or one of  *)
(* several parts fails.                                                    *)
OpenKeeps ==
  op.kind = "open" =>
    \/ Clean(op) /\ map' = map /\ (op' # None => Clean(op'))
    \/ Saves
    \/ op.pc \in {"verify", "verifyFill"} /\ op' = None /\ map' = map
    \/ /\ scenario.dex = "orca" /\ op.pc = "recover" /\ map' = map /\ pos' = pos
       /\ ~OnChain(op.nft) \/ "readError" \in scenario.kinds
       /\ op' # None => op'.nft = op.nft /\ Clean(op')
    \/ op' # None /\ op'.pc = "recover" /\ op'.nft = op.nft /\ map' = map /\ pos' = pos
    \/ /\ InParts /\ op' # None /\ op'.pc \in Filling /\ op'.nft = op.nft /\ map' = map /\ pos' = pos
       /\ op.pc \in Filling \/ op.st = "landed"
    \/ InParts /\ op.pc \in Filling /\ (op.st \in {"reverted", "expired"} \/ "timeout" \in scenario.kinds)
    \/ scenario.dex # "orca" /\ scenario.kinds \cap {"lostAck", "notVerified"} # {}

(* What a decrease or close has brought stays in its hands until it is     *)
(* queued as pending swap.                                                 *)
HandsOn ==
  op.kind \in {"decrease", "close"} /\ scenario.dex \in {"orca", "dammv2"}
    /\ \/ op.st = "landed" /\ op.pc = "confirm"
       \/ op.st = "none" /\ op.pc \in {"verify", "queue"}
  => \/ /\ op' # None /\ op'.got = op.got /\ op'.st = "none" /\ op'.pc \in {"verify", "queue"}
        /\ loose' = loose
     \/ op' = None /\ loose' = loose - op.got
     \/ scenario.kinds \cap {"lostAck", "readError", "notVerified"} # {}

(* How an operation that adds comes to its amount: an open copies what it  *)
(* has read, at once or until the new position holds it; an increase has   *)
(* read one side, takes the difference to the other, and keeps it as long  *)
(* as its transaction has not landed.                                      *)
AddsUp ==
  op' # None =>
    /\ op.kind = "open" => op'.amount \in {op.amount, target[op.key].liq}
    /\ op.kind = "open" /\ op'.pc \notin BeforeMint =>
         \/ Fresh # {} /\ pos' = Minted(op.key) /\ op'.nft = FirstFresh
         \/ /\ pos' = pos /\ op'.nft = op.nft /\ op'.amount = op.amount
            /\ op.pc \notin BeforeMint /\ op'.pc \notin {"confirmCreate", "created"}
            /\ \/ op'.st # "flying"
               \/ pos[op.nft].liq + op'.tx.liq <= op.amount
               \/ op.pc = "created" /\ op'.tx.liq = op.amount
    /\ op.kind = "increase" =>
         \/ op'.pc \in {"read", "store"}
         \/ /\ op'.pc \in {"delta", "again"}
            /\ IF scenario.dex = "orca"
               THEN op'.amount = pos[op.nft].liq \/ (op.pc \in {"delta", "again"} /\ op'.amount = op.amount)
               ELSE op'.amount = target[op.key].liq
         \/ /\ op'.pc = "send" /\ op.pc = "delta"
            /\ IF scenario.dex = "orca" THEN op.amount + op'.amount = target[op.key].liq
               ELSE pos[op.nft].liq + op'.amount = op.amount
         \/ /\ op'.pc \in {"send", "confirm"} /\ op'.amount = op.amount
            /\ op.pc = "send" \/ (op.pc = "confirm" /\ op.st # "landed")
         \/ "lostAck" \in scenario.kinds

OpKeeps == scenario.dex # "pancakeswap" => OpenKeeps /\ HandsOn /\ AddsUp

OpShape == OpMoves /\ OpKeeps

(* The state before a step, in the facts that the steps need.              *)
OpAt ==
  /\ scenario.nfts \in 1..MaxNfts
  /\ op # None => OpFields(op) /\ op.key \in Targets
  /\ \A t \in Targets : target[t].liq \in Nat /\ (map[t] # None => map[t].stored \in Nat)
  /\ \A n \in Nfts : pos[n].liq \in Nat
  /\ scan # None => scan \in Scan
  /\ Fresh # {} => FirstFresh \in Nfts /\ pos[FirstFresh].on = "unused"
  /\ ClosedByClose

StepOf ==
  op # None /\ op \in Op /\ OpFields(op) /\ op.key \in Targets /\ opLeaves /\ FaultStep

(* How a step changes the local variables of an operation: it notes what   *)
(* it has decided, sends a transaction, or no longer waits for one.        *)
Notes(pc, a, s) ==
  /\ op' \in Op /\ op'.pc = pc /\ op'.amount = a /\ op'.stored = s
  /\ op'.kind = op.kind /\ op'.key = op.key /\ op'.nft = op.nft
  /\ op'.tx = op.tx /\ op'.st = op.st /\ op'.got = op.got

Sends(k, n, l, pc) ==
  /\ op' \in Op /\ op'.pc = pc /\ op'.nft = n /\ op'.st = "flying" /\ op'.got = 0
  /\ op'.tx \in Tx /\ op'.tx.kind = k /\ op'.tx.nft = n /\ op'.tx.liq = l
  /\ op'.kind = op.kind /\ op'.key = op.key /\ op'.amount = op.amount /\ op'.stored = op.stored

Rests(pc, n) ==
  /\ op' \in Op /\ op'.pc = pc /\ op'.nft = n /\ op'.tx = None /\ op'.st = "none"
  /\ op'.kind = op.kind /\ op'.key = op.key /\ op'.amount = op.amount
  /\ op'.stored = op.stored /\ op'.got = op.got

(* A transaction that landed has left its position on chain, or closed it. *)
LandedIsThere ==
  op # None /\ op.st = "landed" => pos[op.nft].on \in {"open", "closed"}

Inv == ChainTypeOK /\ QueuesOK /\ OpOK /\ EntriesOK /\ WorksOnEntry /\ ClosedByClose /\ LandedIsThere

(* Nothing that is sent late opens a position.                             *)
NoLateOpen ==
  Promised([pancakeswap |-> {"missed", "readError", "expired", "notVerified"}])
  => late \in Seq({tx \in Tx : tx.kind # "open"})

(* Without timeouts and crashes a transaction is waited for until the end. *)
AllAwaited ==
  scenario.dex # "pancakeswap" /\ scenario.kinds \cap {"timeout", "crash"} = {} => late = <<>>

-----------------------------------------------------------------------------
(* What the promises of Executors need to be inductive, each with the      *)
(* scenarios it is made for.                                               *)
Holding(n) == OnChain(n) /\ pos[n].liq > 0

Known(n) == n \in Mapped \cup displaced

Keeps ==
  \/ Promised([orca |-> {"missed", "expired", "lostAck", "notVerified"},
               meteora |-> {"missed", "readError", "expired"}, dammv2 |-> {"missed", "expired"}])
  \/ Promised([meteora |-> {"missed", "readError", "chunked"}])

(* Liquidity is known to the mapping or belongs to an open that has not    *)
(* saved its entry yet.  Any other operation works on a known position,    *)
(* and so does an open that verifies; before its transaction has landed an *)
(* open has no liquidity on chain.  A position that is filled in parts is  *)
(* there, and no part fails.                                               *)
NothingLost ==
  Keeps =>
    /\ \A n \in Nfts : Holding(n) => Known(n) \/ (op # None /\ op.kind = "open" /\ op.nft = n)
    /\ op # None /\ OnChain(op.nft) /\ (op.kind # "open" \/ op.pc \in {"verify", "verifyFill"})
         => Known(op.nft)
    /\ op # None /\ op.kind = "open" /\ Clean(op) => op.nft = None \/ ~Holding(op.nft)
    /\ op # None /\ op.kind = "open" /\ op.st = "landed" => OnChain(op.nft)
    /\ op # None /\ op.kind = "open" /\ InParts /\ op.pc \in Filling =>
         OnChain(op.nft) /\ op.st \in {"none", "flying", "landed"}

Queues == Promised([orca |-> {"missed", "expired"}, dammv2 |-> {"missed", "expired"}])

(* What was withdrawn is in the hands of the running operation.            *)
LooseIsHeld ==
  Queues =>
    /\ loose = IF op = None THEN 0 ELSE op.got
    /\ op # None /\ op.got > 0 =>
         /\ op.kind \in {"decrease", "close"}
         /\ \/ op.st = "landed" /\ op.pc = "confirm"
            \/ op.st = "none" /\ op.pc \in {"verify", "queue"}

TargetWithinPeak == \A t \in Targets : target[t].liq <= peak[t]

Matches ==
  Promised([orca |-> {"missed", "expired"}, meteora |-> {"missed", "expired", "chunked"},
            dammv2 |-> {"missed", "expired"}])

OursFit == \A n \in Nfts : OnChain(n) => pos[n].copy \in Targets /\ pos[n].liq <= peak[pos[n].copy]

(* An open adds no more than the target has had, at once or in parts, and  *)
(* an increase that has yet to land no more than the target has had above  *)
(* ours: it has read one side and took the difference to the other.        *)
InFlight(o) == IF o.st = "flying" THEN o.tx.liq ELSE 0

OpFits ==
  op # None =>
    /\ op.kind = "open" => op.amount <= peak[op.key]
    /\ op.kind = "open" /\ op.pc \notin BeforeMint /\ OnChain(op.nft) =>
         /\ pos[op.nft].liq + InFlight(op) <= op.amount
         /\ op.pc \in {"confirmCreate", "created"} => pos[op.nft].liq = 0
    /\ op.kind = "increase" /\ op.pc \in {"delta", "again"} =>
         IF scenario.dex = "orca" THEN OnChain(op.nft) => op.amount = pos[op.nft].liq
         ELSE op.amount <= peak[op.key]
    /\ op.kind = "increase" /\ OnChain(op.nft) /\ (op.pc = "send" \/ (op.pc = "confirm" /\ op.st # "landed"))
         => pos[op.nft].liq + op.amount <= peak[op.key]
    /\ op.kind = "increase" /\ op.st # "none" => op.pc = "confirm"

WithinPeak == Matches => OursFit /\ OpFits

Promises == AllAwaited /\ NothingLost /\ LooseIsHeld /\ TargetWithinPeak /\ WithinPeak

-----------------------------------------------------------------------------
(* The steps of a behaviour, whatever the executor.                        *)
TargetMoves ==
  \E t \in Targets, now \in [on : {"open", "closed"}, liq : Liq], kind \in HighKinds : TargetActs(t, now, kind)

(* An operation begins, by an item of the queue or by hand; or it ends     *)
(* before its first await.                                                 *)
Began ==
  op' # None => \E t \in Targets :
    \/ map[t] = None /\ op' = Running("open", t, None, "read")
    \/ map[t] # None /\ \E kind \in {"increase", "decrease"} : op' = Running(kind, t, map[t].nft, "read")
    \/ map[t] # None /\ \E kind \in {"close", "manualClose"} :
         op' = Running(kind, t, map[t].nft, "send") /\ (kind = "manualClose" => scenario.dex = "pancakeswap")

TakenFrom == high' \in Seq(HighItem) /\ normal' \in Seq(NormalItem)

Begins ==
  /\ op = None /\ UNCHANGED <<world, map, scans, faults, events>>
  /\ TakenFrom /\ Began
  /\ userOps' = userOps \/ (userOps < scenario.userOps /\ userOps' = userOps + 1)

(* The scan looks at one entry: it may find an orphan, or that our         *)
(* position is gone.                                                       *)
ScanChecks ==
  /\ scan # None /\ FaultStep /\ UNCHANGED <<world, queues, op, events, userOps>>
  /\ \E e \in scan.todo :
       /\ \E found \in {scan.orphans, scan.orphans \cup {e[1]}} :
            scan' = [todo |-> scan.todo \ {e}, orphans |-> found]
       /\ \/ UNCHANGED <<map, displaced>>
          \/ /\ ~OnChain(e[2]) /\ DeleteMapping(e[1])
             /\ displaced' = displaced \cup (EntryOf(e[1]) \ {e[2]})

NextShape ==
  \/ TargetMoves \/ Lands \/ LateLands \/ Expires \/ Begins \/ OpShape
  \/ ScanStarts \/ ScanChecks \/ QueueOrphans(NormalKind) \/ Crash

(* The same, as each executor has it: where an item comes from is not      *)
(* known yet.                                                              *)
StepShape ==
  \/ TargetStep
  \/ scenario.dex = "dammv2" /\ \E t \in Targets : target[t].on = "open" /\ TargetActs(t, target[t], "fees")
  \/ Lands \/ LateLands \/ Expires \/ Crash
  \/ TakeNext /\ (NextItem \in HighItem \cup NormalItem => Began)
  \/ TakeFromDashboard /\ Began
  \/ OpShape \/ ScanStarts \/ ScanChecks \/ QueueOrphans(NormalKind)

=============================================================================
