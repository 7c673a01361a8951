---------------------------- MODULE PositionStore ----------------------------
(***************************************************************************)
(* The position map and its persistence: src/state/position-map.ts keeps   *)
(* the mapping target NFT -> our position in memory and serves every read  *)
(* from it; each mutation queues the matching repository call              *)
(* (src/state/repo/positions.ts) on a write chain                          *)
(* (src/state/write-chain.ts), which runs the calls one at a time, in      *)
(* order, retries a failing one and finally drops it.  A restart loads     *)
(* memory from the table and forgets the chain.                            *)
(***************************************************************************)
EXTENDS Naturals, Sequences

CONSTANTS Targets,       \* target position NFTs: the keys
          OurNfts,       \* our position NFTs
          Values,        \* values of the optional columns
          Unset,         \* an optional column that is NULL / undefined
          Absent,        \* "no row" / "no entry"
          RetryDelays,   \* RETRY_DELAYS_MS.length: retries before a drop
          MaxMutations,  \* bound: mutations ever made
          MaxFailures    \* bound: failed attempts ever

ASSUME RetryDelaysAssumption == RetryDelays \in Nat
ASSUME BoundsAssumption == MaxMutations \in Nat /\ MaxFailures \in Nat

(* The columns that a setter updates.  set() itself writes pool and dex    *)
(* (possibly NULL) and clears the other two.                               *)
Column == {"pool", "dex", "lockedSol", "targetLiquidity"}

PositionEntry == [ourNft : OurNfts, cols : [Column -> Values \cup {Unset}]]

ASSUME AbsentAssumption == Absent \notin PositionEntry

(* A queued repository call, `entry` or `value` as the operation needs.    *)
SetWrite == [op : {"set"}, key : Targets, entry : PositionEntry]
UpdateWrite == [op : {"update"}, key : Targets, column : Column, value : Values]
DeleteWrite == [op : {"delete"}, key : Targets]
Write == SetWrite \cup UpdateWrite \cup DeleteWrite

Table == [Targets -> PositionEntry \cup {Absent}]

VARIABLES map,        \* PositionMap.map
          chain,      \* the write chain, the call being attempted first
          attempt,    \* failed attempts of the first call
          table,      \* the positions table
          versions,   \* history: map as it was before each queued call, then map
          lost,       \* history: dropped calls that no later call made good
          mutations, failures  \* counted for the bounds

vars == <<map, chain, attempt, table, versions, lost, mutations, failures>>

TypeOK ==
  /\ map \in Table
  /\ chain \in Seq(Write)
  /\ attempt \in 0..RetryDelays
  /\ table \in Table
  /\ versions \in Seq(Table)
  /\ lost \in SUBSET Write
  /\ mutations \in 0..MaxMutations
  /\ failures \in 0..MaxFailures

Init ==
  /\ map = [t \in Targets |-> Absent]
  /\ chain = <<>>
  /\ attempt = 0
  /\ table = map
  /\ versions = <<map>>
  /\ lost = {}
  /\ mutations = 0
  /\ failures = 0

-----------------------------------------------------------------------------
(* The repository calls: what each SQL statement does to the table.        *)

(* INSERT ... ON CONFLICT DO UPDATE, every column given. *)
RepoSet(tab, w) == [tab EXCEPT ![w.key] = w.entry]

WithColumn(entry, column, value) ==
  [entry EXCEPT !.cols = [entry.cols EXCEPT ![column] = value]]

(* UPDATE ... WHERE target_nft: no row, no effect. *)
RepoUpdate(tab, w) ==
  IF tab[w.key] = Absent THEN tab
  ELSE [tab EXCEPT ![w.key] = WithColumn(tab[w.key], w.column, w.value)]

RepoDelete(tab, w) == [tab EXCEPT ![w.key] = Absent]

Apply(tab, w) ==
  IF w.op = "set" THEN RepoSet(tab, w)
  ELSE IF w.op = "update" THEN RepoUpdate(tab, w)
  ELSE RepoDelete(tab, w)

-----------------------------------------------------------------------------
(* Mutations of the map.                                                   *)

PushFront(w) == chain' = IF chain = <<>> THEN <<w>> ELSE <<Head(chain), w>> \o Tail(chain)

(* WriteChain.push(): the call runs after every call queued before it.     *)
push(w) == chain' = Append(chain, w)

(* A mutation: the map changes and the matching call is queued.            *)
Mutate(newMap, w) ==
  /\ mutations < MaxMutations
  /\ mutations' = mutations + 1
  /\ map' = newMap
  /\ push(w)
  /\ versions' = Append(versions, newMap)
  /\ UNCHANGED <<attempt, table, lost, failures>>

(* set(): the entry is replaced, its lockedSol and targetLiquidity gone.   *)
set(t, ourNft, pool, dex) ==
  LET entry == [ourNft |-> ourNft,
                cols |-> [c \in Column |-> IF c = "pool" THEN pool
                                           ELSE IF c = "dex" THEN dex ELSE Unset]]
  IN  Mutate([map EXCEPT ![t] = entry], [op |-> "set", key |-> t, entry |-> entry])

(* The four setters do nothing for a target that is not mapped.            *)
SetColumn(t, column, value) ==
  /\ map[t] # Absent
  /\ Mutate([map EXCEPT ![t] = WithColumn(map[t], column, value)],
            [op |-> "update", key |-> t, column |-> column, value |-> value])

setDex(t, dex) == SetColumn(t, "dex", dex)
setPool(t, pool) == SetColumn(t, "pool", pool)
setLockedSol(t, lockedSol) == SetColumn(t, "lockedSol", lockedSol)
setTargetLiquidity(t, liquidity) == SetColumn(t, "targetLiquidity", liquidity)

(* delete(): the call is queued whether or not there was an entry.         *)
delete(t) ==
  Mutate([map EXCEPT ![t] = Absent], [op |-> "delete", key |-> t])

(* deleteByOurNft(): the first entry that maps to the NFT, if there is one. *)
deleteByOurNft(ourNft) ==
  \E t \in Targets : map[t] # Absent /\ map[t].ourNft = ourNft /\ delete(t)

-----------------------------------------------------------------------------
(* The write chain.                                                        *)

(* The dropped calls whose effect w brings about as well: a whole row, or  *)
(* a column of it.                                                         *)
MadeGood(w) ==
  {x \in lost : /\ x.key = w.key
                /\ w.op # "update" \/ (x.op = "update" /\ x.column = w.column)}

RetryNeverRuns ==
  /\ chain # <<>> /\ attempt = 0
  /\ table' = Apply(table, Head(chain))
  /\ lost' = lost \ MadeGood(Head(chain))
  /\ chain' = Tail(chain)
  /\ versions' = Tail(versions)
  /\ UNCHANGED <<map, attempt, mutations, failures>>

(* write() resolves. *)
writeSucceeds ==
  /\ chain # <<>>
  /\ table' = Apply(table, Head(chain))
  /\ lost' = lost \ MadeGood(Head(chain))
  /\ chain' = Tail(chain)
  /\ versions' = Tail(versions)
  /\ attempt' = 0
  /\ UNCHANGED <<map, mutations, failures>>

NeverGivesUp ==
  /\ chain # <<>>
  /\ failures < MaxFailures
  /\ failures' = failures + 1
  /\ attempt' = attempt + 1
  /\ UNCHANGED <<map, table, chain, versions, lost, mutations>>

(* write() rejects and is retried after a delay.  The statement may have   *)
(* taken effect before the connection broke.                               *)
writeRetries ==
  /\ chain # <<>>
  /\ failures < MaxFailures
  /\ failures' = failures + 1
  /\ attempt < RetryDelays
  /\ attempt' = attempt + 1
  /\ \/ UNCHANGED <<table, versions>>
     \/ /\ table' = Apply(table, Head(chain))
        /\ versions' = [versions EXCEPT ![1] = versions[2]]
  /\ UNCHANGED <<map, chain, lost, mutations>>

(* write() rejects for the last time: the call is logged and dropped.      *)
writeDropped ==
  /\ chain # <<>>
  /\ failures < MaxFailures
  /\ failures' = failures + 1
  /\ attempt = RetryDelays
  /\ attempt' = 0
  /\ table' \in {table, Apply(table, Head(chain))}
  /\ lost' = lost \cup {Head(chain)}
  /\ chain' = Tail(chain)
  /\ versions' = Tail(versions)
  /\ UNCHANGED <<map, mutations>>

RestartStartsEmpty ==
  /\ map' = [t \in Targets |-> Absent]
  /\ chain' = <<>>
  /\ attempt' = 0
  /\ versions' = <<map'>>
  /\ lost' = {}
  /\ UNCHANGED <<table, mutations, failures>>

(* The process dies, queued calls with it, and init() loads the table.     *)
restart ==
  /\ map' = table
  /\ chain' = <<>>
  /\ attempt' = 0
  /\ versions' = <<table>>
  /\ lost' = {}
  /\ UNCHANGED <<table, mutations, failures>>

Next ==
  \/ \E t \in Targets :
       \/ \E n \in OurNfts, pool, dex \in Values \cup {Unset} : set(t, n, pool, dex)
       \/ \E v \in Values : \/ setDex(t, v) \/ setPool(t, v)
                            \/ setLockedSol(t, v) \/ setTargetLiquidity(t, v)
       \/ delete(t)
  \/ \E n \in OurNfts : deleteByOurNft(n)
  \/ writeSucceeds \/ writeRetries \/ writeDropped
  \/ restart

(* The chain keeps attempting its first call, and the database answers     *)
(* sooner or later.                                                        *)
Spec == Init /\ [][Next]_vars /\ WF_vars(writeSucceeds)

-----------------------------------------------------------------------------

(* `versions` is the past of the map: each queued call takes one version   *)
(* to the next and the last version is the map.  So replaying the chain    *)
(* over the first version gives the memory every read is served from.      *)
ChainReplaysMemory ==
  /\ Len(versions) = Len(chain) + 1
  /\ versions[Len(versions)] = map
  /\ \A i \in 1..Len(chain) : versions[i + 1] = Apply(versions[i], chain[i])

LostColumns(t) == {w.column : w \in {x \in lost : x.key = t /\ x.op = "update"}}
RowLost(t) == \E w \in lost : w.key = t /\ w.op # "update"

(* What a restart would load is the map as it was before the first queued  *)
(* call: a crash loses the newest mutations and never an older one, and a  *)
(* call that is retried after it took effect does no harm.  A dropped call *)
(* leaves behind the row (set, delete) or the column (setters) it was to   *)
(* write, and nothing else.                                                *)
TableIsPastMemory ==
  \A t \in Targets :
    ~RowLost(t) =>
      /\ table[t] = Absent <=> versions[1][t] = Absent
      /\ table[t] # Absent =>
           /\ table[t].ourNft = versions[1][t].ourNft
           /\ \A c \in Column \ LostColumns(t) : table[t].cols[c] = versions[1][t].cols[c]

(* While the failures stay within the retries, every mutation reaches the  *)
(* table, unless the process dies first.                                   *)
MutationsArePersisted ==
  [](chain # <<>> => <>(chain = <<>> /\ (failures <= RetryDelays => table = map)))

(* write-chain.ts:14 on dropped calls: "an upsert is healed by the row's   *)
(* next mutation".  When a set() of a row was dropped and a later mutation *)
(* of the row, the last one queued, is persisted, row and map agree.       *)
DroppedUpsertIsHealed ==
  [][\A t \in Targets :
       /\ \E w \in lost : w.op = "set" /\ w.key = t
       /\ chain # <<>> /\ chain' = Tail(chain) /\ failures' = failures
       /\ Head(chain).key = t
       /\ \A i \in DOMAIN chain' : chain'[i].key # t
       => table'[t] = map'[t]]_vars
=============================================================================
