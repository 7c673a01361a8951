------------------------ MODULE PositionStoreProofs ------------------------
(***************************************************************************)
(* Proofs about the position store, for any sets of targets, NFTs and      *)
(* values, any number of retries and any bounds.                           *)
(***************************************************************************)
EXTENDS PositionStore, SequenceTheorems, TLAPS

(* Writing a column gives an entry with that column and nothing else       *)
(* changed.                                                                *)
LEMMA WithColumnFacts ==
  ASSUME NEW e \in PositionEntry, NEW c \in Column, NEW v \in Values
  PROVE  /\ WithColumn(e, c, v) \in PositionEntry
         /\ WithColumn(e, c, v).ourNft = e.ourNft
         /\ WithColumn(e, c, v).cols[c] = v
         /\ \A d \in Column : d # c => WithColumn(e, c, v).cols[d] = e.cols[d]
         /\ WithColumn(WithColumn(e, c, v), c, v) = WithColumn(e, c, v)
BY DEF WithColumn, PositionEntry

(* A call touches the row of its key only, and what it makes of that row:  *)
(* a set the given entry, an update the entry with one column written (if  *)
(* there is an entry), a delete no entry.                                  *)
LEMMA ApplyRow ==
  ASSUME NEW tab \in Table, NEW w \in Write, NEW t \in Targets
  PROVE  /\ Apply(tab, w) \in Table
         /\ t # w.key => Apply(tab, w)[t] = tab[t]
         /\ w.op = "set" /\ t = w.key => Apply(tab, w)[t] = w.entry
         /\ w.op = "delete" /\ t = w.key => Apply(tab, w)[t] = Absent
         /\ w.op = "update" /\ t = w.key =>
              Apply(tab, w)[t] = IF tab[t] = Absent THEN Absent
                                 ELSE WithColumn(tab[t], w.column, w.value)
<1>1. CASE w \in SetWrite
  BY <1>1 DEF Apply, RepoSet, Table, SetWrite
<1>2. CASE w \in UpdateWrite
  <2>1. w.op = "update" /\ w.key \in Targets /\ w.column \in Column /\ w.value \in Values
    BY <1>2 DEF UpdateWrite
  <2>2. CASE tab[w.key] = Absent
    BY <2>1, <2>2 DEF Apply, RepoUpdate
  <2>3. CASE tab[w.key] # Absent
    <3>1. tab[w.key] \in PositionEntry
      BY <2>1, <2>3 DEF Table
    <3>2. WithColumn(tab[w.key], w.column, w.value) \in PositionEntry
      BY <3>1, <2>1, WithColumnFacts
    <3>3. Apply(tab, w) = [tab EXCEPT ![w.key] = WithColumn(tab[w.key], w.column, w.value)]
      BY <2>1, <2>3 DEF Apply, RepoUpdate
    <3> QED BY <3>2, <3>3, <2>1, <2>3 DEF Table
  <2> QED BY <2>2, <2>3
<1>3. CASE w \in DeleteWrite
  BY <1>3 DEF Apply, RepoDelete, Table, DeleteWrite
<1> QED BY <1>1, <1>2, <1>3 DEF Write

LEMMA ApplyType ==
  ASSUME NEW tab \in Table, NEW w \in Write
  PROVE  Apply(tab, w) \in Table
<1>1. w.key \in Targets
  BY DEF Write, SetWrite, UpdateWrite, DeleteWrite
<1> QED BY <1>1, ApplyRow

(* Applying a call twice is applying it once: why a retry after a lost     *)
(* acknowledgement is harmless.                                            *)
LEMMA ApplyIdempotent ==
  ASSUME NEW tab \in Table, NEW w \in Write
  PROVE  Apply(Apply(tab, w), w) = Apply(tab, w)
<1> DEFINE once == Apply(tab, w)
           twice == Apply(once, w)
<1>1. once \in Table /\ twice \in Table
  BY ApplyType
<1>2. ASSUME NEW t \in Targets PROVE twice[t] = once[t]
  <2>1. CASE t # w.key
    BY <2>1, <1>1, ApplyRow
  <2>2. CASE t = w.key /\ w \in SetWrite
    BY <2>2, <1>1, ApplyRow DEF SetWrite
  <2>3. CASE t = w.key /\ w \in DeleteWrite
    BY <2>3, <1>1, ApplyRow DEF DeleteWrite
  <2>4. CASE t = w.key /\ w \in UpdateWrite
    <3>1. w.op = "update" /\ w.column \in Column /\ w.value \in Values
      BY <2>4 DEF UpdateWrite
    <3>2. once[t] = IF tab[t] = Absent THEN Absent ELSE WithColumn(tab[t], w.column, w.value)
      BY <2>4, <3>1, ApplyRow
    <3>3. twice[t] = IF once[t] = Absent THEN Absent ELSE WithColumn(once[t], w.column, w.value)
      BY <2>4, <3>1, <1>1, ApplyRow
    <3>4. tab[t] = Absent \/ tab[t] \in PositionEntry
      BY DEF Table
    <3> HIDE DEF once, twice
    <3> QED BY <3>1, <3>2, <3>3, <3>4, WithColumnFacts
  <2> QED BY <2>1, <2>2, <2>3, <2>4 DEF Write
<1> HIDE DEF once, twice
<1>3. once = twice
  BY <1>1, <1>2 DEF Table
<1> QED BY <1>3 DEF once, twice

-----------------------------------------------------------------------------
(* Table and past memory: TableIsPastMemory with the three things it       *)
(* relates as parameters, row by row.                                      *)

RowGone(L, t) == \E w \in L : w.key = t /\ w.op # "update"
ColumnsGone(L, t) == {w.column : w \in {x \in L : x.key = t /\ x.op = "update"}}

RowAgrees(tab, v, L, t) ==
  ~RowGone(L, t) =>
    /\ tab[t] = Absent <=> v[t] = Absent
    /\ tab[t] # Absent =>
         /\ tab[t].ourNft = v[t].ourNft
         /\ \A c \in Column \ ColumnsGone(L, t) : tab[t].cols[c] = v[t].cols[c]

Agrees(tab, v, L) == \A t \in Targets : RowAgrees(tab, v, L, t)

LEMMA AgreesIsTableIsPast == TableIsPastMemory <=> Agrees(table, versions[1], lost)
BY DEF TableIsPastMemory, Agrees, RowAgrees, RowGone, ColumnsGone, RowLost, LostColumns

(* A call applied to both keeps them in agreement, also when the dropped   *)
(* calls it makes good are forgotten.                                      *)
LEMMA AppliedAgrees ==
  ASSUME NEW tab \in Table, NEW v \in Table, NEW L \in SUBSET Write, NEW w \in Write,
         NEW M \in SUBSET L, Agrees(tab, v, L),
         \A x \in L \ M : /\ x.key = w.key
                          /\ w.op # "update" \/ (x.op = "update" /\ x.column = w.column)
  PROVE  Agrees(Apply(tab, w), Apply(v, w), M)
<1> SUFFICES ASSUME NEW t \in Targets PROVE RowAgrees(Apply(tab, w), Apply(v, w), M, t)
  BY DEF Agrees
<1>0. RowAgrees(tab, v, L, t)
  BY DEF Agrees
<1>1. CASE t # w.key
  <2>1. Apply(tab, w)[t] = tab[t] /\ Apply(v, w)[t] = v[t]
    BY <1>1, ApplyRow
  <2>2. RowGone(L, t) => RowGone(M, t)
    BY <1>1 DEF RowGone
  <2>3. ColumnsGone(L, t) \subseteq ColumnsGone(M, t)
    BY <1>1 DEF ColumnsGone
  <2> QED BY <1>0, <2>1, <2>2, <2>3 DEF RowAgrees
<1>2. CASE t = w.key /\ w \in SetWrite
  <2>1. Apply(tab, w)[t] = w.entry /\ Apply(v, w)[t] = w.entry
    BY <1>2, ApplyRow DEF SetWrite
  <2> QED BY <2>1 DEF RowAgrees
<1>3. CASE t = w.key /\ w \in DeleteWrite
  <2>1. Apply(tab, w)[t] = Absent /\ Apply(v, w)[t] = Absent
    BY <1>3, ApplyRow DEF DeleteWrite
  <2> QED BY <2>1 DEF RowAgrees
<1>4. CASE t = w.key /\ w \in UpdateWrite
  <2>1. w.op = "update" /\ w.column \in Column /\ w.value \in Values
    BY <1>4 DEF UpdateWrite
  <2>2. RowGone(L, t) => RowGone(M, t)
    BY <2>1 DEF RowGone
  <2>3. ColumnsGone(L, t) \subseteq ColumnsGone(M, t) \cup {w.column}
    BY <2>1 DEF ColumnsGone
  <2>4. /\ Apply(tab, w)[t] = IF tab[t] = Absent THEN Absent ELSE WithColumn(tab[t], w.column, w.value)
        /\ Apply(v, w)[t] = IF v[t] = Absent THEN Absent ELSE WithColumn(v[t], w.column, w.value)
    BY <1>4, <2>1, ApplyRow
  <2>5. /\ tab[t] = Absent \/ tab[t] \in PositionEntry
        /\ v[t] = Absent \/ v[t] \in PositionEntry
    BY DEF Table
  <2> SUFFICES ASSUME ~RowGone(M, t)
               PROVE  /\ Apply(tab, w)[t] = Absent <=> Apply(v, w)[t] = Absent
                      /\ Apply(tab, w)[t] # Absent =>
                           /\ Apply(tab, w)[t].ourNft = Apply(v, w)[t].ourNft
                           /\ \A c \in Column \ ColumnsGone(M, t) :
                                Apply(tab, w)[t].cols[c] = Apply(v, w)[t].cols[c]
    BY DEF RowAgrees
  <2>6. CASE tab[t] = Absent
    BY <1>0, <2>2, <2>4, <2>6 DEF RowAgrees
  <2>7. CASE tab[t] # Absent
    <3>1. v[t] # Absent /\ tab[t].ourNft = v[t].ourNft
      BY <1>0, <2>2, <2>7 DEF RowAgrees
    <3>2. \A c \in Column \ ColumnsGone(M, t) : c # w.column => tab[t].cols[c] = v[t].cols[c]
      BY <1>0, <2>2, <2>3, <2>7 DEF RowAgrees
    <3>3. tab[t] \in PositionEntry /\ v[t] \in PositionEntry
      BY <2>5, <2>7, <3>1
    <3>4. /\ Apply(tab, w)[t] = WithColumn(tab[t], w.column, w.value)
          /\ Apply(v, w)[t] = WithColumn(v[t], w.column, w.value)
      BY <2>4, <2>7, <3>1
    <3>5. Apply(tab, w)[t] # Absent /\ Apply(v, w)[t] # Absent
      BY <3>3, <3>4, <2>1, WithColumnFacts, AbsentAssumption
    <3>6. Apply(tab, w)[t].ourNft = Apply(v, w)[t].ourNft
      BY <3>1, <3>3, <3>4, <2>1, WithColumnFacts
    <3>7. ASSUME NEW c \in Column \ ColumnsGone(M, t)
          PROVE  Apply(tab, w)[t].cols[c] = Apply(v, w)[t].cols[c]
      BY <3>2, <3>3, <3>4, <2>1, WithColumnFacts
    <3> QED BY <3>5, <3>6, <3>7
  <2> QED BY <2>6, <2>7
<1> QED BY <1>1, <1>2, <1>3, <1>4 DEF Write

(* A dropped call, applied to the memory only, leaves them in agreement    *)
(* once it is counted as lost.                                             *)
LEMMA DroppedAgrees ==
  ASSUME NEW tab \in Table, NEW v \in Table, NEW L \in SUBSET Write, NEW w \in Write,
         Agrees(tab, v, L)
  PROVE  Agrees(tab, Apply(v, w), L \cup {w})
<1> SUFFICES ASSUME NEW t \in Targets PROVE RowAgrees(tab, Apply(v, w), L \cup {w}, t)
  BY DEF Agrees
<1>0. RowAgrees(tab, v, L, t)
  BY DEF Agrees
<1>1. RowGone(L, t) => RowGone(L \cup {w}, t)
  BY DEF RowGone
<1>2. ColumnsGone(L, t) \subseteq ColumnsGone(L \cup {w}, t)
  BY DEF ColumnsGone
<1>3. CASE t # w.key
  <2>1. Apply(v, w)[t] = v[t]
    BY <1>3, ApplyRow
  <2> QED BY <1>0, <1>1, <1>2, <2>1 DEF RowAgrees
<1>4. CASE t = w.key /\ w.op # "update"
  <2>1. RowGone(L \cup {w}, t)
    BY <1>4 DEF RowGone
  <2> QED BY <2>1 DEF RowAgrees
<1>5. CASE t = w.key /\ w.op = "update"
  <2>1. w.column \in Column /\ w.value \in Values
    BY <1>5 DEF Write, SetWrite, UpdateWrite, DeleteWrite
  <2>2. w.column \in ColumnsGone(L \cup {w}, t)
    BY <1>5 DEF ColumnsGone
  <2>3. Apply(v, w)[t] = IF v[t] = Absent THEN Absent ELSE WithColumn(v[t], w.column, w.value)
    BY <1>5, ApplyRow
  <2>4. v[t] = Absent \/ v[t] \in PositionEntry
    BY DEF Table
  <2>5. v[t] # Absent =>
          /\ Apply(v, w)[t] # Absent
          /\ Apply(v, w)[t].ourNft = v[t].ourNft
          /\ \A c \in Column : c # w.column => Apply(v, w)[t].cols[c] = v[t].cols[c]
    BY <2>1, <2>3, <2>4, WithColumnFacts, AbsentAssumption
  <2>6. v[t] = Absent => Apply(v, w)[t] = Absent
    BY <2>3
  <2> QED BY <1>0, <1>1, <1>2, <2>2, <2>5, <2>6 DEF RowAgrees
<1> QED BY <1>3, <1>4, <1>5

-----------------------------------------------------------------------------
IndInv == TypeOK /\ ChainReplaysMemory /\ TableIsPastMemory

LEMMA FirstVersion ==
  ASSUME TypeOK, ChainReplaysMemory
  PROVE  /\ versions # <<>> /\ versions[1] \in Table
         /\ chain # <<>> => /\ Head(chain) \in Write /\ Head(chain) = chain[1]
                            /\ versions[2] \in Table
                            /\ versions[2] = Apply(versions[1], Head(chain))
BY DEF TypeOK, ChainReplaysMemory

LEMMA StoreInit == Init => IndInv
<1> SUFFICES ASSUME Init PROVE IndInv
  OBVIOUS
<1>1. map \in Table
  BY DEF Init, Table
<1>2. TypeOK
  BY <1>1, RetryDelaysAssumption, BoundsAssumption DEF Init, TypeOK
<1>3. ChainReplaysMemory
  BY <1>1 DEF Init, ChainReplaysMemory
<1>4. TableIsPastMemory
  BY DEF Init, TableIsPastMemory
<1> QED BY <1>2, <1>3, <1>4 DEF IndInv

(* A mutation whose call does to a table what the mutation does to the map *)
(* keeps the invariant.                                                    *)
LEMMA MutateInv ==
  ASSUME IndInv, NEW w \in Write, NEW newMap \in Table, newMap = Apply(map, w), Mutate(newMap, w)
  PROVE  IndInv'
<1> USE DEF IndInv
<1>1. /\ mutations < MaxMutations /\ mutations' = mutations + 1 /\ map' = newMap
      /\ chain' = Append(chain, w) /\ versions' = Append(versions, newMap)
      /\ attempt' = attempt /\ table' = table /\ lost' = lost /\ failures' = failures
  BY DEF Mutate, push
<1>2. chain \in Seq(Write) /\ versions \in Seq(Table) /\ map \in Table
  BY DEF TypeOK
<1>3. /\ chain' \in Seq(Write) /\ Len(chain') = Len(chain) + 1 /\ chain'[Len(chain) + 1] = w
      /\ \A i \in 1..Len(chain) : chain'[i] = chain[i]
  BY <1>1, <1>2, AppendProperties
<1>4. /\ versions' \in Seq(Table) /\ Len(versions') = Len(versions) + 1
      /\ versions'[Len(versions) + 1] = newMap
      /\ \A i \in 1..Len(versions) : versions'[i] = versions[i]
  BY <1>1, <1>2, AppendProperties
<1>5. TypeOK'
  BY <1>1, <1>3, <1>4, BoundsAssumption DEF TypeOK
<1>6. ChainReplaysMemory'
  <2>1. Len(versions') = Len(chain') + 1 /\ versions'[Len(versions')] = map'
    BY <1>1, <1>2, <1>3, <1>4 DEF ChainReplaysMemory
  <2>2. ASSUME NEW i \in 1..Len(chain') PROVE versions'[i + 1] = Apply(versions'[i], chain'[i])
    <3>1. CASE i \in 1..Len(chain)
      BY <3>1, <1>2, <1>3, <1>4 DEF ChainReplaysMemory
    <3>2. CASE i = Len(chain) + 1
      BY <3>2, <1>2, <1>3, <1>4 DEF ChainReplaysMemory
    <3> QED BY <3>1, <3>2, <1>2, <1>3
  <2> QED BY <2>1, <2>2 DEF ChainReplaysMemory
<1>7. TableIsPastMemory'
  <2>1. versions'[1] = versions[1]
    BY <1>2, <1>4 DEF ChainReplaysMemory
  <2>2. Agrees(table, versions[1], lost)
    BY AgreesIsTableIsPast
  <2>3. Agrees(table', versions'[1], lost')
    BY <2>1, <2>2, <1>1
  <2> QED BY <2>3 DEF TableIsPastMemory, Agrees, RowAgrees, RowGone, ColumnsGone, RowLost, LostColumns
<1> QED BY <1>5, <1>6, <1>7

(* Taking the first call off the chain, with the version before it.        *)
LEMMA ChainAdvances ==
  ASSUME IndInv, chain # <<>>, chain' = Tail(chain), versions' = Tail(versions), map' = map
  PROVE  /\ chain' \in Seq(Write) /\ versions' \in Seq(Table)
         /\ versions'[1] = Apply(versions[1], Head(chain))
         /\ ChainReplaysMemory'
<1> USE DEF IndInv
<1>1. chain \in Seq(Write) /\ versions \in Seq(Table) /\ Len(versions) = Len(chain) + 1
  BY DEF TypeOK, ChainReplaysMemory
<1>2. Len(chain) \in Nat /\ Len(chain) > 0
  BY <1>1, EmptySeq
<1>3. /\ chain' \in Seq(Write) /\ Len(chain') = Len(chain) - 1
      /\ \A i \in 1..Len(chain') : chain'[i] = chain[i + 1]
  BY <1>1, <1>2
<1>4. /\ versions' \in Seq(Table) /\ Len(versions') = Len(versions) - 1
      /\ \A i \in 1..Len(versions') : versions'[i] = versions[i + 1]
  BY <1>1, <1>2
<1>5. versions'[1] = Apply(versions[1], Head(chain))
  BY <1>1, <1>2, <1>4 DEF ChainReplaysMemory
<1>6. Len(versions') = Len(chain') + 1 /\ versions'[Len(versions')] = map'
  BY <1>1, <1>2, <1>3, <1>4 DEF ChainReplaysMemory
<1>7. \A i \in 1..Len(chain') : versions'[i + 1] = Apply(versions'[i], chain'[i])
  BY <1>1, <1>2, <1>3, <1>4 DEF ChainReplaysMemory
<1> QED BY <1>3, <1>4, <1>5, <1>6, <1>7 DEF ChainReplaysMemory

LEMMA AgreesNext ==
  ASSUME Agrees(table', versions'[1], lost')
  PROVE  TableIsPastMemory'
BY DEF TableIsPastMemory, Agrees, RowAgrees, RowGone, ColumnsGone, RowLost, LostColumns

LEMMA SetInv ==
  ASSUME IndInv, NEW t \in Targets, NEW n \in OurNfts,
         NEW pool \in Values \cup {Unset}, NEW dex \in Values \cup {Unset}, set(t, n, pool, dex)
  PROVE  IndInv'
<1> DEFINE cols == [c \in Column |-> IF c = "pool" THEN pool ELSE IF c = "dex" THEN dex ELSE Unset]
           entry == [ourNft |-> n, cols |-> cols]
           w == [op |-> "set", key |-> t, entry |-> entry]
<1>1. cols \in [Column -> Values \cup {Unset}]
  OBVIOUS
<1> HIDE DEF cols
<1>2. entry \in PositionEntry
  BY <1>1 DEF PositionEntry
<1>3. Mutate([map EXCEPT ![t] = entry], w)
  BY DEF set, cols
<1> HIDE DEF entry
<1>4. w \in Write /\ w.op = "set" /\ w.key = t /\ w.entry = entry
  BY <1>2 DEF Write, SetWrite
<1>5. map \in Table
  BY DEF IndInv, TypeOK
<1>6. [map EXCEPT ![t] = entry] \in Table /\ [map EXCEPT ![t] = entry] = Apply(map, w)
  BY <1>2, <1>4, <1>5 DEF Apply, RepoSet, Table
<1> HIDE DEF w
<1> QED BY <1>3, <1>4, <1>6, MutateInv

LEMMA SetColumnInv ==
  ASSUME IndInv, NEW t \in Targets, NEW c \in Column, NEW v \in Values, SetColumn(t, c, v)
  PROVE  IndInv'
<1> DEFINE w == [op |-> "update", key |-> t, column |-> c, value |-> v]
           newMap == [map EXCEPT ![t] = WithColumn(map[t], c, v)]
<1>1. map[t] # Absent /\ Mutate(newMap, w)
  BY DEF SetColumn
<1>2. w \in Write /\ w.op = "update" /\ w.key = t /\ w.column = c /\ w.value = v
  BY DEF Write, UpdateWrite
<1>3. map \in Table /\ map[t] \in PositionEntry
  BY <1>1 DEF IndInv, TypeOK, Table
<1>4. WithColumn(map[t], c, v) \in PositionEntry
  BY <1>3, WithColumnFacts
<1>5. newMap \in Table
  BY <1>3, <1>4 DEF Table
<1>6. newMap = Apply(map, w)
  BY <1>1, <1>2 DEF Apply, RepoUpdate
<1> HIDE DEF w, newMap
<1> QED BY <1>1, <1>2, <1>5, <1>6, MutateInv

LEMMA DeleteInv ==
  ASSUME IndInv, NEW t \in Targets, delete(t)
  PROVE  IndInv'
<1> DEFINE w == [op |-> "delete", key |-> t]
           newMap == [map EXCEPT ![t] = Absent]
<1>1. Mutate(newMap, w)
  BY DEF delete
<1>2. w \in Write /\ w.op = "delete" /\ w.key = t
  BY DEF Write, DeleteWrite
<1>3. newMap \in Table /\ newMap = Apply(map, w)
  BY <1>2 DEF IndInv, TypeOK, Table, Apply, RepoDelete
<1> HIDE DEF w, newMap
<1> QED BY <1>1, <1>2, <1>3, MutateInv

LEMMA WriteSucceedsInv ==
  ASSUME IndInv, writeSucceeds
  PROVE  IndInv'
<1> DEFINE w == Head(chain)
<1>1. /\ chain # <<>> /\ table' = Apply(table, w) /\ lost' = lost \ MadeGood(w)
      /\ chain' = Tail(chain) /\ versions' = Tail(versions) /\ attempt' = 0
      /\ map' = map /\ mutations' = mutations /\ failures' = failures
  BY DEF writeSucceeds
<1>2. /\ chain' \in Seq(Write) /\ versions' \in Seq(Table)
      /\ versions'[1] = Apply(versions[1], w) /\ ChainReplaysMemory'
  BY <1>1, ChainAdvances
<1>3. w \in Write /\ versions[1] \in Table /\ table \in Table /\ lost \in SUBSET Write
  BY <1>1, FirstVersion DEF IndInv, TypeOK
<1>4. TypeOK'
  BY <1>1, <1>2, <1>3, ApplyType, RetryDelaysAssumption DEF IndInv, TypeOK
<1>5. Agrees(table, versions[1], lost)
  BY AgreesIsTableIsPast DEF IndInv
<1>6. /\ lost' \in SUBSET lost
      /\ \A x \in lost \ lost' : /\ x.key = w.key
                                 /\ w.op # "update" \/ (x.op = "update" /\ x.column = w.column)
  BY <1>1 DEF MadeGood
<1> HIDE DEF w
<1>7. Agrees(Apply(table, w), Apply(versions[1], w), lost')
  BY <1>3, <1>5, <1>6, AppliedAgrees
<1>8. TableIsPastMemory'
  BY <1>1, <1>2, <1>7, AgreesNext
<1> QED BY <1>2, <1>4, <1>8 DEF IndInv

LEMMA WriteRetriesInv ==
  ASSUME IndInv, writeRetries
  PROVE  IndInv'
<1> DEFINE w == Head(chain)
<1>1. /\ chain # <<>> /\ failures < MaxFailures /\ failures' = failures + 1
      /\ attempt < RetryDelays /\ attempt' = attempt + 1
      /\ map' = map /\ chain' = chain /\ lost' = lost /\ mutations' = mutations
  BY DEF writeRetries
<1>2. /\ w \in Write /\ w = chain[1] /\ versions[1] \in Table /\ table \in Table
      /\ lost \in SUBSET Write /\ versions[2] \in Table /\ versions[2] = Apply(versions[1], w)
  BY <1>1, FirstVersion DEF IndInv, TypeOK
<1>3. Agrees(table, versions[1], lost)
  BY AgreesIsTableIsPast DEF IndInv
<1>4. attempt' \in 0..RetryDelays /\ failures' \in 0..MaxFailures
  BY <1>1, RetryDelaysAssumption, BoundsAssumption DEF IndInv, TypeOK
<1>5. CASE table' = table /\ versions' = versions
  <2>1. TypeOK' /\ ChainReplaysMemory'
    BY <1>1, <1>4, <1>5 DEF IndInv, TypeOK, ChainReplaysMemory
  <2>2. TableIsPastMemory'
    BY <1>1, <1>3, <1>5, AgreesNext
  <2> QED BY <2>1, <2>2 DEF IndInv
<1>6. CASE table' = Apply(table, w) /\ versions' = [versions EXCEPT ![1] = versions[2]]
  <2>1. /\ versions \in Seq(Table) /\ chain \in Seq(Write)
        /\ Len(versions) = Len(chain) + 1 /\ Len(chain) \in Nat /\ Len(chain) > 0
    BY <1>1, EmptySeq DEF IndInv, TypeOK, ChainReplaysMemory
  <2>2. /\ versions' \in Seq(Table) /\ Len(versions') = Len(versions)
        /\ versions'[1] = versions[2]
        /\ \A i \in 1..Len(versions) : i # 1 => versions'[i] = versions[i]
    BY <1>2, <1>6, <2>1
  <2>3. TypeOK'
    BY <1>1, <1>2, <1>4, <1>6, <2>2, ApplyType DEF IndInv, TypeOK
  <2>4. Apply(versions[2], w) = versions[2]
    BY <1>2, ApplyIdempotent
  <2>5. versions'[Len(versions')] = map'
    BY <1>1, <2>1, <2>2 DEF IndInv, ChainReplaysMemory
  <2>6. ASSUME NEW i \in 1..Len(chain) PROVE versions'[i + 1] = Apply(versions'[i], chain[i])
    <3>1. CASE i = 1
      BY <3>1, <1>2, <2>1, <2>2, <2>4
    <3>2. CASE i # 1
      BY <3>2, <2>1, <2>2 DEF IndInv, ChainReplaysMemory
    <3> QED BY <3>1, <3>2
  <2>7. ChainReplaysMemory'
    BY <1>1, <2>1, <2>2, <2>5, <2>6 DEF ChainReplaysMemory
  <2> HIDE DEF w
  <2>8. Agrees(Apply(table, w), Apply(versions[1], w), lost)
    BY <1>2, <1>3, AppliedAgrees
  <2>9. TableIsPastMemory'
    BY <1>1, <1>2, <1>6, <2>2, <2>8, AgreesNext
  <2> QED BY <2>3, <2>7, <2>9 DEF IndInv
<1> QED BY <1>5, <1>6 DEF writeRetries

LEMMA WriteDroppedInv ==
  ASSUME IndInv, writeDropped
  PROVE  IndInv'
<1> DEFINE w == Head(chain)
<1>1. /\ chain # <<>> /\ failures < MaxFailures /\ failures' = failures + 1 /\ attempt' = 0
      /\ table' \in {table, Apply(table, w)} /\ lost' = lost \cup {w}
      /\ chain' = Tail(chain) /\ versions' = Tail(versions)
      /\ map' = map /\ mutations' = mutations
  BY DEF writeDropped
<1>2. /\ chain' \in Seq(Write) /\ versions' \in Seq(Table)
      /\ versions'[1] = Apply(versions[1], w) /\ ChainReplaysMemory'
  BY <1>1, ChainAdvances
<1>3. w \in Write /\ versions[1] \in Table /\ table \in Table /\ lost \in SUBSET Write
  BY <1>1, FirstVersion DEF IndInv, TypeOK
<1>4. failures' \in 0..MaxFailures /\ attempt' \in 0..RetryDelays
  BY <1>1, RetryDelaysAssumption, BoundsAssumption DEF IndInv, TypeOK
<1>5. table' \in Table
  BY <1>1, <1>3, ApplyType
<1>6. TypeOK'
  BY <1>1, <1>2, <1>3, <1>4, <1>5 DEF IndInv, TypeOK
<1>7. Agrees(table, versions[1], lost)
  BY AgreesIsTableIsPast DEF IndInv
<1> HIDE DEF w
<1>8. CASE table' = table
  <2>1. Agrees(table, Apply(versions[1], w), lost \cup {w})
    BY <1>3, <1>7, DroppedAgrees
  <2> QED BY <1>1, <1>2, <1>6, <1>8, <2>1, AgreesNext DEF IndInv
<1>9. CASE table' = Apply(table, w)
  <2>1. Agrees(Apply(table, w), Apply(versions[1], w), lost)
    BY <1>3, <1>7, AppliedAgrees
  <2>2. Agrees(Apply(table, w), Apply(versions[1], w), lost \cup {w})
    BY <2>1 DEF Agrees, RowAgrees, RowGone, ColumnsGone
  <2> QED BY <1>1, <1>2, <1>6, <1>9, <2>2, AgreesNext DEF IndInv
<1> QED BY <1>1, <1>8, <1>9

LEMMA RestartInv ==
  ASSUME IndInv, restart
  PROVE  IndInv'
<1>1. /\ map' = table /\ chain' = <<>> /\ attempt' = 0 /\ versions' = <<table>> /\ lost' = {}
      /\ table' = table /\ mutations' = mutations /\ failures' = failures
  BY DEF restart
<1>2. table \in Table
  BY DEF IndInv, TypeOK
<1>3. TypeOK'
  BY <1>1, <1>2, RetryDelaysAssumption DEF IndInv, TypeOK
<1>4. ChainReplaysMemory'
  BY <1>1, <1>2 DEF ChainReplaysMemory
<1>5. Agrees(table', versions'[1], lost')
  BY <1>1 DEF Agrees, RowAgrees
<1> QED BY <1>3, <1>4, <1>5, AgreesNext DEF IndInv

LEMMA StoreNext == IndInv /\ [Next]_vars => IndInv'
<1> SUFFICES ASSUME IndInv, [Next]_vars PROVE IndInv'
  OBVIOUS
<1>1. ASSUME NEW t \in Targets, NEW n \in OurNfts, NEW pool \in Values \cup {Unset},
             NEW dex \in Values \cup {Unset}, set(t, n, pool, dex)
      PROVE  IndInv'
  BY <1>1, SetInv
<1>2. ASSUME NEW t \in Targets, NEW v \in Values,
             setDex(t, v) \/ setPool(t, v) \/ setLockedSol(t, v) \/ setTargetLiquidity(t, v)
      PROVE  IndInv'
  BY <1>2, SetColumnInv DEF setDex, setPool, setLockedSol, setTargetLiquidity, Column
<1>3. ASSUME NEW t \in Targets, delete(t) PROVE IndInv'
  BY <1>3, DeleteInv
<1>4. ASSUME NEW n \in OurNfts, deleteByOurNft(n) PROVE IndInv'
  BY <1>4, DeleteInv DEF deleteByOurNft
<1>5. CASE writeSucceeds
  BY <1>5, WriteSucceedsInv
<1>6. CASE writeRetries
  BY <1>6, WriteRetriesInv
<1>7. CASE writeDropped
  BY <1>7, WriteDroppedInv
<1>8. CASE restart
  BY <1>8, RestartInv
<1>9. CASE UNCHANGED vars
  BY <1>9 DEF vars, IndInv, TypeOK, ChainReplaysMemory, TableIsPastMemory, RowLost, LostColumns
<1> QED BY <1>1, <1>2, <1>3, <1>4, <1>5, <1>6, <1>7, <1>8, <1>9 DEF Next

LEMMA StoreInvariant == Spec => []IndInv
BY StoreInit, StoreNext, PTL DEF Spec

(* The types of map, chain and table, for any constants.                   *)
THEOREM StoreTypeCorrect == Spec => []TypeOK
<1>1. IndInv => TypeOK
  BY DEF IndInv
<1> QED BY <1>1, StoreInvariant, PTL

(* Replaying the write chain over its first version gives the map, however *)
(* mutations, retries, drops and restarts interleave.                      *)
THEOREM MemoryIsReplayed == Spec => []ChainReplaysMemory
<1>1. IndInv => ChainReplaysMemory
  BY DEF IndInv
<1> QED BY <1>1, StoreInvariant, PTL

(* What a restart loads is a past state of the map, but for what dropped   *)
(* calls were to write.                                                    *)
THEOREM RestartLoadsPastMemory == Spec => []TableIsPastMemory
<1>1. IndInv => TableIsPastMemory
  BY DEF IndInv
<1> QED BY <1>1, StoreInvariant, PTL
=============================================================================
