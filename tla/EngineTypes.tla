----------------------------- MODULE EngineTypes ----------------------------
(* Type correctness of Engine, and the types of what its operators return. *)
EXTENDS Engine, TLAPS, SequenceTheorems

-----------------------------------------------------------------------------
(* What the operators of Blockchain return.                                *)

\* The elements of a sequence of transactions are transactions.
LEMMA RangeType ==
    ASSUME NEW S, NEW s \in Seq(S) PROVE Range(s) \subseteq S
BY DEF Range

\* Appending to a sequence adds one element to its range.
LEMMA RangeAppend ==
    ASSUME NEW S, NEW s \in Seq(S), NEW e \in S PROVE Range(Append(s, e)) = Range(s) \cup {e}
<1>1. /\ DOMAIN Append(s, e) = 1..(Len(s) + 1) /\ DOMAIN s = 1..Len(s) /\ Len(s) \in Nat
      /\ \A i \in 1..Len(s) : Append(s, e)[i] = s[i]
      /\ Append(s, e)[Len(s) + 1] = e
  OBVIOUS
<1>2. \A x \in Range(Append(s, e)) : x \in Range(s) \cup {e}
  BY <1>1 DEF Range
<1>3. \A x \in Range(s) : x \in Range(Append(s, e))
  BY <1>1 DEF Range
<1>4. e \in Range(Append(s, e))
  BY <1>1 DEF Range
<1> QED BY <1>2, <1>3, <1>4

\* A sequence whose elements are in a set has its range in it.
LEMMA RangeWithin ==
    ASSUME NEW S, NEW s \in Seq(S), NEW T, \A i \in 1..Len(s) : s[i] \in T
    PROVE  Range(s) \subseteq T
<1>1. DOMAIN s = 1..Len(s)
  OBVIOUS
<1> QED BY <1>1 DEF Range

\* The empty sequence has no elements.
LEMMA RangeEmpty == Range(<<>>) = {}
BY DEF Range

\* A function on 1..n is a sequence.
LEMMA FunctionIsSequence ==
    ASSUME NEW S, NEW n \in Nat, NEW f \in [1..n -> S] PROVE f \in Seq(S)
OBVIOUS

\* Genesis is a checkpoint.
LEMMA GenesisType == Genesis \in Checkpoint
BY DEF Genesis, Checkpoint, NoVertices, StateLog

\* A new chain holds the genesis checkpoint.
LEMMA NewChainType == NewChain \in Chain /\ NewChain.checkpoints # <<>>
BY GenesisType DEF NewChain, Chain

\* The hash of a checkpoint is a sequence of bodies.
LEMMA HashType ==
    ASSUME NEW c \in Checkpoint PROVE CheckpointHash(c) \in Seq(Body)
BY DEF CheckpointHash, BodyOf, Checkpoint, Body

\* The latest checkpoint of a chain is a checkpoint.
LEMMA LatestType ==
    ASSUME NEW c \in Chain, c.checkpoints # <<>>
    PROVE  Latest(c) \in Checkpoint /\ Height(c) \in Nat
<1>1. c.checkpoints \in Seq(Checkpoint)
  BY DEF Chain
<1>2. c.checkpoints[Len(c.checkpoints)] \in Checkpoint
  BY <1>1
<1> QED BY <1>2 DEF Latest, Height, Checkpoint

\* Eviction keeps a sequence of checkpoints, and keeps it non-empty.
LEMMA WindowType ==
    ASSUME NEW s \in Seq(Checkpoint), s # <<>>
    PROVE  Window(s) \in Seq(Checkpoint) /\ Window(s) # <<>>
<1>1. CASE Len(s) > MaxRetainedBlocks
  <2>1. Len(s) \in Nat /\ Len(s) >= 3 /\ s[1] \in Checkpoint
    BY <1>1, RetainedAssumption
  <2>2. SubSeq(s, 3, Len(s)) \in Seq(Checkpoint)
    BY <2>1, SubSeqProperties
  <2>3. <<s[1]>> \in Seq(Checkpoint) /\ Len(<<s[1]>>) = 1
    BY <2>1
  <2>4. /\ <<s[1]>> \o SubSeq(s, 3, Len(s)) \in Seq(Checkpoint)
        /\ Len(<<s[1]>> \o SubSeq(s, 3, Len(s))) = 1 + Len(SubSeq(s, 3, Len(s)))
    BY <2>2, <2>3, ConcatProperties
  <2>5. Len(SubSeq(s, 3, Len(s))) \in Nat
    BY <2>2
  <2> QED BY <1>1, <2>4, <2>5, Len(<<>>) = 0 DEF Window
<1>2. CASE ~(Len(s) > MaxRetainedBlocks)
  BY <1>2 DEF Window
<1> QED BY <1>1, <1>2

\* Adding a checkpoint to a chain gives a chain.
LEMMA AddType ==
    ASSUME NEW c \in Chain, NEW k \in Checkpoint
    PROVE  AddCheckpoint(c, k) \in Chain /\ AddCheckpoint(c, k).checkpoints # <<>>
<1>1. c.checkpoints \in Seq(Checkpoint)
  BY DEF Chain
<1>2. Append(c.checkpoints, k) \in Seq(Checkpoint) /\ Append(c.checkpoints, k) # <<>>
  BY <1>1
<1>3. Range(k.transactions) \subseteq Tx
  BY RangeType DEF Checkpoint
<1>4. c.executed \subseteq Tx
  BY DEF Chain
<1> QED BY <1>2, <1>3, <1>4, WindowType DEF AddCheckpoint, Chain

\* Rebuilding the index of a sequence of checkpoints gives a chain.
LEMMA RebuildType ==
    ASSUME NEW s \in Seq(Checkpoint), s # <<>>
    PROVE  RebuildTxHashIndex(s) \in Chain /\ RebuildTxHashIndex(s).checkpoints # <<>>
<1>1. \A i \in DOMAIN s : s[i] \in Checkpoint
  OBVIOUS
<1>2. \A i \in DOMAIN s : Range(s[i].transactions) \subseteq Tx
  BY <1>1, RangeType DEF Checkpoint
<1> QED BY <1>2 DEF RebuildTxHashIndex, Chain

-----------------------------------------------------------------------------
(* Type correctness.                                                       *)

\* The parts of a checkpoint that Prepared puts together have their types.
LEMMA PreparedType ==
    ASSUME MemoryOK, StoreOK, NEW v \in Nat, NEW txs \in Seq(Tx)
    PROVE  Prepared(v, txs) \in Checkpoint
<1>1. Latest(chain) \in Checkpoint /\ Height(chain) \in Nat
  BY LatestType DEF MemoryOK
<1>2. CheckpointHash(Latest(chain)) \in Seq(Body)
  BY <1>1, HashType
<1> DEFINE b == [txs |-> txs, run |-> {t \in Range(txs) : ~Committed(t)}]
<1>3. b \in Block
  BY RangeType DEF Block
<1>4. Append(state, b) \in StateLog
  BY <1>3 DEF StoreOK, StateLog
<1> QED BY <1>1, <1>2, <1>4 DEF Prepared, Checkpoint

\* Dropping the transactions of a checkpoint leaves a checkpoint.
LEMMA StrippedType ==
    ASSUME NEW c \in Checkpoint PROVE Stripped(c) \in Checkpoint
<1>1. <<>> \in Seq(Tx)
  OBVIOUS
<1> QED BY <1>1 DEF Stripped, Checkpoint

\* The records a checkpoint is persisted as have their types.
LEMMA WriteRecordsType ==
    ASSUME RecordsOK, NEW c \in Checkpoint, WriteRecords(c)
    PROVE  RecordsOK'
<1>1. c.sequence \in Nat /\ c.transactions \in Seq(Tx) /\ Range(c.transactions) \subseteq Tx
  BY RangeType DEF Checkpoint
<1>2. Stripped(c) \in Checkpoint
  BY StrippedType
<1> DEFINE newmeta == [q \in DOMAIN meta \cup {c.sequence} |->
                         IF q = c.sequence THEN Stripped(c) ELSE meta[q]]
<1> HIDE DEF newmeta
<1>m. meta' = newmeta
  BY DEF WriteRecords, newmeta
<1>3. DOMAIN meta' \subseteq Nat /\ \A q \in DOMAIN meta' : meta'[q] \in Checkpoint
  BY <1>1, <1>2, <1>m DEF newmeta, RecordsOK
<1>4. CASE NonEmpty(c)
  <2>1. DOMAIN payloads' \subseteq Nat /\ \A q \in DOMAIN payloads' : payloads'[q] \in Seq(Tx)
    BY <1>1, <1>4 DEF WriteRecords, RecordsOK
  <2>2. txIndex' \subseteq Tx /\ watermark' \in [Senders -> Nonces]
    BY <1>1, <1>4 DEF WriteRecords, RecordsOK
  <2> QED BY <1>3, <2>1, <2>2 DEF RecordsOK
<1>5. CASE ~NonEmpty(c)
  BY <1>3, <1>5 DEF WriteRecords, RecordsOK
<1> QED BY <1>4, <1>5

\* A hydrated checkpoint is a checkpoint.
LEMMA HydratedType ==
    ASSUME RecordsOK, NEW c \in Checkpoint PROVE Hydrated(c) \in Checkpoint
BY DEF Hydrated, RecordsOK, Checkpoint

\* What load_blockchain recovers from the records is a non-empty list of checkpoints.
LEMMA RecoveredType ==
    ASSUME RecordsOK, NEW n \in Nat, Recoverable(n)
    PROVE  /\ RecoveredCheckpoints(n) \in Seq(Checkpoint)
           /\ RecoveredCheckpoints(n) # <<>>
<1> DEFINE kept == MinOf(n, MaxRetainedBlocks - 1)
<1>1. kept \in Nat /\ kept <= n
  BY RetainedAssumption DEF MinOf
<1> HIDE DEF kept
<1>2. \A q \in 0..n : Stored(q) \in Checkpoint
  <2> TAKE q \in 0..n
  <2>1. CASE q = 0
    BY <2>1, GenesisType DEF Stored
  <2>2. CASE q # 0
    <3>1. q \in DOMAIN meta
      BY <2>2 DEF Recoverable
    <3>2. meta[q] \in Checkpoint
      BY <3>1 DEF RecordsOK
    <3> QED BY <2>2, <3>2, HydratedType DEF Stored
  <2> QED BY <2>1, <2>2
<1>3. \A i \in 1..(kept + 1) : i # 1 => n - kept + i - 1 \in 0..n
  BY <1>1
<1> DEFINE r == [i \in 1..(kept + 1) |-> IF i = 1 THEN Genesis ELSE Stored(n - kept + i - 1)]
<1>4. \A i \in 1..(kept + 1) : r[i] \in Checkpoint
  BY <1>2, <1>3, GenesisType
<1>5. r \in [1..(kept + 1) -> Checkpoint]
  BY <1>4
<1> HIDE DEF r
<1>6. r \in Seq(Checkpoint) /\ r # <<>>
  BY <1>1, <1>5
<1> QED BY <1>6 DEF RecoveredCheckpoints, kept, r

\* The JSON snapshot is a non-empty list of checkpoints.
LEMMA SlimType ==
    ASSUME NEW c \in Chain, c.checkpoints # <<>>
    PROVE  SlimCheckpoints(c) \in Seq(Checkpoint) \ {<<>>}
<1>1. c.checkpoints \in Seq(Checkpoint)
  BY DEF Chain
<1>2. \A i \in DOMAIN c.checkpoints : Stripped(c.checkpoints[i]) \in Checkpoint
  BY <1>1, StrippedType
<1> QED BY <1>1, <1>2 DEF SlimCheckpoints

\* Hydrating it leaves such a list.
LEMMA HydratedSeqType ==
    ASSUME RecordsOK, NEW s \in Seq(Checkpoint) \ {<<>>}
    PROVE  [i \in DOMAIN s |-> Hydrated(s[i])] \in Seq(Checkpoint) \ {<<>>}
<1>1. \A i \in DOMAIN s : Hydrated(s[i]) \in Checkpoint
  BY HydratedType
<1> QED BY <1>1

\* A finalizer that returns leaves its variables well typed.
LEMMA ReturnType ==
    ASSUME FinalizerOK, Return, UNCHANGED dag PROVE FinalizerOK'
<1>1. cp' \in Checkpoint
  BY GenesisType DEF Return, LocalsGone
<1>2. picked' \in Seq(Tx)
  BY DEF Return, LocalsGone
<1> QED BY <1>1, <1>2 DEF Return, LocalsGone, FinalizerOK

\* So does one that goes on to the next sub-DAG.
LEMMA NextBatchType ==
    ASSUME FinalizerOK, NextBatch, UNCHANGED dag PROVE FinalizerOK'
<1>1. cp' \in Checkpoint
  BY GenesisType DEF NextBatch
<1>2. picked' \in Seq(Tx)
  BY DEF NextBatch
<1> QED BY <1>1, <1>2 DEF NextBatch, FinalizerOK

\* And a process that ends.
LEMMA StopType ==
    ASSUME MemoryOK, EnvironmentOK, NEW st \in {"down", "refused"}, StopProcess(st),
           UNCHANGED dag, mempool' \subseteq mempool,
           subm' = subm \/ subm' = [s \in Submitters |-> NotSubmitting]
    PROVE  MemoryOK' /\ FinalizerOK'
<1>1. FinalizerOK'
  <2>1. cp' \in Checkpoint /\ picked' \in Seq(Tx)
    BY GenesisType DEF StopProcess, LocalsGone
  <2>2. 0 <= Len(dag)
    BY DEF EnvironmentOK
  <2> QED BY <2>1, <2>2 DEF StopProcess, LocalsGone, FinalizerOK
<1>2. chain' \in Chain /\ chain'.checkpoints # <<>>
  BY NewChainType DEF StopProcess
<1>3. subm' \in [Submitters -> [pc : {"idle", "checked"}, txs : SUBSET Tx, executed : SUBSET Tx]]
  BY DEF MemoryOK, NotSubmitting
<1> QED BY <1>1, <1>2, <1>3 DEF StopProcess, MemoryOK

\* Consensus appends a sequence of transactions.
LEMMA DagAppends == ASSUME DagCommit PROVE \E b \in Seq(Tx) : dag' = Append(dag, b)
<1>1. PICK n \in 0..MaxBatch : \E b \in [1..n -> Tx] : dag' = Append(dag, b)
  BY DEF DagCommit
<1>2. PICK b \in [1..n -> Tx] : dag' = Append(dag, b)
  BY <1>1
<1>3. b \in Seq(Tx)
  BY FunctionIsSequence
<1> QED BY <1>2, <1>3

\* The fast path prepares a sequence of transactions.
LEMMA FastSelection ==
    ASSUME MemoryOK, FastSelect PROVE \E sel \in Seq(Tx) : cp' = Prepared(NoVertices, sel)
<1>1. PICK n \in 1..MaxBatch :
        \E sel \in [1..n -> mempool \cap Owned] : IsInjective(sel) /\ cp' = Prepared(NoVertices, sel)
  BY DEF FastSelect
<1>2. PICK sel \in [1..n -> mempool \cap Owned] : cp' = Prepared(NoVertices, sel)
  BY <1>1
<1>3. sel \in [1..n -> Tx]
  BY DEF MemoryOK
<1>4. sel \in Seq(Tx)
  BY <1>3, FunctionIsSequence
<1> QED BY <1>2, <1>4

\* Every step keeps the types.
LEMMA TypeStep == TypeOK /\ [Next]_vars => TypeOK'
<1> SUFFICES ASSUME MemoryOK, FinalizerOK, RecordsOK, StoreOK, EnvironmentOK, [Next]_vars
             PROVE  TypeOK'
  BY DEF TypeOK
<1> USE DEF memory, finalizer, records, snapshot, consensus, bounds
<1>h. Latest(chain) \in Checkpoint /\ Height(chain) \in Nat
  BY LatestType DEF MemoryOK
<1>1. ASSUME NEW s \in Submitters, NEW txs \in SUBSET Tx, SubmitCheck(s, txs) PROVE TypeOK'
  <2>1. FinalizerOK' /\ RecordsOK' /\ StoreOK' /\ EnvironmentOK'
    BY <1>1 DEF SubmitCheck, FinalizerOK, RecordsOK, StoreOK, EnvironmentOK
  <2>2. MemoryOK'
    BY <1>1 DEF SubmitCheck, MemoryOK
  <2> QED BY <2>1, <2>2 DEF TypeOK
<1>2. ASSUME NEW s \in Submitters, SubmitAdmit(s) PROVE TypeOK'
  <2>1. FinalizerOK' /\ RecordsOK' /\ StoreOK' /\ EnvironmentOK'
    BY <1>2 DEF SubmitAdmit, FinalizerOK, RecordsOK, StoreOK, EnvironmentOK
  <2>2. MemoryOK'
    BY <1>2 DEF SubmitAdmit, NotSubmitting, MemoryOK
  <2> QED BY <2>1, <2>2 DEF TypeOK
<1>3. CASE DagCommit
  <2>1. \E b \in Seq(Tx) : dag' = Append(dag, b)
    BY <1>3, DagAppends
  <2>2. MemoryOK' /\ RecordsOK' /\ StoreOK'
    BY <1>3 DEF DagCommit, MemoryOK, RecordsOK, StoreOK
  <2>3. FinalizerOK'
    BY <1>3, <2>1 DEF DagCommit, EnvironmentOK, FinalizerOK
  <2>4. EnvironmentOK'
    BY <1>3, <2>1 DEF DagCommit, EnvironmentOK
  <2> QED BY <2>2, <2>3, <2>4 DEF TypeOK
<1>4. CASE FastSelect
  <2>1. \E sel \in Seq(Tx) : cp' = Prepared(NoVertices, sel)
    BY <1>4, FastSelection
  <2>2. cp' \in Checkpoint
    BY <1>4, <2>1, PreparedType DEF FastSelect, NoVertices
  <2>3. MemoryOK' /\ RecordsOK' /\ StoreOK' /\ EnvironmentOK'
    BY <1>4 DEF FastSelect, MemoryOK, RecordsOK, StoreOK, EnvironmentOK
  <2>4. FinalizerOK'
    BY <1>4, <2>1, <2>2 DEF FastSelect, FinalizerOK
  <2> QED BY <2>3, <2>4 DEF TypeOK
<1>5. ASSUME NEW caller \in {"producer", "network"}, FinalizeReady(caller) PROVE TypeOK'
  <2>1. MemoryOK' /\ RecordsOK' /\ StoreOK' /\ EnvironmentOK'
    BY <1>5 DEF FinalizeReady, MemoryOK, RecordsOK, StoreOK, EnvironmentOK
  <2>2. FinalizerOK'
    BY <1>5 DEF FinalizeReady, PendingList, EnvironmentOK, FinalizerOK
  <2> QED BY <2>1, <2>2 DEF TypeOK
<1>6. CASE SkipExisting
  <2>1. MemoryOK' /\ RecordsOK' /\ StoreOK' /\ EnvironmentOK'
    BY <1>6 DEF SkipExisting, MemoryOK, RecordsOK, StoreOK, EnvironmentOK
  <2>2. FinalizerOK'
    BY <1>6, NextBatchType DEF SkipExisting, FinalizerOK
  <2> QED BY <2>1, <2>2 DEF TypeOK
<1>7. CASE FilterTx
  <2>1. dag[cur] \in Seq(Tx)
    BY <1>7 DEF FilterTx, InDag, FinalizerOK, EnvironmentOK
  <2>2. dag[cur][scan + 1] \in Tx
    BY <1>7, <2>1 DEF FilterTx, FinalizerOK
  <2>3. picked' \in Seq(Tx)
    BY <1>7, <2>2 DEF FilterTx, FinalizerOK
  <2>4. MemoryOK' /\ RecordsOK' /\ StoreOK' /\ EnvironmentOK'
    BY <1>7 DEF FilterTx, MemoryOK, RecordsOK, StoreOK, EnvironmentOK
  <2>5. FinalizerOK'
    <3>1. scan' = scan + 1 /\ UNCHANGED <<pc, mode, cur, pendingTo, cp, cursor, dag>>
      BY <1>7 DEF FilterTx
    <3> QED BY <2>3, <3>1 DEF FinalizerOK
  <2> QED BY <2>4, <2>5 DEF TypeOK
<1>8. CASE SkipEmpty
  <2>1. MemoryOK' /\ RecordsOK' /\ StoreOK' /\ EnvironmentOK'
    BY <1>8 DEF SkipEmpty, MemoryOK, RecordsOK, StoreOK, EnvironmentOK
  <2>2. FinalizerOK'
    BY <1>8, NextBatchType DEF SkipEmpty, FinalizerOK
  <2> QED BY <2>1, <2>2 DEF TypeOK
<1>9. CASE Prepare
  <2>1. cp' \in Checkpoint
    BY <1>9, PreparedType DEF Prepare, FinalizerOK
  <2>2. MemoryOK' /\ RecordsOK' /\ StoreOK' /\ EnvironmentOK'
    BY <1>9 DEF Prepare, MemoryOK, RecordsOK, StoreOK, EnvironmentOK
  <2>3. FinalizerOK'
    BY <1>9, <2>1 DEF Prepare, FinalizerOK
  <2> QED BY <2>2, <2>3 DEF TypeOK
<1>10. CASE Acknowledge
  <2>1. MemoryOK' /\ RecordsOK' /\ StoreOK'
    BY <1>10 DEF Acknowledge, MemoryOK, RecordsOK, StoreOK
  <2>2. FinalizerOK'
    BY <1>10, ReturnType DEF Acknowledge, FinalizerOK
  <2>3. EnvironmentOK'
    BY <1>10 DEF Acknowledge, FinalizerOK, EnvironmentOK
  <2> QED BY <2>1, <2>2, <2>3 DEF TypeOK
<1>11. CASE CommitState
  <2>1. MemoryOK' /\ EnvironmentOK'
    BY <1>11 DEF CommitState, MemoryOK, EnvironmentOK
  <2>2. FinalizerOK'
    BY <1>11 DEF CommitState, FinalizerOK
  <2>3. RecordsOK'
    BY <1>11, WriteRecordsType DEF CommitState, FinalizerOK, RecordsOK
  <2>4. StoreOK'
    <3>1. persistedThrough' \in Int
      BY <1>11 DEF CommitState, FinalizerOK, Checkpoint, StoreOK
    <3> QED BY <1>11, <3>1 DEF CommitState, FinalizerOK, Checkpoint, StoreOK
  <2> QED BY <2>1, <2>2, <2>3, <2>4 DEF TypeOK
<1>12. CASE AddToChain
  <2>1. chain' \in Chain /\ chain'.checkpoints # <<>>
    BY <1>12, AddType DEF AddToChain, MemoryOK, FinalizerOK
  <2>2. Height(chain') \in Nat
    BY <1>12, <2>1, LatestType DEF AddToChain
  <2>3. RecordsOK' /\ StoreOK' /\ EnvironmentOK'
    BY <1>12 DEF AddToChain, RecordsOK, StoreOK, EnvironmentOK
  <2>4. MemoryOK'
    BY <1>12, <2>1, <2>2 DEF AddToChain, MemoryOK
  <2>5. FinalizerOK'
    <3>1. PersistFrom(chain') \in Int
      BY <2>2 DEF PersistFrom, MinOf, StoreOK
    <3> QED BY <1>12, <3>1 DEF AddToChain, FinalizerOK
  <2> QED BY <2>3, <2>4, <2>5 DEF TypeOK
<1>13. CASE AddRejected
  <2>1. MemoryOK' /\ RecordsOK' /\ StoreOK' /\ EnvironmentOK'
    BY <1>13 DEF AddRejected, MemoryOK, RecordsOK, StoreOK, EnvironmentOK
  <2>2. FinalizerOK'
    BY <1>13, ReturnType DEF AddRejected, FinalizerOK
  <2> QED BY <2>1, <2>2 DEF TypeOK
<1>14. CASE Drain
  <2>1. RecordsOK' /\ StoreOK' /\ EnvironmentOK'
    BY <1>14 DEF Drain, RecordsOK, StoreOK, EnvironmentOK
  <2>2. MemoryOK'
    BY <1>14 DEF Drain, MemoryOK
  <2>3. FinalizerOK'
    BY <1>14 DEF Drain, FinalizerOK
  <2> QED BY <2>1, <2>2, <2>3 DEF TypeOK
<1>15. CASE ClearMarker
  <2>1. MemoryOK' /\ RecordsOK' /\ EnvironmentOK'
    BY <1>15 DEF ClearMarker, MemoryOK, RecordsOK, EnvironmentOK
  <2>2. FinalizerOK'
    BY <1>15, ReturnType, NextBatchType DEF ClearMarker, FinalizerOK
  <2>3. StoreOK'
    BY <1>15 DEF ClearMarker, StoreOK
  <2> QED BY <2>1, <2>2, <2>3 DEF TypeOK
<1>16. CASE PersistOne
  <2>1. \E c \in Checkpoint : WriteRecords(c) /\ cursor' = c.sequence
    BY <1>16 DEF PersistOne, Unpersisted, MemoryOK, Chain
  <2>2. MemoryOK' /\ StoreOK' /\ EnvironmentOK'
    BY <1>16 DEF PersistOne, MemoryOK, StoreOK, EnvironmentOK
  <2>3. FinalizerOK'
    <3>1. cursor' \in Int
      BY <2>1 DEF Checkpoint
    <3> QED BY <1>16, <3>1 DEF PersistOne, FinalizerOK
  <2>4. RecordsOK'
    BY <1>16, <2>1, WriteRecordsType DEF PersistOne, RecordsOK
  <2> QED BY <2>2, <2>3, <2>4 DEF TypeOK
<1>17. CASE PersistThrough
  <2>1. MemoryOK' /\ RecordsOK' /\ EnvironmentOK'
    BY <1>17 DEF PersistThrough, MemoryOK, RecordsOK, EnvironmentOK
  <2>2. FinalizerOK'
    BY <1>17 DEF PersistThrough, FinalizerOK
  <2>3. StoreOK'
    BY <1>17, <1>h DEF PersistThrough, StoreOK
  <2> QED BY <2>1, <2>2, <2>3 DEF TypeOK
<1>18. CASE PersistJson
  <2>1. SlimCheckpoints(chain) \in Seq(Checkpoint) \ {<<>>}
    BY <1>18, SlimType DEF PersistJson, MemoryOK
  <2>2. MemoryOK' /\ RecordsOK' /\ EnvironmentOK'
    BY <1>18 DEF PersistJson, MemoryOK, RecordsOK, EnvironmentOK
  <2>3. FinalizerOK'
    BY <1>18, <2>1 DEF PersistJson, AfterPersist, StoreOK, FinalizerOK
  <2>4. StoreOK'
    BY <1>18, <2>1 DEF PersistJson, StoreOK
  <2> QED BY <2>2, <2>3, <2>4 DEF TypeOK
<1>19. CASE PruneOne
  <2>1. MemoryOK' /\ StoreOK' /\ EnvironmentOK'
    BY <1>19 DEF PruneOne, MemoryOK, StoreOK, EnvironmentOK
  <2>2. FinalizerOK'
    BY <1>19 DEF PruneOne, FinalizerOK
  <2>3. RecordsOK'
    BY <1>19 DEF PruneOne, RecordsOK
  <2> QED BY <2>1, <2>2, <2>3 DEF TypeOK
<1>20. CASE PruneThrough
  <2>1. MemoryOK' /\ RecordsOK' /\ EnvironmentOK'
    BY <1>20 DEF PruneThrough, MemoryOK, RecordsOK, EnvironmentOK
  <2>2. FinalizerOK'
    BY <1>20 DEF PruneThrough, AfterPersist, FinalizerOK
  <2>3. StoreOK'
    <3>1. PruneLimit \in Int
      BY <1>h, EngineAssumption DEF PruneLimit
    <3> QED BY <1>20, <3>1 DEF PruneThrough, StoreOK
  <2> QED BY <2>1, <2>2, <2>3 DEF TypeOK
<1>21. CASE LoadJson
  <2>1. \E c \in Seq(Checkpoint) \ {<<>>} : chain' = RebuildTxHashIndex(c)
    BY <1>21, HydratedSeqType DEF LoadJson, StoreOK
  <2>2. chain' \in Chain /\ chain'.checkpoints # <<>>
    BY <1>21, <2>1, RebuildType DEF LoadJson
  <2>3. RecordsOK' /\ StoreOK' /\ EnvironmentOK'
    BY <1>21 DEF LoadJson, Boot, RecordsOK, StoreOK, EnvironmentOK
  <2>4. MemoryOK'
    BY <1>21, <2>1, <2>2 DEF LoadJson, Boot, MemoryOK
  <2>5. FinalizerOK'
    BY <1>21, <2>1, <2>2 DEF LoadJson, Boot, FinalizerOK
  <2> QED BY <2>3, <2>4, <2>5 DEF TypeOK
<1>22. CASE LoadRecords
  <2>1. chain' \in Chain /\ chain'.checkpoints # <<>>
    BY <1>22, RecoveredType, RebuildType DEF LoadRecords, RecordsOK
  <2>2. Height(chain') \in Nat
    BY <1>22, <2>1, LatestType DEF LoadRecords
  <2>3. RecordsOK' /\ StoreOK' /\ EnvironmentOK'
    BY <1>22 DEF LoadRecords, Boot, RecordsOK, StoreOK, EnvironmentOK
  <2>4. MemoryOK'
    BY <1>22, <2>1, <2>2 DEF LoadRecords, Boot, MemoryOK
  <2>5. FinalizerOK'
    <3>1. PersistFrom(chain') \in Int
      BY <2>2 DEF PersistFrom, MinOf, StoreOK
    <3> QED BY <1>22, <3>1 DEF LoadRecords, Boot, FinalizerOK
  <2> QED BY <2>3, <2>4, <2>5 DEF TypeOK
<1>23. CASE LoadFreshGenesis
  <2>1. RecordsOK' /\ StoreOK' /\ EnvironmentOK'
    BY <1>23 DEF LoadFreshGenesis, Boot, RecordsOK, StoreOK, EnvironmentOK
  <2>2. MemoryOK'
    BY <1>23, NewChainType DEF LoadFreshGenesis, Boot, MemoryOK
  <2>3. FinalizerOK'
    BY <1>23 DEF LoadFreshGenesis, Boot, FinalizerOK
  <2> QED BY <2>1, <2>2, <2>3 DEF TypeOK
<1>24. CASE LoadRefused
  <2>1. RecordsOK' /\ StoreOK' /\ EnvironmentOK'
    BY <1>24 DEF LoadRefused, RecordsOK, StoreOK, EnvironmentOK
  <2>2. MemoryOK' /\ FinalizerOK'
    BY <1>24, StopType DEF LoadRefused
  <2> QED BY <2>1, <2>2 DEF TypeOK
<1>25. CASE RecoverMarker
  <2>1. chain' \in Chain /\ chain'.checkpoints # <<>>
    BY <1>25, AddType DEF RecoverMarker, MemoryOK, StoreOK
  <2>2. Height(chain') \in Nat
    BY <1>25, <2>1, LatestType DEF RecoverMarker
  <2>3. RecordsOK' /\ StoreOK' /\ EnvironmentOK'
    BY <1>25 DEF RecoverMarker, RecordsOK, StoreOK, EnvironmentOK
  <2>4. MemoryOK'
    BY <1>25, <2>1, <2>2 DEF RecoverMarker, MemoryOK
  <2>5. FinalizerOK'
    <3>1. PersistFrom(chain') \in Int
      BY <2>2 DEF PersistFrom, MinOf, StoreOK
    <3> QED BY <1>25, <3>1 DEF RecoverMarker, FinalizerOK
  <2> QED BY <2>3, <2>4, <2>5 DEF TypeOK
<1>26. CASE MarkerRefused
  <2>1. RecordsOK' /\ StoreOK' /\ EnvironmentOK'
    BY <1>26 DEF MarkerRefused, RecordsOK, StoreOK, EnvironmentOK
  <2>2. MemoryOK' /\ FinalizerOK'
    BY <1>26, StopType DEF MarkerRefused
  <2> QED BY <2>1, <2>2 DEF TypeOK
<1>27. CASE ClearRecovered
  <2>1. MemoryOK' /\ RecordsOK' /\ EnvironmentOK'
    BY <1>27 DEF ClearRecovered, MemoryOK, RecordsOK, EnvironmentOK
  <2>2. FinalizerOK'
    BY <1>27 DEF ClearRecovered, FinalizerOK
  <2>3. StoreOK'
    BY <1>27 DEF ClearRecovered, StoreOK
  <2> QED BY <2>1, <2>2, <2>3 DEF TypeOK
<1>28. CASE BootDone
  <2>1. RecordsOK' /\ StoreOK' /\ EnvironmentOK'
    BY <1>28 DEF BootDone, RecordsOK, StoreOK, EnvironmentOK
  <2>2. MemoryOK'
    BY <1>28 DEF BootDone, MemoryOK
  <2>3. FinalizerOK'
    BY <1>28, ReturnType DEF BootDone, FinalizerOK
  <2> QED BY <2>1, <2>2, <2>3 DEF TypeOK
<1>29. CASE PrepareFails
  <2>1. RecordsOK' /\ StoreOK'
    BY <1>29 DEF PrepareFails, RecordsOK, StoreOK
  <2>2. MemoryOK'
    BY <1>29 DEF PrepareFails, DropInvalid, MemoryOK
  <2>3. FinalizerOK'
    BY <1>29, ReturnType DEF PrepareFails, FinalizerOK
  <2>4. EnvironmentOK'
    BY <1>29 DEF PrepareFails, EnvironmentOK
  <2> QED BY <2>1, <2>2, <2>3, <2>4 DEF TypeOK
<1>30. CASE CommitFails
  <2>1. MemoryOK' /\ RecordsOK' /\ StoreOK'
    BY <1>30 DEF CommitFails, MemoryOK, RecordsOK, StoreOK
  <2>2. FinalizerOK'
    BY <1>30, ReturnType DEF CommitFails, FinalizerOK
  <2>3. EnvironmentOK'
    BY <1>30 DEF CommitFails, EnvironmentOK
  <2> QED BY <2>1, <2>2, <2>3 DEF TypeOK
<1>31. CASE PersistFails
  <2>1. RecordsOK' /\ StoreOK'
    BY <1>31 DEF PersistFails, RecordsOK, StoreOK
  <2>2. EnvironmentOK'
    BY <1>31 DEF PersistFails, EnvironmentOK
  <2>3. CASE StopProcess("down")
    BY <1>31, <2>1, <2>2, <2>3, StopType DEF PersistFails, TypeOK
  <2>4. CASE UNCHANGED <<status, chain>> /\ Return
    BY <1>31, <2>1, <2>2, <2>4, ReturnType DEF PersistFails, MemoryOK, TypeOK
  <2>5. CASE UNCHANGED <<status, chain, mode, cur, pendingTo, scan, picked, cp, cursor>> /\ pc' = "marker"
    BY <1>31, <2>1, <2>2, <2>5 DEF PersistFails, MemoryOK, FinalizerOK, TypeOK
  <2> QED BY <1>31, <2>3, <2>4, <2>5 DEF PersistFails
<1>32. CASE ClearFails
  <2>1. RecordsOK' /\ StoreOK'
    BY <1>32 DEF ClearFails, RecordsOK, StoreOK
  <2>2. EnvironmentOK'
    BY <1>32 DEF ClearFails, EnvironmentOK
  <2>3. CASE StopProcess("down")
    BY <1>32, <2>1, <2>2, <2>3, StopType DEF ClearFails, TypeOK
  <2>4. CASE UNCHANGED <<status, chain>> /\ Return
    BY <1>32, <2>1, <2>2, <2>4, ReturnType DEF ClearFails, MemoryOK, TypeOK
  <2> QED BY <1>32, <2>3, <2>4 DEF ClearFails
<1>33. CASE Crash
  <2>1. RecordsOK' /\ StoreOK'
    BY <1>33 DEF Crash, RecordsOK, StoreOK
  <2>2. EnvironmentOK'
    BY <1>33 DEF Crash, EnvironmentOK
  <2>3. MemoryOK' /\ FinalizerOK'
    BY <1>33, StopType DEF Crash, MemoryOK
  <2> QED BY <2>1, <2>2, <2>3 DEF TypeOK
<1>34. CASE FastFails
  <2>1. RecordsOK' /\ StoreOK' /\ EnvironmentOK'
    BY <1>34 DEF FastFails, RecordsOK, StoreOK, EnvironmentOK
  <2>2. MemoryOK'
    BY <1>34 DEF FastFails, DropInvalid, MemoryOK
  <2>3. FinalizerOK'
    BY <1>34 DEF FastFails, FinalizerOK
  <2> QED BY <2>1, <2>2, <2>3 DEF TypeOK
<1>35. CASE UNCHANGED vars
  BY <1>35 DEF vars, MemoryOK, FinalizerOK, RecordsOK, StoreOK, EnvironmentOK, TypeOK
<1> QED
  BY <1>1, <1>2, <1>3, <1>4, <1>5, <1>6, <1>7, <1>8, <1>9, <1>10, <1>11, <1>12, <1>13, <1>14, <1>15, <1>16, <1>17, <1>18, <1>19, <1>20, <1>21, <1>22, <1>23, <1>24, <1>25, <1>26, <1>27, <1>28, <1>29, <1>30, <1>31, <1>32, <1>33, <1>34, <1>35
  DEF Next, Submit, Finalize, Persist, Start, Fail

\* The engine starts well typed.
LEMMA TypeInit == Init => TypeOK
<1> SUFFICES ASSUME Init PROVE TypeOK
  OBVIOUS
<1>1. MemoryOK
  BY NewChainType DEF Init, MemoryOK, NotSubmitting
<1>2. FinalizerOK
  BY GenesisType DEF Init, FinalizerOK
<1>3. RecordsOK
  BY DEF Init, RecordsOK, Nonces
<1>4. StoreOK /\ EnvironmentOK
  BY DEF Init, StoreOK, EnvironmentOK, StateLog
<1> QED BY <1>1, <1>2, <1>3, <1>4 DEF TypeOK

\* The engine is well typed for ever, and the finalizer never reads past the list of
\* sub-DAGs, whatever the sizes, the configuration and the failures.
THEOREM TypeCorrect == Spec => []TypeOK
BY TypeInit, TypeStep, PTL DEF Spec
=============================================================================
