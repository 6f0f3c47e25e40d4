----------------------------- MODULE InlineProofs ---------------------------
(***************************************************************************)
(* The invariant of InlineHistory is inductive; what follows from it for a *)
(* node that writes the records with the state.                            *)
(***************************************************************************)
EXTENDS InlineHistory

-----------------------------------------------------------------------------
(* The other steps leave the store's history alone.                        *)

\* What is said of the state and the records only stays true.
LEMMA HistoryKept ==
    ASSUME UNCHANGED <<state, records>>
    PROVE  /\ Executed' = Executed
           /\ \A q : Stored(q)' = Stored(q)
           /\ Stored(Len(state))' = Stored(Len(state))
           /\ \A q : RecoveredCheckpoints(q)' = RecoveredCheckpoints(q)
           /\ History => History'
           /\ Blocks => Blocks'
           /\ Watermarks => Watermarks'
<1> USE DEF records
<1>1. Executed' = Executed
  BY DEF Executed
<1>2. \A q : Stored(q)' = Stored(q)
  BY DEF Stored, Hydrated
<1>3. Stored(Len(state))' = Stored(Len(state))
  BY DEF Stored, Hydrated
<1>4. \A q : RecoveredCheckpoints(q)' = RecoveredCheckpoints(q)
  BY DEF RecoveredCheckpoints, Stored, Hydrated
<1>5. History => History'
  <2> SUFFICES ASSUME History PROVE History'
    OBVIOUS
  <2>1. ASSUME NEW q \in 1..Len(state) PROVE Stored(q)'.prev = CheckpointHash(Stored(q - 1)')
    <3>1. Stored(q)' = Stored(q) /\ Stored(q - 1)' = Stored(q - 1)
      BY <1>2
    <3> QED BY <3>1 DEF History
  <2> QED BY <2>1 DEF History, CheckpointHash, BodyOf
<1>6. Blocks => Blocks'
  BY DEF Blocks, ExactlyOnce
<1>7. Watermarks => Watermarks'
  BY <1>1 DEF Watermarks
<1> QED BY <1>1, <1>2, <1>3, <1>4, <1>5, <1>6, <1>7

\* The control stays where this configuration allows it.
LEMMA ControlStep ==
    ASSUME InlineMetadata, TypeOK, InlineInv, [Next]_vars, ~CommitState PROVE Control'
<1> USE DEF memory, finalizer, records, snapshot, consensus, bounds
<1>1. Control
  BY DEF InlineInv
<1>2. ~PersistOne /\ ~PruneOne /\ ~PruneThrough /\ ~LoadJson /\ ~LoadRefused /\ ~MarkerRefused
      /\ ~AddRejected
  BY NeverHappens
<1>3. CASE Submit \/ DagCommit \/ FastSelect \/ UNCHANGED vars
  BY <1>1, <1>3 DEF Submit, SubmitCheck, SubmitAdmit, DagCommit, FastSelect, Idle, Control, vars
<1>4. CASE Finalize
  <2>1. CASE \E caller \in {"producer", "network"} : FinalizeReady(caller)
    BY <1>1, <2>1 DEF FinalizeReady, Control, Idle
  <2>2. CASE SkipExisting \/ FilterTx \/ SkipEmpty \/ Prepare
    BY <1>1, <2>2 DEF SkipExisting, FilterTx, SkipEmpty, Prepare, NextBatch, Control, InDag, Scanned
  <2>3. CASE Acknowledge \/ AddToChain \/ Drain
    BY <1>1, <2>3 DEF Acknowledge, AddToChain, Drain, Return, LocalsGone, Control, InDag,
       InlineMetadata
  <2>4. CASE ClearMarker
    <3>1. mode # "fast" => mode \in {"producer", "network"}
      BY <1>1, <2>4 DEF ClearMarker, Control
    <3> QED BY <1>1, <2>4, <3>1 DEF ClearMarker, Return, LocalsGone, NextBatch, Control
  <2> QED BY <1>2, <1>4, <2>1, <2>2, <2>3, <2>4 DEF Finalize
<1>5. CASE Persist
  BY <1>1, <1>2, <1>5 DEF Persist, PersistThrough, PersistJson, AfterPersist, Running,
     Control, InlineMetadata
<1>6. CASE Start
  BY <1>1, <1>2, <1>6 DEF Start, Boot, LoadRecords, LoadFreshGenesis, RecoverMarker,
     ClearRecovered, BootDone, AtMarker, Return, LocalsGone, Control
<1>7. CASE Fail \/ Crash
  BY <1>1, <1>7 DEF Fail, PrepareFails, FastFails, CommitFails, PersistFails, ClearFails, Crash,
     StopProcess, Return, LocalsGone, Running, Idle, Scanned, InDag, Control
<1> QED BY <1>3, <1>4, <1>5, <1>6, <1>7 DEF Next

\* A restart from the records loads the whole history.
LEMMA LoadIs ==
    ASSUME InlineMetadata, TypeOK, InlineInv, LoadRecords
    PROVE  /\ Len(state) > 0 /\ cursor' = Len(state)
           /\ chain' = RebuildTxHashIndex(RecoveredCheckpoints(Len(state)))
<1>1. PICK n \in DOMAIN meta \cup {0} :
        Recoverable(n) /\ chain' = RebuildTxHashIndex(RecoveredCheckpoints(n))
  BY DEF LoadRecords
<1>2. n \in Nat /\ Len(state) \in Nat /\ History /\ Blocks /\ Durable
  BY StateLen DEF TypeOK, RecordsOK, InlineInv
<1>3. n = Len(state) /\ n # 0
  BY <1>1, <1>2, RecoverableIs
<1>4. Height(chain') = n
  <2>1. chain'.checkpoints = RecoveredCheckpoints(n)
    BY <1>1 DEF RebuildTxHashIndex
  <2>2. n \in 0..Len(state)
    BY <1>2, <1>3
  <2>3. Latest(chain') = Stored(n)
    BY <1>2, <2>1, <2>2, RecoveredIs DEF Latest
  <2> QED BY <1>2, <2>2, <2>3, StoredSequence DEF Height
<1>5. cursor' = n
  <2>1. persistedThrough = n
    BY <1>2, <1>3 DEF Durable
  <2> QED BY <1>2, <1>4, <2>1 DEF LoadRecords, PersistFrom, MinOf
<1> QED BY <1>1, <1>2, <1>3, <1>5

\* The genesis chain is only loaded when nothing was ever committed.
LEMMA FreshIs ==
    ASSUME TypeOK, InlineInv, LoadFreshGenesis
    PROVE  /\ Len(state) = 0 /\ Executed = {}
           /\ NewChain.checkpoints = RecoveredCheckpoints(Len(state))
<1>1. \A n \in DOMAIN meta \cup {0} : ~Recoverable(n)
  BY DEF LoadFreshGenesis, NothingToLoad
<1>2. Len(state) \in Nat /\ History /\ Blocks /\ DOMAIN state = 1..Len(state)
  BY StateLen DEF InlineInv
<1>3. Len(state) = 0
  <2> SUFFICES ASSUME Len(state) # 0 PROVE FALSE
    OBVIOUS
  <2>1. Len(state) \in DOMAIN meta
    BY <1>2 DEF History
  <2> QED BY <1>1, <1>2, <2>1, RecoverableIs, Zenon
<1>4. Executed = {}
  BY <1>2, <1>3 DEF Executed
<1>5. RecoveredCheckpoints(0) = <<Genesis>>
  <2>1. MinOf(0, MaxRetainedBlocks - 1) = 0
    BY RetainedAssumption DEF MinOf
  <2>2. RecoveredCheckpoints(0) = [i \in 1..1 |-> Genesis]
    BY <2>1 DEF RecoveredCheckpoints
  <2> QED BY <2>2
<1> QED BY <1>3, <1>4, <1>5 DEF NewChain

\* The marker stays the last record, and nothing has to be persisted again.
LEMMA DurableStep ==
    ASSUME InlineMetadata, TypeOK, InlineInv, [Next]_vars, ~CommitState PROVE Durable'
<1> USE DEF memory, finalizer, records, snapshot, consensus, bounds
<1>1. Durable /\ Control /\ History /\ InMemory
  BY DEF InlineInv
<1>2. ~PersistOne /\ ~PruneOne /\ ~PruneThrough /\ ~LoadJson /\ ~LoadRefused /\ ~MarkerRefused
      /\ ~AddRejected /\ (RecoverMarker => UNCHANGED chain)
  BY NeverHappens
<1>3. /\ Len(state) \in Nat /\ Len(state)' = Len(state)
      /\ Stored(Len(state))' = Stored(Len(state)) /\ UNCHANGED state
  BY StateLen, OnlyCommitWrites, HistoryKept
<1>4. ASSUME marker' \subseteq marker, UNCHANGED persistedThrough,
             pc' # "persist" \/ UNCHANGED <<pc, cursor>>
      PROVE  Durable'
  BY <1>1, <1>3, <1>4 DEF Durable
<1>5. CASE PersistThrough
  <2>1. persistedThrough' = Len(state) /\ pc' # "persist" /\ UNCHANGED marker
    BY <1>1, <1>5, ChainIs DEF PersistThrough, Running
  <2> QED BY <1>1, <1>3, <2>1 DEF Durable
<1>6. CASE LoadRecords
  <2>1. Len(state) > 0 /\ cursor' = Len(state) /\ UNCHANGED <<marker, persistedThrough>>
    BY <1>6, LoadIs DEF LoadRecords, Boot
  <2> QED BY <1>1, <1>3, <2>1 DEF Durable
<1>7. CASE RecoverMarker
  <2>1. status \in {"up", "boot"} /\ pc # "add" /\ Len(state) > 0 /\ chain' = chain
    BY <1>1, <1>2, <1>7 DEF RecoverMarker, AtMarker, Durable
  <2>2. cursor' = Len(state)
    <3>1. Height(chain) = Len(state) /\ persistedThrough = Len(state)
      BY <1>1, <2>1, ChainIs DEF Durable
    <3> QED BY <1>7, <2>1, <3>1 DEF RecoverMarker, PersistFrom, MinOf
  <2>3. UNCHANGED <<marker, persistedThrough>>
    BY <1>7 DEF RecoverMarker
  <2> QED BY <1>1, <1>3, <2>1, <2>2, <2>3 DEF Durable
<1>8. CASE Submit \/ DagCommit \/ FastSelect \/ UNCHANGED vars
  BY <1>4, <1>8 DEF Submit, SubmitCheck, SubmitAdmit, DagCommit, FastSelect, vars
<1>9. CASE Finalize
  BY <1>2, <1>4, <1>9, Zenon DEF Finalize, FinalizeReady, SkipExisting, FilterTx, SkipEmpty, Prepare,
     NextBatch, Acknowledge, AddToChain, Drain, ClearMarker, Return, LocalsGone, InlineMetadata
<1>10. CASE Persist
  BY <1>2, <1>4, <1>5, <1>10 DEF Persist, PersistJson, AfterPersist, InlineMetadata
<1>11. CASE Start
  BY <1>2, <1>4, <1>6, <1>7, <1>11 DEF Start, Boot, LoadFreshGenesis, ClearRecovered, BootDone,
     Return, LocalsGone
<1>12. CASE Fail \/ Crash
  BY <1>4, <1>12 DEF Fail, PrepareFails, FastFails, CommitFails, PersistFails, ClearFails, Crash,
     StopProcess, Return, LocalsGone
<1> QED BY <1>8, <1>9, <1>10, <1>11, <1>12 DEF Next

\* The chain in memory stays the one a restart would load.
LEMMA InMemoryStep ==
    ASSUME InlineMetadata, TypeOK, InlineInv, [Next]_vars, ~CommitState PROVE InMemory'
<1> USE DEF memory, finalizer, records, snapshot, consensus, bounds
<1>1. Control /\ History /\ Blocks /\ InMemory
  BY DEF InlineInv
<1>2. ~PersistOne /\ ~PruneOne /\ ~PruneThrough /\ ~LoadJson /\ ~LoadRefused /\ ~MarkerRefused
      /\ ~AddRejected /\ (RecoverMarker => UNCHANGED chain)
  BY NeverHappens
<1>3. /\ UNCHANGED state /\ Stored(Len(state))' = Stored(Len(state))
      /\ RecoveredCheckpoints(Len(state))' = RecoveredCheckpoints(Len(state))
      /\ Added' = Added => RecoveredCheckpoints(Added)' = RecoveredCheckpoints(Added)
  <2>1. UNCHANGED <<state, records>>
    BY OnlyCommitWrites
  <2>2. Stored(Len(state))' = Stored(Len(state))
    BY <2>1, HistoryKept
  <2>3. \A q : RecoveredCheckpoints(q)' = RecoveredCheckpoints(q)
    BY <2>1, HistoryKept
  <2>4. RecoveredCheckpoints(Len(state))' = RecoveredCheckpoints(Len(state))
    BY <2>1 DEF RecoveredCheckpoints, Stored, Hydrated
  <2>5. Added' = Added => RecoveredCheckpoints(Added)' = RecoveredCheckpoints(Added)
    BY <2>1 DEF RecoveredCheckpoints, Stored, Hydrated
  <2> QED BY <2>1, <2>2, <2>4, <2>5
<1>4. CASE status' \notin {"up", "boot"}
  BY <1>4 DEF InMemory
<1>5. ASSUME pc' # "add", chain'.checkpoints = RecoveredCheckpoints(Len(state)) PROVE InMemory'
  BY <1>3, <1>5 DEF InMemory, Added
<1>6. ASSUME status \in {"up", "boot"}, pc # "add", pc' # "add", UNCHANGED chain PROVE InMemory'
  BY <1>1, <1>5, <1>6 DEF InMemory, Added
<1>7. CASE UNCHANGED <<status, pc, chain, cp>>
  BY <1>1, <1>3, <1>7 DEF InMemory, Added
<1>8. CASE AddToChain
  <2>1. AddCheckpoint(chain, cp).checkpoints = RecoveredCheckpoints(Len(state))
    BY <1>1, <1>8, AddIs DEF AddToChain
  <2> QED BY <1>5, <1>8, <2>1 DEF AddToChain, InlineMetadata
<1>9. CASE LoadRecords
  <2>1. chain'.checkpoints = RecoveredCheckpoints(Len(state))
    BY <1>9, LoadIs DEF RebuildTxHashIndex
  <2> QED BY <1>5, <1>9, <2>1 DEF LoadRecords, Boot
<1>10. CASE LoadFreshGenesis
  <2>1. chain'.checkpoints = RecoveredCheckpoints(Len(state))
    BY <1>10, FreshIs DEF LoadFreshGenesis
  <2> QED BY <1>5, <1>10, <2>1 DEF LoadFreshGenesis, Boot
<1>11. CASE Submit \/ DagCommit \/ FastSelect \/ UNCHANGED vars
  BY <1>6, <1>7, <1>11 DEF Submit, SubmitCheck, SubmitAdmit, DagCommit, FastSelect, Idle, vars
<1>12. CASE Finalize
  BY <1>2, <1>6, <1>7, <1>8, <1>12, Zenon DEF Finalize, FinalizeReady, SkipExisting, FilterTx, SkipEmpty,
     Prepare, NextBatch, Acknowledge, Drain, ClearMarker, Return, LocalsGone, Idle, InDag, Scanned
<1>13. CASE Persist
  BY <1>2, <1>6, <1>13 DEF Persist, PersistThrough, PersistJson, AfterPersist, Running,
     InlineMetadata
<1>14. CASE Start
  BY <1>2, <1>6, <1>9, <1>10, <1>14 DEF Start, RecoverMarker, ClearRecovered, BootDone, AtMarker,
     Return, LocalsGone
<1>15. CASE Fail \/ Crash
  BY <1>4, <1>6, <1>7, <1>15 DEF Fail, PrepareFails, FastFails, CommitFails, PersistFails,
     ClearFails, Crash, StopProcess, Return, LocalsGone, Scanned, InDag, Running
<1> QED BY <1>11, <1>12, <1>13, <1>14, <1>15 DEF Next

\* Every executed transaction stays known; a restart relies on the index or on every
\* checkpoint being retained.
LEMMA KnownStep ==
    ASSUME InlineMetadata, TypeOK, InlineInv, Remembered, [Next]_vars, ~CommitState PROVE Known'
<1> USE DEF memory, finalizer, records, snapshot, consensus, bounds
<1>1. Control /\ History /\ Blocks /\ InMemory /\ Known
  BY DEF InlineInv
<1>2. ~PersistOne /\ ~PruneOne /\ ~PruneThrough /\ ~LoadJson /\ ~LoadRefused /\ ~MarkerRefused
      /\ ~AddRejected /\ (RecoverMarker => UNCHANGED chain)
  BY NeverHappens
<1>3. UNCHANGED <<state, records>> /\ Executed' = Executed
  BY OnlyCommitWrites, HistoryKept
<1>4. CASE status' \notin {"up", "boot"}
  BY <1>1, <1>3, <1>4 DEF Known
<1>5. ASSUME pc' # "add", ~TxIndex => Executed \subseteq chain'.executed PROVE Known'
  BY <1>1, <1>3, <1>5 DEF Known
<1>6. ASSUME status \in {"up", "boot"}, pc # "add", pc' # "add", UNCHANGED chain PROVE Known'
  BY <1>1, <1>5, <1>6 DEF Known
<1>7. CASE UNCHANGED <<status, pc, chain, cp>>
  BY <1>1, <1>3, <1>7 DEF Known
<1>8. CASE AddToChain
  BY <1>1, <1>5, <1>8 DEF AddToChain, AddCheckpoint, Known, InlineMetadata
<1>9. CASE LoadRecords
  <2>1. chain' = RebuildTxHashIndex(RecoveredCheckpoints(Len(state)))
    BY <1>9, LoadIs
  <2>2. ASSUME ~TxIndex, NEW u \in Executed PROVE u \in chain'.executed
    <3>1. PICK q \in 1..Len(state) : u \in state[q].run
      BY StateLen DEF Executed
    <3>2. Len(state) < MaxRetainedBlocks /\ Len(state) \in Nat
      BY <2>2, StateLen DEF Remembered
    <3>3. MinOf(Len(state), MaxRetainedBlocks - 1) = Len(state)
      BY <3>2, RetainedAssumption DEF MinOf
    <3> DEFINE cps == RecoveredCheckpoints(Len(state))
    <3>4. /\ DOMAIN cps = 1..(Len(state) + 1)
          /\ \A i \in 1..(Len(state) + 1) :
               cps[i] = IF i = 1 THEN Genesis ELSE Stored(Len(state) - Len(state) + i - 1)
      BY <3>3 DEF RecoveredCheckpoints
    <3> HIDE DEF cps
    <3>5. q + 1 \in 1..(Len(state) + 1) /\ q + 1 # 1 /\ Len(state) - Len(state) + (q + 1) - 1 = q
      BY <3>2
    <3>6. q + 1 \in DOMAIN cps /\ cps[q + 1] = Stored(q)
      BY <3>4, <3>5
    <3>7. u \in Range(Stored(q).transactions)
      BY <1>1, <3>1, StoredIs DEF Blocks
    <3>8. chain'.executed = UNION {Range(cps[i].transactions) : i \in DOMAIN cps}
      BY <2>1 DEF RebuildTxHashIndex, cps
    <3> QED BY <3>6, <3>7, <3>8
  <2> QED BY <1>5, <1>9, <2>2 DEF LoadRecords, Boot
<1>10. CASE LoadFreshGenesis
  BY <1>5, <1>10, FreshIs DEF LoadFreshGenesis, Boot
<1>11. CASE Submit \/ DagCommit \/ FastSelect \/ UNCHANGED vars
  BY <1>6, <1>7, <1>11 DEF Submit, SubmitCheck, SubmitAdmit, DagCommit, FastSelect, Idle, vars
<1>12. CASE Finalize
  BY <1>2, <1>6, <1>7, <1>8, <1>12, Zenon DEF Finalize, FinalizeReady, SkipExisting, FilterTx, SkipEmpty,
     Prepare, NextBatch, Acknowledge, Drain, ClearMarker, Return, LocalsGone, Idle, InDag, Scanned
<1>13. CASE Persist
  BY <1>2, <1>6, <1>13 DEF Persist, PersistThrough, PersistJson, AfterPersist, Running,
     InlineMetadata
<1>14. CASE Start
  BY <1>2, <1>6, <1>9, <1>10, <1>14 DEF Start, RecoverMarker, ClearRecovered, BootDone, AtMarker,
     Return, LocalsGone
<1>15. CASE Fail \/ Crash
  BY <1>4, <1>6, <1>7, <1>15 DEF Fail, PrepareFails, FastFails, CommitFails, PersistFails,
     ClearFails, Crash, StopProcess, Return, LocalsGone, Scanned, InDag, Running
<1> QED BY <1>11, <1>12, <1>13, <1>14, <1>15 DEF Next

\* A checkpoint prepared from new transactions extends the history and runs all of them.
LEMMA PreparedIs ==
    ASSUME TypeOK, SoundInv, InlineInv, status = "up", pc # "add",
           NEW v, NEW txs, Range(txs) \cap Executed = {}, cp' = Prepared(v, txs)
    PROVE  /\ cp'.transactions = txs /\ cp'.sequence = Len(state) + 1
           /\ cp'.prev = CheckpointHash(Stored(Len(state)))
           /\ cp'.state_root = Append(state, [txs |-> txs, run |-> Range(txs)])
<1>1. Latest(chain) = Stored(Len(state)) /\ Height(chain) = Len(state)
  BY ChainIs DEF InlineInv
<1>2. {t \in Range(txs) : ~Committed(t)} = Range(txs)
  BY CommittedIs DEF InlineInv
<1> QED BY <1>1, <1>2, Zenon DEF Prepared

\* Appending a new element to an injective sequence keeps it injective.
LEMMA InjectiveAppend ==
    ASSUME NEW S, NEW s \in Seq(S), NEW e \in S, IsInjective(s), e \notin Range(s)
    PROVE  IsInjective(Append(s, e))
<1>1. /\ DOMAIN Append(s, e) = 1..(Len(s) + 1) /\ DOMAIN s = 1..Len(s) /\ Len(s) \in Nat
      /\ \A i \in 1..Len(s) : Append(s, e)[i] = s[i]
      /\ Append(s, e)[Len(s) + 1] = e
  OBVIOUS
<1>2. \A i \in 1..Len(s) : s[i] # e
  BY <1>1 DEF Range
<1>3. \A i \in 1..(Len(s) + 1) : i \in 1..Len(s) \/ i = Len(s) + 1
  BY <1>1
<1>4. ASSUME NEW i \in 1..(Len(s) + 1), NEW j \in 1..(Len(s) + 1), Append(s, e)[i] = Append(s, e)[j]
      PROVE  i = j
  <2>1. CASE i \in 1..Len(s) /\ j \in 1..Len(s)
    BY <1>1, <1>4, <2>1 DEF IsInjective
  <2>2. CASE i = Len(s) + 1 \/ j = Len(s) + 1
    BY <1>1, <1>2, <1>3, <1>4, <2>2
  <2> QED BY <1>3, <2>1, <2>2
<1> QED BY <1>1, <1>4 DEF IsInjective

\* The sub-DAG a finalizer works on is one consensus has committed.
LEMMA CurrentIs ==
    ASSUME TypeOK, mode \in {"producer", "network"}, cur <= pendingTo
    PROVE  cur \in DOMAIN dag /\ dag[cur] \in Seq(Tx)
<1>1. /\ dag \in Seq(Seq(Tx)) /\ cur \in Nat /\ cur >= 1 /\ pendingTo \in Nat
      /\ pendingTo <= Len(dag)
  BY DEF TypeOK, FinalizerOK, EnvironmentOK
<1>2. cur \in 1..Len(dag)
  BY <1>1
<1> QED BY <1>1, <1>2

\* What is picked and prepared stays new, and stays part of the sub-DAG.
LEMMA PickedStep ==
    ASSUME InlineMetadata, SingleAuthority => NoncesInRange,
           TypeOK, SoundInv, InlineInv, [Next]_vars, ~CommitState
    PROVE  Picked'
<1> USE DEF memory, finalizer, records, snapshot, consensus, bounds
<1>1. Control /\ Picked
  BY DEF InlineInv
<1>2. ~PersistOne /\ ~PruneOne /\ ~PruneThrough /\ ~LoadJson /\ ~LoadRefused /\ ~MarkerRefused
      /\ ~AddRejected
  BY NeverHappens
<1>3. UNCHANGED state /\ Executed' = Executed /\ Stored(Len(state))' = Stored(Len(state))
  BY OnlyCommitWrites, HistoryKept
<1>4. IsInjective(<<>>) /\ Range(<<>>) = {}
  BY RangeEmpty DEF IsInjective
<1>5. ASSUME pc' \notin {"batch", "commit"}, UNCHANGED consensus,
             mode' \notin {"producer", "network"} \/ UNCHANGED <<mode, cur, pendingTo>>
      PROVE  Picked'
  BY <1>1, <1>5 DEF Picked
<1>6. ASSUME UNCHANGED <<finalizer, consensus>> PROVE Picked'
  BY <1>1, <1>3, <1>6 DEF Picked, CheckpointHash, BodyOf
<1>7. ASSUME NextBatch, mode \in {"producer", "network"}, UNCHANGED consensus PROVE Picked'
  <2>1. acked < cur /\ acked < pendingTo /\ acked \in Nat /\ cur \in Nat
    BY <1>1, <1>7 DEF Picked, TypeOK, FinalizerOK, EnvironmentOK
  <2>2. acked' < cur' /\ acked' < pendingTo'
    BY <1>7, <2>1 DEF NextBatch
  <2> QED BY <1>4, <1>7, <2>2 DEF NextBatch, Picked
<1>8. CASE DagCommit
  <2>1. PICK b \in Seq(Tx) : dag' = Append(dag, b)
    BY <1>8, DagAppends
  <2>2. \A k \in DOMAIN dag : dag'[k] = dag[k]
    BY <2>1 DEF TypeOK, EnvironmentOK
  <2>3. UNCHANGED <<finalizer, acked>>
    BY <1>8 DEF DagCommit
  <2>4. mode \in {"producer", "network"} /\ cur <= pendingTo => dag'[cur] = dag[cur]
    BY <2>2, CurrentIs
  <2>5. pc = "batch" => mode \in {"producer", "network"}
    BY <1>1 DEF Control
  <2>6. pc = "commit" /\ mode # "fast" => mode \in {"producer", "network"} /\ cur <= pendingTo
    BY <1>1 DEF Control, SoundInv, BatchSound
  <2> QED BY <1>1, <1>3, <2>3, <2>4, <2>5, <2>6 DEF Picked, CheckpointHash, BodyOf
<1>9. CASE \E caller \in {"producer", "network"} : FinalizeReady(caller)
  <2>1. /\ acked \in Nat /\ pendingTo \in Nat /\ Len(dag) \in Nat /\ acked < Len(dag)
        /\ cur' = acked + 1 /\ pendingTo' = PendingList /\ acked' = acked /\ pc' = "batch"
        /\ picked' = <<>>
    BY <1>9 DEF FinalizeReady, TypeOK, FinalizerOK, EnvironmentOK
  <2>2. acked' < cur' /\ acked' < pendingTo'
    BY <2>1 DEF PendingList
  <2> QED BY <1>4, <2>1, <2>2 DEF Picked
<1>10. CASE FilterTx
  <2>1. /\ status = "up" /\ pc = "batch" /\ cur <= pendingTo /\ mode \in {"producer", "network"}
        /\ scan \in Nat /\ scan < Len(dag[cur]) /\ picked \in Seq(Tx)
        /\ UNCHANGED <<pc, mode, cur, pendingTo, cp, consensus>>
    BY <1>10 DEF FilterTx, InDag, TypeOK, FinalizerOK
  <2>2. dag[cur] \in Seq(Tx)
    BY <2>1, CurrentIs
  <2> DEFINE t == dag[cur][scan + 1]
  <2>3. t \in Tx /\ t \in Range(dag[cur])
    <3>1. scan + 1 \in DOMAIN dag[cur]
      BY <2>1, <2>2
    <3> QED BY <2>2, <3>1 DEF Range
  <2>4. picked' = IF Keep(t) THEN Append(picked, t) ELSE picked
    BY <1>10 DEF FilterTx
  <2> HIDE DEF t
  <2>5. /\ IsInjective(picked) /\ Range(picked) \cap Executed = {}
        /\ picked # <<>> => Range(picked) \subseteq Range(dag[cur])
    BY <1>1, <2>1 DEF Picked
  <2>6. CASE Keep(t)
    <3>1. t \notin Range(picked) /\ t \notin Executed
      BY <2>1, <2>6, CommittedIs DEF Keep, InlineInv
    <3>2. picked' = Append(picked, t)
      BY <2>4, <2>6
    <3>5. picked \in Seq(Tx) /\ t \in Tx /\ IsInjective(picked)
      BY <2>1, <2>3, <2>5
    <3>6. IsInjective(Append(picked, t))
      BY <3>1, <3>5, InjectiveAppend
    <3>7. Range(Append(picked, t)) = Range(picked) \cup {t}
      BY <3>5, RangeAppend
    <3>3. IsInjective(picked') /\ Range(picked') = Range(picked) \cup {t}
      BY <3>2, <3>6, <3>7
    <3>4. Range(picked) \subseteq Range(dag[cur])
      BY <1>4, <2>5
    <3> QED BY <1>1, <1>3, <2>1, <2>3, <2>5, <3>1, <3>3, <3>4 DEF Picked
  <2>7. CASE ~Keep(t)
    BY <1>1, <1>3, <2>1, <2>4, <2>7 DEF Picked
  <2> QED BY <2>6, <2>7
<1>11. CASE Prepare
  <2>1. /\ status = "up" /\ pc = "batch" /\ cur <= pendingTo /\ mode \in {"producer", "network"}
        /\ picked # <<>> /\ cp' = Prepared(cur, picked) /\ pc' = "commit"
        /\ UNCHANGED <<mode, cur, pendingTo, picked, consensus>>
    BY <1>11 DEF Prepare, Scanned, InDag
  <2>2. /\ IsInjective(picked) /\ Range(picked) \cap Executed = {}
        /\ Range(picked) \subseteq Range(dag[cur])
    BY <1>1, <2>1 DEF Picked
  <2>3. /\ cp'.transactions = picked /\ cp'.sequence = Len(state) + 1
        /\ cp'.prev = CheckpointHash(Stored(Len(state)))
        /\ cp'.state_root = Append(state, [txs |-> picked, run |-> Range(picked)])
    BY <2>1, <2>2, PreparedIs
  <2>4. CheckpointHash(Stored(Len(state)))' = CheckpointHash(Stored(Len(state)))
    BY <1>3 DEF CheckpointHash, BodyOf
  <2> QED BY <1>1, <1>3, <2>1, <2>2, <2>3, <2>4 DEF Picked
<1>12. CASE FastSelect
  <2>1. PICK n \in 1..MaxBatch : \E sel \in [1..n -> mempool \cap Owned] :
          IsInjective(sel) /\ cp' = Prepared(NoVertices, sel)
    BY <1>12 DEF FastSelect
  <2>2. PICK sel \in [1..n -> mempool \cap Owned] :
          IsInjective(sel) /\ cp' = Prepared(NoVertices, sel)
    BY <2>1
  <2>3. Range(sel) \subseteq mempool /\ Range(sel) \subseteq Owned
    BY DEF Range
  <2>4. /\ status = "up" /\ pc = "idle" /\ pc' = "commit" /\ mode' = "fast" /\ SingleAuthority
        /\ UNCHANGED consensus
    BY <1>12 DEF FastSelect, Idle
  <2>5. mempool \cap Executed = {}
    BY <2>4 DEF InlineInv, Pool
  <2>6. sel # <<>>
    BY <2>2
  <2>7. Range(sel) \cap Executed = {}
    BY <2>3, <2>5
  <2>8. /\ cp'.transactions = sel /\ cp'.sequence = Len(state) + 1
        /\ cp'.prev = CheckpointHash(Stored(Len(state)))
        /\ cp'.state_root = Append(state, [txs |-> sel, run |-> Range(sel)])
    BY <2>2, <2>4, <2>7, PreparedIs
  <2>9. CheckpointHash(Stored(Len(state)))' = CheckpointHash(Stored(Len(state)))
    BY <1>3 DEF CheckpointHash, BodyOf
  <2> QED BY <1>3, <2>2, <2>3, <2>4, <2>6, <2>7, <2>8, <2>9 DEF Picked
<1>13. CASE Submit \/ UNCHANGED vars
  BY <1>6, <1>13 DEF Submit, SubmitCheck, SubmitAdmit, vars
<1>14. CASE Finalize
  <2>1. CASE SkipExisting \/ SkipEmpty
    BY <1>7, <2>1 DEF SkipExisting, SkipEmpty, Scanned, InDag
  <2>2. CASE Acknowledge
    BY <2>2 DEF Acknowledge, Return, LocalsGone, Picked
  <2>3. CASE AddToChain \/ Drain
    BY <1>5, <2>3 DEF AddToChain, Drain, InlineMetadata
  <2>4. CASE ClearMarker
    <3>1. mode # "fast" => mode \in {"producer", "network"}
      BY <1>1, <2>4 DEF ClearMarker, Control
    <3> QED BY <1>5, <1>7, <2>4, <3>1 DEF ClearMarker, Return, LocalsGone
  <2> QED BY <1>2, <1>9, <1>10, <1>11, <1>14, <2>1, <2>2, <2>3, <2>4 DEF Finalize
<1>15. CASE Persist
  BY <1>2, <1>5, <1>15 DEF Persist, PersistThrough, PersistJson, AfterPersist, InlineMetadata
<1>16. CASE Start
  BY <1>2, <1>5, <1>16 DEF Start, Boot, LoadRecords, LoadFreshGenesis, RecoverMarker,
     ClearRecovered, BootDone, Return, LocalsGone
<1>17. CASE Fail \/ Crash
  BY <1>5, <1>6, <1>17, Zenon DEF Fail, PrepareFails, FastFails, CommitFails, PersistFails, ClearFails,
     Crash, StopProcess, Return, LocalsGone
<1> QED BY <1>8, <1>12, <1>13, <1>14, <1>15, <1>16, <1>17 DEF Next

\* Nothing executed becomes pending: a transaction admitted after its check is refused
\* by its nonce when it has been executed meanwhile.
LEMMA PoolStep ==
    ASSUME InlineMetadata, NoncesInRange, TypeOK, InlineInv, [Next]_vars, ~CommitState
    PROVE  Pool'
<1> USE DEF memory, finalizer, records, snapshot, consensus, bounds
<1>1. Control /\ Watermarks /\ Pool
  BY DEF InlineInv
<1>2. ~PersistOne /\ ~PruneOne /\ ~PruneThrough /\ ~LoadJson /\ ~LoadRefused /\ ~MarkerRefused
      /\ ~AddRejected
  BY NeverHappens
<1>3. Executed' = Executed
  BY OnlyCommitWrites, HistoryKept
<1>4. ASSUME mempool' \subseteq mempool, UNCHANGED <<pc, cp>> PROVE Pool'
  BY <1>1, <1>3, <1>4 DEF Pool
<1>5. ASSUME mempool' \subseteq mempool, pc \notin {"add", "drain"} PROVE Pool'
  BY <1>1, <1>3, <1>5 DEF Pool
<1>6. CASE \E s \in Submitters : SubmitAdmit(s)
  <2>1. PICK s \in Submitters : SubmitAdmit(s)
    BY <1>6
  <2>2. CASE Admissible(subm[s])
    <3>1. ASSUME NEW t \in subm[s].txs PROVE t \notin Executed
      <4>5. subm[s].txs \subseteq Tx
        BY DEF TypeOK, MemoryOK
      <4>6. ~Stale(t)
        BY <2>2 DEF Admissible
      <4>1. ~Stale(t) /\ t \in Tx
        BY <4>5, <4>6
      <4>2. SenderOf[t] \in Senders /\ NonceOf[t] \in Nat /\ watermark[SenderOf[t]] < MaxWatermark
        BY <1>1, <4>1, EngineAssumption DEF Watermarks
      <4>3. watermark[SenderOf[t]] \in Int /\ MaxWatermark \in Nat
        <5>1. Nonces \subseteq Int
          BY EngineAssumption DEF Nonces, NoNonce, Range
        <5>2. watermark \in [Senders -> Nonces]
          BY DEF TypeOK, RecordsOK
        <5>3. MaxWatermark \in Nat
          BY EngineAssumption
        <5>4. SenderOf[t] \in Senders
          BY <4>2
        <5>5. watermark[SenderOf[t]] \in Nonces
          BY <5>2, <5>4
        <5> QED BY <5>1, <5>3, <5>5, Zenon
      <4>4. ~(NonceOf[t] <= watermark[SenderOf[t]])
        BY <4>1, <4>2, <4>3 DEF Stale, Effective
      <4> QED BY <1>1, <4>4 DEF Watermarks
    <3>2. mempool' = mempool \cup subm[s].txs /\ UNCHANGED <<pc, cp>>
      BY <2>1, <2>2 DEF SubmitAdmit
    <3> QED BY <1>1, <1>3, <3>1, <3>2 DEF Pool
  <2>3. CASE ~Admissible(subm[s])
    BY <1>4, <2>1, <2>3 DEF SubmitAdmit
  <2> QED BY <2>2, <2>3
<1>7. CASE AddToChain
  BY <1>1, <1>3, <1>7 DEF AddToChain, Pool, InlineMetadata
<1>8. CASE Drain
  BY <1>1, <1>3, <1>8 DEF Drain, Pool
<1>9. CASE Submit \/ DagCommit \/ FastSelect \/ UNCHANGED vars
  BY <1>4, <1>5, <1>6, <1>9 DEF Submit, SubmitCheck, DagCommit, FastSelect, Idle, vars
<1>10. CASE Finalize
  BY <1>2, <1>5, <1>7, <1>8, <1>10, Zenon DEF Finalize, FinalizeReady, SkipExisting, FilterTx, SkipEmpty,
     Prepare, Acknowledge, ClearMarker, Idle, InDag, Scanned
<1>11. CASE Persist
  BY <1>2, <1>5, <1>11 DEF Persist, PersistThrough, PersistJson
<1>12. CASE Start
  BY <1>1, <1>2, <1>5, <1>12 DEF Start, Boot, LoadRecords, LoadFreshGenesis, RecoverMarker,
     ClearRecovered, BootDone, AtMarker, Control
<1>13. CASE Fail
  BY <1>4, <1>5, <1>13 DEF Fail, PrepareFails, DropInvalid, FastFails, CommitFails, PersistFails,
     ClearFails, Scanned
<1>14. CASE Crash
  BY <1>14 DEF Crash, Pool
<1> QED BY <1>9, <1>10, <1>11, <1>12, <1>13, <1>14 DEF Next

\* The invariant holds of a new node.
LEMMA InlineInit == Init => InlineInv
<1> SUFFICES ASSUME Init PROVE InlineInv
  OBVIOUS
<1>1. /\ status = "up" /\ pc = "idle" /\ mode = "none" /\ state = <<>> /\ Len(state) = 0
      /\ DOMAIN meta = {} /\ DOMAIN payloads = {} /\ DOMAIN state = {}
      /\ marker = {} /\ json = {} /\ prunedThrough = 0 /\ chain = NewChain /\ mempool = {}
      /\ watermark = [s \in Senders |-> NoNonce]
  BY DEF Init
<1>2. 1..0 = {}
  OBVIOUS
<1>3. Executed = {}
  BY <1>1 DEF Executed
<1>4. Control /\ Picked /\ Durable
  <2>1. Control
    BY <1>1 DEF Control
  <2>2. Picked
    BY <1>1 DEF Picked
  <2>3. Durable
    BY <1>1 DEF Durable
  <2> QED BY <2>1, <2>2, <2>3
<1>5. History /\ Blocks
  <2>1. History
    BY <1>1, <1>2 DEF History
  <2>2. Blocks
    BY <1>1, <1>2 DEF Blocks, ExactlyOnce
  <2> QED BY <2>1, <2>2
<1>6. InMemory
  <2>1. MinOf(0, MaxRetainedBlocks - 1) = 0
    BY RetainedAssumption DEF MinOf
  <2>2. RecoveredCheckpoints(0) = [i \in 1..1 |-> Genesis]
    BY <2>1 DEF RecoveredCheckpoints
  <2>3. RecoveredCheckpoints(0) = <<Genesis>>
    BY <2>2
  <2>4. chain.checkpoints = <<Genesis>> /\ Added = 0 /\ pc # "add"
    BY <1>1 DEF NewChain, Added
  <2> QED BY <2>3, <2>4 DEF InMemory
<1>7. Known
  BY <1>3 DEF Known
<1>8. Watermarks /\ Pool
  <2>1. MaxWatermark \in Nat /\ NoNonce < MaxWatermark
    BY EngineAssumption DEF NoNonce
  <2> QED BY <1>1, <1>3, <2>1 DEF Watermarks, Pool
<1> QED BY <1>4, <1>5, <1>6, <1>7, <1>8 DEF InlineInv

\* Every step keeps the invariant.
LEMMA InlineStep ==
    ASSUME InlineMetadata, SingleAuthority => NoncesInRange
    PROVE  TypeOK /\ SoundInv /\ InlineInv /\ Remembered /\ [Next]_vars => InlineInv'
<1> SUFFICES ASSUME TypeOK, SoundInv, InlineInv, Remembered, [Next]_vars PROVE InlineInv'
  OBVIOUS
<1>1. CASE CommitState
  BY <1>1, CommitKeeps
<1>2. CASE ~CommitState
  <2>1. Control' /\ Durable' /\ InMemory'
    BY <1>2, ControlStep, DurableStep, InMemoryStep
  <2>2. Known' /\ Picked'
    BY <1>2, KnownStep, PickedStep
  <2>3. History' /\ Blocks' /\ (Watermarks => Watermarks')
    BY <1>2, OnlyCommitWrites, HistoryKept DEF InlineInv
  <2>4. NoncesInRange => Watermarks' /\ Pool'
    BY <1>2, <2>3, PoolStep DEF InlineInv
  <2> QED BY <2>1, <2>2, <2>3, <2>4 DEF InlineInv, NoncesInRange
<1> QED BY <1>1, <1>2

-----------------------------------------------------------------------------
(* The results.                                                            *)

\* The store, the chain in memory and the finalizer always describe one history.
THEOREM OneHistory ==
    ASSUME InlineMetadata, SingleAuthority => NoncesInRange
    PROVE  Spec /\ []Remembered => []InlineInv
BY InlineInit, InlineStep, TypeCorrect, CommittedIsExecuted, PTL DEF Spec

\* Every start-up succeeds: no crash, failing call or failing start leaves a marker or
\* records that load_blockchain or init refuses.
THEOREM EveryStartSucceeds ==
    ASSUME InlineMetadata, SingleAuthority => NoncesInRange
    PROVE  Spec /\ []Remembered => []Restartable
<1>1. InlineInv => Restartable
  BY DEF InlineInv, Control, Restartable
<1> QED BY <1>1, OneHistory, PTL

\* The latest checkpoint of a running engine has the height and the root of the state it
\* executes on, except between the commit of the state and add_checkpoint.
THEOREM ChainDescribesState ==
    ASSUME InlineMetadata, SingleAuthority => NoncesInRange
    PROVE  Spec /\ []Remembered => []ChainMatchesState
<1>1. TypeOK /\ InlineInv => ChainMatchesState
  BY ChainIs DEF InlineInv, ChainMatchesState
<1> QED BY <1>1, OneHistory, TypeCorrect, PTL

\* try_is_transaction_committed knows every executed transaction, after evictions and
\* restarts too.
THEOREM ExecutedIsKnown ==
    ASSUME InlineMetadata, SingleAuthority => NoncesInRange
    PROVE  Spec /\ []Remembered => []ReplayIndexComplete
<1>1. SoundInv /\ InlineInv => ReplayIndexComplete
  BY CommittedIs DEF InlineInv, ReplayIndexComplete
<1> QED BY <1>1, OneHistory, CommittedIsExecuted, PTL

\* The records alone hold every checkpoint: the metadata has the root of the state at its
\* sequence, the payload the transactions of the block executed there.
THEOREM StoreIsComplete ==
    ASSUME InlineMetadata, SingleAuthority => NoncesInRange
    PROVE  Spec /\ []Remembered => []StoreHoldsHistory
<1>1. TypeOK /\ InlineInv => StoreHoldsHistory
  <2> SUFFICES ASSUME TypeOK, InlineInv, Idle PROVE StoreHoldsHistory
    BY DEF StoreHoldsHistory
  <2>1. Height(chain) = Len(state) /\ prunedThrough = 0 /\ History /\ Len(state) \in Nat
    BY ChainIs, StateLen DEF InlineInv, Control, Idle
  <2>2. \A q \in (prunedThrough + 1)..Height(chain) : q \in 1..Len(state)
    BY <2>1
  <2> QED BY <2>1, <2>2 DEF StoreHoldsHistory, History
<1> QED BY <1>1, OneHistory, TypeCorrect, PTL

\* Between finalizations no executed transaction is pending, although admission looks up
\* the executed ones before it takes the mempool lock: the nonce check under the lock
\* catches what was executed in between.
THEOREM ExecutedIsNotPending ==
    ASSUME InlineMetadata, NoncesInRange
    PROVE  Spec /\ []Remembered => []CommittedNeverPending
<1>1. InlineInv => CommittedNeverPending
  BY DEF InlineInv, Pool, CommittedNeverPending, Idle
<1> QED BY <1>1, OneHistory, PTL

\* Admission only lets in nonces above every executed one of the sender.
THEOREM AdmittedNoncesAreFresh ==
    ASSUME InlineMetadata, NoncesInRange
    PROVE  Spec /\ []Remembered => FreshNonces
<1> DEFINE Fresh == \A t \in mempool' \ mempool : \A u \in Executed :
                      SenderOf[u] = SenderOf[t] => NonceOf[u] < NonceOf[t]
<1>1. TypeOK /\ InlineInv /\ [Next]_vars => [Fresh]_vars
  <2> SUFFICES ASSUME TypeOK, InlineInv, Next PROVE Fresh
    OBVIOUS
  <2> USE DEF memory, finalizer, records, snapshot, consensus, bounds
  <2>1. CASE \E s \in Submitters : SubmitAdmit(s)
    <3>1. PICK s \in Submitters : SubmitAdmit(s)
      BY <2>1
    <3>2. ASSUME NEW t \in mempool' \ mempool, NEW u \in Executed, SenderOf[u] = SenderOf[t]
          PROVE  NonceOf[u] < NonceOf[t]
      <4>1. t \in subm[s].txs /\ Admissible(subm[s])
        BY <3>1, <3>2 DEF SubmitAdmit
      <4>2. ~Stale(t) /\ t \in Tx
        BY <4>1 DEF Admissible, TypeOK, MemoryOK
      <4>3. u \in Tx
        BY StateLen DEF Executed, Block
      <4>4. /\ SenderOf[t] \in Senders /\ NonceOf[t] \in Nat /\ NonceOf[u] \in Nat
            /\ MaxWatermark \in Nat
        BY <4>2, <4>3, EngineAssumption
      <4>5. /\ watermark[SenderOf[t]] < MaxWatermark /\ NonceOf[u] <= watermark[SenderOf[t]]
        BY <3>2, <4>4 DEF InlineInv, Watermarks
      <4>6. watermark[SenderOf[t]] \in Int
        <5>1. Nonces \subseteq Int
          BY EngineAssumption DEF Nonces, NoNonce, Range
        <5> QED BY <4>4, <5>1, Zenon DEF TypeOK, RecordsOK
      <4>7. watermark[SenderOf[t]] < NonceOf[t]
        BY <4>2, <4>4, <4>5, <4>6 DEF Stale, Effective
      <4> QED BY <4>4, <4>5, <4>6, <4>7
    <3> QED BY <3>2
  <2>2. CASE mempool' \subseteq mempool
    BY <2>2
  <2>3. CASE Submit \/ DagCommit \/ FastSelect \/ Persist
    BY <2>1, <2>2, <2>3, Zenon DEF Submit, SubmitCheck, DagCommit, FastSelect, Persist, PersistOne,
       PersistThrough, PersistJson, PruneOne, PruneThrough
  <2>4. CASE Finalize
    BY <2>2, <2>4, Zenon DEF Finalize, FinalizeReady, SkipExisting, FilterTx, SkipEmpty, Prepare,
       Acknowledge, CommitState, AddToChain, AddRejected, Drain, ClearMarker
  <2>5. CASE Start
    BY <2>2, <2>5, Zenon DEF Start, Boot, LoadJson, LoadRecords, LoadFreshGenesis, LoadRefused,
       RecoverMarker, MarkerRefused, ClearRecovered, BootDone
  <2>6. CASE Fail \/ Crash
    BY <2>2, <2>6 DEF Fail, PrepareFails, DropInvalid, FastFails, CommitFails, PersistFails,
       ClearFails, Crash
  <2> QED BY <2>3, <2>4, <2>5, <2>6 DEF Next
<1> QED BY <1>1, OneHistory, TypeCorrect, PTL DEF Spec, FreshNonces

=============================================================================
