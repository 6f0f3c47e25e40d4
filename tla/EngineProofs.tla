----------------------------- MODULE EngineProofs ---------------------------
(* Theorems about Engine for every value of its constants.                 *)
EXTENDS EngineTypes

-----------------------------------------------------------------------------
(* Nothing the node takes for committed is missing from the state.         *)

\* A checkpoint is sound when the state has executed its transactions and, if it was
\* made from a sub-DAG, everything in that sub-DAG.
Sound(c, executed, order) ==
    /\ Range(c.transactions) \subseteq executed
    /\ c.vertices # NoVertices =>
         c.vertices \in DOMAIN order /\ Range(order[c.vertices]) \subseteq executed

ChainSound ==
    /\ chain.executed \subseteq Executed
    /\ \A i \in DOMAIN chain.checkpoints : Sound(chain.checkpoints[i], Executed, dag)

RecordsSound ==
    /\ txIndex \subseteq Executed
    /\ \A q \in DOMAIN meta : Sound(meta[q], Executed, dag)
    /\ \A q \in DOMAIN payloads : Range(payloads[q]) \subseteq Executed

StoreSound ==
    /\ \A m \in marker : Sound(m, Executed, dag)
    /\ \A s \in json : \A i \in DOMAIN s : Sound(s[i], Executed, dag)

\* The prepared checkpoint becomes sound by being committed.
NewBlock == cp.state_root[Len(state) + 1]

PreparedSound ==
    pc = "commit" =>
      /\ cp.state_root = Append(state, NewBlock)
      /\ Range(cp.transactions) \subseteq Executed \cup NewBlock.run
      /\ cp.vertices # NoVertices =>
           /\ cp.vertices \in DOMAIN dag
           /\ Range(dag[cp.vertices]) \subseteq Executed \cup Range(cp.transactions)

\* The sub-DAGs before the current one are executed; what was scanned of the current
\* one is either picked or executed already.
BatchSound ==
    mode \in {"producer", "network"} =>
      /\ \A k \in 1..(cur - 1) : k \in DOMAIN dag => Range(dag[k]) \subseteq Executed
      /\ pc = "batch" /\ cur <= pendingTo =>
           /\ scan <= Len(dag[cur])
           /\ \A i \in 1..scan : dag[cur][i] \in Executed \cup Range(picked)
      /\ pc = "batch" => cur <= pendingTo + 1
      /\ pc # "batch" => cp.vertices = cur /\ cur <= pendingTo

CommittedSound ==
    status = "up" /\ pc \in {"add", "persist", "json", "prune", "drain", "clear"} => Sound(cp, Executed, dag)

SoundInv ==
    /\ ChainSound /\ RecordsSound /\ StoreSound
    /\ PreparedSound /\ BatchSound /\ CommittedSound
    /\ AckedExecuted /\ acked <= Len(dag)

\* A step that only adds to what is executed and to the consensus order.
Grows ==
    /\ Executed \subseteq Executed'
    /\ DOMAIN dag \subseteq DOMAIN dag'
    /\ \A k \in DOMAIN dag : dag'[k] = dag[k]

\* Soundness of a checkpoint survives such a step.
LEMMA SoundGrows ==
    ASSUME Grows PROVE \A c : Sound(c, Executed, dag) => Sound(c, Executed', dag')
BY DEF Sound, Grows

\* So does the soundness of what the step leaves alone.
LEMMA ChainKept == ASSUME Grows, ChainSound, UNCHANGED chain PROVE ChainSound'
BY SoundGrows DEF ChainSound, Grows

\* The checkpoint records stay sound when a step leaves them alone.
LEMMA RecordsKept == ASSUME Grows, RecordsSound, UNCHANGED records PROVE RecordsSound'
BY SoundGrows DEF RecordsSound, Grows, records

\* So do the marker and the JSON snapshot.
LEMMA StoreKept ==
    ASSUME Grows, StoreSound, marker' \subseteq marker, json' \subseteq json PROVE StoreSound'
BY SoundGrows DEF StoreSound

\* What was acknowledged stays executed when a step only adds to the state.
LEMMA AckedKept ==
    ASSUME EnvironmentOK, EnvironmentOK', Grows, AckedExecuted, acked <= Len(dag), UNCHANGED acked
    PROVE  AckedExecuted' /\ acked' <= Len(dag')
<1>1. DOMAIN dag = 1..Len(dag) /\ DOMAIN dag' = 1..Len(dag') /\ Len(dag) \in Nat /\ Len(dag') \in Nat
  BY DEF EnvironmentOK
<1>2. Len(dag) <= Len(dag')
  BY <1>1 DEF Grows
<1>3. acked \in Nat
  BY DEF EnvironmentOK
<1>4. \A k \in 1..acked : k \in DOMAIN dag
  BY <1>1, <1>3
<1>5. acked' <= Len(dag')
  BY <1>1, <1>2, <1>3
<1> QED BY <1>4, <1>5 DEF AckedExecuted, Grows

\* Executing the prepared block adds its transactions, and nothing else, to the
\* executed ones.
LEMMA CommitExecutes ==
    ASSUME TypeOK, PreparedSound, CommitState
    PROVE  /\ Executed' = Executed \cup NewBlock.run
           /\ Sound(cp, Executed', dag)
<1>1. state \in Seq(Block) /\ cp.state_root \in Seq(Block)
  BY DEF TypeOK, StoreOK, FinalizerOK, StateLog, Checkpoint
<1>2. state' = Append(state, NewBlock)
  BY DEF CommitState, PreparedSound
<1> DEFINE n == Len(state)
<1>3. n \in Nat /\ DOMAIN state = 1..n /\ DOMAIN state' = 1..(n + 1)
  BY <1>1, <1>2
<1> HIDE DEF n
<1>4. state'[n + 1] = NewBlock /\ \A i \in 1..n : state'[i] = state[i]
  BY <1>1, <1>2 DEF n
<1>5. Executed' = Executed \cup NewBlock.run
  <2>1. \A t : t \in Executed' <=> \E i \in 1..(n + 1) : t \in state'[i].run
    BY <1>3 DEF Executed
  <2>2. \A t : t \in Executed <=> \E i \in 1..n : t \in state[i].run
    BY <1>3 DEF Executed
  <2>3. \A t : (\E i \in 1..(n + 1) : t \in state'[i].run)
                <=> (t \in state'[n + 1].run \/ \E i \in 1..n : t \in state'[i].run)
    BY <1>3
  <2> QED BY <1>4, <2>1, <2>2, <2>3
<1> QED BY <1>5 DEF Sound, PreparedSound, CommitState

\* Every step grows.
LEMMA GrowsStep ==
    ASSUME TypeOK, PreparedSound, [Next]_vars PROVE Grows
<1>1. CASE CommitState
  BY <1>1, CommitExecutes DEF CommitState, consensus, Grows
<1>2. CASE DagCommit
  <2>1. PICK b \in Seq(Tx) : dag' = Append(dag, b)
    BY <1>2, DagAppends
  <2>2. state' = state
    BY <1>2 DEF DagCommit
  <2> QED BY <2>1, <2>2 DEF Grows, Executed, TypeOK, EnvironmentOK
<1>3. CASE UNCHANGED <<state, dag>>
  BY <1>3 DEF Grows, Executed
<1> QED
  <2>1. CASE Submit \/ FastSelect \/ Persist \/ Fail \/ Crash
    BY <1>3, <2>1 DEF Submit, SubmitCheck, SubmitAdmit, FastSelect, Persist, PersistOne,
       PersistThrough, PersistJson, PruneOne, PruneThrough, Fail, PrepareFails, FastFails, CommitFails,
       PersistFails, ClearFails, Crash, consensus
  <2>2. CASE Finalize
    BY <1>1, <1>3, <2>2 DEF Finalize, FinalizeReady, SkipExisting, FilterTx, SkipEmpty, Prepare,
       Acknowledge, AddToChain, AddRejected, Drain, ClearMarker, consensus
  <2>3. CASE Start
    BY <1>3, <2>3 DEF Start, Boot, LoadJson, LoadRecords, LoadFreshGenesis, LoadRefused,
       RecoverMarker, MarkerRefused, ClearRecovered, BootDone, consensus
  <2> QED BY <1>2, <1>3, <2>1, <2>2, <2>3 DEF Next, vars, consensus

-----------------------------------------------------------------------------
(* One lemma per part of the invariant; in each, the actions that disturb  *)
(* the part, and then the others together.                                 *)

\* Adding a sound checkpoint keeps the chain sound.
LEMMA AddSound ==
    ASSUME NEW E, NEW d, NEW c \in Chain, NEW k \in Checkpoint, Sound(k, E, d),
           c.executed \subseteq E, \A i \in DOMAIN c.checkpoints : Sound(c.checkpoints[i], E, d)
    PROVE  LET new == AddCheckpoint(c, k)
           IN  /\ new.executed \subseteq E
               /\ \A i \in DOMAIN new.checkpoints : Sound(new.checkpoints[i], E, d)
<1> DEFINE s == Append(c.checkpoints, k)
<1>1. c.checkpoints \in Seq(Checkpoint) /\ s \in Seq(Checkpoint) /\ Len(s) \in Nat
  BY DEF Chain
<1>2. \A i \in DOMAIN s : Sound(s[i], E, d)
  BY <1>1
<1> HIDE DEF s
<1>3. \A i \in DOMAIN Window(s) : Window(s)[i] \in {s[j] : j \in DOMAIN s}
  <2>1. CASE Len(s) > MaxRetainedBlocks
    <3>1. Len(s) >= 3 /\ DOMAIN s = 1..Len(s)
      BY <1>1, <2>1, RetainedAssumption
    <3> DEFINE u == SubSeq(s, 3, Len(s))
    <3>2. u \in Seq(Checkpoint) /\ Len(u) = Len(s) - 2 /\ \A i \in 1..Len(u) : u[i] = s[i + 2]
      BY <1>1, <3>1, SubSeqProperties, SMTT(20)
    <3> HIDE DEF u
    <3>3. <<s[1]>> \in Seq(Checkpoint) /\ Len(<<s[1]>>) = 1 /\ <<s[1]>>[1] = s[1]
      BY <1>1, <3>1
    <3> DEFINE w == <<s[1]>> \o u
    <3>4. /\ Len(w) = 1 + Len(u) /\ DOMAIN w = 1..Len(w)
          /\ \A i \in 1..Len(w) : w[i] = IF i <= 1 THEN s[1] ELSE u[i - 1]
      BY <3>2, <3>3, ConcatProperties
    <3> HIDE DEF w
    <3>5. \A i \in DOMAIN w : w[i] = IF i <= 1 THEN s[1] ELSE s[i + 1]
      BY <3>1, <3>2, <3>4
    <3>6. \A i \in DOMAIN w : 1 \in DOMAIN s /\ (i > 1 => i + 1 \in DOMAIN s)
      BY <3>1, <3>2, <3>4
    <3>7. \A i \in DOMAIN w : w[i] \in {s[j] : j \in DOMAIN s}
      BY <3>1, <3>4, <3>5, <3>6
    <3> QED BY <2>1, <3>7 DEF Window, w, u
  <2>2. CASE ~(Len(s) > MaxRetainedBlocks)
    BY <2>2 DEF Window
  <2> QED BY <2>1, <2>2
<1>4. Range(k.transactions) \subseteq E
  BY DEF Sound
<1> QED BY <1>2, <1>3, <1>4 DEF AddCheckpoint, s

\* Genesis is sound, and so is a new chain.
LEMMA GenesisSound ==
    ASSUME NEW E, NEW d
    PROVE  /\ Sound(Genesis, E, d)
           /\ NewChain.executed \subseteq E
           /\ \A i \in DOMAIN NewChain.checkpoints : Sound(NewChain.checkpoints[i], E, d)
<1>1. Sound(Genesis, E, d)
  BY RangeEmpty DEF Sound, Genesis, NoVertices
<1> QED BY <1>1 DEF NewChain

\* Rebuilding the index of sound checkpoints gives a sound chain.
LEMMA RebuildSound ==
    ASSUME NEW E, NEW d, NEW s, \A i \in DOMAIN s : Sound(s[i], E, d)
    PROVE  LET new == RebuildTxHashIndex(s)
           IN  /\ new.executed \subseteq E
               /\ \A i \in DOMAIN new.checkpoints : Sound(new.checkpoints[i], E, d)
<1>1. \A i \in DOMAIN s : Range(s[i].transactions) \subseteq E
  BY DEF Sound
<1> QED BY <1>1 DEF RebuildTxHashIndex

\* Dropping or restoring the transactions of a sound checkpoint keeps it sound.
LEMMA StrippedSound ==
    ASSUME NEW E, NEW d, NEW c \in Checkpoint, Sound(c, E, d) PROVE Sound(Stripped(c), E, d)
<1>1. Stripped(c).transactions = <<>> /\ Stripped(c).vertices = c.vertices
  BY DEF Stripped, Checkpoint
<1>2. Range(Stripped(c).transactions) = {}
  BY <1>1 DEF Range
<1> QED BY <1>1, <1>2 DEF Sound

\* A checkpoint put together with its stored transactions is sound.
LEMMA HydratedSound ==
    ASSUME RecordsSound, NEW c \in Checkpoint, Sound(c, Executed, dag)
    PROVE  Sound(Hydrated(c), Executed, dag)
BY DEF Hydrated, Sound, RecordsSound, Checkpoint

\* The chain in memory stays sound.
LEMMA ChainStep ==
    ASSUME TypeOK, SoundInv, Grows, [Next]_vars PROVE ChainSound'
<1> USE DEF memory, finalizer, records, snapshot, consensus, bounds
<1>1. ChainSound /\ RecordsSound /\ StoreSound /\ CommittedSound
  BY DEF SoundInv
<1>2. CASE UNCHANGED chain
  BY <1>1, <1>2, ChainKept
<1>3. CASE chain' = NewChain
  BY <1>3, GenesisSound DEF ChainSound
<1>4. CASE AddToChain
  <2>1. Sound(cp, Executed, dag) /\ cp \in Checkpoint /\ chain \in Chain
    BY <1>1, <1>4 DEF AddToChain, CommittedSound, TypeOK, FinalizerOK, MemoryOK
  <2>2. UNCHANGED <<state, dag>> /\ chain' = AddCheckpoint(chain, cp)
    BY <1>4 DEF AddToChain
  <2>3. Executed' = Executed
    BY <2>2 DEF Executed
  <2> QED BY <1>1, <2>1, <2>2, <2>3, AddSound DEF ChainSound
<1>5. CASE RecoverMarker
  <2>1. PICK m \in marker : chain' = AddCheckpoint(chain, m) \/ UNCHANGED chain
    BY <1>5 DEF RecoverMarker
  <2>2. Sound(m, Executed, dag) /\ m \in Checkpoint /\ chain \in Chain
    BY <1>1 DEF StoreSound, TypeOK, StoreOK, MemoryOK
  <2>3. UNCHANGED dag /\ Executed' = Executed
    BY <1>5 DEF RecoverMarker, Executed
  <2> QED BY <1>1, <1>2, <2>1, <2>2, <2>3, AddSound DEF ChainSound
<1>6. CASE LoadJson
  <2>1. PICK cps \in json : chain' = RebuildTxHashIndex([i \in DOMAIN cps |-> Hydrated(cps[i])])
    BY <1>6 DEF LoadJson
  <2>2. cps \in Seq(Checkpoint) /\ \A i \in DOMAIN cps : Sound(cps[i], Executed, dag)
    BY <1>1 DEF StoreSound, TypeOK, StoreOK
  <2>3. \A i \in DOMAIN cps : Sound(Hydrated(cps[i]), Executed, dag)
    BY <1>1, <2>2, HydratedSound
  <2>4. UNCHANGED dag /\ Executed' = Executed
    BY <1>6 DEF LoadJson, Boot, Executed
  <2> QED BY <2>1, <2>3, <2>4, RebuildSound DEF ChainSound
<1>7. CASE LoadRecords
  <2>1. PICK n \in DOMAIN meta \cup {0} :
          Recoverable(n) /\ chain' = RebuildTxHashIndex(RecoveredCheckpoints(n))
    BY <1>7 DEF LoadRecords
  <2>2. n \in Nat
    BY DEF TypeOK, RecordsOK
  <2>3. \A q \in 0..n : Sound(Stored(q), Executed, dag)
    <3> TAKE q \in 0..n
    <3>1. CASE q = 0
      BY <3>1, GenesisSound DEF Stored
    <3>2. CASE q # 0
      <4>1. q \in DOMAIN meta
        BY <2>1, <2>2, <3>2 DEF Recoverable
      <4>2. meta[q] \in Checkpoint /\ Sound(meta[q], Executed, dag)
        BY <1>1, <4>1 DEF TypeOK, RecordsOK, RecordsSound
      <4> QED BY <1>1, <3>2, <4>2, HydratedSound DEF Stored
    <3> QED BY <3>1, <3>2
  <2> DEFINE kept == MinOf(n, MaxRetainedBlocks - 1)
  <2>4. kept \in Nat /\ kept <= n
    BY <2>2, RetainedAssumption DEF MinOf
  <2>5. \A i \in 1..(kept + 1) : n - kept + i - 1 \in 0..n
    BY <2>2, <2>4
  <2>6. DOMAIN RecoveredCheckpoints(n) = 1..(kept + 1)
    BY DEF RecoveredCheckpoints
  <2>7. \A i \in 1..(kept + 1) : RecoveredCheckpoints(n)[i] \in {Genesis, Stored(n - kept + i - 1)}
    BY DEF RecoveredCheckpoints
  <2>8. \A i \in DOMAIN RecoveredCheckpoints(n) : Sound(RecoveredCheckpoints(n)[i], Executed, dag)
    BY <2>3, <2>5, <2>6, <2>7, GenesisSound
  <2>9. UNCHANGED dag /\ Executed' = Executed
    BY <1>7 DEF LoadRecords, Boot, Executed
  <2> QED BY <2>1, <2>8, <2>9, RebuildSound DEF ChainSound
<1>8. CASE Start
  BY <1>2, <1>3, <1>5, <1>6, <1>7, <1>8 DEF Start, LoadFreshGenesis, LoadRefused, MarkerRefused,
     StopProcess, ClearRecovered, BootDone
<1>9. CASE Finalize
  BY <1>2, <1>4, <1>9 DEF Finalize, FinalizeReady, SkipExisting, FilterTx, SkipEmpty, Prepare,
     Acknowledge, CommitState, AddRejected, Drain, ClearMarker
<1>10. CASE Submit \/ DagCommit \/ FastSelect \/ Persist \/ Fail \/ Crash
  BY <1>2, <1>3, <1>10 DEF Submit, SubmitCheck, SubmitAdmit, DagCommit, FastSelect, Persist,
     PersistOne, PersistThrough, PersistJson, PruneOne, PruneThrough, Fail, PrepareFails, FastFails,
     CommitFails, PersistFails, ClearFails, Crash, StopProcess
<1> QED BY <1>2, <1>8, <1>9, <1>10 DEF Next, vars

\* Writing the records of a sound checkpoint keeps the records sound.
LEMMA WriteSound ==
    ASSUME RecordsSound, Grows, NEW c \in Checkpoint, Sound(c, Executed', dag'), WriteRecords(c)
    PROVE  RecordsSound'
<1>1. \A q \in DOMAIN meta : Sound(meta[q], Executed', dag')
  BY SoundGrows DEF RecordsSound
<1>2. Sound(Stripped(c), Executed', dag')
  BY StrippedSound
<1> DEFINE newmeta == [q \in DOMAIN meta \cup {c.sequence} |->
                         IF q = c.sequence THEN Stripped(c) ELSE meta[q]]
<1>3. \A q \in DOMAIN newmeta : Sound(newmeta[q], Executed', dag')
  BY <1>1, <1>2
<1>4. meta' = newmeta
  BY DEF WriteRecords
<1>5. Range(c.transactions) \subseteq Executed'
  BY DEF Sound
<1> HIDE DEF newmeta
<1>6. txIndex' \subseteq Executed' /\ \A q \in DOMAIN payloads' : Range(payloads'[q]) \subseteq Executed'
  <2>1. CASE NonEmpty(c)
    <3>1. txIndex' \subseteq txIndex \cup Range(c.transactions)
      BY <2>1 DEF WriteRecords
    <3>2. \A q \in DOMAIN payloads' : payloads'[q] = c.transactions
                                      \/ (q \in DOMAIN payloads /\ payloads'[q] = payloads[q])
      BY <2>1 DEF WriteRecords
    <3> QED BY <1>5, <3>1, <3>2 DEF RecordsSound, Grows
  <2>2. CASE ~NonEmpty(c)
    BY <2>2 DEF WriteRecords, RecordsSound, Grows
  <2> QED BY <2>1, <2>2
<1> QED BY <1>3, <1>4, <1>6 DEF RecordsSound

\* The checkpoint records stay sound.
LEMMA RecordsStep ==
    ASSUME TypeOK, SoundInv, Grows, [Next]_vars PROVE RecordsSound'
<1> USE DEF memory, finalizer, records, snapshot, consensus, bounds
<1>1. ChainSound /\ RecordsSound /\ PreparedSound
  BY DEF SoundInv
<1>2. CASE UNCHANGED records
  BY <1>1, <1>2, RecordsKept
<1>3. CASE CommitState
  <2>1. Sound(cp, Executed', dag') /\ cp \in Checkpoint
    BY <1>1, <1>3, CommitExecutes DEF CommitState, TypeOK, FinalizerOK
  <2> QED BY <1>1, <1>2, <1>3, <2>1, WriteSound DEF CommitState
<1>4. CASE PersistOne
  <2>1. PICK i \in DOMAIN chain.checkpoints : WriteRecords(chain.checkpoints[i])
    BY <1>4 DEF PersistOne, Unpersisted
  <2>2. chain.checkpoints[i] \in Checkpoint /\ Sound(chain.checkpoints[i], Executed', dag')
    BY <1>1, SoundGrows DEF ChainSound, TypeOK, MemoryOK, Chain
  <2> QED BY <1>1, <2>1, <2>2, WriteSound
<1>5. CASE PruneOne
  <2>1. UNCHANGED <<state, dag, meta, txIndex>>
    BY <1>5 DEF PruneOne
  <2>2. \A q \in DOMAIN payloads' : q \in DOMAIN payloads /\ payloads'[q] = payloads[q]
    BY <1>5 DEF PruneOne
  <2> QED BY <1>1, <2>1, <2>2 DEF RecordsSound, Executed
<1>6. CASE Finalize
  BY <1>2, <1>3, <1>6 DEF Finalize, FinalizeReady, SkipExisting, FilterTx, SkipEmpty, Prepare,
     Acknowledge, AddToChain, AddRejected, Drain, ClearMarker
<1>7. CASE Start
  BY <1>2, <1>7 DEF Start, Boot, LoadJson, LoadRecords, LoadFreshGenesis, LoadRefused,
     RecoverMarker, MarkerRefused, ClearRecovered, BootDone
<1>8. CASE Submit \/ DagCommit \/ FastSelect \/ Persist \/ Fail \/ Crash
  BY <1>2, <1>4, <1>5, <1>8 DEF Submit, SubmitCheck, SubmitAdmit, DagCommit, FastSelect,
     Persist, PersistThrough, PersistJson, PruneThrough, Fail, PrepareFails, FastFails, CommitFails,
     PersistFails, ClearFails, Crash
<1> QED BY <1>2, <1>6, <1>7, <1>8 DEF Next, vars

\* The marker and the JSON snapshot stay sound.
LEMMA StoreStep ==
    ASSUME TypeOK, SoundInv, Grows, [Next]_vars PROVE StoreSound'
<1> USE DEF memory, finalizer, records, snapshot, consensus, bounds
<1>1. ChainSound /\ StoreSound /\ PreparedSound
  BY DEF SoundInv
<1>2. CASE marker' \subseteq marker /\ json' \subseteq json
  BY <1>1, <1>2, StoreKept
<1>3. CASE CommitState
  <2>1. Sound(cp, Executed', dag') /\ marker' = {cp} /\ json' = json
    BY <1>1, <1>3, CommitExecutes DEF CommitState
  <2>2. \A s \in json' : \A i \in DOMAIN s : Sound(s[i], Executed', dag')
    BY <1>1, <2>1, SoundGrows DEF StoreSound
  <2> QED BY <2>1, <2>2 DEF StoreSound
<1>4. CASE PersistJson
  <2>1. \A i \in DOMAIN chain.checkpoints : Sound(Stripped(chain.checkpoints[i]), Executed, dag)
    BY <1>1, StrippedSound DEF ChainSound, TypeOK, MemoryOK, Chain
  <2>2. \A i \in DOMAIN SlimCheckpoints(chain) : Sound(SlimCheckpoints(chain)[i], Executed, dag)
    BY <2>1 DEF SlimCheckpoints
  <2>3. UNCHANGED <<state, dag, marker>> /\ \A s \in json' : s = SlimCheckpoints(chain)
    BY <1>4 DEF PersistJson
  <2> QED BY <1>1, <2>2, <2>3 DEF StoreSound, Executed
<1>5. CASE Finalize
  BY <1>2, <1>3, <1>5 DEF Finalize, FinalizeReady, SkipExisting, FilterTx, SkipEmpty, Prepare,
     Acknowledge, AddToChain, AddRejected, Drain, ClearMarker
<1>6. CASE Start
  BY <1>2, <1>6 DEF Start, Boot, LoadJson, LoadRecords, LoadFreshGenesis, LoadRefused,
     RecoverMarker, MarkerRefused, ClearRecovered, BootDone
<1>7. CASE Submit \/ DagCommit \/ FastSelect \/ Persist \/ Fail \/ Crash
  BY <1>2, <1>4, <1>7 DEF Submit, SubmitCheck, SubmitAdmit, DagCommit, FastSelect, Persist,
     PersistOne, PersistThrough, PruneOne, PruneThrough, Fail, PrepareFails, FastFails, CommitFails,
     PersistFails, ClearFails, Crash
<1> QED BY <1>2, <1>5, <1>6, <1>7 DEF Next, vars

\* What Prepared builds: the state with one more block, which runs exactly the
\* transactions that are not committed.
LEMMA PreparedBlock ==
    ASSUME MemoryOK, StoreOK, NEW v, NEW txs \in Seq(Tx),
           cp' = Prepared(v, txs), UNCHANGED state
    PROVE  /\ cp'.vertices = v /\ cp'.transactions = txs
           /\ cp'.state_root = Append(state, NewBlock')
           /\ NewBlock'.run = {t \in Range(txs) : ~Committed(t)}
<1> DEFINE b == [txs |-> txs, run |-> {t \in Range(txs) : ~Committed(t)}]
<1>1. state \in Seq(Block) /\ b \in Block
  BY RangeType DEF StoreOK, StateLog, Block
<1>2. cp'.vertices = v /\ cp'.transactions = txs /\ cp'.state_root = Append(state, b)
  BY DEF Prepared
<1>3. b.run = {t \in Range(txs) : ~Committed(t)}
  OBVIOUS
<1> HIDE DEF b
<1>4. Append(state, b)[Len(state) + 1] = b
  BY <1>1
<1>5. NewBlock' = b
  BY <1>2, <1>4 DEF NewBlock
<1> QED BY <1>2, <1>3, <1>5

\* The prepared checkpoint stays one that the commit makes sound.
LEMMA PreparedStep ==
    ASSUME TypeOK, SoundInv, Grows, [Next]_vars PROVE PreparedSound'
<1> USE DEF memory, finalizer, records, snapshot, consensus, bounds
<1>1. ChainSound /\ RecordsSound /\ PreparedSound /\ BatchSound
  BY DEF SoundInv
<1>2. CASE pc' # "commit"
  BY <1>2 DEF PreparedSound
<1>3. CASE UNCHANGED <<pc, cp, state>>
  <2>1. Executed' = Executed /\ NewBlock' = NewBlock
    BY <1>3 DEF Executed, NewBlock
  <2> QED BY <1>1, <1>3, <2>1 DEF PreparedSound, Grows
<1>4. \A t : Committed(t) => t \in Executed
  BY <1>1 DEF Committed, ChainSound, RecordsSound
<1>5. CASE Prepare
  <2>1. UNCHANGED <<state, dag>> /\ cp' = Prepared(cur, picked) /\ picked \in Seq(Tx)
    BY <1>5 DEF Prepare, TypeOK, FinalizerOK
  <2>2. /\ cp'.vertices = cur /\ cp'.transactions = picked
        /\ cp'.state_root = Append(state, NewBlock')
        /\ NewBlock'.run = {t \in Range(picked) : ~Committed(t)}
    BY <2>1, PreparedBlock DEF TypeOK
  <2>3. Executed' = Executed
    BY <2>1 DEF Executed
  <2>4. /\ cur >= 1 /\ cur <= pendingTo /\ pendingTo <= Len(dag) /\ scan = Len(dag[cur])
        /\ cur \in Nat /\ pendingTo \in Nat
        /\ \A i \in 1..scan : dag[cur][i] \in Executed \cup Range(picked)
    BY <1>1, <1>5 DEF Prepare, Scanned, InDag, BatchSound, TypeOK, FinalizerOK
  <2>5. cur \in DOMAIN dag /\ dag[cur] \in Seq(Tx)
    <3>1. dag \in Seq(Seq(Tx))
      BY DEF TypeOK, EnvironmentOK
    <3>2. cur \in 1..Len(dag)
      BY <2>4, <3>1
    <3> QED BY <3>1, <3>2
  <2>6. Range(dag[cur]) \subseteq Executed \cup Range(picked)
    BY <2>4, <2>5, RangeWithin
  <2> QED BY <1>4, <2>1, <2>2, <2>3, <2>5, <2>6 DEF PreparedSound
<1>6. CASE FastSelect
  <2>1. PICK sel \in Seq(Tx) : cp' = Prepared(NoVertices, sel)
    BY <1>6, FastSelection DEF TypeOK
  <2>2. UNCHANGED <<state, dag>>
    BY <1>6 DEF FastSelect
  <2>3. /\ cp'.vertices = NoVertices /\ cp'.transactions = sel
        /\ cp'.state_root = Append(state, NewBlock')
        /\ NewBlock'.run = {t \in Range(sel) : ~Committed(t)}
    BY <2>1, <2>2, PreparedBlock DEF TypeOK
  <2>4. Executed' = Executed
    BY <2>2 DEF Executed
  <2> QED BY <1>4, <2>2, <2>3, <2>4 DEF PreparedSound
<1>7. CASE Finalize
  BY <1>2, <1>5, <1>7 DEF Finalize, FinalizeReady, SkipExisting, FilterTx, SkipEmpty, NextBatch,
     Acknowledge, CommitState, AddToChain, AddRejected, Drain, ClearMarker, Return, LocalsGone
<1>8. CASE Start
  BY <1>2, <1>8 DEF Start, Boot, LoadJson, LoadRecords, LoadFreshGenesis, LoadRefused,
     RecoverMarker, MarkerRefused, StopProcess, ClearRecovered, BootDone, Return, LocalsGone
<1>9. CASE Persist \/ Fail \/ Crash
  BY <1>2, <1>3, <1>9 DEF Persist, PersistOne, PersistThrough, PersistJson, AfterPersist, PruneOne,
     PruneThrough, Fail, PrepareFails, FastFails, CommitFails, PersistFails, ClearFails, Crash,
     StopProcess, Return, LocalsGone
<1>10. CASE Submit \/ DagCommit
  BY <1>3, <1>10 DEF Submit, SubmitCheck, SubmitAdmit, DagCommit
<1> QED BY <1>3, <1>6, <1>7, <1>8, <1>9, <1>10 DEF Next, vars

\* The finalizer's progress stays sound.
LEMMA BatchStep ==
    ASSUME TypeOK, TypeOK', SoundInv, Grows, [Next]_vars PROVE BatchSound'
<1> USE DEF memory, finalizer, records, snapshot, consensus, bounds
<1>1. /\ ChainSound /\ RecordsSound /\ BatchSound /\ CommittedSound
      /\ AckedExecuted /\ acked <= Len(dag)
  BY DEF SoundInv
<1>d. DOMAIN dag = 1..Len(dag) /\ Len(dag) \in Nat /\ \A k \in DOMAIN dag : dag[k] \in Seq(Tx)
  <2>1. dag \in Seq(Seq(Tx))
    BY DEF TypeOK, EnvironmentOK
  <2> QED BY <2>1
<1>n. cur \in Nat /\ pendingTo \in Nat /\ scan \in Nat /\ pendingTo <= Len(dag)
  BY DEF TypeOK, FinalizerOK
<1>p. picked \in Seq(Tx) /\ acked \in Nat
  BY DEF TypeOK, FinalizerOK, EnvironmentOK
\* The current sub-DAG is one of those consensus delivered.
<1>c. ASSUME mode \in {"producer", "network"}, cur <= pendingTo
      PROVE  cur >= 1 /\ cur \in DOMAIN dag /\ dag[cur] \in Seq(Tx) /\ Len(dag[cur]) \in Nat
  <2>1. cur >= 1
    BY <1>c DEF TypeOK, FinalizerOK
  <2>2. cur \in DOMAIN dag
    BY <1>c, <1>d, <1>n, <2>1
  <2>3. dag[cur] \in Seq(Tx)
    BY <1>d, <2>2
  <2> QED BY <2>1, <2>2, <2>3
<1>2. CASE mode' \notin {"producer", "network"}
  BY <1>2 DEF BatchSound
<1>3. ASSUME mode \in {"producer", "network"}
      PROVE  \A k \in 1..(cur - 1) : k \in DOMAIN dag' => Range(dag'[k]) \subseteq Executed'
  <2> SUFFICES ASSUME NEW k \in 1..(cur - 1) PROVE Range(dag'[k]) \subseteq Executed'
    OBVIOUS
  <2>1. cur <= pendingTo + 1
    <3>1. CASE pc = "batch"
      BY <1>1, <1>3, <3>1 DEF BatchSound
    <3>2. CASE pc # "batch"
      <4>1. cur <= pendingTo
        BY <1>1, <1>3, <3>2 DEF BatchSound
      <4> QED BY <1>n, <4>1
    <3> QED BY <3>1, <3>2
  <2>2. k \in DOMAIN dag
    BY <1>d, <1>n, <2>1
  <2>3. Range(dag[k]) \subseteq Executed
    BY <1>1, <1>3, <2>2 DEF BatchSound
  <2> QED BY <2>2, <2>3 DEF Grows
<1>4. CASE UNCHANGED <<mode, pc, cur, pendingTo, scan, picked, cp>>
  <2>1. CASE mode \notin {"producer", "network"}
    BY <1>2, <1>4, <2>1
  <2>2. CASE mode \in {"producer", "network"} /\ pc = "batch" /\ cur <= pendingTo
    <3>0. cur \in DOMAIN dag
      BY <1>c, <2>2
    <3>1. dag'[cur] = dag[cur]
      BY <3>0 DEF Grows
    <3> QED BY <1>1, <1>3, <1>4, <2>2, <3>1 DEF BatchSound, Grows
  <2>3. CASE mode \in {"producer", "network"} /\ ~(pc = "batch" /\ cur <= pendingTo)
    BY <1>1, <1>3, <1>4, <2>3 DEF BatchSound
  <2> QED BY <2>1, <2>2, <2>3
\* A step within one checkpoint: only pc, and cursor, change.
<1>5. CASE /\ UNCHANGED <<mode, cur, pendingTo, scan, picked, cp>>
           /\ pc # "batch" /\ pc' # "batch"
  BY <1>1, <1>2, <1>3, <1>5 DEF BatchSound
\* The next sub-DAG, when all of the current one is executed.
<1>6. CASE /\ NextBatch /\ mode \in {"producer", "network"} /\ cur <= pendingTo
           /\ UNCHANGED <<state, dag>> /\ Range(dag[cur]) \subseteq Executed
  <2>1. Executed' = Executed
    BY <1>6 DEF Executed
  <2>0. cur' = cur + 1 /\ dag' = dag
    BY <1>6 DEF NextBatch
  <2>2. ASSUME NEW k \in 1..(cur' - 1), k \in DOMAIN dag' PROVE Range(dag'[k]) \subseteq Executed'
    <3>1. CASE k = cur
      BY <1>6, <2>0, <2>1, <3>1
    <3>2. CASE k # cur
      <4>1. k \in 1..(cur - 1)
        BY <1>n, <2>0, <3>2
      <4> QED BY <1>3, <1>6, <2>2, <4>1
    <3> QED BY <3>1, <3>2
  <2>3. cur' <= pendingTo' + 1 /\ scan' = 0 /\ pc' = "batch"
    BY <1>6, <1>n DEF NextBatch
  <2>4. ASSUME cur' <= pendingTo' PROVE scan' <= Len(dag'[cur'])
    <3>1. cur + 1 \in DOMAIN dag
      <4>1. cur + 1 <= pendingTo
        BY <1>6, <2>4 DEF NextBatch
      <4> QED BY <1>d, <1>n, <4>1
    <3>2. Len(dag[cur + 1]) \in Nat
      BY <1>d, <3>1
    <3> QED BY <1>6, <2>0, <2>3, <3>2
  <2>5. 1..scan' = {}
    BY <2>3
  <2> QED BY <2>2, <2>3, <2>4, <2>5 DEF BatchSound
<1>7. ASSUME NEW caller \in {"producer", "network"}, FinalizeReady(caller) PROVE BatchSound'
  <2>1. /\ pc' = "batch" /\ cur' = acked + 1 /\ pendingTo' = PendingList /\ scan' = 0
        /\ UNCHANGED <<state, dag>>
    BY <1>7 DEF FinalizeReady
  <2>0. Executed' = Executed
    BY <2>1 DEF Executed
  <2>2. \A k \in 1..(cur' - 1) : Range(dag'[k]) \subseteq Executed'
    <3>1. \A k \in 1..acked : Range(dag[k]) \subseteq Executed
      BY <1>1 DEF AckedExecuted
    <3>2. cur' - 1 = acked
      BY <1>p, <2>1
    <3> QED BY <2>0, <2>1, <3>1, <3>2
  <2>5. PendingList \in Nat /\ acked <= PendingList /\ PendingList <= Len(dag)
    BY <1>1, <1>d, <1>n, <1>p DEF PendingList
  <2>3. cur' <= pendingTo' + 1 /\ (cur' <= pendingTo' => scan' <= Len(dag'[cur']))
    <3>1. cur' <= pendingTo' + 1
      BY <1>p, <2>1, <2>5
    <3>2. ASSUME acked + 1 <= PendingList PROVE Len(dag[acked + 1]) \in Nat
      <4>1. acked + 1 \in DOMAIN dag
        BY <1>d, <1>p, <2>5, <3>2
      <4>2. dag[acked + 1] \in Seq(Tx)
        BY <1>d, <4>1
      <4> QED BY <4>2
    <3> QED BY <2>1, <3>1, <3>2
  <2>4. 1..scan' = {}
    BY <2>1
  <2> QED BY <2>1, <2>2, <2>3, <2>4 DEF BatchSound
<1>8. CASE SkipExisting
  <2>1. mode \in {"producer", "network"} /\ cur <= pendingTo /\ NextBatch
    BY <1>8 DEF SkipExisting, InDag
  <2>2. PICK i \in DOMAIN chain.checkpoints : chain.checkpoints[i].vertices = cur
    BY <1>8 DEF SkipExisting, AlreadyCheckpointed
  <2>0. cur # NoVertices
    BY <1>c, <2>1 DEF NoVertices
  <2>3. Range(dag[cur]) \subseteq Executed
    BY <1>1, <2>0, <2>2 DEF ChainSound, Sound
  <2> QED BY <1>6, <1>8, <2>1, <2>3 DEF SkipExisting
<1>9. CASE SkipEmpty
  <2>1. mode \in {"producer", "network"} /\ cur <= pendingTo /\ NextBatch
    BY <1>9 DEF SkipEmpty, Scanned, InDag
  <2>2. pc = "batch" /\ scan = Len(dag[cur]) /\ Range(picked) = {}
    BY <1>9, RangeEmpty DEF SkipEmpty, Scanned
  <2>0. \A i \in 1..scan : dag[cur][i] \in Executed
    BY <1>1, <2>1, <2>2 DEF BatchSound
  <2>3. dag[cur] \in Seq(Tx)
    BY <1>c, <2>1
  <2>4. Range(dag[cur]) \subseteq Executed
    BY <2>0, <2>2, <2>3, RangeWithin
  <2> QED BY <1>6, <1>9, <2>1, <2>4 DEF SkipEmpty
<1>10. CASE ClearMarker
  <2>1. CASE Return
    BY <1>2, <2>1 DEF Return, LocalsGone
  <2>2. CASE NextBatch /\ mode \in {"producer", "network"}
    <3>1. Sound(cp, Executed, dag) /\ cp.vertices = cur /\ cur <= pendingTo
      BY <1>1, <1>10, <2>2 DEF ClearMarker, CommittedSound, BatchSound
    <3>0. cur # NoVertices
      BY <1>c, <2>2, <3>1 DEF NoVertices
    <3>2. Range(dag[cur]) \subseteq Executed
      BY <3>0, <3>1 DEF Sound
    <3> QED BY <1>6, <1>10, <2>2, <3>1, <3>2 DEF ClearMarker
  <2>3. CASE NextBatch /\ mode \notin {"producer", "network"}
    BY <1>2, <2>3 DEF NextBatch
  <2> QED BY <1>10, <2>1, <2>2, <2>3 DEF ClearMarker
<1>11. CASE FilterTx
  <2> DEFINE t == dag[cur][scan + 1]
  <2>1. /\ mode \in {"producer", "network"} /\ pc = "batch" /\ cur <= pendingTo /\ scan < Len(dag[cur])
        /\ scan' = scan + 1 /\ picked' = IF Keep(t) THEN Append(picked, t) ELSE picked
        /\ UNCHANGED <<mode, pc, cur, pendingTo, state, dag>>
    BY <1>11 DEF FilterTx, InDag
  <2>2. dag[cur] \in Seq(Tx) /\ t \in Tx
    <3>1. dag[cur] \in Seq(Tx) /\ Len(dag[cur]) \in Nat
      BY <1>c, <2>1
    <3>2. scan < Len(dag[cur])
      BY <2>1
    <3>3. scan + 1 \in 1..Len(dag[cur])
      BY <1>n, <3>1, <3>2
    <3> QED BY <3>1, <3>3
  <2>3. Executed' = Executed
    BY <2>1 DEF Executed
  <2>4. Range(Append(picked, t)) = Range(picked) \cup {t}
    <3> HIDE DEF t
    <3> QED BY <1>p, <2>2, RangeAppend
  <2>5. t \in Executed' \cup Range(picked')
    <3>1. CASE Keep(t)
      BY <2>1, <2>4, <3>1
    <3>2. CASE ~Keep(t)
      BY <1>1, <2>1, <2>3, <3>2 DEF Keep, Committed, ChainSound, RecordsSound
    <3> QED BY <3>1, <3>2
  <2>6. Range(picked) \subseteq Range(picked')
    BY <2>1, <2>4
  <2>7. \A i \in 1..scan : dag[cur][i] \in Executed \cup Range(picked)
    BY <1>1, <2>1 DEF BatchSound
  <2>8. ASSUME NEW i \in 1..scan' PROVE dag'[cur'][i] \in Executed' \cup Range(picked')
    <3>0. scan \in Nat /\ scan' = scan + 1
      BY <1>n, <2>1
    <3>1. i \in 1..scan \/ i = scan + 1
      BY <3>0
    <3>2. dag'[cur'][i] = dag[cur][i]
      BY <2>1
    <3> HIDE DEF t
    <3>3. CASE i \in 1..scan
      BY <2>3, <2>6, <2>7, <3>2, <3>3
    <3>4. CASE i = scan + 1
      BY <2>5, <3>2, <3>4 DEF t
    <3> QED BY <3>1, <3>3, <3>4
  <2>9. scan' <= Len(dag'[cur'])
    <3>1. Len(dag[cur]) \in Nat /\ scan < Len(dag[cur])
      BY <1>c, <2>1
    <3>2. scan + 1 <= Len(dag[cur])
      BY <1>n, <3>1
    <3> QED BY <2>1, <3>2
  <2>10. cur' <= pendingTo' + 1
    BY <1>1, <2>1 DEF BatchSound
  <2> QED BY <1>3, <2>1, <2>8, <2>9, <2>10 DEF BatchSound
<1>12. CASE Prepare
  <2>1. cp'.vertices = cur
    BY <1>12 DEF Prepare, Prepared
  <2> QED BY <1>3, <1>12, <2>1 DEF Prepare, Scanned, InDag, BatchSound
<1>13. CASE Finalize
  BY <1>2, <1>5, <1>7, <1>8, <1>9, <1>10, <1>11, <1>12, <1>13
  DEF Finalize, Acknowledge, CommitState, AddToChain, AddRejected, Drain, Return, LocalsGone
<1>14. CASE Start
  BY <1>2, <1>5, <1>14 DEF Start, Boot, LoadJson, LoadRecords, LoadFreshGenesis, LoadRefused,
     RecoverMarker, MarkerRefused, AtMarker, StopProcess, ClearRecovered, BootDone, Return, LocalsGone
<1>15. CASE Persist
  BY <1>5, <1>15 DEF Persist, PersistOne, PersistThrough, PersistJson, AfterPersist, PruneOne,
     PruneThrough
<1>16. CASE FastSelect \/ Fail \/ Crash
  BY <1>2, <1>4, <1>5, <1>16 DEF FastSelect, Fail, PrepareFails, FastFails, CommitFails,
     PersistFails, ClearFails, Crash, StopProcess, Return, LocalsGone
<1>17. CASE Submit \/ DagCommit
  BY <1>4, <1>17 DEF Submit, SubmitCheck, SubmitAdmit, DagCommit
<1> QED BY <1>4, <1>13, <1>14, <1>15, <1>16, <1>17 DEF Next, vars

\* The checkpoint being finalized stays sound once it is committed.
LEMMA CommittedStep ==
    ASSUME TypeOK, SoundInv, Grows, [Next]_vars PROVE CommittedSound'
<1> USE DEF memory, finalizer, records, snapshot, consensus, bounds
<1> DEFINE Post == {"add", "persist", "json", "prune", "drain", "clear"}
<1>1. PreparedSound /\ CommittedSound
  BY DEF SoundInv
<1>2. CASE status' # "up" \/ pc' \notin Post
  BY <1>2 DEF CommittedSound
<1>3. CASE status = "up" /\ pc \in Post /\ UNCHANGED cp
  BY <1>1, <1>3, SoundGrows DEF CommittedSound
<1>4. CASE CommitState
  BY <1>1, <1>4, CommitExecutes DEF CommitState, CommittedSound
<1>5. CASE Finalize
  BY <1>2, <1>3, <1>4, <1>5 DEF Finalize, FinalizeReady, SkipExisting, FilterTx, SkipEmpty,
     Prepare, Acknowledge, AddToChain, AddRejected, Drain, ClearMarker, NextBatch, Return, LocalsGone
<1>6. CASE Start
  BY <1>2, <1>6 DEF Start, Boot, LoadJson, LoadRecords, LoadFreshGenesis, LoadRefused,
     RecoverMarker, MarkerRefused, AtMarker, StopProcess, ClearRecovered, BootDone, Return, LocalsGone
<1>7. CASE Persist
  BY <1>2, <1>3, <1>7 DEF Persist, PersistOne, PersistThrough, PersistJson, PruneOne,
     PruneThrough, Running
<1>8. CASE Fail
  BY <1>2, <1>8 DEF Fail, PrepareFails, FastFails, Idle, CommitFails, PersistFails, ClearFails,
     StopProcess, Return, LocalsGone
<1>9. CASE FastSelect \/ Crash
  BY <1>2, <1>9 DEF FastSelect, Crash, StopProcess, Return, LocalsGone
<1>10. CASE Submit \/ DagCommit \/ UNCHANGED vars
  BY <1>2, <1>3, <1>10 DEF Submit, SubmitCheck, SubmitAdmit, DagCommit, vars
<1> QED BY <1>4, <1>5, <1>6, <1>7, <1>8, <1>9, <1>10 DEF Next

\* What is acknowledged is executed: the list is acknowledged after its last sub-DAG.
LEMMA AckedStep ==
    ASSUME TypeOK, TypeOK', SoundInv, Grows, [Next]_vars
    PROVE  AckedExecuted' /\ acked' <= Len(dag')
<1> USE DEF memory, finalizer, records, snapshot, consensus, bounds
<1>1. BatchSound /\ AckedExecuted /\ acked <= Len(dag)
  BY DEF SoundInv
<1>2. CASE UNCHANGED acked
  BY <1>1, <1>2, AckedKept DEF TypeOK
<1>3. CASE Acknowledge
  <2>1. /\ mode \in {"producer", "network"} /\ cur > pendingTo /\ acked' = pendingTo
        /\ UNCHANGED <<state, dag>>
    BY <1>3 DEF Acknowledge, InDag
  <2>2. /\ cur \in Nat /\ pendingTo \in Nat /\ pendingTo <= Len(dag)
        /\ DOMAIN dag = 1..Len(dag) /\ Len(dag) \in Nat
    <3>1. cur \in Nat /\ pendingTo \in Nat /\ pendingTo <= Len(dag)
      BY DEF TypeOK, FinalizerOK
    <3>2. dag \in Seq(Seq(Tx))
      BY DEF TypeOK, EnvironmentOK
    <3> QED BY <3>1, <3>2
  <2>3. Executed' = Executed
    BY <2>1 DEF Executed
  <2>4. \A k \in 1..(cur - 1) : k \in DOMAIN dag => Range(dag[k]) \subseteq Executed
    BY <1>1, <2>1 DEF BatchSound
  <2> QED BY <2>1, <2>2, <2>3, <2>4 DEF AckedExecuted
<1>4. CASE Finalize
  BY <1>2, <1>3, <1>4 DEF Finalize, FinalizeReady, SkipExisting, FilterTx, SkipEmpty,
     Prepare, CommitState, AddToChain, AddRejected, Drain, ClearMarker
<1>5. CASE Start
  BY <1>2, <1>5 DEF Start, Boot, LoadJson, LoadRecords, LoadFreshGenesis, LoadRefused,
     RecoverMarker, MarkerRefused, ClearRecovered, BootDone
<1>6. CASE Persist \/ Fail
  BY <1>2, <1>6 DEF Persist, PersistOne, PersistThrough, PersistJson, PruneOne, PruneThrough,
     Fail, PrepareFails, FastFails, CommitFails, PersistFails, ClearFails
<1>7. CASE Submit \/ DagCommit \/ FastSelect \/ Crash \/ UNCHANGED vars
  BY <1>2, <1>7 DEF Submit, SubmitCheck, SubmitAdmit, DagCommit, FastSelect, Crash, vars
<1> QED BY <1>4, <1>5, <1>6, <1>7 DEF Next

\* The invariant holds of a new node.
LEMMA SoundInit == Init => SoundInv
<1> SUFFICES ASSUME Init PROVE SoundInv
  OBVIOUS
<1>1. ChainSound
  BY GenesisSound DEF Init, ChainSound
<1>2. RecordsSound /\ StoreSound
  <2>1. /\ txIndex = {} /\ DOMAIN meta = {} /\ DOMAIN payloads = {}
        /\ marker = {} /\ json = {}
    BY DEF Init
  <2> QED BY <2>1 DEF RecordsSound, StoreSound
<1>3. PreparedSound /\ BatchSound /\ CommittedSound
  BY DEF Init, PreparedSound, BatchSound, CommittedSound
<1>4. AckedExecuted /\ acked <= Len(dag)
  BY DEF Init, AckedExecuted
<1> QED BY <1>1, <1>2, <1>3, <1>4 DEF SoundInv

\* Every step keeps the invariant.
LEMMA SoundStep == TypeOK /\ SoundInv /\ [Next]_vars => SoundInv'
<1> SUFFICES ASSUME TypeOK, SoundInv, [Next]_vars PROVE SoundInv'
  OBVIOUS
<1>1. TypeOK'
  BY TypeStep
<1>2. Grows
  BY GrowsStep DEF SoundInv
<1>3. ChainSound' /\ RecordsSound' /\ StoreSound'
  BY <1>2, ChainStep, RecordsStep, StoreStep
<1>4. PreparedSound' /\ CommittedSound'
  BY <1>2, PreparedStep, CommittedStep
<1>5. BatchSound' /\ AckedExecuted' /\ acked' <= Len(dag')
  BY <1>1, <1>2, BatchStep, AckedStep
<1> QED BY <1>3, <1>4, <1>5 DEF SoundInv

\* Nothing committed is ever missing from the state: the invariant above always holds.
THEOREM CommittedIsExecuted == Spec => []SoundInv
BY TypeCorrect, SoundInit, SoundStep, PTL DEF Spec

\* No acknowledged transaction is lost: ack_committed_batches only drops sub-DAGs
\* whose every transaction the state has executed, whatever the configuration, the
\* faults and the crashes (also with pruning, and with the JSON snapshot).
THEOREM NothingAckedIsLost == Spec => []AckedExecuted
<1>1. SoundInv => AckedExecuted
  BY DEF SoundInv
<1> QED BY <1>1, CommittedIsExecuted, PTL

-----------------------------------------------------------------------------
(* Exactly-once execution when the hash index is written with the state.   *)

\* What is executed is in the durable index, so a prepared checkpoint runs nothing
\* again, and the index is extended by the batch that makes the state durable.
OnceInv ==
    /\ Executed \subseteq txIndex
    /\ pc = "commit" => /\ cp.sequence # 0
                        /\ NewBlock.run \subseteq Range(cp.transactions)
                        /\ NewBlock.run \cap txIndex = {}
    /\ ExactlyOnce

\* A step that leaves the state alone and does not shrink the index.
LEMMA OnceKept ==
    ASSUME OnceInv, UNCHANGED state, txIndex \subseteq txIndex',
           pc' # "commit" \/ UNCHANGED <<pc, cp, txIndex>>
    PROVE  OnceInv'
<1>1. Executed' = Executed /\ (ExactlyOnce => ExactlyOnce')
  BY DEF Executed, ExactlyOnce
<1>2. UNCHANGED <<pc, cp, txIndex>> => NewBlock' = NewBlock
  BY DEF NewBlock
<1> QED BY <1>1, <1>2 DEF OnceInv

\* The records of a checkpoint never shrink the index.
LEMMA WriteGrowsIndex == ASSUME NEW c, WriteRecords(c) PROVE txIndex \subseteq txIndex'
BY DEF WriteRecords

\* Preparing a checkpoint leaves out of the execution what is in the index.
LEMMA OncePrepared ==
    ASSUME TypeOK, OnceInv, UNCHANGED <<state, txIndex>>, NEW v, NEW txs \in Seq(Tx),
           cp' = Prepared(v, txs)
    PROVE  OnceInv'
<1>1. Executed' = Executed /\ (ExactlyOnce => ExactlyOnce')
  BY DEF Executed, ExactlyOnce
<1>2. cp'.transactions = txs /\ NewBlock'.run = {t \in Range(txs) : ~Committed(t)}
  BY PreparedBlock DEF TypeOK
<1>3. cp'.sequence # 0
  <2>1. Height(chain) \in Nat
    BY LatestType DEF TypeOK, MemoryOK, Height, Checkpoint
  <2>2. cp'.sequence = Height(chain) + 1
    BY DEF Prepared
  <2> QED BY <2>1, <2>2
<1> QED BY <1>1, <1>2, <1>3 DEF OnceInv, Committed

\* Every step keeps the invariant.
LEMMA OnceStep ==
    ASSUME InlineMetadata, TxIndex, TypeOK, SoundInv, OnceInv, [Next]_vars PROVE OnceInv'
<1> USE DEF memory, finalizer, records, snapshot, consensus, bounds
<1>1. CASE CommitState
  <2>1. /\ PreparedSound /\ pc = "commit" /\ pc' = "add" /\ state' = Append(state, NewBlock)
        /\ WriteRecords(cp)
    BY <1>1 DEF SoundInv, PreparedSound, CommitState
  <2>2. Executed' = Executed \cup NewBlock.run
    BY <1>1, <2>1, CommitExecutes
  <2>3. /\ NewBlock.run \subseteq Range(cp.transactions) /\ NewBlock.run \cap txIndex = {}
        /\ cp.sequence # 0 /\ Executed \subseteq txIndex /\ ExactlyOnce
    BY <2>1 DEF OnceInv
  <2>4. Executed' \subseteq txIndex'
    <3>1. CASE cp.transactions = <<>>
      <4>1. NewBlock.run = {}
        BY <2>3, <3>1, RangeEmpty
      <4> QED BY <2>1, <2>2, <2>3, <4>1, WriteGrowsIndex
    <3>2. CASE cp.transactions # <<>>
      BY <2>1, <2>2, <2>3, <3>2 DEF WriteRecords, NonEmpty
    <3> QED BY <3>1, <3>2
  <2>5. ExactlyOnce'
    <3>1. state \in Seq(Block) /\ NewBlock \in Block
      <4>1. state \in Seq(Block) /\ cp.state_root \in Seq(Block) /\ cp.state_root = state'
        BY <1>1 DEF TypeOK, StoreOK, FinalizerOK, StateLog, Checkpoint, CommitState
      <4>2. PICK n \in Nat : n = Len(state)
        BY <4>1
      <4>3. DOMAIN state' = 1..(n + 1)
        <5>1. state' = Append(state, NewBlock)
          BY <2>1
        <5> QED BY <4>1, <4>2, <5>1, SMTT(20)
      <4> QED BY <4>1, <4>2, <4>3 DEF NewBlock
    <3>2. PICK n \in Nat : n = Len(state)
      BY <3>1
    <3>0. state' = Append(state, NewBlock)
      BY <2>1
    <3>3. /\ DOMAIN state = 1..n /\ DOMAIN state' = 1..(n + 1)
          /\ state'[n + 1] = NewBlock /\ \A i \in 1..n : state'[i] = state[i]
      BY <3>0, <3>1, <3>2
    <3>4. \A i \in 1..n : state[i].run \cap NewBlock.run = {}
      <4>1. \A i \in 1..n : state[i].run \subseteq Executed
        BY <3>3 DEF Executed
      <4> QED BY <2>3, <4>1
    <3>5. ASSUME NEW i \in 1..(n + 1), NEW j \in 1..(n + 1), i # j
          PROVE  state'[i].run \cap state'[j].run = {}
      <4>1. CASE i \in 1..n /\ j \in 1..n
        BY <2>3, <3>3, <3>5, <4>1 DEF ExactlyOnce
      <4>2. CASE i = n + 1 /\ j \in 1..n
        BY <3>3, <3>4, <4>2
      <4>3. CASE i \in 1..n /\ j = n + 1
        BY <3>3, <3>4, <4>3
      <4>4. (i \in 1..n \/ i = n + 1) /\ (j \in 1..n \/ j = n + 1)
        BY <3>2
      <4> QED BY <3>5, <4>1, <4>2, <4>3, <4>4
    <3> QED BY <3>3, <3>5 DEF ExactlyOnce
  <2> QED BY <2>1, <2>4, <2>5 DEF OnceInv
<1>2. CASE Prepare
  BY <1>2, OncePrepared DEF Prepare, TypeOK, FinalizerOK
<1>3. CASE FastSelect
  <2>1. PICK sel \in Seq(Tx) : cp' = Prepared(NoVertices, sel)
    BY <1>3, FastSelection DEF TypeOK
  <2> QED BY <1>3, <2>1, OncePrepared DEF FastSelect
<1>4. CASE Persist
  <2>1. CASE PersistOne
    BY <2>1, OnceKept, WriteGrowsIndex DEF PersistOne
  <2> QED BY <1>4, <2>1, OnceKept DEF Persist, PersistThrough, PersistJson, AfterPersist, PruneOne,
             PruneThrough
<1>5. CASE Finalize
  BY <1>1, <1>2, <1>5, OnceKept DEF Finalize, FinalizeReady, SkipExisting, FilterTx, SkipEmpty,
     NextBatch, Acknowledge, AddToChain, AddRejected, Drain, ClearMarker, Return, LocalsGone
<1>6. CASE Start
  BY <1>6, OnceKept DEF Start, Boot, LoadJson, LoadRecords, LoadFreshGenesis, LoadRefused,
     RecoverMarker, MarkerRefused, StopProcess, ClearRecovered, BootDone, Return, LocalsGone
<1>7. CASE Fail \/ Crash
  BY <1>7, OnceKept DEF Fail, PrepareFails, FastFails, CommitFails, PersistFails, ClearFails, Crash,
     StopProcess, Return, LocalsGone
<1>8. CASE Submit \/ DagCommit \/ UNCHANGED vars
  BY <1>8, OnceKept DEF Submit, SubmitCheck, SubmitAdmit, DagCommit, vars
<1> QED BY <1>3, <1>4, <1>5, <1>6, <1>7, <1>8 DEF Next

\* No transaction is executed twice, however long the history, however few checkpoints
\* are retained, and whatever crashes and faults occur, when the transaction hash index
\* is enabled and written in the state's own batch (finalize_checkpoint).
THEOREM ExecutedExactlyOnce ==
    ASSUME InlineMetadata, TxIndex PROVE Spec => []ExactlyOnce
<1>1. Init => OnceInv
  <2> SUFFICES ASSUME Init PROVE OnceInv
    OBVIOUS
  <2>1. DOMAIN state = {} /\ pc = "idle"
    BY DEF Init
  <2> QED BY <2>1 DEF OnceInv, Executed, ExactlyOnce
<1>2. TypeOK /\ SoundInv /\ OnceInv /\ [Next]_vars => OnceInv'
  BY OnceStep
<1>3. OnceInv => ExactlyOnce
  BY DEF OnceInv
<1> QED BY <1>1, <1>2, <1>3, TypeCorrect, CommittedIsExecuted, PTL DEF Spec

=============================================================================
