---------------------------- MODULE LedgerProofs ----------------------------
EXTENDS InlineProofs

-----------------------------------------------------------------------------
(* The engine implements Ledger, with the Move state as the log.           *)

\* The ledger's operators on functions are the engine's.
LEMMA LedgerFunctions ==
    \A f : Promise!Range(f) = Range(f) /\ (Promise!IsInjective(f) <=> IsInjective(f))
BY DEF Promise!Range, Range, Promise!IsInjective, IsInjective

\* Appending to a sequence is an append in the ledger's sense.
LEMMA AppendIsAppend ==
    ASSUME NEW S, NEW s \in Seq(S), NEW t \in Seq(S), Len(t) = Len(s) + 1,
           \A i \in 1..Len(s) : t[i] = s[i]
    PROVE  Promise!IsAppend(s, t)
<1>1. Len(s) \in Nat /\ \A i \in 1..Len(s) : t[i] \in S
  OBVIOUS
<1> DEFINE u == SubSeq(t, 1, Len(s))
<1>2. /\ u \in Seq(S) /\ Len(u) = IF 1 <= Len(s) THEN Len(s) - 1 + 1 ELSE 0
      /\ \A i \in 1..(Len(s) - 1 + 1) : u[i] = t[1 + i - 1]
  BY <1>1, SubSeqProperties
<1> HIDE DEF u
<1>3. Len(u) = Len(s) /\ Len(s) - 1 + 1 = Len(s) /\ \A i \in 1..Len(s) : 1 + i - 1 = i
  BY <1>1, <1>2
<1>4. \A i \in 1..Len(u) : u[i] = s[i]
  BY <1>2, <1>3
<1>5. u = s
  BY <1>2, <1>3, <1>4, SeqEqual
<1> QED BY <1>5 DEF Promise!IsAppend, u

\* Committing a checkpoint executes one block of the ledger.
LEMMA CommitIsExecute ==
    ASSUME InlineMetadata, TypeOK, TypeOK', SoundInv, InlineInv, CommitState
    PROVE  Promise!Execute
<1>1. PICK n \in Nat : n = Len(state)
  BY StateLen
<1>2. /\ Len(state') = n + 1 /\ \A q \in 1..n : state'[q] = state[q]
      /\ state'[n + 1].txs = cp.transactions
      /\ state'[n + 1].run = Range(cp.transactions)
  BY <1>1, CommitAppends
<1>3. state \in Seq(Block) /\ state' \in Seq(Block)
  BY DEF TypeOK, StoreOK, StateLog
<1>4. Promise!IsAppend(state, state')
  BY <1>1, <1>2, <1>3, AppendIsAppend
<1>5. Promise!Ran = Executed
  BY DEF Promise!Ran, Executed
<1>6. pc = "commit" /\ Picked /\ Control /\ UNCHANGED <<dag, acked>>
  BY DEF CommitState, InlineInv, consensus
<1>7. /\ cp.transactions # <<>> /\ IsInjective(cp.transactions)
      /\ Range(cp.transactions) \cap Executed = {}
  BY <1>6 DEF Picked
<1>8. \/ \E k \in (acked + 1)..Len(dag) : Range(cp.transactions) \subseteq Range(dag[k])
      \/ Range(cp.transactions) \subseteq (IF SingleAuthority THEN Owned ELSE {})
  <2>1. CASE mode = "fast"
    BY <1>6, <2>1 DEF Picked
  <2>2. CASE mode # "fast"
    <3>1. mode \in {"producer", "network"} /\ cur <= pendingTo
      BY <1>6, <2>2 DEF Control, SoundInv, BatchSound
    <3>2. /\ acked < cur /\ acked \in Nat /\ cur \in Nat /\ pendingTo \in Nat
          /\ pendingTo <= Len(dag) /\ Len(dag) \in Nat
      BY <1>6, <3>1 DEF Picked, TypeOK, FinalizerOK, EnvironmentOK
    <3>3. cur \in (acked + 1)..Len(dag)
      BY <3>1, <3>2
    <3> QED BY <1>6, <2>2, <3>3 DEF Picked
  <2> QED BY <2>1, <2>2
<1>9. PICK b : b = state'[Len(state')]
  OBVIOUS
<1>10. /\ b.txs # <<>> /\ IsInjective(b.txs) /\ b.run = Range(b.txs) /\ b.run \cap Executed = {}
       /\ \/ \E k \in (acked + 1)..Len(dag) : b.run \subseteq Range(dag[k])
          \/ b.run \subseteq (IF SingleAuthority THEN Owned ELSE {})
  BY <1>2, <1>7, <1>8, <1>9
<1> QED BY <1>4, <1>5, <1>6, <1>9, <1>10, LedgerFunctions DEF Promise!Execute

\* Every step of the engine is a step of the ledger or leaves it alone.
LEMMA LedgerStep ==
    ASSUME InlineMetadata, TypeOK, TypeOK', SoundInv, AckedExecuted', InlineInv, [Next]_vars
    PROVE  [Promise!Next]_<<state, dag, acked>>
<1> USE DEF memory, finalizer, records, snapshot, consensus, bounds
<1>1. CASE CommitState
  BY <1>1, CommitIsExecute DEF Promise!Next
<1>2. CASE DagCommit
  <2>1. PICK b \in Seq(Tx) : dag' = Append(dag, b)
    BY <1>2, DagAppends
  <2>2. dag \in Seq(Seq(Tx)) /\ dag' \in Seq(Seq(Tx))
    BY DEF TypeOK, EnvironmentOK
  <2>3. Len(dag') = Len(dag) + 1 /\ \A i \in 1..Len(dag) : dag'[i] = dag[i]
    BY <2>1, <2>2, AppendProperties
  <2>4. Promise!IsAppend(dag, dag')
    BY <2>2, <2>3, AppendIsAppend
  <2>5. UNCHANGED <<state, acked>>
    BY <1>2 DEF DagCommit
  <2> QED BY <2>4, <2>5 DEF Promise!Next, Promise!Order
<1>3. CASE Acknowledge
  <2>1. /\ mode \in {"producer", "network"} /\ acked' = pendingTo /\ UNCHANGED <<state, dag>>
        /\ pendingTo \in Nat /\ acked \in Nat /\ pendingTo <= Len(dag) /\ Len(dag) \in Nat
    BY <1>3 DEF Acknowledge, InDag, TypeOK, FinalizerOK, EnvironmentOK
  <2>2. acked < pendingTo
    BY <2>1 DEF InlineInv, Picked
  <2>3. acked' \in (acked + 1)..Len(dag)
    BY <2>1, <2>2
  <2>4. \A k \in 1..acked' : Range(dag[k]) \subseteq Executed
    BY <2>1 DEF AckedExecuted, Executed
  <2>5. Promise!Ran = Executed
    BY DEF Promise!Ran, Executed
  <2>6. Promise!Settle
    BY <2>1, <2>3, <2>4, <2>5, LedgerFunctions DEF Promise!Settle
  <2> QED BY <2>6 DEF Promise!Next
<1>4. CASE UNCHANGED <<state, dag, acked>>
  BY <1>4
<1>5. CASE Submit \/ FastSelect \/ Persist \/ Fail \/ Crash \/ UNCHANGED vars
  BY <1>4, <1>5 DEF Submit, SubmitCheck, SubmitAdmit, FastSelect, Persist, PersistOne,
     PersistThrough, PersistJson, PruneOne, PruneThrough, Fail, PrepareFails, FastFails,
     CommitFails, PersistFails, ClearFails, Crash, vars
<1>6. CASE Finalize
  BY <1>1, <1>3, <1>4, <1>6 DEF Finalize, FinalizeReady, SkipExisting, FilterTx, SkipEmpty, Prepare,
     AddToChain, AddRejected, Drain, ClearMarker
<1>7. CASE Start
  BY <1>4, <1>7 DEF Start, Boot, LoadJson, LoadRecords, LoadFreshGenesis, LoadRefused,
     RecoverMarker, MarkerRefused, ClearRecovered, BootDone
<1> QED BY <1>2, <1>5, <1>6, <1>7 DEF Next

\* The engine implements the ledger: through crashes, restarts and failing calls its
\* state is a log of new, non-empty blocks, each taken from one unsettled sub-DAG (or
\* from owned transactions, with one authority), and sub-DAGs are settled in order.
THEOREM EngineImplementsLedger ==
    ASSUME InlineMetadata, SingleAuthority => NoncesInRange
    PROVE  Spec /\ []Remembered => ImplementsLedger
<1>1. Init => Promise!Init
  BY DEF Init, Promise!Init
<1>2. /\ TypeOK /\ TypeOK' /\ SoundInv /\ AckedExecuted' /\ InlineInv /\ [Next]_vars
      => [Promise!Next]_<<state, dag, acked>>
  BY LedgerStep
<1> QED BY <1>1, <1>2, OneHistory, TypeCorrect, CommittedIsExecuted, NothingAckedIsLost, PTL
        DEF Spec, ImplementsLedger, Promise!Spec
=============================================================================
