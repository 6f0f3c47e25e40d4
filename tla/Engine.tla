------------------------------- MODULE Engine -------------------------------
(***************************************************************************)
(* One node's BlockchainEngine on a RocksDB store: transaction admission,  *)
(* finalization of the sub-DAGs consensus commits, the owned-object fast   *)
(* path of a single-authority node, the durable commit marker, checkpoint  *)
(* persistence and pruning, crashes, and recovery at start-up.             *)
(*                                                                         *)
(* An action is what runs between two points where another thread, or a    *)
(* crash, can be observed.  finalize_ready_commits holds finalization_lock,*)
(* so one finalizer is active at a time; the single-authority fast path    *)
(* runs in the same node loop.  RPC submitters run concurrently with both. *)
(***************************************************************************)
EXTENDS Blockchain, FiniteSets

CONSTANTS
    Senders, SenderOf, NonceOf,  \* the sender and the nonce of a transaction
    Owned,              \* transactions eligible for the owned fast path
    Submitters,         \* concurrent RPC submission threads
    MaxWatermark,       \* MAX_WATERMARK (2^53): stored nonces at or above read as 0
    MaxMempoolSize,     \* MAX_MEMPOOL_SIZE
    JsonSnapshot,       \* persist_blockchain_json_snapshot_enabled
    TxIndex,            \* persist_transaction_hash_index_enabled
    Retention,          \* history_retention_checkpoints, 0 when unset
    RequireRecoverable, \* require_recoverable_metadata (new_dir_required)
    SingleAuthority,    \* the authority set is this node alone
    Faults,             \* which calls may fail: "execute", "commit", "persist", "clear"
    MaxDag, MaxBatch, MaxSubmit, MaxFast, MaxCrashes, MaxFaults  \* bounds on the environment

ASSUME EngineAssumption ==
    /\ SenderOf \in [Tx -> Senders]
    /\ NonceOf \in [Tx -> Nat]
    /\ Owned \subseteq Tx
    /\ MaxWatermark \in Nat
    /\ MaxMempoolSize \in Nat
    /\ {JsonSnapshot, TxIndex, RequireRecoverable, SingleAuthority} \subseteq BOOLEAN
    /\ Retention \in Nat
    /\ Faults \subseteq {"execute", "commit", "persist", "clear"}
    /\ {MaxDag, MaxBatch, MaxSubmit, MaxFast, MaxCrashes, MaxFaults} \subseteq Nat

VARIABLES
    \* In memory.
    status,     \* "down", "boot", "up", or "refused": init returned an error for good
    chain,      \* the Blockchain
    mempool,    \* hashes of the pending transactions
    subm,       \* per submitter, the call in progress
    pc,         \* where the finalizer (or the start-up code) is
    mode,       \* who runs it: "none", "producer", "network", "fast", "load", "boot"
    cur,        \* the committed sub-DAG being finalized
    pendingTo,  \* the last sub-DAG returned by try_committed_batches
    scan,       \* transactions of the sub-DAG already looked at
    picked,     \* those kept for the checkpoint
    cp,         \* the prepared checkpoint
    cursor,     \* the last sequence the persistence loop has passed
    \* In the store.
    state,      \* the Move state
    marker,     \* pending_checkpoint_commit: {} or {checkpoint}
    meta,       \* checkpoint_meta/: sequence -> checkpoint without transactions
    payloads,   \* checkpoint_txs/: sequence -> transactions
    txIndex,    \* hashes with a transaction location record
    watermark,  \* sender -> highest committed nonce, NoNonce when absent
    persistedThrough, prunedThrough,    \* history_*_through, -1 and 0 when absent
    json,       \* the JSON chain snapshot: {} or {chain}
    \* Mysticeti, external: the committed sub-DAGs, and how many are acknowledged.
    dag, acked,
    \* Bounds.
    crashes, faults

memory == <<status, chain, mempool, subm>>
finalizer == <<pc, mode, cur, pendingTo, scan, picked, cp, cursor>>
records == <<meta, payloads, txIndex, watermark>>
snapshot == <<persistedThrough, prunedThrough, json>>
consensus == <<dag, acked>>
bounds == <<crashes, faults>>
vars == <<memory, finalizer, state, marker, records, snapshot, consensus, bounds>>

NoNonce == -1
NotSubmitting == [pc |-> "idle", txs |-> {}, executed |-> {}]
MinOf(a, b) == IF a <= b THEN a ELSE b

\* The finalizer, or the start-up code, returns: its local variables are gone, the
\* list of pending sub-DAGs stays.
LocalsGone ==
    /\ pc' = "idle" /\ mode' = "none" /\ cur' = 0 /\ scan' = 0
    /\ picked' = <<>> /\ cp' = Genesis /\ cursor' = 0

Return == LocalsGone /\ UNCHANGED pendingTo

\* finalize_checkpoint writes the checkpoint records in the state's own batch
\* when neither the JSON snapshot nor pruning is configured.
InlineMetadata == ~JsonSnapshot /\ Retention = 0

\* Mutants of Committed: only the index, or only the chain in memory, is consulted.
CommittedIndexOnly(t) == t \in txIndex
CommittedMemoryOnly(t) == t \in chain.executed

\* try_is_transaction_committed.
Committed(t) == t \in chain.executed \/ t \in txIndex

Init ==
    /\ status = "up" /\ chain = NewChain /\ mempool = {}
    /\ subm = [s \in Submitters |-> NotSubmitting]
    /\ pc = "idle" /\ mode = "none" /\ cur = 0 /\ pendingTo = 0 /\ scan = 0
    /\ picked = <<>> /\ cp = Genesis /\ cursor = 0
    /\ state = <<>> /\ marker = {}
    /\ meta = <<>> /\ payloads = <<>> /\ txIndex = {}
    /\ watermark = [s \in Senders |-> NoNonce]
    /\ persistedThrough = -1 /\ prunedThrough = 0 /\ json = {}
    /\ dag = <<>> /\ acked = 0
    /\ crashes = 0 /\ faults = 0

-----------------------------------------------------------------------------
(* Admission: submit_transactions_batch_internal.  The executed set is read*)
(* before the mempool lock is taken, everything else is checked under it.  *)

HasRoom(txs) == Cardinality(mempool) + Cardinality(txs) <= MaxMempoolSize

SubmitCheck(s, txs) ==
    /\ status = "up" /\ subm[s].pc = "idle"
    /\ subm' = IF HasRoom(txs) /\ \A t \in txs : NonceOf[t] < MaxWatermark
                 THEN [subm EXCEPT ![s] = [pc |-> "checked", txs |-> txs,
                                            executed |-> {t \in txs : Committed(t)}]]
                 ELSE subm
    /\ UNCHANGED <<status, chain, mempool, finalizer, state, marker, records, snapshot,
                   consensus, bounds>>

\* Mutant of Effective: the highest admissible nonce is capped too.
EffectiveLow(w) == IF w >= MaxWatermark - 1 THEN 0 ELSE w

\* A watermark at or above MaxWatermark is read as zero.
Effective(w) == IF w >= MaxWatermark THEN 0 ELSE w

\* Mutant of Stale: the committed nonce itself is let through.
StaleOffByOne(t) == Effective(watermark[SenderOf[t]]) > NonceOf[t]

Stale(t) == Effective(watermark[SenderOf[t]]) >= NonceOf[t]

Admissible(call) ==
    /\ HasRoom(call.txs)
    /\ call.txs \cap mempool = {}
    /\ call.executed = {}
    /\ \A t \in call.txs : ~Stale(t)

\* All or nothing: one rejected transaction rejects the batch.
SubmitAdmit(s) ==
    /\ status = "up" /\ subm[s].pc = "checked"
    /\ mempool' = IF Admissible(subm[s]) THEN mempool \cup subm[s].txs ELSE mempool
    /\ subm' = [subm EXCEPT ![s] = NotSubmitting]
    /\ UNCHANGED <<status, chain, finalizer, state, marker, records, snapshot, consensus,
                   bounds>>

-----------------------------------------------------------------------------
(* Consensus commits a sub-DAG.  Its transactions come from any authority, *)
(* possibly repeated within the sub-DAG or from an earlier one.  Owned     *)
(* transactions too: one that is admitted after produce_checkpoint looked  *)
(* for the fast path is proposed by produce_vertex.                        *)

DagCommit ==
    /\ Len(dag) < MaxDag
    /\ \E n \in 0..MaxBatch : \E b \in [1..n -> Tx] : dag' = Append(dag, b)
    /\ UNCHANGED <<memory, finalizer, state, marker, records, snapshot, acked, bounds>>

-----------------------------------------------------------------------------
(* finalize_ready_commits, called by produce_vertex (the node loop) and by *)
(* add_network_vertex.                                                     *)

Idle == status = "up" /\ pc = "idle"

\* add_network_vertex calls finalize_ready_commits after it has injected a vertex.  With
\* one authority there is none to inject: a vertex of another author is rejected, and for
\* the node's own, which Mysticeti has already, the call returns before that.
MayFinalize(caller) == SingleAuthority => caller = "producer"

\* try_committed_batches: sub-DAGs left over by a failed call come first, and alone.
PendingList == IF pendingTo > acked THEN pendingTo ELSE Len(dag)

\* Mutant of FinalizeReady: the list is one longer than consensus delivered.
FinalizeReadyPast(caller) ==
    /\ Idle /\ acked < Len(dag) /\ MayFinalize(caller)
    /\ pc' = "batch" /\ mode' = caller
    /\ cur' = acked + 1 /\ pendingTo' = Len(dag) + 1 /\ scan' = 0 /\ picked' = <<>>
    /\ UNCHANGED <<memory, cp, cursor, state, marker, records, snapshot, consensus, bounds>>

\* Mutant of FinalizeReady: sub-DAGs are acknowledged when they are delivered.
FinalizeReadyAcks(caller) ==
    /\ Idle /\ acked < Len(dag) /\ MayFinalize(caller)
    /\ pc' = "batch" /\ mode' = caller /\ acked' = PendingList
    /\ cur' = acked + 1 /\ pendingTo' = PendingList /\ scan' = 0 /\ picked' = <<>>
    /\ UNCHANGED <<memory, cp, cursor, state, marker, records, snapshot, dag, bounds>>

FinalizeReady(caller) ==
    /\ Idle /\ acked < Len(dag) /\ MayFinalize(caller)
    /\ pc' = "batch" /\ mode' = caller
    /\ cur' = acked + 1 /\ pendingTo' = PendingList /\ scan' = 0 /\ picked' = <<>>
    /\ UNCHANGED <<memory, cp, cursor, state, marker, records, snapshot, consensus, bounds>>

InDag == status = "up" /\ mode \in {"producer", "network"}

\* finalize_committed_batch returns early when a retained checkpoint already has
\* the vertices of this sub-DAG.
AlreadyCheckpointed ==
    \E i \in DOMAIN chain.checkpoints : chain.checkpoints[i].vertices = cur

NextBatch ==
    /\ pc' = "batch" /\ cur' = cur + 1 /\ scan' = 0 /\ picked' = <<>>
    /\ cp' = Genesis /\ cursor' = 0
    /\ UNCHANGED <<mode, pendingTo>>

SkipExisting ==
    /\ InDag /\ pc = "batch" /\ cur <= pendingTo /\ scan = 0 /\ AlreadyCheckpointed
    /\ NextBatch
    /\ UNCHANGED <<memory, state, marker, records, snapshot, consensus, bounds>>

\* Mutant of Keep: a transaction repeated in the sub-DAG is kept twice.
KeepRepeats(t) == ~Committed(t)

\* One round of the loop that drops duplicates and committed transactions.
Keep(t) == t \notin Range(picked) /\ ~Committed(t)

\* Mutant of FilterTx: the transactions are collected in reverse order.
FilterTxReversed ==
    /\ InDag /\ pc = "batch" /\ cur <= pendingTo
    /\ scan = 0 => ~AlreadyCheckpointed
    /\ scan < Len(dag[cur])
    /\ scan' = scan + 1
    /\ picked' = IF Keep(dag[cur][scan + 1]) THEN <<dag[cur][scan + 1]>> \o picked
                                             ELSE picked
    /\ UNCHANGED <<memory, pc, mode, cur, pendingTo, cp, cursor, state, marker, records,
                   snapshot, consensus, bounds>>

FilterTx ==
    /\ InDag /\ pc = "batch" /\ cur <= pendingTo
    /\ scan = 0 => ~AlreadyCheckpointed
    /\ scan < Len(dag[cur])
    /\ scan' = scan + 1
    /\ picked' = IF Keep(dag[cur][scan + 1]) THEN Append(picked, dag[cur][scan + 1])
                                             ELSE picked
    /\ UNCHANGED <<memory, pc, mode, cur, pendingTo, cp, cursor, state, marker, records,
                   snapshot, consensus, bounds>>

Scanned ==
    /\ InDag /\ pc = "batch" /\ cur <= pendingTo /\ scan = Len(dag[cur])
    /\ scan = 0 => ~AlreadyCheckpointed

\* Mutant of SkipEmpty: a sub-DAG with nothing new is an error.
SkipEmptyFails ==
    /\ Scanned /\ picked = <<>>
    /\ Return
    /\ UNCHANGED <<memory, state, marker, records, snapshot, consensus, bounds>>

\* A sub-DAG with nothing new makes no checkpoint.
SkipEmpty ==
    /\ Scanned /\ picked = <<>>
    /\ NextBatch
    /\ UNCHANGED <<memory, state, marker, records, snapshot, consensus, bounds>>

\* prepare_checkpoint_state executes the transactions not yet committed on a copy
\* of the state and yields the root.
Prepared(vertices, txs) ==
    LET root == Append(state, [txs |-> txs, run |-> {t \in Range(txs) : ~Committed(t)}])
    IN  [sequence |-> Height(chain) + 1, vertices |-> vertices, transactions |-> txs,
         state_root |-> root, prev |-> CheckpointHash(Latest(chain))]

Prepare ==
    /\ Scanned /\ picked # <<>>
    /\ cp' = Prepared(cur, picked)
    /\ pc' = "commit"
    /\ UNCHANGED <<memory, mode, cur, pendingTo, scan, picked, cursor, state, marker, records,
                   snapshot, consensus, bounds>>

\* Depending on the error, the node loop drops one pending transaction, the one that
\* failed or, when the error does not name it, the first of the next selection.
DropInvalid ==
    \E drop \in SUBSET mempool : Cardinality(drop) <= 1 /\ mempool' = mempool \ drop

\* add_network_vertex only returns the error.  The sub-DAG stays unacknowledged.
PrepareFails ==
    /\ Scanned /\ picked # <<>>
    /\ "execute" \in Faults /\ faults < MaxFaults /\ faults' = faults + 1
    /\ \/ mode = "producer" /\ DropInvalid
       \/ mode = "network" /\ UNCHANGED mempool
    /\ Return
    /\ UNCHANGED <<status, chain, subm, state, marker, records, snapshot, consensus, crashes>>

\* Every sub-DAG of the list is done: ack_committed_batches.
Acknowledge ==
    /\ InDag /\ pc = "batch" /\ cur > pendingTo
    /\ acked' = pendingTo
    /\ Return
    /\ UNCHANGED <<memory, state, marker, records, snapshot, dag, bounds>>

-----------------------------------------------------------------------------
(* The owned fast path: produce_owned_fast_checkpoint_from_selection.  The *)
(* whole selection enters the checkpoint; what is already committed is only*)
(* left out of the execution.                                              *)

\* Mutant of FastSelect: shared transactions are selected too.
FastSelectShared ==
    /\ Idle /\ SingleAuthority /\ Len(state) < MaxFast
    /\ \E n \in 1..MaxBatch : \E sel \in [1..n -> mempool] :
         IsInjective(sel) /\ cp' = Prepared(NoVertices, sel)
    /\ pc' = "commit" /\ mode' = "fast"
    /\ UNCHANGED <<memory, cur, pendingTo, scan, picked, cursor, state, marker, records,
                   snapshot, consensus, bounds>>

FastSelect ==
    /\ Idle /\ SingleAuthority /\ Len(state) < MaxFast
    /\ \E n \in 1..MaxBatch : \E sel \in [1..n -> mempool \cap Owned] :
         IsInjective(sel) /\ cp' = Prepared(NoVertices, sel)
    /\ pc' = "commit" /\ mode' = "fast"
    /\ UNCHANGED <<memory, cur, pendingTo, scan, picked, cursor, state, marker, records,
                   snapshot, consensus, bounds>>

\* The execution of the selection fails.
FastFails ==
    /\ Idle /\ SingleAuthority /\ mempool \cap Owned # {}
    /\ "execute" \in Faults /\ faults < MaxFaults /\ faults' = faults + 1
    /\ DropInvalid
    /\ UNCHANGED <<status, chain, subm, finalizer, state, marker, records, snapshot, consensus,
                   crashes>>

-----------------------------------------------------------------------------
(* checkpoint_persistence_raw_changes: the records of one checkpoint.      *)

NonEmpty(c) == c.sequence # 0 /\ c.transactions # <<>>

\* Mutant of Raised: any committed nonce replaces the stored one.
RaisedToAny(w, nonces, new) ==
    IF nonces = {} THEN new = Effective(w) ELSE new \in nonces

\* Each nonce above the stored one replaces it, so the highest one stays; the stored
\* one is capped when read, the new one is not.
Raised(w, nonces, new) ==
    LET base == IF Effective(w) = NoNonce THEN 0 ELSE Effective(w)
        above == {n \in nonces : n > base}
    IN  IF above = {} THEN new = Effective(w)
                      ELSE new \in above /\ \A n \in above : n <= new

Nonces == {NoNonce, 0} \cup Range(NonceOf)

NoncesOf(s, txs) == {NonceOf[t] : t \in {u \in Range(txs) : SenderOf[u] = s}}

Stripped(c) == [c EXCEPT !.transactions = <<>>]

\* Mutants of WriteRecords: the hash index, or the payload, is forgotten.
WriteRecordsNoIndex(c) ==
    /\ meta' = [q \in DOMAIN meta \cup {c.sequence} |->
                  IF q = c.sequence THEN Stripped(c) ELSE meta[q]]
    /\ payloads' = [q \in DOMAIN payloads \cup {c.sequence} |->
                      IF q = c.sequence THEN c.transactions ELSE payloads[q]]
    /\ UNCHANGED <<txIndex, watermark>>

WriteRecordsNoPayload(c) ==
    /\ meta' = [q \in DOMAIN meta \cup {c.sequence} |->
                  IF q = c.sequence THEN Stripped(c) ELSE meta[q]]
    /\ txIndex' = IF TxIndex THEN txIndex \cup Range(c.transactions) ELSE txIndex
    /\ UNCHANGED <<payloads, watermark>>

WriteRecords(c) ==
    /\ meta' = [q \in DOMAIN meta \cup {c.sequence} |->
                  IF q = c.sequence THEN Stripped(c) ELSE meta[q]]
    /\ IF NonEmpty(c)
         THEN /\ payloads' = [q \in DOMAIN payloads \cup {c.sequence} |->
                                IF q = c.sequence THEN c.transactions ELSE payloads[q]]
              /\ txIndex' = IF TxIndex THEN txIndex \cup Range(c.transactions) ELSE txIndex
              /\ watermark' \in [Senders -> Nonces]
              /\ \A s \in Senders :
                   Raised(watermark[s], NoncesOf(s, c.transactions), watermark'[s])
         ELSE UNCHANGED <<payloads, txIndex, watermark>>

-----------------------------------------------------------------------------
(* finalize_checkpoint: the state, the marker and, inline, the checkpoint's*)
(* records are one RocksDB batch.                                          *)

CommitState ==
    /\ status = "up" /\ pc = "commit"
    /\ state' = cp.state_root
    /\ marker' = {cp}
    /\ IF InlineMetadata THEN WriteRecords(cp) /\ persistedThrough' = cp.sequence
                         ELSE UNCHANGED <<records, persistedThrough>>
    /\ pc' = "add"
    /\ UNCHANGED <<memory, mode, cur, pendingTo, scan, picked, cp, cursor, prunedThrough, json,
                   consensus, bounds>>

CommitFails ==
    /\ status = "up" /\ pc = "commit"
    /\ "commit" \in Faults /\ faults < MaxFaults /\ faults' = faults + 1
    /\ Return
    /\ UNCHANGED <<memory, state, marker, records, snapshot, consensus, crashes>>

\* persist_blockchain_snapshot starts after history_persisted_through.
PersistFrom(c) == MinOf(persistedThrough, Height(c))

\* finalize_checkpoint_metadata, 1: the chain in memory.
AddToChain ==
    /\ status = "up" /\ pc = "add" /\ CanAdd(chain, cp)
    /\ chain' = AddCheckpoint(chain, cp)
    /\ IF InlineMetadata THEN pc' = "drain" /\ UNCHANGED cursor
                         ELSE pc' = "persist" /\ cursor' = PersistFrom(chain')
    /\ UNCHANGED <<status, mempool, subm, mode, cur, pendingTo, scan, picked, cp, state, marker,
                   records, snapshot, consensus, bounds>>

AddRejected ==
    /\ status = "up" /\ pc = "add" /\ ~CanAdd(chain, cp)
    /\ Return
    /\ UNCHANGED <<memory, state, marker, records, snapshot, consensus, bounds>>

-----------------------------------------------------------------------------
(* 2: persist_blockchain_snapshot_to_store, also run at start-up.          *)

Running == status \in {"up", "boot"}

\* The process ends; what it held in memory is gone.
StopProcess(st) == status' = st /\ chain' = NewChain /\ LocalsGone /\ pendingTo' = 0

\* Where persistence continues: the mempool drain, the marker check of init, or
\* the removal of the recovered marker.
AfterPersist == CASE mode = "load" -> "marker" [] mode = "boot" -> "clear" [] OTHER -> "drain"

Unpersisted == {i \in DOMAIN chain.checkpoints : chain.checkpoints[i].sequence > cursor}

PersistOne ==
    /\ Running /\ pc = "persist"
    /\ \E i \in Unpersisted :
         /\ \A j \in Unpersisted : i <= j
         /\ WriteRecords(chain.checkpoints[i])
         /\ cursor' = chain.checkpoints[i].sequence
    /\ UNCHANGED <<memory, pc, mode, cur, pendingTo, scan, picked, cp, state, marker, snapshot,
                   consensus, bounds>>

PersistThrough ==
    /\ Running /\ pc = "persist" /\ Unpersisted = {}
    /\ persistedThrough' = Height(chain)
    /\ pc' = "json"
    /\ UNCHANGED <<memory, mode, cur, pendingTo, scan, picked, cp, cursor, state, marker,
                   records, prunedThrough, json, consensus, bounds>>

SlimCheckpoints(c) == [i \in DOMAIN c.checkpoints |-> Stripped(c.checkpoints[i])]

PruneLimit == Height(chain) - Retention

\* The executed index is not serialized.
PersistJson ==
    /\ Running /\ pc = "json"
    /\ json' = IF JsonSnapshot THEN {SlimCheckpoints(chain)} ELSE {}
    /\ IF Retention > 0 /\ PruneLimit > prunedThrough
         THEN pc' = "prune" /\ cursor' = prunedThrough
         ELSE pc' = AfterPersist /\ UNCHANGED cursor
    /\ UNCHANGED <<memory, mode, cur, pendingTo, scan, picked, cp, state, marker, records,
                   persistedThrough, prunedThrough, consensus, bounds>>

\* Mutant of PruneOne: the hash index is pruned with the payload.
PruneOneIndex ==
    /\ Running /\ pc = "prune" /\ cursor < PruneLimit
    /\ payloads' = [q \in DOMAIN payloads \ {cursor + 1} |-> payloads[q]]
    /\ txIndex' = txIndex \ (IF cursor + 1 \in DOMAIN payloads THEN Range(payloads[cursor + 1])
                                                               ELSE {})
    /\ cursor' = cursor + 1
    /\ UNCHANGED <<memory, pc, mode, cur, pendingTo, scan, picked, cp, state, marker, meta,
                   watermark, snapshot, consensus, bounds>>

\* prune_transaction_payloads deletes one sequence at a time.
PruneOne ==
    /\ Running /\ pc = "prune" /\ cursor < PruneLimit
    /\ payloads' = [q \in DOMAIN payloads \ {cursor + 1} |-> payloads[q]]
    /\ cursor' = cursor + 1
    /\ UNCHANGED <<memory, pc, mode, cur, pendingTo, scan, picked, cp, state, marker, meta,
                   txIndex, watermark, snapshot, consensus, bounds>>

\* Mutant of PruneThrough: one payload more is gone than the record says.
PruneThroughShort ==
    /\ Running /\ pc = "prune" /\ cursor >= PruneLimit
    /\ prunedThrough' = PruneLimit - 1
    /\ pc' = AfterPersist
    /\ UNCHANGED <<memory, mode, cur, pendingTo, scan, picked, cp, cursor, state, marker,
                   records, persistedThrough, json, consensus, bounds>>

PruneThrough ==
    /\ Running /\ pc = "prune" /\ cursor >= PruneLimit
    /\ prunedThrough' = PruneLimit
    /\ pc' = AfterPersist
    /\ UNCHANGED <<memory, mode, cur, pendingTo, scan, picked, cp, cursor, state, marker,
                   records, persistedThrough, json, consensus, bounds>>

\* A store call fails.  The finalizer returns the error, the re-persist after
\* recovery only logs it, and init returns it (the operator starts the node again).
PersistFails ==
    /\ Running /\ pc \in {"persist", "json", "prune"}
    /\ "persist" \in Faults /\ faults < MaxFaults /\ faults' = faults + 1
    /\ \/ mode = "load" /\ pc' = "marker"
          /\ UNCHANGED <<status, mode, cur, pendingTo, scan, picked, cp, cursor, chain>>
       \/ mode = "boot" /\ StopProcess("down")
       \/ status = "up" /\ Return /\ UNCHANGED <<status, chain>>
    /\ UNCHANGED <<mempool, subm, state, marker, records, snapshot, consensus, crashes>>

-----------------------------------------------------------------------------
(* 3: the committed transactions leave the mempool, then the marker goes.  *)

\* Mutant of Drain: the committed transactions stay pending.
DrainNothing ==
    /\ status = "up" /\ pc = "drain"
    /\ pc' = "clear"
    /\ UNCHANGED <<memory, mode, cur, pendingTo, scan, picked, cp, cursor, state, marker,
                   records, snapshot, consensus, bounds>>

Drain ==
    /\ status = "up" /\ pc = "drain"
    /\ mempool' = mempool \ Range(cp.transactions)
    /\ pc' = "clear"
    /\ UNCHANGED <<status, chain, subm, mode, cur, pendingTo, scan, picked, cp, cursor, state,
                   marker, records, snapshot, consensus, bounds>>

ClearMarker ==
    /\ status = "up" /\ pc = "clear"
    /\ marker' = {}
    /\ IF mode = "fast" THEN Return ELSE NextBatch
    /\ UNCHANGED <<memory, state, records, snapshot, consensus, bounds>>

\* The module refresh or the deletion of the marker fails.
ClearFails ==
    /\ Running /\ pc = "clear"
    /\ "clear" \in Faults /\ faults < MaxFaults /\ faults' = faults + 1
    /\ \/ mode = "boot" /\ StopProcess("down")
       \/ status = "up" /\ Return /\ UNCHANGED <<status, chain>>
    /\ UNCHANGED <<mempool, subm, state, marker, records, snapshot, consensus, crashes>>

-----------------------------------------------------------------------------
(* A crash keeps the store and the write-ahead log of Mysticeti.           *)

Crash ==
    /\ Running /\ crashes < MaxCrashes /\ crashes' = crashes + 1
    /\ StopProcess("down")
    /\ mempool' = {} /\ subm' = [s \in Submitters |-> NotSubmitting]
    /\ UNCHANGED <<state, marker, records, snapshot, consensus, faults>>

-----------------------------------------------------------------------------
(* load_blockchain.                                                        *)

\* hydrate_blockchain_transactions, and the same step of checkpoint recovery.
Hydrated(c) ==
    IF c.transactions = <<>> /\ c.sequence \in DOMAIN payloads
      THEN [c EXCEPT !.transactions = payloads[c.sequence]] ELSE c

Stored(q) == IF q = 0 THEN Genesis ELSE Hydrated(meta[q])

\* recover_blockchain_from_checkpoint_store adds the records in order with
\* validation, and gives up on the first one that is refused.  The records of a
\* sequence are written in one batch and its metadata is never deleted, so every
\* recorded sequence has metadata.
Recoverable(n) ==
    /\ DOMAIN meta # {} /\ DOMAIN meta \ {0} = 1..n
    /\ \A q \in 1..n :
         /\ Stored(q).sequence = q
         /\ Stored(q).prev = CheckpointHash(Stored(q - 1))
         /\ IsInjective(Stored(q).transactions)
         /\ \A r \in 1..(q - 1) :
              Range(Stored(q).transactions) \cap Range(Stored(r).transactions) = {}

\* Mutant of RecoveredCheckpoints: the last recovered checkpoint is left out.
RecoveredShort(n) ==
    LET kept == MinOf(n, MaxRetainedBlocks - 1)
    IN  [i \in 1..(IF kept = 0 THEN 1 ELSE kept) |->
           IF i = 1 THEN Genesis ELSE Stored(n - kept + i - 1)]

\* Genesis and the last MaxRetainedBlocks - 1 of the n recovered checkpoints.
RecoveredCheckpoints(n) ==
    LET kept == MinOf(n, MaxRetainedBlocks - 1)
    IN  [i \in 1..(kept + 1) |-> IF i = 1 THEN Genesis ELSE Stored(n - kept + i - 1)]

\* fresh_genesis_if_allowed.
FreshGenesisAllowed == RequireRecoverable => marker # {} \/ state = <<>>

Boot(next) ==
    /\ status = "down"
    /\ status' = "boot" /\ pc' = next /\ mode' = "load"
    /\ UNCHANGED <<mempool, subm, cur, pendingTo, scan, picked, cp, state, marker, records,
                   snapshot, consensus, bounds>>

LoadJson ==
    /\ Boot("marker")
    /\ \E cps \in json :
         chain' = RebuildTxHashIndex([i \in DOMAIN cps |-> Hydrated(cps[i])])
    /\ UNCHANGED cursor

\* The recovered chain is persisted again; an error there is only logged.
LoadRecords ==
    /\ json = {}
    /\ Boot("persist")
    /\ \E n \in DOMAIN meta \cup {0} :
         /\ Recoverable(n)
         /\ chain' = RebuildTxHashIndex(RecoveredCheckpoints(n))
    /\ cursor' = PersistFrom(chain')

NothingToLoad == json = {} /\ \A n \in DOMAIN meta \cup {0} : ~Recoverable(n)

LoadFreshGenesis ==
    /\ NothingToLoad /\ FreshGenesisAllowed
    /\ Boot("marker")
    /\ chain' = NewChain
    /\ UNCHANGED cursor

LoadRefused ==
    /\ NothingToLoad /\ ~FreshGenesisAllowed
    /\ status = "down" /\ StopProcess("refused")
    /\ UNCHANGED <<mempool, subm, state, marker, records, snapshot, consensus, bounds>>

-----------------------------------------------------------------------------
(* init: the durable marker.                                               *)

AtMarker == status = "boot" /\ pc = "marker"

MarkerExtends(m) == m.sequence > Height(chain) /\ CanAdd(chain, m)

\* Mutant of MarkerIsLatest: a marker at the latest height counts as a conflict.
MarkerNeverLatest(m) == FALSE

MarkerIsLatest(m) ==
    m.sequence = Height(chain) /\ CheckpointHash(m) = CheckpointHash(Latest(chain))

RecoverMarker ==
    /\ AtMarker
    /\ \E m \in marker :
         \/ MarkerExtends(m) /\ chain' = AddCheckpoint(chain, m)
         \/ MarkerIsLatest(m) /\ UNCHANGED chain
    /\ pc' = "persist" /\ mode' = "boot" /\ cursor' = PersistFrom(chain')
    /\ UNCHANGED <<status, mempool, subm, cur, pendingTo, scan, picked, cp, state, marker,
                   records, snapshot, consensus, bounds>>

\* The marker does not link to the chain, conflicts with it, or is behind it.
MarkerRefused ==
    /\ AtMarker
    /\ \E m \in marker : ~MarkerExtends(m) /\ ~MarkerIsLatest(m)
    /\ StopProcess("refused")
    /\ UNCHANGED <<mempool, subm, state, marker, records, snapshot, consensus, bounds>>

ClearRecovered ==
    /\ status = "boot" /\ pc = "clear"
    /\ marker' = {}
    /\ pc' = "marker"
    /\ UNCHANGED <<memory, mode, cur, pendingTo, scan, picked, cp, cursor, state, records,
                   snapshot, consensus, bounds>>

\* Mutant of BootDone: the engine comes up without looking at the marker.
BootDoneBlind ==
    /\ AtMarker
    /\ status' = "up" /\ Return
    /\ UNCHANGED <<chain, mempool, subm, state, marker, records, snapshot, consensus, bounds>>

\* Without a marker, init opens the state and the engine is up.
BootDone ==
    /\ AtMarker /\ marker = {}
    /\ status' = "up" /\ Return
    /\ UNCHANGED <<chain, mempool, subm, state, marker, records, snapshot, consensus, bounds>>

-----------------------------------------------------------------------------

Submit == \E s \in Submitters :
    \/ \E txs \in {S \in SUBSET Tx : Cardinality(S) \in 1..MaxSubmit} : SubmitCheck(s, txs)
    \/ SubmitAdmit(s)

Finalize ==
    \/ \E caller \in {"producer", "network"} : FinalizeReady(caller)
    \/ SkipExisting \/ FilterTx \/ SkipEmpty \/ Prepare \/ Acknowledge
    \/ CommitState \/ AddToChain \/ AddRejected \/ Drain \/ ClearMarker

Persist == PersistOne \/ PersistThrough \/ PersistJson \/ PruneOne \/ PruneThrough

Start ==
    \/ LoadJson \/ LoadRecords \/ LoadFreshGenesis \/ LoadRefused
    \/ RecoverMarker \/ MarkerRefused \/ ClearRecovered \/ BootDone

Fail == PrepareFails \/ FastFails \/ CommitFails \/ PersistFails \/ ClearFails

Next == Submit \/ DagCommit \/ FastSelect \/ Finalize \/ Persist \/ Start \/ Fail \/ Crash

Spec == Init /\ [][Next]_vars

\* The node loop calls the finalizer again and again and a started call runs on; a
\* stopped node is started again.  Nothing is assumed of submitters, of consensus, or
\* of failures.
FairSpec == Spec /\ WF_vars(Finalize \/ Persist \/ Start)
-----------------------------------------------------------------------------
(* Properties.                                                             *)

Executed == UNION {state[i].run : i \in DOMAIN state}

MemoryOK ==
    /\ status \in {"down", "boot", "up", "refused"}
    /\ chain \in Chain /\ chain.checkpoints # <<>>
    /\ mempool \subseteq Tx
    /\ subm \in [Submitters -> [pc : {"idle", "checked"}, txs : SUBSET Tx, executed : SUBSET Tx]]

\* A finalizer stays within the list of sub-DAGs it was given.
FinalizerOK ==
    /\ pc \in {"idle", "batch", "commit", "add", "persist", "json", "prune", "drain", "clear",
               "marker"}
    /\ mode \in {"none", "producer", "network", "fast", "load", "boot"}
    /\ cur \in Nat /\ pendingTo \in Nat /\ scan \in Nat
    /\ picked \in Seq(Tx)
    /\ cp \in Checkpoint
    /\ cursor \in Int
    /\ mode \in {"producer", "network"} => cur >= 1
    /\ pendingTo <= Len(dag)

RecordsOK ==
    /\ DOMAIN meta \subseteq Nat /\ \A q \in DOMAIN meta : meta[q] \in Checkpoint
    /\ DOMAIN payloads \subseteq Nat /\ \A q \in DOMAIN payloads : payloads[q] \in Seq(Tx)
    /\ txIndex \subseteq Tx
    /\ watermark \in [Senders -> Nonces]

StoreOK ==
    /\ state \in StateLog /\ marker \subseteq Checkpoint
    /\ persistedThrough \in Int /\ prunedThrough \in Int
    /\ json \subseteq Seq(Checkpoint) \ {<<>>}

EnvironmentOK ==
    /\ dag \in Seq(Seq(Tx)) /\ acked \in Nat
    /\ crashes \in Nat /\ faults \in Nat

\* Every variable keeps the shape its declaration in the code gives it, and the
\* finalizer never reads past the list of committed sub-DAGs.
TypeOK == MemoryOK /\ FinalizerOK /\ RecordsOK /\ StoreOK /\ EnvironmentOK

\* No transaction is executed in two checkpoints, whatever sub-DAGs repeat it and
\* however often the node crashes between committing a sub-DAG's checkpoint and
\* acknowledging the sub-DAG (the filter of finalize_committed_batch and of
\* prepare_checkpoint_state_inner).
ExactlyOnce ==
    \A i, j \in DOMAIN state : i # j => state[i].run \cap state[j].run = {}

\* Outside the window between the state commit and the chain update, the latest
\* checkpoint of a running engine describes the state it executes on: the same
\* height and the same root (finalize_checkpoint; load_blockchain and init).
ChainMatchesState ==
    status = "up" /\ pc # "add" =>
        /\ Height(chain) = Len(state)
        /\ Latest(chain).state_root = state

\* Whatever was on disk when the process stopped, the next start-up succeeds: no
\* crash leaves a marker or records that init refuses.
Restartable == status # "refused"

\* Between finalizations no executed transaction is pending, although admission
\* looks up executed transactions before it takes the mempool lock.
CommittedNeverPending == Idle => mempool \cap Executed = {}

\* Admission never lets in a transaction whose nonce is at or below that of an executed
\* one of the same sender, although the executed state moves between its two phases.
FreshNonces ==
    [][\A t \in mempool' \ mempool : \A u \in Executed :
         SenderOf[u] = SenderOf[t] => NonceOf[u] < NonceOf[t]]_vars

\* Every executed transaction is known to try_is_transaction_committed, after any number
\* of restarts.  rebuild_tx_hash_index sees the retained checkpoints only, so once one is
\* evicted this rests on the persistent hash index.
ReplayIndexComplete ==
    status = "up" /\ pc # "add" => Executed \subseteq chain.executed \cup txIndex

\* A transaction of an acknowledged sub-DAG has been executed: consensus output is
\* never dropped by a failure or a crash before ack_committed_batches.
AckedExecuted == \A k \in 1..acked : Range(dag[k]) \subseteq Executed

\* The store alone holds every checkpoint above the pruning point: its metadata has the
\* root of the state at that height, its payload the transactions of the block executed
\* there (checkpoint_persistence_raw_changes, prune_transaction_payloads).
StoreHoldsHistory ==
    Idle /\ marker = {} =>
        \A q \in (prunedThrough + 1)..Height(chain) :
            /\ q \in DOMAIN meta /\ meta[q].state_root = SubSeq(state, 1, q)
            /\ q \in DOMAIN payloads /\ payloads[q] = state[q].txs

\* Every sub-DAG consensus commits is eventually finalized and acknowledged, through
\* crashes and failing calls, provided these stop (finalize_ready_commits is retried).
EverySubDagSettled == \A k \in 1..MaxDag : (Len(dag) >= k) ~> (acked >= k)

\* A design rule: a vertex received from the network never leads to a checkpoint in
\* the same call (add_network_vertex).
NetworkVertexNeverFinalizes == mode = "network" => pc # "commit"

\* What the node promises: Ledger, with the Move state as its log.
Promise == INSTANCE Ledger
    WITH Local <- IF SingleAuthority THEN Owned ELSE {},
         log <- state, ordered <- dag, done <- acked

\* Every step of the engine, crash and recovery included, is a step of the ledger or
\* leaves it alone.
ImplementsLedger == Promise!Spec
=============================================================================
