# Verification of the Kanari node

TLA+ models of the node in `crates/kanari-core` and `crates/kanari-node`, checked
with TLC on small instances and, where stated, proved with TLAPS for every instance.

## The system

A node takes signed transactions over RPC into a mempool, proposes them in vertices of
a Mysticeti DAG, and executes the sub-DAGs that consensus commits, one checkpoint per
sub-DAG that brings anything new. A node that is the only authority also executes
transactions on owned objects directly (the owned fast path). Everything durable is in
one RocksDB store: the Move state, a marker of the checkpoint being committed, and per
checkpoint its metadata, its transactions, and optionally a hash index entry per
transaction. Consensus keeps its own write-ahead log.

| Part | Source | Modules |
| --- | --- | --- |
| Checkpoint and chain | `consensus.rs`, `blockchain.rs` | `Blockchain` |
| Admission, mempool contents | `engine/mempool.rs` | `Engine` |
| Finalization of sub-DAGs | `engine/produce_dag_vertex.rs` | `Engine` |
| Preparing, committing, persisting checkpoints | `engine/apply_checkpoint.rs`, `engine.rs` | `Engine` |
| Pruning | `engine.rs` | `Engine` |
| Start-up and recovery | `engine/bootstrap.rs` | `Engine` |
| Owned fast path | `engine.rs` | `Engine` |
| Node loop | `kanari-node/src/app.rs` | `Engine` (producer calls, dropped transactions) |
| Mysticeti | `crates/mysticeti` | only its output, in `Engine`: `DagCommit`, `dag`, `acked` |
| Mempool reservations, sync, gossip chunks, backup, indexer | `kanari-core`, `kanari-node` | planned, below |

`PROJECT.json` lists every part of the repository, with the reason for those left out.

## Modules

**`Ledger`** is what the node promises: a log of executed blocks that only grows, each
block non-empty, free of repetitions and of anything executed before, and taken from a
sub-DAG that is not settled (or from the owned transactions of a single-authority
node); a sub-DAG is settled only when all of it has been executed.

**`Blockchain`** holds the pure functions of the chain in memory: validation
(`CanAdd`), growth with eviction (`AddCheckpoint`, `Window`), and rebuilding the index
of executed hashes (`RebuildTxHashIndex`).

**`Engine`** is one node. Its actions are what runs between two points where another
thread or a crash can be observed:

| Actions | Code |
| --- | --- |
| `SubmitCheck`, `SubmitAdmit` | `submit_transactions_batch_internal` before and under the mempool lock |
| `FinalizeReady` ... `Acknowledge` | `finalize_ready_commits`, `finalize_committed_batch` |
| `FastSelect`, `FastFails` | `produce_owned_fast_checkpoint_from_selection` |
| `CommitState`, `AddToChain`, `AddRejected`, `Drain`, `ClearMarker` | `finalize_checkpoint`, `finalize_checkpoint_metadata` |
| `PersistOne`, `PersistThrough`, `PersistJson`, `PruneOne`, `PruneThrough` | `persist_blockchain_snapshot_to_store`, `prune_transaction_payloads` |
| `Load...`, `RecoverMarker`, `MarkerRefused`, `ClearRecovered`, `BootDone` | `load_blockchain`, `init` |
| `PrepareFails`, `CommitFails`, `PersistFails`, `ClearFails` | the error returns of those calls |
| `DagCommit` | `Core::try_commit` of `crates/mysticeti`: one more sub-DAG is committed |
| `Crash` | external: the process ends, the stores stay |

Data abstraction: a transaction stands for its own hash; the Move state is the sequence
of blocks executed since genesis, so a root is that sequence; a checkpoint hash is the
sequence of hashed bodies back to genesis (both digests are collision-free); vertices
are the number of their sub-DAG. Move execution is one step that may fail.

**`MCEngine`** gives the constants values and adds `StateIsCanonical`, which compares the
executed history with one computed from consensus output alone.
**`EngineTypes`** proves type correctness, **`EngineProofs`** the theorems about every
configuration and about exactly-once. **`InlineHistory`** states the invariant of nodes
that write the records with the state and proves that a commit keeps it,
**`InlineProofs`** the other steps and what follows, **`LedgerProofs`** the refinement.

## What TLC checks

| Run | Shows |
| --- | --- |
| `engine_inline` | records in the state's batch and the hash index on, with crashes, failing calls, a concurrent submitter, and eviction followed by restart and redelivery: every safety property, and `Engine` implements `Ledger` |
| `engine_json` | JSON snapshot, pruning, hash index and eviction together: recovery from the marker, replay protection after eviction, and the refinement |
| `engine_fast` | a single authority whose owned transactions also reach consensus, with the hash index off (the default on RocksDB without pruning), before any eviction |
| `engine_degraded` | all failures, pruning without a snapshot: nothing runs twice, nothing acknowledged is lost, even when the node refuses to start |
| `engine_live` | every committed sub-DAG is eventually acknowledged |

`engine_degraded` and `engine_live` do not check for deadlock: a node that refuses to
start (`status = "refused"`) really stops, and in `engine_live` there is nothing left to
do once the bounded environment is exhausted.

Six further runs state what a comment or a document says and find it violated:

| Run | Statement | What happens |
| --- | --- | --- |
| `claim_recovery` | whitepaper chapter 8: recovery restores the last checkpoint or fails closed | a non-strict start after pruning runs genesis beside a non-empty state |
| `claim_marker` | `apply_checkpoint.rs:361`: restart finishes the recovery | a second checkpoint overwrites the marker of the first, and the restart refuses it |
| `claim_lifetime_index` | `blockchain.rs:46`: a lifetime hash index | without the persistent index, hashes of evicted checkpoints are forgotten at restart |
| `claim_network_vertex` | `CHECKPOINT_DESIGN_INVARIANTS.md:24`: a network vertex never creates a checkpoint | `add_network_vertex` calls `finalize_ready_commits` |
| `claim_commit_order` | `apply_checkpoint.rs:261`: no new state beside old metadata | a repeated fast-path transaction is refused by the chain after the state was committed |
| `claim_nonce` | `engine.rs:927`: nonces must rise | a committed nonce 0 leaves no watermark |

**Bounds.** Two transactions of one sender, two sub-DAGs of at most two transactions,
one submitter, one or two crashes, one or two failing calls. Repetition within and
across sub-DAGs, a retry after a partial list and a crash in every window (recovery
included) all happen within them. `engine_inline` and `engine_json` set
`MaxRetainedBlocks = 2`, so the second checkpoint evicts the first, and a crash then
makes consensus deliver again a sub-DAG whose checkpoint is no longer retained. Both have
the hash index on: with it off, a restart after an eviction does forget executed hashes
(`claim_lifetime_index`). `engine_fast`, `engine_degraded` and `engine_live` retain five
checkpoints and evict nothing. `MaxWatermark = 3` makes nonce 2 the highest admissible
one, just below the cap.
`MaxFast` bounds the fast path, which could otherwise repeat a transaction for ever.

**Fairness.** `FairSpec` is weak fairness of the finalizer, of persistence and of
start-up: the node loop calls the producer for ever, a started call runs on, and an
operator or supervisor starts a stopped node. Nothing is assumed of submitters,
consensus, crashes or failures; the last two are finite because they are bounded, which
is the proviso of `EverySubDagSettled`.

## What is proved

`EngineTypes` and `EngineProofs`, for every set of transactions, senders and submitters
and every bound, from `RetainedAssumption` and `EngineAssumption`:

- `TypeCorrect`: `Spec => []TypeOK`.
- `CommittedIsExecuted`: `Spec => []SoundInv`. Whatever is called committed, in the
  chain, the records, the index, the marker or the snapshot, has been executed in the
  state; and what the finalizer has passed of its current list is committed.
- `NothingAckedIsLost`: `Spec => []AckedExecuted`, in every configuration. `AckedExecuted`
  is not inductive: that a sub-DAG may be acknowledged rests on the filter having dropped
  only what was executed, which is the rest of `SoundInv`.
- `ExecutedExactlyOnce`: `[]ExactlyOnce` when the records share the state's batch and the
  hash index is on. The invariant `OnceInv` adds that the index holds everything
  executed, so that preparing a checkpoint leaves it out.

`InlineProofs` and `LedgerProofs`, for every instance in which the records share the
state's batch (`InlineMetadata`), under `[]Remembered`: the hash index is on, or no
checkpoint has been evicted yet. Without that proviso the statements are
false, as `claim_lifetime_index` shows. On a single authority the nonces must also lie
between 1 and the cap (`NoncesInRange`), since only the watermark keeps an executed owned
transaction from being admitted and selected again.

- `OneHistory`: `[]InlineInv`, the inductive invariant. The records are those of the
  executed blocks linked by their hashes (`History`); blocks are new and free of
  repetitions (`Blocks`); the marker is the last record (`Durable`); the chain in memory
  is the one a restart would load from the records (`InMemory`); everything executed is
  known (`Known`); what is picked and prepared is new (`Picked`); watermarks cover the
  executed nonces and nothing executed is pending (`Watermarks`, `Pool`). None of the
  properties is inductive without the others: that a start succeeds needs the links
  between records, which need the chain at the time of preparation, which after a restart
  is the one the records gave back.
- From it: `EveryStartSucceeds` (`Restartable`), `ChainDescribesState`
  (`ChainMatchesState`), `ExecutedIsKnown` (`ReplayIndexComplete`), `StoreIsComplete`
  (`StoreHoldsHistory`); with `NoncesInRange`, `ExecutedIsNotPending`
  (`CommittedNeverPending`) and the action property `AdmittedNoncesAreFresh`
  (`FreshNonces`).
- `EngineImplementsLedger`: `ImplementsLedger`. An initial state maps to one of `Ledger`;
  `CommitState` is `Execute`, `Acknowledge` is `Settle`, `DagCommit` is `Order`, and every
  other step leaves the ledger alone.

Only model-checked: liveness (out of the prover's reach), the properties with the JSON
snapshot or pruning (`engine_json`) apart from `AckedExecuted`, and `StateIsCanonical`.

## Not modelled

Move execution, gas, objects and supply; cryptography; the SMT's algorithms; RPC
decoding; query code; the legacy BCS snapshot; a change of configuration between two
starts; consensus itself. The hash queue of `blockchain.rs` is left out because it only
evicts beyond two million hashes.

## Plan

1. `Mempool`: per-sender caps, object and gas reservations, and the counters kept beside
   the pending set; conflict-free selection checked against its definition.
2. `DagBackend`: production policy, vertex validation, proposal and replay of the
   write-ahead log, and several nodes fed the same sub-DAGs.
3. `Sync`: checkpoint and vertex requests, cooldowns, bounded buffers, lost messages.
4. `Chunks`: reassembly of gossip messages with limits and expiry.
5. Execution waves as an algorithm over read and write sets; the validator backup.
6. Proofs: recovery with the JSON snapshot and pruning, and the safety of the new modules.
