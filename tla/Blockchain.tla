----------------------------- MODULE Blockchain -----------------------------
(***************************************************************************)
(* The checkpoint chain kept in memory (kanari-core/src/blockchain.rs) and *)
(* the checkpoint it is made of (kanari-core/src/consensus.rs).            *)
(*                                                                         *)
(* Data abstraction:                                                       *)
(*   - a transaction is a member of Tx, standing for itself and its hash;  *)
(*   - the vertices of a checkpoint are the number of the committed sub-DAG*)
(*     they come from (the sub-DAG's vertex list identifies it), and 0 when*)
(*     the list is empty (genesis, owned fast path);                       *)
(*   - the Move state is the sequence of blocks executed since genesis, a  *)
(*     block being the checkpoint's transactions in order and the set of   *)
(*     those that were really run;  its root is a collision-free digest,   *)
(*     so the sequence itself stands for it;                               *)
(*   - a checkpoint hash is collision-free over the hashed fields and over *)
(*     the previous hash: it is the sequence of hashed bodies back to      *)
(*     genesis.  Timestamp and effects are functions of the rest.          *)
(* The capped hash queue and the transaction location index of             *)
(* blockchain.rs are not used by the engine's control and are left out.    *)
(***************************************************************************)
EXTENDS Integers, Sequences, Functions

CONSTANTS Tx,                 \* signed transactions
          MaxRetainedBlocks   \* MAX_RETAINED_BLOCKS

ASSUME RetainedAssumption == MaxRetainedBlocks \in Nat /\ MaxRetainedBlocks >= 2

NoVertices == 0

Block == [txs : Seq(Tx), run : SUBSET Tx]
StateLog == Seq(Block)

\* The fields Checkpoint::hash() digests, apart from the previous hash.
Body == [sequence : Nat, vertices : Nat, transactions : Seq(Tx), state_root : StateLog]

Checkpoint == [sequence : Nat, vertices : Nat, transactions : Seq(Tx),
               state_root : StateLog, prev : Seq(Body)]

BodyOf(c) == [sequence |-> c.sequence, vertices |-> c.vertices,
              transactions |-> c.transactions, state_root |-> c.state_root]

CheckpointHash(c) == Append(c.prev, BodyOf(c))

Genesis == [sequence |-> 0, vertices |-> NoVertices, transactions |-> <<>>,
            state_root |-> <<>>, prev |-> <<>>]

-----------------------------------------------------------------------------
(* The Blockchain struct: the retained checkpoints, oldest first, and the  *)
(* set of executed transaction hashes.                                     *)

Chain == [checkpoints : Seq(Checkpoint), executed : SUBSET Tx]

NewChain == [checkpoints |-> <<Genesis>>, executed |-> {}]

Latest(c) == c.checkpoints[Len(c.checkpoints)]
Height(c) == Latest(c).sequence

\* The checks of add_checkpoint_with_validation(_, true).
CanAdd(c, cp) ==
    /\ cp.sequence = Height(c) + 1
    /\ cp.prev = CheckpointHash(Latest(c))
    /\ IsInjective(cp.transactions)
    /\ Range(cp.transactions) \cap c.executed = {}

\* Genesis is never evicted: the oldest non-genesis checkpoint is.
Window(cps) ==
    IF Len(cps) > MaxRetainedBlocks
      THEN <<cps[1]>> \o SubSeq(cps, 3, Len(cps))
      ELSE cps

AddCheckpoint(c, cp) ==
    [checkpoints |-> Window(Append(c.checkpoints, cp)),
     executed |-> c.executed \cup Range(cp.transactions)]

\* rebuild_tx_hash_index: only the retained checkpoints are scanned.
RebuildTxHashIndex(cps) ==
    [checkpoints |-> cps,
     executed |-> UNION {Range(cps[i].transactions) : i \in DOMAIN cps}]
=============================================================================
