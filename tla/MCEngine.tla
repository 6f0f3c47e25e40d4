------------------------------ MODULE MCEngine ------------------------------
(* Model-checking instances of Engine.                                     *)
EXTENDS Engine, TLC

CONSTANTS t1, t2,   \* the transactions
          s1,       \* their sender
          r1        \* an RPC thread that submits

MCTx == {t1, t2}
MCSender == [t \in MCTx |-> s1]
MCNonce == (t1 :> 1) @@ (t2 :> 2)
MCZeroNonce == [t \in MCTx |-> 0]

\* The blocks consensus output determines: each sub-DAG without repetitions and
\* without what an earlier one holds, sub-DAGs left empty dropped.
Canonical ==
    LET before[k \in 0..Len(dag)] ==
          IF k = 0 THEN {} ELSE before[k - 1] \cup Range(dag[k])
        keep[k \in 1..Len(dag)] ==
          LET upto[n \in 0..Len(dag[k])] ==
                IF n = 0 THEN <<>>
                ELSE IF dag[k][n] \in before[k - 1] \cup Range(upto[n - 1]) THEN upto[n - 1]
                ELSE Append(upto[n - 1], dag[k][n])
          IN  upto[Len(dag[k])]
        blocks[k \in 0..Len(dag)] ==
          IF k = 0 THEN <<>>
          ELSE IF keep[k] = <<>> THEN blocks[k - 1] ELSE Append(blocks[k - 1], keep[k])
    IN  blocks

\* The executed history is, at every moment, the canonical one of a prefix of the
\* consensus output that includes everything acknowledged: two authorities given
\* the same sub-DAGs execute the same blocks in the same order.
StateIsCanonical ==
    LET executedBlocks == [i \in DOMAIN state |-> state[i].txs]
    IN  \E k \in acked..Len(dag) : executedBlocks = Canonical[k]

=============================================================================
