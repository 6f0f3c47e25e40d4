------------------------------- MODULE Ledger -------------------------------
(***************************************************************************)
(* What a node promises its clients and the other authorities, without the *)
(* store, the mempool or crashes: a log of executed blocks that only grows,*)
(* built from the order consensus delivers.                                *)
(***************************************************************************)
EXTENDS Integers, Sequences, Functions

CONSTANT Local      \* transactions the node may execute without consensus

VARIABLES log,      \* the executed blocks
          ordered,  \* the sub-DAGs consensus has committed, as sequences of transactions
          done      \* how many of them are settled

Ran == UNION {log[i].run : i \in DOMAIN log}

Init == log = <<>> /\ ordered = <<>> /\ done = 0

IsAppend(s, t) == Len(t) = Len(s) + 1 /\ SubSeq(t, 1, Len(s)) = s

Order ==
    /\ IsAppend(ordered, ordered')
    /\ UNCHANGED <<log, done>>

\* A block is never empty, runs each of its transactions once, and none that ran before.
\* It comes from one sub-DAG that is not settled yet, or is local.
Execute ==
    /\ IsAppend(log, log')
    /\ LET b == log'[Len(log')]
       IN  /\ b.txs # <<>> /\ IsInjective(b.txs)
           /\ b.run = Range(b.txs)
           /\ b.run \cap Ran = {}
           /\ \/ \E k \in (done + 1)..Len(ordered) : b.run \subseteq Range(ordered[k])
              \/ b.run \subseteq Local
    /\ UNCHANGED <<ordered, done>>

\* A sub-DAG is settled when everything in it has been executed.
Settle ==
    /\ done' \in (done + 1)..Len(ordered)
    /\ \A k \in 1..done' : Range(ordered[k]) \subseteq Ran
    /\ UNCHANGED <<log, ordered>>

Next == Order \/ Execute \/ Settle

Spec == Init /\ [][Next]_<<log, ordered, done>>
=============================================================================
