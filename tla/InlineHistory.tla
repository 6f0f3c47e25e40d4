---------------------------- MODULE InlineHistory ---------------------------
(***************************************************************************)
(* The inline configuration of Engine (no JSON snapshot, no pruning), where*)
(* finalize_checkpoint writes the state, the marker and the checkpoint's   *)
(* records in one batch: the store and the chain in memory always describe *)
(* one history. This module states that invariant and proves that a commit *)
(* keeps it; InlineProofs proves it for every other step.                  *)
(***************************************************************************)
EXTENDS EngineProofs

\* Executed hashes survive a restart: they are in the durable index, or no checkpoint
\* has been evicted from the chain yet.
Remembered == TxIndex \/ Len(state) < MaxRetainedBlocks

\* Nonces that leave a mark in the watermark and are not capped when it is read.
NoncesInRange == \A t \in Tx : NonceOf[t] >= 1 /\ NonceOf[t] < MaxWatermark

-----------------------------------------------------------------------------
(* The inductive invariant.                                                *)

\* Which step of the code is running: start-up before "up", the finalizer after it;
\* no start-up has been refused.
Control ==
    /\ status \in {"up", "boot", "down"}
    /\ status = "up" => pc \in {"idle", "batch", "commit", "add", "drain", "clear"}
    /\ status = "boot" => pc \in {"persist", "json", "marker", "clear"} /\ mode \in {"load", "boot"}
    /\ status = "down" => pc = "idle"
    /\ pc = "batch" => mode \in {"producer", "network"}
    /\ status = "up" /\ pc # "idle" => mode \in {"producer", "network", "fast"}
    /\ json = {} /\ prunedThrough = 0

\* The records are those of the executed blocks, linked by their hashes.
History ==
    /\ DOMAIN meta = 1..Len(state) /\ DOMAIN payloads = 1..Len(state)
    /\ \A q \in 1..Len(state) :
         /\ meta[q].sequence = q /\ meta[q].transactions = <<>>
         /\ meta[q].state_root = SubSeq(state, 1, q)
         /\ payloads[q] = state[q].txs
    /\ \A q \in 1..Len(state) : Stored(q).prev = CheckpointHash(Stored(q - 1))

\* Every block is new, has no repetition and is run as a whole.
Blocks ==
    /\ \A q \in 1..Len(state) : /\ state[q].txs # <<>> /\ IsInjective(state[q].txs)
                                /\ state[q].run = Range(state[q].txs)
    /\ ExactlyOnce

\* The marker is the last record; everything is persisted.
Durable ==
    /\ \A m \in marker : Len(state) > 0 /\ m = Stored(Len(state))
    /\ Len(state) > 0 => persistedThrough = Len(state)
    /\ pc = "persist" => Len(state) > 0 /\ cursor = Len(state)

\* How many checkpoints the chain in memory has seen.
Added == IF pc = "add" THEN Len(state) - 1 ELSE Len(state)

\* The chain in memory is the one a restart would load.
InMemory ==
    status \in {"up", "boot"} =>
      /\ chain.checkpoints = RecoveredCheckpoints(Added)
      /\ pc = "add" => /\ Len(state) > 0 /\ cp = Stored(Len(state))
                       /\ Range(cp.transactions) \cap chain.executed = {}

\* Every executed transaction is known as such.
Known ==
    /\ TxIndex => Executed \subseteq txIndex
    /\ ~TxIndex /\ status \in {"up", "boot"} =>
         Executed \subseteq chain.executed \cup (IF pc = "add" THEN Range(cp.transactions) ELSE {})

\* The transactions picked and prepared are new, and come from the sub-DAG or, with a
\* single authority, are owned.
Picked ==
    /\ pc = "batch" => /\ IsInjective(picked) /\ Range(picked) \cap Executed = {}
                       /\ picked # <<>> => cur <= pendingTo /\ Range(picked) \subseteq Range(dag[cur])
    /\ mode \in {"producer", "network"} => acked < cur /\ acked < pendingTo
    /\ pc = "commit" =>
         /\ cp.transactions # <<>> /\ IsInjective(cp.transactions)
         /\ Range(cp.transactions) \cap Executed = {}
         /\ cp.sequence = Len(state) + 1
         /\ cp.prev = CheckpointHash(Stored(Len(state)))
         /\ cp.state_root = Append(state, [txs |-> cp.transactions, run |-> Range(cp.transactions)])
         /\ mode = "fast" => SingleAuthority /\ Range(cp.transactions) \subseteq Owned
         /\ mode # "fast" => Range(cp.transactions) \subseteq Range(dag[cur])

\* The watermarks cover the executed nonces, and nothing executed is pending unless the
\* finalizer is about to drain it.
Watermarks ==
    /\ \A s \in Senders : watermark[s] < MaxWatermark
    /\ \A u \in Executed : NonceOf[u] <= watermark[SenderOf[u]]

Pool ==
    mempool \cap Executed \subseteq
        IF pc \in {"add", "drain"} THEN Range(cp.transactions) ELSE {}

InlineInv ==
    /\ Control /\ History /\ Blocks /\ Durable /\ InMemory /\ Known /\ Picked
    /\ NoncesInRange => Watermarks /\ Pool

-----------------------------------------------------------------------------
(* What the records give back.                                             *)

\* The length of the state is a number and indexes its blocks.
LEMMA StateLen ==
    ASSUME TypeOK
    PROVE  /\ Len(state) \in Nat /\ DOMAIN state = 1..Len(state)
           /\ \A q \in 1..Len(state) : state[q] \in Block
BY DEF TypeOK, StoreOK, StateLog

\* A record put together with its payload is the checkpoint of its block.
LEMMA StoredIs ==
    ASSUME TypeOK, History
    PROVE  /\ Stored(0) = Genesis
           /\ \A q \in 1..Len(state) :
                /\ Stored(q) = [meta[q] EXCEPT !.transactions = payloads[q]]
                /\ Stored(q) \in Checkpoint
                /\ Stored(q).sequence = q
                /\ Stored(q).transactions = state[q].txs
                /\ Stored(q).state_root = SubSeq(state, 1, q)
<1>1. Len(state) \in Nat
  BY StateLen
<1>2. ASSUME NEW q \in 1..Len(state)
      PROVE  /\ q # 0 /\ q \in DOMAIN meta /\ q \in DOMAIN payloads
             /\ meta[q] \in Checkpoint /\ payloads[q] \in Seq(Tx)
             /\ Stored(q) = [meta[q] EXCEPT !.transactions = payloads[q]]
  <2>1. q # 0 /\ q \in DOMAIN meta /\ q \in DOMAIN payloads
    BY <1>1 DEF History
  <2>2. meta[q] \in Checkpoint /\ payloads[q] \in Seq(Tx)
    BY <2>1 DEF TypeOK, RecordsOK
  <2>3. meta[q].transactions = <<>> /\ meta[q].sequence = q
    BY DEF History
  <2> QED BY <2>1, <2>2, <2>3 DEF Stored, Hydrated
<1>3. ASSUME NEW q \in 1..Len(state)
      PROVE  /\ Stored(q) \in Checkpoint /\ Stored(q).sequence = q
             /\ Stored(q).transactions = state[q].txs
             /\ Stored(q).state_root = SubSeq(state, 1, q)
  <2>1. /\ meta[q] \in Checkpoint /\ payloads[q] \in Seq(Tx)
        /\ Stored(q) = [meta[q] EXCEPT !.transactions = payloads[q]]
    BY <1>2
  <2>2. /\ Stored(q) \in Checkpoint /\ Stored(q).sequence = meta[q].sequence
        /\ Stored(q).transactions = payloads[q]
        /\ Stored(q).state_root = meta[q].state_root
    BY <2>1, Zenon DEF Checkpoint
  <2> QED BY <2>2 DEF History
<1>4. Stored(0) = Genesis
  BY DEF Stored
<1> QED BY <1>2, <1>3, <1>4

\* Genesis included, the record of a sequence has that sequence.
LEMMA StoredSequence ==
    ASSUME TypeOK, History
    PROVE  \A q \in 0..Len(state) : Stored(q) \in Checkpoint /\ Stored(q).sequence = q
<1>1. Len(state) \in Nat
  BY StateLen
<1>2. Genesis \in Checkpoint /\ Genesis.sequence = 0
  BY GenesisType DEF Genesis
<1> QED BY <1>1, <1>2, StoredIs

\* Recovery accepts the records of the whole history, and nothing else.
LEMMA RecoverableIs ==
    ASSUME TypeOK, History, Blocks, NEW n \in Nat
    PROVE  Recoverable(n) <=> n = Len(state) /\ n # 0
<1> DEFINE N == Len(state)
<1>1. N \in Nat /\ DOMAIN state = 1..N
  BY StateLen
<1>2. DOMAIN meta = 1..N
  BY DEF History
<1>3. DOMAIN meta \ {0} = 1..N
  BY <1>1, <1>2
<1>4. ASSUME Recoverable(n) PROVE n = N /\ n # 0
  <2>1. 1..N # {} /\ 1..N = 1..n
    BY <1>2, <1>3, <1>4, Zenon DEF Recoverable
  <2>3. N # 0
    BY <2>1
  <2>2. 1..n = 1..N => n = N
    <3> HIDE DEF N
    <3>1. CASE n < N
      BY <1>1, <3>1
    <3>2. CASE N < n
      BY <1>1, <3>2
    <3> QED BY <1>1, <3>1, <3>2
  <2> QED BY <2>1, <2>2, <2>3
<1>5. ASSUME n = N, n # 0 PROVE Recoverable(n)
  <2>1. DOMAIN meta # {} /\ DOMAIN meta \ {0} = 1..n
    BY <1>1, <1>2, <1>3, <1>5
  <2>2. ASSUME NEW q \in 1..n
        PROVE  /\ Stored(q).sequence = q
               /\ Stored(q).prev = CheckpointHash(Stored(q - 1))
               /\ IsInjective(Stored(q).transactions)
    BY <1>5, StoredIs DEF History, Blocks
  <2>3. ASSUME NEW q \in 1..n, NEW r \in 1..(q - 1)
        PROVE  Range(Stored(q).transactions) \cap Range(Stored(r).transactions) = {}
    <3>1. q \in 1..N /\ r \in 1..N /\ q # r
      BY <1>1, <1>5
    <3>2. state[q].run \cap state[r].run = {}
      BY <1>1, <3>1 DEF Blocks, ExactlyOnce
    <3>3. Stored(q).transactions = state[q].txs /\ Stored(r).transactions = state[r].txs
      BY <3>1, StoredIs
    <3>4. state[q].run = Range(state[q].txs) /\ state[r].run = Range(state[r].txs)
      BY <3>1 DEF Blocks
    <3> QED BY <3>2, <3>3, <3>4
  <2> QED BY <2>1, <2>2, <2>3 DEF Recoverable
<1> QED BY <1>4, <1>5

\* The recovered chain: genesis first, the last record at the end, nothing above it.
LEMMA RecoveredIs ==
    ASSUME TypeOK, History, NEW n \in 0..Len(state)
    PROVE  LET cps == RecoveredCheckpoints(n)
           IN  /\ DOMAIN cps = 1..(MinOf(n, MaxRetainedBlocks - 1) + 1)
               /\ Len(cps) = MinOf(n, MaxRetainedBlocks - 1) + 1
               /\ cps \in Seq(Checkpoint)
               /\ cps[Len(cps)] = Stored(n)
               /\ \A i \in DOMAIN cps : cps[i].sequence <= n
               /\ \A i \in DOMAIN cps : \E q \in 0..n : cps[i] = Stored(q)
<1> DEFINE kept == MinOf(n, MaxRetainedBlocks - 1)
           cps == RecoveredCheckpoints(n)
<1>1. n \in Nat /\ Len(state) \in Nat /\ n <= Len(state)
  BY StateLen
<1>2. kept \in Nat /\ kept <= n /\ (kept = 0 => n = 0)
  BY <1>1, RetainedAssumption DEF MinOf
<1>3. cps = [i \in 1..(kept + 1) |-> IF i = 1 THEN Genesis ELSE Stored(n - kept + i - 1)]
  BY DEF RecoveredCheckpoints
<1> HIDE DEF kept, cps
<1>4. \A q \in 0..n : Stored(q) \in Checkpoint /\ Stored(q).sequence = q
  BY <1>1, StoredSequence
<1>5. \A i \in 1..(kept + 1) : \E q \in 0..n : cps[i] = Stored(q)
  <2> TAKE i \in 1..(kept + 1)
  <2>1. CASE i = 1
    <3>1. cps[i] = Stored(0)
      BY <1>3, <2>1, StoredIs
    <3> QED BY <1>1, <3>1
  <2>2. CASE i # 1
    <3>1. n - kept + i - 1 \in 0..n
      BY <1>1, <1>2, <2>2
    <3> QED BY <1>3, <2>2, <3>1
  <2> QED BY <2>1, <2>2
<1>6. \A i \in 1..(kept + 1) : cps[i] \in Checkpoint /\ cps[i].sequence <= n
  BY <1>1, <1>4, <1>5
<1>7. cps \in Seq(Checkpoint) /\ Len(cps) = kept + 1 /\ DOMAIN cps = 1..(kept + 1)
  <2>1. DOMAIN cps = 1..(kept + 1) /\ cps \in [1..(kept + 1) -> Checkpoint]
    BY <1>3, <1>6
  <2> QED BY <1>2, <2>1, FunctionIsSequence
<1>8. cps[kept + 1] = Stored(n)
  <2>1. CASE kept = 0
    BY <1>2, <1>3, <2>1, StoredIs
  <2>2. CASE kept # 0
    <3>1. kept + 1 \in 1..(kept + 1) /\ kept + 1 # 1 /\ n - kept + (kept + 1) - 1 = n
      BY <1>1, <1>2, <2>2
    <3> QED BY <1>3, <3>1
  <2> QED BY <2>1, <2>2
<1> QED BY <1>5, <1>6, <1>7, <1>8 DEF kept, cps

\* The window keeps genesis and drops the checkpoint after it once there are too many.
LEMMA WindowIs ==
    ASSUME NEW s \in Seq(Checkpoint)
    PROVE  /\ Len(s) <= MaxRetainedBlocks => Window(s) = s
           /\ Len(s) > MaxRetainedBlocks =>
                /\ Window(s) \in Seq(Checkpoint)
                /\ Len(Window(s)) = Len(s) - 1
                /\ \A i \in 1..(Len(s) - 1) : Window(s)[i] = IF i = 1 THEN s[1] ELSE s[i + 1]
<1>1. Len(s) \in Nat /\ MaxRetainedBlocks \in Nat /\ MaxRetainedBlocks >= 2
  BY RetainedAssumption
<1>2. Len(s) <= MaxRetainedBlocks => Window(s) = s
  BY <1>1 DEF Window
<1>3. ASSUME Len(s) > MaxRetainedBlocks
      PROVE  /\ Window(s) \in Seq(Checkpoint)
             /\ Len(Window(s)) = Len(s) - 1
             /\ \A i \in 1..(Len(s) - 1) : Window(s)[i] = IF i = 1 THEN s[1] ELSE s[i + 1]
  <2> DEFINE u == SubSeq(s, 3, Len(s))
             h == <<s[1]>>
  <2>1. Len(s) >= 3 /\ \A i \in 1..Len(s) : s[i] \in Checkpoint
    BY <1>1, <1>3
  <2>2. u \in Seq(Checkpoint) /\ Len(u) = Len(s) - 2 /\ \A i \in 1..(Len(s) - 2) : u[i] = s[i + 2]
    <3>1. \A i \in 3..Len(s) : s[i] \in Checkpoint
      BY <1>1, <2>1
    <3>2. /\ u \in Seq(Checkpoint) /\ Len(u) = IF 3 <= Len(s) THEN Len(s) - 3 + 1 ELSE 0
          /\ \A i \in 1..(Len(s) - 3 + 1) : u[i] = s[3 + i - 1]
      BY <1>1, <3>1, SubSeqProperties
    <3> HIDE DEF u
    <3>3. \A i \in 1..(Len(s) - 2) : i \in 1..(Len(s) - 3 + 1) /\ 3 + i - 1 = i + 2
      BY <1>1, <2>1
    <3>4. Len(u) = Len(s) - 2
      BY <1>1, <2>1, <3>2
    <3>5. \A i \in 1..(Len(s) - 2) : u[i] = s[i + 2]
      BY <3>2, <3>3
    <3> QED BY <3>2, <3>4, <3>5
  <2>3. h \in Seq(Checkpoint) /\ Len(h) = 1 /\ h[1] = s[1]
    BY <1>1, <2>1
  <2>4. Window(s) = h \o u
    BY <1>3 DEF Window
  <2> HIDE DEF u, h
  <2>5. /\ Window(s) \in Seq(Checkpoint) /\ Len(Window(s)) = Len(h) + Len(u)
        /\ \A i \in 1..(Len(h) + Len(u)) : Window(s)[i] = IF i <= Len(h) THEN h[i] ELSE u[i - Len(h)]
    <3>1. h \in Seq(Checkpoint) /\ u \in Seq(Checkpoint)
      BY <2>2, <2>3
    <3>2. /\ h \o u \in Seq(Checkpoint) /\ Len(h \o u) = Len(h) + Len(u)
          /\ \A i \in 1..(Len(h) + Len(u)) : (h \o u)[i] = IF i <= Len(h) THEN h[i] ELSE u[i - Len(h)]
      BY <3>1, ConcatProperties
    <3> QED BY <2>4, <3>2
  <2>6. ASSUME NEW i \in 1..(Len(s) - 1) PROVE Window(s)[i] = IF i = 1 THEN s[1] ELSE s[i + 1]
    <3>1. i \in 1..(Len(h) + Len(u)) /\ (i <= Len(h) <=> i = 1) /\ i - Len(h) = i - 1
      BY <1>1, <2>2, <2>3
    <3>2. i # 1 => i - 1 \in 1..(Len(s) - 2) /\ (i - 1) + 2 = i + 1
      BY <1>1
    <3> QED BY <2>2, <2>3, <2>5, <3>1, <3>2
  <2>7. Len(Window(s)) = Len(s) - 1
    BY <1>1, <2>2, <2>3, <2>5
  <2> QED BY <2>5, <2>6, <2>7
<1> QED BY <1>2, <1>3

\* Adding the next checkpoint to the recovered chain of n - 1 gives that of n.
LEMMA RecoveredNext ==
    ASSUME TypeOK, History, NEW n \in 1..Len(state)
    PROVE  Window(Append(RecoveredCheckpoints(n - 1), Stored(n))) = RecoveredCheckpoints(n)
<1> DEFINE M == MaxRetainedBlocks
           old == RecoveredCheckpoints(n - 1)
           new == RecoveredCheckpoints(n)
           s == Append(old, Stored(n))
           k == MinOf(n - 1, M - 1)
           l == MinOf(n, M - 1)
<1>1. Len(state) \in Nat /\ n - 1 \in 0..Len(state) /\ n \in 0..Len(state) /\ n \in Nat
  BY StateLen
<1>2. M \in Nat /\ M >= 2
  BY RetainedAssumption
<1>3. old \in Seq(Checkpoint) /\ Len(old) = k + 1 /\ DOMAIN old = 1..(k + 1)
  BY <1>1, RecoveredIs
<1>4. new \in Seq(Checkpoint) /\ Len(new) = l + 1 /\ DOMAIN new = 1..(l + 1)
  BY <1>1, RecoveredIs
<1>5. \A i \in 1..(k + 1) : old[i] = IF i = 1 THEN Genesis ELSE Stored((n - 1) - k + i - 1)
  BY DEF RecoveredCheckpoints
<1>6. \A i \in 1..(l + 1) : new[i] = IF i = 1 THEN Genesis ELSE Stored(n - l + i - 1)
  BY DEF RecoveredCheckpoints
<1>7. Stored(n) \in Checkpoint
  BY StoredIs
<1>8. k \in Nat /\ l \in Nat /\ n <= M - 1 => k = n - 1 /\ l = n
  BY <1>1, <1>2 DEF MinOf
<1>9. n > M - 1 => k = M - 1 /\ l = M - 1
  BY <1>1, <1>2 DEF MinOf
<1>10. k \in Nat /\ l \in Nat
  BY <1>1, <1>2 DEF MinOf
<1> HIDE DEF M, old, new, k, l
<1>11. /\ s \in Seq(Checkpoint) /\ Len(s) = k + 2
       /\ s[k + 2] = Stored(n) /\ \A i \in 1..(k + 1) : s[i] = old[i]
  <2>1. Len(old) + 1 = k + 2
    BY <1>3, <1>10
  <2> QED BY <1>3, <1>7, <2>1, AppendProperties
<1> HIDE DEF s
<1>12. CASE n <= M - 1
  <2>1. k = n - 1 /\ l = n
    BY <1>8, <1>10, <1>12
  <2>2. Window(s) = s
    BY <1>2, <1>11, <1>12, <2>1, <1>1, WindowIs DEF M
  <2>3. Len(s) = Len(new)
    BY <1>1, <1>4, <1>11, <2>1
  <2>4. ASSUME NEW i \in 1..Len(s) PROVE s[i] = new[i]
    <3>1. i \in 1..(n + 1) /\ i \in 1..(l + 1)
      BY <1>1, <1>11, <2>1
    <3>2. CASE i = n + 1
      <4>1. i # 1 /\ n - l + i - 1 = n /\ i = k + 2
        BY <1>1, <2>1, <3>2
      <4> QED BY <1>6, <1>11, <3>1, <4>1
    <3>3. CASE i # n + 1
      <4>1. i \in 1..(k + 1) /\ (n - 1) - k + i - 1 = n - l + i - 1
        BY <1>1, <2>1, <3>1, <3>3
      <4> QED BY <1>5, <1>6, <1>11, <3>1, <4>1
    <3> QED BY <3>2, <3>3
  <2> QED BY <1>4, <1>11, <2>2, <2>3, <2>4, SeqEqual, Zenon DEF s, old, new
<1>13. CASE n > M - 1
  <2>1. k = M - 1 /\ l = M - 1
    BY <1>9, <1>13
  <2> DEFINE w == Window(s)
  <2>2. /\ w \in Seq(Checkpoint) /\ Len(w) = k + 1
        /\ \A i \in 1..(k + 1) : w[i] = IF i = 1 THEN s[1] ELSE s[i + 1]
    <3>1. Len(s) > MaxRetainedBlocks /\ Len(s) - 1 = k + 1
      BY <1>2, <1>11, <2>1 DEF M
    <3> QED BY <1>11, <3>1, WindowIs
  <2> HIDE DEF w
  <2>3. Len(w) = Len(new)
    BY <1>4, <2>1, <2>2
  <2>4. ASSUME NEW i \in 1..Len(w) PROVE w[i] = new[i]
    <3>1. i \in 1..(k + 1) /\ i \in 1..(l + 1) /\ 1 \in 1..(k + 1)
      BY <1>10, <2>1, <2>2
    <3>2. CASE i = 1
      BY <1>5, <1>6, <1>11, <2>2, <3>1, <3>2
    <3>3. CASE i # 1 /\ i # k + 1
      <4>1. i + 1 \in 1..(k + 1) /\ i + 1 # 1 /\ (n - 1) - k + (i + 1) - 1 = n - l + i - 1
        BY <1>1, <1>10, <2>1, <3>1, <3>3
      <4> QED BY <1>5, <1>6, <1>11, <2>2, <3>1, <3>3, <4>1
    <3>4. CASE i # 1 /\ i = k + 1
      <4>1. i + 1 = k + 2 /\ n - l + i - 1 = n
        BY <1>1, <1>10, <2>1, <3>4
      <4> QED BY <1>6, <1>11, <2>2, <3>1, <3>4, <4>1
    <3> QED BY <3>2, <3>3, <3>4
  <2> QED BY <1>4, <2>2, <2>3, <2>4, SeqEqual DEF w, s, old, new
<1>14. n <= M - 1 \/ n > M - 1
  BY <1>1, <1>2
<1> QED BY <1>12, <1>13, <1>14

-----------------------------------------------------------------------------
(* What the invariant says of the running engine.                          *)

\* Outside the window of finalize_checkpoint, the chain ends with the last record.
LEMMA ChainIs ==
    ASSUME TypeOK, History, InMemory, status \in {"up", "boot"}, pc # "add"
    PROVE  /\ Latest(chain) = Stored(Len(state)) /\ Height(chain) = Len(state)
           /\ Latest(chain).state_root = state
           /\ \A i \in DOMAIN chain.checkpoints : chain.checkpoints[i].sequence <= Len(state)
<1>1. Len(state) \in Nat /\ Len(state) \in 0..Len(state)
  BY StateLen
<1>2. chain.checkpoints = RecoveredCheckpoints(Len(state))
  BY DEF InMemory, Added
<1>3. /\ chain.checkpoints[Len(chain.checkpoints)] = Stored(Len(state))
      /\ \A i \in DOMAIN chain.checkpoints : chain.checkpoints[i].sequence <= Len(state)
  BY <1>1, <1>2, RecoveredIs
<1>4. Latest(chain) = Stored(Len(state))
  BY <1>3 DEF Latest
<1>5. CASE Len(state) = 0
  <2>1. state = <<>>
    BY <1>5 DEF TypeOK, StoreOK, StateLog
  <2>2. Stored(Len(state)).sequence = 0 /\ Stored(Len(state)).state_root = <<>>
    BY <1>5, StoredIs DEF Genesis
  <2> QED BY <1>3, <1>4, <1>5, <2>1, <2>2 DEF Height
<1>6. CASE Len(state) # 0
  <2>1. Len(state) \in 1..Len(state)
    BY <1>1, <1>6
  <2>2. SubSeq(state, 1, Len(state)) = state
    BY SubSeqFull DEF TypeOK, StoreOK, StateLog
  <2> QED BY <1>3, <1>4, <2>1, <2>2, StoredIs, Zenon DEF Height
<1> QED BY <1>5, <1>6

\* Inside that window, the chain takes the committed checkpoint.
LEMMA AddIs ==
    ASSUME TypeOK, History, Blocks, InMemory, status = "up", pc = "add"
    PROVE  /\ Latest(chain) = Stored(Len(state) - 1) /\ Height(chain) = Len(state) - 1
           /\ CanAdd(chain, cp)
           /\ AddCheckpoint(chain, cp).checkpoints = RecoveredCheckpoints(Len(state))
<1>1. Len(state) \in Nat /\ Len(state) > 0 /\ cp = Stored(Len(state))
  BY StateLen DEF InMemory
<1>2. Len(state) - 1 \in 0..Len(state) /\ Len(state) \in 1..Len(state)
  BY <1>1
<1>3. chain.checkpoints = RecoveredCheckpoints(Len(state) - 1)
  BY DEF InMemory, Added
<1>4. Latest(chain) = Stored(Len(state) - 1)
  BY <1>2, <1>3, RecoveredIs DEF Latest
<1>5. Stored(Len(state) - 1).sequence = Len(state) - 1
  BY <1>2, StoredSequence
<1>6. cp.sequence = Len(state) /\ cp.transactions = state[Len(state)].txs
  BY <1>1, <1>2, StoredIs
<1>7. cp.prev = CheckpointHash(Latest(chain))
  BY <1>1, <1>2, <1>4 DEF History
<1>8. cp.sequence = Height(chain) + 1
  BY <1>1, <1>4, <1>5, <1>6 DEF Height
<1>9. IsInjective(cp.transactions) /\ Range(cp.transactions) \cap chain.executed = {}
  BY <1>2, <1>6 DEF Blocks, InMemory
<1>10. AddCheckpoint(chain, cp).checkpoints = RecoveredCheckpoints(Len(state))
  BY <1>1, <1>2, <1>3, RecoveredNext DEF AddCheckpoint
<1> QED BY <1>4, <1>5, <1>7, <1>8, <1>9, <1>10 DEF CanAdd, Height

\* A running engine takes for committed exactly what is executed.
LEMMA CommittedIs ==
    ASSUME SoundInv, Known, status \in {"up", "boot"}, pc # "add"
    PROVE  /\ Executed \subseteq chain.executed \cup txIndex
           /\ \A t : Committed(t) <=> t \in Executed
<1>1. Executed \subseteq chain.executed \cup txIndex
  BY DEF Known
<1>2. chain.executed \subseteq Executed /\ txIndex \subseteq Executed
  BY DEF SoundInv, ChainSound, RecordsSound
<1> QED BY <1>1, <1>2 DEF Committed

\* What this configuration never does: persist a checkpoint a second time, prune, load
\* a JSON snapshot, refuse a start-up, or refuse to chain a committed checkpoint.
LEMMA NeverHappens ==
    ASSUME InlineMetadata, TypeOK, InlineInv
    PROVE  /\ ~PersistOne /\ ~PruneOne /\ ~PruneThrough
           /\ ~LoadJson /\ ~LoadRefused /\ ~MarkerRefused /\ ~AddRejected
           /\ RecoverMarker => UNCHANGED chain
<1>1. Control /\ History /\ Blocks /\ Durable /\ InMemory
  BY DEF InlineInv
<1>2. Len(state) \in Nat
  BY StateLen
<1>3. ~PruneOne /\ ~PruneThrough /\ ~LoadJson
  BY <1>1 DEF PruneOne, PruneThrough, LoadJson, Running, Control
<1>4. ~PersistOne
  <2> SUFFICES ASSUME PersistOne PROVE FALSE
    OBVIOUS
  <2>1. PICK i \in DOMAIN chain.checkpoints : chain.checkpoints[i].sequence > cursor
    BY DEF PersistOne, Unpersisted
  <2>2. status \in {"up", "boot"} /\ pc = "persist" /\ cursor = Len(state)
    BY <1>1 DEF PersistOne, Running, Durable
  <2>3. chain.checkpoints[i].sequence <= Len(state)
    BY <1>1, <2>2, ChainIs
  <2>4. chain.checkpoints[i].sequence \in Nat
    <3>1. chain.checkpoints \in Seq(Checkpoint)
      BY DEF TypeOK, MemoryOK, Chain
    <3>2. chain.checkpoints[i] \in Checkpoint
      BY <3>1
    <3> QED BY <3>2 DEF Checkpoint
  <2> QED BY <1>2, <2>1, <2>2, <2>3, <2>4
<1>5. ~LoadRefused
  <2> SUFFICES ASSUME LoadRefused PROVE FALSE
    OBVIOUS
  <2>1. \A n \in DOMAIN meta \cup {0} : ~Recoverable(n)
    BY DEF LoadRefused, NothingToLoad
  <2>2. state # <<>>
    BY DEF LoadRefused, FreshGenesisAllowed
  <2>3. Len(state) # 0
    BY <2>2 DEF TypeOK, StoreOK, StateLog
  <2>4. Len(state) \in DOMAIN meta
    BY <1>1, <1>2, <2>3 DEF History
  <2> QED BY <1>1, <1>2, <2>1, <2>3, <2>4, RecoverableIs
<1>6. ASSUME AtMarker, NEW m \in marker PROVE MarkerIsLatest(m) /\ ~MarkerExtends(m)
  <2>1. status \in {"up", "boot"} /\ pc # "add"
    BY <1>6 DEF AtMarker
  <2>2. m = Latest(chain)
    BY <1>1, <1>6, <2>1, ChainIs DEF Durable
  <2>3. Height(chain) \in Nat
    BY <1>1, <1>2, <2>1, ChainIs
  <2> QED BY <2>2, <2>3 DEF MarkerIsLatest, MarkerExtends, Height
<1>7. ~MarkerRefused /\ (RecoverMarker => UNCHANGED chain)
  BY <1>6 DEF MarkerRefused, RecoverMarker
<1>8. ~AddRejected
  BY <1>1, AddIs DEF AddRejected
<1> QED BY <1>3, <1>4, <1>5, <1>7, <1>8

\* Only the commit of finalize_checkpoint changes the state and the records.
LEMMA OnlyCommitWrites ==
    ASSUME InlineMetadata, TypeOK, InlineInv, [Next]_vars, ~CommitState
    PROVE  UNCHANGED <<state, records>>
<1>1. ~PersistOne /\ ~PruneOne
  BY NeverHappens
<1> QED
  <2>1. CASE Submit \/ DagCommit \/ FastSelect \/ Persist \/ Fail \/ Crash
    BY <1>1, <2>1, Zenon DEF Submit, SubmitCheck, SubmitAdmit, DagCommit, FastSelect, Persist,
       PersistThrough, PersistJson, PruneThrough, Fail, PrepareFails, FastFails, CommitFails,
       PersistFails, ClearFails, Crash
  <2>2. CASE Finalize
    BY <2>2 DEF Finalize, FinalizeReady, SkipExisting, FilterTx, SkipEmpty, Prepare,
       Acknowledge, AddToChain, AddRejected, Drain, ClearMarker
  <2>3. CASE Start
    BY <2>3 DEF Start, Boot, LoadJson, LoadRecords, LoadFreshGenesis, LoadRefused,
       RecoverMarker, MarkerRefused, ClearRecovered, BootDone
  <2> QED BY <2>1, <2>2, <2>3 DEF Next, vars

-----------------------------------------------------------------------------
(* The commit: one batch for the state, the marker and the records.        *)

\* What the batch appends: the block of the prepared checkpoint and its records.
LEMMA CommitAppends ==
    ASSUME InlineMetadata, TypeOK, SoundInv, InlineInv, CommitState
    PROVE  LET n == Len(state)
           IN  /\ Len(state') = n + 1 /\ DOMAIN state' = 1..(n + 1) /\ state' = cp.state_root
               /\ \A q \in 1..n : state'[q] = state[q] /\ SubSeq(state', 1, q) = SubSeq(state, 1, q)
               /\ state'[n + 1].txs = cp.transactions
               /\ state'[n + 1].run = Range(cp.transactions)
               /\ SubSeq(state', 1, n + 1) = state'
               /\ Executed' = Executed \cup Range(cp.transactions)
               /\ DOMAIN meta' = 1..(n + 1) /\ meta'[n + 1] = Stripped(cp)
               /\ \A q \in 1..n : meta'[q] = meta[q]
               /\ DOMAIN payloads' = 1..(n + 1) /\ payloads'[n + 1] = cp.transactions
               /\ \A q \in 1..n : payloads'[q] = payloads[q]
<1> DEFINE n == Len(state)
           b == [txs |-> cp.transactions, run |-> Range(cp.transactions)]
<1>1. n \in Nat /\ state \in Seq(Block) /\ cp \in Checkpoint
  BY StateLen DEF TypeOK, StoreOK, StateLog, FinalizerOK
<1>2. /\ pc = "commit" /\ cp.transactions # <<>> /\ cp.sequence = n + 1
      /\ cp.state_root = Append(state, b) /\ History
  BY DEF CommitState, InlineInv, Picked
<1>3. b \in Block
  <2>1. cp.transactions \in Seq(Tx)
    BY <1>1 DEF Checkpoint
  <2>2. Range(cp.transactions) \subseteq Tx
    BY <2>1, RangeType
  <2> QED BY <2>1, <2>2 DEF Block
<1>4. b.txs = cp.transactions /\ b.run = Range(cp.transactions)
  OBVIOUS
<1>5. state' = Append(state, b) /\ state' = cp.state_root /\ WriteRecords(cp)
  BY <1>2 DEF CommitState
<1> HIDE DEF b
<1>6. /\ state' \in Seq(Block) /\ Len(state') = n + 1 /\ DOMAIN state' = 1..(n + 1)
      /\ state'[n + 1] = b /\ \A q \in 1..n : state'[q] = state[q]
  <2>1. /\ state' \in Seq(Block) /\ Len(state') = n + 1
        /\ state'[n + 1] = b /\ \A q \in 1..n : state'[q] = state[q]
    <3>1. state' = Append(state, b) /\ state \in Seq(Block) /\ b \in Block
      BY <1>1, <1>3, <1>5
    <3> QED BY <3>1, AppendProperties
  <2> QED BY <2>1
<1> HIDE DEF n
<1>7. \A q \in 1..n : SubSeq(state', 1, q) = SubSeq(state, 1, q)
  <2> TAKE q \in 1..n
  <2>1. q \in Nat /\ q >= 1 /\ \A i \in 1..q : i \in 1..n
    BY <1>1
  <2>2. \A i \in 1..q : state'[i] = state[i] /\ state[i] \in Block
    BY <1>1, <1>6, <2>1 DEF n
  <2>3. /\ SubSeq(state', 1, q) \in Seq(Block) /\ Len(SubSeq(state', 1, q)) = q
        /\ \A i \in 1..q : SubSeq(state', 1, q)[i] = state'[i]
    <3>1. \A i \in 1..q : state'[i] \in Block
      BY <2>2
    <3>2. /\ SubSeq(state', 1, q) \in Seq(Block)
          /\ Len(SubSeq(state', 1, q)) = IF 1 <= q THEN q - 1 + 1 ELSE 0
          /\ \A i \in 1..(q - 1 + 1) : SubSeq(state', 1, q)[i] = state'[1 + i - 1]
      BY <2>1, <3>1, SubSeqProperties
    <3>3. q - 1 + 1 = q /\ \A i \in 1..q : 1 + i - 1 = i
      BY <2>1
    <3> QED BY <2>1, <3>2, <3>3
  <2>4. /\ SubSeq(state, 1, q) \in Seq(Block) /\ Len(SubSeq(state, 1, q)) = q
        /\ \A i \in 1..q : SubSeq(state, 1, q)[i] = state[i]
    <3>1. \A i \in 1..q : state[i] \in Block
      BY <2>2
    <3>2. /\ SubSeq(state, 1, q) \in Seq(Block)
          /\ Len(SubSeq(state, 1, q)) = IF 1 <= q THEN q - 1 + 1 ELSE 0
          /\ \A i \in 1..(q - 1 + 1) : SubSeq(state, 1, q)[i] = state[1 + i - 1]
      BY <2>1, <3>1, SubSeqProperties
    <3>3. q - 1 + 1 = q /\ \A i \in 1..q : 1 + i - 1 = i
      BY <2>1
    <3> QED BY <2>1, <3>2, <3>3
  <2> QED BY <2>2, <2>3, <2>4, SeqEqual
<1>8. SubSeq(state', 1, n + 1) = state'
  BY <1>6, SubSeqFull
<1>9. Executed' = Executed \cup Range(cp.transactions)
  <2>1. NewBlock = b
    BY <1>5, <1>6 DEF NewBlock, n
  <2> QED BY <1>4, <2>1, CommitExecutes DEF SoundInv
<1>10. 1..n \cup {n + 1} = 1..(n + 1) /\ \A q \in 1..n : q # n + 1
  BY <1>1
<1>11. DOMAIN meta = 1..n /\ DOMAIN payloads = 1..n
  BY <1>2 DEF History, n
<1>12. meta' = [q \in 1..(n + 1) |-> IF q = n + 1 THEN Stripped(cp) ELSE meta[q]]
  BY <1>2, <1>5, <1>10, <1>11 DEF WriteRecords
<1>13. payloads' = [q \in 1..(n + 1) |-> IF q = n + 1 THEN cp.transactions ELSE payloads[q]]
  <2>1. NonEmpty(cp)
    BY <1>1, <1>2 DEF NonEmpty
  <2> QED BY <1>2, <1>5, <1>10, <1>11, <2>1 DEF WriteRecords
<1>14. n + 1 \in 1..(n + 1) /\ \A q \in 1..n : q \in 1..(n + 1)
  BY <1>1
<1>15. DOMAIN meta' = 1..(n + 1) /\ meta'[n + 1] = Stripped(cp) /\ \A q \in 1..n : meta'[q] = meta[q]
  BY <1>10, <1>12, <1>14
<1>16. /\ DOMAIN payloads' = 1..(n + 1) /\ payloads'[n + 1] = cp.transactions
       /\ \A q \in 1..n : payloads'[q] = payloads[q]
  BY <1>10, <1>13, <1>14
<1> QED BY <1>4, <1>5, <1>6, <1>7, <1>8, <1>9, <1>15, <1>16 DEF n

\* The earlier records are untouched and the new one is the prepared checkpoint.
LEMMA CommitStored ==
    ASSUME InlineMetadata, TypeOK, SoundInv, InlineInv, CommitState,
           NEW CONSTANT n, n = Len(state)
    PROVE  /\ \A q \in 0..n : Stored(q)' = Stored(q)
           /\ Stored(n + 1)' = cp
           /\ RecoveredCheckpoints(n)' = RecoveredCheckpoints(n)
<1>1. n \in Nat /\ cp \in Checkpoint /\ cp.transactions # <<>> /\ cp.sequence = n + 1
  BY StateLen DEF TypeOK, FinalizerOK, CommitState, InlineInv, Picked
<1>2. /\ DOMAIN meta' = 1..(n + 1) /\ meta'[n + 1] = Stripped(cp)
      /\ \A q \in 1..n : meta'[q] = meta[q]
      /\ DOMAIN payloads' = 1..(n + 1) /\ payloads'[n + 1] = cp.transactions
      /\ \A q \in 1..n : payloads'[q] = payloads[q]
  BY CommitAppends
<1>3. /\ DOMAIN payloads = 1..n
      /\ \A q \in 1..n : meta[q].sequence = q /\ meta[q].transactions = <<>>
  BY DEF InlineInv, History
<1>4. ASSUME NEW q \in 0..n PROVE Stored(q)' = Stored(q)
  <2>1. CASE q = 0
    BY <2>1 DEF Stored
  <2>2. CASE q # 0
    <3>1. q \in 1..n /\ q \in 1..(n + 1)
      BY <1>1, <2>2
    <3> QED BY <1>2, <1>3, <2>2, <3>1 DEF Stored, Hydrated
  <2> QED BY <2>1, <2>2
<1>5. Stored(n + 1)' = cp
  <2>1. n + 1 # 0 /\ n + 1 \in 1..(n + 1)
    BY <1>1
  <2>2. Stripped(cp).transactions = <<>> /\ Stripped(cp).sequence = n + 1
    BY <1>1 DEF Stripped, Checkpoint
  <2>3. meta'[n + 1].transactions = <<>> /\ meta'[n + 1].sequence = n + 1
    BY <1>2, <2>2
  <2>4. Stored(n + 1)' = [Stripped(cp) EXCEPT !.transactions = cp.transactions]
    BY <1>2, <2>1, <2>3 DEF Stored, Hydrated
  <2>5. [Stripped(cp) EXCEPT !.transactions = cp.transactions] = cp
    BY <1>1, Zenon DEF Stripped, Checkpoint
  <2> QED BY <2>4, <2>5
<1>6. RecoveredCheckpoints(n)' = RecoveredCheckpoints(n)
  <2> DEFINE kept == MinOf(n, MaxRetainedBlocks - 1)
  <2>1. kept \in Nat /\ kept <= n
    BY <1>1, RetainedAssumption DEF MinOf
  <2> HIDE DEF kept
  <2>2. ASSUME NEW i \in 1..(kept + 1), i # 1
        PROVE  Stored(n - kept + i - 1)' = Stored(n - kept + i - 1)
    BY <1>1, <1>4, <2>1
  <2> QED BY <2>2 DEF RecoveredCheckpoints, kept
<1> QED BY <1>4, <1>5, <1>6

\* The raised watermark covers the old one and the new nonces.
LEMMA RaisedCovers ==
    ASSUME NEW w \in Int, w < MaxWatermark, NEW nonces, NEW new, Raised(w, nonces, new),
           \A k \in nonces : k \in Nat /\ k >= 1 /\ k < MaxWatermark
    PROVE  new >= w /\ new < MaxWatermark /\ \A k \in nonces : k <= new
<1>1. MaxWatermark \in Nat /\ Effective(w) = w
  BY EngineAssumption DEF Effective
<1> DEFINE base == IF w = NoNonce THEN 0 ELSE w
           above == {k \in nonces : k > base}
<1>2. base \in Int /\ base >= w
  BY DEF NoNonce
<1>3. \A k \in nonces : k > base \/ k <= w
  BY <1>2 DEF NoNonce
<1>4. IF above = {} THEN new = w ELSE new \in above /\ \A k \in above : k <= new
  BY <1>1 DEF Raised
<1>5. \A k \in above : k \in nonces /\ k > base
  OBVIOUS
<1>6. \A k \in nonces : k > base => k \in above
  OBVIOUS
<1> HIDE DEF base, above
<1>7. CASE above = {}
  <2>1. new = w
    BY <1>4, <1>7
  <2>2. \A k \in nonces : k <= w
    BY <1>3, <1>6, <1>7
  <2> QED BY <2>1, <2>2
<1>8. CASE above # {}
  <2>1. new \in above /\ \A k \in above : k <= new
    BY <1>4, <1>8
  <2>2. new \in nonces /\ new > base /\ new \in Nat /\ new < MaxWatermark
    BY <1>5, <2>1
  <2>3. new >= w
    BY <1>2, <2>2
  <2>4. \A k \in nonces : k <= new
    <3> TAKE k \in nonces
    <3>1. CASE k > base
      BY <1>6, <2>1, <3>1
    <3>2. CASE k <= w
      BY <2>2, <2>3, <3>2
    <3> QED BY <1>3, <3>1, <3>2
  <2> QED BY <2>2, <2>3, <2>4
<1> QED BY <1>7, <1>8

\* Committing keeps the watermarks above every executed nonce.
LEMMA CommitWatermarks ==
    ASSUME InlineMetadata, NoncesInRange, TypeOK, SoundInv, InlineInv, CommitState
    PROVE  Watermarks'
<1>1. Watermarks
  BY DEF InlineInv
<1>2. WriteRecords(cp) /\ NonEmpty(cp) /\ cp.transactions \in Seq(Tx)
  <2>1. cp.sequence = Len(state) + 1 /\ cp.transactions # <<>>
    BY DEF CommitState, InlineInv, Picked
  <2> QED BY <2>1, StateLen DEF CommitState, NonEmpty, TypeOK, FinalizerOK, Checkpoint
<1>3. \A s \in Senders : Raised(watermark[s], NoncesOf(s, cp.transactions), watermark'[s])
  BY <1>2 DEF WriteRecords
<1>4. \A s \in Senders : watermark[s] \in Int /\ watermark[s] < MaxWatermark
  <2>1. Nonces \subseteq Int
    BY EngineAssumption DEF Nonces, NoNonce, Range
  <2> QED BY <1>1, <2>1, Zenon DEF Watermarks, TypeOK, RecordsOK
<1>5. Range(cp.transactions) \subseteq Tx
  BY <1>2, RangeType
<1>6. \A s \in Senders : \A k \in NoncesOf(s, cp.transactions) : k \in Nat /\ k >= 1 /\ k < MaxWatermark
  BY <1>5, EngineAssumption DEF NoncesOf, NoncesInRange
<1>7. ASSUME NEW s \in Senders
      PROVE  /\ watermark'[s] >= watermark[s] /\ watermark'[s] < MaxWatermark
             /\ \A k \in NoncesOf(s, cp.transactions) : k <= watermark'[s]
  BY <1>3, <1>4, <1>6, RaisedCovers
<1>8. Executed \subseteq Tx
  BY StateLen DEF Executed, Block
<1>9. ASSUME NEW u \in Executed' PROVE NonceOf[u] <= watermark'[SenderOf[u]]
  <2>1. CASE u \in Executed
    <3>1. SenderOf[u] \in Senders /\ NonceOf[u] \in Nat /\ NonceOf[u] <= watermark[SenderOf[u]]
      BY <1>1, <1>8, <2>1, EngineAssumption DEF Watermarks
    <3>2. watermark'[SenderOf[u]] \in Int
      <4>1. Nonces \subseteq Int
        BY EngineAssumption DEF Nonces, NoNonce, Range
      <4>2. watermark' \in [Senders -> Nonces]
        BY <1>2 DEF WriteRecords
      <4> QED BY <3>1, <4>1, <4>2, Zenon
    <3>3. watermark[SenderOf[u]] \in Int /\ watermark'[SenderOf[u]] >= watermark[SenderOf[u]]
      BY <1>4, <1>7, <3>1
    <3> QED BY <3>1, <3>2, <3>3
  <2>2. CASE u \in Range(cp.transactions)
    <3>1. SenderOf[u] \in Senders /\ NonceOf[u] \in NoncesOf(SenderOf[u], cp.transactions)
      BY <1>5, <2>2, EngineAssumption DEF NoncesOf
    <3> QED BY <1>7, <3>1
  <2>3. u \in Executed \/ u \in Range(cp.transactions)
    BY CommitAppends
  <2> QED BY <2>1, <2>2, <2>3
<1>10. \A s \in Senders : watermark'[s] < MaxWatermark
  BY <1>7
<1> QED BY <1>9, <1>10 DEF Watermarks

\* Committing keeps the invariant.
LEMMA CommitKeeps ==
    ASSUME InlineMetadata, TypeOK, SoundInv, InlineInv, CommitState
    PROVE  InlineInv'
<1>1. PICK n \in Nat : n = Len(state)
  BY StateLen, Zenon
<1>2. /\ Len(state') = n + 1 /\ DOMAIN state' = 1..(n + 1) /\ state' = cp.state_root
      /\ \A q \in 1..n : state'[q] = state[q] /\ SubSeq(state', 1, q) = SubSeq(state, 1, q)
      /\ state'[n + 1].txs = cp.transactions
      /\ state'[n + 1].run = Range(cp.transactions)
      /\ SubSeq(state', 1, n + 1) = state'
      /\ Executed' = Executed \cup Range(cp.transactions)
  BY <1>1, CommitAppends
<1>3. /\ DOMAIN meta' = 1..(n + 1) /\ meta'[n + 1] = Stripped(cp)
      /\ \A q \in 1..n : meta'[q] = meta[q]
      /\ DOMAIN payloads' = 1..(n + 1) /\ payloads'[n + 1] = cp.transactions
      /\ \A q \in 1..n : payloads'[q] = payloads[q]
  BY <1>1, CommitAppends
<1>4. /\ \A q \in 0..n : Stored(q)' = Stored(q)
      /\ Stored(n + 1)' = cp
      /\ RecoveredCheckpoints(n)' = RecoveredCheckpoints(n)
  BY <1>1, CommitStored
<1>5. /\ pc = "commit" /\ status = "up" /\ pc' = "add" /\ marker' = {cp} /\ WriteRecords(cp)
      /\ persistedThrough' = cp.sequence
      /\ UNCHANGED <<memory, mode, cur, pendingTo, cp, prunedThrough, json, consensus>>
  BY DEF CommitState
<1>6. Control /\ History /\ Blocks /\ InMemory /\ Known /\ Picked
  BY DEF InlineInv
<1>7. /\ cp.transactions # <<>> /\ IsInjective(cp.transactions) /\ cp.sequence = n + 1
      /\ Range(cp.transactions) \cap Executed = {} /\ cp.prev = CheckpointHash(Stored(n))
      /\ cp \in Checkpoint
  BY <1>1, <1>5, <1>6 DEF Picked, TypeOK, FinalizerOK
<1>8. \A q \in 1..(n + 1) : q \in 1..n \/ q = n + 1
  OBVIOUS
<1>9. Control'
  BY <1>5, <1>6 DEF Control, memory
<1>10. History'
  <2>1. ASSUME NEW q \in 1..(n + 1)
        PROVE  /\ meta'[q].sequence = q /\ meta'[q].transactions = <<>>
               /\ meta'[q].state_root = SubSeq(state', 1, q)
               /\ payloads'[q] = state'[q].txs
    <3>1. CASE q \in 1..n
      BY <1>1, <1>2, <1>3, <1>6, <3>1 DEF History
    <3>2. CASE q = n + 1
      <4>1. /\ Stripped(cp).sequence = n + 1 /\ Stripped(cp).transactions = <<>>
            /\ Stripped(cp).state_root = cp.state_root
        BY <1>7 DEF Stripped, Checkpoint
      <4> QED BY <1>2, <1>3, <3>2, <4>1
    <3> QED BY <1>8, <3>1, <3>2
  <2>2. ASSUME NEW q \in 1..(n + 1) PROVE Stored(q)'.prev = CheckpointHash(Stored(q - 1)')
    <3>1. q - 1 \in 0..n
      OBVIOUS
    <3>2. Stored(q - 1)' = Stored(q - 1)
      BY <1>4, <3>1
    <3>3. CASE q \in 1..n
      <4>1. Stored(q)' = Stored(q) /\ Stored(q).prev = CheckpointHash(Stored(q - 1))
        BY <1>1, <1>4, <1>6, <3>3 DEF History
      <4> QED BY <3>2, <4>1
    <3>4. CASE q = n + 1
      <4>1. q - 1 = n
        BY <3>4
      <4> QED BY <1>4, <1>7, <3>2, <3>4, <4>1
    <3> QED BY <1>8, <3>3, <3>4
  <2> QED BY <1>2, <1>3, <2>1, <2>2, Zenon DEF History, CheckpointHash, BodyOf
<1>11. Blocks'
  <2>1. ASSUME NEW q \in 1..(n + 1)
        PROVE  /\ state'[q].txs # <<>> /\ IsInjective(state'[q].txs)
               /\ state'[q].run = Range(state'[q].txs)
    BY <1>1, <1>2, <1>6, <1>7, <1>8 DEF Blocks
  <2>2. \A i \in 1..n : state[i].run \subseteq Executed
    BY <1>1, StateLen DEF Executed
  <2>3. ASSUME NEW i \in 1..(n + 1), NEW j \in 1..(n + 1), i # j
        PROVE  state'[i].run \cap state'[j].run = {}
    <3>1. CASE i \in 1..n /\ j \in 1..n
      <4>1. state[i].run \cap state[j].run = {}
        BY <1>1, <1>6, <2>3, <3>1, StateLen DEF Blocks, ExactlyOnce
      <4> QED BY <1>2, <3>1, <4>1
    <3>2. CASE i = n + 1 /\ j \in 1..n
      BY <1>2, <1>7, <2>2, <3>2, Zenon
    <3>3. CASE i \in 1..n /\ j = n + 1
      BY <1>2, <1>7, <2>2, <3>3
    <3> QED BY <1>8, <2>3, <3>1, <3>2, <3>3
  <2> QED BY <1>2, <2>1, <2>3 DEF Blocks, ExactlyOnce
<1>12. Durable'
  <2>1. Len(state') = n + 1 /\ n + 1 > 0
    BY <1>1, <1>2
  <2>2. Stored(Len(state))' = cp
    BY <1>4, <2>1
  <2>3. marker' = {cp} /\ persistedThrough' = n + 1 /\ pc' = "add"
    BY <1>5, <1>7
  <2> QED BY <2>1, <2>2, <2>3 DEF Durable
<1>13. InMemory'
  <2>1. chain.checkpoints = RecoveredCheckpoints(n)
    BY <1>1, <1>5, <1>6 DEF InMemory, Added
  <2>6. chain' = chain /\ cp' = cp /\ pc' = "add"
    BY <1>5 DEF memory
  <2>7. Len(state') = n + 1 /\ n + 1 > 0
    BY <1>1, <1>2
  <2>2. Added' = n
    BY <1>1, <2>6, <2>7 DEF Added
  <2>3. chain'.checkpoints = RecoveredCheckpoints(Added)'
    BY <1>4, <2>1, <2>2, <2>6
  <2>4. Stored(Len(state))' = cp'
    BY <1>4, <2>6, <2>7
  <2>5. chain.executed \subseteq Executed
    BY DEF SoundInv, ChainSound
  <2>8. Range(cp'.transactions) \cap chain'.executed = {}
    BY <1>7, <2>5, <2>6
  <2> QED BY <2>3, <2>4, <2>7, <2>8 DEF InMemory
<1>14. Known'
  <2>1. TxIndex => txIndex' = txIndex \cup Range(cp.transactions)
    BY <1>5, <1>7 DEF WriteRecords, NonEmpty
  <2> QED BY <1>2, <1>5, <1>6, <2>1 DEF Known, memory
<1>15. Picked'
  BY <1>5, <1>6 DEF Picked, consensus
<1>16. NoncesInRange => Watermarks' /\ Pool'
  <2>1. NoncesInRange => Pool
    BY DEF InlineInv
  <2>2. Pool => Pool'
    BY <1>2, <1>5 DEF Pool, memory
  <2> QED BY <2>1, <2>2, CommitWatermarks
<1> QED BY <1>9, <1>10, <1>11, <1>12, <1>13, <1>14, <1>15, <1>16 DEF InlineInv, NoncesInRange
=============================================================================
