-------------------------- MODULE SchedulerProofs --------------------------
(***************************************************************************)
(* The training loop and the collective schedulers for any workers, tensors *)
(* and iterations.                                                         *)
(*                                                                         *)
(* The training loop (TrainingInv): fp_lock counts the allreduces that have *)
(* ended in full against the forward passes.                                *)
(*                                                                         *)
(* FirstInFirstOutOneByOne: one tensor at a time is in the network, and the *)
(* rounds of a tensor are gated.  The argument joins three parts of the     *)
(* program: the lock grants one coroutine at a time (ResourceProofs),       *)
(* fp_lock lets no worker enqueue a tensor twice before its allreduce has   *)
(* ended (TrainingInv), and so the queue of a tensor holds each worker      *)
(* once when it is full, and every allreduce that is called belongs to the  *)
(* coroutine that holds the lock.                                           *)
(*                                                                         *)
(* DeficitRoundRobin (instance D, with the variables it does not share):    *)
(* jobs that are in the network together share no worker and no link, the   *)
(* rounds are gated, and no enqueue or chunk is lost or repeated.  There is *)
(* no lock; the argument is about what one turn of its loop awaits.         *)
(*                                                                         *)
(* The other three call for every worker of a job at once and await what    *)
(* they have called (GateInv), and then differ in what a queue may hold     *)
(* while they do.  ReadyAndGo (instance Ready) and ByteScheduler (Byte),    *)
(* which share nothing between jobs and are modelled with one, may lose an  *)
(* entry, and keep the rounds gated all the same; Sincronia (Sinc) keeps    *)
(* every entry, and the jobs in the network share no link.                  *)
(***************************************************************************)
EXTENDS FifoScheduler, SharedNetwork, FiniteSetTheorems, WellFoundedInduction, TLAPS

VARIABLES ready_pqueues, jid_to_deque_idx, quantums, loop, idx

-----------------------------------------------------------------------------
(* The training loop, whichever collective scheduler calls allreduce: what   *)
(* every step preserves (a scheduler may only raise called), and what the    *)
(* loop without a scheduler guarantees with its two kinds of lock.           *)

\* The loop without a collective scheduler.
U == INSTANCE Ungoverned

\* The forward passes worker p has made of tensor i.
Forwards(p, i) ==
    it[p] + IF pc[p] = "backward" \/ (pc[p] = "forward" /\ i < layer[p]) THEN 1 ELSE 0

\* A loop that still runs is inside its iterations.
InsideIterations ==
    \A p \in Proc : pc[p] \in {"forward", "backward"} => it[p] < NIter

\* allreduce is called, then holds its lock, then returns.
CountsInOrder ==
    \A p \in Proc, i \in Layer :
        done[p][i] <= started[p][i] /\ started[p][i] <= called[p][i]

\* The tensors whose locks the final loop has passed have no allreduce left.
DrainedSoFar ==
    \A p \in Proc : pc[p] = "drain" =>
        \A i \in Layer : i < layer[p] => called[p][i] = done[p][i]

\* fp_lock counts the allreduces that have ended in full against the forward
\* passes: the invariant behind ForwardAfterAllreduce.
FpLockCounts ==
    \A p \in Proc, i \in Layer : NWorkers(p) > 1 =>
        fp_lock[p][i] + Forwards(p, i) = 1 + (done[p][i] \div Chunks[i])

TrainingInv ==
    /\ TrainingTypeOK
    /\ InsideIterations
    /\ CountsInOrder
    /\ DrainedSoFar
    /\ CleanupAfterAllreduce
    /\ FpLockCounts

-----------------------------------------------------------------------------
\* The quotient grows by one when the dividend reaches a multiple.
LEMMA DivStep ==
    ASSUME NEW n \in Nat, NEW c \in Nat \ {0}
    PROVE  (n + 1) \div c = (n \div c) + IF (n + 1) % c = 0 THEN 1 ELSE 0
OBVIOUS

\* A multiple that fits in the quotient fits in the dividend.
LEMMA DivBound ==
    ASSUME NEW n \in Nat, NEW c \in Nat \ {0}, NEW k \in Nat, k <= n \div c
    PROVE  k * c <= n
OBVIOUS

\* Nothing divided is nothing.
LEMMA DivZero ==
    ASSUME NEW c \in Nat \ {0}
    PROVE  0 \div c = 0
OBVIOUS
-----------------------------------------------------------------------------
\* The tensors are numbered from 0, next to one another.
LEMMA LayerNat == \A i \in Layer : i \in Nat /\ i <= NLayers - 1
BY TrainingAssumption DEF Layer

\* The tensor after one that is not the last.
LEMMA LayerUp == ASSUME NEW i \in Layer, i < NLayers - 1 PROVE i + 1 \in Layer
BY TrainingAssumption DEF Layer

\* The tensor before one that is not the first.
LEMMA LayerDown == ASSUME NEW i \in Layer, i > 0 PROVE i - 1 \in Layer
BY TrainingAssumption DEF Layer

\* The first tensor.
LEMMA LayerZero == 0 \in Layer
BY TrainingAssumption DEF Layer

\* The type of each value a worker keeps for a tensor.
LEMMA TypeFacts ==
    ASSUME TrainingTypeOK, NEW p \in Proc, NEW i \in Layer
    PROVE  /\ layer[p] \in Layer /\ layer[p] \in Nat
           /\ it[p] \in Nat /\ Forwards(p, i) \in Nat
           /\ fp_lock[p][i] \in Nat /\ called[p][i] \in Nat
           /\ started[p][i] \in Nat /\ done[p][i] \in Nat
           /\ Chunks[i] \in Nat \ {0}
           /\ done[p][i] \div Chunks[i] \in Nat
<1>1. layer[p] \in Layer /\ layer[p] \in Nat
  BY LayerNat DEF TrainingTypeOK
<1>2. it[p] \in Nat
  BY TrainingAssumption DEF TrainingTypeOK
<1>3. /\ fp_lock[p][i] \in Nat /\ called[p][i] \in Nat
      /\ started[p][i] \in Nat /\ done[p][i] \in Nat
  BY DEF TrainingTypeOK
<1>4. Chunks[i] \in Nat \ {0}
  BY TrainingAssumption
<1>5. done[p][i] \div Chunks[i] \in Nat
  BY <1>3, <1>4
<1>6. Forwards(p, i) \in Nat
  BY <1>2 DEF Forwards
<1> QED
  BY <1>1, <1>2, <1>3, <1>4, <1>5, <1>6

\* Plus of a counter is a counter.
LEMMA PlusType ==
    ASSUME NEW f \in [Proc -> [Layer -> Nat]], NEW p \in Proc, NEW i \in Layer
    PROVE  Plus(f, p, i, 1) \in [Proc -> [Layer -> Nat]]
BY DEF Plus

\* The loops start with every fp_lock free and nothing called.
LEMMA InitInv == TrainingInit => TrainingInv
<1> SUFFICES ASSUME TrainingInit PROVE TrainingInv
  OBVIOUS
<1>1. TrainingTypeOK
  BY LayerZero, TrainingAssumption DEF TrainingInit, TrainingTypeOK, Zero
<1>2. FpLockCounts
  <2> SUFFICES ASSUME NEW p \in Proc, NEW i \in Layer
               PROVE  fp_lock[p][i] + Forwards(p, i) = 1 + (done[p][i] \div Chunks[i])
    BY DEF FpLockCounts
  <2>1. Forwards(p, i) = 0
    BY LayerNat DEF TrainingInit, Forwards
  <2>2. fp_lock[p][i] = 1 /\ done[p][i] = 0
    BY DEF TrainingInit, Zero
  <2>3. 0 \div Chunks[i] = 0
    BY DivZero, TrainingAssumption
  <2> QED
    BY <2>1, <2>2, <2>3
<1> QED
  BY <1>1, <1>2, TrainingAssumption
  DEF TrainingInit, TrainingInv, InsideIterations, CountsInOrder, DrainedSoFar,
      CleanupAfterAllreduce, Zero

\* The forward pass takes fp_lock, and is counted.
LEMMA ForwardInv == ASSUME TrainingInv, NEW p \in Proc, Forward(p) PROVE TrainingInv'
<1>1. /\ layer[p] \in Layer /\ layer[p] \in Nat
      /\ fp_lock[p][layer[p]] > 0 /\ pc[p] = "forward"
  BY TypeFacts, LayerZero DEF Forward, MayForward, TrainingInv
<1>2. fp_lock' = [fp_lock EXCEPT ![p][layer[p]] = @ - 1]
  BY DEF Forward
<1>3. UNCHANGED <<it, called, started, done>>
  BY DEF Forward
<1>4. \/ /\ layer[p] < NLayers - 1 /\ pc' = pc
         /\ layer' = [layer EXCEPT ![p] = @ + 1]
      \/ /\ layer[p] = NLayers - 1 /\ layer' = layer
         /\ pc' = [pc EXCEPT ![p] = "backward"]
  BY <1>1, LayerNat, TrainingAssumption DEF Forward
<1>5. TrainingTypeOK'
  <2>1. fp_lock' \in [Proc -> [Layer -> Nat]]
    BY <1>1, <1>2 DEF TrainingInv, TrainingTypeOK
  <2>2. layer' \in [Proc -> Layer]
    <3>1. layer \in [Proc -> Layer]
      BY DEF TrainingInv, TrainingTypeOK
    <3>2. CASE layer[p] < NLayers - 1 /\ layer' = [layer EXCEPT ![p] = @ + 1]
      <4>1. layer[p] + 1 \in Layer
        BY <1>1, <3>2, LayerUp
      <4> QED
        BY <3>1, <3>2, <4>1
    <3> QED
      BY <1>4, <3>1, <3>2
  <2>3. pc' \in [Proc -> {"forward", "backward", "drain", "cleanup", "done"}]
    BY <1>4 DEF TrainingInv, TrainingTypeOK
  <2> QED
    BY <2>1, <2>2, <2>3, <1>3 DEF TrainingInv, TrainingTypeOK
<1>6. InsideIterations' /\ CountsInOrder' /\ DrainedSoFar' /\ CleanupAfterAllreduce'
  <2>1. InsideIterations' /\ CountsInOrder'
    BY <1>1, <1>3, <1>4
    DEF TrainingInv, TrainingTypeOK, InsideIterations, CountsInOrder
  <2>2. \A q \in Proc : pc'[q] \in {"drain", "cleanup", "done"} =>
            pc'[q] = pc[q] /\ layer'[q] = layer[q]
    BY <1>1, <1>4 DEF TrainingInv, TrainingTypeOK
  <2> QED
    BY <2>1, <2>2, <1>3 DEF TrainingInv, DrainedSoFar, CleanupAfterAllreduce
<1>7. FpLockCounts'
  <2> SUFFICES ASSUME NEW q \in Proc, NEW i \in Layer, NWorkers(q) > 1
               PROVE  fp_lock'[q][i] + Forwards(q, i)'
                        = 1 + (done[q][i] \div Chunks[i])
    BY <1>3 DEF FpLockCounts
  <2>1. fp_lock[q][i] + Forwards(q, i) = 1 + (done[q][i] \div Chunks[i])
    BY DEF TrainingInv, FpLockCounts
  <2>2. /\ it[q] \in Nat /\ Forwards(q, i) \in Nat /\ fp_lock[q][i] \in Nat
        /\ done[q][i] \div Chunks[i] \in Nat /\ i \in Nat /\ i <= NLayers - 1
    BY TypeFacts, LayerNat DEF TrainingInv
  <2>3. CASE q = p /\ i = layer[p]
    <3>1. Forwards(q, i) = it[q] /\ Forwards(q, i)' = it[q] + 1
      BY <2>3, <1>1, <1>3, <1>4 DEF Forwards, TrainingInv, TrainingTypeOK
    <3>2. fp_lock'[q][i] = fp_lock[q][i] - 1
      BY <2>3, <1>1, <1>2 DEF TrainingInv, TrainingTypeOK
    <3> QED
      BY <2>1, <2>2, <3>1, <3>2
  <2>4. CASE q = p /\ i # layer[p]
    <3>1. Forwards(q, i)' = Forwards(q, i)
      <4>1. it' = it /\ i # layer[q] /\ pc[q] = "forward"
        BY <2>4, <1>1, <1>3
      <4>2. CASE /\ layer[p] < NLayers - 1 /\ pc' = pc
                 /\ layer' = [layer EXCEPT ![p] = @ + 1]
        <5>1. layer'[q] = layer[q] + 1 /\ pc'[q] = "forward"
          BY <2>4, <4>1, <4>2 DEF TrainingInv, TrainingTypeOK
        <5>2. i < layer[q] <=> i < layer[q] + 1
          BY <2>2, <2>4, <1>1
        <5> QED
          BY <4>1, <5>1, <5>2 DEF Forwards
      <4>3. CASE /\ layer[p] = NLayers - 1 /\ layer' = layer
                 /\ pc' = [pc EXCEPT ![p] = "backward"]
        <5>1. pc'[q] = "backward"
          BY <2>4, <4>3 DEF TrainingInv, TrainingTypeOK
        <5>2. i < layer[q]
          BY <2>2, <2>4, <1>1, <4>3, TrainingAssumption
        <5> QED
          BY <4>1, <5>1, <5>2 DEF Forwards
      <4> QED
        BY <1>4, <4>2, <4>3
    <3>2. fp_lock'[q][i] = fp_lock[q][i]
      BY <2>4, <1>1, <1>2 DEF TrainingInv, TrainingTypeOK
    <3> QED
      BY <2>1, <3>1, <3>2
  <2>5. CASE q # p
    <3>1. Forwards(q, i)' = Forwards(q, i)
      BY <2>5, <1>3, <1>4 DEF Forwards, TrainingInv, TrainingTypeOK
    <3>2. fp_lock'[q][i] = fp_lock[q][i]
      BY <2>5, <1>2 DEF TrainingInv, TrainingTypeOK
    <3> QED
      BY <2>1, <3>1, <3>2
  <2> QED
    BY <2>3, <2>4, <2>5
<1> QED
  BY <1>5, <1>6, <1>7 DEF TrainingInv

\* The backward pass of tensor layer[p]: with several workers the allreduce is
\* called now or later, a worker alone returns fp_lock itself.
LEMMA AdvanceInv ==
    ASSUME TrainingInv, NEW p \in Proc, Advance(p), UNCHANGED <<started, done>>,
           called' = called \/ called' = Plus(called, p, layer[p], 1),
           \/ fp_lock' = fp_lock
           \/ NWorkers(p) = 1 /\ fp_lock' = Plus(fp_lock, p, layer[p], 1)
    PROVE  TrainingInv'
<1>1. layer[p] \in Layer /\ layer[p] \in Nat /\ pc[p] = "backward"
  BY TypeFacts, LayerZero DEF Advance, TrainingInv
<1>2. it[p] \in Nat /\ it[p] < NIter
  BY <1>1, TypeFacts, LayerZero DEF TrainingInv, InsideIterations
<1>3. \/ /\ layer[p] > 0 /\ layer' = [layer EXCEPT ![p] = @ - 1]
         /\ pc' = pc /\ it' = it
      \/ /\ layer[p] = 0 /\ layer' = layer
         /\ it' = [it EXCEPT ![p] = @ + 1]
         /\ \/ it[p] + 1 < NIter /\ pc' = [pc EXCEPT ![p] = "forward"]
            \/ pc' = [pc EXCEPT ![p] = "drain"]
  BY <1>1 DEF Advance, MoreIterations
<1>4. \A q \in Proc, i \in Layer : called'[q][i] \in Nat /\ called'[q][i] >= called[q][i]
  <2> SUFFICES ASSUME NEW q \in Proc, NEW i \in Layer
               PROVE  called'[q][i] \in Nat /\ called'[q][i] >= called[q][i]
    OBVIOUS
  <2>1. called[q][i] \in Nat /\ called \in [Proc -> [Layer -> Nat]]
    BY TypeFacts DEF TrainingInv, TrainingTypeOK
  <2>2. CASE called' = called
    BY <2>1, <2>2
  <2>3. CASE called' = Plus(called, p, layer[p], 1)
    BY <2>1, <2>3, <1>1 DEF Plus
  <2> QED
    BY <2>2, <2>3
<1>5. \A q \in Proc : q # p =>
        called'[q] = called[q] /\ pc'[q] = pc[q] /\ layer'[q] = layer[q] /\ it'[q] = it[q]
  BY <1>3 DEF Plus, TrainingInv, TrainingTypeOK
<1>6. TrainingTypeOK'
  <2>1. fp_lock' \in [Proc -> [Layer -> Nat]]
    <3>1. fp_lock \in [Proc -> [Layer -> Nat]]
      BY DEF TrainingInv, TrainingTypeOK
    <3>2. Plus(fp_lock, p, layer[p], 1) \in [Proc -> [Layer -> Nat]]
      BY <1>1, <3>1, PlusType
    <3> QED
      BY <3>1, <3>2
  <2>2. called' \in [Proc -> [Layer -> Nat]]
    BY <1>1, PlusType DEF TrainingInv, TrainingTypeOK
  <2>3. layer' \in [Proc -> Layer]
    <3>1. layer[p] > 0 => layer[p] - 1 \in Layer
      BY <1>1, LayerDown
    <3>2. layer \in [Proc -> Layer]
      BY DEF TrainingInv, TrainingTypeOK
    <3>3. layer' = layer \/ (layer[p] > 0 /\ layer' = [layer EXCEPT ![p] = layer[p] - 1])
      BY <1>3
    <3> QED
      BY <3>1, <3>2, <3>3
  <2>4. it' \in [Proc -> 0 .. NIter]
    <3>1. it[p] + 1 \in 0 .. NIter
      BY <1>2, TrainingAssumption
    <3>2. it \in [Proc -> 0 .. NIter]
      BY DEF TrainingInv, TrainingTypeOK
    <3>3. it' = it \/ it' = [it EXCEPT ![p] = it[p] + 1]
      BY <1>3
    <3> QED
      BY <3>1, <3>2, <3>3
  <2>5. pc' \in [Proc -> {"forward", "backward", "drain", "cleanup", "done"}]
    BY <1>3 DEF TrainingInv, TrainingTypeOK
  <2> QED
    BY <2>1, <2>2, <2>3, <2>4, <2>5 DEF TrainingInv, TrainingTypeOK
<1>7. InsideIterations'
  BY <1>1, <1>2, <1>3 DEF TrainingInv, TrainingTypeOK, InsideIterations
<1>8. CountsInOrder'
  <2> SUFFICES ASSUME NEW q \in Proc, NEW i \in Layer
               PROVE  done[q][i] <= started[q][i] /\ started[q][i] <= called'[q][i]
    BY DEF CountsInOrder
  <2> QED
    BY <1>4, TypeFacts DEF TrainingInv, CountsInOrder
<1>9. DrainedSoFar' /\ CleanupAfterAllreduce'
  <2>1. pc'[p] \in {"forward", "backward", "drain"}
    BY <1>1, <1>3 DEF TrainingInv, TrainingTypeOK
  <2>2. pc'[p] = "drain" => layer'[p] = 0
    BY <1>1, <1>3 DEF TrainingInv, TrainingTypeOK
  <2>3. \A i \in Layer : ~(i < 0)
    BY LayerNat
  <2>4. DrainedSoFar'
    <3> SUFFICES ASSUME NEW q \in Proc, pc'[q] = "drain", NEW i \in Layer, i < layer'[q]
                 PROVE  called'[q][i] = done[q][i]
      BY DEF DrainedSoFar
    <3>1. q # p
      BY <2>2, <2>3
    <3> QED
      BY <3>1, <1>5 DEF TrainingInv, DrainedSoFar
  <2>5. CleanupAfterAllreduce'
    BY <1>5, <2>1 DEF TrainingInv, CleanupAfterAllreduce
  <2> QED
    BY <2>4, <2>5
<1>10. FpLockCounts'
  <2> SUFFICES ASSUME NEW q \in Proc, NEW i \in Layer, NWorkers(q) > 1
               PROVE  fp_lock'[q][i] + Forwards(q, i)'
                        = 1 + (done[q][i] \div Chunks[i])
    BY DEF FpLockCounts
  <2>1. fp_lock[q][i] + Forwards(q, i) = 1 + (done[q][i] \div Chunks[i])
    BY DEF TrainingInv, FpLockCounts
  <2>2. i \in Nat /\ it[q] \in Nat
    BY TypeFacts, LayerNat DEF TrainingInv
  <2>3. fp_lock'[q][i] = fp_lock[q][i]
    <3>1. CASE fp_lock' = fp_lock
      BY <3>1
    <3>2. CASE NWorkers(p) = 1 /\ fp_lock' = Plus(fp_lock, p, layer[p], 1)
      BY <3>2 DEF Plus, TrainingInv, TrainingTypeOK
    <3> QED
      BY <3>1, <3>2
  <2>4. Forwards(q, i)' = Forwards(q, i)
    <3>1. CASE q # p
      BY <3>1, <1>5 DEF Forwards
    <3>2. CASE q = p
      <4>1. Forwards(q, i) = it[q] + 1
        BY <3>2, <1>1 DEF Forwards
      <4>2. CASE layer[p] > 0 /\ layer' = [layer EXCEPT ![p] = @ - 1]
                   /\ pc' = pc /\ it' = it
        BY <3>2, <4>1, <4>2, <1>1 DEF Forwards
      <4>3. CASE /\ layer[p] = 0 /\ layer' = layer
                 /\ it' = [it EXCEPT ![p] = @ + 1]
                 /\ \/ it[p] + 1 < NIter /\ pc' = [pc EXCEPT ![p] = "forward"]
                    \/ pc' = [pc EXCEPT ![p] = "drain"]
        <5>1. it'[q] = it[q] + 1 /\ pc'[q] # "backward" /\ layer'[q] = 0
          BY <3>2, <4>3 DEF TrainingInv, TrainingTypeOK
        <5> QED
          BY <2>2, <4>1, <5>1 DEF Forwards
      <4> QED
        BY <1>3, <4>2, <4>3
    <3> QED
      BY <3>1, <3>2
  <2> QED
    BY <2>1, <2>3, <2>4
<1> QED
  BY <1>6, <1>7, <1>8, <1>9, <1>10 DEF TrainingInv

\* The lock of the tensor's allreduces is granted.
LEMMA StartAllreduceInv ==
    ASSUME TrainingInv, NEW p \in Proc, NEW i \in Layer, StartAllreduce(p, i)
    PROVE  TrainingInv'
<1>1. started \in [Proc -> [Layer -> Nat]]
  BY DEF TrainingInv, TrainingTypeOK
<1>2. started' = Plus(started, p, i, 1) /\ UNCHANGED <<pc, layer, it, fp_lock, called, done>>
  BY DEF StartAllreduce
<1>3. TrainingTypeOK'
  BY <1>1, <1>2, PlusType DEF TrainingInv, TrainingTypeOK
<1>4. CountsInOrder'
  <2> SUFFICES ASSUME NEW q \in Proc, NEW j \in Layer
               PROVE  done[q][j] <= started'[q][j] /\ started'[q][j] <= called[q][j]
    BY <1>2 DEF CountsInOrder
  <2>1. /\ done[q][j] <= started[q][j] /\ started[q][j] <= called[q][j]
        /\ done[q][j] \in Nat /\ started[q][j] \in Nat /\ called[q][j] \in Nat
    BY TypeFacts DEF TrainingInv, CountsInOrder
  <2>2. CASE q = p /\ j = i
    <3>1. started'[q][j] = started[q][j] + 1
      BY <1>1, <1>2, <2>2 DEF Plus
    <3> QED
      BY <2>1, <2>2, <3>1 DEF StartAllreduce
  <2>3. CASE q # p \/ j # i
    <3>1. started'[q][j] = started[q][j]
      BY <1>1, <1>2, <2>3 DEF Plus
    <3> QED
      BY <2>1, <3>1
  <2> QED
    BY <2>2, <2>3
<1> QED
  BY <1>2, <1>3, <1>4
  DEF TrainingInv, InsideIterations, DrainedSoFar, CleanupAfterAllreduce, FpLockCounts, Forwards

\* A round ends on a worker, and returns fp_lock if it is the last of its tensor.
LEMMA CompleteAllreduceInv ==
    ASSUME TrainingInv, NEW p \in Proc, NEW i \in Layer, CompleteAllreduce(p, i)
    PROVE  TrainingInv'
<1>1. done \in [Proc -> [Layer -> Nat]] /\ fp_lock \in [Proc -> [Layer -> Nat]]
  BY DEF TrainingInv, TrainingTypeOK
<1>2. /\ done' = Plus(done, p, i, 1)
      /\ fp_lock' = IF LastChunk(p, i) THEN Plus(fp_lock, p, i, 1) ELSE fp_lock
      /\ started[p][i] > done[p][i]
      /\ UNCHANGED <<pc, layer, it, called, started>>
  BY DEF CompleteAllreduce
<1>3. done'[p][i] = done[p][i] + 1
  BY <1>1, <1>2 DEF Plus
<1>4. \A q \in Proc, j \in Layer : q # p \/ j # i =>
        done'[q][j] = done[q][j] /\ fp_lock'[q][j] = fp_lock[q][j]
  <2> SUFFICES ASSUME NEW q \in Proc, NEW j \in Layer, q # p \/ j # i
               PROVE  done'[q][j] = done[q][j] /\ fp_lock'[q][j] = fp_lock[q][j]
    OBVIOUS
  <2>1. Plus(done, p, i, 1)[q][j] = done[q][j] /\ Plus(fp_lock, p, i, 1)[q][j] = fp_lock[q][j]
    BY <1>1 DEF Plus
  <2> QED
    BY <1>2, <2>1
<1>5. TrainingTypeOK'
  <2>1. done' \in [Proc -> [Layer -> Nat]]
    BY <1>1, <1>2, PlusType
  <2>2. Plus(fp_lock, p, i, 1) \in [Proc -> [Layer -> Nat]]
    BY <1>1, PlusType
  <2> QED
    BY <1>1, <1>2, <2>1, <2>2 DEF TrainingInv, TrainingTypeOK
<1>6. \A q \in Proc, j \in Layer : called[q][j] = done[q][j] => done'[q][j] = done[q][j]
  <2>1. done[p][i] <= started[p][i] /\ started[p][i] <= called[p][i]
    BY DEF TrainingInv, CountsInOrder
  <2>2. done[p][i] \in Nat /\ started[p][i] \in Nat /\ called[p][i] \in Nat
    BY TypeFacts DEF TrainingInv
  <2>3. called[p][i] # done[p][i]
    BY <1>2, <2>1, <2>2
  <2> QED
    BY <1>4, <2>3
<1>7. CountsInOrder'
  <2> SUFFICES ASSUME NEW q \in Proc, NEW j \in Layer
               PROVE  done'[q][j] <= started[q][j] /\ started[q][j] <= called[q][j]
    BY <1>2 DEF CountsInOrder
  <2>1. /\ done[q][j] <= started[q][j] /\ started[q][j] <= called[q][j]
        /\ done[q][j] \in Nat /\ started[q][j] \in Nat /\ called[q][j] \in Nat
    BY TypeFacts DEF TrainingInv, CountsInOrder
  <2> QED
    BY <1>2, <1>3, <1>4, <2>1
<1>8. InsideIterations' /\ DrainedSoFar' /\ CleanupAfterAllreduce'
  BY <1>2, <1>6 DEF TrainingInv, InsideIterations, DrainedSoFar, CleanupAfterAllreduce
<1>9. FpLockCounts'
  <2> SUFFICES ASSUME NEW q \in Proc, NEW j \in Layer, NWorkers(q) > 1
               PROVE  fp_lock'[q][j] + Forwards(q, j)
                        = 1 + (done'[q][j] \div Chunks[j])
    BY <1>2 DEF FpLockCounts, Forwards
  <2>1. fp_lock[q][j] + Forwards(q, j) = 1 + (done[q][j] \div Chunks[j])
    BY DEF TrainingInv, FpLockCounts
  <2>2. CASE q = p /\ j = i
    <3>1. /\ done[p][i] \in Nat /\ Chunks[i] \in Nat \ {0} /\ fp_lock[p][i] \in Nat
          /\ Forwards(p, i) \in Nat /\ done[p][i] \div Chunks[i] \in Nat
      BY TypeFacts DEF TrainingInv
    <3>2. (done[p][i] + 1) \div Chunks[i]
            = (done[p][i] \div Chunks[i]) + IF LastChunk(p, i) THEN 1 ELSE 0
      BY <3>1, DivStep DEF LastChunk
    <3>3. fp_lock'[p][i] = fp_lock[p][i] + IF LastChunk(p, i) THEN 1 ELSE 0
      <4>1. Plus(fp_lock, p, i, 1)[p][i] = fp_lock[p][i] + 1
        BY <1>1 DEF Plus
      <4> QED
        BY <1>2, <3>1, <4>1
    <3> QED
      BY <1>3, <2>1, <2>2, <3>1, <3>2, <3>3
  <2>3. CASE q # p \/ j # i
    BY <1>4, <2>1, <2>3
  <2> QED
    BY <2>2, <2>3
<1> QED
  BY <1>5, <1>7, <1>8, <1>9 DEF TrainingInv

\* Both locks of one tensor are taken and returned.
LEMMA DrainInv == ASSUME TrainingInv, NEW p \in Proc, Drain(p) PROVE TrainingInv'
<1>1. layer[p] \in Layer /\ layer[p] \in Nat /\ pc[p] = "drain"
  BY TypeFacts, LayerZero DEF Drain, TrainingInv
<1>2. called[p][layer[p]] = done[p][layer[p]] /\ UNCHANGED <<it, fp_lock, called, started, done>>
  BY DEF Drain, Drained
<1>3. \/ /\ layer[p] < NLayers - 1 /\ pc' = pc
         /\ layer' = [layer EXCEPT ![p] = @ + 1]
      \/ /\ layer[p] = NLayers - 1 /\ layer' = layer
         /\ pc' = [pc EXCEPT ![p] = "cleanup"]
  BY <1>1, LayerNat, TrainingAssumption DEF Drain
<1>4. \A i \in Layer : i < layer[p] + 1 => called[p][i] = done[p][i]
  <2> SUFFICES ASSUME NEW i \in Layer, i < layer[p] + 1 PROVE called[p][i] = done[p][i]
    OBVIOUS
  <2>1. i \in Nat
    BY LayerNat
  <2>2. i = layer[p] \/ i < layer[p]
    BY <1>1, <2>1
  <2> QED
    BY <1>1, <1>2, <2>2 DEF TrainingInv, DrainedSoFar
<1>5. TrainingTypeOK'
  <2>1. layer' \in [Proc -> Layer]
    <3>1. layer[p] < NLayers - 1 => layer[p] + 1 \in Layer
      BY <1>1, LayerUp
    <3>2. layer \in [Proc -> Layer]
      BY DEF TrainingInv, TrainingTypeOK
    <3>3. \/ layer' = layer
          \/ layer[p] < NLayers - 1 /\ layer' = [layer EXCEPT ![p] = layer[p] + 1]
      BY <1>3
    <3> QED
      BY <3>1, <3>2, <3>3
  <2>2. pc' \in [Proc -> {"forward", "backward", "drain", "cleanup", "done"}]
    BY <1>3 DEF TrainingInv, TrainingTypeOK
  <2> QED
    BY <2>1, <2>2, <1>2 DEF TrainingInv, TrainingTypeOK
<1>6. \A q \in Proc : q # p => pc'[q] = pc[q] /\ layer'[q] = layer[q]
  BY <1>3 DEF TrainingInv, TrainingTypeOK
<1>7. pc'[p] \in {"drain", "cleanup"}
  BY <1>1, <1>3 DEF TrainingInv, TrainingTypeOK
<1>8. InsideIterations' /\ CountsInOrder'
  BY <1>2, <1>6, <1>7 DEF TrainingInv, InsideIterations, CountsInOrder
<1>9. DrainedSoFar'
  <2>1. pc'[p] = "drain" => layer'[p] = layer[p] + 1
    BY <1>1, <1>3 DEF TrainingInv, TrainingTypeOK
  <2> QED
    BY <1>2, <1>4, <1>6, <2>1 DEF TrainingInv, DrainedSoFar
<1>10. CleanupAfterAllreduce'
  <2>1. pc'[p] = "cleanup" => layer[p] = NLayers - 1
    BY <1>1, <1>3 DEF TrainingInv, TrainingTypeOK
  <2>2. pc'[p] = "cleanup" => \A i \in Layer : called[p][i] = done[p][i]
    <3> SUFFICES ASSUME layer[p] = NLayers - 1, NEW i \in Layer
                 PROVE  called[p][i] = done[p][i]
      BY <2>1
    <3>1. i < layer[p] + 1
      BY LayerNat, TrainingAssumption
    <3> QED
      BY <1>4, <3>1
  <2> QED
    BY <1>2, <1>6, <1>7, <2>2 DEF TrainingInv, CleanupAfterAllreduce
<1>11. FpLockCounts'
  <2> SUFFICES ASSUME NEW q \in Proc, NEW i \in Layer PROVE Forwards(q, i)' = Forwards(q, i)
    BY <1>2 DEF TrainingInv, FpLockCounts
  <2> QED
    BY <1>1, <1>2, <1>6, <1>7 DEF Forwards
<1> QED
  BY <1>5, <1>8, <1>9, <1>10, <1>11 DEF TrainingInv

\* The job leaves.
LEMMA LeaveInv == ASSUME TrainingInv, NEW p \in Proc, Leave(p) PROVE TrainingInv'
<1>1. /\ pc[p] = "cleanup" /\ pc' = [pc EXCEPT ![p] = "done"]
      /\ UNCHANGED <<layer, it, fp_lock, called, started, done>>
  BY DEF Leave
<1>2. pc'[p] = "done" /\ \A q \in Proc : q # p => pc'[q] = pc[q]
  BY <1>1 DEF TrainingInv, TrainingTypeOK
<1>3. TrainingTypeOK'
  BY <1>1 DEF TrainingInv, TrainingTypeOK
<1>4. InsideIterations' /\ CountsInOrder' /\ DrainedSoFar' /\ CleanupAfterAllreduce'
  BY <1>1, <1>2
  DEF TrainingInv, InsideIterations, CountsInOrder, DrainedSoFar, CleanupAfterAllreduce
<1>5. \A q \in Proc, i \in Layer : Forwards(q, i)' = Forwards(q, i)
  BY <1>1, <1>2 DEF Forwards
<1>6. FpLockCounts'
  BY <1>1, <1>5 DEF TrainingInv, FpLockCounts
<1> QED
  BY <1>3, <1>4, <1>6 DEF TrainingInv

\* A step that changes nothing here.
LEMMA StutterInv == TrainingInv /\ UNCHANGED trainingVars => TrainingInv'
BY DEF TrainingInv, trainingVars, TrainingTypeOK, InsideIterations, CountsInOrder,
       DrainedSoFar, CleanupAfterAllreduce, FpLockCounts, Forwards

\* fp_lock is never negative, so past a forward pass the quotient is at least it.
LEMMA InvForward == TrainingInv => ForwardAfterAllreduce
<1> SUFFICES ASSUME TrainingInv, NEW p \in Proc, NEW i \in Layer, NWorkers(p) > 1,
                    pc[p] = "backward" \/ (pc[p] = "forward" /\ i < layer[p])
             PROVE  done[p][i] >= it[p] * Chunks[i]
  BY DEF ForwardAfterAllreduce
<1>1. /\ it[p] \in Nat /\ done[p][i] \in Nat /\ Chunks[i] \in Nat \ {0}
      /\ fp_lock[p][i] \in Nat /\ done[p][i] \div Chunks[i] \in Nat
  BY TypeFacts DEF TrainingInv
<1>2. fp_lock[p][i] + (it[p] + 1) = 1 + (done[p][i] \div Chunks[i])
  BY DEF TrainingInv, FpLockCounts, Forwards
<1>3. it[p] <= done[p][i] \div Chunks[i]
  BY <1>1, <1>2
<1>4. it[p] * Chunks[i] <= done[p][i]
  BY <1>1, <1>3, DivBound
<1>5. it[p] * Chunks[i] \in Nat
  BY <1>1
<1> QED
  BY <1>1, <1>4, <1>5

-----------------------------------------------------------------------------
(* What the steps of the loops mean to a scheduler that counts enqueues.    *)

\* The final loop of p has passed the locks of tensor i.
Passed(p, i) == pc[p] \in {"cleanup", "done"} \/ (pc[p] = "drain" /\ i < layer[p])

\* The steps of the loops and of the rounds that enqueue nothing.
QuietMove ==
    \/ \E p \in Proc : Forward(p) \/ BackwardAlone(p) \/ Drain(p) \/ Leave(p)
    \/ \E p \in Proc, i \in Layer : StartAllreduce(p, i) \/ CompleteAllreduce(p, i)
    \/ UNCHANGED trainingVars

\* What such a step does to the counts of worker p and tensor i.
QuietOn(p, i) ==
    /\ done'[p][i] >= done[p][i]
    /\ NWorkers(p) > 1 => Enqueued(p, i)' = Enqueued(p, i)
    /\ Passed(p, i)' /\ ~Passed(p, i) => pc[p] = "drain" /\ fp_lock[p][i] > 0

\* A forward pass is quiet.
LEMMA QuietForward ==
    ASSUME TrainingInv, NEW p \in Proc, Forward(p), NEW q \in Proc, NEW i \in Layer
    PROVE  QuietOn(q, i)
<1>1. /\ layer[p] \in Nat /\ NLayers \in Nat /\ i \in Nat /\ i <= NLayers - 1
      /\ done[q][i] \in Nat
  BY TypeFacts, LayerNat, TrainingAssumption DEF TrainingInv
<1>2. /\ called' = called /\ done' = done /\ it' = it /\ pc[p] = "forward"
      /\ \/ layer' = [layer EXCEPT ![p] = @ + 1] /\ pc' = pc
         \/ layer' = layer /\ layer[p] >= NLayers - 1 /\ pc' = [pc EXCEPT ![p] = "backward"]
  BY <1>1 DEF Forward
<1>3. Enqueued(q, i)' = Enqueued(q, i) /\ (Passed(q, i)' => Passed(q, i))
  <2>1. CASE q = p
    <3>1. \/ pc'[p] = "forward"
          \/ pc'[p] = "backward" /\ layer'[p] = layer[p] /\ layer[p] >= NLayers - 1
      BY <1>2 DEF TrainingInv, TrainingTypeOK
    <3>2. ~(layer[p] >= NLayers - 1 /\ layer[p] < i)
      BY <1>1
    <3> QED
      BY <1>2, <2>1, <3>1, <3>2 DEF Enqueued, Passed
  <2>2. CASE q # p
    <3>1. pc'[q] = pc[q] /\ layer'[q] = layer[q]
      BY <1>2, <2>2 DEF TrainingInv, TrainingTypeOK
    <3> QED
      BY <1>2, <3>1 DEF Enqueued, Passed
  <2> QED
    BY <2>1, <2>2
<1> QED
  BY <1>1, <1>2, <1>3 DEF QuietOn

\* So is the backward pass of a worker alone, which no scheduler counts.
LEMMA QuietAlone ==
    ASSUME TrainingInv, NEW p \in Proc, BackwardAlone(p), NEW q \in Proc, NEW i \in Layer
    PROVE  QuietOn(q, i)
<1>1. NWorkers(p) = 1 /\ Advance(p) /\ called' = called /\ done' = done
  BY DEF BackwardAlone
<1>2. i \in Nat /\ layer[p] \in Nat /\ done[q][i] \in Nat
  BY TypeFacts, LayerNat, LayerZero DEF TrainingInv
<1>3. NWorkers(q) > 1 => Enqueued(q, i)' = Enqueued(q, i)
  <2> SUFFICES ASSUME NWorkers(q) > 1 PROVE Enqueued(q, i)' = Enqueued(q, i)
    OBVIOUS
  <2>1. q # p
    BY <1>1
  <2>2. pc'[q] = pc[q] /\ layer'[q] = layer[q] /\ it'[q] = it[q]
    BY <1>1, <2>1 DEF Advance, TrainingInv, TrainingTypeOK
  <2> QED
    BY <2>2 DEF Enqueued
<1>4. Passed(q, i)' => Passed(q, i)
  <2>1. CASE q = p
    <3>1. pc[p] = "backward" /\ pc \in [Proc -> {"forward", "backward", "drain", "cleanup", "done"}]
      BY <1>1 DEF Advance, TrainingInv, TrainingTypeOK
    <3>2. CASE layer[p] > 0
      BY <1>1, <2>1, <3>1, <3>2 DEF Advance, Passed
    <3>3. CASE ~(layer[p] > 0)
      <4>1. layer[p] = 0 /\ layer' = layer /\ pc'[p] \in {"forward", "drain"}
        BY <1>1, <1>2, <3>1, <3>3 DEF Advance
      <4> QED
        BY <1>2, <2>1, <4>1 DEF Passed
    <3> QED
      BY <3>2, <3>3
  <2>2. CASE q # p
    <3>1. pc'[q] = pc[q] /\ layer'[q] = layer[q]
      BY <1>1, <2>2 DEF Advance, TrainingInv, TrainingTypeOK
    <3> QED
      BY <3>1 DEF Passed
  <2> QED
    BY <2>1, <2>2
<1> QED
  BY <1>1, <1>2, <1>3, <1>4 DEF QuietOn

\* The final loop passes a tensor when its fp_lock is free.
LEMMA QuietDrain ==
    ASSUME TrainingInv, NEW p \in Proc, Drain(p), NEW q \in Proc, NEW i \in Layer
    PROVE  QuietOn(q, i)
<1>1. /\ layer[p] \in Nat /\ NLayers \in Nat /\ i \in Nat /\ i <= NLayers - 1
      /\ done[q][i] \in Nat
  BY TypeFacts, LayerNat, TrainingAssumption DEF TrainingInv
<1>2. /\ done' = done /\ it' = it /\ pc[p] = "drain" /\ fp_lock[p][layer[p]] > 0
      /\ \/ layer' = [layer EXCEPT ![p] = @ + 1] /\ pc' = pc
         \/ layer' = layer /\ layer[p] >= NLayers - 1 /\ pc' = [pc EXCEPT ![p] = "cleanup"]
  BY <1>1 DEF Drain, Drained
<1>3. pc'[p] \in {"drain", "cleanup"}
  BY <1>2 DEF TrainingInv, TrainingTypeOK
<1>4. q # p => pc'[q] = pc[q] /\ layer'[q] = layer[q]
  BY <1>2 DEF TrainingInv, TrainingTypeOK
<1>5. Enqueued(q, i)' = Enqueued(q, i)
  BY <1>2, <1>3, <1>4 DEF Enqueued
<1>6. ASSUME Passed(q, i)', ~Passed(q, i) PROVE pc[q] = "drain" /\ fp_lock[q][i] > 0
  <2>1. q = p
    BY <1>4, <1>6 DEF Passed
  <2>2. ~(i < layer[p])
    BY <1>2, <1>6, <2>1 DEF Passed
  <2>3. i < layer[p] + 1
    BY <1>1, <1>2, <1>6, <2>1 DEF Passed, TrainingInv, TrainingTypeOK
  <2>4. i = layer[p]
    BY <1>1, <2>2, <2>3
  <2> QED
    BY <1>2, <2>1, <2>4
<1> QED
  BY <1>1, <1>2, <1>5, <1>6 DEF QuietOn

\* A round that starts or ends is quiet.
LEMMA QuietRound ==
    ASSUME TrainingInv, NEW p \in Proc, NEW l \in Layer,
           StartAllreduce(p, l) \/ CompleteAllreduce(p, l), NEW q \in Proc, NEW i \in Layer
    PROVE  QuietOn(q, i)
<1>1. UNCHANGED <<pc, layer, it>> /\ (done' = done \/ done' = Plus(done, p, l, 1))
  BY DEF StartAllreduce, CompleteAllreduce
<1>2. Enqueued(q, i)' = Enqueued(q, i) /\ (Passed(q, i)' => Passed(q, i))
  BY <1>1 DEF Enqueued, Passed
<1>3. done[q][i] \in Nat /\ done \in [Proc -> [Layer -> Nat]]
  BY TypeFacts DEF TrainingInv, TrainingTypeOK
<1>4. done'[q][i] >= done[q][i]
  <2>1. CASE done' = done
    BY <1>3, <2>1
  <2>2. CASE done' = Plus(done, p, l, 1)
    BY <1>3, <2>2 DEF Plus
  <2> QED
    BY <1>1, <2>1, <2>2
<1> QED
  BY <1>2, <1>4 DEF QuietOn

\* All of them preserve the invariant of the loops and call nothing.
LEMMA QuietSteps ==
    ASSUME TrainingInv, QuietMove
    PROVE  TrainingInv' /\ called' = called /\ \A q \in Proc, i \in Layer : QuietOn(q, i)
<1>1. ASSUME NEW p \in Proc, Forward(p) \/ BackwardAlone(p) \/ Drain(p) \/ Leave(p)
      PROVE  TrainingInv' /\ called' = called /\ \A q \in Proc, i \in Layer : QuietOn(q, i)
  <2>1. called' = called
    BY <1>1 DEF Forward, BackwardAlone, Drain, Leave
  <2>2. CASE Forward(p)
    BY <2>1, <2>2, ForwardInv, QuietForward
  <2>3. CASE BackwardAlone(p)
    <3>1. /\ NWorkers(p) = 1 /\ Advance(p) /\ fp_lock' = Plus(fp_lock, p, layer[p], 1)
          /\ started' = started /\ done' = done
      BY <2>3 DEF BackwardAlone
    <3>2. TrainingInv'
      BY <2>1, <3>1, AdvanceInv
    <3> QED
      BY <2>1, <2>3, <3>2, QuietAlone
  <2>4. CASE Drain(p)
    BY <2>1, <2>4, DrainInv, QuietDrain
  <2>5. CASE Leave(p)
    <3>1. /\ pc[p] = "cleanup" /\ pc' = [pc EXCEPT ![p] = "done"]
          /\ UNCHANGED <<layer, it, called, done>>
      BY <2>5 DEF Leave
    <3>2. pc'[p] = "done" /\ \A q \in Proc : q # p => pc'[q] = pc[q]
      BY <3>1 DEF TrainingInv, TrainingTypeOK
    <3>3. \A q \in Proc, i \in Layer : QuietOn(q, i)
      BY <3>1, <3>2, TypeFacts DEF QuietOn, Enqueued, Passed, TrainingInv
    <3> QED
      BY <2>1, <2>5, <3>3, LeaveInv
  <2> QED
    BY <1>1, <2>2, <2>3, <2>4, <2>5
<1>2. ASSUME NEW p \in Proc, NEW l \in Layer, StartAllreduce(p, l) \/ CompleteAllreduce(p, l)
      PROVE  TrainingInv' /\ called' = called /\ \A q \in Proc, i \in Layer : QuietOn(q, i)
  <2>1. called' = called
    BY <1>2 DEF StartAllreduce, CompleteAllreduce
  <2>2. TrainingInv'
    BY <1>2, StartAllreduceInv, CompleteAllreduceInv
  <2> QED
    BY <1>2, <2>1, <2>2, QuietRound
<1>3. CASE UNCHANGED trainingVars
  <2>1. UNCHANGED <<pc, layer, it, called, done>>
    BY <1>3 DEF trainingVars
  <2>2. \A q \in Proc, i \in Layer : QuietOn(q, i)
    BY <2>1, TypeFacts DEF QuietOn, Enqueued, Passed, TrainingInv
  <2> QED
    BY <1>3, <2>1, <2>2, StutterInv
<1> QED
  BY <1>1, <1>2, <1>3 DEF QuietMove

\* A worker that has fp_lock of a tensor, or could take it, has no enqueue of the
\* tensor that is not over.
LEMMA LockMeansEnded ==
    ASSUME TrainingInv, NEW p \in Proc, NEW i \in Layer, NWorkers(p) > 1,
           \/ Enqueued(p, i) + 1 <= Forwards(p, i)
           \/ Enqueued(p, i) <= Forwards(p, i) /\ fp_lock[p][i] > 0
    PROVE  Enqueued(p, i) <= done[p][i] \div Chunks[i]
<1>1. fp_lock[p][i] + Forwards(p, i) = 1 + (done[p][i] \div Chunks[i])
  BY DEF TrainingInv, FpLockCounts
<1>2. /\ done[p][i] \div Chunks[i] \in Nat /\ fp_lock[p][i] \in Nat
      /\ Forwards(p, i) \in Nat /\ it[p] \in Nat
  BY TypeFacts DEF TrainingInv
<1>3. Enqueued(p, i) \in Nat
  BY <1>2 DEF Enqueued
<1> QED
  BY <1>1, <1>2, <1>3

\* A worker that takes the locks of its final loop has no enqueue that is not over.
LEMMA DrainMeansEnded ==
    ASSUME TrainingInv, NEW p \in Proc, NEW i \in Layer, NWorkers(p) > 1,
           pc[p] = "drain", fp_lock[p][i] > 0
    PROVE  Enqueued(p, i) <= done[p][i] \div Chunks[i]
<1>1. Enqueued(p, i) = it[p] /\ Forwards(p, i) = it[p] /\ it[p] \in Nat
  BY TypeFacts DEF Enqueued, Forwards, TrainingInv
<1> QED
  BY <1>1, LockMeansEnded

\* The backward pass of a tensor ends with its enqueue, and the loops move on.
LEMMA AdvanceEnqueues ==
    ASSUME TrainingInv, NEW p \in Proc, Advance(p)
    PROVE  /\ layer[p] \in Layer /\ it[p] \in 0 .. NIter - 1
           /\ Forwards(p, layer[p]) = Enqueued(p, layer[p]) + 1 /\ Enqueued(p, layer[p]) \in Nat
           /\ \A i \in Layer :
                /\ Enqueued(p, i)' = Enqueued(p, i) + IF i = layer[p] THEN 1 ELSE 0
                /\ ~Passed(p, i)'
           /\ \A q \in Proc, i \in Layer : q # p =>
                Enqueued(q, i)' = Enqueued(q, i) /\ (Passed(q, i)' <=> Passed(q, i))
<1>1. /\ pc[p] = "backward" /\ layer[p] \in Layer /\ layer[p] \in Nat /\ it[p] \in Nat
      /\ pc \in [Proc -> {"forward", "backward", "drain", "cleanup", "done"}]
      /\ layer \in [Proc -> Layer] /\ it \in [Proc -> 0 .. NIter]
  BY TypeFacts, LayerZero DEF Advance, TrainingInv, TrainingTypeOK
<1>2. it[p] \in 0 .. NIter - 1
  BY <1>1, TrainingAssumption DEF TrainingInv, InsideIterations
<1>3. Forwards(p, layer[p]) = it[p] + 1 /\ Enqueued(p, layer[p]) = it[p]
  BY <1>1 DEF Forwards, Enqueued
<1>4. \/ /\ layer[p] > 0 /\ layer'[p] = layer[p] - 1
         /\ pc'[p] = "backward" /\ it'[p] = it[p]
      \/ /\ layer[p] = 0 /\ layer'[p] = 0
         /\ pc'[p] \in {"forward", "drain"} /\ it'[p] = it[p] + 1
  BY <1>1 DEF Advance
<1>5. ASSUME NEW i \in Layer
      PROVE  /\ Enqueued(p, i)' = Enqueued(p, i) + IF i = layer[p] THEN 1 ELSE 0
             /\ ~Passed(p, i)'
  <2>1. i \in Nat
    BY LayerNat
  <2> QED
    BY <1>1, <1>4, <2>1 DEF Enqueued, Passed
<1>6. ASSUME NEW q \in Proc, NEW i \in Layer, q # p
      PROVE  Enqueued(q, i)' = Enqueued(q, i) /\ (Passed(q, i)' <=> Passed(q, i))
  <2>1. pc'[q] = pc[q] /\ layer'[q] = layer[q] /\ it'[q] = it[q]
    BY <1>1, <1>6 DEF Advance
  <2> QED
    BY <2>1 DEF Enqueued, Passed
<1> QED
  BY <1>1, <1>2, <1>3, <1>5, <1>6

\* Calls of allreduce for tensors whose locks no final loop has passed.
LEMMA CalledMoreInv ==
    ASSUME TrainingInv, UNCHANGED <<pc, layer, it, fp_lock, started, done>>,
           called' \in [Proc -> [Layer -> Nat]],
           \A p \in Proc, i \in Layer :
               /\ called'[p][i] >= called[p][i]
               /\ Passed(p, i) => called'[p][i] = called[p][i]
    PROVE  TrainingInv'
<1>1. TrainingTypeOK' /\ InsideIterations' /\ FpLockCounts'
  BY DEF TrainingInv, TrainingTypeOK, InsideIterations, FpLockCounts, Forwards
<1>2. CountsInOrder'
  <2> SUFFICES ASSUME NEW p \in Proc, NEW i \in Layer
               PROVE  done[p][i] <= started[p][i] /\ started[p][i] <= called'[p][i]
    BY DEF CountsInOrder
  <2>1. called'[p][i] \in Nat
    OBVIOUS
  <2>2. done[p][i] <= started[p][i] /\ started[p][i] <= called[p][i]
    BY DEF TrainingInv, CountsInOrder
  <2> QED
    BY <2>1, <2>2, TypeFacts DEF TrainingInv
<1>3. DrainedSoFar' /\ CleanupAfterAllreduce'
  BY DEF TrainingInv, DrainedSoFar, CleanupAfterAllreduce, Passed
<1> QED
  BY <1>1, <1>2, <1>3 DEF TrainingInv

-----------------------------------------------------------------------------
(* The loop without a collective scheduler.                                *)

\* A backward pass that calls allreduce at once.
BackwardCalling(p) ==
    /\ NWorkers(p) > 1
    /\ Advance(p)
    /\ called' = Plus(called, p, layer[p], 1)
    /\ UNCHANGED <<fp_lock, started, done>>

\* A step of one worker's loop.
WorkerStep(p) ==
    Forward(p) \/ BackwardCalling(p) \/ BackwardAlone(p) \/ Drain(p) \/ Leave(p)

\* A step of one of its rounds.
RoundMoves(p, i) == StartAllreduce(p, i) \/ CompleteAllreduce(p, i)

\* A step of the loop without a scheduler, or none.
TrainStep ==
    \/ \E p \in Proc : WorkerStep(p) \/ \E i \in Layer : RoundMoves(p, i)
    \/ UNCHANGED trainingVars

\* The instance starts as the loop does.
LEMMA UngovernedInit == U!LoopInit => TrainingInit
BY DEF U!LoopInit, U!TrainingInit, U!Zero, U!Layer, TrainingInit, Zero, Layer

\* Its helpers are those of Training.
LEMMA SameHelpers ==
    ASSUME NEW p \in Proc
    PROVE  /\ U!Layer = Layer /\ U!NWorkers(p) = NWorkers(p)
           /\ U!Workers(JobOf[p]) = Workers(JobOf[p])
           /\ \A f, i, n : U!Plus(f, p, i, n) = Plus(f, p, i, n)
           /\ \A i \in Layer : U!LastChunk(p, i) = LastChunk(p, i)
<1>1. \A S : U!Cardinality(S) = Cardinality(S)
  BY DEF U!Cardinality, U!IsFiniteSet, Cardinality, IsFiniteSet
<1>2. /\ U!Layer = Layer /\ U!Workers(JobOf[p]) = Workers(JobOf[p])
      /\ \A f, i, n : U!Plus(f, p, i, n) = Plus(f, p, i, n)
      /\ \A i \in Layer : U!LastChunk(p, i) = LastChunk(p, i)
  BY DEF U!Layer, Layer, U!Workers, Workers, U!Plus, Plus, U!LastChunk, LastChunk
<1> QED
  BY <1>1, <1>2 DEF U!NWorkers, NWorkers

\* So are the steps of a worker's loop.
LEMMA SameWorkerStep == ASSUME NEW p \in Proc, U!LoopStep(p) PROVE WorkerStep(p)
<1>1. U!Advance(p) => Advance(p)
  BY DEF U!Advance, Advance, U!MoreIterations, MoreIterations
<1>2. U!Forward(p) => Forward(p)
  BY DEF U!Forward, Forward, U!MayForward, MayForward
<1>3. U!Backward(p) => BackwardCalling(p)
  BY <1>1, SameHelpers DEF U!Backward, BackwardCalling
<1>4. U!BackwardAlone(p) => BackwardAlone(p)
  BY <1>1, SameHelpers DEF U!BackwardAlone, BackwardAlone
<1>5. U!Drain(p) => Drain(p)
  BY DEF U!Drain, Drain, U!Drained, Drained
<1>6. U!Leave(p) => Leave(p)
  BY DEF U!Leave, Leave
<1> QED
  BY <1>2, <1>3, <1>4, <1>5, <1>6 DEF U!LoopStep, WorkerStep

\* And those of its rounds.
LEMMA SameRoundStep ==
    ASSUME NEW p \in Proc, NEW i \in Layer, U!RoundStep(p, i) PROVE RoundMoves(p, i)
<1>1. U!StartAllreduce(p, i) => StartAllreduce(p, i)
  BY SameHelpers DEF U!StartAllreduce, StartAllreduce
<1>2. U!CompleteAllreduce(p, i) => CompleteAllreduce(p, i)
  BY SameHelpers DEF U!CompleteAllreduce, CompleteAllreduce
<1> QED
  BY <1>1, <1>2 DEF U!RoundStep, RoundMoves

\* So every step of the instance is one of the loop.
LEMMA UngovernedStep == ASSUME [U!LoopNext]_(U!trainingVars) PROVE TrainStep
<1>1. U!Layer = Layer
  BY DEF U!Layer, Layer
<1>2. CASE UNCHANGED U!trainingVars
  BY <1>2 DEF U!trainingVars, trainingVars, TrainStep
<1>3. ASSUME NEW p \in Proc, U!LoopStep(p) PROVE TrainStep
  BY <1>3, SameWorkerStep DEF TrainStep
<1>4. ASSUME NEW p \in Proc, NEW i \in Layer, U!RoundStep(p, i) PROVE TrainStep
  BY <1>4, SameRoundStep DEF TrainStep
<1> QED
  BY <1>1, <1>2, <1>3, <1>4 DEF U!LoopNext, U!Over

\* A backward pass that calls allreduce at once preserves the invariant.
LEMMA BackwardInv == ASSUME TrainingInv, NEW p \in Proc, BackwardCalling(p) PROVE TrainingInv'
<1>1. Advance(p) /\ called' = Plus(called, p, layer[p], 1)
  BY DEF BackwardCalling
<1>2. UNCHANGED <<fp_lock, started, done>>
  BY DEF BackwardCalling
<1> QED
  BY <1>1, <1>2, AdvanceInv

\* So does the backward pass of a worker alone, which returns fp_lock itself.
LEMMA BackwardAloneInv ==
    ASSUME TrainingInv, NEW p \in Proc, BackwardAlone(p) PROVE TrainingInv'
<1>1. Advance(p) /\ NWorkers(p) = 1 /\ fp_lock' = Plus(fp_lock, p, layer[p], 1)
  BY DEF BackwardAlone
<1>2. UNCHANGED <<called, started, done>>
  BY DEF BackwardAlone
<1> QED
  BY <1>1, <1>2, AdvanceInv

\* Every reachable state of the loop satisfies the inductive invariant: the
\* types, the order of a tensor's counters, what the final loop has drained, and
\* fp_lock as the difference between allreduces ended and forward passes made.
THEOREM LoopInvariant == U!LoopSpec => []TrainingInv
<1>1. U!LoopInit => TrainingInv
  BY InitInv, UngovernedInit
<1>2. TrainingInv /\ [U!LoopNext]_(U!trainingVars) => TrainingInv'
  <2> SUFFICES ASSUME TrainingInv, TrainStep PROVE TrainingInv'
    BY UngovernedStep
  <2>1. CASE UNCHANGED trainingVars
    BY <2>1, StutterInv
  <2>2. ASSUME NEW p \in Proc, WorkerStep(p) PROVE TrainingInv'
    <3>1. CASE Forward(p)
      BY <3>1, ForwardInv
    <3>2. CASE BackwardCalling(p)
      BY <3>2, BackwardInv
    <3>3. CASE BackwardAlone(p)
      BY <3>3, BackwardAloneInv
    <3>4. CASE Drain(p)
      BY <3>4, DrainInv
    <3>5. CASE Leave(p)
      BY <3>5, LeaveInv
    <3> QED
      BY <2>2, <3>1, <3>2, <3>3, <3>4, <3>5 DEF WorkerStep
  <2>3. ASSUME NEW p \in Proc, NEW i \in Layer, RoundMoves(p, i) PROVE TrainingInv'
    <3>1. CASE StartAllreduce(p, i)
      BY <3>1, StartAllreduceInv
    <3>2. CASE CompleteAllreduce(p, i)
      BY <3>2, CompleteAllreduceInv
    <3> QED
      BY <2>3, <3>1, <3>2 DEF RoundMoves
  <2> QED
    BY <2>1, <2>2, <2>3 DEF TrainStep
<1> QED
  BY <1>1, <1>2, PTL DEF U!LoopSpec

\* "will block if last step's allreduce is not completed yet", the comment on
\* co_await fp_locks[tensor->key]->request(), for every run of the loop.
THEOREM ForwardWaits == U!LoopSpec => []ForwardAfterAllreduce
BY LoopInvariant, InvForward, PTL

\* "wait until final allreduces are done", the comment on the loop at the end of
\* execute_job, for every run of the loop.
THEOREM CleanupWaits == U!LoopSpec => []CleanupAfterAllreduce
<1>1. TrainingInv => CleanupAfterAllreduce
  BY DEF TrainingInv
<1> QED
  BY <1>1, LoopInvariant, PTL
-----------------------------------------------------------------------------
\* Every backward pass has called allreduce for its tensor.
CallsMade ==
    \A p \in Proc, i \in Layer : NWorkers(p) > 1 => called[p][i] = Enqueued(p, i)

\* A round that has ended on one worker has been started by all.
StartedByAll ==
    \A p, q \in Proc, i \in Layer : JobOf[p] = JobOf[q] => done[p][i] <= started[q][i]

StepInv == TrainingInv /\ CallsMade /\ StartedByAll

\* A quotient is at most its dividend.
LEMMA DivAtMost ==
    ASSUME NEW n \in Nat, NEW c \in Nat \ {0} PROVE n \div c <= n
OBVIOUS

\* With no other worker in the job, two of its workers are the same.
LEMMA OnlyWorker ==
    ASSUME NEW p \in Proc, NEW q \in Proc, JobOf[p] = JobOf[q], ~(NWorkers(p) > 1)
    PROVE  p = q
<1> DEFINE W == Workers(JobOf[p])
<1>1. p \in W /\ q \in W
  BY DEF Workers
<1>2. IsFiniteSet(W)
  BY TrainingAssumption, FS_Subset DEF Workers
<1>3. Cardinality(W) \in Nat /\ Cardinality(W) # 0
  BY <1>1, <1>2, FS_CardinalityType, FS_EmptySet
<1>4. Cardinality(W) = 1
  BY <1>3 DEF NWorkers
<1>5. PICK x : W = {x}
  BY <1>2, <1>4, FS_Singleton
<1> QED
  BY <1>1, <1>5

\* Steps that leave the rounds alone keep what is said of them.
LEMMA StartedByAllKept == StartedByAll /\ UNCHANGED <<started, done>> => StartedByAll'
BY DEF StartedByAll

\* A round ends only after all have started it.
LEMMA RoundStepStarted ==
    ASSUME StepInv, NEW p \in Proc, NEW i \in Layer, RoundMoves(p, i)
    PROVE  StartedByAll'
<1> SUFFICES ASSUME NEW q \in Proc, NEW r \in Proc, NEW j \in Layer, JobOf[q] = JobOf[r]
             PROVE  done'[q][j] <= started'[r][j]
  BY DEF StartedByAll
<1>1. /\ done[q][j] <= started[r][j]
      /\ done[q][j] \in Nat /\ started[r][j] \in Nat
      /\ done \in [Proc -> [Layer -> Nat]] /\ started \in [Proc -> [Layer -> Nat]]
  BY TypeFacts DEF StepInv, StartedByAll, TrainingInv, TrainingTypeOK
<1>2. CASE StartAllreduce(p, i)
  <2>1. started' = Plus(started, p, i, 1) /\ done' = done
    BY <1>2 DEF StartAllreduce
  <2>2. started'[r][j] = started[r][j] \/ started'[r][j] = started[r][j] + 1
    BY <1>1, <2>1 DEF Plus
  <2> QED
    BY <1>1, <2>1, <2>2
<1>3. CASE CompleteAllreduce(p, i)
  <2>1. /\ done' = Plus(done, p, i, 1) /\ started' = started
        /\ \A w \in Workers(JobOf[p]) : started[w][i] > done[p][i]
    BY <1>3 DEF CompleteAllreduce
  <2>2. CASE q = p /\ j = i
    <3>1. done'[q][j] = done[q][j] + 1
      BY <1>1, <2>1, <2>2 DEF Plus
    <3>2. started[r][j] > done[q][j]
      BY <2>1, <2>2 DEF Workers
    <3> QED
      BY <1>1, <2>1, <3>1, <3>2
  <2>3. CASE q # p \/ j # i
    <3>1. done'[q][j] = done[q][j]
      BY <1>1, <2>1, <2>3 DEF Plus
    <3> QED
      BY <1>1, <2>1, <3>1
  <2> QED
    BY <2>2, <2>3
<1> QED
  BY <1>2, <1>3 DEF RoundMoves

\* The backward pass of a tensor is the one that calls its allreduce.
LEMMA BackwardCalls == ASSUME StepInv, NEW p \in Proc, BackwardCalling(p) PROVE CallsMade'
<1>1. /\ layer[p] \in Layer /\ layer[p] \in Nat /\ pc[p] = "backward" /\ it[p] \in Nat
      /\ called' = Plus(called, p, layer[p], 1)
  BY TypeFacts, LayerZero DEF BackwardCalling, Advance, StepInv, TrainingInv
<1>2. \/ /\ layer[p] > 0 /\ layer' = [layer EXCEPT ![p] = @ - 1]
         /\ pc' = pc /\ it' = it
      \/ /\ layer[p] = 0 /\ it' = [it EXCEPT ![p] = @ + 1]
         /\ layer' = layer /\ \E x \in {"forward", "drain"} : pc' = [pc EXCEPT ![p] = x]
  BY <1>1 DEF BackwardCalling, Advance
<1> SUFFICES ASSUME NEW q \in Proc, NEW i \in Layer, NWorkers(q) > 1
             PROVE  called'[q][i] = Enqueued(q, i)'
  BY DEF CallsMade
<1>3. /\ called[q][i] = Enqueued(q, i) /\ called \in [Proc -> [Layer -> Nat]]
      /\ i \in Nat
  BY LayerNat DEF StepInv, CallsMade, TrainingInv, TrainingTypeOK
<1>4. CASE q # p
  <2>1. pc'[q] = pc[q] /\ layer'[q] = layer[q] /\ it'[q] = it[q]
    BY <1>2, <1>4 DEF StepInv, TrainingInv, TrainingTypeOK
  <2>2. called'[q][i] = called[q][i]
    BY <1>1, <1>3, <1>4 DEF Plus
  <2> QED
    BY <1>3, <2>1, <2>2 DEF Enqueued
<1>5. CASE q = p
  <2>1. called[p][i] = it[p] + IF layer[p] < i THEN 1 ELSE 0
    BY <1>1, <1>3, <1>5 DEF Enqueued
  <2>2. called'[p][i] = called[p][i] + IF i = layer[p] THEN 1 ELSE 0
    <3>1. CASE i = layer[p]
      BY <1>1, <1>3, <3>1 DEF Plus
    <3>2. CASE i # layer[p]
      <4>1. called'[p][i] = called[p][i]
        BY <1>1, <1>3, <3>2 DEF Plus
      <4>2. called[p][i] \in Nat
        BY <1>3
      <4> QED
        BY <3>2, <4>1, <4>2
    <3> QED
      BY <3>1, <3>2
  <2>3. CASE layer[p] > 0
    <3>1. layer'[p] = layer[p] - 1 /\ pc'[p] = "backward" /\ it'[p] = it[p]
      BY <1>1, <1>2, <2>3 DEF StepInv, TrainingInv, TrainingTypeOK
    <3>2. Enqueued(p, i)' = it[p] + IF layer[p] - 1 < i THEN 1 ELSE 0
      BY <3>1 DEF Enqueued
    <3> QED
      BY <1>1, <1>3, <1>5, <2>1, <2>2, <3>2
  <2>4. CASE layer[p] = 0
    <3>1. pc'[p] # "backward" /\ it'[p] = it[p] + 1
      BY <1>1, <1>2, <2>4 DEF StepInv, TrainingInv, TrainingTypeOK
    <3>2. Enqueued(p, i)' = it[p] + 1
      BY <1>1, <3>1 DEF Enqueued
    <3> QED
      BY <1>1, <1>3, <1>5, <2>1, <2>2, <2>4, <3>2
  <2> QED
    BY <1>1, <2>3, <2>4
<1> QED
  BY <1>4, <1>5

\* The other steps of a worker call nothing, and do not move its count.
LEMMA OthersCallNothing ==
    ASSUME StepInv, NEW p \in Proc,
           Forward(p) \/ BackwardAlone(p) \/ Drain(p) \/ Leave(p)
    PROVE  CallsMade'
<1> SUFFICES ASSUME NEW q \in Proc, NEW i \in Layer, NWorkers(q) > 1
             PROVE  called'[q][i] = Enqueued(q, i)'
  BY DEF CallsMade
<1>1. called[q][i] = Enqueued(q, i) /\ called' = called
  BY DEF StepInv, CallsMade, Forward, BackwardAlone, Drain, Leave
<1>2. /\ layer[p] \in Layer /\ layer[p] \in Nat /\ i \in Nat /\ i <= NLayers - 1
  BY TypeFacts, LayerNat DEF StepInv, TrainingInv
<1>3. CASE q # p
  <2>1. pc'[q] = pc[q] /\ layer'[q] = layer[q] /\ it'[q] = it[q]
    BY <1>3 DEF Forward, BackwardAlone, Advance, Drain, Leave, StepInv, TrainingInv, TrainingTypeOK
  <2> QED
    BY <1>1, <2>1 DEF Enqueued
<1>4. CASE q = p
  <2>1. CASE Forward(p)
    <3>1. pc[p] = "forward" /\ it' = it
      BY <2>1 DEF Forward
    <3>2. \/ pc' = pc
          \/ /\ layer' = layer /\ ~(layer[p] < NLayers - 1)
             /\ pc' = [pc EXCEPT ![p] = "backward"]
      BY <2>1 DEF Forward
    <3>3. ~(pc'[p] = "backward" /\ layer'[p] < i)
      BY <1>2, <3>1, <3>2, TrainingAssumption
    <3> QED
      BY <1>1, <1>4, <3>1, <3>3 DEF Enqueued
  <2>2. CASE BackwardAlone(p)
    BY <1>4, <2>2 DEF BackwardAlone
  <2>3. CASE Drain(p) \/ Leave(p)
    <3>1. pc[p] # "backward" /\ pc'[p] # "backward" /\ it' = it
      BY <2>3 DEF Drain, Leave, StepInv, TrainingInv, TrainingTypeOK
    <3> QED
      BY <1>1, <1>4, <3>1 DEF Enqueued
  <2> QED
    BY <2>1, <2>2, <2>3
<1> QED
  BY <1>3, <1>4

\* Every reachable state has all calls made and every ended round started by all.
LEMMA StepInvariant == U!LoopSpec => []StepInv
<1>1. U!LoopInit => CallsMade /\ StartedByAll
  BY UngovernedInit DEF TrainingInit, Zero, CallsMade, StartedByAll, Enqueued
<1>2. StepInv /\ [U!LoopNext]_(U!trainingVars) => CallsMade' /\ StartedByAll'
  <2> SUFFICES ASSUME StepInv, TrainStep PROVE CallsMade' /\ StartedByAll'
    BY UngovernedStep
  <2>1. CASE UNCHANGED trainingVars
    BY <2>1 DEF StepInv, trainingVars, CallsMade, StartedByAll, Enqueued
  <2>2. ASSUME NEW p \in Proc, WorkerStep(p) PROVE CallsMade' /\ StartedByAll'
    <3>1. CallsMade'
      BY <2>2, BackwardCalls, OthersCallNothing DEF WorkerStep
    <3>2. UNCHANGED <<started, done>>
      BY <2>2 DEF WorkerStep, Forward, BackwardCalling, BackwardAlone, Drain, Leave
    <3> QED
      BY <3>1, <3>2, StartedByAllKept DEF StepInv
  <2>3. ASSUME NEW p \in Proc, NEW i \in Layer, RoundMoves(p, i)
        PROVE  CallsMade' /\ StartedByAll'
    <3>1. UNCHANGED <<pc, layer, it, called>>
      BY <2>3 DEF RoundMoves, StartAllreduce, CompleteAllreduce
    <3>2. CallsMade'
      BY <3>1 DEF StepInv, CallsMade, Enqueued
    <3> QED
      BY <2>3, <3>2, RoundStepStarted
  <2> QED
    BY <2>1, <2>2, <2>3 DEF TrainStep
<1> QED
  BY <1>1, <1>2, LoopInvariant, PTL DEF U!LoopSpec, StepInv

\* No worker looks at another, and still none is two iterations ahead: its
\* forward pass of the first tensor waits for an allreduce that the others have
\* started, after their backward pass of that tensor.
THEOREM WorkersStayInStep == U!LoopSpec => []IterationsInStep
<1>1. StepInv => IterationsInStep
  <2> SUFFICES ASSUME StepInv, NEW p \in Proc, NEW q \in Proc, JobOf[p] = JobOf[q]
               PROVE  it[p] <= it[q] + 1
    BY DEF IterationsInStep
  <2>1. it[p] \in Nat /\ it[q] \in Nat
    BY TypeFacts, LayerZero DEF StepInv, TrainingInv
  <2>2. CASE ~(NWorkers(p) > 1)
    BY <2>1, <2>2, OnlyWorker
  <2>3. CASE NWorkers(p) > 1
    <3>1. NWorkers(q) > 1
      BY <2>3 DEF NWorkers
    <3>2. /\ fp_lock[p][0] \in Nat /\ done[p][0] \in Nat /\ Chunks[0] \in Nat \ {0}
          /\ done[p][0] \div Chunks[0] \in Nat /\ Forwards(p, 0) \in Nat
          /\ started[q][0] \in Nat /\ called[q][0] \in Nat
          /\ layer[q] \in Nat
      BY TypeFacts, LayerZero DEF StepInv, TrainingInv
    <3>3. fp_lock[p][0] + Forwards(p, 0) = 1 + (done[p][0] \div Chunks[0])
      BY <2>3, LayerZero DEF StepInv, TrainingInv, FpLockCounts
    <3>4. it[p] <= Forwards(p, 0)
      BY <2>1 DEF Forwards
    <3>5. done[p][0] \div Chunks[0] <= done[p][0]
      BY <3>2, DivAtMost
    <3>6. done[p][0] <= started[q][0] /\ started[q][0] <= called[q][0]
      BY LayerZero DEF StepInv, StartedByAll, TrainingInv, CountsInOrder
    <3>7. called[q][0] = Enqueued(q, 0)
      BY <3>1, LayerZero DEF StepInv, CallsMade
    <3>8. Enqueued(q, 0) = it[q]
      BY <2>1, <3>2 DEF Enqueued
    <3> QED
      BY <2>1, <3>2, <3>3, <3>4, <3>5, <3>6, <3>7, <3>8
  <2> QED
    BY <2>2, <2>3
<1> QED
  BY <1>1, StepInvariant, PTL
-----------------------------------------------------------------------------
(* The queue of a tensor, for every scheduler.                              *)

\* The queue q holds workers of job j, each at most once.
EachOnce(q, j) ==
    /\ \A n \in DOMAIN q : JobOf[q[n]] = j
    /\ \A m, n \in DOMAIN q : q[m] = q[n] => m = n

InQueue(p, i) == \E n \in DOMAIN queue[KeyOf(p, i)] : queue[KeyOf(p, i)][n] = p

\* The queue of a tensor holds workers of its job, each at most once, and none of
\* a job with a single worker.
OneEntryEach ==
    \A k \in Key :
        /\ EachOnce(queue[k], k[1])
        /\ \A n \in DOMAIN queue[k] : NWorkers(queue[k][n]) > 1

\* allreduce is called for all workers of a job at once.
CalledTogether ==
    \A p, q \in Proc, i \in Layer : JobOf[p] = JobOf[q] => called[p][i] = called[q][i]

AloneCallsNothing ==
    \A p \in Proc, i \in Layer : ~(NWorkers(p) > 1) => called[p][i] = 0

\* The tensors whose locks the final loop has passed are in no queue.
PassedIsNotQueued == \A p \in Proc, i \in Layer : Passed(p, i) => ~InQueue(p, i)

LEMMA KeyIsKey == \A p \in Proc, i \in Layer : KeyOf(p, i) \in Key
BY DEF KeyOf, Key, Job

\* Workers of one job, each at most once: no more than there are, and all of them if
\* there are as many.
LEMMA QueueInjects ==
    ASSUME NEW j, NEW q \in Seq(Proc), EachOnce(q, j)
    PROVE  /\ Len(q) <= Cardinality(Workers(j))
           /\ Len(q) = Cardinality(Workers(j))
                => \A p \in Workers(j) : \E n \in DOMAIN q : q[n] = p
           /\ (\E p \in Workers(j) : \A n \in DOMAIN q : q[n] # p)
                => Len(q) < Cardinality(Workers(j))
<1> DEFINE f == [n \in 1 .. Len(q) |-> q[n]]
<1>1. DOMAIN q = 1 .. Len(q) /\ Len(q) \in Nat
  OBVIOUS
<1>2. f \in Injection(1 .. Len(q), Workers(j))
  <2>1. \A n \in 1 .. Len(q) : q[n] \in Workers(j)
    BY <1>1 DEF EachOnce, Workers
  <2> QED
    BY <1>1, <2>1 DEF EachOnce, Injection, IsInjective
<1>3. IsFiniteSet(Workers(j)) /\ Cardinality(Workers(j)) \in Nat
  <2>1. Workers(j) \subseteq Proc
    BY DEF Workers
  <2> QED
    BY <2>1, TrainingAssumption, FS_Subset, FS_CardinalityType
<1>4. Cardinality(1 .. Len(q)) = Len(q)
  BY <1>1, FS_Interval
<1>5. /\ Len(q) <= Cardinality(Workers(j))
      /\ Len(q) = Cardinality(Workers(j)) <=> f \in Surjection(1 .. Len(q), Workers(j))
  <2> HIDE DEF f
  <2> QED
    BY <1>2, <1>3, <1>4, FS_Injection
<1>6. f \in Surjection(1 .. Len(q), Workers(j))
        => \A p \in Workers(j) : \E n \in DOMAIN q : q[n] = p
  BY <1>1 DEF Surjection
<1> QED
  BY <1>1, <1>3, <1>5, <1>6

LEMMA AppendOnce ==
    ASSUME NEW j, NEW q \in Seq(Proc), EachOnce(q, j), NEW p \in Proc, JobOf[p] = j,
           \A n \in DOMAIN q : q[n] # p
    PROVE  /\ EachOnce(Append(q, p), j)
           /\ \A r \in Proc : (\E n \in DOMAIN Append(q, p) : Append(q, p)[n] = r)
                                <=> (r = p \/ \E n \in DOMAIN q : q[n] = r)
<1> DEFINE a == Append(q, p)
<1>1. /\ a \in Seq(Proc) /\ Len(q) \in Nat
      /\ DOMAIN a = 1 .. (Len(q) + 1) /\ DOMAIN q = 1 .. Len(q)
      /\ a[Len(q) + 1] = p /\ \A n \in 1 .. Len(q) : a[n] = q[n]
  OBVIOUS
<1> HIDE DEF a
<1>2. \A n \in DOMAIN a : n = Len(q) + 1 \/ n \in DOMAIN q
  BY <1>1
<1>3. EachOnce(a, j)
  BY <1>1, <1>2 DEF EachOnce
<1>4. ASSUME NEW r \in Proc
      PROVE  (\E n \in DOMAIN a : a[n] = r) <=> (r = p \/ \E n \in DOMAIN q : q[n] = r)
  BY <1>1, <1>2
<1> QED
  BY <1>3, <1>4 DEF a

-----------------------------------------------------------------------------
(* What the proofs need instead of induction.                               *)

\* The numbers of a set of numbers have a least one.
LEMMA LeastNumber ==
    ASSUME NEW T \in SUBSET Nat, T # {}
    PROVE  \E n \in T : \A m \in T : n <= m
<1>1. PICK R : R = {ss \in Nat \X Nat : ss[1] < ss[2]}
  OBVIOUS
<1>2. IsWellFoundedOn(R, Nat)
  BY <1>1, NatLessThanWellFounded DEF OpToRel
<1>3. T \subseteq Nat
  OBVIOUS
<1>4. PICK x \in T : \A y \in T : ~(<<y, x>> \in R)
  BY <1>2, <1>3, WFMin
<1>5. \A y \in T : ~(y < x)
  BY <1>1, <1>3, <1>4
<1> QED
  BY <1>3, <1>5

-----------------------------------------------------------------------------
(* The rounds of each tensor of each job, for every scheduler.              *)

\* The gated AllReduce of tensor i of job j, of so many rounds.
Fabric(j, i, rounds) == INSTANCE AllReduce WITH
    Worker <- Workers(j), Rounds <- rounds, Gated <- TRUE,
    started <- [p \in Workers(j) |-> started[p][i]],
    done <- [p \in Workers(j) |-> done[p][i]]

\* A round starts or ends, or none does.
RoundMove ==
    \/ UNCHANGED roundVars
    \/ \E p \in Proc, i \in Layer : StartAllreduce(p, i) \/ CompleteAllreduce(p, i)

LEMMA QuietIsRoundMove == QuietMove => RoundMove
BY DEF QuietMove, RoundMove, roundVars, Forward, BackwardAlone, Drain, Leave, trainingVars

LEMMA FabricInit ==
    ASSUME NEW j \in Job, NEW i \in Layer, NEW rounds, TrainingInit
    PROVE  Fabric(j, i, rounds)!Init
<1>1. started = Zero /\ done = Zero
  BY DEF TrainingInit
<1> QED
  BY <1>1 DEF Fabric!Init, Zero, Workers

\* A step of a round is a step of its AllReduce, and the gate is open.
LEMMA FabricRound ==
    ASSUME TrainingInv, RoundsAreGated, NEW j \in Job, NEW i \in Layer, NEW rounds \in Nat,
           \A p \in Workers(j) : called[p][i] <= rounds, NEW p \in Workers(j),
           StartAllreduce(p, i) \/ CompleteAllreduce(p, i)
    PROVE  Fabric(j, i, rounds)!Next
<1>1. /\ p \in Proc /\ JobOf[p] = j /\ \A v \in Workers(j) : v \in Proc /\ JobOf[v] = j
      /\ started \in [Proc -> [Layer -> Nat]] /\ done \in [Proc -> [Layer -> Nat]]
  BY DEF Workers, TrainingInv, TrainingTypeOK
<1>0. \A v \in Workers(j) : /\ called[v][i] \in Nat /\ started[v][i] \in Nat
                            /\ done[v][i] \in Nat
  BY <1>1, TypeFacts DEF TrainingInv
<1>2. CASE StartAllreduce(p, i)
  <2>1. /\ called[p][i] > started[p][i] /\ started[p][i] = done[p][i]
        /\ started' = Plus(started, p, i, 1) /\ done' = done
    BY <1>2 DEF StartAllreduce
  <2>2. started[p][i] < rounds
    BY <1>0, <2>1
  <2>3. \A v \in Workers(j) : done[v][i] >= done[p][i]
    <3> SUFFICES ASSUME NEW v \in Workers(j) PROVE done[v][i] >= done[p][i]
      OBVIOUS
    <3>1. called[p][i] <= done[v][i] + 1
      BY <1>1 DEF RoundsAreGated
    <3> QED
      BY <1>0, <2>1, <3>1
  <2>4. [v \in Workers(j) |-> started'[v][i]]
          = [[v \in Workers(j) |-> started[v][i]] EXCEPT ![p] = @ + 1]
    BY <1>1, <2>1 DEF Plus
  <2>5. Fabric(j, i, rounds)!Start(p)
    BY <2>1, <2>2, <2>3, <2>4 DEF Fabric!Start
  <2> QED
    BY <2>5 DEF Fabric!Next
<1>3. CASE CompleteAllreduce(p, i)
  <2>1. /\ started[p][i] > done[p][i]
        /\ \A v \in Workers(j) : started[v][i] > done[p][i]
        /\ done' = Plus(done, p, i, 1) /\ started' = started
    BY <1>1, <1>3 DEF CompleteAllreduce
  <2>2. [v \in Workers(j) |-> done'[v][i]]
          = [[v \in Workers(j) |-> done[v][i]] EXCEPT ![p] = @ + 1]
    BY <1>1, <2>1 DEF Plus
  <2>3. Fabric(j, i, rounds)!Complete(p)
    BY <2>1, <2>2 DEF Fabric!Complete
  <2> QED
    BY <2>3 DEF Fabric!Next
<1> QED
  BY <1>2, <1>3

\* A step of another tensor's round leaves the rounds of this one alone.
LEMMA FabricStep ==
    ASSUME TrainingInv, RoundsAreGated, NEW j \in Job, NEW i \in Layer, NEW rounds \in Nat,
           \A p \in Workers(j) : called[p][i] <= rounds, RoundMove
    PROVE  Fabric(j, i, rounds)!Next \/ UNCHANGED Fabric(j, i, rounds)!vars
<1>1. CASE UNCHANGED roundVars
  BY <1>1 DEF Fabric!vars, roundVars
<1>2. ASSUME NEW p \in Proc, NEW l \in Layer, StartAllreduce(p, l) \/ CompleteAllreduce(p, l)
      PROVE  Fabric(j, i, rounds)!Next \/ UNCHANGED Fabric(j, i, rounds)!vars
  <2>1. CASE p \in Workers(j) /\ l = i
    BY <1>2, <2>1, FabricRound
  <2>2. CASE ~(p \in Workers(j) /\ l = i)
    <3>1. \A v \in Workers(j) : started'[v][i] = started[v][i] /\ done'[v][i] = done[v][i]
      <4>1. started \in [Proc -> [Layer -> Nat]] /\ done \in [Proc -> [Layer -> Nat]]
        BY DEF TrainingInv, TrainingTypeOK
      <4>2. \/ started' = Plus(started, p, l, 1) /\ done' = done
            \/ done' = Plus(done, p, l, 1) /\ started' = started
        BY <1>2 DEF StartAllreduce, CompleteAllreduce
      <4>3. \A v \in Workers(j) : v \in Proc /\ (v # p \/ i # l)
        BY <2>2 DEF Workers
      <4> QED
        BY <4>1, <4>2, <4>3 DEF Plus
    <3>2. /\ [v \in Workers(j) |-> started'[v][i]] = [v \in Workers(j) |-> started[v][i]]
          /\ [v \in Workers(j) |-> done'[v][i]] = [v \in Workers(j) |-> done[v][i]]
      BY <3>1
    <3> QED
      BY <3>2 DEF Fabric!vars
  <2> QED
    BY <2>1, <2>2
<1> QED
  BY <1>1, <1>2 DEF RoundMove

-----------------------------------------------------------------------------
(* FirstInFirstOutOneByOne.                                                 *)

L == INSTANCE ResourceProofs WITH Client <- Coroutine, Capacity <- 1

\* A full queue makes one call of allreduce for every worker of the job.
LEMMA FullOccurs ==
    ASSUME NEW j, NEW q \in Seq(Proc), EachOnce(q, j), Len(q) = Cardinality(Workers(j)),
           NEW p \in Proc
    PROVE  Occurrences(q, p) = IF JobOf[p] = j THEN 1 ELSE 0
<1>1. CASE JobOf[p] = j
  <2>1. PICK n \in DOMAIN q : q[n] = p
    <3>1. p \in Workers(j)
      BY <1>1 DEF Workers
    <3> QED
      BY <3>1, QueueInjects
  <2> DEFINE S == {m \in DOMAIN q : q[m] = p}
  <2>2. S = {n}
    BY <2>1 DEF EachOnce
  <2>3. Occurrences(q, p) = Cardinality(S)
    BY DEF Occurrences
  <2>4. Cardinality({n}) = 1
    BY FS_Singleton
  <2> HIDE DEF S
  <2>5. Occurrences(q, p) = 1
    BY <2>2, <2>3, <2>4
  <2> QED
    BY <1>1, <2>5
<1>2. CASE JobOf[p] # j
  <2>1. {m \in DOMAIN q : q[m] = p} = {}
    BY <1>2 DEF EachOnce
  <2> QED
    BY <1>2, <2>1, FS_EmptySet DEF Occurrences
<1> QED
  BY <1>1, <1>2

\* Every enqueue of a worker has led to a call of allreduce or is in the queue.
EnqueuesAccounted ==
    \A p \in Proc, i \in Layer : NWorkers(p) > 1 =>
        Enqueued(p, i) = called[p][i] + IF InQueue(p, i) THEN 1 ELSE 0

\* A coroutine that asks for the lock has filled the queue, and no other of its
\* tensor asks.
OnlyFullAsks ==
    /\ \A c \in Coroutine : L!Asks(c) => Len(queue[c[1]]) = Cardinality(Workers(c[1][1]))
    /\ \A c, d \in Coroutine : L!Asks(c) /\ L!Asks(d) /\ c[1] = d[1] => c = d

\* An allreduce that has not ended is awaited by a coroutine that holds the lock.
AwaitedIsHeld ==
    \A p \in Proc, i \in Layer : called[p][i] > done[p][i] =>
        /\ <<p, i, called[p][i]>> \in batch
        /\ \E c \in Coroutine : state[c] = "holding" /\ c[1] = KeyOf(p, i)

FifoInv ==
    /\ TrainingInv
    /\ L!IInv
    /\ queue \in [Key -> Seq(Proc)]
    /\ OneEntryEach
    /\ EnqueuesAccounted
    /\ CalledTogether
    /\ AloneCallsNothing
    /\ OnlyFullAsks
    /\ AwaitedIsHeld
    /\ PassedIsNotQueued

-----------------------------------------------------------------------------
(* The lock of FifoScheduler is the one ResourceProofs is about.            *)

LEMMA CoroutineFinite == IsFiniteSet(Coroutine)
<1>1. IsFiniteSet(Layer) /\ IsFiniteSet(0 .. NIter - 1)
  <2>1. 0 \in Int /\ NLayers - 1 \in Int /\ NIter - 1 \in Int
    BY TrainingAssumption
  <2> QED
    BY <2>1, FS_Interval DEF Layer
<1>2. IsFiniteSet(Job)
  <2> DEFINE f == [p \in Proc |-> JobOf[p]]
  <2>1. f \in Surjection(Proc, Job)
    BY DEF Job, Surjection
  <2> QED
    BY <2>1, TrainingAssumption, FS_Surjection
<1>3. IsFiniteSet(Key)
  BY <1>1, <1>2, FS_Product DEF Key
<1> QED
  BY <1>1, <1>3, FS_Product DEF Coroutine

LEMMA LockFinite == L!IsFiniteSet(Coroutine)
BY CoroutineFinite DEF L!IsFiniteSet, IsFiniteSet

LEMMA LockUnit == 1 \in Nat \ {0}
OBVIOUS

LEMMA SameCardinality == \A S : L!Cardinality(S) = Lock!Cardinality(S)
BY DEF L!Cardinality, Lock!Cardinality, L!IsFiniteSet, Lock!IsFiniteSet

LEMMA SameTrigger ==
    ASSUME NEW q, NEW st, NEW a
    PROVE  Lock!TriggerEvs(q, st, a) <=> L!TriggerEvs(q, st, a)
<1>1. \A k : Lock!Live(q, st, k) = L!Live(q, st, k)
  BY DEF Lock!Live, L!Live
<1>2. \A k : Lock!UnitsTaken(q, st, k) = L!UnitsTaken(q, st, k)
  BY <1>1, SameCardinality DEF Lock!UnitsTaken, L!UnitsTaken
<1>3. \A k : Lock!Popped(q, st, a, k) <=> L!Popped(q, st, a, k)
  BY <1>1, SameCardinality DEF Lock!Popped, L!Popped
<1>4. \A k : Lock!Remaining(q, k) = L!Remaining(q, k)
  BY DEF Lock!Remaining, L!Remaining
<1> QED
  BY <1>2, <1>3, <1>4 DEF Lock!TriggerEvs, L!TriggerEvs

LEMMA SameLock ==
    /\ Lock!Init => L!Init
    /\ \A c \in Coroutine : /\ Lock!Request(c) => L!Request(c)
                            /\ Lock!Resume(c) => L!Resume(c)
                            /\ Lock!Release(c) => L!Release(c)
<1>1. Lock!Init => L!Init
  BY DEF Lock!Init, L!Init
<1>2. ASSUME NEW c \in Coroutine PROVE Lock!Resume(c) => L!Resume(c)
  BY DEF Lock!Resume, L!Resume
<1>3. ASSUME NEW c \in Coroutine PROVE Lock!Request(c) => L!Request(c)
  BY SameTrigger DEF Lock!Request, L!Request, Lock!Queued, L!Queued
<1>4. ASSUME NEW c \in Coroutine PROVE Lock!Release(c) => L!Release(c)
  BY SameTrigger DEF Lock!Release, L!Release
<1> QED
  BY <1>1, <1>2, <1>3, <1>4

\* What the steps of the lock do, as FifoScheduler takes them.
LEMMA LockInit == Lock!Init => L!IInv
BY SameLock, L!InitInv, LockFinite, LockUnit DEF L!ClientAssumption, L!CapacityAssumption

LEMMA LockRequest ==
    ASSUME L!IInv, NEW c \in Coroutine, Lock!Request(c)
    PROVE  /\ L!IInv'
           /\ \A d \in Coroutine : /\ state'[d] = "holding" <=> state[d] = "holding"
                                   /\ d # c /\ L!Asks(d)' => L!Asks(d)
<1>1. L!Request(c)
  BY SameLock
<1>2. L!IInv'
  BY <1>1, L!RequestInv, LockFinite, LockUnit
<1>3. \A d \in Coroutine : /\ state'[d] = "holding" <=> state[d] = "holding"
                           /\ d # c /\ L!Asks(d)' => L!Asks(d)
  BY <1>1, L!RequestOutcome, LockFinite, LockUnit
<1> QED
  BY <1>2, <1>3

LEMMA LockResume ==
    ASSUME L!IInv, NEW c \in Coroutine, Lock!Resume(c)
    PROVE  /\ L!IInv'
           /\ state[c] = "triggered" /\ state'[c] = "holding"
           /\ \A d \in Coroutine : d # c => state'[d] = state[d]
<1>1. L!Resume(c)
  BY SameLock
<1>2. L!IInv'
  BY <1>1, L!ResumeInv, LockFinite, LockUnit
<1>3. state' = [state EXCEPT ![c] = "holding"] /\ state \in [Coroutine -> L!State]
  BY <1>1 DEF L!Resume, L!IInv, L!TypeOK
<1> QED
  BY <1>1, <1>2, <1>3 DEF L!Resume

LEMMA LockRelease ==
    ASSUME L!IInv, NEW c \in Coroutine, Lock!Release(c)
    PROVE  /\ L!IInv'
           /\ \A d \in Coroutine : /\ state'[d] = "holding" <=> d # c /\ state[d] = "holding"
                                   /\ L!Asks(d)' => L!Asks(d)
<1>1. L!Release(c)
  BY SameLock
<1>2. L!IInv'
  BY <1>1, L!ReleaseInv, LockFinite, LockUnit
<1>3. \A d \in Coroutine : /\ state'[d] = "holding" <=> d # c /\ state[d] = "holding"
                           /\ L!Asks(d)' => L!Asks(d)
  BY <1>1, L!ReleaseOutcome, LockFinite, LockUnit
<1> QED
  BY <1>2, <1>3

LEMMA LockStutter ==
    ASSUME L!IInv, UNCHANGED lockVars
    PROVE  L!IInv' /\ \A c \in Coroutine : L!Asks(c)' <=> L!Asks(c)
BY DEF lockVars, L!IInv, L!TypeOK, L!UnitsConserved, L!Holders, L!NoIdleUnit,
       L!QueueIsWaiters, L!Asks

LEMMA LockAlone ==
    ASSUME L!IInv, NEW c \in Coroutine, NEW d \in Coroutine,
           state[c] \in {"triggered", "holding"}, state[d] \in {"triggered", "holding"}
    PROVE  c = d
<1>1. c \in L!Holders /\ d \in L!Holders
  BY DEF L!Holders
<1>2. \A x, y \in L!Holders : x = y
  BY L!OneHolder, LockFinite, LockUnit
<1> QED
  BY <1>1, <1>2
-----------------------------------------------------------------------------
\* The numbers the invariant is about.
LEMMA FifoTypes ==
    ASSUME FifoInv, NEW p \in Proc, NEW i \in Layer
    PROVE  /\ called[p][i] \in Nat /\ done[p][i] \in Nat /\ started[p][i] \in Nat
           /\ it[p] \in Nat /\ layer[p] \in Layer /\ i \in Nat /\ layer[p] \in Nat
           /\ fp_lock[p][i] \in Nat /\ Forwards(p, i) \in Nat /\ Enqueued(p, i) \in Nat
           /\ done[p][i] <= started[p][i] /\ started[p][i] <= called[p][i]
<1>1. TrainingTypeOK
  BY DEF FifoInv, TrainingInv
<1>2. it[p] \in Nat /\ i \in Nat
  BY <1>1, TypeFacts, LayerNat
<1>3. Enqueued(p, i) \in Nat
  BY <1>2 DEF Enqueued
<1>4. done[p][i] <= started[p][i] /\ started[p][i] <= called[p][i]
  BY DEF FifoInv, TrainingInv, CountsInOrder
<1> QED
  BY <1>1, <1>2, <1>3, <1>4, TypeFacts

\* A worker whose enqueues of a tensor are over is not in its queue.
LEMMA NotQueued ==
    ASSUME FifoInv, NEW p \in Proc, NEW i \in Layer, NWorkers(p) > 1,
           Enqueued(p, i) <= done[p][i] \div Chunks[i]
    PROVE  ~InQueue(p, i) /\ called[p][i] = done[p][i]
<1>1. done[p][i] \div Chunks[i] \in Nat /\ done[p][i] \div Chunks[i] <= done[p][i]
  BY TypeFacts, DivAtMost DEF FifoInv, TrainingInv
<1>2. Enqueued(p, i) <= done[p][i]
  BY <1>1, FifoTypes
<1>3. Enqueued(p, i) = called[p][i] + IF InQueue(p, i) THEN 1 ELSE 0
  BY DEF FifoInv, EnqueuesAccounted
<1> QED
  BY <1>2, <1>3, FifoTypes

\* A step of the loops or of a round that leaves the scheduler alone.
LEMMA QuietInv ==
    ASSUME FifoInv, TrainingInv', UNCHANGED schedulerVars, called' = called,
           \A p \in Proc, i \in Layer :
               /\ done'[p][i] >= done[p][i]
               /\ NWorkers(p) > 1 => Enqueued(p, i)' = Enqueued(p, i)
               /\ Passed(p, i)' /\ ~Passed(p, i) => ~InQueue(p, i)
    PROVE  FifoInv'
<1>1. queue' = queue /\ batch' = batch /\ state' = state /\ UNCHANGED lockVars
  BY DEF schedulerVars, lockVars
<1>2. L!IInv' /\ \A c \in Coroutine : L!Asks(c)' <=> L!Asks(c)
  BY <1>1, LockStutter DEF FifoInv
<1>3. \A p \in Proc, i \in Layer : InQueue(p, i)' <=> InQueue(p, i)
  BY <1>1 DEF InQueue
<1>4. queue' \in [Key -> Seq(Proc)] /\ OneEntryEach'
  BY <1>1 DEF FifoInv, OneEntryEach
<1>5. EnqueuesAccounted'
  BY <1>3 DEF FifoInv, EnqueuesAccounted
<1>6. CalledTogether' /\ AloneCallsNothing'
  BY DEF FifoInv, CalledTogether, AloneCallsNothing
<1>7. OnlyFullAsks'
  BY <1>1, <1>2 DEF FifoInv, OnlyFullAsks
<1>8. AwaitedIsHeld'
  <2> SUFFICES ASSUME NEW p \in Proc, NEW i \in Layer, called[p][i] > done'[p][i]
               PROVE  /\ <<p, i, called[p][i]>> \in batch
                      /\ \E c \in Coroutine : state[c] = "holding" /\ c[1] = KeyOf(p, i)
    BY <1>1 DEF AwaitedIsHeld
  <2>1. done'[p][i] \in Nat
    BY DEF TrainingInv, TrainingTypeOK
  <2>2. called[p][i] > done[p][i]
    BY <2>1, FifoTypes
  <2> QED
    BY <2>2 DEF FifoInv, AwaitedIsHeld
<1>9. PassedIsNotQueued'
  BY <1>3 DEF FifoInv, PassedIsNotQueued
<1> QED
  BY <1>2, <1>4, <1>5, <1>6, <1>7, <1>8, <1>9 DEF FifoInv
-----------------------------------------------------------------------------
(* The steps of the loops and of the rounds.                                *)

\* They leave the scheduler alone, and a final loop passes only what is in no queue.
LEMMA FifoQuiet ==
    ASSUME FifoInv, QuietMove, UNCHANGED schedulerVars
    PROVE  FifoInv'
<1>1. TrainingInv' /\ called' = called /\ \A q \in Proc, i \in Layer : QuietOn(q, i)
  BY QuietSteps DEF FifoInv
<1>2. ASSUME NEW q \in Proc, NEW i \in Layer, Passed(q, i)', ~Passed(q, i)
      PROVE  ~InQueue(q, i)
  <2>1. pc[q] = "drain" /\ fp_lock[q][i] > 0
    BY <1>1, <1>2 DEF QuietOn
  <2>2. CASE NWorkers(q) > 1
    BY <2>1, <2>2, DrainMeansEnded, NotQueued DEF FifoInv
  <2>3. CASE ~(NWorkers(q) > 1)
    BY <2>3, KeyIsKey DEF FifoInv, OneEntryEach, InQueue
  <2> QED
    BY <2>2, <2>3
<1> QED
  BY <1>1, <1>2, QuietInv DEF QuietOn

-----------------------------------------------------------------------------
(* The steps of the scheduler.                                              *)

\* When nobody else holds the lock, every allreduce has ended.
LEMMA NothingRuns ==
    ASSUME FifoInv, NEW c \in Coroutine, state[c] = "triggered",
           NEW p \in Proc, NEW i \in Layer
    PROVE  called[p][i] = done[p][i]
<1>1. ~(called[p][i] > done[p][i])
  <2> SUFFICES ASSUME called[p][i] > done[p][i] PROVE FALSE
    OBVIOUS
  <2>1. PICK d \in Coroutine : state[d] = "holding"
    BY DEF FifoInv, AwaitedIsHeld
  <2>2. c = d
    BY <2>1, LockAlone DEF FifoInv
  <2> QED
    BY <2>1, <2>2
<1> QED
  BY <1>1, FifoTypes

LEMMA FifoInvoke ==
    ASSUME FifoInv, NEW c \in Coroutine, Invoke(c)
    PROVE  FifoInv'
<1>1. PICK k \in Key, j \in Job, l \in Layer : c[1] = k /\ k = <<j, l>> /\ k[1] = j /\ k[2] = l
  BY DEF Coroutine, Key
<1>2. /\ Lock!Resume(c)
      /\ called' = InvokedOn(queue[k], l)
      /\ batch' = AwaitedOf(queue[k], l)
      /\ queue' = [queue EXCEPT ![k] = <<>>]
      /\ UNCHANGED <<pc, layer, it, fp_lock, started, done>>
  BY <1>1 DEF Invoke
<1>3. /\ L!IInv' /\ state[c] = "triggered" /\ state'[c] = "holding"
      /\ \A d \in Coroutine : d # c => state'[d] = state[d]
  BY <1>2, LockResume DEF FifoInv
<1>4. /\ queue[k] \in Seq(Proc) /\ EachOnce(queue[k], j)
      /\ Len(queue[k]) = Cardinality(Workers(j))
      /\ \A n \in DOMAIN queue[k] : NWorkers(queue[k][n]) > 1
  <2>1. queue[k] \in Seq(Proc) /\ EachOnce(queue[k], j)
        /\ \A n \in DOMAIN queue[k] : NWorkers(queue[k][n]) > 1
    BY <1>1 DEF FifoInv, OneEntryEach
  <2>2. L!Asks(c)
    BY <1>3 DEF L!Asks
  <2> QED
    BY <1>1, <2>1, <2>2 DEF FifoInv, OnlyFullAsks
<1>5. \A p \in Proc, i \in Layer : called[p][i] = done[p][i]
  BY <1>3, NothingRuns
<1>6. \A p \in Proc, i \in Layer : KeyOf(p, i) = k <=> JobOf[p] = j /\ i = l
  BY <1>1 DEF KeyOf
<1>7. called' \in [Proc -> [Layer -> Nat]]
      /\ \A p \in Proc, i \in Layer :
           called'[p][i] = called[p][i] + IF KeyOf(p, i) = k THEN 1 ELSE 0
  <2>1. \A p \in Proc : Occurrences(queue[k], p) = IF JobOf[p] = j THEN 1 ELSE 0
    BY <1>4, FullOccurs
  <2>2. \A p \in Proc, i \in Layer :
           /\ called'[p][i] = called[p][i] + IF i = l THEN Occurrences(queue[k], p) ELSE 0
           /\ called[p][i] \in Nat
    BY <1>2, FifoTypes DEF InvokedOn
  <2>3. \A p \in Proc, i \in Layer :
           called'[p][i] = called[p][i] + IF KeyOf(p, i) = k THEN 1 ELSE 0
    BY <1>6, <2>1, <2>2
  <2>4. \A p \in Proc, i \in Layer : called'[p][i] \in Nat
    BY <2>2, <2>3
  <2>5. DOMAIN called' = Proc /\ \A p \in Proc : called'[p] = [i \in Layer |-> called'[p][i]]
    BY <1>2 DEF InvokedOn
  <2>6. \A p \in Proc : called'[p] \in [Layer -> Nat]
    BY <2>4, <2>5
  <2>7. called' = [p \in Proc |-> called'[p]]
    BY <1>2 DEF InvokedOn
  <2> QED
    BY <2>3, <2>6, <2>7
<1>8. \A p \in Proc, i \in Layer : KeyOf(p, i) = k => InQueue(p, i)
  <2> SUFFICES ASSUME NEW p \in Proc, NEW i \in Layer, KeyOf(p, i) = k
               PROVE  \E n \in DOMAIN queue[k] : queue[k][n] = p
    BY DEF InQueue
  <2>1. p \in Workers(j)
    BY <1>6 DEF Workers
  <2> QED
    BY <1>4, <2>1, QueueInjects
<1>9. /\ queue' \in [Key -> Seq(Proc)] /\ queue'[k] = <<>>
      /\ \A m \in Key : m # k => queue'[m] = queue[m]
  BY <1>2 DEF FifoInv
<1>10. \A p \in Proc, i \in Layer : InQueue(p, i)' <=> InQueue(p, i) /\ KeyOf(p, i) # k
  <2> SUFFICES ASSUME NEW p \in Proc, NEW i \in Layer
               PROVE  InQueue(p, i)' <=> InQueue(p, i) /\ KeyOf(p, i) # k
    OBVIOUS
  <2>1. CASE KeyOf(p, i) = k
    <3>1. DOMAIN queue'[k] = {}
      BY <1>9
    <3> QED
      BY <2>1, <3>1 DEF InQueue
  <2>2. CASE KeyOf(p, i) # k
    BY <1>9, <2>2, KeyIsKey DEF InQueue
  <2> QED
    BY <2>1, <2>2
<1>11. TrainingInv'
  <2>1. \A p \in Proc, i \in Layer :
           /\ called'[p][i] >= called[p][i]
           /\ Passed(p, i) => called'[p][i] = called[p][i]
    BY <1>7, <1>8, FifoTypes DEF FifoInv, PassedIsNotQueued
  <2> QED
    BY <1>2, <1>7, <2>1, CalledMoreInv DEF FifoInv
<1>12. OneEntryEach'
  <2> SUFFICES ASSUME NEW m \in Key
               PROVE  /\ EachOnce(queue'[m], m[1])
                      /\ \A n \in DOMAIN queue'[m] : NWorkers(queue'[m][n]) > 1
    BY DEF OneEntryEach
  <2>1. CASE m = k
    <3>1. DOMAIN queue'[m] = {}
      BY <1>9, <2>1
    <3> QED
      BY <3>1 DEF EachOnce
  <2>2. CASE m # k
    BY <1>9, <2>2 DEF FifoInv, OneEntryEach
  <2> QED
    BY <2>1, <2>2
<1>13. EnqueuesAccounted'
  <2> SUFFICES ASSUME NEW p \in Proc, NEW i \in Layer, NWorkers(p) > 1
               PROVE  Enqueued(p, i)' = called'[p][i] + IF InQueue(p, i)' THEN 1 ELSE 0
    BY DEF EnqueuesAccounted
  <2>1. Enqueued(p, i)' = Enqueued(p, i)
    BY <1>2 DEF Enqueued
  <2>2. Enqueued(p, i) = called[p][i] + IF InQueue(p, i) THEN 1 ELSE 0
    BY DEF FifoInv, EnqueuesAccounted
  <2> QED
    BY <1>7, <1>8, <1>10, <2>1, <2>2, FifoTypes
<1>14. CalledTogether' /\ AloneCallsNothing'
  <2>1. CalledTogether'
    BY <1>6, <1>7 DEF FifoInv, CalledTogether
  <2>2. ASSUME NEW p \in Proc, NEW i \in Layer, KeyOf(p, i) = k PROVE NWorkers(p) > 1
    BY <1>4, <1>8, <2>2 DEF InQueue
  <2>3. AloneCallsNothing'
    <3> SUFFICES ASSUME NEW p \in Proc, NEW i \in Layer, ~(NWorkers(p) > 1)
                 PROVE  called'[p][i] = 0
      BY DEF AloneCallsNothing
    <3>1. KeyOf(p, i) # k /\ called[p][i] = 0
      BY <2>2 DEF FifoInv, AloneCallsNothing
    <3> QED
      BY <1>7, <3>1
  <2> QED
    BY <2>1, <2>3
<1>15. OnlyFullAsks'
  <2>1. ASSUME NEW d \in Coroutine, L!Asks(d)' PROVE L!Asks(d) /\ d[1] # k /\ d[1] \in Key
    <3>1. d # c
      BY <1>3, <2>1 DEF L!Asks
    <3>2. L!Asks(d) /\ L!Asks(c)
      BY <1>3, <2>1, <3>1 DEF L!Asks
    <3>3. d[1] # c[1]
      BY <3>1, <3>2 DEF FifoInv, OnlyFullAsks
    <3> QED
      BY <1>1, <3>2, <3>3 DEF Coroutine
  <2> QED
    BY <1>9, <2>1 DEF FifoInv, OnlyFullAsks
<1>16. AwaitedIsHeld'
  <2> SUFFICES ASSUME NEW p \in Proc, NEW i \in Layer, called'[p][i] > done[p][i]
               PROVE  /\ <<p, i, called'[p][i]>> \in batch'
                      /\ \E d \in Coroutine : state'[d] = "holding" /\ d[1] = KeyOf(p, i)
    BY <1>2 DEF AwaitedIsHeld
  <2>1. KeyOf(p, i) = k
    BY <1>5, <1>7, FifoTypes
  <2>2. PICK n \in DOMAIN queue[k] : queue[k][n] = p
    BY <1>8, <2>1 DEF InQueue
  <2>3. i = l
    BY <1>6, <2>1
  <2>4. <<p, i, called'[p][i]>> \in batch'
    BY <1>2, <2>2, <2>3 DEF AwaitedOf
  <2> QED
    BY <1>1, <1>3, <2>1, <2>4
<1>17. PassedIsNotQueued'
  <2>1. \A p \in Proc, i \in Layer : Passed(p, i)' <=> Passed(p, i)
    BY <1>2 DEF Passed
  <2> QED
    BY <1>10, <2>1 DEF FifoInv, PassedIsNotQueued
<1> QED
  BY <1>3, <1>9, <1>11, <1>12, <1>13, <1>14, <1>15, <1>16, <1>17 DEF FifoInv

LEMMA FifoFinish ==
    ASSUME FifoInv, NEW c \in Coroutine, Finish(c)
    PROVE  FifoInv'
<1>1. Lock!Release(c) /\ AllDone /\ UNCHANGED trainingVars /\ queue' = queue
  BY DEF Finish
<1>2. UNCHANGED <<pc, layer, it, called, done>>
  BY <1>1 DEF trainingVars
<1>3. /\ L!IInv'
      /\ \A d \in Coroutine : L!Asks(d)' => L!Asks(d)
  BY <1>1, LockRelease DEF FifoInv
<1>4. TrainingInv'
  BY <1>1, StutterInv DEF FifoInv
<1>5. \A p \in Proc, i \in Layer : called[p][i] = done[p][i]
  <2> SUFFICES ASSUME NEW p \in Proc, NEW i \in Layer PROVE called[p][i] = done[p][i]
    OBVIOUS
  <2>1. called[p][i] > done[p][i] => done[p][i] >= called[p][i]
    <3> SUFFICES ASSUME called[p][i] > done[p][i] PROVE done[p][i] >= called[p][i]
      OBVIOUS
    <3>1. <<p, i, called[p][i]>> \in batch
      BY DEF FifoInv, AwaitedIsHeld
    <3> QED
      BY <1>1, <3>1 DEF AllDone
  <2> QED
    BY <2>1, FifoTypes
<1>6. \A p \in Proc, i \in Layer : InQueue(p, i)' <=> InQueue(p, i)
  BY <1>1 DEF InQueue
<1>7. \A p \in Proc, i \in Layer :
        Enqueued(p, i)' = Enqueued(p, i) /\ (Passed(p, i)' <=> Passed(p, i))
  BY <1>2 DEF Enqueued, Passed
<1>8. queue' \in [Key -> Seq(Proc)] /\ OneEntryEach' /\ OnlyFullAsks'
  BY <1>1, <1>3 DEF FifoInv, OneEntryEach, OnlyFullAsks
<1>9. EnqueuesAccounted' /\ PassedIsNotQueued'
  BY <1>2, <1>6, <1>7 DEF FifoInv, EnqueuesAccounted, PassedIsNotQueued
<1>10. CalledTogether' /\ AloneCallsNothing'
  BY <1>2 DEF FifoInv, CalledTogether, AloneCallsNothing
<1>11. AwaitedIsHeld'
  <2> SUFFICES ASSUME NEW p \in Proc, NEW i \in Layer PROVE ~(called'[p][i] > done'[p][i])
    BY DEF AwaitedIsHeld
  <2> QED
    BY <1>2, <1>5, FifoTypes
<1> QED
  BY <1>3, <1>4, <1>8, <1>9, <1>10, <1>11 DEF FifoInv
LEMMA FifoBackward ==
    ASSUME FifoInv, NEW p \in Proc, Backward(p)
    PROVE  FifoInv'
<1>1. PICK l \in Layer, k \in Key, q \in Seq(Proc) :
        l = layer[p] /\ k = KeyOf(p, l) /\ q = queue[k]
  <2>1. layer[p] \in Layer
    BY AdvanceEnqueues DEF Backward, FifoInv
  <2>2. KeyOf(p, layer[p]) \in Key
    BY <2>1, KeyIsKey
  <2>3. queue[KeyOf(p, layer[p])] \in Seq(Proc)
    BY <2>2 DEF FifoInv
  <2> QED
    BY <2>1, <2>2, <2>3
<1> DEFINE a == Append(q, p)
<1>2. /\ NWorkers(p) > 1 /\ Advance(p)
      /\ queue' = [queue EXCEPT ![k] = a]
      /\ IF Full(a, p) THEN Lock!Request(<<k, it[p]>>) ELSE UNCHANGED lockVars
      /\ fp_lock' = fp_lock /\ called' = called /\ started' = started /\ done' = done
      /\ batch' = batch
  BY <1>1 DEF Backward
<1>3. k[1] = JobOf[p] /\ <<k, it[p]>> \in Coroutine
  BY <1>1, <1>2, AdvanceEnqueues DEF KeyOf, Coroutine, FifoInv
<1>4. TrainingInv'
  BY <1>2, AdvanceInv DEF FifoInv
<1>5. ~InQueue(p, l) /\ called[p][l] = done[p][l]
  <2>1. Enqueued(p, l) + 1 <= Forwards(p, l)
    BY <1>1, <1>2, AdvanceEnqueues, FifoTypes DEF FifoInv
  <2> QED
    BY <1>2, <2>1, LockMeansEnded, NotQueued DEF FifoInv
<1>6. EachOnce(q, JobOf[p]) /\ \A n \in DOMAIN q : q[n] # p /\ NWorkers(q[n]) > 1
  BY <1>1, <1>3, <1>5 DEF FifoInv, OneEntryEach, InQueue
<1>7. /\ EachOnce(a, JobOf[p])
      /\ \A r \in Proc : (\E n \in DOMAIN a : a[n] = r) <=> (r = p \/ \E n \in DOMAIN q : q[n] = r)
  BY <1>6, AppendOnce
<1>8. a \in Seq(Proc) /\ queue' \in [Key -> Seq(Proc)] /\ queue'[k] = a
      /\ \A m \in Key : m # k => queue'[m] = queue[m]
  <2>1. a \in Seq(Proc)
    OBVIOUS
  <2> HIDE DEF a
  <2> QED
    BY <1>2, <2>1 DEF FifoInv
<1> HIDE DEF a
<1>9. \A r \in Proc, i \in Layer : InQueue(r, i)' <=> InQueue(r, i) \/ (r = p /\ i = l)
  <2> SUFFICES ASSUME NEW r \in Proc, NEW i \in Layer
               PROVE  InQueue(r, i)' <=> InQueue(r, i) \/ (r = p /\ i = l)
    OBVIOUS
  <2>1. CASE KeyOf(r, i) = k
    <3>1. i = l
      BY <1>1, <2>1 DEF KeyOf
    <3>2. InQueue(r, i)' <=> \E n \in DOMAIN a : a[n] = r
      BY <1>8, <2>1 DEF InQueue
    <3>3. InQueue(r, i) <=> \E n \in DOMAIN q : q[n] = r
      BY <1>1, <2>1 DEF InQueue
    <3> QED
      BY <1>7, <3>1, <3>2, <3>3
  <2>2. CASE KeyOf(r, i) # k
    <3>1. ~(r = p /\ i = l)
      BY <1>1, <2>2
    <3>2. queue'[KeyOf(r, i)] = queue[KeyOf(r, i)]
      BY <1>8, <2>2, KeyIsKey
    <3> QED
      BY <3>1, <3>2 DEF InQueue
  <2> QED
    BY <2>1, <2>2
<1>10. OneEntryEach'
  <2> SUFFICES ASSUME NEW m \in Key
               PROVE  /\ EachOnce(queue'[m], m[1])
                      /\ \A n \in DOMAIN queue'[m] : NWorkers(queue'[m][n]) > 1
    BY DEF OneEntryEach
  <2>1. CASE m = k
    <3>1. \A n \in DOMAIN a : NWorkers(a[n]) > 1
      <4> SUFFICES ASSUME NEW n \in DOMAIN a PROVE NWorkers(a[n]) > 1
        OBVIOUS
      <4>1. a[n] \in Proc
        BY <1>8
      <4>2. a[n] = p \/ \E u \in DOMAIN q : q[u] = a[n]
        BY <1>7, <4>1
      <4> QED
        BY <1>2, <1>6, <4>2
    <3> QED
      BY <1>3, <1>7, <1>8, <2>1, <3>1
  <2>2. CASE m # k
    BY <1>8, <2>2 DEF FifoInv, OneEntryEach
  <2> QED
    BY <2>1, <2>2
<1>11. EnqueuesAccounted'
  <2> SUFFICES ASSUME NEW r \in Proc, NEW i \in Layer, NWorkers(r) > 1
               PROVE  Enqueued(r, i)' = called'[r][i] + IF InQueue(r, i)' THEN 1 ELSE 0
    BY DEF EnqueuesAccounted
  <2>1. Enqueued(r, i) = called[r][i] + IF InQueue(r, i) THEN 1 ELSE 0
    BY DEF FifoInv, EnqueuesAccounted
  <2>2. CASE r = p /\ i = l
    <3>1. Enqueued(r, i)' = Enqueued(r, i) + 1
      BY <1>1, <1>2, <2>2, AdvanceEnqueues DEF FifoInv
    <3> QED
      BY <1>2, <1>5, <1>9, <2>1, <2>2, <3>1, FifoTypes
  <2>3. CASE ~(r = p /\ i = l)
    <3>1. Enqueued(r, i)' = Enqueued(r, i)
      <4>1. CASE r = p
        <5>1. i # layer[p]
          BY <1>1, <2>3, <4>1
        <5>2. Enqueued(p, i)' = Enqueued(p, i) + 0
          BY <1>2, <5>1, AdvanceEnqueues DEF FifoInv
        <5> QED
          BY <4>1, <5>2, FifoTypes
      <4>2. CASE r # p
        BY <1>2, <4>2, AdvanceEnqueues DEF FifoInv
      <4> QED
        BY <4>1, <4>2
    <3>2. InQueue(r, i)' <=> InQueue(r, i)
      BY <1>9, <2>3
    <3> QED
      BY <1>2, <2>1, <3>1, <3>2
  <2> QED
    BY <2>2, <2>3
<1>12. CalledTogether' /\ AloneCallsNothing'
  BY <1>2 DEF FifoInv, CalledTogether, AloneCallsNothing
<1>13. ASSUME NEW d \in Coroutine, L!Asks(d) PROVE d[1] # k
  <2> SUFFICES ASSUME d[1] = k PROVE FALSE
    OBVIOUS
  <2>1. Len(q) = Cardinality(Workers(JobOf[p]))
    BY <1>1, <1>3, <1>13 DEF FifoInv, OnlyFullAsks
  <2>2. p \in Workers(JobOf[p])
    BY DEF Workers
  <2>3. \E n \in DOMAIN q : q[n] = p
    BY <1>6, <2>1, <2>2, QueueInjects
  <2> QED
    BY <1>6, <2>3
<1>14. /\ L!IInv' /\ OnlyFullAsks'
       /\ \A d \in Coroutine : state'[d] = "holding" <=> state[d] = "holding"
  <2>1. CASE Full(a, p)
    <3> DEFINE c == <<k, it[p]>>
    <3>1. c \in Coroutine /\ Lock!Request(c) /\ c[1] = k
      BY <1>2, <1>3, <2>1
    <3> HIDE DEF c
    <3>2. /\ L!IInv'
          /\ \A d \in Coroutine : /\ state'[d] = "holding" <=> state[d] = "holding"
                                  /\ d # c /\ L!Asks(d)' => L!Asks(d)
      BY <3>1, LockRequest DEF FifoInv
    <3>3. Len(queue'[k]) = Cardinality(Workers(k[1]))
      BY <1>3, <1>8, <2>1 DEF Full, NWorkers
    <3>4. ASSUME NEW d \in Coroutine, L!Asks(d)'
          PROVE  Len(queue'[d[1]]) = Cardinality(Workers(d[1][1]))
      <4>1. CASE d = c
        BY <3>1, <3>3, <4>1
      <4>2. CASE d # c
        <5>1. L!Asks(d) /\ d[1] # k /\ d[1] \in Key
          BY <1>13, <3>2, <3>4, <4>2 DEF Coroutine
        <5> QED
          BY <1>8, <5>1 DEF FifoInv, OnlyFullAsks
      <4> QED
        BY <4>1, <4>2
    <3>5. ASSUME NEW d \in Coroutine, NEW e \in Coroutine, L!Asks(d)', L!Asks(e)', d[1] = e[1]
          PROVE  d = e
      <4>1. CASE d # c /\ e # c
        BY <3>2, <3>5, <4>1 DEF FifoInv, OnlyFullAsks
      <4>2. CASE d = c \/ e = c
        <5>1. d[1] = k /\ e[1] = k
          BY <3>1, <3>5, <4>2
        <5> QED
          BY <1>13, <3>2, <3>5, <5>1
      <4> QED
        BY <4>1, <4>2
    <3> QED
      BY <3>2, <3>4, <3>5 DEF OnlyFullAsks
  <2>2. CASE ~Full(a, p)
    <3>1. UNCHANGED lockVars
      BY <1>2, <2>2
    <3>2. L!IInv' /\ (\A d \in Coroutine : L!Asks(d)' <=> L!Asks(d)) /\ state' = state
      BY <3>1, LockStutter DEF FifoInv, lockVars
    <3>3. \A d \in Coroutine : L!Asks(d)' => queue'[d[1]] = queue[d[1]]
      BY <1>8, <1>13, <3>2 DEF Coroutine
    <3> QED
      BY <3>2, <3>3 DEF FifoInv, OnlyFullAsks
  <2> QED
    BY <2>1, <2>2
<1>15. AwaitedIsHeld'
  BY <1>2, <1>14 DEF FifoInv, AwaitedIsHeld
<1>16. PassedIsNotQueued'
  <2> SUFFICES ASSUME NEW r \in Proc, NEW i \in Layer, Passed(r, i)' PROVE ~InQueue(r, i)'
    BY DEF PassedIsNotQueued
  <2>1. r # p /\ Passed(r, i)
    BY <1>2, AdvanceEnqueues DEF FifoInv
  <2> QED
    BY <1>9, <2>1 DEF FifoInv, PassedIsNotQueued
<1> QED
  BY <1>4, <1>8, <1>10, <1>11, <1>12, <1>14, <1>15, <1>16 DEF FifoInv

-----------------------------------------------------------------------------
LEMMA FifoInit == Init => FifoInv
<1> SUFFICES ASSUME Init PROVE FifoInv
  OBVIOUS
<1>1. TrainingInit /\ queue = [k \in Key |-> <<>>] /\ Lock!Init
  BY DEF Init
<1>2. TrainingInv
  BY <1>1, InitInv
<1>3. L!IInv
  BY <1>1, LockInit
<1>4. /\ \A p \in Proc, i \in Layer : called[p][i] = 0 /\ done[p][i] = 0 /\ Enqueued(p, i) = 0
      /\ \A p \in Proc : pc[p] = "forward"
  BY <1>1 DEF TrainingInit, Zero, Enqueued
<1>5. queue \in [Key -> Seq(Proc)] /\ \A k \in Key : DOMAIN queue[k] = {}
  <2>1. <<>> \in Seq(Proc) /\ DOMAIN <<>> = {}
    OBVIOUS
  <2> QED
    BY <1>1, <2>1
<1>6. \A p \in Proc, i \in Layer : ~InQueue(p, i)
  BY <1>5, KeyIsKey DEF InQueue
<1>7. \A c \in Coroutine : ~L!Asks(c)
  BY <1>1, SameLock DEF L!Init, L!Asks
<1> QED
  BY <1>2, <1>3, <1>4, <1>5, <1>6, <1>7
  DEF FifoInv, OneEntryEach, EachOnce, EnqueuesAccounted, CalledTogether,
      AloneCallsNothing, OnlyFullAsks, AwaitedIsHeld, PassedIsNotQueued

LEMMA FifoStep == FifoInv /\ [Next]_vars => FifoInv'
<1> SUFFICES ASSUME FifoInv, [Next]_vars PROVE FifoInv'
  OBVIOUS
<1>1. ASSUME NEW p \in Proc, LoopStep(p) PROVE FifoInv'
  <2>1. CASE Backward(p)
    BY <2>1, FifoBackward
  <2>2. CASE ~Backward(p)
    BY <1>1, <2>2, FifoQuiet DEF LoopStep, QuietMove
  <2> QED
    BY <2>1, <2>2
<1>2. ASSUME NEW p \in Proc, NEW i \in Layer, RoundStep(p, i) PROVE FifoInv'
  BY <1>2, FifoQuiet DEF RoundStep, QuietMove
<1>3. ASSUME NEW c \in Coroutine, Invoke(c) \/ Finish(c) PROVE FifoInv'
  BY <1>3, FifoInvoke, FifoFinish
<1>4. CASE UNCHANGED vars
  BY <1>4, FifoQuiet DEF vars, QuietMove
<1> QED
  BY <1>1, <1>2, <1>3, <1>4 DEF Next, SchedulerStep, Over

\* An allreduce in the network belongs to the coroutine that holds the lock.
LEMMA InvOneTensor == FifoInv => OneTensorInNetwork
<1> SUFFICES ASSUME FifoInv, NEW p \in Proc, NEW q \in Proc, NEW i \in Layer, NEW l \in Layer,
                    started[p][i] > done[p][i], started[q][l] > done[q][l]
             PROVE  KeyOf(p, i) = KeyOf(q, l)
  BY DEF OneTensorInNetwork
<1>1. called[p][i] > done[p][i] /\ called[q][l] > done[q][l]
  BY FifoTypes
<1>2. PICK c \in Coroutine : state[c] = "holding" /\ c[1] = KeyOf(p, i)
  BY <1>1 DEF FifoInv, AwaitedIsHeld
<1>3. PICK d \in Coroutine : state[d] = "holding" /\ d[1] = KeyOf(q, l)
  BY <1>1 DEF FifoInv, AwaitedIsHeld
<1>4. c = d
  BY <1>2, <1>3, LockAlone DEF FifoInv
<1> QED
  BY <1>2, <1>3, <1>4

\* A worker has as many calls as its job, and each follows a forward pass, which
\* waits for the allreduce before.
LEMMA InvGated == FifoInv => RoundsAreGated
<1> SUFFICES ASSUME FifoInv, NEW p \in Proc, NEW q \in Proc, NEW i \in Layer, JobOf[p] = JobOf[q]
             PROVE  called[p][i] <= done[q][i] + 1
  BY DEF RoundsAreGated
<1>1. called[p][i] = called[q][i]
  BY DEF FifoInv, CalledTogether
<1>2. CASE NWorkers(q) > 1
  <2>1. Enqueued(q, i) = called[q][i] + IF InQueue(q, i) THEN 1 ELSE 0
    BY <1>2 DEF FifoInv, EnqueuesAccounted
  <2>2. fp_lock[q][i] + Forwards(q, i) = 1 + (done[q][i] \div Chunks[i])
    BY <1>2 DEF FifoInv, TrainingInv, FpLockCounts
  <2>3. done[q][i] \div Chunks[i] \in Nat /\ done[q][i] \div Chunks[i] <= done[q][i]
    BY TypeFacts, DivAtMost DEF FifoInv, TrainingInv
  <2>4. Enqueued(q, i) <= Forwards(q, i)
    BY FifoTypes DEF Enqueued, Forwards
  <2> QED
    BY <1>1, <2>1, <2>2, <2>3, <2>4, FifoTypes
<1>3. CASE ~(NWorkers(q) > 1)
  <2>1. called[q][i] = 0
    BY <1>3 DEF FifoInv, AloneCallsNothing
  <2> QED
    BY <1>1, <2>1, FifoTypes
<1> QED
  BY <1>2, <1>3

\* The lock of FirstInFirstOutOneByOne keeps the tensors apart: the allreduces in
\* the network belong to one tensor of one job.
THEOREM FifoOneTensorInNetwork == Spec => []OneTensorInNetwork
BY FifoInit, FifoStep, InvOneTensor, PTL DEF Spec

\* What Worker::allreduce and Aggregation rely on: under this scheduler no worker is
\* asked for a round of a tensor before every worker of the job has ended the last.
THEOREM FifoRoundsAreGated == Spec => []RoundsAreGated
BY FifoInit, FifoStep, InvGated, PTL DEF Spec

\* "wait until final allreduces are done", under this scheduler.
THEOREM FifoCleanupWaits == Spec => []CleanupAfterAllreduce
<1>1. FifoInv => CleanupAfterAllreduce
  BY DEF FifoInv, TrainingInv
<1> QED
  BY FifoInit, FifoStep, <1>1, PTL DEF Spec

\* The entry of a worker in the queue of a tensor accounts for its last enqueue.
LEMMA FifoKept == FifoInv /\ (\A i \in Layer : Chunks[i] = 1) => EnqueuesKept
<1> SUFFICES ASSUME FifoInv, \A i \in Layer : Chunks[i] = 1,
                    NEW p \in Proc, NEW i \in Layer, NWorkers(p) > 1
             PROVE  Kept(p, i, Occurrences(queue[KeyOf(p, i)], p))
  BY DEF EnqueuesKept
<1> DEFINE q == queue[KeyOf(p, i)]
           S == {n \in DOMAIN q : q[n] = p}
<1>1. q \in Seq(Proc) /\ EachOnce(q, KeyOf(p, i)[1])
  BY KeyIsKey DEF FifoInv, OneEntryEach
<1>2. Occurrences(q, p) = IF InQueue(p, i) THEN 1 ELSE 0
  <2>1. CASE InQueue(p, i)
    <3>1. PICK n \in DOMAIN q : q[n] = p
      BY <2>1 DEF InQueue
    <3>2. S = {n}
      BY <1>1, <3>1 DEF EachOnce
    <3>3. Cardinality({n}) = 1
      BY FS_Singleton
    <3>4. Occurrences(q, p) = Cardinality(S)
      BY DEF Occurrences
    <3> HIDE DEF S, q
    <3> QED
      BY <2>1, <3>2, <3>3, <3>4
  <2>2. CASE ~InQueue(p, i)
    <3>1. S = {}
      BY <2>2 DEF InQueue
    <3>2. Occurrences(q, p) = Cardinality(S)
      BY DEF Occurrences
    <3>3. Cardinality({}) = 0
      BY FS_EmptySet
    <3> HIDE DEF S, q
    <3> QED
      BY <2>2, <3>1, <3>2, <3>3
  <2> QED
    BY <2>1, <2>2
<1>3. Enqueued(p, i) = called[p][i] + IF InQueue(p, i) THEN 1 ELSE 0
  BY DEF FifoInv, EnqueuesAccounted
<1>4. called[p][i] \div Chunks[i] = called[p][i]
  BY FifoTypes
<1> HIDE DEF q
<1>5. Kept(p, i, Occurrences(q, p))
  BY <1>2, <1>3, <1>4, FifoTypes DEF Kept
<1> QED
  BY <1>5 DEF q

\* No enqueue of a whole tensor is dropped: it has led to a call of allreduce or is
\* in the queue still.
THEOREM FifoEnqueuesKept ==
    (\A i \in Layer : Chunks[i] = 1) => (Spec => []EnqueuesKept)
<1> SUFFICES ASSUME \A i \in Layer : Chunks[i] = 1 PROVE Spec => []EnqueuesKept
  OBVIOUS
<1>1. FifoInv => EnqueuesKept
  BY FifoKept
<1> QED
  BY FifoInit, FifoStep, <1>1, PTL DEF Spec

\* A worker is called no more than once in an iteration.
LEMMA CalledInIterations ==
    ASSUME FifoInv, NEW p \in Proc, NEW i \in Layer
    PROVE  called[p][i] <= NIter
<1>1. CASE NWorkers(p) > 1
  <2>1. Enqueued(p, i) = called[p][i] + IF InQueue(p, i) THEN 1 ELSE 0
    BY <1>1 DEF FifoInv, EnqueuesAccounted
  <2>2. it[p] \in 0 .. NIter /\ (pc[p] = "backward" => it[p] < NIter)
    BY DEF FifoInv, TrainingInv, TrainingTypeOK, InsideIterations
  <2>3. Enqueued(p, i) <= NIter
    BY <2>2, TrainingAssumption DEF Enqueued
  <2> QED
    BY <2>1, <2>3, FifoTypes, TrainingAssumption
<1>2. CASE ~(NWorkers(p) > 1)
  BY <1>2, TrainingAssumption DEF FifoInv, AloneCallsNothing
<1> QED
  BY <1>1, <1>2

\* Every step is a step of the rounds or leaves them alone.
LEMMA FifoRoundMove == [Next]_vars => RoundMove
<1> SUFFICES ASSUME [Next]_vars PROVE RoundMove
  OBVIOUS
<1>1. ASSUME NEW p \in Proc, LoopStep(p) PROVE RoundMove
  BY <1>1 DEF LoopStep, Forward, Backward, BackwardAlone, Drain, Leave, roundVars, RoundMove
<1>2. ASSUME NEW c \in Coroutine, Invoke(c) \/ Finish(c) PROVE RoundMove
  BY <1>2 DEF Invoke, Finish, trainingVars, roundVars, RoundMove
<1>3. ASSUME NEW p \in Proc, NEW i \in Layer, RoundStep(p, i) PROVE RoundMove
  BY <1>3 DEF RoundStep, RoundMove
<1>4. CASE UNCHANGED vars
  BY <1>4 DEF vars, trainingVars, roundVars, RoundMove
<1> QED
  BY <1>1, <1>2, <1>3, <1>4 DEF Next, SchedulerStep, Over

\* So each tensor of each job is a gated AllReduce of one round per iteration.
LEMMA FifoFabric ==
    ASSUME FifoInv, [Next]_vars, NEW j \in Job, NEW i \in Layer
    PROVE  [Fabric(j, i, NIter)!Next]_(Fabric(j, i, NIter)!vars)
<1>1. \A p \in Workers(j) : called[p][i] <= NIter
  BY CalledInIterations DEF Workers
<1>2. TrainingInv /\ RoundsAreGated /\ NIter \in Nat
  BY InvGated, TrainingAssumption DEF FifoInv
<1> QED
  BY <1>1, <1>2, FifoRoundMove, FabricStep

\* The gate Aggregation assumes of a collective scheduler is what this one provides:
\* the calls of allreduce for each tensor of each job are a gated AllReduce.
THEOREM FifoImplementsGatedAllReduce ==
    ASSUME NEW j \in Job, NEW i \in Layer
    PROVE  Spec => Fabric(j, i, NIter)!Spec
<1>1. Init => Fabric(j, i, NIter)!Init
  BY FabricInit DEF Init
<1>2. FifoInv /\ [Next]_vars => [Fabric(j, i, NIter)!Next]_(Fabric(j, i, NIter)!vars)
  BY FifoFabric
<1> QED
  BY FifoInit, FifoStep, <1>1, <1>2, PTL DEF Spec, Fabric!Spec

-----------------------------------------------------------------------------
(* The network of several jobs.                                             *)

\* Jobs j and k can use the network at the same time.
Exclusive(j, k) ==
    /\ WidsAllocated(j) \intersect WidsAllocated(k) = {}
    /\ Uplinks(WidsAllocated(j)) \intersect Uplinks(WidsAllocated(k)) = {}

\* Fewer workers need no more links to the core.
LEMMA UplinksMonotone ==
    ASSUME NEW V, NEW W, IsFiniteSet(W), V \subseteq W
    PROVE  Uplinks(V) \subseteq Uplinks(W)
<1> DEFINE tors(S) == {TorOf[w] : w \in S}
<1>1. tors(V) \subseteq tors(W)
  OBVIOUS
<1>2. IsFiniteSet(tors(W))
  <2>1. [w \in W |-> TorOf[w]] \in Surjection(W, tors(W))
    BY DEF Surjection
  <2> HIDE DEF tors
  <2> QED
    BY <2>1, FS_Surjection
<1>3. /\ Uplinks(V) = IF Cardinality(tors(V)) = 1 THEN {} ELSE tors(V)
      /\ Uplinks(W) = IF Cardinality(tors(W)) = 1 THEN {} ELSE tors(W)
  BY DEF Uplinks
<1> HIDE DEF tors
<1>4. CASE Cardinality(tors(W)) = 1
  <2>1. PICK x : tors(W) = {x}
    BY <1>2, <1>4, FS_Singleton
  <2>2. tors(V) = {} \/ tors(V) = {x}
    BY <1>1, <2>1
  <2>3. Cardinality({x}) = 1
    BY FS_Singleton
  <2> QED
    BY <1>3, <2>2, <2>3
<1>5. CASE Cardinality(tors(W)) # 1
  BY <1>1, <1>3, <1>5
<1> QED
  BY <1>4, <1>5

\* The workers of a job are finitely many.
LEMMA WidsFinite == \A j \in Job : IsFiniteSet(WidsAllocated(j))
<1> SUFFICES ASSUME NEW j \in Job PROVE IsFiniteSet(WidsAllocated(j))
  OBVIOUS
<1>1. IsFiniteSet(Workers(j))
  BY TrainingAssumption, FS_Subset DEF Workers
<1>2. [p \in Workers(j) |-> WidOf[p]] \in Surjection(Workers(j), WidsAllocated(j))
  BY DEF Surjection, WidsAllocated
<1> QED
  BY <1>1, <1>2, FS_Surjection

\* The workers of some of the jobs are finitely many.
LEMMA WidsOfJobsFinite == ASSUME NEW J, J \subseteq Job PROVE IsFiniteSet(Wids(J))
<1> DEFINE P == {p \in Proc : JobOf[p] \in J}
<1>1. IsFiniteSet(P)
  BY TrainingAssumption, FS_Subset
<1>2. [p \in P |-> WidOf[p]] \in Surjection(P, Wids(J))
  BY DEF Surjection, Wids, WidsAllocated, Workers
<1> HIDE DEF P
<1> QED
  BY <1>1, <1>2, FS_Surjection

\* The jobs of J use the network without one another.
PairwiseExclusive(J) == \A j, k \in J : j # k => Exclusive(j, k)

\* A job that the network can accommodate beside the union of some can use it
\* beside each of them.
LEMMA AccommodateAdds ==
    ASSUME NEW J, J \subseteq Job, PairwiseExclusive(J), NEW k \in Job,
           Accommodate(Wids(J), WidsAllocated(k))
    PROVE  PairwiseExclusive(J \union {k})
<1>1. ASSUME NEW j \in J PROVE Exclusive(j, k) /\ Exclusive(k, j)
  <2>1. WidsAllocated(j) \subseteq Wids(J)
    BY DEF Wids
  <2>2. Uplinks(WidsAllocated(j)) \subseteq Uplinks(Wids(J))
    BY <2>1, WidsOfJobsFinite, UplinksMonotone
  <2> QED
    BY <2>1, <2>2 DEF Accommodate, Exclusive
<1> QED
  BY <1>1 DEF PairwiseExclusive

-----------------------------------------------------------------------------
(* DeficitRoundRobin.                                                       *)

D == INSTANCE DeficitRoundRobin

One(b) == IF b THEN 1 ELSE 0

\* The entries of the priority queue of job j are whole: each worker of the job
\* once, and one entry for each tensor.
WholeEntries(pq, j) ==
    /\ \A e \in pq :
        /\ EachOnce(e.workers, j)
        /\ Len(e.workers) = Cardinality(Workers(j))
        /\ Cardinality(Workers(j)) > 1
    /\ \A e, f \in pq : e.tensor = f.tensor => e = f

Group == [job : Job, pq : SUBSET [tensor : Layer, workers : Seq(Proc)]]
Deque == Seq(Group)

\* Tensor i of job j waits in the priority queue of its job.
IsReady(j, i) ==
    \E n \in DOMAIN ready_pqueues :
        ready_pqueues[n].job = j /\ \E e \in ready_pqueues[n].pq : e.tensor = i

\* The enqueues of a worker: those whose chunks have all been called, the one in
\* the queue, and the one whose chunks are being called.
ChunksAccounted ==
    \A p \in Proc, i \in Layer : NWorkers(p) > 1 =>
        /\ Enqueued(p, i) = (called[p][i] \div Chunks[i]) + One(InQueue(p, i))
                                                         + One(IsReady(JobOf[p], i))
        /\ ~IsReady(JobOf[p], i) => called[p][i] % Chunks[i] = 0

\* What is called and has not ended is awaited, and is one round of a tensor.
CallsAwaited ==
    \A p \in Proc, i \in Layer :
        /\ called[p][i] > done[p][i] => <<p, i, called[p][i]>> \in batch
        /\ called[p][i] <= done[p][i] + 1

BatchExclusive ==
    /\ \A b, c \in batch : JobOf[b[1]] # JobOf[c[1]] => Exclusive(JobOf[b[1]], JobOf[c[1]])
    /\ loop # "await" => batch = {}

PassedIsNotReady == \A p \in Proc, i \in Layer : Passed(p, i) => ~IsReady(JobOf[p], i)

DrrInv ==
    /\ TrainingInv
    /\ queue \in [Key -> Seq(Proc)]
    /\ ready_pqueues \in Deque
    /\ jid_to_deque_idx \in [Job -> Nat] /\ quantums \in [Job -> Nat] /\ idx \in Nat \ {0}
    /\ OneEntryEach
    /\ \A n \in DOMAIN ready_pqueues : WholeEntries(ready_pqueues[n].pq, ready_pqueues[n].job)
    /\ D!IndexesAgree
    /\ ChunksAccounted
    /\ CalledTogether
    /\ AloneCallsNothing
    /\ CallsAwaited
    /\ BatchExclusive
    /\ PassedIsNotQueued
    /\ PassedIsNotReady
-----------------------------------------------------------------------------
(* The instance has the helpers and the steps of the modules it extends.     *)

\* The helpers of the instance.
LEMMA DrrHelpers ==
    /\ D!Layer = Layer /\ D!Job = Job
    /\ \A j : D!Workers(j) = Workers(j) /\ D!WidsAllocated(j) = WidsAllocated(j)
    /\ \A p : D!NWorkers(p) = NWorkers(p)
    /\ \A S : D!Cardinality(S) = Cardinality(S)
    /\ \A p, i : D!KeyOf(p, i) = KeyOf(p, i) /\ D!Enqueued(p, i) = Enqueued(p, i)
<1>1. \A S : D!Cardinality(S) = Cardinality(S)
  BY DEF D!Cardinality, D!IsFiniteSet, Cardinality, IsFiniteSet
<1>2. \A j : D!Workers(j) = Workers(j)
  BY DEF D!Workers, Workers
<1>3. \A p : D!NWorkers(p) = NWorkers(p)
  BY <1>1, <1>2 DEF D!NWorkers, NWorkers
<1> QED
  BY <1>1, <1>2, <1>3 DEF D!Layer, Layer, D!Job, Job, D!WidsAllocated, WidsAllocated,
     D!KeyOf, KeyOf, D!Enqueued, Enqueued

\* The steps of its loops.
LEMMA DrrLoopSteps ==
    ASSUME NEW p \in Proc
    PROVE  /\ D!Advance(p) => Advance(p)
           /\ D!Forward(p) => Forward(p)
           /\ D!BackwardAlone(p) => BackwardAlone(p)
           /\ D!Drain(p) => Drain(p)
           /\ D!Leave(p) => Leave(p)
<1>1. D!Advance(p) => Advance(p)
  BY DEF D!Advance, Advance, D!MoreIterations, MoreIterations
<1>2. D!Forward(p) => Forward(p)
  BY DEF D!Forward, Forward, D!MayForward, MayForward
<1>3. \A f, i, n : D!Plus(f, p, i, n) = Plus(f, p, i, n)
  BY DEF D!Plus, Plus
<1>4. D!BackwardAlone(p) => BackwardAlone(p)
  BY <1>1, <1>3, DrrHelpers DEF D!BackwardAlone, BackwardAlone
<1>5. D!Drain(p) => Drain(p)
  BY DEF D!Drain, Drain, D!Drained, Drained
<1>6. D!Leave(p) => Leave(p)
  BY DEF D!Leave, Leave
<1> QED
  BY <1>1, <1>2, <1>4, <1>5, <1>6

\* The steps of its rounds.
LEMMA DrrRoundSteps ==
    ASSUME NEW p \in Proc, NEW i \in Layer
    PROVE  /\ D!StartAllreduce(p, i) => StartAllreduce(p, i)
           /\ D!CompleteAllreduce(p, i) => CompleteAllreduce(p, i)
<1>1. \A f, n : D!Plus(f, p, i, n) = Plus(f, p, i, n)
  BY DEF D!Plus, Plus
<1>2. D!StartAllreduce(p, i) => StartAllreduce(p, i)
  BY <1>1 DEF D!StartAllreduce, StartAllreduce
<1>3. D!CompleteAllreduce(p, i) => CompleteAllreduce(p, i)
  BY <1>1, DrrHelpers DEF D!CompleteAllreduce, CompleteAllreduce, D!LastChunk, LastChunk
<1> QED
  BY <1>2, <1>3

\* Every step enqueues nothing, or is one of the scheduler's.
LEMMA DrrSteps ==
    ASSUME [D!Next]_(D!vars)
    PROVE  \/ QuietMove /\ UNCHANGED D!schedulerVars
           \/ \E p \in Proc : D!Backward(p) \/ D!CleanUp(p)
           \/ D!Turn \/ D!LeaveLoop
<1>1. CASE UNCHANGED D!vars
  BY <1>1 DEF D!vars, D!trainingVars, trainingVars, QuietMove
<1>2. ASSUME NEW p \in Proc, D!LoopStep(p), ~D!Backward(p), ~D!CleanUp(p)
      PROVE  QuietMove /\ UNCHANGED D!schedulerVars
  BY <1>2, DrrLoopSteps DEF D!LoopStep, QuietMove
<1>3. ASSUME NEW p \in Proc, NEW i \in D!Layer, D!RoundStep(p, i)
      PROVE  QuietMove /\ UNCHANGED D!schedulerVars
  BY <1>3, DrrRoundSteps, DrrHelpers DEF D!RoundStep, QuietMove
<1>4. D!Over => UNCHANGED D!vars
  BY DEF D!Over
<1> QED
  BY <1>1, <1>2, <1>3, <1>4 DEF D!Next

\* The numbers the invariant is about.
LEMMA DrrTypes ==
    ASSUME DrrInv, NEW p \in Proc, NEW i \in Layer
    PROVE  /\ called[p][i] \in Nat /\ done[p][i] \in Nat /\ started[p][i] \in Nat
           /\ done[p][i] <= started[p][i] /\ started[p][i] <= called[p][i]
           /\ Enqueued(p, i) \in Nat /\ Chunks[i] \in Nat \ {0}
           /\ called[p][i] \div Chunks[i] \in Nat /\ JobOf[p] \in Job
<1>1. TrainingTypeOK
  BY DEF DrrInv, TrainingInv
<1>2. it[p] \in Nat /\ called[p][i] \in Nat /\ Chunks[i] \in Nat \ {0}
  BY <1>1, TypeFacts
<1>3. Enqueued(p, i) \in Nat /\ called[p][i] \div Chunks[i] \in Nat /\ JobOf[p] \in Job
  BY <1>2 DEF Enqueued, Job
<1>4. done[p][i] <= started[p][i] /\ started[p][i] <= called[p][i]
  BY DEF DrrInv, TrainingInv, CountsInOrder
<1> QED
  BY <1>1, <1>2, <1>3, <1>4, TypeFacts

\* A larger dividend has no smaller quotient, and only an equal one if the larger
\* is a multiple.
LEMMA DivMonotone ==
    ASSUME NEW m \in Nat, NEW n \in Nat, m <= n, NEW c \in Nat \ {0}
    PROVE  /\ m \div c <= n \div c
           /\ n % c = 0 /\ n \div c <= m \div c => m = n
OBVIOUS

\* A worker whose enqueues of a tensor are over is in no queue for it, and has no
\* allreduce of it left.
LEMMA DrrNotQueued ==
    ASSUME DrrInv, NEW p \in Proc, NEW i \in Layer, NWorkers(p) > 1,
           Enqueued(p, i) <= done[p][i] \div Chunks[i]
    PROVE  ~InQueue(p, i) /\ ~IsReady(JobOf[p], i) /\ called[p][i] = done[p][i]
<1> DEFINE c == called[p][i] \div Chunks[i]
           d == done[p][i] \div Chunks[i]
<1>1. /\ Enqueued(p, i) = c + One(InQueue(p, i)) + One(IsReady(JobOf[p], i))
      /\ ~IsReady(JobOf[p], i) => called[p][i] % Chunks[i] = 0
  BY DEF DrrInv, ChunksAccounted
<1>2. /\ called[p][i] \in Nat /\ done[p][i] \in Nat /\ done[p][i] <= called[p][i]
      /\ Chunks[i] \in Nat \ {0}
  BY DrrTypes
<1>3. d <= c /\ (called[p][i] % Chunks[i] = 0 /\ c <= d => done[p][i] = called[p][i])
  BY <1>2, DivMonotone
<1>4. c \in Nat /\ d \in Nat
  BY <1>2
<1> HIDE DEF c, d
<1>5. Enqueued(p, i) <= d
  BY DEF d
<1>6. One(InQueue(p, i)) = 0 /\ One(IsReady(JobOf[p], i)) = 0 /\ c = d
  BY <1>1, <1>3, <1>4, <1>5 DEF One
<1> QED
  BY <1>1, <1>3, <1>4, <1>6 DEF One

\* A step that enqueues and calls nothing, and leaves the same tensors waiting.
LEMMA DrrSameWait ==
    ASSUME DrrInv, QuietMove, queue' = queue, D!IndexesAgree', BatchExclusive',
           ready_pqueues' \in Deque, jid_to_deque_idx' \in [Job -> Nat],
           quantums' \in [Job -> Nat], idx' \in Nat \ {0},
           \A n \in DOMAIN ready_pqueues' :
               WholeEntries(ready_pqueues'[n].pq, ready_pqueues'[n].job),
           \A j, i : i \in Layer => (IsReady(j, i)' <=> IsReady(j, i)),
           batch' = batch \/ \A p \in Proc, i \in Layer : called[p][i] = done[p][i]
    PROVE  DrrInv'
<1>1. TrainingInv' /\ called' = called /\ \A q \in Proc, i \in Layer : QuietOn(q, i)
  BY QuietSteps DEF DrrInv
<1>2. \A p \in Proc, i \in Layer : InQueue(p, i)' <=> InQueue(p, i)
  BY DEF InQueue
<1>3. queue' \in [Key -> Seq(Proc)] /\ OneEntryEach'
  BY DEF DrrInv, OneEntryEach
<1>4. ChunksAccounted'
  <2> SUFFICES ASSUME NEW p \in Proc, NEW i \in Layer, NWorkers(p) > 1
               PROVE  /\ Enqueued(p, i)' = (called'[p][i] \div Chunks[i])
                            + One(InQueue(p, i)') + One(IsReady(JobOf[p], i)')
                      /\ ~IsReady(JobOf[p], i)' => called'[p][i] % Chunks[i] = 0
    BY DEF ChunksAccounted, One
  <2>1. /\ Enqueued(p, i) = (called[p][i] \div Chunks[i]) + One(InQueue(p, i))
                                                         + One(IsReady(JobOf[p], i))
        /\ ~IsReady(JobOf[p], i) => called[p][i] % Chunks[i] = 0
    BY DEF DrrInv, ChunksAccounted
  <2>2. Enqueued(p, i)' = Enqueued(p, i)
    BY <1>1 DEF QuietOn
  <2> QED
    BY <1>1, <1>2, <2>1, <2>2 DEF One
<1>5. CalledTogether' /\ AloneCallsNothing'
  BY <1>1 DEF DrrInv, CalledTogether, AloneCallsNothing
<1>6. CallsAwaited'
  <2> SUFFICES ASSUME NEW p \in Proc, NEW i \in Layer
               PROVE  /\ called[p][i] > done'[p][i] => <<p, i, called[p][i]>> \in batch'
                      /\ called[p][i] <= done'[p][i] + 1
    BY <1>1 DEF CallsAwaited
  <2>1. done'[p][i] \in Nat /\ done'[p][i] >= done[p][i]
    BY <1>1 DEF QuietOn, TrainingInv, TrainingTypeOK
  <2>2. /\ called[p][i] > done[p][i] => <<p, i, called[p][i]>> \in batch
        /\ called[p][i] <= done[p][i] + 1
    BY DEF DrrInv, CallsAwaited
  <2>3. called[p][i] \in Nat /\ done[p][i] \in Nat
    BY DrrTypes
  <2> QED
    BY <2>1, <2>2, <2>3
<1>7. ASSUME NEW q \in Proc, NEW i \in Layer, Passed(q, i)'
      PROVE  ~InQueue(q, i) /\ ~IsReady(JobOf[q], i)
  <2>1. CASE Passed(q, i)
    BY <2>1 DEF DrrInv, PassedIsNotQueued, PassedIsNotReady
  <2>2. CASE ~Passed(q, i)
    <3>1. pc[q] = "drain" /\ fp_lock[q][i] > 0
      BY <1>1, <1>7, <2>2 DEF QuietOn
    <3>2. CASE NWorkers(q) > 1
      BY <3>1, <3>2, DrainMeansEnded, DrrNotQueued DEF DrrInv
    <3>3. CASE ~(NWorkers(q) > 1)
      <4>1. ~InQueue(q, i)
        BY <3>3, KeyIsKey DEF DrrInv, OneEntryEach, InQueue
      <4>2. ~IsReady(JobOf[q], i)
        BY <3>3 DEF DrrInv, IsReady, WholeEntries, NWorkers
      <4> QED
        BY <4>1, <4>2
    <3> QED
      BY <3>2, <3>3
  <2> QED
    BY <2>1, <2>2
<1>8. PassedIsNotQueued' /\ PassedIsNotReady'
  BY <1>2, <1>7 DEF PassedIsNotQueued, PassedIsNotReady
<1> QED
  BY <1>1, <1>3, <1>4, <1>5, <1>6, <1>8 DEF DrrInv

\* The deque is as it was.
LEMMA DrrSameDeque ==
    ASSUME DrrInv, QuietMove, UNCHANGED <<queue, ready_pqueues, jid_to_deque_idx, quantums, idx>>,
           BatchExclusive',
           batch' = batch \/ \A p \in Proc, i \in Layer : called[p][i] = done[p][i]
    PROVE  DrrInv'
<1>1. \A j, i : IsReady(j, i)' <=> IsReady(j, i)
  BY DEF IsReady
<1>2. D!IndexesAgree'
  BY DEF DrrInv, D!IndexesAgree, D!Known
<1>3. /\ ready_pqueues' \in Deque /\ jid_to_deque_idx' \in [Job -> Nat]
      /\ quantums' \in [Job -> Nat] /\ idx' \in Nat \ {0}
      /\ \A n \in DOMAIN ready_pqueues' :
            WholeEntries(ready_pqueues'[n].pq, ready_pqueues'[n].job)
  BY DEF DrrInv
<1> QED
  BY <1>1, <1>2, <1>3, DrrSameWait

\* A step of the loops or of a round leaves the scheduler alone.
LEMMA DrrQuiet ==
    ASSUME DrrInv, QuietMove, UNCHANGED D!schedulerVars
    PROVE  DrrInv'
<1>1. /\ UNCHANGED <<queue, ready_pqueues, jid_to_deque_idx, quantums, idx>>
      /\ batch' = batch /\ loop' = loop
  BY DEF D!schedulerVars
<1>2. BatchExclusive'
  BY <1>1 DEF DrrInv, BatchExclusive
<1> QED
  BY <1>1, <1>2, DrrSameDeque

\* The end of the loop is a step of the scheduler alone.
LEMMA DrrLeaveLoop ==
    ASSUME DrrInv, D!LeaveLoop
    PROVE  DrrInv'
<1>1. /\ UNCHANGED <<queue, ready_pqueues, jid_to_deque_idx, quantums, idx>>
      /\ UNCHANGED trainingVars /\ batch' = batch /\ loop = "leaving"
  BY DEF D!LeaveLoop, D!trainingVars, trainingVars
<1>2. BatchExclusive' /\ QuietMove
  BY <1>1 DEF DrrInv, BatchExclusive, QuietMove
<1> QED
  BY <1>1, <1>2, DrrSameDeque
-----------------------------------------------------------------------------
(* The jobs of a turn.                                                      *)

LEMMA DrrAccommodate ==
    \A V, W : D!Accommodate(V, W) <=> Accommodate(V, W)
<1>1. \A V : D!Uplinks(V) = Uplinks(V)
  BY DrrHelpers DEF D!Uplinks, Uplinks
<1> QED
  BY <1>1 DEF D!Accommodate, Accommodate

\* The job of an index whose queue is not empty.
JobsFilled == {ready_pqueues[n].job : n \in {m \in DOMAIN ready_pqueues : ready_pqueues[m].pq # {}}}

LEMMA DequeFacts ==
    ASSUME DrrInv, NEW n \in DOMAIN ready_pqueues
    PROVE  /\ DOMAIN ready_pqueues = 1 .. Len(ready_pqueues) /\ Len(ready_pqueues) \in Nat
           /\ ready_pqueues[n].job \in Job
           /\ ready_pqueues[n].pq \subseteq [tensor : Layer, workers : Seq(Proc)]
           /\ WholeEntries(ready_pqueues[n].pq, ready_pqueues[n].job)
           /\ ready_pqueues[n] = [job |-> ready_pqueues[n].job, pq |-> ready_pqueues[n].pq]
<1>1. ready_pqueues \in Deque
  BY DEF DrrInv
<1>2. DOMAIN ready_pqueues = 1 .. Len(ready_pqueues) /\ Len(ready_pqueues) \in Nat
  BY <1>1 DEF Deque
<1>3. ready_pqueues[n] \in Group
  BY <1>1, <1>2 DEF Deque
<1> QED
  BY <1>2, <1>3 DEF DrrInv, Group

\* One more job joins those involved, or none can.
LEMMA JoinedExclusive ==
    ASSUME DrrInv, NEW n \in Nat \ {0}, NEW J, J \subseteq JobsFilled, PairwiseExclusive(J)
    PROVE  D!Joined(n, J) \subseteq JobsFilled /\ PairwiseExclusive(D!Joined(n, J))
<1> DEFINE quantum(m) == quantums[ready_pqueues[m].job]
           A == D!Addable(n, J)
           least == {m \in A : \A l \in A :
                       quantum(m) < quantum(l) \/ (quantum(m) = quantum(l) /\ m <= l)}
<1>1. D!Joined(n, J) = J \union {ready_pqueues[m].job : m \in least}
  BY DEF D!Joined
<1>2. JobsFilled \subseteq Job
  BY DequeFacts DEF JobsFilled
<1>3. ASSUME NEW m \in A
      PROVE  /\ m \in DOMAIN ready_pqueues /\ m \in Nat /\ ready_pqueues[m].pq # {}
             /\ ready_pqueues[m].job \in JobsFilled /\ quantum(m) \in Nat
             /\ Accommodate(Wids(J), WidsAllocated(ready_pqueues[m].job))
  <2>1. DOMAIN ready_pqueues = 1 .. Len(ready_pqueues) /\ Len(ready_pqueues) \in Nat
    BY DEF DrrInv, Deque
  <2>2. m \in DOMAIN ready_pqueues /\ m \in Nat /\ ready_pqueues[m].pq # {}
    BY <2>1 DEF D!Addable, D!Filled
  <2>3. quantum(m) \in Nat
    BY <2>2, DequeFacts DEF DrrInv
  <2>4. D!Accommodate(D!Wids(J), D!WidsAllocated(ready_pqueues[m].job))
    BY DEF D!Addable
  <2>5. D!Wids(J) = Wids(J)
    BY DrrHelpers DEF D!Wids, Wids
  <2> QED
    BY <2>2, <2>3, <2>4, <2>5, DrrAccommodate, DrrHelpers DEF JobsFilled
<1>4. ASSUME NEW m \in least, NEW l \in least PROVE m = l
  <2>1. /\ quantum(m) \in Nat /\ quantum(l) \in Nat /\ m \in Nat /\ l \in Nat
    BY <1>3
  <2>2. /\ quantum(m) < quantum(l) \/ (quantum(m) = quantum(l) /\ m <= l)
        /\ quantum(l) < quantum(m) \/ (quantum(l) = quantum(m) /\ l <= m)
    OBVIOUS
  <2> HIDE DEF quantum, least
  <2> QED
    BY <2>1, <2>2
<1>5. least \subseteq A
  OBVIOUS
<1> HIDE DEF quantum, least, A
<1>6. CASE least = {}
  BY <1>1, <1>6
<1>7. CASE least # {}
  <2>1. PICK m \in least : TRUE
    BY <1>7
  <2>2. D!Joined(n, J) = J \union {ready_pqueues[m].job}
    BY <1>1, <1>4, <2>1
  <2> QED
    BY <1>2, <1>3, <1>5, <2>1, <2>2, AccommodateAdds
<1> QED
  BY <1>6, <1>7

\* The jobs involved after k more have been looked for, from those before.
Involving(after, n, k) == IF k = 0 THEN {ready_pqueues[n].job} ELSE D!Joined(n, after[k - 1])

Involves(after, n, m) == after = [k \in 0 .. m |-> Involving(after, n, k)]

\* The recursive function of Involved exists.
LEMMA InvolvesExists ==
    ASSUME NEW n, NEW z \in Nat
    PROVE  \E a : Involves(a, n, z)
<1> DEFINE T == {m \in Nat : ~ \E a : Involves(a, n, m)}
<1> SUFFICES ASSUME T # {} PROVE FALSE
  OBVIOUS
<1>1. PICK m \in T : \A i \in T : m <= i
  <2>1. T \in SUBSET Nat
    OBVIOUS
  <2> HIDE DEF T
  <2> QED
    BY <2>1, LeastNumber
<1>2. CASE m = 0
  <2>1. 0 .. 0 = {0}
    OBVIOUS
  <2> DEFINE a == [i \in {0} |-> {ready_pqueues[n].job}]
  <2>2. Involves(a, n, 0)
    BY <2>1 DEF Involves, Involving
  <2> QED
    BY <1>1, <1>2, <2>2
<1>3. CASE m # 0
  <2>1. m - 1 \in Nat /\ m - 1 \notin T /\ m = (m - 1) + 1
    BY <1>1, <1>3
  <2>2. PICK b : Involves(b, n, m - 1)
    BY <2>1
  <2> DEFINE a == [i \in 0 .. m |-> Involving(b, n, i)]
  <2>3. ASSUME NEW i \in 0 .. m - 1 PROVE a[i] = b[i]
    BY <2>1, <2>2 DEF Involves
  <2>4. ASSUME NEW i \in 0 .. m PROVE Involving(b, n, i) = Involving(a, n, i)
    <3> HIDE DEF a
    <3>1. i = 0 \/ i - 1 \in 0 .. m - 1
      BY <2>1
    <3> QED
      BY <2>3, <3>1 DEF Involving
  <2>5. Involves(a, n, m)
    <3> DEFINE X(i) == Involving(b, n, i)
               Y(i) == Involving(a, n, i)
    <3>1. a = [i \in 0 .. m |-> X(i)]
      OBVIOUS
    <3>2. \A i \in 0 .. m : X(i) = Y(i)
      BY <2>4
    <3> HIDE DEF X, Y
    <3>3. [i \in 0 .. m |-> X(i)] = [i \in 0 .. m |-> Y(i)]
      BY <3>2
    <3>4. a = [i \in 0 .. m |-> Y(i)]
      BY <3>1, <3>3
    <3> QED
      BY <3>4 DEF Y, Involves
  <2> QED
    BY <1>1, <2>5
<1> QED
  BY <1>2, <1>3

\* The jobs involved in a turn can use the network together, and each has a
\* tensor to run.
LEMMA InvolvedExclusive ==
    ASSUME DrrInv, NEW n \in DOMAIN ready_pqueues, ready_pqueues[n].pq # {}
    PROVE  D!Involved(n) \subseteq JobsFilled /\ PairwiseExclusive(D!Involved(n))
<1> DEFINE z == Len(ready_pqueues)
           a == CHOOSE x : Involves(x, n, z)
           Good(J) == J \subseteq JobsFilled /\ PairwiseExclusive(J)
           T == {k \in 0 .. z : ~Good(a[k])}
<1>1. z \in Nat /\ n \in Nat \ {0}
  BY DequeFacts
<1>2. Involves(a, n, z)
  BY <1>1, InvolvesExists
<1>3. D!Involved(n) = a[z]
  BY DEF D!Involved, Involves, Involving
<1> HIDE DEF z, a
<1> SUFFICES ASSUME T # {} PROVE FALSE
  BY <1>1, <1>3
<1>4. PICK k \in T : \A i \in T : k <= i
  <2>1. T \in SUBSET Nat
    BY <1>1
  <2> HIDE DEF T
  <2> QED
    BY <2>1, LeastNumber
<1>5. k \in 0 .. z /\ ~Good(a[k]) /\ a[k] = Involving(a, n, k)
  BY <1>2, <1>4 DEF Involves
<1>6. CASE k = 0
  <2>1. a[k] = {ready_pqueues[n].job}
    BY <1>5, <1>6 DEF Involving
  <2>2. Good({ready_pqueues[n].job})
    BY DEF JobsFilled, PairwiseExclusive
  <2> HIDE DEF Good
  <2> QED
    BY <1>5, <2>1, <2>2
<1>7. CASE k # 0
  <2>1. k - 1 \in 0 .. z /\ ~(k <= k - 1)
    BY <1>1, <1>5, <1>7
  <2>2. Good(a[k - 1])
    BY <1>4, <2>1
  <2>3. Good(D!Joined(n, a[k - 1]))
    BY <1>1, <2>2, JoinedExclusive
  <2>4. a[k] = D!Joined(n, a[k - 1])
    BY <1>5, <1>7 DEF Involving
  <2> HIDE DEF Good
  <2> QED
    BY <1>5, <2>3, <2>4
<1> QED
  BY <1>6, <1>7

-----------------------------------------------------------------------------
(* The priority queues.                                                     *)

\* A queue that is not empty has a tensor on top.
LEMMA TopExists ==
    ASSUME DrrInv, NEW n \in DOMAIN ready_pqueues, ready_pqueues[n].pq # {}
    PROVE  D!Top(ready_pqueues[n].pq) \in ready_pqueues[n].pq
<1> DEFINE pq == ready_pqueues[n].pq
           Iters == {D!IterOf(e) : e \in pq}
<1>1. ASSUME NEW e \in pq PROVE D!IterOf(e) \in Nat /\ e.tensor \in Nat
  <2>1. e \in [tensor : Layer, workers : Seq(Proc)] /\ Len(e.workers) > 1
    BY DequeFacts DEF WholeEntries
  <2>2. e.workers[1] \in Proc /\ e.tensor \in Layer
    BY <2>1
  <2>3. done[e.workers[1]][e.tensor] \in Nat /\ Chunks[e.tensor] \in Nat \ {0}
    BY <2>2, DrrTypes
  <2> QED
    BY <2>2, <2>3, LayerNat DEF D!IterOf
<1> HIDE DEF pq
<1>2. PICK m \in Iters : \A k \in Iters : m <= k
  <2>1. Iters \in SUBSET Nat /\ Iters # {}
    BY <1>1 DEF pq
  <2> HIDE DEF Iters
  <2> QED
    BY <2>1, LeastNumber
<1> DEFINE Firsts == {e \in pq : D!IterOf(e) = m}
           Tensors == {e.tensor : e \in Firsts}
<1>3. PICK t \in Tensors : \A k \in Tensors : t <= k
  <2>1. Tensors \in SUBSET Nat /\ Tensors # {}
    BY <1>1, <1>2
  <2> HIDE DEF Tensors
  <2> QED
    BY <2>1, LeastNumber
<1>4. PICK e \in Firsts : e.tensor = t
  BY <1>3
<1>5. ASSUME NEW f \in pq
      PROVE  \/ D!IterOf(e) < D!IterOf(f)
             \/ D!IterOf(e) = D!IterOf(f) /\ e.tensor <= f.tensor
  <2>1. D!IterOf(e) = m /\ D!IterOf(f) \in Nat /\ m \in Nat /\ m <= D!IterOf(f)
    BY <1>1, <1>2, <1>4
  <2>2. D!IterOf(f) = m => t <= f.tensor
    BY <1>3
  <2> QED
    BY <1>4, <2>1, <2>2
<1>6. D!Top(pq) \in pq
  BY <1>4, <1>5 DEF D!Top
<1> QED
  BY <1>6 DEF pq

\* The job of a queue that is not empty has its tensor on top, full.
LEMMA TopOfFacts ==
    ASSUME DrrInv, NEW j \in JobsFilled
    PROVE  /\ D!TopOf(j) \in [tensor : Layer, workers : Seq(Proc)]
           /\ \E n \in DOMAIN ready_pqueues :
                ready_pqueues[n].job = j /\ D!TopOf(j) \in ready_pqueues[n].pq
           /\ EachOnce(D!TopOf(j).workers, j)
           /\ Len(D!TopOf(j).workers) = Cardinality(Workers(j)) /\ Cardinality(Workers(j)) > 1
<1>1. PICK n \in DOMAIN ready_pqueues : ready_pqueues[n].job = j /\ ready_pqueues[n].pq # {}
  BY DEF JobsFilled
<1>2. jid_to_deque_idx[j] = n
  BY <1>1 DEF DrrInv, D!IndexesAgree
<1>3. D!TopOf(j) \in ready_pqueues[n].pq
  BY <1>1, <1>2, TopExists DEF D!TopOf
<1> QED
  BY <1>1, <1>3, DequeFacts DEF WholeEntries

-----------------------------------------------------------------------------
(* An enqueue.                                                              *)

\* An entry that joins the queue of its job is the only one of its tensor there.
LEMMA PqGrows ==
    ASSUME NEW pq \in SUBSET [tensor : Layer, workers : Seq(Proc)], NEW j, WholeEntries(pq, j),
           NEW e \in [tensor : Layer, workers : Seq(Proc)], EachOnce(e.workers, j),
           Len(e.workers) = Cardinality(Workers(j)), Cardinality(Workers(j)) > 1,
           \A f \in pq : f.tensor # e.tensor
    PROVE  /\ pq \union {e} \in SUBSET [tensor : Layer, workers : Seq(Proc)]
           /\ WholeEntries(pq \union {e}, j)
BY DEF WholeEntries

\* A full tensor joins the queue of its job, which may be a new one.
LEMMA DrrPush ==
    ASSUME DrrInv, NEW j \in Job, NEW e \in [tensor : Layer, workers : Seq(Proc)],
           EachOnce(e.workers, j), Len(e.workers) = Cardinality(Workers(j)),
           Cardinality(Workers(j)) > 1, ~IsReady(j, e.tensor), D!Push(j, e)
    PROVE  /\ ready_pqueues' \in Deque /\ jid_to_deque_idx' \in [Job -> Nat]
           /\ \A n \in DOMAIN ready_pqueues' :
                WholeEntries(ready_pqueues'[n].pq, ready_pqueues'[n].job)
           /\ D!IndexesAgree'
           /\ \A k, i : IsReady(k, i)' <=> IsReady(k, i) \/ (k = j /\ i = e.tensor)
<1> DEFINE rq == ready_pqueues
           z == Len(rq)
<1>1. /\ rq \in Seq(Group) /\ z \in Nat /\ DOMAIN rq = 1 .. z
      /\ jid_to_deque_idx \in [Job -> Nat]
      /\ \A n \in 1 .. z : rq[n] \in Group /\ WholeEntries(rq[n].pq, rq[n].job)
  BY DEF DrrInv, Deque
<1>2. /\ \A n \in 1 .. z : jid_to_deque_idx[rq[n].job] = n
      /\ \A k \in Job : jid_to_deque_idx[k] # 0 =>
            jid_to_deque_idx[k] \in 1 .. z /\ rq[jid_to_deque_idx[k]].job = k
  BY <1>1, DrrHelpers DEF DrrInv, D!IndexesAgree, D!Known
<1>3. CASE D!Known(j)
  <2> DEFINE m == jid_to_deque_idx[j]
             g == [job |-> j, pq |-> rq[m].pq \union {e}]
  <2>1. /\ m \in 1 .. z /\ rq[m].job = j
        /\ rq' = [rq EXCEPT ![m] = g] /\ jid_to_deque_idx' = jid_to_deque_idx
    BY <1>2, <1>3 DEF D!Push, D!Known
  <2>2. rq[m].pq \in SUBSET [tensor : Layer, workers : Seq(Proc)] /\ WholeEntries(rq[m].pq, j)
    BY <1>1, <2>1 DEF Group
  <2>3. \A f \in rq[m].pq : f.tensor # e.tensor
    BY <1>1, <2>1 DEF IsReady
  <2>4. g \in Group /\ g.job = j /\ WholeEntries(g.pq, j) /\ g.pq = rq[m].pq \union {e}
    BY <2>2, <2>3, PqGrows DEF Group
  <2> HIDE DEF m, g
  <2>5. rq' \in Seq(Group) /\ DOMAIN rq' = 1 .. z /\ rq'[m] = g
        /\ \A n \in 1 .. z : n # m => rq'[n] = rq[n]
    BY <1>1, <2>1, <2>4
  <2>6. \A n \in 1 .. z : rq'[n].job = rq[n].job
    BY <2>1, <2>4, <2>5
  <2> HIDE DEF rq, z
  <2>7. \A n \in DOMAIN rq' : WholeEntries(rq'[n].pq, rq'[n].job)
    BY <1>1, <2>1, <2>4, <2>5
  <2>8. D!IndexesAgree'
    BY <1>2, <2>1, <2>5, <2>6, DrrHelpers DEF D!IndexesAgree, D!Known, rq
  <2>9. ASSUME NEW k, NEW i
        PROVE  IsReady(k, i)' <=> IsReady(k, i) \/ (k = j /\ i = e.tensor)
    BY <1>1, <2>1, <2>4, <2>5, <2>6 DEF IsReady, rq
  <2> QED
    BY <1>1, <2>1, <2>5, <2>7, <2>8, <2>9 DEF Deque, rq
<1>4. CASE ~D!Known(j)
  <2> DEFINE g == [job |-> j, pq |-> {e}]
  <2>1. /\ rq' = Append(rq, g)
        /\ jid_to_deque_idx' = [jid_to_deque_idx EXCEPT ![j] = z + 1]
        /\ jid_to_deque_idx[j] = 0
    BY <1>4 DEF D!Push, D!Known
  <2>2. g \in Group /\ g.job = j /\ WholeEntries(g.pq, j) /\ g.pq = {e}
    BY DEF Group, WholeEntries
  <2> HIDE DEF g
  <2>3. /\ rq' \in Seq(Group) /\ DOMAIN rq' = 1 .. z + 1 /\ rq'[z + 1] = g
        /\ \A n \in 1 .. z : rq'[n] = rq[n]
    BY <1>1, <2>1, <2>2
  <2>4. \A n \in 1 .. z : rq[n].job # j /\ rq[n].job \in Job
    BY <1>1, <1>2, <2>1 DEF Group
  <2>5. /\ jid_to_deque_idx' \in [Job -> Nat] /\ jid_to_deque_idx'[j] = z + 1
        /\ \A k \in Job : k # j => jid_to_deque_idx'[k] = jid_to_deque_idx[k]
    BY <1>1, <2>1
  <2>6. \A n \in 1 .. z + 1 : n = z + 1 \/ n \in 1 .. z
    BY <1>1
  <2>7. 1 .. z \subseteq 1 .. z + 1 /\ z + 1 \in 1 .. z + 1
    BY <1>1
  <2> HIDE DEF rq, z
  <2>8. \A n \in DOMAIN rq' : WholeEntries(rq'[n].pq, rq'[n].job)
    BY <1>1, <2>2, <2>3, <2>6
  <2>9. \A n \in DOMAIN rq' : jid_to_deque_idx'[rq'[n].job] = n
    BY <1>2, <2>2, <2>3, <2>4, <2>5, <2>6
  <2>10. \A k \in Job : jid_to_deque_idx'[k] # 0 =>
            jid_to_deque_idx'[k] \in DOMAIN rq' /\ rq'[jid_to_deque_idx'[k]].job = k
    BY <1>2, <2>2, <2>3, <2>5, <2>7
  <2>11. D!IndexesAgree'
    BY <2>9, <2>10, DrrHelpers DEF D!IndexesAgree, D!Known, rq
  <2>12. ASSUME NEW k, NEW i
         PROVE  IsReady(k, i)' <=> IsReady(k, i) \/ (k = j /\ i = e.tensor)
    BY <1>1, <2>2, <2>3, <2>6, <2>7 DEF IsReady, rq
  <2> QED
    BY <2>3, <2>5, <2>8, <2>11, <2>12 DEF Deque, rq
<1> QED
  BY <1>3, <1>4

\* The last worker of a job enqueues the tensor of others that are queued: all of
\* them leave the queue, and the tensor is ready.
LEMMA DrrBackward ==
    ASSUME DrrInv, NEW p \in Proc, D!Backward(p)
    PROVE  DrrInv'
<1>1. PICK l \in Layer, k \in Key, q \in Seq(Proc) :
        l = layer[p] /\ k = KeyOf(p, l) /\ q = queue[k]
  <2>1. layer[p] \in Layer
    BY AdvanceEnqueues, DrrLoopSteps DEF D!Backward, DrrInv
  <2>2. KeyOf(p, layer[p]) \in Key
    BY <2>1, KeyIsKey
  <2>3. queue[KeyOf(p, layer[p])] \in Seq(Proc)
    BY <2>2 DEF DrrInv
  <2> QED
    BY <2>1, <2>2, <2>3
<1> DEFINE a == Append(q, p)
           j == JobOf[p]
           full == Len(a) = NWorkers(p)
           e == [tensor |-> l, workers |-> a]
<1>2. /\ NWorkers(p) > 1 /\ Advance(p)
      /\ k = <<j, l>> /\ j \in Job
      /\ fp_lock' = fp_lock /\ called' = called /\ started' = started /\ done' = done
      /\ batch' = batch
  BY <1>1, DrrHelpers, DrrLoopSteps DEF D!Backward, KeyOf, Job
<1>3. /\ full => /\ queue' = [queue EXCEPT ![k] = <<>>]
                 /\ D!Push(j, e)
                 /\ IF loop = "off"
                    THEN loop' = "start" /\ idx' = 1 /\ quantums' = D!NoQuantums
                    ELSE UNCHANGED <<loop, idx, quantums>>
      /\ ~full => /\ queue' = [queue EXCEPT ![k] = a]
                  /\ UNCHANGED <<ready_pqueues, jid_to_deque_idx, loop, idx, quantums>>
  <2>1. D!KeyOf(p, layer[p]) = k /\ queue[k] = q /\ k[1] = j /\ k[2] = l
    <3>1. D!KeyOf(p, layer[p]) = k /\ queue[k] = q
      BY <1>1, DrrHelpers
    <3>2. k[1] = j /\ k[2] = l
      BY <1>2
    <3> QED
      BY <3>1, <3>2
  <2>2. D!Full(a, p) <=> full
    BY DrrHelpers DEF D!Full
  <2>3. D!Entry(k[2], a) = e
    BY <2>1 DEF D!Entry
  <2> HIDE DEF full, e
  <2>4. IF D!Full(a, p)
        THEN /\ queue' = [queue EXCEPT ![k] = <<>>]
             /\ D!Push(k[1], D!Entry(k[2], a))
             /\ IF loop = "off"
                THEN loop' = "start" /\ idx' = 1 /\ quantums' = D!NoQuantums
                ELSE UNCHANGED <<loop, idx, quantums>>
        ELSE /\ queue' = [queue EXCEPT ![k] = a]
             /\ UNCHANGED <<ready_pqueues, jid_to_deque_idx, loop, idx, quantums>>
    BY <2>1 DEF D!Backward
  <2> HIDE DEF a, j
  <2> QED
    BY <2>1, <2>2, <2>3, <2>4
<1>4. TrainingInv'
  BY <1>2, AdvanceInv DEF DrrInv
<1>5. /\ \A i \in Layer : Enqueued(p, i)' = Enqueued(p, i) + One(i = l) /\ ~Passed(p, i)'
      /\ \A r \in Proc, i \in Layer : r # p =>
            Enqueued(r, i)' = Enqueued(r, i) /\ (Passed(r, i)' <=> Passed(r, i))
  BY <1>1, <1>2, AdvanceEnqueues DEF DrrInv, One
<1>6. ~InQueue(p, l) /\ ~IsReady(j, l) /\ called[p][l] = done[p][l]
  <2>1. Enqueued(p, l) + 1 <= Forwards(p, l)
    <3>1. Forwards(p, l) = Enqueued(p, l) + 1 /\ Enqueued(p, l) \in Nat
      BY <1>1, <1>2, AdvanceEnqueues DEF DrrInv
    <3> QED
      BY <3>1
  <2>2. Enqueued(p, l) <= done[p][l] \div Chunks[l]
    BY <1>2, <2>1, LockMeansEnded DEF DrrInv
  <2> QED
    BY <1>2, <2>2, DrrNotQueued
<1>7. EachOnce(q, j) /\ \A n \in DOMAIN q : q[n] # p /\ NWorkers(q[n]) > 1
  <2>1. k[1] = j /\ queue[k] = q /\ OneEntryEach
    BY <1>1, <1>2 DEF DrrInv
  <2>2. \A n \in DOMAIN q : q[n] # p
    BY <1>1, <1>6 DEF InQueue
  <2> QED
    BY <2>1, <2>2 DEF OneEntryEach
<1>8. /\ a \in Seq(Proc) /\ EachOnce(a, j)
      /\ \A r \in Proc : (\E n \in DOMAIN a : a[n] = r) <=> (r = p \/ \E n \in DOMAIN q : q[n] = r)
  BY <1>7, AppendOnce
<1>9. e \in [tensor : Layer, workers : Seq(Proc)] /\ e.tensor = l /\ e.workers = a
  <2> HIDE DEF a
  <2> QED
    BY <1>8
<1> HIDE DEF a, e
<1>10. /\ ready_pqueues' \in Deque /\ jid_to_deque_idx' \in [Job -> Nat]
       /\ \A n \in DOMAIN ready_pqueues' :
            WholeEntries(ready_pqueues'[n].pq, ready_pqueues'[n].job)
       /\ D!IndexesAgree'
       /\ \A b, i : IsReady(b, i)' <=> IsReady(b, i) \/ (full /\ b = j /\ i = l)
  <2>1. CASE full
    <3>1. Len(a) = Cardinality(Workers(j)) /\ Cardinality(Workers(j)) > 1
      BY <1>2, <2>1 DEF NWorkers
    <3> HIDE DEF full, j
    <3> QED
      BY <1>2, <1>3, <1>6, <1>8, <1>9, <2>1, <3>1, DrrPush
  <2>2. CASE ~full
    <3> HIDE DEF full, j
    <3>1. ready_pqueues' = ready_pqueues /\ jid_to_deque_idx' = jid_to_deque_idx
      BY <1>3, <2>2
    <3>2. \A b, i : IsReady(b, i)' <=> IsReady(b, i)
      BY <3>1 DEF IsReady
    <3>3. D!IndexesAgree'
      BY <3>1 DEF DrrInv, D!IndexesAgree, D!Known
    <3> QED
      BY <2>2, <3>1, <3>2, <3>3 DEF DrrInv
  <2> QED
    BY <2>1, <2>2
<1>11. /\ quantums' \in [Job -> Nat] /\ idx' \in Nat \ {0} /\ BatchExclusive'
  <2>1. CASE full
    <3> HIDE DEF full
    <3>1. quantums' \in [Job -> Nat] /\ idx' \in Nat \ {0}
      BY <1>3, <2>1, DrrHelpers DEF D!NoQuantums, DrrInv
    <3>2. BatchExclusive'
      BY <1>2, <1>3, <2>1 DEF DrrInv, BatchExclusive
    <3> QED
      BY <3>1, <3>2
  <2>2. CASE ~full
    <3> HIDE DEF full
    <3> QED
      BY <1>2, <1>3, <2>2 DEF DrrInv, BatchExclusive
  <2> QED
    BY <2>1, <2>2
<1>12. /\ queue' \in [Key -> Seq(Proc)]
       /\ queue'[k] = IF full THEN <<>> ELSE a
       /\ \A m \in Key : m # k => queue'[m] = queue[m]
  <2>1. queue \in [Key -> Seq(Proc)] /\ <<>> \in Seq(Proc)
    BY DEF DrrInv
  <2> HIDE DEF full
  <2>2. CASE full
    BY <1>3, <2>1, <2>2
  <2>3. CASE ~full
    BY <1>3, <1>8, <2>1, <2>3
  <2> QED
    BY <2>2, <2>3
<1>13. full => \A r \in Proc : JobOf[r] = j => r = p \/ InQueue(r, l)
  <2> SUFFICES ASSUME full, NEW r \in Proc, JobOf[r] = j PROVE r = p \/ InQueue(r, l)
    OBVIOUS
  <2>1. Len(a) = Cardinality(Workers(j)) /\ r \in Workers(j)
    BY DEF NWorkers, Workers
  <2>2. \E n \in DOMAIN a : a[n] = r
    BY <1>8, <2>1, QueueInjects
  <2>3. KeyOf(r, l) = k
    BY <1>2 DEF KeyOf
  <2> HIDE DEF j
  <2> QED
    BY <1>1, <1>8, <2>2, <2>3 DEF InQueue
<1> HIDE DEF full
<1>14. \A r \in Proc, i \in Layer : KeyOf(r, i) = k <=> JobOf[r] = j /\ i = l
  BY <1>2 DEF KeyOf
<1>15. ASSUME NEW r \in Proc, NEW i \in Layer
       PROVE  InQueue(r, i)' <=> \/ KeyOf(r, i) # k /\ InQueue(r, i)
                                 \/ KeyOf(r, i) = k /\ ~full /\ (r = p \/ InQueue(r, i))
  <2>1. CASE KeyOf(r, i) = k /\ ~full
    <3>1. InQueue(r, i)' <=> \E n \in DOMAIN a : a[n] = r
      BY <1>12, <2>1 DEF InQueue
    <3>2. InQueue(r, i) <=> \E n \in DOMAIN q : q[n] = r
      BY <1>1, <2>1 DEF InQueue
    <3> QED
      BY <1>8, <2>1, <3>1, <3>2
  <2>2. CASE KeyOf(r, i) = k /\ full
    <3>1. queue'[k] = <<>>
      BY <1>12, <2>2
    <3>2. DOMAIN queue'[k] = {}
      BY <3>1
    <3> QED
      BY <2>2, <3>2 DEF InQueue
  <2>3. CASE KeyOf(r, i) # k
    <3>1. queue'[KeyOf(r, i)] = queue[KeyOf(r, i)]
      BY <1>12, <2>3, KeyIsKey
    <3> QED
      BY <2>3, <3>1 DEF InQueue
  <2> QED
    BY <2>1, <2>2, <2>3
<1>16. OneEntryEach'
  <2> SUFFICES ASSUME NEW m \in Key
               PROVE  /\ EachOnce(queue'[m], m[1])
                      /\ \A n \in DOMAIN queue'[m] : NWorkers(queue'[m][n]) > 1
    BY DEF OneEntryEach
  <2>1. CASE m = k /\ ~full
    <3>1. \A n \in DOMAIN a : NWorkers(a[n]) > 1
      <4> SUFFICES ASSUME NEW n \in DOMAIN a PROVE NWorkers(a[n]) > 1
        OBVIOUS
      <4>1. a[n] \in Proc
        BY <1>8
      <4>2. a[n] = p \/ \E u \in DOMAIN q : q[u] = a[n]
        BY <1>8, <4>1
      <4> QED
        BY <1>2, <1>7, <4>2
    <3> QED
      BY <1>2, <1>8, <1>12, <2>1, <3>1
  <2>2. CASE m = k /\ full
    <3>1. DOMAIN queue'[m] = {}
      BY <1>12, <2>2
    <3> QED
      BY <3>1 DEF EachOnce
  <2>3. CASE m # k
    BY <1>12, <2>3 DEF DrrInv, OneEntryEach
  <2> QED
    BY <2>1, <2>2, <2>3
<1>17. ChunksAccounted'
  <2> SUFFICES ASSUME NEW r \in Proc, NEW i \in Layer, NWorkers(r) > 1
               PROVE  /\ Enqueued(r, i)' = (called'[r][i] \div Chunks[i])
                            + One(InQueue(r, i)') + One(IsReady(JobOf[r], i)')
                      /\ ~IsReady(JobOf[r], i)' => called'[r][i] % Chunks[i] = 0
    BY DEF ChunksAccounted, One
  <2> DEFINE c == called[r][i] \div Chunks[i]
  <2>1. /\ Enqueued(r, i) = c + One(InQueue(r, i)) + One(IsReady(JobOf[r], i))
        /\ ~IsReady(JobOf[r], i) => called[r][i] % Chunks[i] = 0
    BY DEF DrrInv, ChunksAccounted
  <2>2. /\ c \in Nat /\ called'[r][i] \div Chunks[i] = c
    BY <1>2, DrrTypes
  <2>3. ~IsReady(JobOf[r], i)' => called'[r][i] % Chunks[i] = 0
    BY <1>2, <1>10, <2>1
  <2>4. Enqueued(r, i)' = Enqueued(r, i) + One(r = p /\ i = l)
    <3>1. Enqueued(r, i) \in Nat
      BY DrrTypes
    <3> QED
      BY <1>5, <3>1 DEF One
  <2>5. IsReady(JobOf[r], i)' <=> IsReady(JobOf[r], i) \/ (full /\ JobOf[r] = j /\ i = l)
    BY <1>10
  <2> HIDE DEF c
  <2>6. CASE KeyOf(r, i) # k
    <3>1. ~(r = p /\ i = l) /\ ~(JobOf[r] = j /\ i = l)
      BY <1>14, <2>6
    <3> QED
      BY <1>15, <2>1, <2>2, <2>3, <2>4, <2>5, <2>6, <3>1 DEF One
  <2>7. CASE KeyOf(r, i) = k
    <3>1. JobOf[r] = j /\ i = l
      BY <1>14, <2>7
    <3>2. ~IsReady(JobOf[r], i)
      BY <1>6, <3>1
    <3>3. InQueue(r, i) => r # p
      BY <1>6, <3>1
    <3>4. full => r = p \/ InQueue(r, i)
      BY <1>13, <3>1
    <3> QED
      BY <1>15, <2>1, <2>2, <2>3, <2>4, <2>5, <2>7, <3>1, <3>2, <3>3, <3>4 DEF One
  <2> QED
    BY <2>6, <2>7
<1>18. CalledTogether' /\ AloneCallsNothing' /\ CallsAwaited'
  BY <1>2 DEF DrrInv, CalledTogether, AloneCallsNothing, CallsAwaited
<1>19. ASSUME NEW r \in Proc, NEW i \in Layer, Passed(r, i)'
       PROVE  ~InQueue(r, i)' /\ ~IsReady(JobOf[r], i)'
  <2>1. r # p /\ Passed(r, i)
    BY <1>5, <1>19
  <2>2. ~InQueue(r, i) /\ ~IsReady(JobOf[r], i)
    BY <2>1 DEF DrrInv, PassedIsNotQueued, PassedIsNotReady
  <2>3. ~(full /\ JobOf[r] = j /\ i = l)
    BY <1>13, <2>1, <2>2
  <2> QED
    BY <1>10, <1>15, <2>1, <2>2, <2>3
<1>20. PassedIsNotQueued' /\ PassedIsNotReady'
  BY <1>19 DEF PassedIsNotQueued, PassedIsNotReady
<1> QED
  BY <1>4, <1>10, <1>11, <1>12, <1>16, <1>17, <1>18, <1>20 DEF DrrInv

-----------------------------------------------------------------------------
(* A turn of the loop.                                                      *)

\* One more chunk is called: it completes a tensor or does not.
LEMMA ChunkCalled ==
    ASSUME NEW n \in Nat, NEW c \in Nat \ {0}
    PROVE  /\ n % c = c - 1 => (n + 1) \div c = (n \div c) + 1 /\ (n + 1) % c = 0
           /\ n % c # c - 1 => (n + 1) \div c = n \div c
OBVIOUS

\* When the loop goes on, everything it has called has ended.
LEMMA NothingAwaited ==
    ASSUME DrrInv, loop = "start" \/ (loop = "await" /\ D!AllDone),
           NEW p \in Proc, NEW i \in Layer
    PROVE  called[p][i] = done[p][i]
<1>1. called[p][i] > done[p][i] => done[p][i] >= called[p][i]
  <2> SUFFICES ASSUME called[p][i] > done[p][i] PROVE done[p][i] >= called[p][i]
    OBVIOUS
  <2>1. <<p, i, called[p][i]>> \in batch
    BY DEF DrrInv, CallsAwaited
  <2>2. loop # "start"
    BY <2>1 DEF DrrInv, BatchExclusive
  <2> QED
    BY <2>1, <2>2 DEF D!AllDone
<1> QED
  BY <1>1, DrrTypes

\* The tensor on top of the queue of a job has every worker of the job.
LEMMA TopWorkers ==
    ASSUME DrrInv, NEW j \in JobsFilled
    PROVE  /\ D!Range(D!TopOf(j).workers) \subseteq Proc
           /\ \A p \in Proc : p \in D!Range(D!TopOf(j).workers) <=> JobOf[p] = j
<1> DEFINE w == D!TopOf(j).workers
<1>1. w \in Seq(Proc) /\ EachOnce(w, j) /\ Len(w) = Cardinality(Workers(j))
  BY TopOfFacts
<1> HIDE DEF w
<1>2. D!Range(w) = {w[n] : n \in DOMAIN w}
  BY DEF D!Range
<1>3. \A n \in DOMAIN w : w[n] \in Proc /\ JobOf[w[n]] = j
  BY <1>1 DEF EachOnce
<1>4. ASSUME NEW p \in Proc, JobOf[p] = j PROVE \E n \in DOMAIN w : w[n] = p
  <2>1. p \in Workers(j)
    BY <1>4 DEF Workers
  <2> QED
    BY <1>1, <2>1, QueueInjects
<1>5. \A p \in Proc : p \in D!Range(w) <=> JobOf[p] = j
  BY <1>2, <1>3, <1>4
<1>6. D!Range(w) \subseteq Proc
  BY <1>2, <1>3
<1> QED
  BY <1>5, <1>6 DEF w

Tops(J) == {D!TopOf(j) : j \in J}

\* A chunk of tensor i is invoked on worker p in a turn of these jobs.
Runs(J, p, i) == JobOf[p] \in J /\ D!TopOf(JobOf[p]).tensor = i

\* One chunk is invoked, of one tensor, on each worker of these jobs.
LEMMA OneRuns ==
    ASSUME DrrInv, NEW J \in SUBSET JobsFilled, NEW p \in Proc, NEW i \in Layer
    PROVE  Cardinality({e \in Tops(J) : e.tensor = i /\ p \in D!Range(e.workers)})
              = One(Runs(J, p, i))
<1> DEFINE S == {e \in Tops(J) : e.tensor = i /\ p \in D!Range(e.workers)}
<1>1. \A j \in J : p \in D!Range(D!TopOf(j).workers) <=> JobOf[p] = j
  BY TopWorkers
<1>2. CASE Runs(J, p, i)
  <2>1. S = {D!TopOf(JobOf[p])}
    BY <1>1, <1>2 DEF Runs, Tops
  <2>2. Cardinality({D!TopOf(JobOf[p])}) = 1
    BY FS_Singleton
  <2> HIDE DEF S
  <2>3. Cardinality(S) = 1
    BY <2>1, <2>2
  <2> QED
    BY <1>2, <2>3 DEF S, One
<1>3. CASE ~Runs(J, p, i)
  <2>1. S = {}
    BY <1>1, <1>3 DEF Runs, Tops
  <2> HIDE DEF S
  <2>2. Cardinality(S) = 0
    BY <2>1, FS_EmptySet
  <2> QED
    BY <1>3, <2>2 DEF S, One
<1> QED
  BY <1>2, <1>3

\* What runs is ready.
LEMMA RunsIsReady ==
    ASSUME DrrInv, NEW J \in SUBSET JobsFilled, NEW p \in Proc, NEW i \in Layer, Runs(J, p, i)
    PROVE  IsReady(JobOf[p], i) /\ NWorkers(p) > 1
<1>1. JobOf[p] \in JobsFilled
  BY DEF Runs
<1> QED
  BY <1>1, TopOfFacts DEF Runs, IsReady, NWorkers

\* Another job's tensor is not on top of the queue of job j.
LEMMA TopsOfJob ==
    ASSUME DrrInv, NEW J \in SUBSET JobsFilled, NEW n \in DOMAIN ready_pqueues,
           NEW e \in ready_pqueues[n].pq
    PROVE  e \in Tops(J) <=> ready_pqueues[n].job \in J /\ e = D!TopOf(ready_pqueues[n].job)
<1>1. EachOnce(e.workers, ready_pqueues[n].job) /\ Len(e.workers) > 1 /\ e.workers \in Seq(Proc)
  BY DequeFacts DEF WholeEntries
<1>2. 1 \in DOMAIN e.workers
  BY <1>1
<1>3. JobOf[e.workers[1]] = ready_pqueues[n].job
  BY <1>1, <1>2 DEF EachOnce
<1>4. ASSUME NEW j \in J, e = D!TopOf(j) PROVE j = ready_pqueues[n].job
  <2>1. EachOnce(e.workers, j)
    BY <1>4, TopOfFacts
  <2> QED
    BY <1>2, <1>3, <2>1 DEF EachOnce
<1> QED
  BY <1>4 DEF Tops

\* A tensor leaves its queue with its last chunk.
LEMMA TurnQueues ==
    ASSUME DrrInv, NEW J \in SUBSET JobsFilled, D!InvokeChunks(J)
    PROVE  /\ ready_pqueues' \in Deque /\ DOMAIN ready_pqueues' = DOMAIN ready_pqueues
           /\ \A n \in DOMAIN ready_pqueues :
                /\ ready_pqueues'[n].job = ready_pqueues[n].job
                /\ WholeEntries(ready_pqueues'[n].pq, ready_pqueues[n].job)
           /\ \A j, i : IsReady(j, i)' <=>
                IsReady(j, i) /\ ~(/\ j \in J /\ D!TopOf(j).tensor = i
                                   /\ D!LastInvoked(D!TopOf(j)))
<1> DEFINE rq == ready_pqueues
           kept(n) == {e \in rq[n].pq : e \notin Tops(J) \/ ~D!LastInvoked(e)}
<1>1. ready_pqueues' = [n \in DOMAIN rq |->
        [rq[n] EXCEPT !.pq = {e \in @ : e \notin Tops(J) \/ ~D!LastInvoked(e)}]]
  BY DEF D!InvokeChunks, Tops
<1>2. ASSUME NEW n \in DOMAIN rq
      PROVE  /\ ready_pqueues'[n] = [job |-> rq[n].job, pq |-> kept(n)]
             /\ ready_pqueues'[n] \in Group
             /\ ready_pqueues'[n].job = rq[n].job /\ ready_pqueues'[n].pq = kept(n)
             /\ WholeEntries(kept(n), rq[n].job)
  <2> DEFINE g == rq[n]
             S == [tensor : Layer, workers : Seq(Proc)]
  <2>1. /\ g = [job |-> g.job, pq |-> g.pq] /\ g.job \in Job /\ g.pq \subseteq S
        /\ WholeEntries(g.pq, g.job)
    BY DequeFacts
  <2>2. ready_pqueues'[n] = [g EXCEPT !.pq = kept(n)]
    BY <1>1
  <2>3. kept(n) \subseteq g.pq
    OBVIOUS
  <2> HIDE DEF kept, g, S
  <2>4. ready_pqueues'[n] = [job |-> g.job, pq |-> kept(n)]
    BY <2>1, <2>2
  <2>5. ready_pqueues'[n] \in [job : Job, pq : SUBSET S]
    BY <2>1, <2>3, <2>4
  <2>6. WholeEntries(kept(n), g.job)
    BY <2>1, <2>3 DEF WholeEntries
  <2> QED
    BY <2>4, <2>5, <2>6 DEF g, S, Group
<1>3. DOMAIN rq = 1 .. Len(rq) /\ Len(rq) \in Nat
  BY DEF DrrInv, Deque
<1>4. DOMAIN ready_pqueues' = DOMAIN rq
  BY <1>1
<1>5. ready_pqueues' \in Deque
  <2>1. \A n \in 1 .. Len(rq) : ready_pqueues'[n] \in Group
    BY <1>2, <1>3
  <2>2. ready_pqueues' = [n \in 1 .. Len(rq) |-> ready_pqueues'[n]]
    BY <1>1, <1>3
  <2>3. ready_pqueues' \in [1 .. Len(rq) -> Group]
    BY <2>1, <2>2
  <2> HIDE DEF rq
  <2> QED
    BY <1>3, <2>3 DEF Deque
<1>6. ASSUME NEW j, NEW i
      PROVE  IsReady(j, i)' <=>
                IsReady(j, i) /\ ~(/\ j \in J /\ D!TopOf(j).tensor = i
                                   /\ D!LastInvoked(D!TopOf(j)))
  <2>1. ASSUME IsReady(j, i)'
        PROVE  IsReady(j, i) /\ ~(/\ j \in J /\ D!TopOf(j).tensor = i
                                  /\ D!LastInvoked(D!TopOf(j)))
    <3>1. PICK n \in DOMAIN rq : rq[n].job = j /\ \E e \in kept(n) : e.tensor = i
      <4>1. PICK n \in DOMAIN ready_pqueues' :
              ready_pqueues'[n].job = j /\ \E e \in ready_pqueues'[n].pq : e.tensor = i
        BY <2>1 DEF IsReady
      <4> HIDE DEF kept
      <4> QED
        BY <1>2, <1>4, <4>1
    <3>2. PICK e \in kept(n) : e.tensor = i
      BY <3>1
    <3>3. e \in rq[n].pq /\ (e \notin Tops(J) \/ ~D!LastInvoked(e))
      BY <3>2
    <3>4. IsReady(j, i)
      BY <3>1, <3>2, <3>3 DEF IsReady
    <3>5. ASSUME j \in J, D!TopOf(j).tensor = i PROVE e = D!TopOf(j)
      <4>1. PICK m \in DOMAIN rq : rq[m].job = j /\ D!TopOf(j) \in rq[m].pq
        BY <3>5, TopOfFacts
      <4>2. m = n
        BY <3>1, <4>1 DEF DrrInv, D!IndexesAgree
      <4>3. WholeEntries(rq[n].pq, rq[n].job)
        BY DequeFacts
      <4> QED
        BY <3>2, <3>3, <3>5, <4>1, <4>2, <4>3 DEF WholeEntries
    <3>6. ASSUME j \in J, D!TopOf(j).tensor = i PROVE ~D!LastInvoked(D!TopOf(j))
      <4>1. e = D!TopOf(j) /\ e \in Tops(J)
        BY <3>5, <3>6 DEF Tops
      <4> QED
        BY <3>3, <4>1
    <3> QED
      BY <3>4, <3>6
  <2>2. ASSUME IsReady(j, i), ~IsReady(j, i)'
        PROVE  j \in J /\ D!TopOf(j).tensor = i /\ D!LastInvoked(D!TopOf(j))
    <3>1. PICK n \in DOMAIN rq : rq[n].job = j /\ \E e \in rq[n].pq : e.tensor = i
      BY <2>2 DEF IsReady
    <3>2. PICK e \in rq[n].pq : e.tensor = i
      BY <3>1
    <3>3. e \notin kept(n)
      <4> HIDE DEF kept
      <4> SUFFICES ASSUME e \in kept(n) PROVE FALSE
        OBVIOUS
      <4> QED
        BY <1>2, <1>4, <2>2, <3>1, <3>2 DEF IsReady
    <3>4. e \in Tops(J) /\ D!LastInvoked(e)
      BY <3>2, <3>3
    <3> QED
      BY <3>1, <3>2, <3>4, TopsOfJob
  <2> QED
    BY <2>1, <2>2
<1> QED
  BY <1>2, <1>4, <1>5, <1>6

\* The chunks of one turn.
LEMMA DrrInvoke ==
    ASSUME DrrInv, NEW J \in SUBSET JobsFilled, PairwiseExclusive(J), D!InvokeChunks(J),
           \A p \in Proc, i \in Layer : called[p][i] = done[p][i],
           UNCHANGED <<pc, layer, it, fp_lock, started, done, queue, jid_to_deque_idx>>,
           loop' = "await", idx' \in Nat \ {0}
    PROVE  DrrInv'
<1>1. /\ called' \in [Proc -> [Layer -> Nat]]
      /\ \A p \in Proc, i \in Layer : called'[p][i] = called[p][i] + One(Runs(J, p, i))
  <2>1. called' = [p \in Proc |-> [i \in Layer |->
            called[p][i] + D!Cardinality({e \in Tops(J) :
                e.tensor = i /\ p \in D!Range(e.workers)})]]
    BY DrrHelpers DEF D!InvokeChunks, Tops
  <2> DEFINE n(p, i) == Cardinality({e \in Tops(J) : e.tensor = i /\ p \in D!Range(e.workers)})
  <2>2. called' = [p \in Proc |-> [i \in Layer |-> called[p][i] + n(p, i)]]
    BY <2>1, DrrHelpers
  <2>3. ASSUME NEW p \in Proc, NEW i \in Layer
        PROVE  n(p, i) = One(Runs(J, p, i)) /\ n(p, i) \in Nat /\ called[p][i] \in Nat
    <3>1. n(p, i) = One(Runs(J, p, i))
      BY OneRuns
    <3> HIDE DEF n
    <3> QED
      BY <3>1, DrrTypes DEF One
  <2> HIDE DEF n
  <2>4. \A p \in Proc, i \in Layer : called[p][i] + n(p, i) \in Nat
    BY <2>3
  <2>5. called' \in [Proc -> [Layer -> Nat]]
    BY <2>2, <2>4
  <2>6. \A p \in Proc, i \in Layer : called'[p][i] = called[p][i] + n(p, i)
    BY <2>2
  <2> QED
    BY <2>3, <2>5, <2>6
<1>2. /\ batch' = UNION {{<<p, e.tensor, called[p][e.tensor] + 1>> :
                            p \in D!Range(e.workers)} : e \in Tops(J)}
      /\ quantums' \in [Job -> Nat]
  <2>1. quantums' = [j \in Job |-> quantums[j] + IF j \in J THEN 1 ELSE 0]
    BY DrrHelpers DEF D!InvokeChunks
  <2>2. \A j \in Job : quantums[j] \in Nat
    BY DEF DrrInv
  <2>3. quantums' \in [Job -> Nat]
    BY <2>1, <2>2
  <2> QED
    BY <2>3 DEF D!InvokeChunks, Tops
<1>3. /\ ready_pqueues' \in Deque /\ DOMAIN ready_pqueues' = DOMAIN ready_pqueues
      /\ \A n \in DOMAIN ready_pqueues :
           /\ ready_pqueues'[n].job = ready_pqueues[n].job
           /\ WholeEntries(ready_pqueues'[n].pq, ready_pqueues[n].job)
      /\ \A j, i : IsReady(j, i)' <=>
           IsReady(j, i) /\ ~(/\ j \in J /\ D!TopOf(j).tensor = i
                              /\ D!LastInvoked(D!TopOf(j)))
  BY TurnQueues
<1>4. \A p \in Proc, i \in Layer : Runs(J, p, i) => IsReady(JobOf[p], i) /\ NWorkers(p) > 1
  BY RunsIsReady
<1>5. ASSUME NEW p \in Proc, NEW i \in Layer, Runs(J, p, i)
      PROVE  D!LastInvoked(D!TopOf(JobOf[p])) <=> called[p][i] % Chunks[i] = Chunks[i] - 1
  <2> DEFINE e == D!TopOf(JobOf[p])
  <2>1. /\ e.tensor = i /\ EachOnce(e.workers, JobOf[p]) /\ Len(e.workers) > 1
        /\ e.workers \in Seq(Proc)
    <3>1. JobOf[p] \in JobsFilled
      BY <1>5 DEF Runs
    <3> QED
      BY <1>5, <3>1, TopOfFacts DEF Runs
  <2> HIDE DEF e
  <2>2. e.workers[1] \in Proc /\ JobOf[e.workers[1]] = JobOf[p]
    BY <2>1 DEF EachOnce
  <2>3. done[e.workers[1]][i] = called[p][i]
    BY <2>2 DEF DrrInv, CalledTogether
  <2>4. D!LastInvoked(e) <=> called[p][i] % Chunks[i] = Chunks[i] - 1
    BY <2>1, <2>3 DEF D!LastInvoked
  <2> QED
    BY <2>4 DEF e
<1>6. \A p \in Proc, i \in Layer :
        /\ InQueue(p, i)' <=> InQueue(p, i)
        /\ Enqueued(p, i)' = Enqueued(p, i)
        /\ Passed(p, i)' <=> Passed(p, i)
  BY DEF InQueue, Enqueued, Passed
<1>7. TrainingInv'
  <2>1. ASSUME NEW p \in Proc, NEW i \in Layer
        PROVE  called'[p][i] >= called[p][i] /\ (Passed(p, i) => called'[p][i] = called[p][i])
    <3>1. called[p][i] \in Nat /\ called'[p][i] = called[p][i] + One(Runs(J, p, i))
      BY <1>1, DrrTypes
    <3>2. Passed(p, i) => ~Runs(J, p, i)
      BY <1>4 DEF DrrInv, PassedIsNotReady
    <3> QED
      BY <3>1, <3>2 DEF One
  <2> QED
    BY <1>1, <2>1, CalledMoreInv DEF DrrInv
<1>8. queue' \in [Key -> Seq(Proc)] /\ jid_to_deque_idx' \in [Job -> Nat] /\ OneEntryEach'
  BY DEF DrrInv, OneEntryEach
<1>9. D!IndexesAgree'
  BY <1>3 DEF DrrInv, D!IndexesAgree, D!Known
<1>10. \A n \in DOMAIN ready_pqueues' : WholeEntries(ready_pqueues'[n].pq, ready_pqueues'[n].job)
  BY <1>3
<1>11. ChunksAccounted'
  <2> SUFFICES ASSUME NEW p \in Proc, NEW i \in Layer, NWorkers(p) > 1
               PROVE  /\ Enqueued(p, i)' = (called'[p][i] \div Chunks[i])
                            + One(InQueue(p, i)') + One(IsReady(JobOf[p], i)')
                      /\ ~IsReady(JobOf[p], i)' => called'[p][i] % Chunks[i] = 0
    BY DEF ChunksAccounted, One
  <2> DEFINE n == called[p][i]
             c == Chunks[i]
  <2>1. /\ Enqueued(p, i) = (n \div c) + One(InQueue(p, i)) + One(IsReady(JobOf[p], i))
        /\ ~IsReady(JobOf[p], i) => n % c = 0
    BY DEF DrrInv, ChunksAccounted
  <2>2. n \in Nat /\ c \in Nat \ {0} /\ n \div c \in Nat /\ called'[p][i] = n + One(Runs(J, p, i))
    BY <1>1, DrrTypes
  <2>3. /\ n % c = c - 1 => (n + 1) \div c = (n \div c) + 1 /\ (n + 1) % c = 0
        /\ n % c # c - 1 => (n + 1) \div c = n \div c
    BY <2>2, ChunkCalled
  <2>4. Runs(J, p, i) <=> JobOf[p] \in J /\ D!TopOf(JobOf[p]).tensor = i
    BY DEF Runs
  <2>5. /\ Runs(J, p, i) => /\ IsReady(JobOf[p], i)
                            /\ IsReady(JobOf[p], i)' <=> n % c # c - 1
        /\ ~Runs(J, p, i) => (IsReady(JobOf[p], i)' <=> IsReady(JobOf[p], i))
    BY <1>3, <1>4, <1>5, <2>4
  <2>6. /\ InQueue(p, i)' <=> InQueue(p, i)
        /\ Enqueued(p, i)' = Enqueued(p, i)
    BY <1>6
  <2> DEFINE d == n \div c
             m == (n + 1) \div c
             r == (n + 1) % c
  <2>7. CASE Runs(J, p, i)
    <3>1. called'[p][i] = n + 1
      BY <2>2, <2>7 DEF One
    <3>2. /\ n % c = c - 1 => m = d + 1 /\ r = 0
          /\ n % c # c - 1 => m = d
          /\ d \in Nat /\ called'[p][i] \div c = m /\ called'[p][i] % c = r
      BY <2>2, <2>3, <3>1
    <3>3. Enqueued(p, i) = d + One(InQueue(p, i)) + One(IsReady(JobOf[p], i))
      BY <2>1
    <3> HIDE DEF d, m, r
    <3>4. CASE n % c = c - 1
      <4>1. ~IsReady(JobOf[p], i)' /\ IsReady(JobOf[p], i)
        BY <2>5, <2>7, <3>4
      <4>2. m = d + 1 /\ r = 0 /\ called'[p][i] \div c = m /\ called'[p][i] % c = r /\ d \in Nat
        BY <3>2, <3>4
      <4> HIDE DEF n, c
      <4> QED
        BY <2>6, <3>3, <4>1, <4>2 DEF One, c
    <3>5. CASE n % c # c - 1
      <4>1. IsReady(JobOf[p], i)' /\ IsReady(JobOf[p], i)
        BY <2>5, <2>7, <3>5
      <4>2. m = d /\ called'[p][i] \div c = m
        BY <3>2, <3>5
      <4> HIDE DEF n, c
      <4> QED
        BY <2>6, <3>3, <4>1, <4>2 DEF One, c
    <3> QED
      BY <3>4, <3>5
  <2>8. CASE ~Runs(J, p, i)
    <3>1. called'[p][i] = n
      BY <2>2, <2>8 DEF One
    <3> QED
      BY <2>1, <2>5, <2>6, <2>8, <3>1 DEF One
  <2> QED
    BY <2>7, <2>8
<1>12. CalledTogether' /\ AloneCallsNothing'
  <2>1. CalledTogether'
    <3> SUFFICES ASSUME NEW p \in Proc, NEW q \in Proc, NEW i \in Layer, JobOf[p] = JobOf[q]
                 PROVE  called'[p][i] = called'[q][i]
      BY DEF CalledTogether
    <3>1. called[p][i] = called[q][i]
      BY DEF DrrInv, CalledTogether
    <3>2. Runs(J, p, i) <=> Runs(J, q, i)
      BY DEF Runs
    <3> QED
      BY <1>1, <3>1, <3>2 DEF One
  <2>2. AloneCallsNothing'
    <3> SUFFICES ASSUME NEW p \in Proc, NEW i \in Layer, ~(NWorkers(p) > 1)
                 PROVE  called'[p][i] = 0
      BY DEF AloneCallsNothing
    <3>1. ~Runs(J, p, i) /\ called[p][i] = 0
      BY <1>4 DEF DrrInv, AloneCallsNothing
    <3> QED
      BY <1>1, <3>1 DEF One
  <2> QED
    BY <2>1, <2>2
<1>13. CallsAwaited'
  <2> SUFFICES ASSUME NEW p \in Proc, NEW i \in Layer
               PROVE  /\ called'[p][i] > done[p][i] => <<p, i, called'[p][i]>> \in batch'
                      /\ called'[p][i] <= done[p][i] + 1
    BY DEF CallsAwaited
  <2>1. done[p][i] \in Nat /\ called'[p][i] = done[p][i] + One(Runs(J, p, i))
    BY <1>1, DrrTypes
  <2>2. called'[p][i] <= done[p][i] + 1
    BY <2>1 DEF One
  <2>3. ASSUME called'[p][i] > done[p][i] PROVE <<p, i, called'[p][i]>> \in batch'
    <3>1. Runs(J, p, i) /\ called'[p][i] = called[p][i] + 1
      BY <2>1, <2>3 DEF One
    <3> DEFINE e == D!TopOf(JobOf[p])
    <3>2. e \in Tops(J) /\ e.tensor = i /\ p \in D!Range(e.workers)
      BY <3>1, TopWorkers DEF Runs, Tops
    <3> HIDE DEF e
    <3>3. <<p, e.tensor, called[p][e.tensor] + 1>> \in batch'
      BY <1>2, <3>2
    <3> QED
      BY <3>1, <3>2, <3>3
  <2> QED
    BY <2>2, <2>3
<1>14. BatchExclusive'
  <2>1. ASSUME NEW b \in batch' PROVE JobOf[b[1]] \in J
    <3>1. PICK e \in Tops(J) : \E p \in D!Range(e.workers) :
             b = <<p, e.tensor, called[p][e.tensor] + 1>>
      BY <1>2
    <3>2. PICK p \in D!Range(e.workers) : b = <<p, e.tensor, called[p][e.tensor] + 1>>
      BY <3>1
    <3>3. PICK j \in J : e = D!TopOf(j)
      BY DEF Tops
    <3>4. p \in Proc /\ JobOf[p] = j
      BY <3>2, <3>3, TopWorkers
    <3> QED
      BY <3>2, <3>4
  <2> QED
    BY <2>1 DEF BatchExclusive, PairwiseExclusive
<1>15. PassedIsNotQueued' /\ PassedIsNotReady'
  BY <1>3, <1>6 DEF DrrInv, PassedIsNotQueued, PassedIsNotReady
<1> QED
  BY <1>2, <1>3, <1>7, <1>8, <1>9, <1>10, <1>11, <1>12, <1>13, <1>14, <1>15 DEF DrrInv

\* A turn of the loop finds nothing to do, or invokes chunks.
LEMMA DrrTurn ==
    ASSUME DrrInv, D!Turn
    PROVE  DrrInv'
<1>1. /\ loop = "start" \/ (loop = "await" /\ D!AllDone)
      /\ UNCHANGED <<pc, layer, it, fp_lock, started, done, queue, jid_to_deque_idx>>
  BY DEF D!Turn
<1>2. \A p \in Proc, i \in Layer : called[p][i] = done[p][i]
  BY <1>1, NothingAwaited
<1>3. ASSUME NEW n \in (IF D!NextIdx(idx) # {} THEN D!NextIdx(idx) ELSE D!NextIdx(1)),
             D!InvokeChunks(D!Involved(n)), idx' = n + 1, loop' = "await"
      PROVE  DrrInv'
  <2>1. idx \in Nat \ {0} /\ DOMAIN ready_pqueues = 1 .. Len(ready_pqueues)
        /\ Len(ready_pqueues) \in Nat
    BY DEF DrrInv, Deque
  <2>2. n \in DOMAIN ready_pqueues /\ ready_pqueues[n].pq # {} /\ n \in Nat
    BY <2>1 DEF D!NextIdx, D!Filled
  <2>3. D!Involved(n) \in SUBSET JobsFilled /\ PairwiseExclusive(D!Involved(n))
    BY <2>2, InvolvedExclusive
  <2>4. idx' \in Nat \ {0}
    BY <1>3, <2>2
  <2> QED
    BY <1>1, <1>2, <1>3, <2>3, <2>4, DrrInvoke
<1>4. ASSUME loop' = "leaving", batch' = {},
             UNCHANGED <<called, ready_pqueues, quantums, idx>>
      PROVE  DrrInv'
  <2>1. UNCHANGED trainingVars
    BY <1>1, <1>4 DEF trainingVars
  <2>2. QuietMove /\ BatchExclusive'
    BY <1>4, <2>1 DEF BatchExclusive, QuietMove
  <2> QED
    BY <1>1, <1>2, <1>4, <2>2, DrrSameDeque
<1> QED
  BY <1>3, <1>4 DEF D!Turn

-----------------------------------------------------------------------------
(* The end of a worker.                                                     *)

\* What is kept of the deque up to an entry, from what is kept before it.
Keeping(kept, j, n) ==
    IF n = 0 THEN <<>>
    ELSE IF ready_pqueues[n].job = j THEN kept[n - 1] ELSE Append(kept[n - 1], ready_pqueues[n])

Keeps(kept, j, m) == kept = [n \in 0 .. m |-> Keeping(kept, j, n)]

\* The recursive function of Without exists.
LEMMA KeepsExists ==
    ASSUME NEW j, NEW z \in Nat
    PROVE  \E a : Keeps(a, j, z)
<1> DEFINE T == {m \in Nat : ~ \E a : Keeps(a, j, m)}
<1> SUFFICES ASSUME T # {} PROVE FALSE
  OBVIOUS
<1>1. PICK m \in T : \A i \in T : m <= i
  <2>1. T \in SUBSET Nat
    OBVIOUS
  <2> HIDE DEF T
  <2> QED
    BY <2>1, LeastNumber
<1>2. CASE m = 0
  <2>1. 0 .. 0 = {0}
    OBVIOUS
  <2> DEFINE a == [i \in {0} |-> <<>>]
  <2>2. Keeps(a, j, 0)
    BY <2>1 DEF Keeps, Keeping
  <2> QED
    BY <1>1, <1>2, <2>2
<1>3. CASE m # 0
  <2>1. m - 1 \in Nat /\ m - 1 \notin T /\ m = (m - 1) + 1
    BY <1>1, <1>3
  <2>2. PICK b : Keeps(b, j, m - 1)
    BY <2>1
  <2> DEFINE a == [i \in 0 .. m |-> Keeping(b, j, i)]
  <2>3. ASSUME NEW i \in 0 .. m - 1 PROVE a[i] = b[i]
    BY <2>1, <2>2 DEF Keeps
  <2>4. ASSUME NEW i \in 0 .. m PROVE Keeping(b, j, i) = Keeping(a, j, i)
    <3> HIDE DEF a
    <3>1. i = 0 \/ i - 1 \in 0 .. m - 1
      BY <2>1
    <3> QED
      BY <2>3, <3>1 DEF Keeping
  <2>5. Keeps(a, j, m)
    <3> DEFINE X(i) == Keeping(b, j, i)
               Y(i) == Keeping(a, j, i)
    <3>1. a = [i \in 0 .. m |-> X(i)]
      OBVIOUS
    <3>2. \A i \in 0 .. m : X(i) = Y(i)
      BY <2>4
    <3> HIDE DEF X, Y
    <3>3. [i \in 0 .. m |-> X(i)] = [i \in 0 .. m |-> Y(i)]
      BY <3>2
    <3>4. a = [i \in 0 .. m |-> Y(i)]
      BY <3>1, <3>3
    <3> QED
      BY <3>4 DEF Y, Keeps
  <2> QED
    BY <1>1, <2>5
<1> QED
  BY <1>2, <1>3

\* Sequence s is what is left of the first m entries without those of job j.
LeftOf(s, j, m) ==
    /\ s \in Deque
    /\ \A n \in DOMAIN s : \E u \in 1 .. m : ready_pqueues[u].job # j /\ s[n] = ready_pqueues[u]
    /\ \A u \in 1 .. m : ready_pqueues[u].job # j => \E n \in DOMAIN s : s[n] = ready_pqueues[u]
    /\ \A a, b \in DOMAIN s : s[a].job = s[b].job => a = b

\* One more entry is looked at.
LEMMA LeftOfOneMore ==
    ASSUME DrrInv, NEW j, NEW m \in DOMAIN ready_pqueues, NEW s, LeftOf(s, j, m - 1)
    PROVE  LeftOf(IF ready_pqueues[m].job = j THEN s ELSE Append(s, ready_pqueues[m]), j, m)
<1> DEFINE rq == ready_pqueues
<1>1. m \in Nat \ {0} /\ m - 1 \in Nat /\ rq[m] \in Group /\ m <= Len(rq)
      /\ DOMAIN rq = 1 .. Len(rq) /\ Len(rq) \in Nat
  BY DEF DrrInv, Deque
<1>2. 1 .. m = (1 .. m - 1) \union {m}
  BY <1>1
<1>3. CASE rq[m].job = j
  BY <1>2, <1>3 DEF LeftOf
<1>4. CASE rq[m].job # j
  <2> DEFINE t == Append(s, rq[m])
  <2>1. s \in Seq(Group) /\ Len(s) \in Nat /\ DOMAIN s = 1 .. Len(s)
    BY DEF LeftOf, Deque
  <2>2. /\ t \in Seq(Group) /\ DOMAIN t = 1 .. Len(s) + 1 /\ t[Len(s) + 1] = rq[m]
        /\ \A n \in 1 .. Len(s) : t[n] = s[n]
    BY <1>1, <2>1
  <2>3. \A n \in 1 .. Len(s) + 1 : n = Len(s) + 1 \/ n \in 1 .. Len(s)
    BY <2>1
  <2>4. 1 .. Len(s) \subseteq 1 .. Len(s) + 1 /\ Len(s) + 1 \in 1 .. Len(s) + 1
    BY <2>1
  <2>5. ASSUME NEW n \in 1 .. Len(s) PROVE s[n].job # rq[m].job
    <3>1. PICK u \in 1 .. m - 1 : s[n] = rq[u]
      BY <2>1 DEF LeftOf
    <3>2. u \in DOMAIN rq /\ u # m
      BY <1>1
    <3> QED
      BY <3>1, <3>2 DEF DrrInv, D!IndexesAgree
  <2> HIDE DEF t, rq
  <2>6. \A n \in DOMAIN t : \E u \in 1 .. m : rq[u].job # j /\ t[n] = rq[u]
    <3>1. \A n \in 1 .. Len(s) : \E u \in 1 .. m - 1 : rq[u].job # j /\ s[n] = rq[u]
      BY <2>1 DEF LeftOf, rq
    <3> QED
      BY <1>2, <1>4, <2>2, <2>3, <3>1
  <2>7. \A u \in 1 .. m : rq[u].job # j => \E n \in DOMAIN t : t[n] = rq[u]
    <3>1. \A u \in 1 .. m - 1 : rq[u].job # j => \E n \in 1 .. Len(s) : s[n] = rq[u]
      BY <2>1 DEF LeftOf, rq
    <3> QED
      BY <1>2, <2>2, <2>4, <3>1
  <2>8. \A a, b \in DOMAIN t : t[a].job = t[b].job => a = b
    <3>1. \A a, b \in 1 .. Len(s) : s[a].job = s[b].job => a = b
      BY <2>1 DEF LeftOf
    <3> QED
      BY <2>2, <2>3, <2>5, <3>1
  <2> QED
    BY <1>4, <2>2, <2>6, <2>7, <2>8 DEF LeftOf, Deque, t, rq
<1> QED
  BY <1>3, <1>4

\* What Without leaves.
LEMMA WithoutLeft ==
    ASSUME DrrInv, NEW j
    PROVE  LeftOf(D!Without(ready_pqueues, j), j, Len(ready_pqueues))
<1> DEFINE z == Len(ready_pqueues)
           a == CHOOSE x : Keeps(x, j, z)
           T == {k \in 0 .. z : ~LeftOf(a[k], j, k)}
<1>1. z \in Nat /\ DOMAIN ready_pqueues = 1 .. z
  BY DEF DrrInv, Deque
<1>2. Keeps(a, j, z)
  BY <1>1, KeepsExists
<1>3. D!Without(ready_pqueues, j) = a[z]
  BY DEF D!Without, Keeps, Keeping
<1> HIDE DEF z, a
<1> SUFFICES ASSUME T # {} PROVE FALSE
  BY <1>1, <1>3 DEF z
<1>4. PICK k \in T : \A i \in T : k <= i
  <2>1. T \in SUBSET Nat
    BY <1>1
  <2> HIDE DEF T
  <2> QED
    BY <2>1, LeastNumber
<1>5. k \in 0 .. z /\ ~LeftOf(a[k], j, k) /\ a[k] = Keeping(a, j, k)
  BY <1>2, <1>4 DEF Keeps
<1>6. CASE k = 0
  <2>1. a[k] = <<>>
    BY <1>5, <1>6 DEF Keeping
  <2>2. LeftOf(<<>>, j, 0)
    BY DEF LeftOf, Deque
  <2> QED
    BY <1>5, <1>6, <2>1, <2>2
<1>7. CASE k # 0
  <2>1. k - 1 \in 0 .. z /\ ~(k <= k - 1) /\ k \in 1 .. z
    BY <1>1, <1>5, <1>7
  <2>2. LeftOf(a[k - 1], j, k - 1)
    BY <1>4, <2>1
  <2>3. a[k] = IF ready_pqueues[k].job = j THEN a[k - 1] ELSE Append(a[k - 1], ready_pqueues[k])
    BY <1>5, <1>7 DEF Keeping
  <2> QED
    BY <1>1, <1>5, <2>1, <2>2, <2>3, LeftOfOneMore
<1> QED
  BY <1>6, <1>7

\* The job of a worker that ends has no tensor left, and the other jobs keep theirs.
LEMMA DrrCleanUp ==
    ASSUME DrrInv, NEW p \in Proc, D!CleanUp(p)
    PROVE  DrrInv'
<1> DEFINE j == JobOf[p]
           rq == ready_pqueues
           w == D!Without(ready_pqueues, j)
           jid == jid_to_deque_idx
<1>1. /\ Leave(p) /\ rq' = w /\ jid' = D!UpdateMaps(w, j)
      /\ UNCHANGED <<queue, quantums, loop, idx, batch>>
  BY DrrLoopSteps DEF D!CleanUp
<1>2. LeftOf(w, j, Len(rq)) /\ DOMAIN rq = 1 .. Len(rq) /\ rq \in Deque /\ j \in Job
  BY WithoutLeft DEF DrrInv, Deque, Job
<1> HIDE DEF w
<1>3. /\ w \in Deque
      /\ \A n \in DOMAIN w : \E u \in DOMAIN rq : rq[u].job # j /\ w[n] = rq[u]
      /\ \A u \in DOMAIN rq : rq[u].job # j => \E n \in DOMAIN w : w[n] = rq[u]
      /\ \A a, b \in DOMAIN w : w[a].job = w[b].job => a = b
  BY <1>2 DEF LeftOf
<1>4. ASSUME NEW i \in Layer PROVE ~IsReady(j, i)
  <2>1. Passed(p, i)
    BY <1>1 DEF Leave, Passed
  <2> QED
    BY <2>1 DEF DrrInv, PassedIsNotReady
<1>5. ASSUME NEW k, NEW i, i \in Layer PROVE IsReady(k, i)' <=> IsReady(k, i)
  <2>1. IsReady(k, i)' => IsReady(k, i)
    BY <1>1, <1>3 DEF IsReady
  <2>2. k # j /\ IsReady(k, i) => IsReady(k, i)'
    BY <1>1, <1>3 DEF IsReady
  <2> QED
    BY <1>4, <1>5, <2>1, <2>2
<1>6. \A n \in DOMAIN w : WholeEntries(w[n].pq, w[n].job) /\ w[n].job \in Job
  BY <1>3, DequeFacts
<1>7. DOMAIN w \subseteq Nat \ {0}
  BY <1>3 DEF Deque
<1>8. jid' = [k \in Job |->
        IF \E n \in DOMAIN w : w[n].job = k
        THEN CHOOSE n \in DOMAIN w : w[n].job = k
        ELSE IF k = j THEN 0 ELSE jid[k]]
  BY <1>1, DrrHelpers DEF D!UpdateMaps
<1>9. \A n \in DOMAIN w : jid'[w[n].job] = n
  BY <1>3, <1>6, <1>8
<1>10. ASSUME NEW k \in Job
       PROVE  /\ jid'[k] \in Nat
              /\ jid'[k] # 0 => jid'[k] \in DOMAIN w /\ w[jid'[k]].job = k
  <2>1. CASE \E n \in DOMAIN w : w[n].job = k
    BY <1>7, <1>9, <2>1
  <2>2. CASE ~ \E n \in DOMAIN w : w[n].job = k
    <3>1. jid'[k] = IF k = j THEN 0 ELSE jid[k]
      BY <1>8, <2>2
    <3>2. k # j => jid[k] = 0
      <4> SUFFICES ASSUME k # j, jid[k] # 0 PROVE FALSE
        OBVIOUS
      <4>1. jid[k] \in DOMAIN rq /\ rq[jid[k]].job = k
        BY <3>2, DrrHelpers DEF DrrInv, D!IndexesAgree, D!Known
      <4> QED
        BY <1>3, <2>2, <4>1
    <3> QED
      BY <3>1, <3>2
  <2> QED
    BY <2>1, <2>2
<1>11. jid' \in [Job -> Nat]
  <2>1. jid' = [k \in Job |-> jid'[k]]
    BY <1>8
  <2> QED
    BY <1>10, <2>1
<1>12. D!IndexesAgree'
  BY <1>1, <1>9, <1>10, DrrHelpers DEF D!IndexesAgree, D!Known
<1>13. BatchExclusive' /\ QuietMove /\ quantums' \in [Job -> Nat] /\ idx' \in Nat \ {0}
  BY <1>1 DEF DrrInv, BatchExclusive, QuietMove
<1> QED
  BY <1>1, <1>3, <1>5, <1>6, <1>11, <1>12, <1>13, DrrSameWait

-----------------------------------------------------------------------------
LEMMA DrrInit == D!Init => DrrInv
<1> SUFFICES ASSUME D!Init PROVE DrrInv
  OBVIOUS
<1>1. /\ TrainingInit
      /\ queue = [k \in Key |-> <<>>] /\ ready_pqueues = <<>>
      /\ jid_to_deque_idx = [j \in Job |-> 0] /\ quantums = [j \in Job |-> 0]
      /\ loop = "start" /\ idx = 1 /\ batch = {}
  BY DrrHelpers DEF D!Init, D!TrainingInit, TrainingInit, D!Zero, Zero, D!NoQuantums, Key
<1>2. /\ TrainingInv
      /\ \A p \in Proc, i \in Layer :
           /\ called[p][i] = 0 /\ done[p][i] = 0 /\ Enqueued(p, i) = 0 /\ ~Passed(p, i)
           /\ 0 \div Chunks[i] = 0 /\ 0 % Chunks[i] = 0
  <2>1. \A p \in Proc, i \in Layer :
           /\ called[p][i] = 0 /\ done[p][i] = 0 /\ Enqueued(p, i) = 0 /\ ~Passed(p, i)
    BY <1>1 DEF TrainingInit, Zero, Enqueued, Passed
  <2>2. \A i \in Layer : 0 \div Chunks[i] = 0 /\ 0 % Chunks[i] = 0
    <3> SUFFICES ASSUME NEW i \in Layer PROVE 0 \div Chunks[i] = 0 /\ 0 % Chunks[i] = 0
      OBVIOUS
    <3>1. Chunks[i] \in Nat \ {0}
      BY TrainingAssumption
    <3> QED
      BY <3>1
  <2> QED
    BY <1>1, <2>1, <2>2, InitInv
<1>3. /\ \A p \in Proc, i \in Layer : ~InQueue(p, i)
      /\ \A j, i : ~IsReady(j, i)
  <2>1. \A p \in Proc, i \in Layer : DOMAIN queue[KeyOf(p, i)] = {}
    BY <1>1, KeyIsKey
  <2> QED
    BY <1>1, <2>1 DEF InQueue, IsReady
<1>4. /\ queue \in [Key -> Seq(Proc)] /\ ready_pqueues \in Deque
      /\ jid_to_deque_idx \in [Job -> Nat] /\ quantums \in [Job -> Nat] /\ idx \in Nat \ {0}
      /\ \A n \in DOMAIN ready_pqueues : WholeEntries(ready_pqueues[n].pq, ready_pqueues[n].job)
  BY <1>1 DEF Deque
<1>5. OneEntryEach
  <2>1. \A k \in Key : DOMAIN queue[k] = {}
    BY <1>1
  <2> QED
    BY <2>1 DEF OneEntryEach, EachOnce
<1>6. D!IndexesAgree
  BY <1>1, DrrHelpers DEF D!IndexesAgree, D!Known
<1>7. ChunksAccounted
  BY <1>2, <1>3 DEF ChunksAccounted, One
<1>8. CalledTogether /\ AloneCallsNothing /\ CallsAwaited
  BY <1>2 DEF CalledTogether, AloneCallsNothing, CallsAwaited
<1>9. BatchExclusive
  BY <1>1 DEF BatchExclusive
<1>10. PassedIsNotQueued /\ PassedIsNotReady
  BY <1>2 DEF PassedIsNotQueued, PassedIsNotReady
<1> QED
  BY <1>2, <1>4, <1>5, <1>6, <1>7, <1>8, <1>9, <1>10 DEF DrrInv

LEMMA DrrStep == DrrInv /\ [D!Next]_(D!vars) => DrrInv'
BY DrrSteps, DrrQuiet, DrrBackward, DrrCleanUp, DrrTurn, DrrLeaveLoop

\* Fewer chunks than fill an enqueue, if there is one more.
LEMMA ChunksFit ==
    ASSUME NEW n \in Nat, NEW c \in Nat \ {0}, NEW e \in Nat, e >= n \div c,
           e = n \div c => n % c = 0
    PROVE  n <= e * c
<1> DEFINE d == n \div c
           r == n % c
<1>1. n = c * d + r /\ r \in 0 .. c - 1 /\ d \in Nat
  OBVIOUS
<1>2. e >= d /\ (e = d => r = 0)
  OBVIOUS
<1> HIDE DEF d, r
<1>3. CASE e = d
  <2>1. e * c = c * d
    BY <1>1, <1>3
  <2> QED
    BY <1>1, <1>2, <1>3, <2>1
<1>4. CASE e # d
  <2>1. PICK x \in Nat : e = d + 1 + x
    <3>1. e - d - 1 \in Nat /\ e = d + 1 + (e - d - 1)
      BY <1>1, <1>2, <1>4
    <3> QED
      BY <3>1
  <2>2. e * c = c * d + c + x * c
    BY <1>1, <2>1
  <2>3. x * c \in Nat /\ c * d \in Nat /\ e * c \in Nat
    BY <1>1
  <2> QED
    BY <1>1, <2>2, <2>3
<1> QED
  BY <1>3, <1>4

\* Jobs in the network have awaited calls, whose jobs are exclusive.
LEMMA DrrLinks == DrrInv => LinksAreExclusive
<1> SUFFICES ASSUME DrrInv, NEW j \in Job, NEW k \in Job, j # k, InNetwork(j), InNetwork(k)
             PROVE  Exclusive(j, k)
  BY DEF LinksAreExclusive, Exclusive
<1>1. ASSUME NEW m \in Job, InNetwork(m) PROVE \E b \in batch : JobOf[b[1]] = m
  <2>1. PICK p \in Proc, i \in Layer : JobOf[p] = m /\ started[p][i] > done[p][i]
    BY <1>1 DEF InNetwork, Workers
  <2>2. called[p][i] > done[p][i]
    BY <2>1, DrrTypes
  <2>3. <<p, i, called[p][i]>> \in batch
    BY <2>2 DEF DrrInv, CallsAwaited
  <2> QED
    BY <2>1, <2>3
<1> QED
  BY <1>1 DEF DrrInv, BatchExclusive

\* DeficitRoundRobin shares the network among jobs: those whose allreduces
\* are in the network at the same time share no worker and no link to the core,
\* although accommodate compares each job with the union of those before it only.
THEOREM DrrLinksAreExclusive == D!Spec => []LinksAreExclusive
BY DrrInit, DrrStep, DrrLinks, PTL DEF D!Spec

\* A worker has as many calls as its job, and at most one that is awaited.
LEMMA DrrGated == DrrInv => RoundsAreGated
<1> SUFFICES ASSUME DrrInv, NEW p \in Proc, NEW q \in Proc, NEW i \in Layer, JobOf[p] = JobOf[q]
             PROVE  called[p][i] <= done[q][i] + 1
  BY DEF RoundsAreGated
<1> QED
  BY DEF DrrInv, CalledTogether, CallsAwaited

\* The gate Worker::allreduce and Aggregation rely on: under DeficitRoundRobin too no
\* worker is asked for a round of a tensor before every worker has ended the last.
THEOREM DrrRoundsAreGated == D!Spec => []RoundsAreGated
BY DrrInit, DrrStep, DrrGated, PTL DEF D!Spec

\* The chunks of the enqueues so far are all that a worker has been called for.
LEMMA DrrCalled ==
    ASSUME DrrInv, NEW p \in Proc, NEW i \in Layer
    PROVE  called[p][i] <= Enqueued(p, i) * Chunks[i]
<1> DEFINE n == called[p][i]
           c == Chunks[i]
           e == Enqueued(p, i)
<1>1. n \in Nat /\ c \in Nat \ {0} /\ e \in Nat
  BY DrrTypes
<1>2. CASE NWorkers(p) > 1
  <2>1. /\ e = (n \div c) + One(InQueue(p, i)) + One(IsReady(JobOf[p], i))
        /\ ~IsReady(JobOf[p], i) => n % c = 0
    BY <1>2 DEF DrrInv, ChunksAccounted
  <2> HIDE DEF n, c, e
  <2>2. e >= n \div c /\ (e = n \div c => n % c = 0)
    BY <1>1, <2>1 DEF One
  <2>3. n <= e * c
    BY <1>1, <2>2, ChunksFit
  <2> QED
    BY <2>3 DEF n, c, e
<1>3. CASE ~(NWorkers(p) > 1)
  <2>1. n = 0
    BY <1>3 DEF DrrInv, AloneCallsNothing
  <2>2. e * c >= 0
    <3> HIDE DEF e, c
    <3> QED
      BY <1>1
  <2> QED
    BY <2>1, <2>2
<1> QED
  BY <1>2, <1>3

\* A worker is called for the chunks of its enqueues.
LEMMA DrrOnce == DrrInv => D!ChunksInvokedOnce
BY DrrCalled, DrrHelpers DEF D!ChunksInvokedOnce

\* A worker invokes each chunk of a tensor once per iteration, however the turns of
\* the jobs interleave.
THEOREM DrrChunksInvokedOnce == D!Spec => []D!ChunksInvokedOnce
BY DrrInit, DrrStep, DrrOnce, PTL DEF D!Spec

LEMMA SomeCounted ==
    ASSUME NEW z \in Nat, NEW S \in SUBSET (1 .. z)
    PROVE  Cardinality(S) >= One(S # {}) /\ Cardinality(S) \in Nat
<1>1. IsFiniteSet(1 .. z)
  BY FS_Interval
<1>2. IsFiniteSet(S)
  BY <1>1, FS_Subset
<1>3. Cardinality(S) \in Nat /\ (Cardinality(S) = 0 <=> S = {})
  BY <1>2, FS_CardinalityType, FS_EmptySet
<1> DEFINE c == Cardinality(S)
<1>4. c \in Nat /\ (c = 0 <=> S = {})
  BY <1>3
<1> HIDE DEF c
<1>5. c >= One(S # {}) /\ c \in Nat
  <2>1. CASE S = {}
    BY <1>4, <2>1 DEF One
  <2>2. CASE S # {}
    <3>1. One(S # {}) = 1
      BY <2>2 DEF One
    <3>2. c # 0
      BY <1>4, <2>2
    <3> QED
      BY <1>4, <3>1, <3>2
  <2> QED
    BY <2>1, <2>2
<1> QED
  BY <1>5 DEF c

\* An entry of the queue of the tensor or of that of the job accounts for the last enqueue.
LEMMA DrrKept == DrrInv => D!EnqueuesKept
<1> SUFFICES ASSUME DrrInv, NEW p \in Proc, NEW i \in Layer, NWorkers(p) > 1
             PROVE  D!Kept(p, i, D!Occurrences(queue[KeyOf(p, i)], p)
                         + Cardinality({n \in DOMAIN ready_pqueues :
                              \E e \in ready_pqueues[n].pq :
                                  e.tensor = i /\ p \in D!Range(e.workers)}))
  BY DrrHelpers DEF D!EnqueuesKept
<1> DEFINE q == queue[KeyOf(p, i)]
           Q == {n \in DOMAIN q : q[n] = p}
           R == {n \in DOMAIN ready_pqueues :
                   \E e \in ready_pqueues[n].pq : e.tensor = i /\ p \in D!Range(e.workers)}
<1>1. q \in Seq(Proc) /\ Len(q) \in Nat /\ DOMAIN q = 1 .. Len(q)
  BY KeyIsKey DEF DrrInv
<1>2. DOMAIN ready_pqueues = 1 .. Len(ready_pqueues) /\ Len(ready_pqueues) \in Nat
  BY DEF DrrInv, Deque
<1>4. Q \in SUBSET (1 .. Len(q)) /\ R \in SUBSET (1 .. Len(ready_pqueues))
  BY <1>1, <1>2
<1>5. InQueue(p, i) <=> Q # {}
  BY DEF InQueue
<1>6. IsReady(JobOf[p], i) => R # {}
  <2> SUFFICES ASSUME IsReady(JobOf[p], i) PROVE R # {}
    OBVIOUS
  <2>1. PICK n \in DOMAIN ready_pqueues :
           ready_pqueues[n].job = JobOf[p] /\ \E e \in ready_pqueues[n].pq : e.tensor = i
    BY DEF IsReady
  <2>2. PICK e \in ready_pqueues[n].pq : e.tensor = i
    BY <2>1
  <2>3. /\ EachOnce(e.workers, JobOf[p]) /\ Len(e.workers) = Cardinality(Workers(JobOf[p]))
        /\ e.workers \in Seq(Proc)
    BY <2>1, DequeFacts DEF WholeEntries
  <2>4. p \in Workers(JobOf[p])
    BY DEF Workers
  <2>5. \E m \in DOMAIN e.workers : e.workers[m] = p
    BY <2>3, <2>4, QueueInjects
  <2>6. p \in D!Range(e.workers)
    BY <2>5 DEF D!Range
  <2> QED
    BY <2>2, <2>6
<1>7. D!Occurrences(q, p) = Cardinality(Q)
  BY DrrHelpers DEF D!Occurrences
<1>8. /\ Enqueued(p, i) = (called[p][i] \div Chunks[i]) + One(InQueue(p, i))
                                                       + One(IsReady(JobOf[p], i))
      /\ called[p][i] \div Chunks[i] \in Nat
  BY DrrTypes DEF DrrInv, ChunksAccounted
<1> DEFINE k == called[p][i] \div Chunks[i]
<1> HIDE DEF Q, R, q
<1>9. Cardinality(Q) >= One(Q # {}) /\ Cardinality(Q) \in Nat
  BY <1>1, <1>4, SomeCounted
<1>10. Cardinality(R) >= One(R # {}) /\ Cardinality(R) \in Nat
  BY <1>2, <1>4, SomeCounted
<1>11. Enqueued(p, i) = k + One(InQueue(p, i)) + One(IsReady(JobOf[p], i)) /\ k \in Nat
  BY <1>8
<1> HIDE DEF k
<1>12. Enqueued(p, i) <= k + (Cardinality(Q) + Cardinality(R))
  BY <1>5, <1>6, <1>9, <1>10, <1>11 DEF One
<1>13. D!Kept(p, i, Cardinality(Q) + Cardinality(R))
  BY <1>12, DrrHelpers DEF D!Kept, k
<1> QED
  BY <1>7, <1>13 DEF q, R

\* No enqueue is dropped: its chunks have been invoked, or the worker is in the queue
\* of the tensor or the tensor in that of its job.
THEOREM DrrEnqueuesKept == D!Spec => []D!EnqueuesKept
BY DrrInit, DrrStep, DrrKept, PTL DEF D!Spec

\* jid_to_deque_idx and the deque of queues name each other, although the workers of
\* a job clean up one after the other while the loop goes round the other jobs.
THEOREM DrrIndexesAgree == D!Spec => []D!IndexesAgree
<1>1. DrrInv => D!IndexesAgree
  BY DEF DrrInv
<1> QED
  BY DrrInit, DrrStep, <1>1, PTL DEF D!Spec

\* "wait until final allreduces are done", under this scheduler.
THEOREM DrrCleanupWaits == D!Spec => []CleanupAfterAllreduce
<1>1. DrrInv => CleanupAfterAllreduce
  BY DEF DrrInv, TrainingInv
<1> QED
  BY DrrInit, DrrStep, <1>1, PTL DEF D!Spec

LEMMA DrrRoundMove == [D!Next]_(D!vars) => RoundMove
<1> SUFFICES ASSUME [D!Next]_(D!vars) PROVE RoundMove
  OBVIOUS
<1>1. CASE \E p \in Proc : D!Backward(p) \/ D!CleanUp(p)
  BY <1>1 DEF D!Backward, D!CleanUp, D!Leave, RoundMove, roundVars
<1>2. CASE D!Turn \/ D!LeaveLoop
  BY <1>2 DEF D!Turn, D!LeaveLoop, D!trainingVars, RoundMove, roundVars
<1> QED
  BY <1>1, <1>2, DrrSteps, QuietIsRoundMove

\* A worker is called for each chunk no more than once in an iteration.
LEMMA DrrCalledInIterations ==
    ASSUME DrrInv, NEW p \in Proc, NEW i \in Layer
    PROVE  called[p][i] <= NIter * Chunks[i]
<1> DEFINE e == Enqueued(p, i)
           c == Chunks[i]
<1>1. called[p][i] <= e * c /\ e \in Nat /\ c \in Nat /\ called[p][i] \in Nat /\ NIter \in Nat
  BY DrrCalled, DrrTypes, TrainingAssumption
<1>2. e <= NIter
  <2>1. it[p] \in 0 .. NIter /\ (pc[p] = "backward" => it[p] < NIter)
    BY DEF DrrInv, TrainingInv, TrainingTypeOK, InsideIterations
  <2> QED
    BY <2>1, TrainingAssumption DEF Enqueued
<1> HIDE DEF e, c
<1>3. e * c <= NIter * c
  <2>1. PICK d \in Nat : NIter = e + d
    <3>1. NIter - e \in Nat /\ NIter = e + (NIter - e)
      BY <1>1, <1>2
    <3> QED
      BY <3>1
  <2>2. NIter * c = e * c + d * c
    BY <1>1, <2>1
  <2>3. d * c \in Nat /\ e * c \in Nat
    BY <1>1
  <2> QED
    BY <2>2, <2>3
<1>4. e * c \in Nat /\ NIter * c \in Nat
  BY <1>1
<1>5. called[p][i] <= NIter * c
  BY <1>1, <1>3, <1>4
<1> QED
  BY <1>5 DEF c

\* DeficitRoundRobin provides the gate too: the chunks of each tensor of each job are
\* the rounds of a gated AllReduce.
THEOREM DrrImplementsGatedAllReduce ==
    ASSUME NEW j \in Job, NEW i \in Layer
    PROVE  D!Spec => Fabric(j, i, NIter * Chunks[i])!Spec
<1> DEFINE rounds == NIter * Chunks[i]
<1>1. D!Init => Fabric(j, i, rounds)!Init
  <2>1. D!Init => TrainingInit
    BY DrrHelpers DEF D!Init, D!TrainingInit, TrainingInit, D!Zero, Zero
  <2> QED
    BY <2>1, FabricInit
<1>2. DrrInv /\ [D!Next]_(D!vars) => [Fabric(j, i, rounds)!Next]_(Fabric(j, i, rounds)!vars)
  <2> SUFFICES ASSUME DrrInv, [D!Next]_(D!vars)
               PROVE  [Fabric(j, i, rounds)!Next]_(Fabric(j, i, rounds)!vars)
    OBVIOUS
  <2>1. \A p \in Workers(j) : called[p][i] <= rounds
    BY DrrCalledInIterations DEF Workers
  <2>2. rounds \in Nat
    <3>1. NIter \in Nat /\ Chunks[i] \in Nat
      BY TrainingAssumption
    <3> QED
      BY <3>1
  <2>3. TrainingInv /\ RoundsAreGated
    BY DrrGated DEF DrrInv
  <2> HIDE DEF rounds
  <2> QED
    BY <2>1, <2>2, <2>3, DrrRoundMove, FabricStep
<1> QED
  BY DrrInit, DrrStep, <1>1, <1>2, PTL DEF D!Spec, Fabric!Spec

-----------------------------------------------------------------------------
(* What the schedulers below keep: they call for every worker of a job at   *)
(* once, and await what they have called before they call for more.         *)

\* The rounds the enqueues of a worker so far ask for.
Due(p, i) == Enqueued(p, i) * Chunks[i]

\* No more rounds are called than are due, and all of them have been called before the
\* final loop passes the tensor.
RoundsDue ==
    \A p \in Proc, i \in Layer : NWorkers(p) > 1 =>
        /\ called[p][i] <= Due(p, i)
        /\ Passed(p, i) => called[p][i] = Due(p, i)

GateInv ==
    /\ TrainingInv
    /\ CalledTogether
    /\ AloneCallsNothing
    /\ CallsAwaited
    /\ RoundsDue

LEMMA GateTypes ==
    ASSUME GateInv, NEW p \in Proc, NEW i \in Layer
    PROVE  /\ called[p][i] \in Nat /\ done[p][i] \in Nat /\ started[p][i] \in Nat
           /\ done[p][i] <= started[p][i] /\ started[p][i] <= called[p][i]
           /\ Enqueued(p, i) \in Nat /\ Chunks[i] \in Nat \ {0} /\ Due(p, i) \in Nat
           /\ layer[p] \in Layer /\ JobOf[p] \in Job
<1>1. TrainingTypeOK
  BY DEF GateInv, TrainingInv
<1>2. it[p] \in Nat
  BY <1>1, TypeFacts
<1>3. Enqueued(p, i) \in Nat /\ Chunks[i] \in Nat \ {0} /\ JobOf[p] \in Job
  BY <1>1, <1>2, TypeFacts DEF Enqueued, Job
<1>4. Due(p, i) \in Nat
  BY <1>3 DEF Due
<1>5. done[p][i] <= started[p][i] /\ started[p][i] <= called[p][i]
  BY DEF GateInv, TrainingInv, CountsInOrder
<1> QED
  BY <1>1, <1>3, <1>4, <1>5, TypeFacts

\* A worker whose enqueues of a tensor are over has been called for all their rounds,
\* and all have ended.
LEMMA EndedMeansCalled ==
    ASSUME GateInv, NEW p \in Proc, NEW i \in Layer, NWorkers(p) > 1,
           Enqueued(p, i) <= done[p][i] \div Chunks[i]
    PROVE  called[p][i] = Due(p, i) /\ done[p][i] = Due(p, i)
<1>1. Due(p, i) <= done[p][i]
  BY GateTypes, DivBound DEF Due
<1>2. called[p][i] <= Due(p, i)
  BY DEF GateInv, RoundsDue
<1> QED
  BY <1>1, <1>2, GateTypes

\* A step that enqueues and calls nothing.
LEMMA GateQuiet ==
    ASSUME GateInv, QuietMove,
           batch' = batch \/ \A p \in Proc, i \in Layer : called[p][i] = done[p][i]
    PROVE  /\ GateInv' /\ called' = called
           /\ \A p \in Proc, i \in Layer :
                /\ done'[p][i] >= done[p][i]
                /\ NWorkers(p) > 1 => Due(p, i)' = Due(p, i)
<1>1. TrainingInv' /\ called' = called /\ \A q \in Proc, i \in Layer : QuietOn(q, i)
  BY QuietSteps DEF GateInv
<1>2. CalledTogether' /\ AloneCallsNothing'
  BY <1>1 DEF GateInv, CalledTogether, AloneCallsNothing
<1>3. CallsAwaited'
  <2> SUFFICES ASSUME NEW p \in Proc, NEW i \in Layer
               PROVE  /\ called[p][i] > done'[p][i] => <<p, i, called[p][i]>> \in batch'
                      /\ called[p][i] <= done'[p][i] + 1
    BY <1>1 DEF CallsAwaited
  <2>1. done'[p][i] \in Nat /\ done'[p][i] >= done[p][i]
    BY <1>1 DEF QuietOn, TrainingInv, TrainingTypeOK
  <2>2. /\ called[p][i] > done[p][i] => <<p, i, called[p][i]>> \in batch
        /\ called[p][i] <= done[p][i] + 1
    BY DEF GateInv, CallsAwaited
  <2>3. called[p][i] \in Nat /\ done[p][i] \in Nat
    BY GateTypes
  <2> QED
    BY <2>1, <2>2, <2>3
<1>4. ASSUME NEW p \in Proc, NEW i \in Layer, NWorkers(p) > 1
      PROVE  /\ Due(p, i)' = Due(p, i)
             /\ called[p][i] <= Due(p, i)
             /\ Passed(p, i)' => called[p][i] = Due(p, i)
  <2>1. Due(p, i)' = Due(p, i)
    BY <1>1, <1>4 DEF QuietOn, Due
  <2>2. called[p][i] <= Due(p, i) /\ (Passed(p, i) => called[p][i] = Due(p, i))
    BY <1>4 DEF GateInv, RoundsDue
  <2>3. ASSUME Passed(p, i)', ~Passed(p, i) PROVE called[p][i] = Due(p, i)
    <3>1. pc[p] = "drain" /\ fp_lock[p][i] > 0
      BY <1>1, <2>3 DEF QuietOn
    <3>2. Enqueued(p, i) <= done[p][i] \div Chunks[i]
      BY <1>4, <3>1, DrainMeansEnded DEF GateInv
    <3> QED
      BY <1>4, <3>2, EndedMeansCalled
  <2> QED
    BY <2>1, <2>2, <2>3
<1>5. RoundsDue'
  BY <1>1, <1>4 DEF RoundsDue
<1> QED
  BY <1>1, <1>2, <1>3, <1>4, <1>5 DEF GateInv, QuietOn

\* The backward pass of a tensor: all that was due has been called and has ended, and
\* now the rounds of one more iteration are due.
LEMMA GateAdvance ==
    ASSUME GateInv, NEW p \in Proc, NWorkers(p) > 1, Advance(p),
           UNCHANGED <<fp_lock, called, started, done, batch>>
    PROVE  /\ GateInv'
           /\ called[p][layer[p]] = Due(p, layer[p]) /\ done[p][layer[p]] = Due(p, layer[p])
           /\ \A q \in Proc, i \in Layer :
                /\ Due(q, i)' = Due(q, i) + IF q = p /\ i = layer[p] THEN Chunks[i] ELSE 0
                /\ Passed(q, i)' => Passed(q, i)
<1>0. PICK l \in Layer : l = layer[p]
  BY LayerZero, GateTypes
<1>1. TrainingInv'
  BY AdvanceInv DEF GateInv
<1>2. /\ Forwards(p, l) = Enqueued(p, l) + 1 /\ Enqueued(p, l) \in Nat
      /\ \A i \in Layer :
            /\ Enqueued(p, i)' = Enqueued(p, i) + IF i = l THEN 1 ELSE 0
            /\ ~Passed(p, i)'
      /\ \A q \in Proc, i \in Layer : q # p =>
            Enqueued(q, i)' = Enqueued(q, i) /\ (Passed(q, i)' <=> Passed(q, i))
  <2>1. TrainingInv
    BY DEF GateInv
  <2>2. Forwards(p, l) = Enqueued(p, l) + 1 /\ Enqueued(p, l) \in Nat
    BY <1>0, <2>1, AdvanceEnqueues
  <2>3. \A i \in Layer :
            /\ Enqueued(p, i)' = Enqueued(p, i) + IF i = l THEN 1 ELSE 0
            /\ ~Passed(p, i)'
    BY <1>0, <2>1, AdvanceEnqueues
  <2>4. \A q \in Proc, i \in Layer : q # p =>
            Enqueued(q, i)' = Enqueued(q, i) /\ (Passed(q, i)' <=> Passed(q, i))
    BY <2>1, AdvanceEnqueues
  <2> QED
    BY <2>2, <2>3, <2>4
<1>3. called[p][l] = Due(p, l) /\ done[p][l] = Due(p, l)
  <2>1. Enqueued(p, l) + 1 <= Forwards(p, l)
    BY <1>2
  <2>2. Enqueued(p, l) <= done[p][l] \div Chunks[l]
    BY <1>2, <2>1, LockMeansEnded DEF GateInv
  <2> QED
    BY <1>2, <2>2, EndedMeansCalled
<1>4. ASSUME NEW q \in Proc, NEW i \in Layer
      PROVE  /\ Due(q, i)' = Due(q, i) + IF q = p /\ i = l THEN Chunks[i] ELSE 0
             /\ Passed(q, i)' => Passed(q, i)
  <2>1. CASE q = p /\ i = l
    <3> DEFINE e == Enqueued(p, l)
               c == Chunks[l]
    <3>1. e \in Nat /\ c \in Nat /\ Enqueued(p, l)' = e + 1
      BY <1>2, GateTypes
    <3> HIDE DEF e, c
    <3>2. (e + 1) * c = e * c + c
      BY <3>1
    <3>3. Due(p, l)' = (e + 1) * c /\ Due(p, l) = e * c
      BY <3>1 DEF Due, e, c
    <3>4. Due(p, l)' = Due(p, l) + c
      BY <3>2, <3>3
    <3> QED
      BY <1>2, <2>1, <3>4 DEF c
  <2>2. CASE ~(q = p /\ i = l)
    <3>1. Enqueued(q, i)' = Enqueued(q, i)
      BY <1>2, <2>2, GateTypes
    <3>2. Due(q, i)' = Due(q, i) /\ Due(q, i) \in Nat
      BY <3>1, GateTypes DEF Due
    <3> QED
      BY <1>2, <2>2, <3>2
  <2> QED
    BY <2>1, <2>2
<1>5. CalledTogether' /\ AloneCallsNothing' /\ CallsAwaited'
  BY DEF GateInv, CalledTogether, AloneCallsNothing, CallsAwaited
<1>6. RoundsDue'
  <2> SUFFICES ASSUME NEW q \in Proc, NEW i \in Layer, NWorkers(q) > 1
               PROVE  /\ called[q][i] <= Due(q, i)'
                      /\ Passed(q, i)' => called[q][i] = Due(q, i)'
    BY DEF RoundsDue
  <2>1. /\ called[q][i] <= Due(q, i) /\ (Passed(q, i) => called[q][i] = Due(q, i))
        /\ called[q][i] \in Nat /\ Due(q, i) \in Nat /\ Chunks[i] \in Nat
    BY GateTypes DEF GateInv, RoundsDue
  <2>2. Passed(q, i)' => q # p
    BY <1>2
  <2> QED
    BY <1>4, <2>1, <2>2
<1> QED
  BY <1>0, <1>1, <1>3, <1>4, <1>5, <1>6 DEF GateInv

\* One round of each of these tensors (of a job each) is called on all the job's workers,
\* when everything that was called has ended and that round is due.
LEMMA GateInvoke ==
    ASSUME GateInv, NEW K \in SUBSET Key, UNCHANGED <<pc, layer, it, fp_lock, started, done>>,
           called' \in [Proc -> [Layer -> Nat]],
           \A p \in Proc, i \in Layer : called'[p][i] = called[p][i] + One(KeyOf(p, i) \in K),
           \A p \in Proc, i \in Layer : called[p][i] = done[p][i],
           \A p \in Proc, i \in Layer : KeyOf(p, i) \in K =>
               /\ NWorkers(p) > 1 /\ called[p][i] < Due(p, i)
               /\ <<p, i, called[p][i] + 1>> \in batch'
    PROVE  /\ GateInv'
           /\ \A p \in Proc, i \in Layer : Due(p, i)' = Due(p, i)
<1>1. ASSUME NEW p \in Proc, NEW i \in Layer
      PROVE  /\ Due(p, i)' = Due(p, i)
             /\ Passed(p, i)' <=> Passed(p, i)
             /\ KeyOf(p, i) \in K => ~Passed(p, i)
  <2>1. Due(p, i)' = Due(p, i) /\ (Passed(p, i)' <=> Passed(p, i))
    BY DEF Due, Enqueued, Passed
  <2>2. KeyOf(p, i) \in K => ~Passed(p, i)
    <3>1. NWorkers(p) > 1 /\ Passed(p, i) => called[p][i] = Due(p, i)
      BY DEF GateInv, RoundsDue
    <3>2. KeyOf(p, i) \in K => NWorkers(p) > 1 /\ called[p][i] < Due(p, i)
      OBVIOUS
    <3> QED
      BY <3>1, <3>2, GateTypes
  <2> QED
    BY <2>1, <2>2
<1>2. ASSUME NEW p \in Proc, NEW i \in Layer
      PROVE  /\ called'[p][i] >= called[p][i]
             /\ Passed(p, i) => called'[p][i] = called[p][i]
             /\ called'[p][i] > done[p][i] => <<p, i, called'[p][i]>> \in batch'
             /\ called'[p][i] <= done[p][i] + 1
  <2>1. called[p][i] \in Nat /\ called'[p][i] = called[p][i] + One(KeyOf(p, i) \in K)
        /\ called[p][i] = done[p][i]
    BY GateTypes
  <2>2. CASE KeyOf(p, i) \in K
    <3>1. One(KeyOf(p, i) \in K) = 1
      BY <2>2 DEF One
    <3>2. called'[p][i] = called[p][i] + 1
      BY <2>1, <3>1
    <3> QED
      BY <1>1, <2>1, <2>2, <3>2
  <2>3. CASE KeyOf(p, i) \notin K
    <3>1. One(KeyOf(p, i) \in K) = 0
      BY <2>3 DEF One
    <3> QED
      BY <2>1, <3>1
  <2> QED
    BY <2>2, <2>3
<1>3. TrainingInv'
  BY <1>2, CalledMoreInv DEF GateInv
<1>4. CallsAwaited'
  BY <1>2 DEF CallsAwaited
<1>5. CalledTogether'
  <2> SUFFICES ASSUME NEW p \in Proc, NEW q \in Proc, NEW i \in Layer, JobOf[p] = JobOf[q]
               PROVE  called'[p][i] = called'[q][i]
    BY DEF CalledTogether
  <2>1. KeyOf(p, i) = KeyOf(q, i) /\ called[p][i] = called[q][i]
    BY DEF KeyOf, GateInv, CalledTogether
  <2> QED
    BY <2>1
<1>6. AloneCallsNothing'
  <2> SUFFICES ASSUME NEW p \in Proc, NEW i \in Layer, ~(NWorkers(p) > 1)
               PROVE  called'[p][i] = 0
    BY DEF AloneCallsNothing
  <2>1. KeyOf(p, i) \notin K /\ called[p][i] = 0
    BY DEF GateInv, AloneCallsNothing
  <2>2. One(KeyOf(p, i) \in K) = 0
    BY <2>1 DEF One
  <2> QED
    BY <2>1, <2>2
<1>7. RoundsDue'
  <2> SUFFICES ASSUME NEW p \in Proc, NEW i \in Layer, NWorkers(p) > 1
               PROVE  /\ called'[p][i] <= Due(p, i)
                      /\ Passed(p, i) => called'[p][i] = Due(p, i)
    BY <1>1 DEF RoundsDue
  <2>1. /\ called[p][i] <= Due(p, i) /\ (Passed(p, i) => called[p][i] = Due(p, i))
        /\ called[p][i] \in Nat /\ Due(p, i) \in Nat
    BY GateTypes DEF GateInv, RoundsDue
  <2>2. called'[p][i] = called[p][i] + One(KeyOf(p, i) \in K)
    OBVIOUS
  <2>3. One(KeyOf(p, i) \in K) = IF KeyOf(p, i) \in K THEN 1 ELSE 0
    BY DEF One
  <2>4. KeyOf(p, i) \in K => called[p][i] < Due(p, i)
    OBVIOUS
  <2> QED
    BY <1>2, <2>1, <2>2, <2>3, <2>4
<1> QED
  BY <1>1, <1>3, <1>4, <1>5, <1>6, <1>7 DEF GateInv

\* What an await that has ended leaves called has ended.
LEMMA AwaitEnds ==
    ASSUME GateInv, AllDone, NEW p \in Proc, NEW i \in Layer
    PROVE  called[p][i] = done[p][i]
<1>1. called[p][i] > done[p][i] => done[p][i] >= called[p][i]
  BY DEF GateInv, CallsAwaited, AllDone
<1> QED
  BY <1>1, GateTypes

LEMMA GateInit == TrainingInit => GateInv
<1> SUFFICES ASSUME TrainingInit PROVE GateInv
  OBVIOUS
<1>1. TrainingInv
  BY InitInv
<1>2. \A p \in Proc, i \in Layer :
        /\ called[p][i] = 0 /\ done[p][i] = 0 /\ Due(p, i) = 0 /\ ~Passed(p, i)
  <2> SUFFICES ASSUME NEW p \in Proc, NEW i \in Layer
               PROVE  called[p][i] = 0 /\ done[p][i] = 0 /\ Due(p, i) = 0 /\ ~Passed(p, i)
    OBVIOUS
  <2>1. called[p][i] = 0 /\ done[p][i] = 0 /\ ~Passed(p, i)
    BY DEF TrainingInit, Zero, Passed
  <2>2. Enqueued(p, i) = 0 /\ Chunks[i] \in Nat
    BY TrainingAssumption DEF TrainingInit, Enqueued
  <2> QED
    BY <2>1, <2>2 DEF Due
<1> QED
  BY <1>1, <1>2 DEF GateInv, CalledTogether, AloneCallsNothing, CallsAwaited, RoundsDue

LEMMA GateGated == GateInv => RoundsAreGated
<1> SUFFICES ASSUME GateInv, NEW p \in Proc, NEW q \in Proc, NEW i \in Layer, JobOf[p] = JobOf[q]
             PROVE  called[p][i] <= done[q][i] + 1
  BY DEF RoundsAreGated
<1> QED
  BY DEF GateInv, CalledTogether, CallsAwaited

\* A worker is called for no more rounds than it enqueues.
LEMMA GateCalled ==
    ASSUME GateInv, NEW p \in Proc, NEW i \in Layer
    PROVE  called[p][i] <= Due(p, i) /\ called[p][i] <= NIter * Chunks[i]
<1>1. called[p][i] <= Due(p, i)
  <2>1. NWorkers(p) > 1 => called[p][i] <= Due(p, i)
    BY DEF GateInv, RoundsDue
  <2>2. ~(NWorkers(p) > 1) => called[p][i] = 0
    BY DEF GateInv, AloneCallsNothing
  <2> QED
    BY <2>1, <2>2, GateTypes
<1> DEFINE e == Enqueued(p, i)
           c == Chunks[i]
<1>2. e \in Nat /\ c \in Nat /\ called[p][i] \in Nat /\ NIter \in Nat
  BY GateTypes, TrainingAssumption
<1>3. e <= NIter
  <2>1. it[p] \in 0 .. NIter /\ (pc[p] = "backward" => it[p] < NIter)
    BY DEF GateInv, TrainingInv, TrainingTypeOK, InsideIterations
  <2> QED
    BY <2>1, TrainingAssumption DEF Enqueued
<1>4. called[p][i] <= e * c
  BY <1>1 DEF Due
<1> HIDE DEF e, c
<1>5. e * c <= NIter * c
  <2>1. PICK d \in Nat : NIter = e + d
    <3>1. NIter - e \in Nat /\ NIter = e + (NIter - e)
      BY <1>2, <1>3
    <3> QED
      BY <3>1
  <2>2. NIter * c = e * c + d * c
    BY <1>2, <2>1
  <2>3. d * c \in Nat /\ e * c \in Nat
    BY <1>2
  <2> QED
    BY <2>2, <2>3
<1>6. e * c \in Nat /\ NIter * c \in Nat
  BY <1>2
<1>7. called[p][i] <= NIter * c
  BY <1>2, <1>4, <1>5, <1>6
<1> QED
  BY <1>1, <1>7 DEF c

\* So each tensor of each job is a gated AllReduce.
LEMMA GateFabric ==
    ASSUME GateInv, RoundMove, NEW j \in Job, NEW i \in Layer
    PROVE  [Fabric(j, i, NIter * Chunks[i])!Next]_(Fabric(j, i, NIter * Chunks[i])!vars)
<1> DEFINE rounds == NIter * Chunks[i]
<1>1. \A p \in Workers(j) : called[p][i] <= rounds
  BY GateCalled DEF Workers
<1>2. rounds \in Nat
  <2>1. NIter \in Nat /\ Chunks[i] \in Nat
    BY TrainingAssumption
  <2> QED
    BY <2>1
<1>3. TrainingInv /\ RoundsAreGated
  BY GateGated DEF GateInv
<1> HIDE DEF rounds
<1>4. [Fabric(j, i, rounds)!Next]_(Fabric(j, i, rounds)!vars)
  BY <1>1, <1>2, <1>3, FabricStep
<1> QED
  BY <1>4 DEF rounds

-----------------------------------------------------------------------------
(* The schedulers that keep the jobs apart: ReadyAndGo and ByteScheduler are *)
(* modelled with one job.                                                    *)

OneJob == \A p, q \in Proc : JobOf[p] = JobOf[q]

\* Workers gather in the queue of tensor i: each at most once, for rounds that are due.
Gathers(i) ==
    /\ \A p \in Proc : EachOnce(queue[i], JobOf[p])
    /\ \A n \in DOMAIN queue[i] :
        /\ NWorkers(queue[i][n]) > 1
        /\ called[queue[i][n]][i] < Due(queue[i][n], i)

LEMMA OneTeam ==
    ASSUME OneJob, NEW p \in Proc
    PROVE  Workers(JobOf[p]) = Proc /\ NWorkers(p) = Cardinality(Proc)
BY DEF OneJob, Workers, NWorkers

\* The queue after an enqueue of worker p.
LEMMA GathersOneMore ==
    ASSUME OneJob, GateInv, NEW p \in Proc, NWorkers(p) > 1, Advance(p),
           UNCHANGED <<fp_lock, called, started, done, batch>>,
           NEW l \in Layer, l = layer[p], queue \in [Layer -> Seq(Proc)],
           queue' = [queue EXCEPT ![l] = Append(queue[l], p)]
    PROVE  /\ queue' \in [Layer -> Seq(Proc)]
           /\ Len(queue'[l]) = Len(queue[l]) + 1 /\ Len(queue[l]) \in Nat
           /\ \A i \in Layer : i # l => queue'[i] = queue[i]
           /\ \A i \in Layer : Gathers(i) => Gathers(i)'
           /\ Gathers(l) => Len(queue[l]) < Cardinality(Proc)
<1>0. PICK q \in Seq(Proc), a \in Seq(Proc) : q = queue[l] /\ a = Append(q, p)
  <2>1. queue[l] \in Seq(Proc) /\ Append(queue[l], p) \in Seq(Proc)
    OBVIOUS
  <2> QED
    BY <2>1
<1>1. Len(a) = Len(q) + 1 /\ Len(q) \in Nat
  BY <1>0
<1>2. /\ queue' \in [Layer -> Seq(Proc)] /\ queue'[l] = a
      /\ \A i \in Layer : i # l => queue'[i] = queue[i]
  BY <1>0
<1>3. /\ \A r \in Proc, i \in Layer :
             Due(r, i)' = Due(r, i) + IF r = p /\ i = l THEN Chunks[i] ELSE 0
      /\ called[p][l] = Due(p, l)
  BY GateAdvance
<1>4. \A r \in Proc, i \in Layer :
        called[r][i] < Due(r, i) \/ (r = p /\ i = l) => called'[r][i] < Due(r, i)'
  <2> SUFFICES ASSUME NEW r \in Proc, NEW i \in Layer,
                      called[r][i] < Due(r, i) \/ (r = p /\ i = l)
               PROVE  called[r][i] < Due(r, i)'
    OBVIOUS
  <2>1. called[r][i] \in Nat /\ Due(r, i) \in Nat /\ Chunks[i] \in Nat \ {0}
    BY GateTypes
  <2> QED
    BY <1>3, <2>1
<1>5. ASSUME NEW i \in Layer, i # l, Gathers(i) PROVE Gathers(i)'
  <2>1. queue'[i] = queue[i] /\ queue[i] \in Seq(Proc)
    BY <1>2, <1>5
  <2>2. \A n \in DOMAIN queue[i] : called'[queue[i][n]][i] < Due(queue[i][n], i)'
    BY <1>4, <1>5, <2>1 DEF Gathers
  <2> QED
    BY <1>5, <2>1, <2>2 DEF Gathers
<1>6. ASSUME Gathers(l) PROVE Gathers(l)' /\ Len(q) < Cardinality(Proc)
  <2>1. EachOnce(q, JobOf[p]) /\ \A n \in DOMAIN q : q[n] # p /\ NWorkers(q[n]) > 1
    <3>1. called[p][l] \in Nat
      BY GateTypes
    <3> QED
      BY <1>0, <1>3, <1>6, <3>1 DEF Gathers
  <2>2. /\ EachOnce(a, JobOf[p])
        /\ \A r \in Proc :
               (\E n \in DOMAIN a : a[n] = r) <=> (r = p \/ \E n \in DOMAIN q : q[n] = r)
    <3>1. /\ EachOnce(Append(q, p), JobOf[p])
          /\ \A r \in Proc : (\E n \in DOMAIN Append(q, p) : Append(q, p)[n] = r)
                                <=> (r = p \/ \E n \in DOMAIN q : q[n] = r)
      BY <2>1, AppendOnce
    <3> QED
      BY <1>0, <3>1
  <2>3. \A r \in Proc : EachOnce(a, JobOf[r])
    BY <2>2 DEF OneJob
  <2>4. \A n \in DOMAIN a : NWorkers(a[n]) > 1 /\ called'[a[n]][l] < Due(a[n], l)'
    <3> SUFFICES ASSUME NEW n \in DOMAIN a
                 PROVE  NWorkers(a[n]) > 1 /\ called'[a[n]][l] < Due(a[n], l)'
      OBVIOUS
    <3>1. a[n] \in Proc
      BY <1>1
    <3>2. a[n] = p \/ \E m \in DOMAIN q : q[m] = a[n]
      BY <2>2, <3>1
    <3>3. ASSUME NEW m \in DOMAIN q, q[m] = a[n]
          PROVE  NWorkers(a[n]) > 1 /\ called[a[n]][l] < Due(a[n], l)
      BY <1>0, <1>6, <3>3 DEF Gathers
    <3> QED
      <4>1. called[a[n]][l] < Due(a[n], l) \/ (a[n] = p /\ l = l)
        BY <3>2, <3>3
      <4>2. called'[a[n]][l] < Due(a[n], l)'
        BY <1>4, <3>1, <4>1
      <4> QED
        BY <3>2, <3>3, <4>2
  <2>5. Gathers(l)'
    BY <1>2, <2>3, <2>4 DEF Gathers
  <2>6. Len(q) < Cardinality(Proc)
    <3>1. p \in Workers(JobOf[p]) /\ Workers(JobOf[p]) = Proc
      BY OneTeam DEF Workers
    <3> QED
      BY <1>1, <2>1, <3>1, QueueInjects
  <2> QED
    BY <2>5, <2>6
<1> QED
  BY <1>0, <1>1, <1>2, <1>5, <1>6

\* A step that leaves the queue and the calls of a tensor alone leaves its gathering.
LEMMA GathersStill ==
    ASSUME queue \in [Layer -> Seq(Proc)], NEW i \in Layer, Gathers(i), queue'[i] = queue[i],
           \A p \in Proc : NWorkers(p) > 1 =>
               called'[p][i] = called[p][i] /\ Due(p, i)' = Due(p, i)
    PROVE  Gathers(i)'
<1>1. \A n \in DOMAIN queue[i] : queue[i][n] \in Proc
  OBVIOUS
<1> QED
  BY <1>1 DEF Gathers

\* A call of allreduce for every entry of a full queue, and what is then awaited.
LEMMA JobInvokes ==
    ASSUME OneJob, GateInv, NEW i \in Layer, queue \in [Layer -> Seq(Proc)],
           Gathers(i), Len(queue[i]) = Cardinality(Proc),
           \A p \in Proc, l \in Layer : called[p][l] = done[p][l],
           called' = InvokedOn(queue[i], i), batch' = AwaitedOf(queue[i], i),
           UNCHANGED <<pc, layer, it, fp_lock, started, done>>
    PROVE  /\ GateInv'
           /\ \A p \in Proc, l \in Layer :
                /\ called'[p][l] = called[p][l] + One(l = i)
                /\ Due(p, l)' = Due(p, l)
           /\ \A p \in Proc : \E n \in DOMAIN queue[i] : queue[i][n] = p
           /\ \A b \in batch' : b[2] = i
<1> DEFINE q == queue[i]
<1>1. q \in Seq(Proc) /\ \A n \in DOMAIN q : q[n] \in Proc
  OBVIOUS
<1>2. \A p \in Proc : \E n \in DOMAIN q : q[n] = p
  <2> SUFFICES ASSUME NEW p \in Proc PROVE \E n \in DOMAIN q : q[n] = p
    OBVIOUS
  <2>1. EachOnce(q, JobOf[p]) /\ Workers(JobOf[p]) = Proc
    BY OneTeam DEF Gathers
  <2> QED
    BY <1>1, <2>1, QueueInjects
<1>3. \A p \in Proc : Occurrences(q, p) = 1
  <2> SUFFICES ASSUME NEW p \in Proc PROVE Occurrences(q, p) = 1
    OBVIOUS
  <2>1. EachOnce(q, JobOf[p]) /\ Len(q) = Cardinality(Workers(JobOf[p]))
    BY OneTeam DEF Gathers
  <2> HIDE DEF q
  <2> QED
    BY <1>1, <2>1, FullOccurs
<1>4. \A p \in Proc, l \in Layer : called'[p][l] = called[p][l] + One(l = i)
  <2> SUFFICES ASSUME NEW p \in Proc, NEW l \in Layer
               PROVE  called'[p][l] = called[p][l] + One(l = i)
    OBVIOUS
  <2>1. called'[p][l] = called[p][l] + IF l = i THEN Occurrences(q, p) ELSE 0
    BY DEF InvokedOn
  <2> QED
    BY <1>3, <2>1 DEF One
<1>5. called' \in [Proc -> [Layer -> Nat]]
  <2>1. \A p \in Proc, l \in Layer : called'[p][l] \in Nat
    <3> SUFFICES ASSUME NEW p \in Proc, NEW l \in Layer PROVE called'[p][l] \in Nat
      OBVIOUS
    <3>1. called[p][l] \in Nat /\ One(l = i) \in Nat
      BY GateTypes DEF One
    <3> QED
      BY <1>4, <3>1
  <2>2. called' = [p \in Proc |-> [l \in Layer |-> called'[p][l]]]
    <3>1. DOMAIN called' = Proc /\ \A p \in Proc : called'[p] = [l \in Layer |-> called'[p][l]]
      BY DEF InvokedOn
    <3>2. called' = [p \in Proc |-> called'[p]]
      BY DEF InvokedOn
    <3> QED
      BY <3>1, <3>2
  <2> QED
    BY <2>1, <2>2
<1>6. batch' = {<<q[n], i, called'[q[n]][i]>> : n \in DOMAIN q}
  BY DEF AwaitedOf
<1> DEFINE K == {k \in Key : k[2] = i}
<1>7. \A p \in Proc, l \in Layer : KeyOf(p, l) \in K <=> l = i
  BY KeyIsKey DEF KeyOf
<1>8. \A p \in Proc, l \in Layer : called'[p][l] = called[p][l] + One(KeyOf(p, l) \in K)
  BY <1>4, <1>7 DEF One
<1>9. ASSUME NEW p \in Proc, NEW l \in Layer, KeyOf(p, l) \in K
      PROVE  NWorkers(p) > 1 /\ called[p][l] < Due(p, l) /\ <<p, l, called[p][l] + 1>> \in batch'
  <2>1. l = i
    BY <1>7, <1>9
  <2>2. PICK n \in DOMAIN q : q[n] = p
    BY <1>2
  <2>3. NWorkers(p) > 1 /\ called[p][i] < Due(p, i)
    BY <2>2 DEF Gathers
  <2>4. called'[p][i] = called[p][i] + 1
    <3>1. One(i = i) = 1
      BY DEF One
    <3> QED
      BY <1>4, <3>1
  <2> QED
    BY <1>6, <2>1, <2>2, <2>3, <2>4
<1> HIDE DEF K
<1>10. K \in SUBSET Key
  BY DEF K
<1>11. GateInv' /\ \A p \in Proc, l \in Layer : Due(p, l)' = Due(p, l)
  BY <1>5, <1>8, <1>9, <1>10, GateInvoke
<1>12. \A b \in batch' : b[2] = i
  BY <1>6
<1> QED
  BY <1>2, <1>4, <1>11, <1>12

-----------------------------------------------------------------------------
(* ReadyAndGo.                                                              *)

Ready == INSTANCE ReadyAndGo

TensorLock == INSTANCE ResourceProofs WITH Client <- Layer, Capacity <- 1

\* Until the lock is granted for a tensor workers gather in its queue, which is full when
\* the lock is asked for; all that is called belongs to the tensor that holds it.
ReadyInv ==
    /\ GateInv
    /\ TensorLock!IInv
    /\ queue \in [Layer -> Seq(Proc)]
    /\ \A i \in Layer :
        /\ state[i] # "holding" => Gathers(i)
        /\ state[i] = "holding" => Len(queue[i]) >= Cardinality(Proc)
        /\ TensorLock!Asks(i) => Len(queue[i]) = Cardinality(Proc)
        /\ state[i] # "holding" => \A p \in Proc : called[p][i] = done[p][i]

\* The helpers of the instance.
LEMMA ReadyHelpers ==
    /\ Ready!Layer = Layer
    /\ \A j : Ready!Workers(j) = Workers(j)
    /\ \A p : Ready!NWorkers(p) = NWorkers(p)
    /\ \A q, i : Ready!InvokedOn(q, i) = InvokedOn(q, i) /\ Ready!AwaitedOf(q, i) = AwaitedOf(q, i)
    /\ \A q, p : Ready!Full(q, p) <=> Full(q, p)
<1>1. \A S : Ready!Cardinality(S) = Cardinality(S)
  BY DEF Ready!Cardinality, Ready!IsFiniteSet, Cardinality, IsFiniteSet
<1>2. \A j : Ready!Workers(j) = Workers(j)
  BY DEF Ready!Workers, Workers
<1>3. \A p : Ready!NWorkers(p) = NWorkers(p)
  BY <1>1, <1>2 DEF Ready!NWorkers, NWorkers
<1>4. \A q, p : Ready!Occurrences(q, p) = Occurrences(q, p)
  BY <1>1 DEF Ready!Occurrences, Occurrences
<1>5. Ready!Layer = Layer
  BY DEF Ready!Layer, Layer
<1>6. \A q, i : Ready!InvokedOn(q, i) = InvokedOn(q, i)
  BY <1>4, <1>5 DEF Ready!InvokedOn, InvokedOn
<1>7. \A q, i : Ready!AwaitedOf(q, i) = AwaitedOf(q, i)
  BY <1>6 DEF Ready!AwaitedOf, AwaitedOf
<1> QED
  BY <1>2, <1>3, <1>5, <1>6, <1>7 DEF Ready!Full, Full

\* The steps of its loops and rounds.
LEMMA ReadyLoopSteps ==
    ASSUME NEW p \in Proc
    PROVE  /\ Ready!Advance(p) => Advance(p)
           /\ Ready!Forward(p) => Forward(p)
           /\ Ready!Drain(p) => Drain(p)
           /\ Ready!Leave(p) => Leave(p)
<1>1. Ready!Advance(p) => Advance(p)
  BY DEF Ready!Advance, Advance, Ready!MoreIterations, MoreIterations
<1>2. Ready!Forward(p) => Forward(p)
  BY DEF Ready!Forward, Forward, Ready!MayForward, MayForward
<1>3. Ready!Drain(p) => Drain(p)
  BY DEF Ready!Drain, Drain, Ready!Drained, Drained
<1>4. Ready!Leave(p) => Leave(p)
  BY DEF Ready!Leave, Leave
<1> QED
  BY <1>1, <1>2, <1>3, <1>4

LEMMA ReadyRoundSteps ==
    ASSUME NEW p \in Proc, NEW i \in Layer
    PROVE  /\ Ready!StartAllreduce(p, i) => StartAllreduce(p, i)
           /\ Ready!CompleteAllreduce(p, i) => CompleteAllreduce(p, i)
<1>1. \A f, n : Ready!Plus(f, p, i, n) = Plus(f, p, i, n)
  BY DEF Ready!Plus, Plus
<1>2. Ready!StartAllreduce(p, i) => StartAllreduce(p, i)
  BY <1>1 DEF Ready!StartAllreduce, StartAllreduce
<1>3. Ready!CompleteAllreduce(p, i) => CompleteAllreduce(p, i)
  BY <1>1, ReadyHelpers DEF Ready!CompleteAllreduce, CompleteAllreduce, Ready!LastChunk, LastChunk
<1> QED
  BY <1>2, <1>3

\* Every step enqueues nothing, or is one of the scheduler's.
LEMMA ReadySteps ==
    ASSUME [Ready!Next]_(Ready!vars)
    PROVE  \/ QuietMove /\ UNCHANGED Ready!schedulerVars
           \/ \E p \in Proc : Ready!Backward(p)
           \/ \E i \in Layer : Ready!Invoke(i) \/ Ready!Finish(i)
<1>1. CASE UNCHANGED Ready!vars
  BY <1>1 DEF Ready!vars, Ready!trainingVars, trainingVars, QuietMove
<1>2. ASSUME NEW p \in Proc, Ready!LoopStep(p), ~Ready!Backward(p)
      PROVE  QuietMove /\ UNCHANGED Ready!schedulerVars
  BY <1>2, ReadyLoopSteps DEF Ready!LoopStep, QuietMove
<1>3. ASSUME NEW p \in Proc, NEW i \in Layer, Ready!RoundStep(p, i)
      PROVE  QuietMove /\ UNCHANGED Ready!schedulerVars
  BY <1>3, ReadyRoundSteps DEF Ready!RoundStep, QuietMove
<1>4. Ready!Over => UNCHANGED Ready!vars
  BY DEF Ready!Over
<1> QED
  BY <1>1, <1>2, <1>3, <1>4, ReadyHelpers DEF Ready!Next, Ready!SchedulerStep

\* The lock of the job is the one ResourceProofs is about.
LEMMA ReadyLockAssumptions == TensorLock!IsFiniteSet(Layer) /\ 1 \in Nat \ {0}
<1>1. 0 \in Int /\ NLayers - 1 \in Int
  BY TrainingAssumption
<1>2. IsFiniteSet(Layer)
  BY <1>1, FS_Interval DEF Layer
<1> QED
  BY <1>2 DEF TensorLock!IsFiniteSet, IsFiniteSet

LEMMA ReadyLockSteps ==
    /\ Ready!Lock!Init => TensorLock!Init
    /\ \A i \in Layer : /\ Ready!Lock!Request(i) => TensorLock!Request(i)
                        /\ Ready!Lock!Resume(i) => TensorLock!Resume(i)
                        /\ Ready!Lock!Release(i) => TensorLock!Release(i)
<1>1. ASSUME NEW q, NEW st, NEW a
      PROVE  Ready!Lock!TriggerEvs(q, st, a) => TensorLock!TriggerEvs(q, st, a)
  <2>1. \A S : TensorLock!Cardinality(S) = Ready!Lock!Cardinality(S)
    BY DEF TensorLock!Cardinality, Ready!Lock!Cardinality, TensorLock!IsFiniteSet,
           Ready!Lock!IsFiniteSet
  <2>2. \A k : Ready!Lock!Live(q, st, k) = TensorLock!Live(q, st, k)
    BY DEF Ready!Lock!Live, TensorLock!Live
  <2>3. \A k : Ready!Lock!UnitsTaken(q, st, k) = TensorLock!UnitsTaken(q, st, k)
    BY <2>1, <2>2 DEF Ready!Lock!UnitsTaken, TensorLock!UnitsTaken
  <2>4. \A k : Ready!Lock!Popped(q, st, a, k) <=> TensorLock!Popped(q, st, a, k)
    BY <2>1, <2>2 DEF Ready!Lock!Popped, TensorLock!Popped
  <2>5. \A k : Ready!Lock!Remaining(q, k) = TensorLock!Remaining(q, k)
    BY DEF Ready!Lock!Remaining, TensorLock!Remaining
  <2> QED
    BY <2>3, <2>4, <2>5, ReadyHelpers DEF Ready!Lock!TriggerEvs, TensorLock!TriggerEvs
<1>2. Ready!Lock!Init => TensorLock!Init
  BY ReadyHelpers DEF Ready!Lock!Init, TensorLock!Init
<1>3. ASSUME NEW i \in Layer PROVE Ready!Lock!Resume(i) => TensorLock!Resume(i)
  BY DEF Ready!Lock!Resume, TensorLock!Resume
<1>4. ASSUME NEW i \in Layer PROVE Ready!Lock!Request(i) => TensorLock!Request(i)
  BY <1>1 DEF Ready!Lock!Request, TensorLock!Request, Ready!Lock!Queued, TensorLock!Queued
<1>5. ASSUME NEW i \in Layer PROVE Ready!Lock!Release(i) => TensorLock!Release(i)
  BY <1>1 DEF Ready!Lock!Release, TensorLock!Release
<1> QED
  BY <1>2, <1>3, <1>4, <1>5

\* What the steps of the lock do to the tensors that ask for it or hold it.
LEMMA ReadyRequest ==
    ASSUME TensorLock!IInv, NEW i \in Layer, Ready!Lock!Request(i)
    PROVE  /\ TensorLock!IInv' /\ state[i] = "idle"
           /\ \A l \in Layer : /\ state'[l] = "holding" <=> state[l] = "holding"
                               /\ l # i /\ TensorLock!Asks(l)' => TensorLock!Asks(l)
<1>1. TensorLock!IsFiniteSet(Layer) /\ 1 \in Nat \ {0}
  BY ReadyLockAssumptions
<1>2. TensorLock!Request(i)
  BY ReadyLockSteps
<1>3. TensorLock!IInv'
  BY <1>1, <1>2, TensorLock!RequestInv
<1>4. state[i] = "idle"
  BY <1>2 DEF TensorLock!Request
<1>5. \A l \in Layer : /\ state'[l] = "holding" <=> state[l] = "holding"
                       /\ l # i /\ TensorLock!Asks(l)' => TensorLock!Asks(l)
  BY <1>1, <1>2, TensorLock!RequestOutcome
<1> QED
  BY <1>3, <1>4, <1>5

LEMMA ReadyResume ==
    ASSUME TensorLock!IInv, NEW i \in Layer, Ready!Lock!Resume(i)
    PROVE  /\ TensorLock!IInv' /\ TensorLock!Asks(i)
           /\ state[i] = "triggered" /\ state'[i] = "holding"
           /\ \A l \in Layer : l # i => state'[l] = state[l]
<1>1. TensorLock!IsFiniteSet(Layer) /\ 1 \in Nat \ {0}
  BY ReadyLockAssumptions
<1>2. TensorLock!Resume(i)
  BY ReadyLockSteps
<1>3. TensorLock!IInv'
  BY <1>1, <1>2, TensorLock!ResumeInv
<1>4. state[i] = "triggered" /\ state' = [state EXCEPT ![i] = "holding"]
      /\ state \in [Layer -> TensorLock!State]
  BY <1>2 DEF TensorLock!Resume, TensorLock!IInv, TensorLock!TypeOK
<1> QED
  BY <1>3, <1>4 DEF TensorLock!Asks

LEMMA ReadyRelease ==
    ASSUME TensorLock!IInv, NEW i \in Layer, Ready!Lock!Release(i)
    PROVE  /\ TensorLock!IInv'
           /\ \A l \in Layer : /\ state'[l] = "holding" <=> l # i /\ state[l] = "holding"
                               /\ TensorLock!Asks(l)' => TensorLock!Asks(l)
<1>1. TensorLock!IsFiniteSet(Layer) /\ 1 \in Nat \ {0}
  BY ReadyLockAssumptions
<1>2. TensorLock!Release(i)
  BY ReadyLockSteps
<1>3. TensorLock!IInv'
  BY <1>1, <1>2, TensorLock!ReleaseInv
<1>4. \A l \in Layer : /\ state'[l] = "holding" <=> l # i /\ state[l] = "holding"
                       /\ TensorLock!Asks(l)' => TensorLock!Asks(l)
  BY <1>1, <1>2, TensorLock!ReleaseOutcome
<1> QED
  BY <1>3, <1>4

LEMMA ReadyAlone ==
    ASSUME TensorLock!IInv, NEW i \in Layer, NEW l \in Layer, state[i] \in {"triggered", "holding"},
           state[l] \in {"triggered", "holding"}
    PROVE  i = l
<1>1. TensorLock!IsFiniteSet(Layer) /\ 1 \in Nat \ {0}
  BY ReadyLockAssumptions
<1>2. i \in TensorLock!Holders /\ l \in TensorLock!Holders
  BY DEF TensorLock!Holders
<1>3. \A x, y \in TensorLock!Holders : x = y
  BY <1>1, TensorLock!OneHolder
<1> QED
  BY <1>2, <1>3

\* Steps that neither enqueue nor call.
LEMMA ReadyQuiet ==
    ASSUME ReadyInv, QuietMove, UNCHANGED Ready!schedulerVars
    PROVE  ReadyInv'
<1>1. UNCHANGED <<queue, available_, evs, state, batch>>
  BY DEF Ready!schedulerVars
<1>2. /\ GateInv' /\ called' = called
      /\ \A p \in Proc, i \in Layer :
            /\ done'[p][i] >= done[p][i]
            /\ NWorkers(p) > 1 => Due(p, i)' = Due(p, i)
  BY <1>1, GateQuiet DEF ReadyInv
<1>3. TensorLock!IInv'
  BY <1>1 DEF ReadyInv, TensorLock!IInv, TensorLock!TypeOK, TensorLock!UnitsConserved,
              TensorLock!NoIdleUnit, TensorLock!QueueIsWaiters, TensorLock!Holders
<1>4. \A i \in Layer : TensorLock!Asks(i)' <=> TensorLock!Asks(i)
  BY <1>1 DEF TensorLock!Asks
<1>5. \A i \in Layer : Gathers(i) => Gathers(i)'
  BY <1>1, <1>2, GathersStill DEF ReadyInv
<1>6. ASSUME NEW i \in Layer, state[i] # "holding", NEW p \in Proc
      PROVE  called[p][i] = done'[p][i]
  <2>1. called[p][i] = done[p][i] /\ done'[p][i] >= done[p][i]
    BY <1>2, <1>6 DEF ReadyInv
  <2>2. done'[p][i] <= called[p][i] /\ done'[p][i] \in Nat /\ called[p][i] \in Nat
    <3>1. TrainingTypeOK' /\ CountsInOrder'
      BY <1>2 DEF GateInv, TrainingInv
    <3> QED
      BY <1>2, <3>1, GateTypes DEF TrainingTypeOK, CountsInOrder, ReadyInv
  <2> QED
    BY <2>1, <2>2, GateTypes DEF ReadyInv
<1> QED
  BY <1>1, <1>2, <1>3, <1>4, <1>5, <1>6 DEF ReadyInv

\* The backward pass and the enqueue.
LEMMA ReadyBackward ==
    ASSUME OneJob, ReadyInv, NEW p \in Proc, Ready!Backward(p)
    PROVE  ReadyInv'
<1>0. PICK l \in Layer : l = layer[p]
  BY LayerZero, GateTypes DEF ReadyInv
<1>1. /\ NWorkers(p) > 1 /\ Advance(p) /\ UNCHANGED <<fp_lock, called, started, done, batch>>
      /\ queue' = [queue EXCEPT ![l] = Append(queue[l], p)]
      /\ IF Full(Append(queue[l], p), p) THEN Ready!Lock!Request(l)
         ELSE UNCHANGED <<available_, evs, state>>
  BY <1>0, ReadyLoopSteps, ReadyHelpers DEF Ready!Backward, Ready!lockVars
<1>2. GateInv' /\ queue \in [Layer -> Seq(Proc)] /\ GateInv /\ TensorLock!IInv
  BY <1>1, GateAdvance DEF ReadyInv
<1>3. /\ queue' \in [Layer -> Seq(Proc)]
      /\ Len(queue'[l]) = Len(queue[l]) + 1 /\ Len(queue[l]) \in Nat
      /\ \A i \in Layer : i # l => queue'[i] = queue[i]
      /\ \A i \in Layer : Gathers(i) => Gathers(i)'
      /\ Gathers(l) => Len(queue[l]) < Cardinality(Proc)
  BY <1>0, <1>1, <1>2, GathersOneMore
<1>4. Cardinality(Proc) \in Nat
  BY TrainingAssumption, FS_CardinalityType
<1>5. Full(Append(queue[l], p), p) <=> Len(queue[l]) + 1 = Cardinality(Proc)
  <2>1. queue[l] \in Seq(Proc) /\ Len(Append(queue[l], p)) = Len(queue[l]) + 1
    BY <1>2
  <2> QED
    BY <2>1, OneTeam DEF Full
<1>6. CASE Full(Append(queue[l], p), p)
  <2>1. Ready!Lock!Request(l) /\ Len(queue'[l]) = Cardinality(Proc)
    BY <1>1, <1>3, <1>5, <1>6
  <2>2. /\ TensorLock!IInv' /\ state[l] = "idle"
        /\ \A i \in Layer : /\ state'[i] = "holding" <=> state[i] = "holding"
                            /\ i # l /\ TensorLock!Asks(i)' => TensorLock!Asks(i)
    BY <1>2, <2>1, ReadyRequest
  <2> QED
    BY <1>1, <1>2, <1>3, <2>1, <2>2 DEF ReadyInv
<1>7. CASE ~Full(Append(queue[l], p), p)
  <2>1. UNCHANGED <<available_, evs, state>>
    BY <1>1, <1>7
  <2>2. TensorLock!IInv' /\ \A i \in Layer : TensorLock!Asks(i)' <=> TensorLock!Asks(i)
    BY <1>2, <2>1 DEF TensorLock!IInv, TensorLock!TypeOK, TensorLock!UnitsConserved,
                      TensorLock!NoIdleUnit, TensorLock!QueueIsWaiters, TensorLock!Holders,
                      TensorLock!Asks
  <2>3. TensorLock!Asks(l) => Len(queue[l]) = Cardinality(Proc) /\ Gathers(l)
    BY DEF ReadyInv, TensorLock!Asks
  <2>4. ~TensorLock!Asks(l)
    BY <1>3, <1>4, <2>3
  <2>5. state[l] = "holding" => Len(queue'[l]) >= Cardinality(Proc)
    BY <1>3, <1>4 DEF ReadyInv
  <2> QED
    BY <1>1, <1>2, <1>3, <2>1, <2>2, <2>4, <2>5 DEF ReadyInv
<1> QED
  BY <1>6, <1>7

\* The lock is granted: nothing else is called.
LEMMA ReadyInvoke ==
    ASSUME OneJob, ReadyInv, NEW i \in Layer, Ready!Invoke(i)
    PROVE  ReadyInv'
<1>1. /\ Ready!Lock!Resume(i) /\ called' = InvokedOn(queue[i], i)
      /\ batch' = AwaitedOf(queue[i], i)
      /\ UNCHANGED <<pc, layer, it, fp_lock, started, done, queue>>
  BY ReadyHelpers DEF Ready!Invoke
<1>2. GateInv /\ TensorLock!IInv /\ queue \in [Layer -> Seq(Proc)]
  BY DEF ReadyInv
<1>3. /\ TensorLock!IInv' /\ TensorLock!Asks(i) /\ state[i] = "triggered" /\ state'[i] = "holding"
      /\ \A l \in Layer : l # i => state'[l] = state[l]
  BY <1>1, <1>2, ReadyResume
<1>4. \A l \in Layer : state[l] # "holding"
  <2> SUFFICES ASSUME NEW l \in Layer, state[l] = "holding" PROVE FALSE
    OBVIOUS
  <2>1. l = i
    BY <1>2, <1>3, ReadyAlone
  <2> QED
    BY <1>3, <2>1
<1>5. /\ \A p \in Proc, l \in Layer : called[p][l] = done[p][l]
      /\ Gathers(i) /\ Len(queue[i]) = Cardinality(Proc)
  BY <1>3, <1>4 DEF ReadyInv
<1>6. /\ GateInv'
      /\ \A p \in Proc, l \in Layer :
            /\ called'[p][l] = called[p][l] + One(l = i)
            /\ Due(p, l)' = Due(p, l)
  BY <1>1, <1>2, <1>5, JobInvokes
<1>7. \A p \in Proc, l \in Layer : l # i => called'[p][l] = called[p][l]
  <2> SUFFICES ASSUME NEW p \in Proc, NEW l \in Layer, l # i
               PROVE  called'[p][l] = called[p][l]
    OBVIOUS
  <2>1. One(l = i) = 0
    BY DEF One
  <2> QED
    BY <1>2, <1>6, <2>1, GateTypes
<1>8. ASSUME NEW l \in Layer, l # i
      PROVE  /\ Gathers(l) => Gathers(l)'
             /\ TensorLock!Asks(l)' <=> TensorLock!Asks(l)
  <2>1. Gathers(l) => Gathers(l)'
    BY <1>1, <1>2, <1>6, <1>7, <1>8, GathersStill
  <2>2. TensorLock!Asks(l)' <=> TensorLock!Asks(l)
    BY <1>3, <1>8 DEF TensorLock!Asks
  <2> QED
    BY <2>1, <2>2
<1>9. ~TensorLock!Asks(i)'
  BY <1>3 DEF TensorLock!Asks
<1>10. Cardinality(Proc) \in Nat
  BY TrainingAssumption, FS_CardinalityType
<1>11. ASSUME NEW l \in Layer
       PROVE  /\ state'[l] # "holding" => Gathers(l)'
              /\ state'[l] = "holding" => Len(queue'[l]) >= Cardinality(Proc)
              /\ TensorLock!Asks(l)' => Len(queue'[l]) = Cardinality(Proc)
              /\ state'[l] # "holding" => \A p \in Proc : called'[p][l] = done'[p][l]
  <2>1. CASE l = i
    BY <1>1, <1>3, <1>5, <1>9, <1>10, <2>1
  <2>2. CASE l # i
    BY <1>1, <1>3, <1>5, <1>7, <1>8, <2>2 DEF ReadyInv
  <2> QED
    BY <2>1, <2>2
<1> QED
  BY <1>1, <1>2, <1>3, <1>6, <1>11 DEF ReadyInv

\* all_of is triggered: the lock is given back and the queue erased.
LEMMA ReadyFinish ==
    ASSUME OneJob, ReadyInv, NEW i \in Layer, Ready!Finish(i)
    PROVE  ReadyInv'
<1>1. /\ state[i] = "holding" /\ AllDone /\ Ready!Lock!Release(i) /\ batch' = {}
      /\ queue' = [queue EXCEPT ![i] = <<>>] /\ UNCHANGED trainingVars
  BY DEF Ready!Finish, Ready!AllDone, AllDone, Ready!trainingVars, trainingVars
<1>2. GateInv /\ TensorLock!IInv /\ queue \in [Layer -> Seq(Proc)]
  BY DEF ReadyInv
<1>3. \A p \in Proc, l \in Layer : called[p][l] = done[p][l]
  BY <1>1, <1>2, AwaitEnds
<1>4. /\ TensorLock!IInv'
      /\ \A l \in Layer : /\ state'[l] = "holding" <=> l # i /\ state[l] = "holding"
                          /\ TensorLock!Asks(l)' => TensorLock!Asks(l)
  BY <1>1, <1>2, ReadyRelease
<1>5. QuietMove
  BY <1>1 DEF QuietMove
<1>6. /\ GateInv' /\ called' = called
      /\ \A p \in Proc, l \in Layer : NWorkers(p) > 1 => Due(p, l)' = Due(p, l)
  BY <1>2, <1>3, <1>5, GateQuiet
<1>7. queue' \in [Layer -> Seq(Proc)] /\ queue'[i] = <<>>
      /\ \A l \in Layer : l # i => queue'[l] = queue[l]
  BY <1>1, <1>2
<1>8. Gathers(i)'
  BY <1>7 DEF Gathers, EachOnce
<1>9. \A l \in Layer : l # i /\ Gathers(l) => Gathers(l)'
  BY <1>2, <1>6, <1>7, GathersStill
<1>10. ~TensorLock!Asks(i)
  BY <1>1 DEF TensorLock!Asks
<1>11. \A p \in Proc, l \in Layer : called'[p][l] = done'[p][l]
  BY <1>1, <1>3 DEF trainingVars
<1> QED
  BY <1>2, <1>4, <1>6, <1>7, <1>8, <1>9, <1>10, <1>11 DEF ReadyInv

LEMMA ReadyInit == Ready!Init => ReadyInv
<1> SUFFICES ASSUME Ready!Init PROVE ReadyInv
  OBVIOUS
<1>1. TrainingInit /\ queue = [i \in Layer |-> <<>>] /\ Ready!Lock!Init
  BY ReadyHelpers DEF Ready!Init, Ready!TrainingInit, TrainingInit, Ready!Zero, Zero
<1>2. GateInv
  BY <1>1, GateInit
<1>3. TensorLock!Init
  BY <1>1, ReadyLockSteps
<1>4. TensorLock!IInv
  BY <1>3, ReadyLockAssumptions, TensorLock!InitInv
<1>5. \A i \in Layer : state[i] = "idle" /\ queue[i] = <<>>
  BY <1>1, <1>3 DEF TensorLock!Init
<1>6. queue \in [Layer -> Seq(Proc)]
  BY <1>1
<1>7. \A i \in Layer : Gathers(i) /\ ~TensorLock!Asks(i)
  BY <1>5 DEF Gathers, EachOnce, TensorLock!Asks
<1>8. \A p \in Proc, i \in Layer : called[p][i] = done[p][i]
  BY <1>1 DEF TrainingInit
<1> QED
  BY <1>2, <1>4, <1>5, <1>6, <1>7, <1>8 DEF ReadyInv

LEMMA ReadyStep == OneJob /\ ReadyInv /\ [Ready!Next]_(Ready!vars) => ReadyInv'
<1> SUFFICES ASSUME OneJob, ReadyInv, [Ready!Next]_(Ready!vars) PROVE ReadyInv'
  OBVIOUS
<1>1. CASE QuietMove /\ UNCHANGED Ready!schedulerVars
  BY <1>1, ReadyQuiet
<1>2. ASSUME NEW p \in Proc, Ready!Backward(p) PROVE ReadyInv'
  BY <1>2, ReadyBackward
<1>3. ASSUME NEW i \in Layer, Ready!Invoke(i) \/ Ready!Finish(i) PROVE ReadyInv'
  BY <1>3, ReadyInvoke, ReadyFinish
<1> QED
  BY <1>1, <1>2, <1>3, ReadySteps

\* Two tensors in the network would have two coroutines hold the lock.
LEMMA ReadyOne == ReadyInv => Ready!OneTensorInNetwork
<1> SUFFICES ASSUME ReadyInv, NEW p \in Proc, NEW q \in Proc, NEW i \in Layer, NEW l \in Layer,
                    started[p][i] > done[p][i], started[q][l] > done[q][l]
             PROVE  i = l
  BY ReadyHelpers DEF Ready!OneTensorInNetwork
<1>1. GateInv /\ TensorLock!IInv
  BY DEF ReadyInv
<1>2. called[p][i] > done[p][i] /\ called[q][l] > done[q][l]
  BY <1>1, GateTypes
<1>3. called[p][i] # done[p][i] /\ called[q][l] # done[q][l]
  BY <1>1, <1>2, GateTypes
<1>4. state[i] = "holding" /\ state[l] = "holding"
  BY <1>3 DEF ReadyInv
<1> QED
  BY <1>1, <1>4, ReadyAlone

\* The lock of a job keeps its tensors apart: at most one of them is in the network,
\* although the coroutines of all that are full wait side by side.
THEOREM ReadyOneTensorInNetwork ==
    ASSUME OneJob
    PROVE  Ready!Spec => []Ready!OneTensorInNetwork
BY ReadyInit, ReadyStep, ReadyOne, PTL DEF Ready!Spec

\* A worker is called for what is awaited, as the gate requires.
LEMMA ReadyGated == ReadyInv => RoundsAreGated
BY GateGated DEF ReadyInv

\* What Worker::allreduce and Aggregation rely on, under ReadyAndGo, even where a
\* tensor's queue is filled again before it is erased.
THEOREM ReadyRoundsAreGated ==
    ASSUME OneJob
    PROVE  Ready!Spec => []RoundsAreGated
BY ReadyInit, ReadyStep, ReadyGated, PTL DEF Ready!Spec

\* allreduce is called only for what the worker has enqueued, and once for each.
THEOREM ReadyCallsAreEnqueued ==
    ASSUME OneJob
    PROVE  Ready!Spec => []\A p \in Proc, i \in Layer : called[p][i] <= Due(p, i)
<1>1. ReadyInv => \A p \in Proc, i \in Layer : called[p][i] <= Due(p, i)
  BY GateCalled DEF ReadyInv
<1> QED
  BY ReadyInit, ReadyStep, <1>1, PTL DEF Ready!Spec

\* "wait until final allreduces are done", under this scheduler.
THEOREM ReadyCleanupWaits ==
    ASSUME OneJob
    PROVE  Ready!Spec => []CleanupAfterAllreduce
<1>1. ReadyInv => CleanupAfterAllreduce
  BY DEF ReadyInv, GateInv, TrainingInv
<1> QED
  BY ReadyInit, ReadyStep, <1>1, PTL DEF Ready!Spec

LEMMA ReadyRoundMove == [Ready!Next]_(Ready!vars) => RoundMove
<1> SUFFICES ASSUME [Ready!Next]_(Ready!vars) PROVE RoundMove
  OBVIOUS
<1>1. CASE QuietMove
  BY <1>1, QuietIsRoundMove
<1>2. ASSUME NEW p \in Proc, Ready!Backward(p) PROVE RoundMove
  BY <1>2 DEF Ready!Backward, RoundMove, roundVars
<1>3. ASSUME NEW i \in Layer, Ready!Invoke(i) \/ Ready!Finish(i) PROVE RoundMove
  BY <1>3 DEF Ready!Invoke, Ready!Finish, Ready!trainingVars, RoundMove, roundVars
<1> QED
  BY <1>1, <1>2, <1>3, ReadySteps

\* Training under ReadyAndGo runs each tensor as a gated AllReduce of the rounds its
\* workers enqueue: the sessions Aggregation is proved for.
THEOREM ReadyImplementsGatedAllReduce ==
    ASSUME OneJob, NEW j \in Job, NEW i \in Layer
    PROVE  Ready!Spec => Fabric(j, i, NIter * Chunks[i])!Spec
<1> DEFINE rounds == NIter * Chunks[i]
<1>1. Ready!Init => Fabric(j, i, rounds)!Init
  <2>1. Ready!Init => TrainingInit
    BY ReadyHelpers DEF Ready!Init, Ready!TrainingInit, TrainingInit, Ready!Zero, Zero
  <2> QED
    BY <2>1, FabricInit
<1>2. ReadyInv /\ [Ready!Next]_(Ready!vars)
         => [Fabric(j, i, rounds)!Next]_(Fabric(j, i, rounds)!vars)
  BY ReadyRoundMove, GateFabric DEF ReadyInv
<1> HIDE DEF rounds
<1>3. Ready!Spec => Fabric(j, i, rounds)!Spec
  BY ReadyInit, ReadyStep, <1>1, <1>2, PTL DEF Ready!Spec, Fabric!Spec
<1> QED
  BY <1>3 DEF rounds

-----------------------------------------------------------------------------
(* ByteScheduler.                                                           *)

VARIABLES ready, top, active, alive, can_erase, kick

Byte == INSTANCE ByteScheduler

\* Workers gather in the queue of a tensor until it is full, and stay there for all of its
\* chunks; what comes once its last chunk is invoked is erased with it.
ByteQueues ==
    \A i \in Layer :
        /\ i \notin ready => Gathers(i)
        /\ i \in ready /\ i \notin can_erase =>
                Gathers(i) /\ Len(queue[i]) = Cardinality(Proc)
        /\ i \in ready /\ i \in can_erase => Len(queue[i]) >= Cardinality(Proc)

\* Only the loop that awaits has called anything, of one tensor; and it is active, unless
\* a worker has cleaned up.
ByteAwaits ==
    /\ kick # "await" => \A p \in Proc, i \in Layer : called[p][i] = done[p][i]
    /\ kick = "await" /\ ~active => \E p \in Proc : pc[p] = "done"
    /\ \E i \in Layer : \A p \in Proc, l \in Layer : l # i => called[p][l] = done[p][l]

\* The loops that have ended have run all iterations.
LoopsEnded == \A p \in Proc : pc[p] \in {"drain", "cleanup", "done"} => it[p] = NIter

ByteInv ==
    /\ GateInv
    /\ LoopsEnded
    /\ queue \in [Layer -> Seq(Proc)]
    /\ ready \in SUBSET Layer
    /\ ByteQueues
    /\ ByteAwaits

\* The helpers of the instance.
LEMMA ByteHelpers ==
    /\ Byte!Layer = Layer
    /\ \A p : Byte!NWorkers(p) = NWorkers(p)
    /\ \A q, i : Byte!InvokedOn(q, i) = InvokedOn(q, i) /\ Byte!AwaitedOf(q, i) = AwaitedOf(q, i)
    /\ \A q, p : Byte!Full(q, p) <=> Full(q, p)
    /\ \A p, i : Byte!Enqueued(p, i) = Enqueued(p, i)
    /\ Byte!Cardinality(Proc) = Cardinality(Proc)
    /\ Byte!AllDone <=> AllDone
<1>1. \A S : Byte!Cardinality(S) = Cardinality(S)
  BY DEF Byte!Cardinality, Byte!IsFiniteSet, Cardinality, IsFiniteSet
<1>2. \A p : Byte!NWorkers(p) = NWorkers(p)
  BY <1>1 DEF Byte!NWorkers, NWorkers, Byte!Workers, Workers
<1>3. \A q, p : Byte!Occurrences(q, p) = Occurrences(q, p)
  BY <1>1 DEF Byte!Occurrences, Occurrences
<1>4. Byte!Layer = Layer
  BY DEF Byte!Layer, Layer
<1>5. \A q, i : Byte!InvokedOn(q, i) = InvokedOn(q, i)
  BY <1>3, <1>4 DEF Byte!InvokedOn, InvokedOn
<1>6. \A q, i : Byte!AwaitedOf(q, i) = AwaitedOf(q, i)
  BY <1>5 DEF Byte!AwaitedOf, AwaitedOf
<1>7. \A q, p : Byte!Full(q, p) <=> Full(q, p)
  BY <1>2 DEF Byte!Full, Full
<1>8. \A p, i : Byte!Enqueued(p, i) = Enqueued(p, i)
  BY DEF Byte!Enqueued, Enqueued
<1>9. Byte!AllDone <=> AllDone
  BY DEF Byte!AllDone, AllDone
<1> QED
  BY <1>1, <1>2, <1>4, <1>5, <1>6, <1>7, <1>8, <1>9

\* The steps of its loops and rounds.
LEMMA ByteLoopSteps ==
    ASSUME NEW p \in Proc
    PROVE  /\ Byte!Advance(p) => Advance(p)
           /\ Byte!Forward(p) => Forward(p)
           /\ Byte!Drain(p) => Drain(p)
           /\ Byte!Leave(p) => Leave(p)
<1>1. Byte!Advance(p) => Advance(p)
  BY DEF Byte!Advance, Advance, Byte!MoreIterations, MoreIterations
<1>2. Byte!Forward(p) => Forward(p)
  BY DEF Byte!Forward, Forward, Byte!MayForward, MayForward
<1>3. Byte!Drain(p) => Drain(p)
  BY DEF Byte!Drain, Drain, Byte!Drained, Drained
<1>4. Byte!Leave(p) => Leave(p)
  BY DEF Byte!Leave, Leave
<1> QED
  BY <1>1, <1>2, <1>3, <1>4

LEMMA ByteRoundSteps ==
    ASSUME NEW p \in Proc, NEW i \in Layer
    PROVE  /\ Byte!StartAllreduce(p, i) => StartAllreduce(p, i)
           /\ Byte!CompleteAllreduce(p, i) => CompleteAllreduce(p, i)
<1>1. \A f, n : Byte!Plus(f, p, i, n) = Plus(f, p, i, n)
  BY DEF Byte!Plus, Plus
<1>2. Byte!StartAllreduce(p, i) => StartAllreduce(p, i)
  BY <1>1 DEF Byte!StartAllreduce, StartAllreduce
<1>3. Byte!Workers(JobOf[p]) = Workers(JobOf[p])
  BY DEF Byte!Workers, Workers
<1>4. Byte!CompleteAllreduce(p, i) => CompleteAllreduce(p, i)
  BY <1>1, <1>3 DEF Byte!CompleteAllreduce, CompleteAllreduce, Byte!LastChunk, LastChunk
<1> QED
  BY <1>2, <1>4

\* Every step enqueues nothing, or is one of the scheduler's.
LEMMA ByteSteps ==
    ASSUME [Byte!Next]_(Byte!vars)
    PROVE  \/ QuietMove /\ UNCHANGED Byte!schedulerVars
           \/ \E p \in Proc : Byte!Backward(p) \/ Byte!CleanUp(p)
           \/ Byte!Turn
<1>1. CASE UNCHANGED Byte!vars
  BY <1>1 DEF Byte!vars, Byte!trainingVars, trainingVars, QuietMove
<1>2. ASSUME NEW p \in Proc, Byte!LoopStep(p), ~Byte!Backward(p), ~Byte!CleanUp(p)
      PROVE  QuietMove /\ UNCHANGED Byte!schedulerVars
  BY <1>2, ByteLoopSteps DEF Byte!LoopStep, QuietMove
<1>3. ASSUME NEW p \in Proc, NEW i \in Layer, Byte!RoundStep(p, i)
      PROVE  QuietMove /\ UNCHANGED Byte!schedulerVars
  BY <1>3, ByteRoundSteps DEF Byte!RoundStep, QuietMove
<1>4. Byte!Over => UNCHANGED Byte!vars
  BY DEF Byte!Over
<1> QED
  BY <1>1, <1>2, <1>3, <1>4, ByteHelpers DEF Byte!Next

\* A worker that has left stays so.
LEMMA DoneStays ==
    ASSUME TrainingTypeOK, NEW p \in Proc, pc[p] = "done",
           QuietMove \/ \E q \in Proc : Advance(q)
    PROVE  pc'[p] = "done"
<1>1. ASSUME NEW q \in Proc, Forward(q) \/ BackwardAlone(q) \/ Drain(q) \/ Leave(q) \/ Advance(q)
      PROVE  pc'[p] = "done"
  <2>1. pc[q] # "done" /\ \E s : pc' = pc \/ pc' = [pc EXCEPT ![q] = s]
    BY <1>1 DEF Forward, BackwardAlone, Drain, Leave, Advance
  <2>2. pc \in [Proc -> {"forward", "backward", "drain", "cleanup", "done"}]
    BY DEF TrainingTypeOK
  <2> QED
    BY <2>1, <2>2
<1>2. ASSUME NEW q \in Proc, NEW i \in Layer, StartAllreduce(q, i) \/ CompleteAllreduce(q, i)
      PROVE  pc'[p] = "done"
  BY <1>2 DEF StartAllreduce, CompleteAllreduce
<1>3. UNCHANGED trainingVars => pc'[p] = "done"
  BY DEF trainingVars
<1> QED
  BY <1>1, <1>2, <1>3 DEF QuietMove

LEMMA LoopsEndedSteps ==
    ASSUME TrainingInv, LoopsEnded, QuietMove \/ \E q \in Proc : Advance(q)
    PROVE  LoopsEnded'
<1>0. TrainingTypeOK /\ InsideIterations /\ NIter \in Nat
  BY TrainingAssumption DEF TrainingInv
<1>1. ASSUME NEW q \in Proc, Advance(q) PROVE LoopsEnded'
  <2> SUFFICES ASSUME NEW p \in Proc, pc'[p] \in {"drain", "cleanup", "done"}
               PROVE  it'[p] = NIter
    BY DEF LoopsEnded
  <2>1. pc \in [Proc -> {"forward", "backward", "drain", "cleanup", "done"}]
        /\ it \in [Proc -> 0 .. NIter] /\ pc[q] = "backward" /\ it[q] < NIter
    BY <1>0, <1>1 DEF TrainingTypeOK, InsideIterations, Advance
  <2>2. CASE p = q
    <3>1. pc'[q] # pc[q]
      BY <2>1, <2>2
    <3>2. it' = [it EXCEPT ![q] = @ + 1] /\ ~MoreIterations(q)
      BY <1>1, <2>1, <2>2, <3>1 DEF Advance
    <3> QED
      BY <1>0, <2>1, <2>2, <3>2 DEF MoreIterations
  <2>3. CASE p # q
    <3>1. pc'[p] = pc[p] /\ it'[p] = it[p]
      BY <1>1, <2>1, <2>3 DEF Advance
    <3> QED
      BY <3>1 DEF LoopsEnded
  <2> QED
    BY <2>2, <2>3
<1>2. ASSUME NEW q \in Proc, Forward(q) \/ Drain(q) \/ Leave(q) PROVE LoopsEnded'
  <2>1. /\ it' = it /\ \A p \in Proc : p # q => pc'[p] = pc[p]
        /\ \/ pc'[q] = pc[q] \/ pc'[q] = "backward" \/ pc[q] \in {"drain", "cleanup"}
    BY <1>0, <1>2 DEF TrainingTypeOK, Forward, Drain, Leave
  <2> QED
    BY <2>1 DEF LoopsEnded
<1>3. ASSUME NEW q \in Proc, NEW i \in Layer, StartAllreduce(q, i) \/ CompleteAllreduce(q, i)
      PROVE  LoopsEnded'
  BY <1>3 DEF StartAllreduce, CompleteAllreduce, LoopsEnded
<1>4. UNCHANGED trainingVars => LoopsEnded'
  BY DEF trainingVars, LoopsEnded
<1> QED
  BY <1>1, <1>2, <1>3, <1>4 DEF QuietMove, BackwardAlone

\* Once a worker of the job has left, none enqueues any more.
LEMMA NoEnqueueAfterDone ==
    ASSUME OneJob, GateInv, LoopsEnded, NEW p \in Proc, pc[p] = "done",
           NEW q \in Proc, pc[q] = "backward", NWorkers(q) > 1
    PROVE  FALSE
<1>0. PICK l \in Layer : l = layer[q]
  BY LayerZero, GateTypes
<1>1. JobOf[p] = JobOf[q] /\ NWorkers(p) > 1
  BY DEF OneJob, NWorkers
<1>2. called[p][l] = Due(p, l) /\ called[q][l] <= Due(q, l) /\ called[p][l] = called[q][l]
  BY <1>1 DEF GateInv, RoundsDue, CalledTogether, Passed
<1>3. TrainingTypeOK /\ InsideIterations
  BY DEF GateInv, TrainingInv
<1>4. it[p] = NIter /\ it[q] < NIter /\ it[q] \in Nat /\ NIter \in Nat
  BY <1>3, TrainingAssumption DEF InsideIterations, TrainingTypeOK, LoopsEnded
<1>5. layer[q] \in Nat
  BY <1>3, TypeFacts, LayerZero
<1>6. Enqueued(p, l) = NIter /\ Enqueued(q, l) = it[q]
  BY <1>0, <1>4, <1>5 DEF Enqueued
<1> DEFINE m == it[q]
           c == Chunks[l]
<1>7. NIter * c <= m * c
  BY <1>2, <1>6 DEF Due
<1>8. c \in Nat \ {0} /\ m \in Nat /\ m < NIter /\ NIter \in Nat
  BY <1>4, GateTypes
<1> HIDE DEF m, c
<1>9. PICK d \in Nat : NIter = m + 1 + d
  <2>1. NIter - m - 1 \in Nat /\ NIter = m + 1 + (NIter - m - 1)
    BY <1>8
  <2> QED
    BY <2>1
<1>10. NIter * c = m * c + c + d * c
  BY <1>8, <1>9
<1>11. m * c \in Nat /\ d * c \in Nat
  BY <1>8, <1>9
<1> QED
  BY <1>7, <1>8, <1>10, <1>11

\* Steps that neither enqueue nor call.
LEMMA ByteQuiet ==
    ASSUME ByteInv, QuietMove, UNCHANGED Byte!schedulerVars
    PROVE  ByteInv'
<1>1. UNCHANGED <<queue, ready, active, can_erase, kick, batch>>
  BY DEF Byte!schedulerVars
<1>2. /\ GateInv' /\ called' = called
      /\ \A p \in Proc, i \in Layer :
            /\ done'[p][i] >= done[p][i]
            /\ NWorkers(p) > 1 => Due(p, i)' = Due(p, i)
  BY <1>1, GateQuiet DEF ByteInv
<1>3. \A i \in Layer : Gathers(i) => Gathers(i)'
  BY <1>1, <1>2, GathersStill DEF ByteInv
<1>4. ByteQueues'
  BY <1>1, <1>3 DEF ByteInv, ByteQueues
<1>5. ASSUME NEW p \in Proc, NEW i \in Layer, called[p][i] = done[p][i]
      PROVE  called'[p][i] = done'[p][i]
  <2>1. done'[p][i] <= started'[p][i] /\ started'[p][i] <= called'[p][i]
        /\ done'[p][i] \in Nat /\ started'[p][i] \in Nat
    BY <1>2 DEF GateInv, TrainingInv, CountsInOrder, TrainingTypeOK
  <2>2. called'[p][i] = called[p][i] /\ called[p][i] \in Nat /\ done'[p][i] >= done[p][i]
    BY <1>2, GateTypes DEF ByteInv
  <2> QED
    BY <1>5, <2>1, <2>2
<1>6. \A p \in Proc : pc[p] = "done" => pc'[p] = "done"
  BY DoneStays DEF ByteInv, GateInv, TrainingInv
<1>7. ByteAwaits'
  BY <1>1, <1>5, <1>6 DEF ByteInv, ByteAwaits
<1>8. LoopsEnded'
  BY LoopsEndedSteps DEF ByteInv, GateInv
<1> QED
  BY <1>1, <1>2, <1>4, <1>7, <1>8 DEF ByteInv

\* The backward pass and the enqueue.
LEMMA ByteBackward ==
    ASSUME OneJob, ByteInv, NEW p \in Proc, Byte!Backward(p)
    PROVE  ByteInv'
<1>0. PICK l \in Layer : l = layer[p]
  BY LayerZero, GateTypes DEF ByteInv
<1>1. /\ NWorkers(p) > 1 /\ Advance(p)
      /\ UNCHANGED <<fp_lock, called, started, done, can_erase, batch>>
      /\ queue' = [queue EXCEPT ![l] = Append(queue[l], p)]
      /\ IF Full(Append(queue[l], p), p)
         THEN /\ ready' = ready \union {l} /\ active' = TRUE
              /\ kick' = IF active THEN kick ELSE "start"
         ELSE UNCHANGED <<ready, active, kick>>
  BY <1>0, ByteLoopSteps, ByteHelpers DEF Byte!Backward
<1>2. GateInv' /\ queue \in [Layer -> Seq(Proc)] /\ GateInv /\ ready' \in SUBSET Layer
  BY <1>1, GateAdvance DEF ByteInv
<1>3. /\ queue' \in [Layer -> Seq(Proc)]
      /\ Len(queue'[l]) = Len(queue[l]) + 1 /\ Len(queue[l]) \in Nat
      /\ \A i \in Layer : i # l => queue'[i] = queue[i]
      /\ \A i \in Layer : Gathers(i) => Gathers(i)'
      /\ Gathers(l) => Len(queue[l]) < Cardinality(Proc)
  BY <1>0, <1>1, <1>2, GathersOneMore
<1>4. Cardinality(Proc) \in Nat
  BY TrainingAssumption, FS_CardinalityType
<1>5. Full(Append(queue[l], p), p) <=> Len(queue[l]) + 1 = Cardinality(Proc)
  <2>1. queue[l] \in Seq(Proc) /\ Len(Append(queue[l], p)) = Len(queue[l]) + 1
    BY <1>2
  <2> QED
    BY <2>1, OneTeam DEF Full
<1>6. LoopsEnded'
  BY <1>1, LoopsEndedSteps DEF ByteInv, GateInv
<1>7. ~\E q \in Proc : pc[q] = "done"
  <2>1. pc[p] = "backward"
    BY <1>1 DEF Advance
  <2> QED
    BY <1>1, <2>1, NoEnqueueAfterDone DEF ByteInv
<1>8. ByteAwaits'
  <2>1. kick = "await" => active
    BY <1>7 DEF ByteInv, ByteAwaits
  <2>2. kick' = "await" => kick = "await" /\ active'
    BY <1>1, <2>1
  <2>3. kick = "await" => kick' = "await"
    BY <1>1, <2>1
  <2> QED
    BY <1>1, <2>2, <2>3 DEF ByteInv, ByteAwaits
<1>9. l \in ready => l \in can_erase
  BY <1>3, <1>4 DEF ByteInv, ByteQueues
<1>10. l \in ready => Len(queue[l]) >= Cardinality(Proc)
  BY <1>9 DEF ByteInv, ByteQueues
<1>11. CASE Full(Append(queue[l], p), p)
  <2>1. l \notin ready /\ Len(queue'[l]) = Cardinality(Proc) /\ Gathers(l)'
    BY <1>3, <1>4, <1>5, <1>10, <1>11 DEF ByteInv, ByteQueues
  <2>2. ByteQueues'
    BY <1>1, <1>3, <1>4, <1>11, <2>1 DEF ByteInv, ByteQueues
  <2> QED
    BY <1>2, <1>3, <1>6, <1>8, <2>2 DEF ByteInv
<1>12. CASE ~Full(Append(queue[l], p), p)
  <2>1. UNCHANGED <<ready, can_erase>>
    BY <1>1, <1>12
  <2>2. l \in ready => Len(queue'[l]) >= Cardinality(Proc)
    BY <1>3, <1>4, <1>10
  <2>3. ByteQueues'
    BY <1>3, <1>9, <2>1, <2>2 DEF ByteInv, ByteQueues
  <2> QED
    BY <1>2, <1>3, <1>6, <1>8, <2>3 DEF ByteInv
<1> QED
  BY <1>11, <1>12

\* The end of a job takes all of its queues.
LEMMA ByteCleanUp ==
    ASSUME OneJob, ByteInv, NEW p \in Proc, Byte!CleanUp(p)
    PROVE  ByteInv'
<1>1. /\ Leave(p) /\ queue' = [i \in Layer |-> <<>>] /\ ready' = {}
      /\ UNCHANGED <<can_erase, kick, batch>>
  BY ByteLoopSteps, ByteHelpers DEF Byte!CleanUp
<1>2. QuietMove
  BY <1>1 DEF QuietMove
<1>3. GateInv' /\ called' = called /\ done' = done /\ pc'[p] = "done" /\ LoopsEnded'
  <2>1. GateInv' /\ called' = called /\ LoopsEnded'
    BY <1>1, <1>2, GateQuiet, LoopsEndedSteps DEF ByteInv, GateInv
  <2>2. done' = done /\ pc' = [pc EXCEPT ![p] = "done"] /\ TrainingTypeOK
    BY <1>1 DEF Leave, ByteInv, GateInv, TrainingInv
  <2>3. pc'[p] = "done"
    BY <2>2 DEF TrainingTypeOK
  <2> QED
    BY <2>1, <2>2, <2>3
<1>4. queue' \in [Layer -> Seq(Proc)] /\ ready' \in SUBSET Layer
  BY <1>1
<1>5. \A i \in Layer : Gathers(i)'
  BY <1>1 DEF Gathers, EachOnce
<1>6. ByteQueues'
  BY <1>1, <1>5 DEF ByteQueues
<1>7. ByteAwaits'
  BY <1>1, <1>3 DEF ByteInv, ByteAwaits
<1> QED
  BY <1>3, <1>4, <1>6, <1>7 DEF ByteInv

\* Where a turn starts everything called has ended.
LEMMA TurnFinds ==
    ASSUME ByteInv, Byte!Turn, NEW p \in Proc, NEW i \in Layer
    PROVE  called[p][i] = done[p][i]
<1>1. kick # "await" \/ AllDone
  BY ByteHelpers DEF Byte!Turn
<1> QED
  BY <1>1, AwaitEnds DEF ByteInv, ByteAwaits

\* The loop ends when nothing is left.
LEMMA ByteTurnEnds ==
    ASSUME ByteInv, Byte!Turn, NEW E \in SUBSET Layer, Byte!Quiet(E)
    PROVE  ByteInv'
<1>1. /\ E = ready /\ ready' = {} /\ batch' = {} /\ kick' = "off"
      /\ queue' = [i \in Layer |-> IF i \in E THEN <<>> ELSE queue[i]]
      /\ UNCHANGED trainingVars
  BY ByteHelpers DEF Byte!Quiet, Byte!Erased, Byte!trainingVars, trainingVars
<1>2. QuietMove /\ \A p \in Proc, i \in Layer : called[p][i] = done[p][i]
  BY <1>1, TurnFinds DEF QuietMove
<1>3. /\ GateInv' /\ called' = called
      /\ \A p \in Proc, i \in Layer : NWorkers(p) > 1 => Due(p, i)' = Due(p, i)
  BY <1>2, GateQuiet DEF ByteInv
<1>4. LoopsEnded'
  BY <1>2, LoopsEndedSteps DEF ByteInv, GateInv
<1>5. queue' \in [Layer -> Seq(Proc)] /\ ready' \in SUBSET Layer
  BY <1>1 DEF ByteInv
<1>6. ASSUME NEW i \in Layer PROVE Gathers(i)'
  <2>1. CASE i \in ready
    <3>1. queue'[i] = <<>>
      BY <1>1, <2>1
    <3> QED
      BY <3>1 DEF Gathers, EachOnce
  <2>2. CASE i \notin ready
    <3>1. queue'[i] = queue[i] /\ Gathers(i)
      BY <1>1, <2>2 DEF ByteInv, ByteQueues
    <3> QED
      BY <1>3, <3>1, GathersStill DEF ByteInv
  <2> QED
    BY <2>1, <2>2
<1>7. ByteQueues'
  BY <1>1, <1>6 DEF ByteQueues
<1>8. ByteAwaits'
  BY <1>1, <1>2, LayerZero DEF ByteAwaits, trainingVars
<1> QED
  BY <1>3, <1>4, <1>5, <1>7, <1>8 DEF ByteInv

\* Rounds that are due, and the next is not the last of its tensor: one more is due.
LEMMA NotTheLast ==
    ASSUME NEW n \in Nat, NEW e \in Nat, NEW c \in Nat \ {0}, n < e * c, n % c # c - 1
    PROVE  n + 1 < e * c
<1>1. SUFFICES ASSUME n + 1 = e * c PROVE FALSE
  <2>1. e * c \in Nat
    OBVIOUS
  <2> QED
    BY <2>1
<1>2. e # 0
  BY <1>1
<1>3. PICK d \in Nat : e = d + 1
  <2>1. e - 1 \in Nat /\ e = (e - 1) + 1
    BY <1>2
  <2> QED
    BY <2>1
<1>4. e * c = d * c + c
  BY <1>3
<1>5. n = d * c + (c - 1) /\ c - 1 \in 0 .. c - 1 /\ d * c \in Nat
  BY <1>1, <1>4
<1> DEFINE r == n % c
           m == n \div c
<1>6. m \in Nat /\ r \in 0 .. c - 1 /\ n = m * c + r
  OBVIOUS
<1> HIDE DEF m, r
<1>7. m * c + r = d * c + (c - 1)
  BY <1>5, <1>6
<1>8. CASE m = d
  BY <1>6, <1>7, <1>8 DEF r
<1>9. CASE m < d
  <2>1. PICK x \in Nat : d = m + 1 + x
    <3>1. d - m - 1 \in Nat /\ d = m + 1 + (d - m - 1)
      BY <1>6, <1>9
    <3> QED
      BY <3>1
  <2>2. d * c = m * c + c + x * c /\ x * c \in Nat /\ m * c \in Nat
    BY <1>6, <2>1
  <2> QED
    BY <1>6, <1>7, <2>2
<1>10. CASE m > d
  <2>1. PICK x \in Nat : m = d + 1 + x
    <3>1. m - d - 1 \in Nat /\ m = d + 1 + (m - d - 1)
      BY <1>6, <1>10
    <3> QED
      BY <3>1
  <2>2. m * c = d * c + c + x * c /\ x * c \in Nat /\ d * c \in Nat
    BY <1>6, <2>1
  <2>3. r = c - 1
    BY <1>6, <1>7, <2>2
  <2> QED
    BY <1>6, <2>3 DEF r
<1> QED
  BY <1>6, <1>8, <1>9, <1>10

\* The next chunk of a tensor whose chunks are not all invoked.
LEMMA ByteTurnInvokes ==
    ASSUME OneJob, ByteInv, Byte!Turn, active, NEW E \in SUBSET ready, NEW i \in ready,
           i \notin E, i \notin can_erase, Byte!InvokeChunk(E, i)
    PROVE  ByteInv'
<1>0. PICK q \in Seq(Proc) : q = queue[i]
  BY DEF ByteInv
<1>1. /\ ready' = ready \ E /\ kick' = "await" /\ active' = active
      /\ queue' = [l \in Layer |-> IF l \in E THEN <<>> ELSE queue[l]]
      /\ can_erase' = (can_erase \ E) \union (IF Byte!LastInvoked(i) THEN {i} ELSE {})
      /\ called' = InvokedOn(q, i) /\ batch' = AwaitedOf(q, i)
      /\ UNCHANGED <<pc, layer, it, fp_lock, started, done>>
  BY <1>0, ByteHelpers DEF Byte!InvokeChunk, Byte!Erased
<1>2. /\ GateInv /\ queue \in [Layer -> Seq(Proc)] /\ ready \in SUBSET Layer /\ i \in Layer
      /\ Gathers(i) /\ Len(q) = Cardinality(Proc)
  BY <1>0 DEF ByteInv, ByteQueues
<1>3. \A p \in Proc, l \in Layer : called[p][l] = done[p][l]
  BY TurnFinds
<1>4. /\ GateInv'
      /\ \A p \in Proc, l \in Layer :
            /\ called'[p][l] = called[p][l] + One(l = i)
            /\ Due(p, l)' = Due(p, l)
      /\ \A p \in Proc : \E n \in DOMAIN q : q[n] = p
  BY <1>0, <1>1, <1>2, <1>3, JobInvokes
<1>5. \A p \in Proc :
        /\ called'[p][i] = called[p][i] + 1
        /\ \A l \in Layer : l # i => called'[p][l] = called[p][l]
  <2> SUFFICES ASSUME NEW p \in Proc
               PROVE  /\ called'[p][i] = called[p][i] + 1
                      /\ \A l \in Layer : l # i => called'[p][l] = called[p][l]
    OBVIOUS
  <2>1. \A l \in Layer : One(l = i) = IF l = i THEN 1 ELSE 0
    BY DEF One
  <2>2. \A l \in Layer : called[p][l] \in Nat
    BY <1>2, GateTypes
  <2> QED
    BY <1>2, <1>4, <2>1, <2>2
<1>6. Cardinality(Proc) \in Nat
  BY TrainingAssumption, FS_CardinalityType
<1>7. LoopsEnded'
  BY <1>1 DEF ByteInv, LoopsEnded
<1>8. ByteAwaits'
  BY <1>1, <1>2, <1>3, <1>5 DEF ByteAwaits
<1>9. queue' \in [Layer -> Seq(Proc)] /\ ready' \in SUBSET Layer
  BY <1>1, <1>2
<1>10. ~Byte!LastInvoked(i) => Gathers(i)'
  <2> SUFFICES ASSUME ~Byte!LastInvoked(i) PROVE Gathers(i)'
    OBVIOUS
  <2>1. queue'[i] = q
    BY <1>0, <1>1, <1>2
  <2>2. DOMAIN q = 1 .. Len(q) /\ \A n \in DOMAIN q : q[n] \in Proc
    BY <1>2
  <2>3. PICK x \in Proc : x = q[Cardinality(Proc)]
    <3>1. Cardinality(Proc) # 0
      BY TrainingAssumption, FS_EmptySet
    <3>2. Cardinality(Proc) \in DOMAIN q
      BY <1>2, <1>6, <2>2, <3>1
    <3> QED
      BY <2>2, <3>2
  <2>4. done[x][i] % Chunks[i] # Chunks[i] - 1
    BY <1>0, <2>3, ByteHelpers DEF Byte!LastInvoked
  <2>5. ASSUME NEW n \in DOMAIN q
        PROVE  NWorkers(q[n]) > 1 /\ called'[q[n]][i] < Due(q[n], i)'
    <3>1. PICK p \in Proc : p = q[n]
      BY <2>2
    <3>2. NWorkers(p) > 1 /\ called[p][i] < Due(p, i)
      BY <1>0, <1>2, <3>1 DEF Gathers
    <3>3. called[p][i] = called[x][i] /\ called[x][i] = done[x][i]
      BY <1>2, <1>3 DEF GateInv, CalledTogether, OneJob
    <3>4. called[p][i] \in Nat /\ Enqueued(p, i) \in Nat /\ Chunks[i] \in Nat \ {0}
      BY <1>2, GateTypes
    <3>5. called[p][i] % Chunks[i] # Chunks[i] - 1
      BY <2>4, <3>3
    <3>6. called[p][i] + 1 < Due(p, i)
      BY <3>2, <3>4, <3>5, NotTheLast DEF Due
    <3> QED
      BY <1>2, <1>4, <1>5, <3>1, <3>2, <3>6
  <2>6. \A p \in Proc : EachOnce(q, JobOf[p])
    BY <1>0, <1>2 DEF Gathers
  <2> QED
    BY <2>1, <2>5, <2>6 DEF Gathers
<1>11. ASSUME NEW l \in Layer
       PROVE  /\ l \notin ready' => Gathers(l)'
              /\ l \in ready' /\ l \notin can_erase' =>
                     Gathers(l)' /\ Len(queue'[l]) = Cardinality(Proc)
              /\ l \in ready' /\ l \in can_erase' => Len(queue'[l]) >= Cardinality(Proc)
  <2>1. CASE l = i
    <3>1. queue'[i] = q /\ i \in ready' /\ (i \in can_erase' <=> Byte!LastInvoked(i))
      BY <1>0, <1>1, <1>2
    <3> QED
      BY <1>2, <1>6, <1>10, <2>1, <3>1
  <2>2. CASE l \in E
    <3>1. queue'[l] = <<>> /\ l \notin ready'
      BY <1>1, <2>2
    <3>2. Gathers(l)'
      BY <3>1 DEF Gathers, EachOnce
    <3> QED
      BY <3>1, <3>2
  <2>3. CASE l # i /\ l \notin E
    <3>1. /\ queue'[l] = queue[l] /\ (l \in ready' <=> l \in ready)
          /\ l \in can_erase' <=> l \in can_erase
      BY <1>1, <2>3
    <3>2. Gathers(l) => Gathers(l)'
      BY <1>2, <1>4, <1>5, <2>3, <3>1, GathersStill
    <3> QED
      BY <3>1, <3>2 DEF ByteInv, ByteQueues
  <2> QED
    BY <2>1, <2>2, <2>3
<1>12. ByteQueues'
  BY <1>11 DEF ByteQueues
<1> QED
  BY <1>4, <1>7, <1>8, <1>9, <1>12 DEF ByteInv

LEMMA ByteTurn ==
    ASSUME OneJob, ByteInv, Byte!Turn
    PROVE  ByteInv'
<1>1. ready \in SUBSET Layer
  BY DEF ByteInv
<1>2. CASE ready = {} \/ ~active
  <2>1. Byte!Quiet(ready)
    BY <1>2 DEF Byte!Turn
  <2> QED
    BY <1>1, <2>1, ByteTurnEnds
<1>3. CASE ~(ready = {} \/ ~active)
  <2>1. PICK E \in Byte!Popped :
          Byte!Quiet(E) \/ \E i \in ready \ (E \union can_erase) : Byte!InvokeChunk(E, i)
    BY <1>3 DEF Byte!Turn
  <2>2. E \in SUBSET ready
    BY <2>1 DEF Byte!Popped
  <2>3. Byte!Quiet(E) => ByteInv'
    BY <1>1, <2>2, ByteTurnEnds
  <2>4. ASSUME NEW i \in ready \ (E \union can_erase), Byte!InvokeChunk(E, i) PROVE ByteInv'
    BY <1>3, <2>2, <2>4, ByteTurnInvokes
  <2> QED
    BY <2>1, <2>3, <2>4
<1> QED
  BY <1>2, <1>3

LEMMA ByteInit == Byte!Init => ByteInv
<1> SUFFICES ASSUME Byte!Init PROVE ByteInv
  OBVIOUS
<1>1. /\ TrainingInit /\ queue = [i \in Layer |-> <<>>] /\ ready = {} /\ kick = "off"
  BY ByteHelpers DEF Byte!Init, Byte!TrainingInit, TrainingInit, Byte!Zero, Zero
<1>2. GateInv
  BY <1>1, GateInit
<1>3. queue \in [Layer -> Seq(Proc)] /\ ready \in SUBSET Layer
  BY <1>1
<1>4. ByteQueues
  BY <1>1 DEF ByteQueues, Gathers, EachOnce
<1>5. ByteAwaits
  <2>1. \A p \in Proc, i \in Layer : called[p][i] = done[p][i]
    BY <1>1 DEF TrainingInit
  <2> QED
    BY <1>1, <2>1, LayerZero DEF ByteAwaits
<1>6. LoopsEnded
  BY <1>1 DEF TrainingInit, LoopsEnded
<1> QED
  BY <1>2, <1>3, <1>4, <1>5, <1>6 DEF ByteInv

LEMMA ByteStep == OneJob /\ ByteInv /\ [Byte!Next]_(Byte!vars) => ByteInv'
<1> SUFFICES ASSUME OneJob, ByteInv, [Byte!Next]_(Byte!vars) PROVE ByteInv'
  OBVIOUS
<1>1. CASE QuietMove /\ UNCHANGED Byte!schedulerVars
  BY <1>1, ByteQuiet
<1>2. ASSUME NEW p \in Proc, Byte!Backward(p) \/ Byte!CleanUp(p) PROVE ByteInv'
  BY <1>2, ByteBackward, ByteCleanUp
<1>3. CASE Byte!Turn
  BY <1>3, ByteTurn
<1> QED
  BY <1>1, <1>2, <1>3, ByteSteps

\* A chunk that is in the network is of the one tensor the loop awaits.
LEMMA ByteOne == ByteInv => Byte!OneTensorInNetwork
<1> SUFFICES ASSUME ByteInv, NEW p \in Proc, NEW q \in Proc, NEW i \in Layer, NEW l \in Layer,
                    started[p][i] > done[p][i], started[q][l] > done[q][l]
             PROVE  i = l
  BY ByteHelpers DEF Byte!OneTensorInNetwork
<1>0. GateInv
  BY DEF ByteInv
<1>1. called[p][i] > done[p][i] /\ called[q][l] > done[q][l]
  BY <1>0, GateTypes
<1>2. called[p][i] # done[p][i] /\ called[q][l] # done[q][l]
  BY <1>0, <1>1, GateTypes
<1> QED
  BY <1>2 DEF ByteInv, ByteAwaits

\* The loop of kick_off keeps the tensors of a job apart, also where the job is cleaned
\* up while it awaits.
THEOREM ByteOneTensorInNetwork ==
    ASSUME OneJob
    PROVE  Byte!Spec => []Byte!OneTensorInNetwork
BY ByteInit, ByteStep, ByteOne, PTL DEF Byte!Spec

\* A worker is called for what is awaited, as the gate requires.
LEMMA ByteGated == ByteInv => RoundsAreGated
BY GateGated DEF ByteInv

\* What Worker::allreduce and Aggregation rely on, under ByteScheduler: a chunk is called
\* after the chunk before it has ended on every worker.
THEOREM ByteRoundsAreGated ==
    ASSUME OneJob
    PROVE  Byte!Spec => []RoundsAreGated
BY ByteInit, ByteStep, ByteGated, PTL DEF Byte!Spec

\* A worker is called for the chunks of its enqueues.
LEMMA ByteOnce == ByteInv => Byte!ChunksInvokedOnce
BY GateCalled, ByteHelpers DEF ByteInv, Byte!ChunksInvokedOnce, Due

\* A chunk is called once in an iteration: can_erase is set with the last of them, and no
\* enqueue of the next iteration can fill the queue again before it is erased.
THEOREM ByteChunksInvokedOnce ==
    ASSUME OneJob
    PROVE  Byte!Spec => []Byte!ChunksInvokedOnce
BY ByteInit, ByteStep, ByteOnce, PTL DEF Byte!Spec

\* "wait until final allreduces are done", under this scheduler.
THEOREM ByteCleanupWaits ==
    ASSUME OneJob
    PROVE  Byte!Spec => []CleanupAfterAllreduce
<1>1. ByteInv => CleanupAfterAllreduce
  BY DEF ByteInv, GateInv, TrainingInv
<1> QED
  BY ByteInit, ByteStep, <1>1, PTL DEF Byte!Spec

LEMMA ByteRoundMove == [Byte!Next]_(Byte!vars) => RoundMove
<1> SUFFICES ASSUME [Byte!Next]_(Byte!vars) PROVE RoundMove
  OBVIOUS
<1>1. CASE QuietMove
  BY <1>1, QuietIsRoundMove
<1>2. ASSUME NEW p \in Proc, Byte!Backward(p) \/ Byte!CleanUp(p) PROVE RoundMove
  BY <1>2 DEF Byte!Backward, Byte!CleanUp, Byte!Leave, RoundMove, roundVars
<1>3. CASE Byte!Turn
  BY <1>3 DEF Byte!Turn, Byte!Quiet, Byte!InvokeChunk, Byte!trainingVars, RoundMove, roundVars
<1> QED
  BY <1>1, <1>2, <1>3, ByteSteps

\* Training under ByteScheduler runs the chunks of each tensor as the rounds of a gated
\* AllReduce.
THEOREM ByteImplementsGatedAllReduce ==
    ASSUME OneJob, NEW j \in Job, NEW i \in Layer
    PROVE  Byte!Spec => Fabric(j, i, NIter * Chunks[i])!Spec
<1> DEFINE rounds == NIter * Chunks[i]
<1>1. Byte!Init => Fabric(j, i, rounds)!Init
  <2>1. Byte!Init => TrainingInit
    BY ByteHelpers DEF Byte!Init, Byte!TrainingInit, TrainingInit, Byte!Zero, Zero
  <2> QED
    BY <2>1, FabricInit
<1>2. ByteInv /\ [Byte!Next]_(Byte!vars) => [Fabric(j, i, rounds)!Next]_(Fabric(j, i, rounds)!vars)
  BY ByteRoundMove, GateFabric DEF ByteInv
<1> HIDE DEF rounds
<1>3. Byte!Spec => Fabric(j, i, rounds)!Spec
  BY ByteInit, ByteStep, <1>1, <1>2, PTL DEF Byte!Spec, Fabric!Spec
<1> QED
  BY <1>3 DEF rounds

-----------------------------------------------------------------------------
(* Sincronia.                                                               *)

VARIABLES result

Sinc == INSTANCE Sincronia

\* Each value of a, from x at b, comes from the one before it.
Iterates(a, F, x, b, m) ==
    \A n \in b .. b + m : a[n] = IF n = b THEN x ELSE F[<<n, a[n - 1]>>]

\* A function that each number takes from the one before it exists.
LEMMA IterExists ==
    ASSUME NEW X, NEW F, NEW x \in X, NEW b \in Nat, \A n \in Nat, s \in X : F[<<n, s>>] \in X,
           NEW z \in Nat
    PROVE  \E a \in [b .. b + z -> X] : Iterates(a, F, x, b, z)
<1> DEFINE Iter(a, m) == a \in [b .. b + m -> X] /\ Iterates(a, F, x, b, m)
           T == {m \in Nat : ~ \E a : Iter(a, m)}
<1> SUFFICES ASSUME T # {} PROVE FALSE
  OBVIOUS
<1>1. PICK m \in T : \A i \in T : m <= i
  <2>1. T \in SUBSET Nat
    OBVIOUS
  <2> HIDE DEF T
  <2> QED
    BY <2>1, LeastNumber
<1>2. CASE m = 0
  <2> DEFINE a == [n \in b .. b |-> x]
  <2>1. Iter(a, 0)
    BY DEF Iterates
  <2> HIDE DEF Iter
  <2> QED
    BY <1>1, <1>2, <2>1
<1>3. CASE m # 0
  <2>1. m \in Nat /\ m - 1 \in Nat /\ m - 1 \notin T
    <3>1. T \subseteq Nat
      OBVIOUS
    <3> HIDE DEF T
    <3> QED
      BY <1>1, <1>3, <3>1
  <2>2. PICK c : Iter(c, m - 1)
    <3> HIDE DEF Iter
    <3> QED
      BY <2>1
  <2> DEFINE a == [n \in b .. b + m |-> IF n = b + m THEN F[<<n, c[n - 1]>>] ELSE c[n]]
  <2>3. \A n \in b .. b + m : n = b + m \/ n \in b .. b + (m - 1)
    BY <2>1
  <2>4. \A n \in b .. b + (m - 1) : n \in b .. b + m /\ n # b + m /\ c[n] \in X
    BY <2>1, <2>2
  <2>5. (b + m) - 1 \in b .. b + (m - 1) /\ b + m \in Nat /\ b + m # b /\ b + m \in b .. b + m
    BY <2>1, <1>3
  <2>6. \A n \in b .. b + (m - 1) : a[n] = c[n]
    BY <2>4
  <2>7. a[b + m] = F[<<b + m, c[(b + m) - 1]>>] /\ a[b + m] \in X
    BY <2>4, <2>5
  <2>8. a \in [b .. b + m -> X]
    <3>1. \A n \in b .. b + m : (IF n = b + m THEN F[<<n, c[n - 1]>>] ELSE c[n]) \in X
      BY <2>3, <2>4, <2>5
    <3> QED
      BY <3>1
  <2>9. ASSUME NEW n \in b .. b + m PROVE a[n] = IF n = b THEN x ELSE F[<<n, a[n - 1]>>]
    <3>1. CASE n = b + m
      BY <2>5, <2>6, <2>7, <3>1
    <3>2. CASE n \in b .. b + (m - 1)
      <4>1. a[n] = IF n = b THEN x ELSE F[<<n, c[n - 1]>>]
        BY <2>2, <2>6, <3>2 DEF Iterates
      <4>2. n = b \/ n - 1 \in b .. b + (m - 1)
        BY <2>1, <3>2
      <4>3. n # b => a[n - 1] = c[n - 1]
        BY <2>6, <4>2
      <4> HIDE DEF a
      <4> QED
        BY <4>1, <4>3
    <3> QED
      BY <2>3, <3>1, <3>2
  <2>10. Iter(a, m)
    BY <2>8, <2>9 DEF Iterates
  <2> HIDE DEF Iter
  <2> QED
    BY <1>1, <2>10
<1> QED
  BY <1>2, <1>3

\* The helpers of the instance.
LEMMA SincHelpers ==
    /\ Sinc!Layer = Layer /\ Sinc!Job = Job /\ Sinc!Key = Key
    /\ \A j : Sinc!Workers(j) = Workers(j)
    /\ \A p : Sinc!NWorkers(p) = NWorkers(p)
    /\ \A q, p : Sinc!Occurrences(q, p) = Occurrences(q, p)
    /\ \A p, i : Sinc!KeyOf(p, i) = KeyOf(p, i)
    /\ \A p, i : Sinc!Enqueued(p, i) = Enqueued(p, i)
    /\ Sinc!AllDone <=> AllDone
    /\ \A J : Sinc!Wids(J) = Wids(J)
    /\ \A j : Sinc!WidsAllocated(j) = WidsAllocated(j)
    /\ \A V, W : Sinc!Accommodate(V, W) <=> Accommodate(V, W)
    /\ \A set : Sinc!Cardinality(set) = Cardinality(set)
<1>1. \A set : Sinc!Cardinality(set) = Cardinality(set)
  BY DEF Sinc!Cardinality, Sinc!IsFiniteSet, Cardinality, IsFiniteSet
<1>2. \A j : Sinc!Workers(j) = Workers(j)
  BY DEF Sinc!Workers, Workers
<1>3. \A p : Sinc!NWorkers(p) = NWorkers(p)
  BY <1>1, <1>2 DEF Sinc!NWorkers, NWorkers
<1>4. \A q, p : Sinc!Occurrences(q, p) = Occurrences(q, p)
  BY <1>1 DEF Sinc!Occurrences, Occurrences
<1>5. Sinc!Layer = Layer /\ Sinc!Job = Job /\ Sinc!Key = Key
  BY DEF Sinc!Layer, Layer, Sinc!Job, Job, Sinc!Key, Key
<1>6. \A p, i : Sinc!KeyOf(p, i) = KeyOf(p, i) /\ Sinc!Enqueued(p, i) = Enqueued(p, i)
  BY DEF Sinc!KeyOf, KeyOf, Sinc!Enqueued, Enqueued
<1>7. Sinc!AllDone <=> AllDone
  BY DEF Sinc!AllDone, AllDone
<1>8. \A j : Sinc!WidsAllocated(j) = WidsAllocated(j)
  BY <1>2 DEF Sinc!WidsAllocated, WidsAllocated
<1>9. \A J : Sinc!Wids(J) = Wids(J)
  BY <1>8 DEF Sinc!Wids, Wids
<1>10. \A W : Sinc!Uplinks(W) = Uplinks(W)
  BY <1>1 DEF Sinc!Uplinks, Uplinks
<1>11. \A V, W : Sinc!Accommodate(V, W) <=> Accommodate(V, W)
  BY <1>10 DEF Sinc!Accommodate, Accommodate
<1> QED
  BY <1>1, <1>2, <1>3, <1>4, <1>5, <1>6, <1>7, <1>8, <1>9, <1>11

-----------------------------------------------------------------------------
(* The tensors that run together, and what is left of the order.            *)

\* Tensors of one job each, to run in this order.
Ordered(order) ==
    /\ order \in Seq(Key)
    /\ \A m, n \in DOMAIN order : order[m][1] = order[n][1] => m = n

JobsOf(K) == {k[1] : k \in K}

\* The tensors before the n-th and the n-th if it can run beside them, from those before.
Together(order, n, before) ==
    IF Accommodate(Wids(JobsOf(before)), WidsAllocated(order[n][1]))
    THEN before \union {order[n]} ELSE before

InvolvedBy(after, order, n) == IF n = 1 THEN {order[1]} ELSE Together(order, n, after[n - 1])

LEMMA SincInvolvedIs ==
    ASSUME NEW order, Ordered(order), order # <<>>
    PROVE  \E a \in [1 .. Len(order) -> SUBSET Key] :
             /\ \A n \in 1 .. Len(order) : a[n] = InvolvedBy(a, order, n)
             /\ Sinc!Involved(order) = a[Len(order)]
<1> DEFINE z == Len(order)
           F == [t \in Nat \X SUBSET Key |->
                   IF t[1] \in 1 .. z THEN Together(order, t[1], t[2]) ELSE {}]
<1>1. z \in Nat /\ z >= 1 /\ order \in [1 .. z -> Key] /\ order[1] \in Key
  BY DEF Ordered
<1>2. \A n \in Nat, s \in SUBSET Key : F[<<n, s>>] \in SUBSET Key
  <2> SUFFICES ASSUME NEW n \in Nat, NEW s \in SUBSET Key PROVE F[<<n, s>>] \in SUBSET Key
    OBVIOUS
  <2>1. F[<<n, s>>] = IF n \in 1 .. z THEN Together(order, n, s) ELSE {}
    OBVIOUS
  <2>2. n \in 1 .. z => Together(order, n, s) \in SUBSET Key
    BY <1>1 DEF Together
  <2> QED
    BY <2>1, <2>2
<1>3. \A n \in 1 .. z, s \in SUBSET Key : F[<<n, s>>] = Together(order, n, s)
  BY <1>1
<1> HIDE DEF z, F
<1>4. \E a \in [1 .. 1 + (z - 1) -> SUBSET Key] : Iterates(a, F, {order[1]}, 1, z - 1)
  <2>1. {order[1]} \in SUBSET Key /\ z - 1 \in Nat /\ 1 \in Nat
    BY <1>1
  <2> QED
    BY <1>2, <2>1, IterExists
<1>5. PICK c \in [1 .. z -> SUBSET Key] :
        \A n \in 1 .. z : c[n] = IF n = 1 THEN {order[1]} ELSE F[<<n, c[n - 1]>>]
  <2>1. 1 + (z - 1) = z
    BY <1>1
  <2> QED
    BY <1>4, <2>1 DEF Iterates
<1> DEFINE Is(x) == x = [n \in 1 .. z |-> InvolvedBy(x, order, n)]
<1>6. Is(c)
  <2>1. \A n \in 1 .. z : c[n] = InvolvedBy(c, order, n)
    <3> SUFFICES ASSUME NEW n \in 1 .. z PROVE c[n] = InvolvedBy(c, order, n)
      OBVIOUS
    <3>1. CASE n = 1
      BY <1>5, <3>1 DEF InvolvedBy
    <3>2. CASE n # 1
      <4>1. n - 1 \in 1 .. z
        BY <1>1, <3>2
      <4>2. c[n] = F[<<n, c[n - 1]>>] /\ c[n - 1] \in SUBSET Key
        BY <1>5, <3>2, <4>1
      <4> QED
        BY <1>3, <3>2, <4>2 DEF InvolvedBy
    <3> QED
      BY <3>1, <3>2
  <2>2. c = [n \in 1 .. z |-> c[n]]
    OBVIOUS
  <2> QED
    BY <2>1, <2>2
<1> DEFINE a == CHOOSE x : Is(x)
<1>7. Is(a)
  <2> HIDE DEF Is
  <2> QED
    BY <1>6
<1>8. Sinc!Involved(order) = a[z]
  BY SincHelpers DEF Sinc!Involved, InvolvedBy, Together, JobsOf, z
<1> HIDE DEF a
<1>9. \A n \in 1 .. z : a[n] = InvolvedBy(a, order, n)
  BY <1>7
<1>10. a \in [1 .. z -> SUBSET Key]
  <2> DEFINE T == {n \in 1 .. z : a[n] \notin SUBSET Key}
  <2>1. T = {}
    <3> SUFFICES ASSUME T # {} PROVE FALSE
      OBVIOUS
    <3>1. PICK n \in T : \A i \in T : n <= i
      <4>1. T \in SUBSET Nat
        OBVIOUS
      <4> HIDE DEF T
      <4> QED
        BY <4>1, LeastNumber
    <3>2. n # 1
      BY <1>1, <1>9, <3>1 DEF InvolvedBy
    <3>3. n - 1 \in 1 .. z /\ ~(n <= n - 1)
      BY <1>1, <3>1, <3>2
    <3>4. a[n - 1] \in SUBSET Key /\ order[n] \in Key
      BY <1>1, <3>1, <3>3
    <3>5. a[n] = Together(order, n, a[n - 1])
      BY <1>9, <3>1, <3>2 DEF InvolvedBy
    <3> QED
      BY <3>1, <3>4, <3>5 DEF Together
  <2>2. \A n \in 1 .. z : a[n] \in SUBSET Key
    BY <2>1
  <2>3. a = [n \in 1 .. z |-> a[n]]
    <3>1. PICK f \in [1 .. z -> {InvolvedBy(a, order, n) : n \in 1 .. z}] : a = f
      BY <1>7
    <3> QED
      BY <3>1
  <2> QED
    BY <2>2, <2>3
<1> QED
  BY <1>8, <1>9, <1>10 DEF z

\* What runs together is of the order, the first of it included, and its jobs can use the
\* network at the same time.
LEMMA SincInvolved ==
    ASSUME NEW order, Ordered(order), order # <<>>
    PROVE  /\ Sinc!Involved(order) \in SUBSET Key
           /\ \A k \in Sinc!Involved(order) : \E n \in DOMAIN order : order[n] = k
           /\ PairwiseExclusive(JobsOf(Sinc!Involved(order)))
<1>1. PICK a \in [1 .. Len(order) -> SUBSET Key] :
        /\ \A n \in 1 .. Len(order) : a[n] = InvolvedBy(a, order, n)
        /\ Sinc!Involved(order) = a[Len(order)]
  BY SincInvolvedIs
<1> DEFINE z == Len(order)
           Good(K) == /\ K \in SUBSET Key
                      /\ \A k \in K : \E n \in 1 .. z : order[n] = k
                      /\ PairwiseExclusive(JobsOf(K))
           T == {n \in 1 .. z : ~Good(a[n])}
<1>2. z \in Nat /\ z >= 1 /\ DOMAIN order = 1 .. z /\ \A n \in 1 .. z : order[n] \in Key
  BY DEF Ordered
<1>3. \A k \in Key : k[1] \in Job
  BY DEF Key
<1> SUFFICES ASSUME T # {} PROVE FALSE
  BY <1>1, <1>2
<1>4. PICK n \in T : \A i \in T : n <= i
  <2>1. T \in SUBSET Nat
    OBVIOUS
  <2> HIDE DEF T
  <2> QED
    BY <2>1, LeastNumber
<1>5. n \in 1 .. z /\ ~Good(a[n]) /\ a[n] = InvolvedBy(a, order, n)
  BY <1>1, <1>4
<1>6. CASE n = 1
  <2>1. a[n] = {order[1]}
    BY <1>5, <1>6 DEF InvolvedBy
  <2>2. Good({order[1]})
    BY <1>2 DEF JobsOf, PairwiseExclusive
  <2> HIDE DEF Good
  <2> QED
    BY <1>5, <2>1, <2>2
<1>7. CASE n # 1
  <2>1. n - 1 \in 1 .. z /\ ~(n <= n - 1)
    BY <1>2, <1>5, <1>7
  <2>2. Good(a[n - 1])
    BY <1>4, <2>1
  <2> DEFINE K == a[n - 1]
  <2>3. a[n] = Together(order, n, K)
    BY <1>5, <1>7 DEF InvolvedBy
  <2> HIDE DEF K
  <2>4. Good(K)
    BY <2>2 DEF K
  <2>5. CASE a[n] = K
    <3> HIDE DEF Good
    <3> QED
      BY <1>5, <2>4, <2>5
  <2>6. CASE a[n] # K
    <3>1. /\ a[n] = K \union {order[n]}
          /\ Accommodate(Wids(JobsOf(K)), WidsAllocated(order[n][1]))
      BY <2>3, <2>6 DEF Together
    <3>2. JobsOf(K) \subseteq Job /\ order[n][1] \in Job
      BY <1>2, <1>3, <1>5, <2>4 DEF JobsOf
    <3>3. PairwiseExclusive(JobsOf(K) \union {order[n][1]})
      BY <2>4, <3>1, <3>2, AccommodateAdds
    <3>4. JobsOf(a[n]) = JobsOf(K) \union {order[n][1]}
      BY <3>1 DEF JobsOf
    <3>5. Good(a[n])
      BY <1>2, <1>5, <2>4, <3>1, <3>3, <3>4
    <3> HIDE DEF Good
    <3> QED
      BY <1>5, <3>5
  <2> QED
    BY <2>5, <2>6
<1> QED
  BY <1>6, <1>7

\* What is left of the order without the tensors that run, up to one of it.
KeptBy(kept, order, tops, n) ==
    IF n = 0 THEN <<>>
    ELSE IF order[n] \in tops THEN kept[n - 1] ELSE Append(kept[n - 1], order[n])

LEMMA SincWithoutIs ==
    ASSUME NEW order, Ordered(order), NEW tops
    PROVE  \E a :
             /\ \A n \in 0 .. Len(order) : a[n] = KeptBy(a, order, tops, n)
             /\ Sinc!Without(order, tops) = a[Len(order)]
<1> DEFINE z == Len(order)
           X == Seq(Key)
           F == [t \in Nat \X X |->
                   IF t[1] \in 1 .. z /\ order[t[1]] \notin tops THEN Append(t[2], order[t[1]])
                   ELSE t[2]]
<1>1. z \in Nat /\ \A n \in 1 .. z : order[n] \in Key
  BY DEF Ordered
<1>2. \A n \in Nat, s \in X : F[<<n, s>>] \in X
  <2> SUFFICES ASSUME NEW n \in Nat, NEW s \in X PROVE F[<<n, s>>] \in X
    OBVIOUS
  <2>1. F[<<n, s>>] = IF n \in 1 .. z /\ order[n] \notin tops THEN Append(s, order[n]) ELSE s
    OBVIOUS
  <2>2. n \in 1 .. z => Append(s, order[n]) \in X
    BY <1>1
  <2> QED
    BY <2>1, <2>2
<1>3. \A n \in 1 .. z, s \in X :
        F[<<n, s>>] = IF order[n] \in tops THEN s ELSE Append(s, order[n])
  BY <1>1
<1>4. <<>> \in X
  OBVIOUS
<1> HIDE DEF z, F, X
<1>5. \E a \in [0 .. 0 + z -> X] : Iterates(a, F, <<>>, 0, z)
  BY <1>1, <1>2, <1>4, IterExists
<1>6. PICK c \in [0 .. z -> X] :
        \A n \in 0 .. z : c[n] = IF n = 0 THEN <<>> ELSE F[<<n, c[n - 1]>>]
  <2>1. 0 + z = z
    BY <1>1
  <2> QED
    BY <1>5, <2>1 DEF Iterates
<1> DEFINE Is(x) == x = [n \in 0 .. z |-> KeptBy(x, order, tops, n)]
<1>7. Is(c)
  <2>1. \A n \in 0 .. z : c[n] = KeptBy(c, order, tops, n)
    <3> SUFFICES ASSUME NEW n \in 0 .. z PROVE c[n] = KeptBy(c, order, tops, n)
      OBVIOUS
    <3>1. CASE n = 0
      BY <1>6, <3>1 DEF KeptBy
    <3>2. CASE n # 0
      <4>1. n - 1 \in 0 .. z /\ n \in 1 .. z
        BY <1>1, <3>2
      <4>2. c[n] = F[<<n, c[n - 1]>>] /\ c[n - 1] \in X
        BY <1>6, <3>2, <4>1
      <4> QED
        BY <1>3, <3>2, <4>1, <4>2 DEF KeptBy
    <3> QED
      BY <3>1, <3>2
  <2>2. c = [n \in 0 .. z |-> c[n]]
    OBVIOUS
  <2> QED
    BY <2>1, <2>2
<1> DEFINE a == CHOOSE x : Is(x)
<1>8. Is(a)
  <2> HIDE DEF Is
  <2> QED
    BY <1>7
<1>9. Sinc!Without(order, tops) = a[z]
  BY DEF Sinc!Without, KeptBy, z
<1> HIDE DEF a
<1>10. \A n \in 0 .. z : a[n] = KeptBy(a, order, tops, n)
  BY <1>8
<1> QED
  BY <1>9, <1>10 DEF z

\* It is an order of its own, of the tensors that do not run.
LEMMA SincWithout ==
    ASSUME NEW order, Ordered(order), NEW tops
    PROVE  /\ Ordered(Sinc!Without(order, tops))
           /\ \A n \in DOMAIN Sinc!Without(order, tops) :
                /\ Sinc!Without(order, tops)[n] \notin tops
                /\ \E m \in DOMAIN order : order[m] = Sinc!Without(order, tops)[n]
<1>1. PICK a :
        /\ \A n \in 0 .. Len(order) : a[n] = KeptBy(a, order, tops, n)
        /\ Sinc!Without(order, tops) = a[Len(order)]
  BY SincWithoutIs
<1> DEFINE z == Len(order)
           Good(s, n) == /\ s \in Seq(Key)
                         /\ \A x, y \in DOMAIN s : s[x][1] = s[y][1] => x = y
                         /\ \A x \in DOMAIN s :
                                s[x] \notin tops /\ \E m \in 1 .. n : order[m] = s[x]
           T == {n \in 0 .. z : ~Good(a[n], n)}
<1>2. /\ z \in Nat /\ DOMAIN order = 1 .. z /\ \A n \in 1 .. z : order[n] \in Key
      /\ \A m, n \in 1 .. z : order[m][1] = order[n][1] => m = n
  BY DEF Ordered
<1> SUFFICES ASSUME T # {} PROVE FALSE
  <2>1. z \in 0 .. z /\ Sinc!Without(order, tops) = a[z]
    BY <1>1, <1>2
  <2>2. Good(a[z], z)
    <3> HIDE DEF Good, z
    <3> QED
      BY <2>1
  <2>3. PICK w : w = a[z]
    OBVIOUS
  <2>4. Good(w, z)
    BY <2>2, <2>3
  <2>5. Ordered(w)
    BY <2>4 DEF Ordered
  <2>6. \A x \in DOMAIN w : w[x] \notin tops /\ \E m \in DOMAIN order : order[m] = w[x]
    BY <1>2, <2>4
  <2> QED
    BY <2>1, <2>3, <2>5, <2>6
<1>3. PICK n \in T : \A i \in T : n <= i
  <2>1. T \in SUBSET Nat
    BY <1>2
  <2> HIDE DEF T
  <2> QED
    BY <2>1, LeastNumber
<1>4. n \in 0 .. z /\ ~Good(a[n], n) /\ a[n] = KeptBy(a, order, tops, n)
  BY <1>1, <1>3
<1>5. CASE n = 0
  <2>1. a[n] = <<>>
    BY <1>4, <1>5 DEF KeptBy
  <2>2. Good(<<>>, n)
    OBVIOUS
  <2> HIDE DEF Good
  <2> QED
    BY <1>4, <2>1, <2>2
<1>6. CASE n # 0
  <2>1. n - 1 \in 0 .. z /\ ~(n <= n - 1) /\ n \in 1 .. z /\ n \in Nat
    BY <1>2, <1>4, <1>6
  <2>2. Good(a[n - 1], n - 1)
    BY <1>3, <2>1
  <2>3. PICK s : s = a[n - 1]
    OBVIOUS
  <2>4. Good(s, n - 1)
    BY <2>2, <2>3
  <2>5. 1 .. n - 1 \subseteq 1 .. z /\ 1 .. n = (1 .. n - 1) \union {n} /\ n \notin 1 .. n - 1
    BY <1>2, <2>1
  <2>6. CASE order[n] \in tops
    <3>1. a[n] = s
      BY <1>4, <1>6, <2>3, <2>6 DEF KeptBy
    <3>2. Good(s, n)
      BY <2>4, <2>5
    <3> HIDE DEF Good
    <3> QED
      BY <1>4, <3>1, <3>2
  <2>7. CASE order[n] \notin tops
    <3>1. PICK t : t = Append(s, order[n])
      OBVIOUS
    <3>2. a[n] = t
      BY <1>4, <1>6, <2>3, <2>7, <3>1 DEF KeptBy
    <3>3. /\ t \in Seq(Key) /\ Len(s) \in Nat /\ DOMAIN s = 1 .. Len(s)
          /\ DOMAIN t = 1 .. Len(s) + 1 /\ t[Len(s) + 1] = order[n]
          /\ \A x \in 1 .. Len(s) : t[x] = s[x]
      BY <1>2, <2>1, <2>4, <3>1
    <3>4. \A x \in DOMAIN t : x = Len(s) + 1 \/ x \in 1 .. Len(s)
      BY <3>3
    <3>5. \A x \in 1 .. Len(s) :
            /\ s[x] \notin tops /\ s[x][1] # order[n][1]
            /\ \E m \in 1 .. n : order[m] = s[x]
      BY <1>2, <2>1, <2>4, <2>5, <3>3
    <3>6. \A x, y \in DOMAIN t : t[x][1] = t[y][1] => x = y
      BY <2>4, <3>3, <3>4, <3>5
    <3>7. \A x \in DOMAIN t : t[x] \notin tops /\ \E m \in 1 .. n : order[m] = t[x]
      BY <2>5, <2>7, <3>3, <3>4, <3>5
    <3>8. Good(t, n)
      BY <3>3, <3>6, <3>7
    <3> HIDE DEF Good
    <3> QED
      BY <1>4, <3>2, <3>8
  <2> QED
    BY <2>6, <2>7
<1> QED
  BY <1>5, <1>6

-----------------------------------------------------------------------------
(* The queues, where entries of two iterations meet.                        *)

NumOf(k) == Cardinality(Workers(k[1]))

\* The workers that wait for tensor k: each once, and those for whom rounds are due.
WaitsFor(k, w) ==
    /\ EachOnce(w, k[1])
    /\ \A n \in DOMAIN w : NWorkers(w[n]) > 1
    /\ \A p \in Proc : JobOf[p] = k[1] /\ NWorkers(p) > 1 =>
        (called[p][k[2]] < Due(p, k[2]) <=> \E n \in DOMAIN w : w[n] = p)

\* In the queue q of tensor k the first o entries are to be erased, of every worker of the
\* job once; the others wait, and the tensor is r times ready.
TensorQueue(q, o, r, k) ==
    /\ q \in Seq(Proc) /\ r \in Nat
    /\ o = 0 \/ o = NumOf(k)
    /\ Len(q) >= o
    /\ EachOnce(SubSeq(q, 1, o), k[1])
    /\ WaitsFor(k, SubSeq(q, o + 1, Len(q)))
    /\ r <= IF o = 0 THEN 1 ELSE 2
    /\ r > (IF o = 0 THEN 0 ELSE 1) => Len(q) = o + NumOf(k)

\* The entries of tensor k that are to be erased, for the tensors C of can_erase.
Offset(C, k) == IF k \in C THEN NumOf(k) ELSE 0

QueuesAre(Q, C, R) ==
    /\ Q \in [Key -> Seq(Proc)] /\ C \in SUBSET Key /\ R \in [Key -> Nat]
    /\ \A k \in Key : TensorQueue(Q[k], Offset(C, k), R[k], k)

\* The tensors of an order wait for every worker, and their last chunk is not invoked.
Runnable(order, Q, C) ==
    /\ Ordered(order)
    /\ \A n \in DOMAIN order : order[n] \notin C /\ Len(Q[order[n]]) = NumOf(order[n])

\* No worker is more than one iteration of a tensor ahead of what is called.
NoneLags ==
    \A p \in Proc, i \in Layer : NWorkers(p) > 1 => Due(p, i) <= called[p][i] + Chunks[i]

\* Only the loop that awaits has called anything, for jobs that share no link.
SincAwaits ==
    /\ loop # "await" => \A p \in Proc, i \in Layer : called[p][i] = done[p][i]
    /\ \A b, c \in batch : JobOf[b[1]] # JobOf[c[1]] => Exclusive(JobOf[b[1]], JobOf[c[1]])

SincInv ==
    /\ GateInv
    /\ NoneLags
    /\ QueuesAre(queue, can_erase, ready)
    /\ Runnable(result, queue, can_erase)
    /\ SincAwaits

LEMMA KeyFacts ==
    ASSUME NEW k \in Key
    PROVE  /\ k[1] \in Job /\ k[2] \in Layer /\ k = <<k[1], k[2]>>
           /\ NumOf(k) \in Nat \ {0}
           /\ \E p \in Proc : JobOf[p] = k[1]
           /\ \A p \in Proc : JobOf[p] = k[1] => NWorkers(p) = NumOf(k) /\ KeyOf(p, k[2]) = k
<1>1. k[1] \in Job /\ k[2] \in Layer /\ k = <<k[1], k[2]>>
  BY DEF Key
<1>2. PICK p \in Proc : JobOf[p] = k[1]
  BY <1>1 DEF Job
<1>3. IsFiniteSet(Workers(k[1])) /\ p \in Workers(k[1])
  BY <1>2, TrainingAssumption, FS_Subset DEF Workers
<1>4. NumOf(k) \in Nat /\ NumOf(k) # 0
  BY <1>3, FS_CardinalityType, FS_EmptySet DEF NumOf
<1>5. \A r \in Proc : JobOf[r] = k[1] => NWorkers(r) = NumOf(k) /\ KeyOf(r, k[2]) = k
  BY <1>1 DEF NWorkers, NumOf, KeyOf
<1> QED
  BY <1>1, <1>2, <1>4, <1>5

\* The entries of a queue after the first o.
LEMMA TailFacts ==
    ASSUME NEW q \in Seq(Proc), NEW o \in Nat, o <= Len(q)
    PROVE  /\ SubSeq(q, o + 1, Len(q)) \in Seq(Proc)
           /\ Len(SubSeq(q, o + 1, Len(q))) = Len(q) - o
           /\ \A n \in 1 .. Len(q) - o : SubSeq(q, o + 1, Len(q))[n] = q[n + o]
OBVIOUS

LEMMA TailAppend ==
    ASSUME NEW q \in Seq(Proc), NEW o \in Nat, o <= Len(q), NEW p \in Proc
    PROVE  /\ SubSeq(Append(q, p), o + 1, Len(Append(q, p))) = Append(SubSeq(q, o + 1, Len(q)), p)
           /\ SubSeq(Append(q, p), 1, o) = SubSeq(q, 1, o)
           /\ Len(Append(q, p)) = Len(q) + 1 /\ Append(q, p) \in Seq(Proc)
<1> DEFINE w == SubSeq(q, o + 1, Len(q))
           a == Append(q, p)
           x == SubSeq(a, o + 1, Len(a))
           y == Append(w, p)
<1>1. /\ w \in Seq(Proc) /\ Len(w) = Len(q) - o
      /\ \A n \in 1 .. Len(q) - o : w[n] = q[n + o]
  BY TailFacts
<1>2. /\ a \in Seq(Proc) /\ Len(a) = Len(q) + 1 /\ a[Len(q) + 1] = p
      /\ \A n \in 1 .. Len(q) : a[n] = q[n]
  OBVIOUS
<1>3. /\ x \in Seq(Proc) /\ Len(x) = Len(a) - o
      /\ \A n \in 1 .. Len(a) - o : x[n] = a[n + o]
  <2> HIDE DEF a
  <2> QED
    BY <1>2, TailFacts
<1>4. /\ y \in Seq(Proc) /\ Len(y) = Len(w) + 1 /\ y[Len(w) + 1] = p
      /\ \A n \in 1 .. Len(w) : y[n] = w[n]
  <2> HIDE DEF w
  <2> QED
    BY <1>1
<1>5. x = y
  <2> HIDE DEF x, y, a, w
  <2>1. Len(x) = Len(y) /\ Len(q) \in Nat /\ Len(x) = Len(q) + 1 - o
    BY <1>1, <1>2, <1>3, <1>4
  <2>2. ASSUME NEW n \in 1 .. Len(x) PROVE x[n] = y[n]
    <3>1. CASE n = Len(w) + 1
      BY <1>1, <1>2, <1>3, <1>4, <2>1, <3>1
    <3>2. CASE n # Len(w) + 1
      <4>1. n \in 1 .. Len(w) /\ n + o \in 1 .. Len(q)
        BY <1>1, <2>1, <3>2
      <4> QED
        BY <1>1, <1>2, <1>3, <1>4, <2>1, <4>1
    <3> QED
      BY <3>1, <3>2
  <2> QED
    BY <1>3, <1>4, <2>1, <2>2
<1>6. SubSeq(a, 1, o) = SubSeq(q, 1, o)
  <2> HIDE DEF a
  <2>1. /\ SubSeq(a, 1, o) = [n \in 1 .. o |-> a[n]]
        /\ SubSeq(q, 1, o) = [n \in 1 .. o |-> q[n]]
    BY <1>2
  <2>2. \A n \in 1 .. o : a[n] = q[n]
    BY <1>2
  <2> QED
    BY <2>1, <2>2
<1> QED
  BY <1>2, <1>5, <1>6

LEMMA WholeTail ==
    ASSUME NEW q \in Seq(Proc)
    PROVE  SubSeq(q, 0 + 1, Len(q)) = q /\ SubSeq(q, 1, Len(q)) = q
OBVIOUS

LEMMA NoTail ==
    ASSUME NEW q \in Seq(Proc)
    PROVE  /\ DOMAIN SubSeq(q, Len(q) + 1, Len(q)) = {}
           /\ DOMAIN SubSeq(q, 1, 0) = {}
OBVIOUS

\* A tensor whose calls and rounds due are as before waits as before.
LEMMA WaitsStill ==
    ASSUME NEW q, NEW o, NEW r, NEW k, TensorQueue(q, o, r, k),
           \A p \in Proc : JobOf[p] = k[1] /\ NWorkers(p) > 1 =>
               called'[p][k[2]] = called[p][k[2]] /\ Due(p, k[2])' = Due(p, k[2])
    PROVE  TensorQueue(q, o, r, k)'
<1> DEFINE w == SubSeq(q, o + 1, Len(q))
<1>1. WaitsFor(k, w)
  BY DEF TensorQueue
<1> HIDE DEF w
<1>2. WaitsFor(k, w)'
  BY <1>1 DEF WaitsFor
<1> QED
  BY <1>2 DEF TensorQueue, w

\* Entries reach the end of an iteration at a multiple of the workers.
LEMMA MultipleIsFull ==
    ASSUME NEW m \in Nat \ {0}, NEW n \in 1 .. m
    PROVE  /\ n % m = 0 <=> n = m
           /\ (m + n) % m = 0 <=> n = m
OBVIOUS

-----------------------------------------------------------------------------
(* The steps outside the loop.                                              *)

LEMMA SincLoopSteps ==
    ASSUME NEW p \in Proc
    PROVE  /\ Sinc!Advance(p) => Advance(p)
           /\ Sinc!Forward(p) => Forward(p)
           /\ Sinc!BackwardAlone(p) => BackwardAlone(p)
           /\ Sinc!Drain(p) => Drain(p)
           /\ Sinc!Leave(p) => Leave(p)
<1>1. Sinc!Advance(p) => Advance(p)
  BY DEF Sinc!Advance, Advance, Sinc!MoreIterations, MoreIterations
<1>2. Sinc!Forward(p) => Forward(p)
  BY DEF Sinc!Forward, Forward, Sinc!MayForward, MayForward
<1>3. Sinc!Drain(p) => Drain(p)
  BY DEF Sinc!Drain, Drain, Sinc!Drained, Drained
<1>4. Sinc!Leave(p) => Leave(p)
  BY DEF Sinc!Leave, Leave
<1>5. \A f, i, n : Sinc!Plus(f, p, i, n) = Plus(f, p, i, n)
  BY DEF Sinc!Plus, Plus
<1>6. Sinc!BackwardAlone(p) => BackwardAlone(p)
  BY <1>1, <1>5, SincHelpers DEF Sinc!BackwardAlone, BackwardAlone
<1> QED
  BY <1>1, <1>2, <1>3, <1>4, <1>6

LEMMA SincRoundSteps ==
    ASSUME NEW p \in Proc, NEW i \in Layer
    PROVE  /\ Sinc!StartAllreduce(p, i) => StartAllreduce(p, i)
           /\ Sinc!CompleteAllreduce(p, i) => CompleteAllreduce(p, i)
<1>1. \A f, n : Sinc!Plus(f, p, i, n) = Plus(f, p, i, n)
  BY DEF Sinc!Plus, Plus
<1>2. Sinc!StartAllreduce(p, i) => StartAllreduce(p, i)
  BY <1>1 DEF Sinc!StartAllreduce, StartAllreduce
<1>3. Sinc!CompleteAllreduce(p, i) => CompleteAllreduce(p, i)
  BY <1>1, SincHelpers DEF Sinc!CompleteAllreduce, CompleteAllreduce, Sinc!LastChunk, LastChunk
<1> QED
  BY <1>2, <1>3

\* Every step enqueues nothing, or is one of the scheduler's.
LEMMA SincSteps ==
    ASSUME [Sinc!Next]_(Sinc!vars)
    PROVE  \/ QuietMove /\ UNCHANGED Sinc!schedulerVars
           \/ \E p \in Proc : Sinc!Backward(p) \/ Sinc!CleanUp(p)
           \/ Sinc!Turn \/ Sinc!Continue \/ Sinc!LeaveLoop
<1>1. CASE UNCHANGED Sinc!vars
  BY <1>1 DEF Sinc!vars, Sinc!trainingVars, trainingVars, QuietMove
<1>2. ASSUME NEW p \in Proc, Sinc!LoopStep(p), ~Sinc!Backward(p), ~Sinc!CleanUp(p)
      PROVE  QuietMove /\ UNCHANGED Sinc!schedulerVars
  BY <1>2, SincLoopSteps DEF Sinc!LoopStep, QuietMove
<1>3. ASSUME NEW p \in Proc, NEW i \in Layer, Sinc!RoundStep(p, i)
      PROVE  QuietMove /\ UNCHANGED Sinc!schedulerVars
  BY <1>3, SincRoundSteps DEF Sinc!RoundStep, QuietMove
<1>4. Sinc!Over => UNCHANGED Sinc!vars
  BY DEF Sinc!Over
<1> QED
  BY <1>1, <1>2, <1>3, <1>4, SincHelpers DEF Sinc!Next

\* Queues for which nothing is called and nothing becomes due.
LEMMA QueuesStill ==
    ASSUME NEW Q, NEW C, NEW R, QueuesAre(Q, C, R),
           \A p \in Proc, i \in Layer : NWorkers(p) > 1 =>
               called'[p][i] = called[p][i] /\ Due(p, i)' = Due(p, i)
    PROVE  QueuesAre(Q, C, R)'
<1>1. ASSUME NEW k \in Key PROVE TensorQueue(Q[k], Offset(C, k), R[k], k)'
  <2>1. PICK q, o, r : q = Q[k] /\ o = Offset(C, k) /\ r = R[k]
    OBVIOUS
  <2>2. TensorQueue(q, o, r, k)
    BY <2>1 DEF QueuesAre
  <2>3. k[2] \in Layer
    BY KeyFacts
  <2>4. TensorQueue(q, o, r, k)'
    BY <2>2, <2>3, WaitsStill
  <2> QED
    BY <2>1, <2>4
<1> QED
  BY <1>1 DEF QueuesAre

\* What has ended stays so where nothing is called.
LEMMA EndedStays ==
    ASSUME GateInv, GateInv', called' = called, NEW p \in Proc, NEW i \in Layer,
           done'[p][i] >= done[p][i], called[p][i] = done[p][i]
    PROVE  called'[p][i] = done'[p][i]
<1>1. done'[p][i] <= started'[p][i] /\ started'[p][i] <= called'[p][i]
      /\ done'[p][i] \in Nat /\ started'[p][i] \in Nat
  BY DEF GateInv, TrainingInv, CountsInOrder, TrainingTypeOK
<1>2. called'[p][i] = called[p][i] /\ called[p][i] \in Nat
  BY GateTypes
<1> QED
  BY <1>1, <1>2

LEMMA SincSame ==
    ASSUME SincInv, QuietMove, batch' = batch, called' = called, loop = "await" => loop' = "await",
           NEW p \in Proc, NEW i \in Layer
    PROVE  /\ GateInv' /\ NoneLags' /\ SincAwaits'
           /\ NWorkers(p) > 1 => Due(p, i)' = Due(p, i)
<1>1. GateInv
  BY DEF SincInv
<1>2. /\ GateInv'
      /\ \A q \in Proc, l \in Layer :
            /\ done'[q][l] >= done[q][l]
            /\ NWorkers(q) > 1 => Due(q, l)' = Due(q, l)
  BY <1>1, GateQuiet
<1>3. NoneLags'
  BY <1>2 DEF SincInv, NoneLags
<1>4. \A q \in Proc, l \in Layer : called[q][l] = done[q][l] => called'[q][l] = done'[q][l]
  BY <1>1, <1>2, EndedStays
<1>5. SincAwaits'
  BY <1>4 DEF SincInv, SincAwaits
<1>6. NWorkers(p) > 1 => Due(p, i)' = Due(p, i)
  BY <1>2
<1> QED
  BY <1>2, <1>3, <1>5, <1>6

\* Steps that neither enqueue nor call.
LEMMA SincQuiet ==
    ASSUME SincInv, QuietMove, UNCHANGED <<queue, can_erase, result, loop, batch>>,
           ready' \in [Key -> Nat], \A k \in Key : ready'[k] = ready[k] \/ ready'[k] = 0
    PROVE  SincInv'
<1>0. called' = called
  BY GateQuiet DEF SincInv
<1>1. /\ GateInv' /\ NoneLags' /\ SincAwaits'
      /\ \A p \in Proc, i \in Layer : NWorkers(p) > 1 => Due(p, i)' = Due(p, i)
  <2>1. PICK p0 \in Proc : TRUE
    BY TrainingAssumption
  <2>2. loop = "await" => loop' = "await"
    OBVIOUS
  <2> QED
    BY <1>0, <2>1, <2>2, LayerZero, SincSame
<1>2. QueuesAre(queue, can_erase, ready')
  <2>1. ASSUME NEW k \in Key PROVE TensorQueue(queue[k], Offset(can_erase, k), ready'[k], k)
    <3>1. TensorQueue(queue[k], Offset(can_erase, k), ready[k], k) /\ ready'[k] \in Nat
      BY DEF SincInv, QueuesAre
    <3> QED
      BY <3>1 DEF TensorQueue
  <2> QED
    BY <2>1 DEF SincInv, QueuesAre
<1>3. PICK Q, C, R : Q = queue /\ C = can_erase /\ R = ready'
  OBVIOUS
<1>4. QueuesAre(Q, C, R)'
  <2>1. QueuesAre(Q, C, R)
    BY <1>2, <1>3
  <2> QED
    BY <1>0, <1>1, <2>1, QueuesStill
<1>5. QueuesAre(queue, can_erase, ready)'
  BY <1>3, <1>4
<1>6. Runnable(result, queue, can_erase)'
  BY DEF SincInv, Runnable
<1> QED
  BY <1>1, <1>5, <1>6 DEF SincInv

LEMMA SincCleanUp ==
    ASSUME SincInv, NEW p \in Proc, Sinc!CleanUp(p)
    PROVE  SincInv'
<1>1. /\ Leave(p) /\ UNCHANGED <<queue, can_erase, result, loop, batch>>
      /\ ready' = [k \in Key |-> IF k[1] = JobOf[p] THEN 0 ELSE ready[k]]
  BY SincLoopSteps, SincHelpers DEF Sinc!CleanUp
<1>2. QuietMove
  BY <1>1 DEF QuietMove
<1>3. ready' \in [Key -> Nat] /\ \A k \in Key : ready'[k] = ready[k] \/ ready'[k] = 0
  BY <1>1 DEF SincInv, QueuesAre
<1> QED
  BY <1>1, <1>2, <1>3, SincQuiet

LEMMA SincLeaveLoop ==
    ASSUME SincInv, Sinc!LeaveLoop
    PROVE  SincInv'
<1>1. /\ UNCHANGED <<queue, ready, can_erase, result, batch>> /\ UNCHANGED trainingVars
      /\ loop = "leaving" /\ loop' = "off"
  BY DEF Sinc!LeaveLoop, Sinc!trainingVars, trainingVars
<1>2. QuietMove /\ called' = called
  BY <1>1 DEF QuietMove, trainingVars
<1>3. /\ GateInv' /\ NoneLags' /\ SincAwaits'
      /\ \A p \in Proc, i \in Layer : NWorkers(p) > 1 => Due(p, i)' = Due(p, i)
  <2>1. PICK p0 \in Proc : TRUE
    BY TrainingAssumption
  <2> QED
    BY <1>1, <1>2, <2>1, LayerZero, SincSame
<1>4. PICK Q, C, R : Q = queue /\ C = can_erase /\ R = ready
  OBVIOUS
<1>5. QueuesAre(Q, C, R)'
  <2>1. QueuesAre(Q, C, R)
    BY <1>4 DEF SincInv
  <2> QED
    BY <1>2, <1>3, <2>1, QueuesStill
<1>6. QueuesAre(queue, can_erase, ready)'
  BY <1>1, <1>4, <1>5
<1>7. Runnable(result, queue, can_erase)'
  BY <1>1 DEF SincInv, Runnable
<1> QED
  BY <1>3, <1>6, <1>7 DEF SincInv

-----------------------------------------------------------------------------
(* An enqueue.                                                              *)

\* A worker that is due again waits behind those that do.
LEMMA WaiterAdded ==
    ASSUME GateInv, NEW k \in Key, NEW w \in Seq(Proc), WaitsFor(k, w),
           NEW p \in Proc, JobOf[p] = k[1], NWorkers(p) > 1,
           called[p][k[2]] = Due(p, k[2]), called' = called,
           \A q \in Proc : Due(q, k[2])' = Due(q, k[2]) + IF q = p THEN Chunks[k[2]] ELSE 0
    PROVE  WaitsFor(k, Append(w, p))' /\ Len(w) < NumOf(k)
<1>0. PICK l \in Layer : l = k[2]
  BY KeyFacts
<1>1. \A q \in Proc : called[q][l] \in Nat /\ Due(q, l) \in Nat /\ Chunks[l] \in Nat \ {0}
  BY GateTypes
<1>2. \A n \in DOMAIN w : w[n] # p
  <2>1. ~(called[p][l] < Due(p, l))
    BY <1>0, <1>1
  <2> QED
    BY <1>0, <2>1 DEF WaitsFor
<1>3. EachOnce(w, k[1])
  BY DEF WaitsFor
<1>4. Len(w) < NumOf(k)
  <2>1. p \in Workers(k[1])
    BY DEF Workers
  <2> QED
    BY <1>2, <1>3, <2>1, QueueInjects DEF NumOf
<1>5. PICK a : a = Append(w, p)
  OBVIOUS
<1>6. /\ EachOnce(a, k[1])
      /\ \A r \in Proc : (\E n \in DOMAIN a : a[n] = r) <=> (r = p \/ \E n \in DOMAIN w : w[n] = r)
  BY <1>2, <1>3, <1>5, AppendOnce
<1>7. \A n \in DOMAIN a : NWorkers(a[n]) > 1
  <2>1. \A n \in DOMAIN w : NWorkers(w[n]) > 1
    BY DEF WaitsFor
  <2>2. \A n \in DOMAIN a : JobOf[a[n]] = JobOf[p]
    BY <1>6 DEF EachOnce
  <2> QED
    BY <2>2 DEF NWorkers
<1>8. ASSUME NEW r \in Proc, JobOf[r] = k[1], NWorkers(r) > 1
      PROVE  called'[r][l] < Due(r, l)' <=> \E n \in DOMAIN a : a[n] = r
  <2>1. CASE r = p
    <3>1. called'[r][l] < Due(r, l)'
      BY <1>0, <1>1, <2>1
    <3> QED
      BY <1>6, <2>1, <3>1
  <2>2. CASE r # p
    <3>1. called'[r][l] = called[r][l] /\ Due(r, l)' = Due(r, l)
      BY <1>0, <1>1, <2>2
    <3>2. called[r][l] < Due(r, l) <=> \E n \in DOMAIN w : w[n] = r
      BY <1>0, <1>8 DEF WaitsFor
    <3> QED
      BY <1>6, <2>2, <3>1, <3>2
  <2> QED
    BY <2>1, <2>2
<1>9. WaitsFor(k, a)'
  BY <1>0, <1>6, <1>7, <1>8 DEF WaitsFor
<1> QED
  BY <1>4, <1>5, <1>9

\* So its tensor becomes ready with the last worker, and only then.
LEMMA EntryAdded ==
    ASSUME GateInv, NEW k \in Key, NEW q, NEW o, NEW r, TensorQueue(q, o, r, k),
           NEW p \in Proc, JobOf[p] = k[1], NWorkers(p) > 1,
           called[p][k[2]] = Due(p, k[2]), called' = called,
           \A x \in Proc : Due(x, k[2])' = Due(x, k[2]) + IF x = p THEN Chunks[k[2]] ELSE 0
    PROVE  /\ TensorQueue(Append(q, p), o,
                          IF Len(Append(q, p)) % NumOf(k) = 0 THEN r + 1 ELSE r, k)'
           /\ Len(q) < o + NumOf(k)
<1>1. /\ q \in Seq(Proc) /\ r \in Nat /\ NumOf(k) \in Nat \ {0} /\ Len(q) \in Nat
      /\ o = 0 \/ o = NumOf(k)
      /\ Len(q) >= o /\ o \in Nat
  BY KeyFacts DEF TensorQueue
<1>2. /\ r <= IF o = 0 THEN 1 ELSE 2
      /\ r > (IF o = 0 THEN 0 ELSE 1) => Len(q) = o + NumOf(k)
      /\ EachOnce(SubSeq(q, 1, o), k[1])
  BY DEF TensorQueue
<1>3. PICK w \in Seq(Proc) : w = SubSeq(q, o + 1, Len(q)) /\ Len(w) = Len(q) - o
  BY <1>1, TailFacts
<1>4. WaitsFor(k, w)
  BY <1>3 DEF TensorQueue
<1>5. WaitsFor(k, Append(w, p))' /\ Len(w) < NumOf(k)
  BY <1>3, <1>4, WaiterAdded
<1>6. PICK a \in Seq(Proc) :
        /\ a = Append(q, p) /\ Len(a) = Len(q) + 1
        /\ SubSeq(a, o + 1, Len(a)) = Append(w, p)
        /\ SubSeq(a, 1, o) = SubSeq(q, 1, o)
  BY <1>1, <1>3, TailAppend
<1>7. Len(a) % NumOf(k) = 0 <=> Len(a) = o + NumOf(k)
  <2> DEFINE m == NumOf(k)
             n == Len(a) - o
  <2>1. m \in Nat \ {0} /\ n \in 1 .. m /\ Len(a) = o + n
    BY <1>1, <1>3, <1>5, <1>6
  <2>2. n % m = 0 <=> n = m
    BY <2>1, MultipleIsFull
  <2>3. (m + n) % m = 0 <=> n = m
    BY <2>1, MultipleIsFull
  <2>4. CASE o = 0
    BY <2>1, <2>2, <2>4
  <2>5. CASE o = m
    BY <2>1, <2>3, <2>5
  <2> QED
    BY <1>1, <2>4, <2>5
<1>8. PICK s : s = IF Len(a) % NumOf(k) = 0 THEN r + 1 ELSE r
  OBVIOUS
<1>9. /\ s \in Nat
      /\ s <= IF o = 0 THEN 1 ELSE 2
      /\ s > (IF o = 0 THEN 0 ELSE 1) => Len(a) = o + NumOf(k)
  BY <1>1, <1>2, <1>3, <1>5, <1>6, <1>7, <1>8
<1>10. TensorQueue(a, o, s, k)'
  <2>1. PICK v : v = SubSeq(a, o + 1, Len(a))
    OBVIOUS
  <2>2. WaitsFor(k, v)'
    <3>1. v = Append(w, p)
      BY <1>6, <2>1
    <3> QED
      BY <1>5, <3>1
  <2>3. EachOnce(SubSeq(a, 1, o), k[1]) /\ Len(a) >= o
    <3>1. PICK x : x = SubSeq(q, 1, o) /\ x = SubSeq(a, 1, o)
      BY <1>6
    <3>2. EachOnce(x, k[1])
      BY <1>2, <3>1, Zenon
    <3>3. EachOnce(SubSeq(a, 1, o), k[1])
      BY <3>1, <3>2, Zenon
    <3> QED
      BY <1>1, <1>6, <3>3
  <2> QED
    BY <1>1, <1>9, <2>1, <2>2, <2>3 DEF TensorQueue
<1> QED
  BY <1>1, <1>3, <1>5, <1>6, <1>8, <1>10

LEMMA SincBackward ==
    ASSUME SincInv, NEW p \in Proc, Sinc!Backward(p)
    PROVE  SincInv'
<1>0. PICK l \in Layer, k \in Key : l = layer[p] /\ k = KeyOf(p, l)
  BY LayerZero, GateTypes, KeyIsKey DEF SincInv
<1>1. k[1] = JobOf[p] /\ k[2] = l /\ NWorkers(p) = NumOf(k)
  BY <1>0, KeyFacts DEF KeyOf
<1>2. PICK q, o, r : q = queue[k] /\ o = Offset(can_erase, k) /\ r = ready[k]
  OBVIOUS
<1>3. PICK s : s = IF Len(Append(q, p)) % NumOf(k) = 0 THEN r + 1 ELSE r
  OBVIOUS
<1>4. /\ NWorkers(p) > 1 /\ Advance(p)
      /\ UNCHANGED <<fp_lock, called, started, done, can_erase, result, batch>>
      /\ queue' = [queue EXCEPT ![k] = Append(q, p)]
      /\ ready' = [ready EXCEPT ![k] = s]
      /\ loop' = loop \/ (loop = "off" /\ loop' = "start")
  <2>1. /\ NWorkers(p) > 1 /\ Advance(p)
        /\ UNCHANGED <<fp_lock, called, started, done, can_erase, result, batch>>
        /\ queue' = [queue EXCEPT ![k] = Append(q, p)]
        /\ IF Len(Append(q, p)) % NumOf(k) = 0
           THEN /\ ready' = [ready EXCEPT ![k] = ready[k] + 1]
                /\ loop' = IF loop = "off" THEN "start" ELSE loop
           ELSE UNCHANGED <<ready, loop>>
    BY <1>0, <1>1, <1>2, SincLoopSteps, SincHelpers DEF Sinc!Backward, Sinc!BecomesReady
  <2>2. ready \in [Key -> Nat]
    BY DEF SincInv, QueuesAre
  <2>3. ready' = [ready EXCEPT ![k] = s]
    BY <1>2, <1>3, <2>1, <2>2
  <2> QED
    BY <2>1, <2>3
<1>5. GateInv /\ QueuesAre(queue, can_erase, ready) /\ Runnable(result, queue, can_erase)
      /\ NoneLags /\ SincAwaits
  BY DEF SincInv
<1>6. /\ GateInv' /\ called[p][l] = Due(p, l)
      /\ \A x \in Proc, i \in Layer :
            Due(x, i)' = Due(x, i) + IF x = p /\ i = l THEN Chunks[i] ELSE 0
  BY <1>0, <1>4, <1>5, GateAdvance
<1>7. /\ TensorQueue(Append(q, p), o, s, k)'
      /\ Len(q) < o + NumOf(k)
  <2>1. TensorQueue(q, o, r, k)
    BY <1>2, <1>5 DEF QueuesAre
  <2>2. \A x \in Proc : Due(x, k[2])' = Due(x, k[2]) + IF x = p THEN Chunks[k[2]] ELSE 0
    BY <1>1, <1>6
  <2>3. /\ TensorQueue(Append(q, p), o,
                      IF Len(Append(q, p)) % NumOf(k) = 0 THEN r + 1 ELSE r, k)'
        /\ Len(q) < o + NumOf(k)
    BY <1>1, <1>4, <1>5, <1>6, <2>1, <2>2, EntryAdded
  <2> QED
    BY <1>3, <2>3
<1>8. ASSUME NEW c \in Key, c # k
      PROVE  TensorQueue(queue[c], Offset(can_erase, c), ready[c], c)'
             /\ queue'[c] = queue[c] /\ ready'[c] = ready[c]
  <2>1. queue'[c] = queue[c] /\ ready'[c] = ready[c]
    BY <1>4, <1>5, <1>8 DEF QueuesAre
  <2>2. PICK a, b, d : a = queue[c] /\ b = Offset(can_erase, c) /\ d = ready[c]
    OBVIOUS
  <2>3. TensorQueue(a, b, d, c)
    BY <1>5, <2>2 DEF QueuesAre
  <2>4. ASSUME NEW x \in Proc, JobOf[x] = c[1]
        PROVE  called'[x][c[2]] = called[x][c[2]] /\ Due(x, c[2])' = Due(x, c[2])
    <3>1. c[2] \in Layer /\ c = <<c[1], c[2]>> /\ k = <<k[1], k[2]>>
      BY KeyFacts
    <3>2. ~(x = p /\ c[2] = l)
      BY <1>1, <1>8, <2>4, <3>1
    <3>3. Due(x, c[2]) \in Nat
      BY <1>5, <3>1, GateTypes
    <3> QED
      BY <1>4, <1>6, <3>1, <3>2, <3>3
  <2>5. TensorQueue(a, b, d, c)'
    BY <2>3, <2>4, WaitsStill
  <2>6. a = queue'[c] /\ b = Offset(can_erase', c) /\ d = ready'[c]
    BY <1>4, <2>1, <2>2
  <2> QED
    BY <2>1, <2>5, <2>6
<1>9. QueuesAre(queue, can_erase, ready)'
  <2>1. Append(q, p) \in Seq(Proc) /\ s \in Nat
    <3>1. q \in Seq(Proc) /\ r \in Nat
      BY <1>2, <1>5 DEF QueuesAre
    <3> QED
      BY <1>3, <3>1
  <2>2. /\ queue' \in [Key -> Seq(Proc)] /\ ready' \in [Key -> Nat] /\ can_erase' \in SUBSET Key
        /\ queue'[k] = Append(q, p) /\ ready'[k] = s
    BY <1>4, <1>5, <2>1 DEF QueuesAre
  <2>3. Offset(can_erase', k) = o
    BY <1>2, <1>4
  <2>4. TensorQueue(queue[k], Offset(can_erase, k), ready[k], k)'
    <3>1. PICK a : a = Append(q, p)
      OBVIOUS
    <3>2. TensorQueue(a, o, s, k)'
      BY <1>7, <3>1
    <3> QED
      BY <2>2, <2>3, <3>1, <3>2
  <2>5. ASSUME NEW c \in Key PROVE TensorQueue(queue[c], Offset(can_erase, c), ready[c], c)'
    <3>1. CASE c = k
      BY <2>4, <3>1
    <3>2. CASE c # k
      BY <1>8, <3>2
    <3> QED
      BY <3>1, <3>2
  <2> QED
    BY <2>2, <2>5 DEF QueuesAre
<1>10. Runnable(result, queue, can_erase)'
  <2>1. ASSUME NEW n \in DOMAIN result PROVE result[n] # k
    <3>1. CASE result[n] = k
      <4>1. k \notin can_erase /\ Len(q) = NumOf(k)
        BY <1>2, <1>5, <3>1 DEF Runnable
      <4>2. o = 0 /\ NumOf(k) \in Nat
        BY <1>2, <4>1, KeyFacts DEF Offset
      <4> QED
        BY <1>7, <4>1, <4>2
    <3> QED
      BY <3>1
  <2>2. \A n \in DOMAIN result : result[n] \in Key
    BY <1>5 DEF Runnable, Ordered
  <2> QED
    BY <1>4, <1>5, <1>8, <2>1, <2>2 DEF Runnable
<1>11. NoneLags'
  <2> SUFFICES ASSUME NEW x \in Proc, NEW i \in Layer, NWorkers(x) > 1
               PROVE  Due(x, i)' <= called'[x][i] + Chunks[i]
    BY DEF NoneLags
  <2>1. called[x][i] \in Nat /\ Due(x, i) \in Nat /\ Chunks[i] \in Nat
    BY <1>5, GateTypes
  <2>2. Due(x, i) <= called[x][i] + Chunks[i]
    BY <1>5 DEF NoneLags
  <2>3. x = p /\ i = l => called[x][i] = Due(x, i)
    BY <1>6
  <2> QED
    BY <1>4, <1>6, <2>1, <2>2, <2>3
<1>12. SincAwaits'
  BY <1>4, <1>5 DEF SincAwaits
<1> QED
  BY <1>6, <1>9, <1>10, <1>11, <1>12 DEF SincInv

-----------------------------------------------------------------------------
(* What a turn erases.                                                      *)

LEMMA CleanKeeps ==
    ASSUME SincInv, NEW E \in SUBSET Sinc!Cleanable
    PROVE  QueuesAre(Sinc!Cleaned(E), can_erase \ E, Sinc!Left(E))
<1> DEFINE Q == Sinc!Cleaned(E)
           R == Sinc!Left(E)
           C == can_erase \ E
<1>1. /\ Q = [k \in Key |-> IF k \in E THEN SubSeq(queue[k], NumOf(k) + 1, Len(queue[k]))
                            ELSE queue[k]]
      /\ R = [k \in Key |-> ready[k] - IF k \in E THEN 1 ELSE 0]
  BY SincHelpers DEF Sinc!Cleaned, Sinc!Left, Sinc!Shortened, NumOf
<1>2. \A k \in E : k \in can_erase /\ ready[k] > 0
  BY DEF Sinc!Cleanable
<1>3. QueuesAre(queue, can_erase, ready)
  BY DEF SincInv
<1> HIDE DEF Q, R
<1>4. ASSUME NEW k \in Key
      PROVE  /\ Q[k] \in Seq(Proc) /\ R[k] \in Nat
             /\ TensorQueue(Q[k], Offset(C, k), R[k], k)
  <2>1. TensorQueue(queue[k], Offset(can_erase, k), ready[k], k)
    BY <1>3 DEF QueuesAre
  <2>2. queue[k] \in Seq(Proc) /\ ready[k] \in Nat
    BY <1>3 DEF QueuesAre
  <2>3. CASE k \notin E
    <3>1. Q[k] = queue[k] /\ R[k] = ready[k] /\ Offset(C, k) = Offset(can_erase, k)
      BY <1>1, <2>2, <2>3 DEF Offset
    <3> QED
      BY <2>1, <2>2, <3>1
  <2>4. CASE k \in E
    <3>1. /\ NumOf(k) \in Nat \ {0} /\ Offset(can_erase, k) = NumOf(k) /\ Offset(C, k) = 0
          /\ ready[k] > 0
      BY <1>2, <2>4, KeyFacts DEF Offset
    <3>2. PICK q, m : q = queue[k] /\ m = NumOf(k)
      OBVIOUS
    <3>3. /\ q \in Seq(Proc) /\ m \in Nat \ {0} /\ Len(q) >= m
          /\ WaitsFor(k, SubSeq(q, m + 1, Len(q)))
          /\ ready[k] <= 2 /\ (ready[k] > 1 => Len(q) = m + m)
      BY <2>1, <2>2, <3>1, <3>2 DEF TensorQueue
    <3>4. PICK w \in Seq(Proc) : w = SubSeq(q, m + 1, Len(q)) /\ Len(w) = Len(q) - m
      BY <3>3, TailFacts
    <3>5. Q[k] = w /\ R[k] = ready[k] - 1
      BY <1>1, <2>4, <3>2, <3>4
    <3>6. R[k] \in Nat /\ R[k] <= 1 /\ (R[k] > 0 => Len(w) = 0 + m) /\ Len(w) >= 0
      BY <2>2, <3>1, <3>3, <3>4, <3>5
    <3>7. WaitsFor(k, SubSeq(w, 0 + 1, Len(w)))
      <4>1. SubSeq(w, 0 + 1, Len(w)) = w
        BY WholeTail
      <4>2. WaitsFor(k, w)
        BY <3>3, <3>4, Zenon
      <4> QED
        BY <4>1, <4>2, Zenon
    <3>8. EachOnce(SubSeq(w, 1, 0), k[1])
      BY NoTail DEF EachOnce
    <3>9. TensorQueue(w, 0, R[k], k)
      BY <3>2, <3>6, <3>7, <3>8 DEF TensorQueue
    <3> QED
      BY <3>1, <3>5, <3>6, <3>9
  <2> QED
    BY <2>3, <2>4
<1>5. C \in SUBSET Key
  BY <1>3 DEF QueuesAre
<1>6. Q \in [Key -> Seq(Proc)] /\ R \in [Key -> Nat]
  BY <1>1, <1>4
<1>7. QueuesAre(Q, C, R)
  BY <1>4, <1>5, <1>6 DEF QueuesAre
<1> QED
  BY <1>7 DEF Q, R

-----------------------------------------------------------------------------
(* What a turn invokes.                                                     *)

\* A tensor of the order waits for all workers of its job, and for these rounds are due.
LEMMA RunsFull ==
    ASSUME GateInv, NEW Q, NEW C, NEW R, QueuesAre(Q, C, R), NEW order, Runnable(order, Q, C),
           NEW n \in DOMAIN order, NEW k \in Key, k = order[n]
    PROVE  /\ k \notin C /\ Q[k] \in Seq(Proc) /\ Len(Q[k]) = NumOf(k) /\ R[k] \in Nat /\ R[k] <= 1
           /\ EachOnce(Q[k], k[1]) /\ WaitsFor(k, Q[k])
           /\ \A p \in Proc : JobOf[p] = k[1] =>
                /\ Occurrences(Q[k], p) = 1 /\ NWorkers(p) > 1
                /\ called[p][k[2]] < Due(p, k[2])
                /\ \E m \in DOMAIN Q[k] : Q[k][m] = p
<1>1. PICK q, r : q = Q[k] /\ r = R[k]
  OBVIOUS
<1>2. k \notin C /\ Len(q) = NumOf(k) /\ Offset(C, k) = 0
  BY <1>1 DEF Runnable, Offset
<1>3. TensorQueue(q, 0, r, k)
  BY <1>1, <1>2 DEF QueuesAre
<1>4. q \in Seq(Proc) /\ r \in Nat /\ r <= 1 /\ WaitsFor(k, SubSeq(q, 0 + 1, Len(q)))
  BY <1>3 DEF TensorQueue
<1>5. WaitsFor(k, q)
  <2>1. SubSeq(q, 0 + 1, Len(q)) = q
    BY <1>4, WholeTail
  <2> QED
    BY <1>4, <2>1, Zenon
<1>6. EachOnce(q, k[1])
  BY <1>5 DEF WaitsFor
<1>7. ASSUME NEW p \in Proc, JobOf[p] = k[1]
      PROVE  /\ Occurrences(q, p) = 1 /\ NWorkers(p) > 1
             /\ called[p][k[2]] < Due(p, k[2])
             /\ \E m \in DOMAIN q : q[m] = p
  <2>1. Len(q) = Cardinality(Workers(k[1])) /\ p \in Workers(k[1])
    BY <1>2, <1>7 DEF NumOf, Workers
  <2>2. Occurrences(q, p) = 1
    BY <1>4, <1>6, <1>7, <2>1, FullOccurs
  <2>3. \E m \in DOMAIN q : q[m] = p
    BY <1>4, <1>6, <2>1, QueueInjects
  <2>4. NWorkers(p) > 1
    BY <1>5, <2>3 DEF WaitsFor
  <2>5. called[p][k[2]] < Due(p, k[2])
    BY <1>5, <1>7, <2>3, <2>4 DEF WaitsFor
  <2> QED
    BY <2>2, <2>3, <2>4, <2>5
<1> QED
  BY <1>1, <1>2, <1>4, <1>5, <1>6, <1>7

\* The calls of a turn: one on each worker of the tensors that run, and all are awaited.
LEMMA SincCalls ==
    ASSUME GateInv, NEW Q, NEW C, NEW R, QueuesAre(Q, C, R), NEW order, Runnable(order, Q, C),
           order # <<>>, Sinc!Invoke(order, Q, C), NEW K, K = Sinc!Involved(order)
    PROVE  /\ called' \in [Proc -> [Layer -> Nat]]
           /\ \A p \in Proc, i \in Layer :
                /\ called'[p][i] = called[p][i] + One(KeyOf(p, i) \in K)
                /\ KeyOf(p, i) \in K => <<p, i, called[p][i] + 1>> \in batch'
           /\ \A b \in batch' : JobOf[b[1]] \in JobsOf(K)
           /\ can_erase' = C \union {k \in K : Sinc!LastInvoked(Q, k)}
           /\ result' = Sinc!Without(order, K) /\ loop' = "await" /\ queue' = Q
<1> DEFINE calls(p, i) == IF KeyOf(p, i) \in K THEN Occurrences(Q[KeyOf(p, i)], p) ELSE 0
<1>1. /\ called' = [p \in Proc |-> [i \in Layer |-> called[p][i] + calls(p, i)]]
      /\ batch' = {<<c[1], c[2], called'[c[1]][c[2]]>> :
                     c \in {c \in Proc \X Layer : calls(c[1], c[2]) > 0}}
      /\ can_erase' = C \union {k \in K : Sinc!LastInvoked(Q, k)}
      /\ result' = Sinc!Without(order, K) /\ loop' = "await" /\ queue' = Q
  BY SincHelpers DEF Sinc!Invoke
<1>2. Ordered(order)
  BY DEF Runnable
<1>3. K \in SUBSET Key /\ \A k \in K : \E n \in DOMAIN order : order[n] = k
  BY <1>2, SincInvolved
<1>4. ASSUME NEW p \in Proc, NEW i \in Layer
      PROVE  /\ calls(p, i) = One(KeyOf(p, i) \in K) /\ called[p][i] \in Nat
             /\ calls(p, i) \in Nat
             /\ KeyOf(p, i) \in K => calls(p, i) = 1
             /\ KeyOf(p, i) \notin K => calls(p, i) = 0
  <2>1. called[p][i] \in Nat
    BY GateTypes
  <2>2. CASE KeyOf(p, i) \in K
    <3>1. PICK k \in Key : k = KeyOf(p, i) /\ k \in K
      BY <1>3, <2>2
    <3>2. PICK n \in DOMAIN order : order[n] = k
      BY <1>3, <3>1
    <3>3. k[1] = JobOf[p]
      BY <3>1 DEF KeyOf
    <3>4. Occurrences(Q[k], p) = 1
      BY <3>2, <3>3, RunsFull
    <3> QED
      BY <2>1, <2>2, <3>1, <3>4 DEF One
  <2>3. CASE KeyOf(p, i) \notin K
    BY <2>1, <2>3 DEF One
  <2> QED
    BY <2>2, <2>3
<1> HIDE DEF calls
<1>5. called' \in [Proc -> [Layer -> Nat]]
  BY <1>1, <1>4
<1>6. ASSUME NEW p \in Proc, NEW i \in Layer
      PROVE  /\ called'[p][i] = called[p][i] + One(KeyOf(p, i) \in K)
             /\ KeyOf(p, i) \in K => <<p, i, called[p][i] + 1>> \in batch'
  <2>1. called'[p][i] = called[p][i] + calls(p, i)
    BY <1>1
  <2>2. called'[p][i] = called[p][i] + One(KeyOf(p, i) \in K)
    BY <1>4, <2>1
  <2>3. ASSUME KeyOf(p, i) \in K PROVE <<p, i, called[p][i] + 1>> \in batch'
    <3>1. PICK c \in Proc \X Layer : c = <<p, i>>
      OBVIOUS
    <3>2. calls(c[1], c[2]) > 0
      BY <1>4, <2>3, <3>1
    <3>3. <<c[1], c[2], called'[c[1]][c[2]]>> \in batch'
      BY <1>1, <3>2
    <3>4. called'[p][i] = called[p][i] + 1
      BY <1>4, <2>1, <2>3
    <3> QED
      BY <3>1, <3>3, <3>4
  <2> QED
    BY <2>2, <2>3
<1>7. ASSUME NEW b \in batch' PROVE JobOf[b[1]] \in JobsOf(K)
  <2>1. PICK c \in Proc \X Layer :
          calls(c[1], c[2]) > 0 /\ b = <<c[1], c[2], called'[c[1]][c[2]]>>
    BY <1>1
  <2>2. c[1] \in Proc /\ c[2] \in Layer /\ b[1] = c[1]
    BY <2>1
  <2>3. KeyOf(c[1], c[2]) \in K
    BY <1>4, <2>1, <2>2
  <2>4. KeyOf(c[1], c[2])[1] = JobOf[c[1]]
    BY DEF KeyOf
  <2> QED
    BY <2>2, <2>3, <2>4 DEF JobsOf
<1> QED
  BY <1>1, <1>5, <1>6, <1>7

\* Where no more than one enqueue is due, its last round is the last of its chunks.
LEMMA IsTheLast ==
    ASSUME NEW n \in Nat, NEW e \in Nat, NEW c \in Nat \ {0}, n < e * c, e * c <= n + c,
           n % c = c - 1
    PROVE  n + 1 = e * c
<1> DEFINE m == n \div c
<1>1. m \in Nat /\ n = m * c + (c - 1) /\ m * c \in Nat
  OBVIOUS
<1> HIDE DEF m
<1>2. CASE e <= m
  <2>1. PICK x \in Nat : m = e + x
    <3>1. m - e \in Nat /\ m = e + (m - e)
      BY <1>1, <1>2
    <3> QED
      BY <3>1
  <2>2. m * c = e * c + x * c /\ x * c \in Nat /\ e * c \in Nat
    BY <2>1
  <2> QED
    BY <1>1, <2>2
<1>3. CASE e = m + 1
  <2>1. e * c = m * c + c
    BY <1>1, <1>3
  <2> QED
    BY <1>1, <2>1
<1>4. CASE e > m + 1
  <2>1. PICK x \in Nat : e = m + 2 + x
    <3>1. e - m - 2 \in Nat /\ e = m + 2 + (e - m - 2)
      BY <1>1, <1>4
    <3> QED
      BY <3>1
  <2>2. e * c = m * c + c + c + x * c /\ x * c \in Nat
    BY <1>1, <2>1
  <2> QED
    BY <1>1, <2>2
<1> QED
  BY <1>1, <1>2, <1>3, <1>4

\* One round of what runs together is called.
LEMMA SincInvoke ==
    ASSUME SincInv, NEW Q, NEW C, NEW R, QueuesAre(Q, C, R), NEW order, Runnable(order, Q, C),
           order # <<>>, Sinc!Invoke(order, Q, C), ready' = R,
           UNCHANGED <<pc, layer, it, fp_lock, started, done>>,
           \A p \in Proc, i \in Layer : called[p][i] = done[p][i]
    PROVE  SincInv'
<1> DEFINE K == Sinc!Involved(order)
<1>0. GateInv /\ NoneLags
  BY DEF SincInv
<1>1. Ordered(order)
  BY DEF Runnable
<1>2. /\ K \in SUBSET Key /\ \A k \in K : \E n \in DOMAIN order : order[n] = k
      /\ PairwiseExclusive(JobsOf(K))
  BY <1>1, SincInvolved
<1>3. /\ called' \in [Proc -> [Layer -> Nat]]
      /\ \A p \in Proc, i \in Layer :
            /\ called'[p][i] = called[p][i] + One(KeyOf(p, i) \in K)
            /\ KeyOf(p, i) \in K => <<p, i, called[p][i] + 1>> \in batch'
      /\ \A b \in batch' : JobOf[b[1]] \in JobsOf(K)
      /\ can_erase' = C \union {k \in K : Sinc!LastInvoked(Q, k)}
      /\ result' = Sinc!Without(order, K) /\ loop' = "await" /\ queue' = Q
  BY <1>0, SincCalls
<1> HIDE DEF K
<1>4. ASSUME NEW k \in K
      PROVE  /\ k \notin C /\ Q[k] \in Seq(Proc) /\ Len(Q[k]) = NumOf(k)
             /\ R[k] \in Nat /\ R[k] <= 1 /\ EachOnce(Q[k], k[1]) /\ WaitsFor(k, Q[k])
             /\ \A p \in Proc : JobOf[p] = k[1] =>
                  /\ NWorkers(p) > 1 /\ called[p][k[2]] < Due(p, k[2])
                  /\ \E m \in DOMAIN Q[k] : Q[k][m] = p
  <2>1. k \in Key /\ \E n \in DOMAIN order : order[n] = k
    BY <1>2
  <2> QED
    BY <1>0, <2>1, RunsFull
<1>5. /\ GateInv'
      /\ \A p \in Proc, i \in Layer : Due(p, i)' = Due(p, i)
  <2>1. ASSUME NEW p \in Proc, NEW i \in Layer, KeyOf(p, i) \in K
        PROVE  /\ NWorkers(p) > 1 /\ called[p][i] < Due(p, i)
               /\ <<p, i, called[p][i] + 1>> \in batch'
    <3>1. KeyOf(p, i)[1] = JobOf[p] /\ KeyOf(p, i)[2] = i
      BY DEF KeyOf
    <3>2. PICK k \in K : k = KeyOf(p, i)
      BY <2>1
    <3> QED
      BY <1>3, <1>4, <3>1, <3>2
  <2>2. called' \in [Proc -> [Layer -> Nat]] /\ K \in SUBSET Key
    BY <1>2, <1>3
  <2>3. \A p \in Proc, i \in Layer : called'[p][i] = called[p][i] + One(KeyOf(p, i) \in K)
    BY <1>3
  <2> QED
    BY <1>0, <2>1, <2>2, <2>3, GateInvoke
<1>6. \A p \in Proc, i \in Layer :
        /\ called[p][i] \in Nat /\ Due(p, i) \in Nat /\ Enqueued(p, i) \in Nat
        /\ Chunks[i] \in Nat \ {0}
        /\ KeyOf(p, i) \in K => called'[p][i] = called[p][i] + 1
        /\ KeyOf(p, i) \notin K => called'[p][i] = called[p][i]
  <2> SUFFICES ASSUME NEW p \in Proc, NEW i \in Layer
               PROVE  /\ called[p][i] \in Nat /\ Due(p, i) \in Nat /\ Enqueued(p, i) \in Nat
                      /\ Chunks[i] \in Nat \ {0}
                      /\ KeyOf(p, i) \in K => called'[p][i] = called[p][i] + 1
                      /\ KeyOf(p, i) \notin K => called'[p][i] = called[p][i]
    OBVIOUS
  <2>1. PICK n : n = One(KeyOf(p, i) \in K)
    OBVIOUS
  <2>3. (KeyOf(p, i) \in K => n = 1) /\ (KeyOf(p, i) \notin K => n = 0)
    BY <2>1 DEF One
  <2>4. called'[p][i] = called[p][i] + n
    BY <1>3, <2>1
  <2>2. /\ called[p][i] \in Nat /\ Due(p, i) \in Nat /\ Enqueued(p, i) \in Nat
        /\ Chunks[i] \in Nat \ {0}
    BY <1>0, GateTypes
  <2> QED
    BY <2>2, <2>3, <2>4
<1>7. ASSUME NEW k \in K, ~Sinc!LastInvoked(Q, k)
      PROVE  \A p \in Proc : JobOf[p] = k[1] => called'[p][k[2]] < Due(p, k[2])
  <2> SUFFICES ASSUME NEW p \in Proc, JobOf[p] = k[1] PROVE called'[p][k[2]] < Due(p, k[2])
    OBVIOUS
  <2>0. PICK l \in Layer : l = k[2] /\ KeyOf(p, l) = k
    BY <1>2, KeyFacts
  <2>1. PICK x \in Proc : x = Head(Q[k]) /\ JobOf[x] = k[1]
    <3>1. Q[k] \in Seq(Proc) /\ Len(Q[k]) > 0 /\ EachOnce(Q[k], k[1])
      BY <1>2, <1>4, KeyFacts
    <3>2. Head(Q[k]) = Q[k][1] /\ 1 \in DOMAIN Q[k] /\ Q[k][1] \in Proc
      BY <3>1
    <3> QED
      BY <3>1, <3>2 DEF EachOnce
  <2>2. done[x][l] = called[p][l]
    BY <1>0, <2>1 DEF GateInv, CalledTogether
  <2>3. called[p][l] % Chunks[l] # Chunks[l] - 1
    BY <1>7, <2>0, <2>1, <2>2 DEF Sinc!LastInvoked
  <2>4. called[p][l] < Enqueued(p, l) * Chunks[l]
    BY <1>4, <2>0 DEF Due
  <2>5. called[p][l] + 1 < Enqueued(p, l) * Chunks[l]
    BY <1>6, <2>3, <2>4, NotTheLast
  <2> QED
    BY <1>6, <2>0, <2>5 DEF Due
<1>8. ASSUME NEW k \in K, Sinc!LastInvoked(Q, k)
      PROVE  \A p \in Proc : JobOf[p] = k[1] => called'[p][k[2]] = Due(p, k[2])
  <2> SUFFICES ASSUME NEW p \in Proc, JobOf[p] = k[1] PROVE called'[p][k[2]] = Due(p, k[2])
    OBVIOUS
  <2>0. PICK l \in Layer : l = k[2] /\ KeyOf(p, l) = k
    BY <1>2, KeyFacts
  <2>1. PICK x \in Proc : x = Head(Q[k]) /\ JobOf[x] = k[1]
    <3>1. Q[k] \in Seq(Proc) /\ Len(Q[k]) > 0 /\ EachOnce(Q[k], k[1])
      BY <1>2, <1>4, KeyFacts
    <3>2. Head(Q[k]) = Q[k][1] /\ 1 \in DOMAIN Q[k] /\ Q[k][1] \in Proc
      BY <3>1
    <3> QED
      BY <3>1, <3>2 DEF EachOnce
  <2>2. done[x][l] = called[p][l]
    BY <1>0, <2>1 DEF GateInv, CalledTogether
  <2>3. called[p][l] % Chunks[l] = Chunks[l] - 1
    BY <1>8, <2>0, <2>1, <2>2 DEF Sinc!LastInvoked
  <2>4. called[p][l] < Enqueued(p, l) * Chunks[l]
    BY <1>4, <2>0 DEF Due
  <2>5. Enqueued(p, l) * Chunks[l] <= called[p][l] + Chunks[l]
    <3>1. NWorkers(p) > 1
      BY <1>4
    <3> QED
      BY <1>0, <3>1 DEF NoneLags, Due
  <2>6. called[p][l] + 1 = Enqueued(p, l) * Chunks[l]
    BY <1>6, <2>3, <2>4, <2>5, IsTheLast
  <2> QED
    BY <1>6, <2>0, <2>6 DEF Due
<1>9. PICK erasable : erasable = can_erase'
  OBVIOUS
<1>10. ASSUME NEW k \in K PROVE TensorQueue(Q[k], Offset(erasable, k), R[k], k)'
  <2>1. PICK q, r, m : q = Q[k] /\ r = R[k] /\ m = NumOf(k)
    OBVIOUS
  <2>2. /\ q \in Seq(Proc) /\ r \in Nat /\ r <= 1 /\ Len(q) = m /\ m \in Nat \ {0}
        /\ EachOnce(q, k[1]) /\ WaitsFor(k, q)
    BY <1>2, <1>4, <2>1, KeyFacts
  <2>3. CASE Sinc!LastInvoked(Q, k)
    <3>1. Offset(erasable, k) = m
      BY <1>3, <1>9, <2>1, <2>3 DEF Offset
    <3>2. PICK w : w = SubSeq(q, m + 1, Len(q)) /\ DOMAIN w = {}
      BY <2>2, NoTail
    <3>3. ASSUME NEW p \in Proc, JobOf[p] = k[1]
          PROVE  ~(called'[p][k[2]] < Due(p, k[2])')
      <4>1. k[2] \in Layer
        BY <1>2, KeyFacts
      <4>2. called'[p][k[2]] = Due(p, k[2]) /\ Due(p, k[2])' = Due(p, k[2])
        BY <1>5, <1>8, <2>3, <3>3, <4>1
      <4> QED
        BY <1>6, <4>1, <4>2
    <3>4. WaitsFor(k, w)'
      BY <3>2, <3>3 DEF WaitsFor, EachOnce
    <3>5. PICK v : v = SubSeq(q, 1, m) /\ EachOnce(v, k[1])
      <4>1. SubSeq(q, 1, m) = q
        BY <2>2, WholeTail
      <4> QED
        BY <2>2, <4>1, Zenon
    <3>6. TensorQueue(q, m, r, k)'
      BY <2>1, <2>2, <3>2, <3>4, <3>5 DEF TensorQueue
    <3> QED
      BY <2>1, <3>1, <3>6
  <2>4. CASE ~Sinc!LastInvoked(Q, k)
    <3>1. Offset(erasable, k) = 0
      BY <1>3, <1>4, <1>9, <2>4 DEF Offset
    <3>2. PICK w : w = SubSeq(q, 0 + 1, Len(q)) /\ w = q
      BY <2>2, WholeTail
    <3>3. ASSUME NEW p \in Proc, JobOf[p] = k[1]
          PROVE  called'[p][k[2]] < Due(p, k[2])' /\ \E n \in DOMAIN q : q[n] = p
      <4>1. k[2] \in Layer
        BY <1>2, KeyFacts
      <4>2. called'[p][k[2]] < Due(p, k[2]) /\ Due(p, k[2])' = Due(p, k[2])
        BY <1>5, <1>7, <2>4, <3>3, <4>1
      <4> QED
        BY <1>4, <2>1, <3>3, <4>2
    <3>4. WaitsFor(k, q)'
      BY <2>2, <3>3 DEF WaitsFor
    <3>5. PICK v : v = SubSeq(q, 1, 0) /\ EachOnce(v, k[1])
      BY <2>2, NoTail DEF EachOnce
    <3>6. WaitsFor(k, w)'
      BY <3>2, <3>4
    <3>7. TensorQueue(q, 0, r, k)'
      BY <2>1, <2>2, <3>2, <3>5, <3>6 DEF TensorQueue
    <3> QED
      BY <2>1, <3>1, <3>7
  <2> QED
    BY <2>3, <2>4
<1>11. ASSUME NEW k \in Key, k \notin K PROVE TensorQueue(Q[k], Offset(erasable, k), R[k], k)'
  <2>1. Offset(erasable, k) = Offset(C, k)
    BY <1>3, <1>9, <1>11 DEF Offset
  <2>2. PICK q, o, r : q = Q[k] /\ o = Offset(C, k) /\ r = R[k]
    OBVIOUS
  <2>3. TensorQueue(q, o, r, k)
    BY <2>2 DEF QueuesAre
  <2>4. ASSUME NEW p \in Proc, JobOf[p] = k[1]
        PROVE  called'[p][k[2]] = called[p][k[2]] /\ Due(p, k[2])' = Due(p, k[2])
    <3>1. k[2] \in Layer /\ KeyOf(p, k[2]) = k
      BY <2>4, KeyFacts
    <3> QED
      BY <1>5, <1>6, <1>11, <3>1
  <2>5. TensorQueue(q, o, r, k)'
    BY <2>3, <2>4, WaitsStill
  <2> QED
    BY <2>1, <2>2, <2>5
<1>12. QueuesAre(queue, can_erase, ready)'
  <2>1. /\ Q \in [Key -> Seq(Proc)] /\ R \in [Key -> Nat] /\ erasable \in SUBSET Key
    BY <1>2, <1>3, <1>9 DEF QueuesAre
  <2>2. QueuesAre(Q, erasable, R)'
    BY <1>10, <1>11, <2>1 DEF QueuesAre
  <2> QED
    BY <1>3, <1>9, <2>2
<1>13. Runnable(result, queue, can_erase)'
  <2>1. PICK res : res = Sinc!Without(order, K)
    OBVIOUS
  <2>2. /\ Ordered(res)
        /\ \A n \in DOMAIN res : res[n] \notin K /\ \E m \in DOMAIN order : order[m] = res[n]
    BY <1>1, <2>1, SincWithout
  <2>3. \A m \in DOMAIN order : order[m] \notin C /\ Len(Q[order[m]]) = NumOf(order[m])
    BY DEF Runnable
  <2>4. Runnable(res, Q, erasable)
    BY <1>3, <1>9, <2>2, <2>3 DEF Runnable
  <2>5. result' = res /\ queue' = Q /\ can_erase' = erasable
    BY <1>3, <1>9, <2>1
  <2> QED
    BY <2>4, <2>5 DEF Runnable
<1>14. NoneLags'
  <2> SUFFICES ASSUME NEW p \in Proc, NEW i \in Layer, NWorkers(p) > 1
               PROVE  Due(p, i)' <= called'[p][i] + Chunks[i]
    BY DEF NoneLags
  <2>1. Due(p, i) <= called[p][i] + Chunks[i]
    BY <1>0 DEF NoneLags
  <2>2. called'[p][i] >= called[p][i] /\ called'[p][i] \in Nat
    BY <1>6
  <2> QED
    BY <1>5, <1>6, <2>1, <2>2
<1>15. SincAwaits'
  <2>1. ASSUME NEW b \in batch', NEW c \in batch', JobOf[b[1]] # JobOf[c[1]]
        PROVE  Exclusive(JobOf[b[1]], JobOf[c[1]])
    BY <1>2, <1>3, <2>1 DEF PairwiseExclusive
  <2> QED
    BY <1>3, <2>1 DEF SincAwaits
<1> QED
  BY <1>5, <1>12, <1>13, <1>14, <1>15 DEF SincInv

-----------------------------------------------------------------------------
(* The turns of the loop.                                                   *)

LEMMA KeyFinite == IsFiniteSet(Key)
<1>1. IsFiniteSet(Layer)
  <2>1. 0 \in Int /\ NLayers - 1 \in Int
    BY TrainingAssumption
  <2> QED
    BY <2>1, FS_Interval DEF Layer
<1>2. IsFiniteSet(Job)
  <2> DEFINE f == [p \in Proc |-> JobOf[p]]
  <2>1. f \in Surjection(Proc, Job)
    BY DEF Job, Surjection
  <2> QED
    BY <2>1, TrainingAssumption, FS_Surjection
<1> QED
  BY <1>1, <1>2, FS_Product DEF Key

\* An order of what is on top of the ready queues can run.
LEMMA SelectionRuns ==
    ASSUME NEW E, QueuesAre(Sinc!Cleaned(E), can_erase \ E, Sinc!Left(E)),
           NEW T \in Sinc!Selections(E), T # {}, NEW order \in Sinc!Orders(T)
    PROVE  Runnable(order, Sinc!Cleaned(E), can_erase \ E) /\ order # <<>>
<1> DEFINE z == Cardinality(T)
<1>1. /\ T \in SUBSET Key
      /\ \A k \in T : Sinc!Left(E)[k] > 0 /\ k \notin can_erase \ E
      /\ \A j \in Job : Cardinality({k \in T : k[1] = j}) \in {0, 1}
  BY SincHelpers DEF Sinc!Selections
<1>2. /\ order \in [1 .. z -> T]
      /\ \A m, n \in 1 .. z : m # n => order[m] # order[n]
  BY SincHelpers DEF Sinc!Orders, Sinc!Injection, Sinc!IsInjective
<1>3. IsFiniteSet(T) /\ z \in Nat /\ z # 0
  BY <1>1, KeyFinite, FS_Subset, FS_CardinalityType, FS_EmptySet
<1> HIDE DEF z
<1>4. order \in Seq(Key) /\ DOMAIN order = 1 .. z /\ order # <<>>
  BY <1>1, <1>2, <1>3
<1>5. ASSUME NEW m \in DOMAIN order, NEW n \in DOMAIN order, order[m][1] = order[n][1]
      PROVE  m = n
  <2> DEFINE Mine == {k \in T : k[1] = order[m][1]}
  <2>1. order[m] \in Mine /\ order[n] \in Mine /\ order[m] \in Key
    BY <1>1, <1>2, <1>4, <1>5
  <2>2. order[m][1] \in Job
    BY <2>1, KeyFacts
  <2>3. IsFiniteSet(Mine) /\ Cardinality(Mine) \in {0, 1}
    <3>1. Mine \in SUBSET T
      OBVIOUS
    <3> QED
      BY <1>1, <1>3, <2>2, <3>1, FS_Subset
  <2> HIDE DEF Mine
  <2>4. \E x : Mine = {x}
    BY <2>1, <2>3, FS_EmptySet, FS_Singleton
  <2> QED
    BY <1>2, <1>4, <2>1, <2>4
<1>6. ASSUME NEW n \in DOMAIN order
      PROVE  /\ order[n] \notin can_erase \ E
             /\ Len(Sinc!Cleaned(E)[order[n]]) = NumOf(order[n])
  <2>1. PICK k \in T : k = order[n]
    BY <1>2, <1>4
  <2>2. PICK q, r : q = Sinc!Cleaned(E)[k] /\ r = Sinc!Left(E)[k]
    OBVIOUS
  <2>3. k \in Key /\ r > 0 /\ k \notin can_erase \ E /\ Offset(can_erase \ E, k) = 0
    BY <1>1, <2>1, <2>2 DEF Offset
  <2>4. TensorQueue(q, 0, r, k)
    BY <2>2, <2>3 DEF QueuesAre
  <2>5. Len(q) = 0 + NumOf(k) /\ NumOf(k) \in Nat
    BY <2>3, <2>4, KeyFacts DEF TensorQueue
  <2> QED
    BY <2>1, <2>2, <2>3, <2>5
<1> QED
  BY <1>4, <1>5, <1>6 DEF Runnable, Ordered

\* The loop finds nothing on top.
LEMMA SincEnds ==
    ASSUME SincInv, NEW Q, NEW C, NEW R, QueuesAre(Q, C, R),
           queue' = Q, can_erase' = C, ready' = R, loop' = "leaving", batch' = {},
           UNCHANGED <<called, result, pc, layer, it, fp_lock, started, done>>, result = <<>>,
           \A p \in Proc, i \in Layer : called[p][i] = done[p][i]
    PROVE  SincInv'
<1>1. QuietMove
  BY DEF QuietMove, trainingVars
<1>2. /\ GateInv'
      /\ \A p \in Proc, i \in Layer : NWorkers(p) > 1 => Due(p, i)' = Due(p, i)
  BY <1>1, GateQuiet DEF SincInv
<1>3. QueuesAre(Q, C, R)'
  BY <1>2, QueuesStill
<1>4. QueuesAre(queue, can_erase, ready)'
  BY <1>3
<1>5. NoneLags'
  BY <1>2 DEF SincInv, NoneLags
<1>6. Runnable(result, queue, can_erase)'
  BY DEF Runnable, Ordered
<1>7. SincAwaits'
  BY DEF SincAwaits
<1> QED
  BY <1>2, <1>4, <1>5, <1>6, <1>7 DEF SincInv

LEMMA SincTurn ==
    ASSUME SincInv, Sinc!Turn
    PROVE  SincInv'
<1>1. /\ result = <<>> /\ (loop = "start" \/ (loop = "await" /\ AllDone))
      /\ UNCHANGED <<pc, layer, it, fp_lock, started, done>>
  BY SincHelpers DEF Sinc!Turn
<1>2. PICK E \in SUBSET Sinc!Cleanable : \E T \in Sinc!Selections(E) :
        /\ ready' = Sinc!Left(E)
        /\ IF T # {}
           THEN \E order \in Sinc!Orders(T) : Sinc!Invoke(order, Sinc!Cleaned(E), can_erase \ E)
           ELSE /\ queue' = Sinc!Cleaned(E)
                /\ can_erase' = can_erase \ E
                /\ loop' = "leaving"
                /\ batch' = {}
                /\ UNCHANGED <<called, result>>
  BY DEF Sinc!Turn
<1>3. PICK T \in Sinc!Selections(E) :
        /\ ready' = Sinc!Left(E)
        /\ IF T # {}
           THEN \E order \in Sinc!Orders(T) : Sinc!Invoke(order, Sinc!Cleaned(E), can_erase \ E)
           ELSE /\ queue' = Sinc!Cleaned(E)
                /\ can_erase' = can_erase \ E
                /\ loop' = "leaving"
                /\ batch' = {}
                /\ UNCHANGED <<called, result>>
  BY <1>2
<1>4. \A p \in Proc, i \in Layer : called[p][i] = done[p][i]
  <2>1. CASE loop = "await"
    BY <1>1, <2>1, AwaitEnds DEF SincInv
  <2>2. CASE loop # "await"
    BY <2>2 DEF SincInv, SincAwaits
  <2> QED
    BY <2>1, <2>2
<1>5. QueuesAre(Sinc!Cleaned(E), can_erase \ E, Sinc!Left(E))
  BY CleanKeeps
<1>6. CASE T # {}
  <2>1. PICK order \in Sinc!Orders(T) : Sinc!Invoke(order, Sinc!Cleaned(E), can_erase \ E)
    BY <1>3, <1>6
  <2>2. Runnable(order, Sinc!Cleaned(E), can_erase \ E) /\ order # <<>>
    BY <1>5, <1>6, SelectionRuns
  <2> QED
    BY <1>1, <1>3, <1>4, <1>5, <2>1, <2>2, SincInvoke
<1>7. CASE T = {}
  BY <1>1, <1>3, <1>4, <1>5, <1>7, SincEnds
<1> QED
  BY <1>6, <1>7

LEMMA SincContinue ==
    ASSUME SincInv, Sinc!Continue
    PROVE  SincInv'
<1>1. /\ AllDone /\ result # <<>> /\ Sinc!Invoke(result, queue, can_erase)
      /\ UNCHANGED <<pc, layer, it, fp_lock, started, done, ready>>
  BY SincHelpers DEF Sinc!Continue
<1>2. \A p \in Proc, i \in Layer : called[p][i] = done[p][i]
  BY <1>1, AwaitEnds DEF SincInv
<1>3. QueuesAre(queue, can_erase, ready) /\ Runnable(result, queue, can_erase)
  BY DEF SincInv
<1> QED
  BY <1>1, <1>2, <1>3, SincInvoke

LEMMA SincInit == Sinc!Init => SincInv
<1> SUFFICES ASSUME Sinc!Init PROVE SincInv
  OBVIOUS
<1>1. /\ TrainingInit /\ queue = [k \in Key |-> <<>>] /\ ready = [k \in Key |-> 0]
      /\ can_erase = {} /\ result = <<>> /\ loop = "start" /\ batch = {}
  BY SincHelpers DEF Sinc!Init, Sinc!TrainingInit, TrainingInit, Sinc!Zero, Zero
<1>2. GateInv
  BY <1>1, GateInit
<1>3. \A p \in Proc, i \in Layer : called[p][i] = 0 /\ done[p][i] = 0 /\ Due(p, i) = 0
  <2> SUFFICES ASSUME NEW p \in Proc, NEW i \in Layer
               PROVE  called[p][i] = 0 /\ done[p][i] = 0 /\ Due(p, i) = 0
    OBVIOUS
  <2>1. called[p][i] = 0 /\ done[p][i] = 0 /\ Enqueued(p, i) = 0
    BY <1>1 DEF TrainingInit, Zero, Enqueued
  <2>2. Chunks[i] \in Nat
    BY TrainingAssumption
  <2> QED
    BY <2>1, <2>2 DEF Due
<1>4. NoneLags
  <2>1. \A i \in Layer : Chunks[i] \in Nat
    BY TrainingAssumption
  <2> QED
    BY <1>3, <2>1 DEF NoneLags
<1>5. QueuesAre(queue, can_erase, ready)
  <2>1. ASSUME NEW k \in Key PROVE TensorQueue(queue[k], Offset(can_erase, k), ready[k], k)
    <3>1. queue[k] = <<>> /\ ready[k] = 0 /\ Offset(can_erase, k) = 0
      BY <1>1 DEF Offset
    <3>2. <<>> \in Seq(Proc) /\ Len(<<>>) = 0
      OBVIOUS
    <3>3. PICK v, w : /\ v = SubSeq(<<>>, 1, 0) /\ w = SubSeq(<<>>, 0 + 1, Len(<<>>))
                      /\ DOMAIN v = {} /\ DOMAIN w = {}
      BY <3>2, NoTail
    <3>4. WaitsFor(k, w)
      <4>1. k[2] \in Layer
        BY KeyFacts
      <4> QED
        BY <1>3, <3>3, <4>1 DEF WaitsFor, EachOnce
    <3>5. EachOnce(v, k[1])
      BY <3>3 DEF EachOnce
    <3>6. TensorQueue(<<>>, 0, 0, k)
      BY <3>2, <3>3, <3>4, <3>5 DEF TensorQueue
    <3> QED
      BY <3>1, <3>6
  <2>2. queue \in [Key -> Seq(Proc)] /\ ready \in [Key -> Nat] /\ can_erase \in SUBSET Key
    BY <1>1
  <2> QED
    BY <2>1, <2>2 DEF QueuesAre
<1>6. Runnable(result, queue, can_erase)
  BY <1>1 DEF Runnable, Ordered
<1>7. SincAwaits
  BY <1>1, <1>3 DEF SincAwaits
<1> QED
  BY <1>2, <1>4, <1>5, <1>6, <1>7 DEF SincInv

LEMMA SincStep == SincInv /\ [Sinc!Next]_(Sinc!vars) => SincInv'
<1> SUFFICES ASSUME SincInv, [Sinc!Next]_(Sinc!vars) PROVE SincInv'
  OBVIOUS
<1>1. CASE QuietMove /\ UNCHANGED Sinc!schedulerVars
  <2>1. /\ UNCHANGED <<queue, can_erase, result, loop, batch>> /\ ready' = ready
        /\ ready \in [Key -> Nat]
    BY <1>1 DEF Sinc!schedulerVars, SincInv, QueuesAre
  <2> QED
    BY <1>1, <2>1, SincQuiet
<1>2. ASSUME NEW p \in Proc, Sinc!Backward(p) \/ Sinc!CleanUp(p) PROVE SincInv'
  BY <1>2, SincBackward, SincCleanUp
<1> QED
  BY <1>1, <1>2, SincSteps, SincTurn, SincContinue, SincLeaveLoop

\* Jobs in the network have awaited calls, whose jobs are exclusive.
LEMMA SincLinks == SincInv => LinksAreExclusive
<1> SUFFICES ASSUME SincInv, NEW j \in Job, NEW k \in Job, j # k, InNetwork(j), InNetwork(k)
             PROVE  Exclusive(j, k)
  BY DEF LinksAreExclusive, Exclusive
<1>1. ASSUME NEW m \in Job, InNetwork(m) PROVE \E b \in batch : JobOf[b[1]] = m
  <2>1. PICK p \in Proc, i \in Layer : JobOf[p] = m /\ started[p][i] > done[p][i]
    BY <1>1 DEF InNetwork, Workers
  <2>2. called[p][i] > done[p][i]
    BY <2>1, GateTypes DEF SincInv
  <2>3. <<p, i, called[p][i]>> \in batch
    BY <2>2 DEF SincInv, GateInv, CallsAwaited
  <2> QED
    BY <2>1, <2>3
<1> QED
  BY <1>1 DEF SincInv, SincAwaits

\* Sincronia shares the network among jobs: those whose allreduces are in it at the same
\* time share no worker and no link to the core, although each tensor of the order is
\* compared with the workers of those before it and the order is used up in parts.
THEOREM SincLinksAreExclusive == Sinc!Spec => []LinksAreExclusive
BY SincInit, SincStep, SincLinks, PTL DEF Sinc!Spec

\* A worker is called for what is awaited, as the gate requires.
LEMMA SincGated == SincInv => RoundsAreGated
BY GateGated DEF SincInv

\* What Worker::allreduce and Aggregation rely on, under Sincronia: a chunk is called
\* after the chunk before it has ended on every worker.
THEOREM SincRoundsAreGated == Sinc!Spec => []RoundsAreGated
BY SincInit, SincStep, SincGated, PTL DEF Sinc!Spec

\* A worker is called for the chunks of its enqueues.
LEMMA SincOnce == SincInv => Sinc!ChunksInvokedOnce
BY GateCalled, SincHelpers DEF SincInv, Sinc!ChunksInvokedOnce, Due

\* A worker invokes each chunk of a tensor once per iteration, although every entry of a
\* queue is invoked and the entries of two iterations can be in it.
THEOREM SincChunksInvokedOnce == Sinc!Spec => []Sinc!ChunksInvokedOnce
BY SincInit, SincStep, SincOnce, PTL DEF Sinc!Spec

\* "wait until final allreduces are done", under this scheduler.
THEOREM SincCleanupWaits == Sinc!Spec => []CleanupAfterAllreduce
<1>1. SincInv => CleanupAfterAllreduce
  BY DEF SincInv, GateInv, TrainingInv
<1> QED
  BY SincInit, SincStep, <1>1, PTL DEF Sinc!Spec

\* Two places of a queue with the same worker are two occurrences.
LEMMA OccursAt ==
    ASSUME NEW q \in Seq(Proc), NEW p, NEW a \in DOMAIN q, q[a] = p
    PROVE  /\ Occurrences(q, p) \in Nat /\ Occurrences(q, p) >= 1
           /\ \A b \in DOMAIN q : q[b] = p /\ b # a => Occurrences(q, p) >= 2
<1> DEFINE Places == {n \in DOMAIN q : q[n] = p}
<1>1. IsFiniteSet(Places) /\ Places \in SUBSET DOMAIN q
  <2>1. DOMAIN q = 1 .. Len(q) /\ Len(q) \in Nat
    OBVIOUS
  <2>2. IsFiniteSet(DOMAIN q)
    BY <2>1, FS_Interval
  <2> QED
    BY <2>2, FS_Subset
<1>2. Occurrences(q, p) = Cardinality(Places)
  BY DEF Occurrences
<1>3. Cardinality(Places) \in Nat /\ Cardinality(Places) # 0
  BY <1>1, FS_CardinalityType, FS_EmptySet
<1>4. ASSUME NEW b \in DOMAIN q, q[b] = p, b # a PROVE Cardinality(Places) >= 2
  <2>1. a \in Places /\ b \in Places
    BY <1>4
  <2> HIDE DEF Places
  <2>2. ~\E x : Places = {x}
    BY <1>4, <2>1
  <2>3. Cardinality(Places) # 1
    BY <1>1, <2>2, FS_Singleton
  <2> QED
    BY <1>3, <2>3
<1> QED
  BY <1>2, <1>3, <1>4

\* The last entry of a worker behind those to be erased accounts for its last enqueue.
LEMMA SincKept == SincInv => Sinc!EnqueuesKept
<1> SUFFICES ASSUME SincInv, NEW p \in Proc, NEW i \in Layer, NWorkers(p) > 1
             PROVE  Sinc!Kept(p, i, Occurrences(queue[KeyOf(p, i)], p)
                                  - IF KeyOf(p, i) \in can_erase THEN 1 ELSE 0)
  BY SincHelpers DEF Sinc!EnqueuesKept
<1>1. PICK k \in Key : k = KeyOf(p, i) /\ k[1] = JobOf[p] /\ k[2] = i
  BY KeyIsKey DEF KeyOf
<1>2. PICK q, o : q = queue[k] /\ o = Offset(can_erase, k)
  OBVIOUS
<1>3. TensorQueue(q, o, ready[k], k)
  BY <1>1, <1>2 DEF SincInv, QueuesAre
<1>4. /\ q \in Seq(Proc) /\ NumOf(k) \in Nat \ {0} /\ o \in Nat /\ o <= Len(q)
      /\ o = IF k \in can_erase THEN NumOf(k) ELSE 0
  BY <1>2, <1>3, KeyFacts DEF TensorQueue, Offset
<1>5. PICK w \in Seq(Proc) :
        /\ w = SubSeq(q, o + 1, Len(q)) /\ Len(w) = Len(q) - o
        /\ \A n \in 1 .. Len(q) - o : w[n] = q[n + o]
  BY <1>4, TailFacts
<1>6. WaitsFor(k, w)
  BY <1>3, <1>5 DEF TensorQueue
<1>7. called[p][i] < Due(p, i) => \E n \in DOMAIN q : n > o /\ q[n] = p
  <2> SUFFICES ASSUME called[p][i] < Due(p, i) PROVE \E n \in DOMAIN q : n > o /\ q[n] = p
    OBVIOUS
  <2>1. PICK n \in DOMAIN w : w[n] = p
    BY <1>1, <1>6 DEF WaitsFor
  <2>2. n \in 1 .. Len(q) - o /\ n + o \in DOMAIN q /\ n + o > o
    BY <1>4, <1>5, <2>1
  <2> QED
    BY <1>5, <2>1, <2>2
<1>8. k \in can_erase => \E n \in DOMAIN q : n <= o /\ q[n] = p
  <2> SUFFICES ASSUME k \in can_erase PROVE \E n \in DOMAIN q : n <= o /\ q[n] = p
    OBVIOUS
  <2>0. SubSeq(q, 1, o) = [n \in 1 .. o |-> q[n]]
    BY <1>4
  <2>1. PICK v \in Seq(Proc) : v = SubSeq(q, 1, o) /\ Len(v) = o /\ \A n \in 1 .. o : v[n] = q[n]
    <3>1. PICK v : v = [n \in 1 .. o |-> q[n]] /\ v = SubSeq(q, 1, o)
      BY <2>0
    <3>2. v \in Seq(Proc) /\ Len(v) = o /\ \A n \in 1 .. o : v[n] = q[n]
      BY <1>4, <3>1
    <3> QED
      BY <3>1, <3>2
  <2>2. EachOnce(v, k[1])
    BY <1>3, <2>1 DEF TensorQueue
  <2>3. Len(v) = Cardinality(Workers(k[1])) /\ p \in Workers(k[1])
    BY <1>1, <1>4, <2>1 DEF NumOf, Workers
  <2>4. PICK n \in DOMAIN v : v[n] = p
    BY <2>2, <2>3, QueueInjects
  <2>5. n \in 1 .. o /\ n \in DOMAIN q
    BY <1>4, <2>1, <2>4
  <2> QED
    BY <2>1, <2>4, <2>5
<1>9. PICK a : a = Occurrences(q, p)
  OBVIOUS
<1>10. a \in Nat
  <2>1. CASE \E n \in DOMAIN q : q[n] = p
    BY <1>4, <1>9, <2>1, OccursAt
  <2>2. CASE ~\E n \in DOMAIN q : q[n] = p
    <3>1. {n \in DOMAIN q : q[n] = p} = {}
      BY <2>2
    <3>2. Cardinality({}) = 0
      BY FS_EmptySet
    <3>3. a = Cardinality({})
      BY <1>9, <3>1 DEF Occurrences
    <3> QED
      BY <3>2, <3>3
  <2> QED
    BY <2>1, <2>2
<1>11. /\ k \in can_erase => a >= 1
       /\ called[p][i] < Due(p, i) => a >= 1
       /\ k \in can_erase /\ called[p][i] < Due(p, i) => a >= 2
  <2>1. \A n \in DOMAIN q : q[n] = p => a >= 1
    BY <1>4, <1>9, OccursAt
  <2>2. \A m, n \in DOMAIN q : q[m] = p /\ q[n] = p /\ m # n => a >= 2
    BY <1>4, <1>9, OccursAt
  <2>3. \A n \in DOMAIN q : n \in Nat
    BY <1>4
  <2> QED
    BY <1>4, <1>7, <1>8, <2>1, <2>2, <2>3
<1> DEFINE n == called[p][i]
           e == Enqueued(p, i)
           c == Chunks[i]
           d == n \div c
<1>12. /\ n \in Nat /\ e \in Nat /\ c \in Nat \ {0}
       /\ n <= e * c /\ e * c <= n + c
  BY GateTypes, GateCalled DEF SincInv, NoneLags, Due
<1>13. /\ k \in can_erase => a >= 1
       /\ n < e * c => a >= 1
       /\ k \in can_erase /\ n < e * c => a >= 2
  BY <1>11 DEF Due
<1>14. d \in Nat /\ d * c <= n /\ n < d * c + c /\ d * c \in Nat /\ e * c \in Nat
  <2> HIDE DEF n, c, e
  <2> QED
    BY <1>12
<1> HIDE DEF n, c, e, d
<1>15. e <= d + IF n < e * c THEN 1 ELSE 0
  <2>1. CASE e <= d
    BY <1>12, <1>14, <2>1
  <2>2. CASE e = d + 1
    <3>1. e * c = d * c + c
      BY <1>12, <1>14, <2>2
    <3> QED
      BY <1>12, <1>14, <2>2, <3>1
  <2>3. CASE e > d + 1
    <3>1. PICK x \in Nat : e = d + 2 + x
      <4>1. e - d - 2 \in Nat /\ e = d + 2 + (e - d - 2)
        BY <1>12, <1>14, <2>3
      <4> QED
        BY <4>1
    <3>2. e * c = d * c + c + c + x * c /\ x * c \in Nat
      BY <1>12, <1>14, <3>1
    <3> QED
      BY <1>12, <1>14, <3>2
  <2> QED
    BY <1>12, <1>14, <2>1, <2>2, <2>3
<1>16. e <= d + (a - IF k \in can_erase THEN 1 ELSE 0)
  BY <1>10, <1>12, <1>13, <1>14, <1>15
<1>17. Sinc!Kept(p, i, a - IF k \in can_erase THEN 1 ELSE 0)
  BY <1>16, SincHelpers DEF Sinc!Kept, e, d, n, c
<1> QED
  BY <1>1, <1>2, <1>9, <1>17

\* No enqueue is dropped, although a tensor that is erased leaves the queue by a count of
\* entries and its ready queue by one.
THEOREM SincEnqueuesKept == Sinc!Spec => []Sinc!EnqueuesKept
BY SincInit, SincStep, SincKept, PTL DEF Sinc!Spec

LEMMA SincRoundMove == [Sinc!Next]_(Sinc!vars) => RoundMove
<1> SUFFICES ASSUME [Sinc!Next]_(Sinc!vars) PROVE RoundMove
  OBVIOUS
<1>1. CASE QuietMove
  BY <1>1, QuietIsRoundMove
<1>2. ASSUME NEW p \in Proc, Sinc!Backward(p) \/ Sinc!CleanUp(p) PROVE RoundMove
  BY <1>2 DEF Sinc!Backward, Sinc!CleanUp, Sinc!Leave, RoundMove, roundVars
<1>3. CASE Sinc!Turn \/ Sinc!Continue \/ Sinc!LeaveLoop
  BY <1>3 DEF Sinc!Turn, Sinc!Continue, Sinc!LeaveLoop, Sinc!trainingVars, RoundMove, roundVars
<1> QED
  BY <1>1, <1>2, <1>3, SincSteps

\* Sincronia provides the gate too: the chunks of each tensor of each job are the rounds
\* of a gated AllReduce.
THEOREM SincImplementsGatedAllReduce ==
    ASSUME NEW j \in Job, NEW i \in Layer
    PROVE  Sinc!Spec => Fabric(j, i, NIter * Chunks[i])!Spec
<1> DEFINE rounds == NIter * Chunks[i]
<1>1. Sinc!Init => Fabric(j, i, rounds)!Init
  <2>1. Sinc!Init => TrainingInit
    BY SincHelpers DEF Sinc!Init, Sinc!TrainingInit, TrainingInit, Sinc!Zero, Zero
  <2> QED
    BY <2>1, FabricInit
<1>2. SincInv /\ [Sinc!Next]_(Sinc!vars) => [Fabric(j, i, rounds)!Next]_(Fabric(j, i, rounds)!vars)
  BY SincRoundMove, GateFabric DEF SincInv
<1> HIDE DEF rounds
<1>3. Sinc!Spec => Fabric(j, i, rounds)!Spec
  BY SincInit, SincStep, <1>1, <1>2, PTL DEF Sinc!Spec, Fabric!Spec
<1> QED
  BY <1>3 DEF rounds
=============================================================================
