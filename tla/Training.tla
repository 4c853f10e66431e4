------------------------------ MODULE Training ------------------------------
(***************************************************************************)
(* Worker::execute_job: the training loop of every worker of every job, its *)
(* fp_locks and allreduce_locks, and its calls of Worker::allreduce.  The   *)
(* fabric is reduced to what AllReduce promises and Aggregation implements: *)
(* a round ends on a worker only after every worker of the job has started  *)
(* it.  Computation times are arbitrary (they are inputs, and zero with     *)
(* NO_COMPUTATION_TIME), so a compute step may happen at any time.          *)
(*                                                                         *)
(* A module that models a collective scheduler extends this one, gives      *)
(* Backward its enqueue, and conjoins its own steps.                        *)
(***************************************************************************)
EXTENDS Naturals, Sequences, FiniteSets

CONSTANTS
    Proc,       \* one execute_job coroutine per worker of a job
    JobOf,      \* the job each of them trains
    NLayers,    \* tensors of a model
    NIter,      \* bound: iterations that are explored
    Chunks,     \* rounds an allreduce of each tensor is split into
    Ends        \* the job ends after NIter iterations

Layer == 0 .. NLayers - 1
Job == {JobOf[p] : p \in Proc}

ASSUME TrainingAssumption ==
    /\ IsFiniteSet(Proc) /\ Proc # {}
    /\ JobOf = [p \in Proc |-> JobOf[p]]
    /\ NLayers \in Nat \ {0} /\ NIter \in Nat \ {0}
    /\ Chunks \in [Layer -> Nat \ {0}]
    /\ Ends \in BOOLEAN

VARIABLES
    pc,         \* where each execute_job stands
    layer,      \* the tensor its loop is at
    it,         \* its iteration
    fp_lock,    \* available_ of fp_locks, per worker and tensor
    called,     \* calls of Worker::allreduce, per worker and tensor
    started,    \* those that hold or have held allreduce_lock
    done        \* those that have returned

loopVars == <<pc, layer, it>>
roundVars == <<started, done>>
trainingVars == <<pc, layer, it, fp_lock, called, started, done>>

Workers(j) == {p \in Proc : JobOf[p] = j}

\* job->num_workers_allocated
NWorkers(p) == Cardinality(Workers(JobOf[p]))

Zero == [p \in Proc |-> [i \in Layer |-> 0]]

\* The counter f with n added for worker p and tensor i.
Plus(f, p, i, n) == [f EXCEPT ![p][i] = @ + n]

TrainingInit ==
    /\ pc = [p \in Proc |-> "forward"]
    /\ layer = [p \in Proc |-> 0]
    /\ it = [p \in Proc |-> 0]
    /\ fp_lock = [p \in Proc |-> [i \in Layer |-> 1]]
    /\ called = Zero
    /\ started = Zero
    /\ done = Zero

-----------------------------------------------------------------------------
\* FAULT: the forward pass does not wait for the tensor's allreduce.
MayForward_Always(p) == TRUE

\* co_await fp_locks[tensor->key]->request()
MayForward(p) == fp_lock[p][layer[p]] > 0

\* The forward pass of one tensor.
Forward(p) ==
    /\ pc[p] = "forward"
    /\ MayForward(p)
    /\ fp_lock' = [fp_lock EXCEPT ![p][layer[p]] = @ - 1]
    /\ IF layer[p] < NLayers - 1
       THEN layer' = [layer EXCEPT ![p] = @ + 1] /\ UNCHANGED pc
       ELSE pc' = [pc EXCEPT ![p] = "backward"] /\ UNCHANGED layer
    /\ UNCHANGED <<it, called, started, done>>

\* FAULT: the loop over the iterations runs once more.
MoreIterations_Once(p) == it[p] < NIter

MoreIterations(p) == it[p] + 1 < NIter

\* The loops move on after the backward pass of a tensor.
Advance(p) ==
    /\ pc[p] = "backward"
    /\ IF layer[p] > 0
       THEN layer' = [layer EXCEPT ![p] = @ - 1] /\ UNCHANGED <<pc, it>>
       ELSE /\ it' = [it EXCEPT ![p] = @ + 1]
            /\ pc' = [pc EXCEPT ![p] =
                        IF MoreIterations(p) THEN "forward" ELSE "drain"]
            /\ UNCHANGED layer

\* FAULT: a job of a single worker does not release fp_lock.
BackwardAlone_NoRelease(p) ==
    /\ NWorkers(p) = 1
    /\ Advance(p)
    /\ UNCHANGED <<fp_lock, called, started, done>>

\* The backward pass of one tensor on a job of a single worker.
BackwardAlone(p) ==
    /\ NWorkers(p) = 1
    /\ Advance(p)
    /\ fp_lock' = Plus(fp_lock, p, layer[p], 1)
    /\ UNCHANGED <<called, started, done>>

\* Worker::allreduce holds allreduce_lock: its packets are on their way.
StartAllreduce(p, i) ==
    /\ called[p][i] > started[p][i]
    /\ started[p][i] = done[p][i]
    /\ started' = Plus(started, p, i, 1)
    /\ UNCHANGED <<pc, layer, it, fp_lock, called, done>>

\* FAULT: every chunk releases fp_lock.
LastChunk_Every(p, i) == TRUE

\* allreduced_size reaches the size of the tensor with this round.
LastChunk(p, i) == (done[p][i] + 1) % Chunks[i] = 0

\* The end of Worker::allreduce: the fabric has returned the whole round, and
\* fp_lock is released with its last chunk.
CompleteAllreduce(p, i) ==
    /\ started[p][i] > done[p][i]
    /\ \A q \in Workers(JobOf[p]) : started[q][i] > done[p][i]
    /\ done' = Plus(done, p, i, 1)
    /\ fp_lock' = IF LastChunk(p, i) THEN Plus(fp_lock, p, i, 1) ELSE fp_lock
    /\ UNCHANGED <<pc, layer, it, called, started>>

\* FAULT: the locks are not requested at the end.
Drained_NoWait(p) == TRUE

\* Both locks of the tensor are free, for co_await ...->request().
Drained(p) ==
    /\ fp_lock[p][layer[p]] > 0
    /\ called[p][layer[p]] = done[p][layer[p]]

\* The loop at the end of execute_job takes and returns both locks of one
\* tensor after the other.
Drain(p) ==
    /\ Ends
    /\ pc[p] = "drain"
    /\ Drained(p)
    /\ IF layer[p] < NLayers - 1
       THEN layer' = [layer EXCEPT ![p] = @ + 1] /\ UNCHANGED pc
       ELSE pc' = [pc EXCEPT ![p] = "cleanup"] /\ UNCHANGED layer
    /\ UNCHANGED <<it, fp_lock, called, started, done>>

\* The end of execute_job, but for what cs->cleanup_for_job does.
Leave(p) ==
    /\ pc[p] = "cleanup"
    /\ pc' = [pc EXCEPT ![p] = "done"]
    /\ UNCHANGED <<layer, it, fp_lock, called, started, done>>

\* The loops are at their end or at the bound of the exploration.
LoopsOver == \A p \in Proc : pc[p] = IF Ends THEN "done" ELSE "drain"
RoundsOver == \A p \in Proc, i \in Layer : called[p][i] = done[p][i]

-----------------------------------------------------------------------------
\* Every variable keeps its type, for the state of worker.h and common.h.
TrainingTypeOK ==
    /\ pc \in [Proc -> {"forward", "backward", "drain", "cleanup", "done"}]
    /\ layer \in [Proc -> Layer]
    /\ it \in [Proc -> 0 .. NIter]
    /\ fp_lock \in [Proc -> [Layer -> Nat]]
    /\ called \in [Proc -> [Layer -> Nat]]
    /\ started \in [Proc -> [Layer -> Nat]]
    /\ done \in [Proc -> [Layer -> Nat]]

\* "will block if last step's allreduce is not completed yet": when a worker
\* is past the forward pass of a tensor in iteration n, the n allreduces of the
\* iterations before it have ended on that worker, in full.
ForwardAfterAllreduce ==
    \A p \in Proc, i \in Layer :
        NWorkers(p) > 1 /\ (pc[p] = "backward" \/ (pc[p] = "forward" /\ i < layer[p]))
            => done[p][i] >= it[p] * Chunks[i]

\* The workers of a job are never more than one iteration apart, although none of
\* them looks at another: the allreduces hold them together.
IterationsInStep ==
    \A p, q \in Proc : JobOf[p] = JobOf[q] => it[p] <= it[q] + 1

\* "wait until final allreduces are done": when a worker cleans up, all its
\* allreduces have ended.
CleanupAfterAllreduce ==
    \A p \in Proc : pc[p] \in {"cleanup", "done"} =>
        \A i \in Layer : called[p][i] = done[p][i]

\* The gate Aggregation assumes of a collective scheduler, and the comment "at most
\* one allreduce going on for a tensor" in Worker::allreduce: no worker is even
\* asked for a round of a tensor before every worker has ended the one before.
RoundsAreGated ==
    \A p, q \in Proc, i \in Layer :
        JobOf[p] = JobOf[q] => called[p][i] <= done[q][i] + 1

\* The enqueues worker p has made for tensor i.
Enqueued(p, i) == it[p] + IF pc[p] = "backward" /\ layer[p] < i THEN 1 ELSE 0

\* "Workers call whenever they want to do collective": with n entries of p in
\* the scheduler's queue for tensor i, none of its enqueues has been dropped.
Kept(p, i, n) == Enqueued(p, i) <= (called[p][i] \div Chunks[i]) + n
=============================================================================
