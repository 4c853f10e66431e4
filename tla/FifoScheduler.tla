--------------------------- MODULE FifoScheduler ---------------------------
(***************************************************************************)
(* FirstInFirstOutOneByOne: when the last worker of a job has enqueued a    *)
(* tensor, its coroutine takes the one lock of the scheduler, runs the      *)
(* tensor's allreduce on every worker and gives the lock back.  The lock is *)
(* the resource of resource.hpp, whose waiters are those coroutines.        *)
(***************************************************************************)
EXTENDS CollectiveScheduler

Key == Job \X Layer

\* The coroutines that ask for the lock: the enqueue that fills the queue of a
\* tensor, one in every iteration.  A job that is fast enough may fill the queue
\* again while the coroutine of the iteration before holds the lock.
Coroutine == Key \X (0 .. NIter - 1)

VARIABLES
    queue,       \* the workers that have enqueued each tensor
    available_, evs, state    \* lock: the resource

Lock == INSTANCE Resource WITH Client <- Coroutine, Capacity <- 1

lockVars == <<available_, evs, state>>
schedulerVars == <<queue, available_, evs, state, batch>>
vars == <<trainingVars, schedulerVars>>

KeyOf(p, i) == <<JobOf[p], i>>

Init ==
    /\ TrainingInit
    /\ queue = [k \in Key |-> <<>>]
    /\ Lock!Init
    /\ batch = {}

\* The backward pass of a tensor and the call of enqueue at its end.
Backward(p) ==
    /\ NWorkers(p) > 1
    /\ Advance(p)
    /\ LET k == KeyOf(p, layer[p])
           q == Append(queue[k], p)
       IN  /\ queue' = [queue EXCEPT ![k] = q]
           /\ IF Full(q, p) THEN Lock!Request(<<k, it[p]>>) ELSE UNCHANGED lockVars
    /\ UNCHANGED <<fp_lock, called, started, done, batch>>

\* The lock is granted: allreduce on every worker, erase the queue, await.
Invoke(c) ==
    /\ Lock!Resume(c)
    /\ LET k == c[1]
       IN  /\ called' = InvokedOn(queue[k], k[2])
           /\ batch' = AwaitedOf(queue[k], k[2])
           /\ queue' = [queue EXCEPT ![k] = <<>>]
    /\ UNCHANGED <<pc, layer, it, fp_lock, started, done>>

\* FAULT: the lock is not released.
Finish_KeepsLock(c) ==
    /\ state[c] = "holding" /\ AllDone /\ batch # {}
    /\ batch' = {}
    /\ UNCHANGED <<trainingVars, queue, lockVars>>

\* all_of has been triggered: the lock is released.
Finish(c) ==
    /\ state[c] = "holding"
    /\ AllDone
    /\ Lock!Release(c)
    /\ batch' = {}
    /\ UNCHANGED <<trainingVars, queue>>

Over == LoopsOver /\ RoundsOver /\ available_ = 1 /\ UNCHANGED vars

LoopStep(p) ==
    \/ Forward(p) /\ UNCHANGED schedulerVars
    \/ Backward(p)
    \/ BackwardAlone(p) /\ UNCHANGED schedulerVars
    \/ Drain(p) /\ UNCHANGED schedulerVars
    \/ Leave(p) /\ UNCHANGED schedulerVars   \* cleanup_for_job does nothing

RoundStep(p, i) ==
    (StartAllreduce(p, i) \/ CompleteAllreduce(p, i)) /\ UNCHANGED schedulerVars

SchedulerStep == \E c \in Coroutine : Invoke(c) \/ Finish(c)

Next ==
    \/ \E p \in Proc : LoopStep(p) \/ \E i \in Layer : RoundStep(p, i)
    \/ SchedulerStep
    \/ Over

Spec == Init /\ [][Next]_vars

\* Timeouts expire, granted locks resume their coroutine, triggered events those of
\* the scheduler, and the fabric completes what every worker has started: it does,
\* for rounds that are gated (BarrierFairSpec of Aggregation), as they are here.
FairSpec ==
    /\ Spec
    /\ \A p \in Proc : WF_vars(LoopStep(p))
    /\ \A p \in Proc, i \in Layer : WF_vars(RoundStep(p, i))
    /\ WF_vars(SchedulerStep)

-----------------------------------------------------------------------------
\* Every variable keeps its type.
TypeOK ==
    /\ TrainingTypeOK
    /\ queue \in [Key -> Seq(Proc)]
    /\ Lock!TypeOK
    /\ BatchTypeOK

\* "A link (worker-switch) runs one job at a time": the allreduces that are in
\* the network at any moment belong to one tensor of one job.
OneTensorInNetwork ==
    \A p, q \in Proc, i, l \in Layer :
        started[p][i] > done[p][i] /\ started[q][l] > done[q][l]
            => KeyOf(p, i) = KeyOf(q, l)

\* No enqueue is dropped.
EnqueuesKept ==
    \A p \in Proc, i \in Layer :
        NWorkers(p) > 1 => Kept(p, i, Occurrences(queue[KeyOf(p, i)], p))
=============================================================================
