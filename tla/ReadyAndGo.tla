----------------------------- MODULE ReadyAndGo -----------------------------
(***************************************************************************)
(* ReadyAndGo: when the last worker of a job has enqueued a tensor, its     *)
(* coroutine takes the lock of the job, runs the tensor's allreduce on      *)
(* every worker, gives the lock back and only then erases the queue.  The   *)
(* jobs share no state of the scheduler: there is one job here, of several   *)
(* workers.                                                                 *)
(***************************************************************************)
EXTENDS CollectiveScheduler

VARIABLES
    queue,       \* the workers that have enqueued each tensor
    available_, evs, state    \* job_locks: the resource, by tensor

Lock == INSTANCE Resource WITH Client <- Layer, Capacity <- 1

lockVars == <<available_, evs, state>>
schedulerVars == <<queue, available_, evs, state, batch>>
vars == <<trainingVars, schedulerVars>>

Init ==
    /\ TrainingInit
    /\ queue = [i \in Layer |-> <<>>]
    /\ Lock!Init
    /\ batch = {}

\* The backward pass of a tensor and the call of enqueue at its end.
Backward(p) ==
    /\ NWorkers(p) > 1
    /\ Advance(p)
    /\ LET k == layer[p]
           q == Append(queue[k], p)
       IN  /\ queue' = [queue EXCEPT ![k] = q]
           /\ IF Full(q, p) THEN Lock!Request(k) ELSE UNCHANGED lockVars
    /\ UNCHANGED <<fp_lock, called, started, done, batch>>

\* The lock is granted: allreduce on every worker of the queue, await.
Invoke(i) ==
    /\ Lock!Resume(i)
    /\ called' = InvokedOn(queue[i], i)
    /\ batch' = AwaitedOf(queue[i], i)
    /\ UNCHANGED <<pc, layer, it, fp_lock, started, done, queue>>

\* all_of has been triggered: the lock is released, the queue erased.
Finish(i) ==
    /\ state[i] = "holding"
    /\ AllDone
    /\ Lock!Release(i)
    /\ batch' = {}
    /\ queue' = [queue EXCEPT ![i] = <<>>]
    /\ UNCHANGED trainingVars

Over == LoopsOver /\ RoundsOver /\ available_ = 1 /\ UNCHANGED vars

LoopStep(p) ==
    \/ Forward(p) /\ UNCHANGED schedulerVars
    \/ Backward(p)
    \/ Drain(p) /\ UNCHANGED schedulerVars
    \/ Leave(p) /\ UNCHANGED schedulerVars   \* cleanup_for_job does nothing

RoundStep(p, i) ==
    (StartAllreduce(p, i) \/ CompleteAllreduce(p, i)) /\ UNCHANGED schedulerVars

SchedulerStep == \E i \in Layer : Invoke(i) \/ Finish(i)

Next ==
    \/ \E p \in Proc : LoopStep(p) \/ \E i \in Layer : RoundStep(p, i)
    \/ SchedulerStep
    \/ Over

Spec == Init /\ [][Next]_vars

-----------------------------------------------------------------------------
\* Every variable keeps its type.
TypeOK ==
    /\ TrainingTypeOK
    /\ queue \in [Layer -> Seq(Proc)]
    /\ Lock!TypeOK
    /\ BatchTypeOK

\* The lock of the job keeps its allreduces apart: at most one tensor of the
\* job is in the network.
OneTensorInNetwork ==
    \A p, q \in Proc, i, l \in Layer :
        started[p][i] > done[p][i] /\ started[q][l] > done[q][l] => i = l

\* No enqueue is dropped.
EnqueuesKept ==
    \A p \in Proc, i \in Layer :
        NWorkers(p) > 1 => Kept(p, i, Occurrences(queue[i], p))
=============================================================================
