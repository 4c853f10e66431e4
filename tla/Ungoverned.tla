----------------------------- MODULE Ungoverned -----------------------------
(***************************************************************************)
(* The training loop without a collective scheduler (cs is null): each      *)
(* worker calls Worker::allreduce right after a tensor's backward pass.     *)
(***************************************************************************)
EXTENDS Training

Backward(p) ==
    /\ NWorkers(p) > 1
    /\ Advance(p)
    /\ called' = Plus(called, p, layer[p], 1)
    /\ UNCHANGED <<fp_lock, started, done>>

LoopInit == TrainingInit

Over == LoopsOver /\ RoundsOver /\ UNCHANGED trainingVars

LoopStep(p) ==
    Forward(p) \/ Backward(p) \/ BackwardAlone(p) \/ Drain(p) \/ Leave(p)

RoundStep(p, i) == StartAllreduce(p, i) \/ CompleteAllreduce(p, i)

LoopNext ==
    \/ \E p \in Proc : LoopStep(p) \/ \E i \in Layer : RoundStep(p, i)
    \/ Over

\* Timeouts expire and granted locks resume their coroutine.  Nothing is asked
\* of the rounds: without a scheduler that keeps the rounds of a tensor apart
\* the switch may abort or drop a packet, and a round may never end.
LoopFairness == \A p \in Proc : WF_trainingVars(LoopStep(p))

LoopSpec == LoopInit /\ [][LoopNext]_trainingVars

-----------------------------------------------------------------------------
\* The loops themselves block nobody: a job whose every allreduce returns ends,
\* whatever becomes of the rounds of the other jobs.
JobEndsIfRoundsDo ==
    \A j \in Job :
        (\A p \in Workers(j), i \in Layer : []<>(called[p][i] = done[p][i]))
            => <>(\A p \in Workers(j) : pc[p] = "done")
=============================================================================
