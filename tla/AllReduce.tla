----------------------------- MODULE AllReduce -----------------------------
(***************************************************************************)
(* What the training loop may rely on: an allreduce of a tensor ends on a   *)
(* worker only after every worker has started it.  Workers start a round    *)
(* when they please (or, with a collective scheduler, when all of them have *)
(* ended the previous one) and do not see each other's progress.            *)
(***************************************************************************)
EXTENDS Naturals

CONSTANTS Worker, Rounds, Gated

VARIABLES
    started,   \* allreduces each worker has started
    done       \* allreduces each worker has completed

vars == <<started, done>>

Init ==
    /\ started = [w \in Worker |-> 0]
    /\ done = [w \in Worker |-> 0]

Start(w) ==
    /\ started[w] = done[w]
    /\ started[w] < Rounds
    /\ Gated => \A v \in Worker : done[v] >= done[w]
    /\ started' = [started EXCEPT ![w] = @ + 1]
    /\ UNCHANGED done

Complete(w) ==
    /\ started[w] > done[w]
    /\ \A v \in Worker : started[v] > done[w]
    /\ done' = [done EXCEPT ![w] = @ + 1]
    /\ UNCHANGED started

Next == \E w \in Worker : Start(w) \/ Complete(w)

Spec == Init /\ [][Next]_vars

FairSpec == Spec /\ \A w \in Worker : WF_vars(Start(w)) /\ WF_vars(Complete(w))
=============================================================================
