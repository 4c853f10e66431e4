------------------------ MODULE CollectiveScheduler ------------------------
(***************************************************************************)
(* What the collective schedulers share: the queue of a tensor is full when *)
(* every worker of its job has enqueued it, and a scheduler then calls      *)
(* Worker::allreduce for every entry and awaits the end of all these calls. *)
(***************************************************************************)
EXTENDS Training

VARIABLE batch   \* the allreduces a scheduler awaits (all_of): worker, tensor, call

\* FAULT: the first worker's enqueue already starts the batch.
Full_First(q, p) == Len(q) = 1

\* queue[tensor->key].size() == tensor->job->num_workers_allocated
Full(q, p) == Len(q) = NWorkers(p)

Occurrences(q, p) == Cardinality({n \in DOMAIN q : q[n] = p})

\* FAULT: the loop over the queue begins at its second entry.
InvokedOn_SkipFirst(q, i) ==
    [p \in Proc |-> [l \in Layer |->
        called[p][l] + IF l = i THEN Occurrences(Tail(q), p) ELSE 0]]

\* FAULT: allreduce is called twice for every entry.
InvokedOn_Twice(q, i) ==
    [p \in Proc |-> [l \in Layer |->
        called[p][l] + IF l = i THEN 2 * Occurrences(q, p) ELSE 0]]

\* called, after a call of allreduce for every entry of the queue q of tensor i.
InvokedOn(q, i) ==
    [p \in Proc |-> [l \in Layer |->
        called[p][l] + IF l = i THEN Occurrences(q, p) ELSE 0]]

\* What all_of then waits for: the end of each of these calls.
AwaitedOf(q, i) == {<<q[n], i, InvokedOn(q, i)[q[n]][i]>> : n \in DOMAIN q}

\* FAULT: the scheduler goes on without waiting for the allreduces.
AllDone_Any == TRUE

\* all_of has been triggered.
AllDone == \A b \in batch : done[b[1]][b[2]] >= b[3]

BatchTypeOK == batch \subseteq Proc \X Layer \X Nat
=============================================================================
