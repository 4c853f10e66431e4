------------------------------ MODULE Sincronia ------------------------------
(***************************************************************************)
(* Sincronia: one loop takes the tensor on top of every job's ready queue,  *)
(* orders them (bssi), and runs one chunk of each in that order, with those *)
(* the network can accommodate beside it.  A tensor leaves its ready queue, *)
(* and its entries the queue, when the loop next finds it on top after its  *)
(* last chunk; until then enqueues of the next iteration pile up behind it. *)
(* Which tensor is on top depends on a comparator whose keys change in the  *)
(* heap, and the order on floating-point weights: both are any here.        *)
(***************************************************************************)
EXTENDS SharedNetwork, Functions

Key == Job \X Layer

VARIABLES
    queue,       \* the workers that have enqueued each tensor, in order
    ready,       \* ready_pqueues: how often each tensor is in its job's queue
    can_erase,   \* tensors whose last chunk has been invoked
    result,      \* the tensors still to go in this turn, in order
    loop         \* "start" (called), "await" (all_of), "leaving" (timeout(0)), "off"

schedulerVars == <<queue, ready, can_erase, result, loop, batch>>
vars == <<trainingVars, schedulerVars>>

KeyOf(p, i) == <<JobOf[p], i>>

\* loop_is_running is true and main calls the loop, which finds nothing to do.
Init ==
    /\ TrainingInit
    /\ queue = [k \in Key |-> <<>>]
    /\ ready = [k \in Key |-> 0]
    /\ can_erase = {}
    /\ result = <<>>
    /\ loop = "start"
    /\ batch = {}

\* queue[tensor->key].size() % tensor->job->num_workers_allocated == 0
BecomesReady(q, p) == Len(q) % NWorkers(p) = 0

\* The backward pass of a tensor and the call of enqueue at its end.
Backward(p) ==
    /\ NWorkers(p) > 1
    /\ Advance(p)
    /\ LET k == KeyOf(p, layer[p])
           q == Append(queue[k], p)
       IN  /\ queue' = [queue EXCEPT ![k] = q]
           /\ IF BecomesReady(q, p)
              THEN /\ ready' = [ready EXCEPT ![k] = @ + 1]
                   /\ loop' = IF loop = "off" THEN "start" ELSE loop
              ELSE UNCHANGED <<ready, loop>>
    /\ UNCHANGED <<fp_lock, called, started, done, can_erase, result, batch>>

-----------------------------------------------------------------------------
(* The loop. *)

\* The tensors that may be popped because their last chunk has been invoked,
\* and what may then be on top: one tensor of every job that has one left.
Cleanable == {k \in can_erase : ready[k] > 0}

Left(E) == [k \in Key |-> ready[k] - IF k \in E THEN 1 ELSE 0]

\* What is popped below another tensor is not seen, and a job is cleaned until
\* its top is not to be erased.
Selections(E) ==
    {T \in SUBSET {k \in Key : Left(E)[k] > 0 /\ k \notin can_erase \ E} :
        \A j \in Job : Cardinality({k \in T : k[1] = j}) =
                       IF \E i \in Layer : Left(E)[<<j, i>>] > 0 THEN 1 ELSE 0}

\* FAULT: all entries of the tensor go, not one per worker.
Shortened_All(k, n) == <<>>

\* queue[key].pop_front(), n times.
Shortened(k, n) == SubSeq(queue[k], n + 1, Len(queue[k]))

Cleaned(E) ==
    [k \in Key |-> IF k \in E THEN Shortened(k, Cardinality(Workers(k[1]))) ELSE queue[k]]

\* The tensors of the order that run with its first: each is compared with the
\* workers of those before it.
Involved(order) ==
    LET after[n \in 1 .. Len(order)] ==
            IF n = 1 THEN {order[1]}
            ELSE LET before == after[n - 1]
                 IN  IF Accommodate(Wids({k[1] : k \in before}), WidsAllocated(order[n][1]))
                     THEN before \union {order[n]} ELSE before
    IN  after[Len(order)]

\* front_tensor->allreduced_size + CHUNK_SIZE >= front_tensor->size
LastInvoked(q, k) == done[Head(q[k])][k[2]] % Chunks[k[2]] = Chunks[k[2]] - 1

\* std::erase_if(result, ...): the order without these tensors.
Without(order, tops) ==
    LET kept[n \in 0 .. Len(order)] ==
            IF n = 0 THEN <<>>
            ELSE IF order[n] \in tops THEN kept[n - 1] ELSE Append(kept[n - 1], order[n])
    IN  kept[Len(order)]

\* One chunk of the first tensor of the order and of those that can run beside
\* it, for every entry of their queues q.
Invoke(order, q, erasable) ==
    LET tops == Involved(order)
        calls(p, i) == IF KeyOf(p, i) \in tops THEN Occurrences(q[KeyOf(p, i)], p) ELSE 0
    IN  /\ called' = [p \in Proc |-> [i \in Layer |-> called[p][i] + calls(p, i)]]
        /\ batch' = {<<c[1], c[2], called'[c[1]][c[2]]>> :
                       c \in {c \in Proc \X Layer : calls(c[1], c[2]) > 0}}
        /\ can_erase' = erasable \union {k \in tops : LastInvoked(q, k)}
        /\ result' = Without(order, tops)
        /\ loop' = "await"
        /\ queue' = q

\* The inner loop goes on with what is left of the order.
Continue ==
    /\ loop = "await" /\ AllDone /\ result # <<>>
    /\ Invoke(result, queue, can_erase)
    /\ UNCHANGED <<pc, layer, it, fp_lock, started, done, ready>>

\* bssi: the tensors in the order of their weights, which is any order here.
Orders(T) == Injection(1 .. Cardinality(T), T)

\* The outer loop begins again: it erases, selects and orders, or ends.
Turn ==
    /\ result = <<>> /\ (loop = "start" \/ (loop = "await" /\ AllDone))
    /\ \E E \in SUBSET Cleanable : \E T \in Selections(E) :
         /\ ready' = Left(E)
         /\ IF T # {}
            THEN \E order \in Orders(T) : Invoke(order, Cleaned(E), can_erase \ E)
            ELSE /\ queue' = Cleaned(E)
                 /\ can_erase' = can_erase \ E
                 /\ loop' = "leaving"
                 /\ batch' = {}
                 /\ UNCHANGED <<called, result>>
    /\ UNCHANGED <<pc, layer, it, fp_lock, started, done>>

\* The end of the coroutine: loop_is_running = false.
LeaveLoop ==
    /\ loop = "leaving"
    /\ loop' = "off"
    /\ UNCHANGED <<trainingVars, queue, ready, can_erase, result, batch>>

\* The end of execute_job, with cleanup_for_job.
CleanUp(p) ==
    /\ Leave(p)
    /\ ready' = [k \in Key |-> IF k[1] = JobOf[p] THEN 0 ELSE ready[k]]
    /\ UNCHANGED <<queue, can_erase, result, loop, batch>>

-----------------------------------------------------------------------------
Over == LoopsOver /\ RoundsOver /\ loop = "off" /\ UNCHANGED vars

LoopStep(p) ==
    \/ Forward(p) /\ UNCHANGED schedulerVars
    \/ Backward(p)
    \/ BackwardAlone(p) /\ UNCHANGED schedulerVars
    \/ Drain(p) /\ UNCHANGED schedulerVars
    \/ CleanUp(p)

RoundStep(p, i) ==
    (StartAllreduce(p, i) \/ CompleteAllreduce(p, i)) /\ UNCHANGED schedulerVars

Next ==
    \/ \E p \in Proc : LoopStep(p) \/ \E i \in Layer : RoundStep(p, i)
    \/ Turn \/ Continue
    \/ LeaveLoop
    \/ Over

Spec == Init /\ [][Next]_vars

-----------------------------------------------------------------------------
\* A worker invokes each chunk of a tensor once per iteration, although every
\* entry of a tensor's queue is invoked and entries of two iterations may be in it.
ChunksInvokedOnce ==
    \A p \in Proc, i \in Layer : called[p][i] <= Enqueued(p, i) * Chunks[i]

\* No enqueue is dropped: what has not been invoked is an entry, not counting the
\* first of a tensor that only waits to be erased.
EnqueuesKept ==
    \A p \in Proc, i \in Layer :
        NWorkers(p) > 1 =>
            LET k == KeyOf(p, i)
            IN  Kept(p, i, Occurrences(queue[k], p) - IF k \in can_erase THEN 1 ELSE 0)
===============================================================================
