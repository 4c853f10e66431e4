--------------------------- MODULE ByteScheduler ---------------------------
(***************************************************************************)
(* ByteScheduler: every job has a loop (kick_off) that runs the allreduces  *)
(* of its tensors one chunk at a time, always of the tensor on top of the   *)
(* ready queue.  A tensor enters the ready queue when the last worker has   *)
(* enqueued it and leaves it, with its queue, at the first turn of the loop *)
(* that finds it on top after its last chunk.  Jobs share no state here but *)
(* through tensor keys, which differ: there is one job, of several workers. *)
(***************************************************************************)
EXTENDS CollectiveScheduler

VARIABLES
    queue,       \* the workers that have enqueued each tensor
    ready,       \* tensors in ready_queue
    top,         \* the one on its top
    active,      \* the job is in active_jobs
    alive,       \* ready_queue has an entry for the job
    can_erase,   \* tensors whose last chunk has been invoked
    kick         \* where kick_off stands: "off", "start" (called), "await" (all_of)

schedulerVars == <<queue, ready, top, active, alive, can_erase, kick, batch>>
vars == <<trainingVars, schedulerVars>>

Init ==
    /\ TrainingInit
    /\ queue = [i \in Layer |-> <<>>]
    /\ ready = {}
    /\ top = 0
    /\ active = FALSE
    /\ alive = FALSE
    /\ can_erase = {}
    /\ kick = "off"
    /\ batch = {}

\* tensor->iter, on the worker whose tensor stands for i in the ready queue.
IterOf(i) ==
    LET p == queue[i][Cardinality(Proc)] IN done[p][i] \div Chunks[i]

\* CustomCompare: tensor i of p goes before the one that is on top now, whose
\* iter has grown if its allreduce has ended meanwhile.
GoesBefore(p, i) ==
    \/ it[p] < IterOf(top)
    \/ it[p] = IterOf(top) /\ i < top

\* The backward pass of a tensor and the call of enqueue at its end.
Backward(p) ==
    /\ NWorkers(p) > 1
    /\ Advance(p)
    /\ LET i == layer[p]
           q == Append(queue[i], p)
       IN  /\ queue' = [queue EXCEPT ![i] = q]
           /\ IF Full(q, p)
              THEN /\ ready' = ready \union {i}
                   /\ alive' = TRUE
                   /\ top' = IF ready = {} \/ GoesBefore(p, i) THEN i ELSE top
                   /\ active' = TRUE
                   /\ kick' = IF active THEN kick ELSE "start"
              ELSE UNCHANGED <<ready, top, active, alive, kick>>
    /\ UNCHANGED <<fp_lock, called, started, done, can_erase, batch>>

\* FAULT: cid > total_cid.
LastInvoked_Never(i) ==
    LET p == queue[i][Cardinality(Proc)] IN done[p][i] % Chunks[i] = Chunks[i]

\* cid >= total_cid: from allreduced_size, chunk t of the tensor is its last.
LastInvoked(i) ==
    LET p == queue[i][Cardinality(Proc)] IN done[p][i] % Chunks[i] = Chunks[i] - 1

\* What the inner loop may pop before it finds a tensor whose chunks are not
\* all invoked.  A tensor's iter grows while it is in the heap, so with more
\* than two tensors in it any of the others may come up after a pop.
Popped ==
    IF top \notin can_erase THEN {{}}
    ELSE {E \in SUBSET (ready \intersect can_erase) :
            top \in E /\ (E = ready \/ ready \ (E \union can_erase) # {})}

Erased(E) == [i \in Layer |-> IF i \in E THEN <<>> ELSE queue[i]]

\* The end of kick_off.
Quiet(E) ==
    /\ E = ready
    /\ ready' = {}
    /\ queue' = Erased(E)
    /\ can_erase' = can_erase \ E
    /\ active' = FALSE
    /\ kick' = "off"
    /\ batch' = {}
    /\ UNCHANGED <<trainingVars, top, alive>>

\* The next chunk of tensor i, on every worker of its queue.
InvokeChunk(E, i) ==
    /\ i = top \/ E # {}
    /\ ready' = ready \ E
    /\ top' = i
    /\ queue' = Erased(E)
    /\ can_erase' = (can_erase \ E) \union (IF LastInvoked(i) THEN {i} ELSE {})
    /\ called' = InvokedOn(queue[i], i)
    /\ batch' = AwaitedOf(queue[i], i)
    /\ kick' = "await"
    /\ UNCHANGED <<pc, layer, it, fp_lock, started, done, active, alive>>

\* One turn of kick_off, from its call or from all_of to the co_await of the next
\* all_of or to its end.  When the job has been cleaned up meanwhile it reads a
\* queue that no longer exists, and ends.
Turn ==
    /\ kick = "start" \/ (kick = "await" /\ AllDone)
    /\ IF ready = {} \/ ~active
       THEN Quiet(ready)
       ELSE \E E \in Popped :
              \/ Quiet(E)
              \/ \E i \in ready \ (E \union can_erase) : InvokeChunk(E, i)

\* The end of execute_job, with cleanup_for_job.
CleanUp(p) ==
    /\ Leave(p)
    /\ queue' = [i \in Layer |-> <<>>]
    /\ ready' = {}
    /\ active' = FALSE
    /\ alive' = FALSE
    /\ UNCHANGED <<top, can_erase, kick, batch>>

Over == LoopsOver /\ RoundsOver /\ kick = "off" /\ UNCHANGED vars

LoopStep(p) ==
    \/ Forward(p) /\ UNCHANGED schedulerVars
    \/ Backward(p)
    \/ Drain(p) /\ UNCHANGED schedulerVars
    \/ CleanUp(p)

RoundStep(p, i) ==
    (StartAllreduce(p, i) \/ CompleteAllreduce(p, i)) /\ UNCHANGED schedulerVars

Next ==
    \/ \E p \in Proc : LoopStep(p) \/ \E i \in Layer : RoundStep(p, i)
    \/ Turn
    \/ Over

Spec == Init /\ [][Next]_vars

-----------------------------------------------------------------------------
\* Every variable keeps its type.
TypeOK ==
    /\ TrainingTypeOK
    /\ queue \in [Layer -> Seq(Proc)]
    /\ ready \subseteq Layer /\ can_erase \subseteq Layer /\ top \in Layer
    /\ active \in BOOLEAN /\ alive \in BOOLEAN
    /\ kick \in {"off", "start", "await"}
    /\ BatchTypeOK

\* The loop of kick_off keeps the allreduces of a job apart: at most one tensor
\* of the job is in the network.
OneTensorInNetwork ==
    \A p, q \in Proc, i, l \in Layer :
        started[p][i] > done[p][i] /\ started[q][l] > done[q][l] => i = l

\* A worker invokes each chunk of a tensor once per iteration: it is never given
\* more rounds than the iterations it has enqueued are long.
ChunksInvokedOnce ==
    \A p \in Proc, i \in Layer : called[p][i] <= Enqueued(p, i) * Chunks[i]

\* No enqueue is dropped.
EnqueuesKept ==
    \A p \in Proc, i \in Layer :
        NWorkers(p) > 1 => Kept(p, i, Occurrences(queue[i], p))

\* "Will be called after each job finishes": cleanup_for_job runs when the loop of
\* the job is over, so the ready queue it refers to exists while it runs.
ReadyQueueAlive == kick # "off" => alive
=============================================================================
