------------------------- MODULE DeficitRoundRobin -------------------------
(***************************************************************************)
(* DeficitRoundRobin: the tensors that every worker has enqueued wait in a  *)
(* priority queue per job; one loop goes round the jobs, invokes one chunk  *)
(* of the tensor on top for the job whose turn it is and for the later jobs *)
(* that the network can accommodate beside it, and awaits all of them.  The *)
(* loop ends when every queue is empty, and the next enqueue starts it.     *)
(***************************************************************************)
EXTENDS SharedNetwork, Functions

VARIABLES
    queue,          \* the workers that have enqueued each tensor
    ready_pqueues,  \* in order of arrival: a job, and its tensors that are full
    jid_to_deque_idx, \* the index of each job in it, 0 for none
    quantums,       \* chunks invoked for each job since the loop was started
    loop,           \* "start" (called), "await" (all_of), "leaving" (timeout(0)), "off"
    idx             \* the index the loop goes on from

schedulerVars == <<queue, ready_pqueues, jid_to_deque_idx, quantums, loop, idx, batch>>
vars == <<trainingVars, schedulerVars>>

KeyOf(p, i) == <<JobOf[p], i>>
NoQuantums == [j \in Job |-> 0]

\* main starts the loop, which finds nothing to do.
Init ==
    /\ TrainingInit
    /\ queue = [k \in Job \X Layer |-> <<>>]
    /\ ready_pqueues = <<>>
    /\ jid_to_deque_idx = [j \in Job |-> 0]
    /\ quantums = NoQuantums
    /\ loop = "start"
    /\ idx = 1
    /\ batch = {}

-----------------------------------------------------------------------------
(* The queues. *)

Entry(i, q) == [tensor |-> i, workers |-> q]

Known(j) == jid_to_deque_idx[j] # 0

\* Tensor e joins the queue of job j, which may be a new one.
Push(j, e) ==
    IF Known(j)
    THEN /\ ready_pqueues' = [ready_pqueues EXCEPT ![jid_to_deque_idx[j]] =
                                [job |-> j, pq |-> @.pq \union {e}]]
         /\ UNCHANGED jid_to_deque_idx
    ELSE /\ ready_pqueues' = Append(ready_pqueues, [job |-> j, pq |-> {e}])
         /\ jid_to_deque_idx' = [jid_to_deque_idx EXCEPT ![j] = Len(ready_pqueues) + 1]

\* FAULT: the indexes of the other jobs stay as they are.
UpdateMaps_Stale(deque, j) == [jid_to_deque_idx EXCEPT ![j] = 0]

\* jid_to_deque_idx.erase(j); update_maps()
UpdateMaps(deque, j) ==
    [k \in Job |->
        IF \E n \in DOMAIN deque : deque[n].job = k
        THEN CHOOSE n \in DOMAIN deque : deque[n].job = k
        ELSE IF k = j THEN 0 ELSE jid_to_deque_idx[k]]

\* tensor->iter on the first of the workers of an entry.
IterOf(e) == done[e.workers[1]][e.tensor] \div Chunks[e.tensor]

\* pq.top() by CustomCompare.
Top(pq) ==
    CHOOSE e \in pq : \A f \in pq :
        \/ IterOf(e) < IterOf(f)
        \/ IterOf(e) = IterOf(f) /\ e.tensor <= f.tensor

Filled(n) == ready_pqueues[n].pq # {}
AllEmpty == \A n \in DOMAIN ready_pqueues : ~Filled(n)

\* The backward pass of a tensor and the call of enqueue at its end.
Backward(p) ==
    /\ NWorkers(p) > 1
    /\ Advance(p)
    /\ LET k == KeyOf(p, layer[p])
           q == Append(queue[k], p)
       IN  IF Full(q, p)
           THEN /\ queue' = [queue EXCEPT ![k] = <<>>]
                /\ Push(k[1], Entry(k[2], q))
                /\ IF loop = "off"
                   THEN loop' = "start" /\ idx' = 1 /\ quantums' = NoQuantums
                   ELSE UNCHANGED <<loop, idx, quantums>>
           ELSE /\ queue' = [queue EXCEPT ![k] = q]
                /\ UNCHANGED <<ready_pqueues, jid_to_deque_idx, loop, idx, quantums>>
    /\ UNCHANGED <<fp_lock, called, started, done, batch>>

-----------------------------------------------------------------------------
(* The loop. *)

\* The indices that could join the jobs involved so far, at the turn of idx n.
Addable(n, jobs) ==
    {m \in n .. Len(ready_pqueues) :
        /\ ready_pqueues[m].job \notin jobs
        /\ Filled(m)
        /\ Accommodate(Wids(jobs), WidsAllocated(ready_pqueues[m].job))}

\* Of those, the first with the least quantum joins.
Joined(n, jobs) ==
    LET quantum(m) == quantums[ready_pqueues[m].job]
        least == {m \in Addable(n, jobs) : \A l \in Addable(n, jobs) :
                    quantum(m) < quantum(l) \/ (quantum(m) = quantum(l) /\ m <= l)}
    IN  jobs \union {ready_pqueues[m].job : m \in least}

\* Work conservation: jobs join until none can.
Involved(n) ==
    LET after[k \in 0 .. Len(ready_pqueues)] ==
            IF k = 0 THEN {ready_pqueues[n].job} ELSE Joined(n, after[k - 1])
    IN  after[Len(ready_pqueues)]

TopOf(j) == Top(ready_pqueues[jid_to_deque_idx[j]].pq)

\* FAULT: the tensor is popped one chunk late.
LastInvoked_Late(e) == done[e.workers[1]][e.tensor] % Chunks[e.tensor] = Chunks[e.tensor]

\* FAULT: the tensor is popped with its first chunk.
LastInvoked_First(e) == TRUE

\* front_tensor->allreduced_size + CHUNK_SIZE >= front_tensor->size
LastInvoked(e) == done[e.workers[1]][e.tensor] % Chunks[e.tensor] = Chunks[e.tensor] - 1

\* One chunk of the tensor on top of the queue of each of these jobs.
InvokeChunks(jobs) ==
    LET tops == {TopOf(j) : j \in jobs}
    IN  /\ called' = [p \in Proc |-> [i \in Layer |->
                        called[p][i] + Cardinality({e \in tops :
                            e.tensor = i /\ p \in Range(e.workers)})]]
        /\ batch' = UNION {{<<p, e.tensor, called[p][e.tensor] + 1>> :
                              p \in Range(e.workers)} : e \in tops}
        /\ quantums' = [j \in Job |-> quantums[j] + IF j \in jobs THEN 1 ELSE 0]
        /\ ready_pqueues' = [n \in DOMAIN ready_pqueues |->
             [ready_pqueues[n] EXCEPT !.pq = {e \in @ : e \notin tops \/ ~LastInvoked(e)}]]

\* The next index of the for loop whose queue is not empty.
NextIdx(n) == {m \in n .. Len(ready_pqueues) : Filled(m) /\ \A l \in n .. m - 1 : ~Filled(l)}

\* One turn of the loop, from its call or from all_of to the co_await of the next
\* all_of or to its end: past the last index it begins again at the first, unless
\* all queues are empty.
Turn ==
    /\ loop = "start" \/ (loop = "await" /\ AllDone)
    /\ \/ \E n \in IF NextIdx(idx) # {} THEN NextIdx(idx) ELSE NextIdx(1) :
            /\ InvokeChunks(Involved(n))
            /\ idx' = n + 1
            /\ loop' = "await"
       \/ /\ AllEmpty
          /\ loop' = "leaving"
          /\ batch' = {}
          /\ UNCHANGED <<called, ready_pqueues, quantums, idx>>
    /\ UNCHANGED <<pc, layer, it, fp_lock, started, done, queue, jid_to_deque_idx>>

\* The end of the coroutine, a timeout(0) after the test: loop_is_running = false.
LeaveLoop ==
    /\ loop = "leaving"
    /\ loop' = "off"
    /\ UNCHANGED <<trainingVars, queue, ready_pqueues, jid_to_deque_idx, quantums, idx, batch>>

\* What is left of the deque when the entries of job j are erased.
Without(deque, j) ==
    LET kept[n \in 0 .. Len(deque)] ==
            IF n = 0 THEN <<>>
            ELSE IF deque[n].job = j THEN kept[n - 1] ELSE Append(kept[n - 1], deque[n])
    IN  kept[Len(deque)]

\* The end of execute_job, with cleanup_for_job.
CleanUp(p) ==
    /\ Leave(p)
    /\ ready_pqueues' = Without(ready_pqueues, JobOf[p])
    /\ jid_to_deque_idx' = UpdateMaps(ready_pqueues', JobOf[p])
    /\ UNCHANGED <<queue, quantums, loop, idx, batch>>

-----------------------------------------------------------------------------
Over == LoopsOver /\ RoundsOver /\ loop = "off" /\ UNCHANGED vars

LoopStep(p) ==
    \/ Forward(p) /\ UNCHANGED schedulerVars
    \/ Backward(p)
    \/ BackwardAlone(p) /\ UNCHANGED schedulerVars
    \/ Drain(p) /\ UNCHANGED schedulerVars
    \/ CleanUp(p)

RoundStep(p, i) ==
    (StartAllreduce(p, i) \/ CompleteAllreduce(p, i)) /\ UNCHANGED schedulerVars

Next ==
    \/ \E p \in Proc : LoopStep(p) \/ \E i \in Layer : RoundStep(p, i)
    \/ Turn
    \/ LeaveLoop
    \/ Over

Spec == Init /\ [][Next]_vars
-----------------------------------------------------------------------------
\* Every variable keeps its type.
TypeOK ==
    /\ TrainingTypeOK
    /\ queue \in [Job \X Layer -> Seq(Proc)]
    /\ \A n \in DOMAIN ready_pqueues :
        /\ ready_pqueues[n].job \in Job
        /\ \A e \in ready_pqueues[n].pq : e.tensor \in Layer /\ e.workers \in Seq(Proc)
    /\ jid_to_deque_idx \in [Job -> Nat]
    /\ quantums \in [Job -> Nat]
    /\ loop \in {"start", "await", "leaving", "off"}
    /\ idx \in Nat \ {0}
    /\ BatchTypeOK

\* jid_to_deque_idx and the deque name each other, also after jobs have been
\* cleaned up worker by worker while the loop goes round the others.
IndexesAgree ==
    /\ \A n \in DOMAIN ready_pqueues : jid_to_deque_idx[ready_pqueues[n].job] = n
    /\ \A j \in Job : Known(j) =>
        /\ jid_to_deque_idx[j] \in DOMAIN ready_pqueues
        /\ ready_pqueues[jid_to_deque_idx[j]].job = j

\* A worker invokes each chunk of a tensor once per iteration.
ChunksInvokedOnce ==
    \A p \in Proc, i \in Layer : called[p][i] <= Enqueued(p, i) * Chunks[i]

\* No enqueue is dropped.
EnqueuesKept ==
    \A p \in Proc, i \in Layer :
        NWorkers(p) > 1 =>
            Kept(p, i, Occurrences(queue[KeyOf(p, i)], p)
                       + Cardinality({n \in DOMAIN ready_pqueues :
                            \E e \in ready_pqueues[n].pq :
                                e.tensor = i /\ p \in Range(e.workers)}))
=============================================================================
