----------------------------- MODULE Schedulers -----------------------------
(***************************************************************************)
(* The choice of a collective scheduler (CS) in main.  A behavior begins    *)
(* with the choice of one for the jobs that are trained, and from then on   *)
(* takes the steps of that scheduler.  Variables that the chosen scheduler  *)
(* does not have are Unused.                                                *)
(***************************************************************************)
EXTENDS Naturals, Sequences, FiniteSets

CONSTANTS
    Schedulers,   \* the schedulers to choose from
    Proc, JobOf, NLayers, NIter, Chunks, Ends,   \* the jobs, as in Training
    WidOf, TorOf, \* the worker each execute_job runs on, and its rack
    Observed      \* a job

VARIABLES
    cs,
    pc, layer, it, fp_lock, called, started, done, batch, queue,   \* all
    available_, evs, state,       \* the lock of "fifo" and "ready"
    ready, can_erase,             \* "byte" and Sincronia
    top, active, alive, kick,     \* "byte"
    loop,                         \* DeficitRoundRobin and Sincronia
    ready_pqueues, jid_to_deque_idx, quantums, idx,   \* DeficitRoundRobin
    result                        \* Sincronia

lockVars == <<available_, evs, state>>
readyVars == <<ready, can_erase>>
byteVars == <<top, active, alive, kick>>
drrVars == <<ready_pqueues, jid_to_deque_idx, quantums, idx>>

\* FirstInFirstOutOneByOne and ReadyAndGo do not split a tensor.
Whole == [i \in 0 .. NLayers - 1 |-> 1]

F == INSTANCE FifoScheduler WITH Chunks <- Whole
G == INSTANCE ReadyAndGo WITH Chunks <- Whole
Y == INSTANCE ByteScheduler
D == INSTANCE DeficitRoundRobin
S == INSTANCE Sincronia

\* The jobs of ReadyAndGo and of ByteScheduler share nothing, and are modelled one at
\* a time.
ASSUME SchedulersAssumption ==
    /\ Schedulers \subseteq {"fifo", "ready", "byte", "drr", "sincronia"}
    /\ IsFiniteSet(Proc) /\ Proc # {}
    /\ JobOf = [p \in Proc |-> JobOf[p]]
    /\ NLayers \in Nat \ {0} /\ NIter \in Nat \ {0}
    /\ Chunks \in [0 .. NLayers - 1 -> Nat \ {0}]
    /\ Ends \in BOOLEAN
    /\ "ready" \in Schedulers \/ "byte" \in Schedulers =>
           \A p, q \in Proc : JobOf[p] = JobOf[q]
    /\ \E p \in Proc : JobOf[p] = Observed

-----------------------------------------------------------------------------
Unused == "unused"
NoLock == available_ = Unused /\ evs = Unused /\ state = Unused
NoReady == ready = Unused /\ can_erase = Unused
NoByte == top = Unused /\ active = Unused /\ alive = Unused /\ kick = Unused
NoLoop == loop = Unused
NoDrr ==
    ready_pqueues = Unused /\ jid_to_deque_idx = Unused /\ quantums = Unused /\ idx = Unused
NoResult == result = Unused

Init ==
    /\ cs \in Schedulers
    /\ \/ cs = "fifo" /\ F!Init /\ NoReady /\ NoByte /\ NoLoop /\ NoDrr /\ NoResult
       \/ cs = "ready" /\ G!Init /\ NoReady /\ NoByte /\ NoLoop /\ NoDrr /\ NoResult
       \/ cs = "byte" /\ Y!Init /\ NoLock /\ NoLoop /\ NoDrr /\ NoResult
       \/ cs = "drr" /\ D!Init /\ NoLock /\ NoReady /\ NoByte /\ NoResult
       \/ cs = "sincronia" /\ S!Init /\ NoLock /\ NoByte /\ NoDrr

ByFifo(N) == cs = "fifo" /\ N /\ UNCHANGED <<cs, readyVars, byteVars, loop, drrVars, result>>
ByReady(N) == cs = "ready" /\ N /\ UNCHANGED <<cs, readyVars, byteVars, loop, drrVars, result>>
ByByte(N) == cs = "byte" /\ N /\ UNCHANGED <<cs, lockVars, loop, drrVars, result>>
ByDrr(N) == cs = "drr" /\ N /\ UNCHANGED <<cs, lockVars, readyVars, byteVars, result>>
BySincronia(N) == cs = "sincronia" /\ N /\ UNCHANGED <<cs, lockVars, byteVars, drrVars>>

Next ==
    \/ ByFifo(F!Next) \/ ByReady(G!Next) \/ ByByte(Y!Next)
    \/ ByDrr(D!Next) \/ BySincronia(S!Next)

vars ==
    <<cs, pc, layer, it, fp_lock, called, started, done, batch, queue, lockVars, readyVars,
      byteVars, loop, drrVars, result>>

\* The fairness of FifoScheduler, which promises that every job ends.
Fairness ==
    /\ \A p \in Proc :
        /\ WF_vars(ByFifo(F!LoopStep(p)))
        /\ \A i \in F!Layer : WF_vars(ByFifo(F!RoundStep(p, i)))
    /\ WF_vars(ByFifo(F!SchedulerStep))

Spec == Init /\ [][Next]_vars /\ Fairness

-----------------------------------------------------------------------------
\* The allreduces in the network belong to one tensor (of one job).
OneTensorInNetwork ==
    /\ cs = "fifo" => F!OneTensorInNetwork
    /\ cs = "ready" => G!OneTensorInNetwork
    /\ cs = "byte" => Y!OneTensorInNetwork

\* The allreduces of several jobs in the network share no worker and no link.
LinksAreExclusive ==
    /\ cs = "drr" => D!LinksAreExclusive
    /\ cs = "sincronia" => S!LinksAreExclusive

\* Every scheduler keeps the rounds of a tensor apart, as Worker::allreduce assumes.
RoundsAreGated ==
    /\ cs = "fifo" => F!RoundsAreGated
    /\ cs = "ready" => G!RoundsAreGated
    /\ cs = "byte" => Y!RoundsAreGated
    /\ cs = "drr" => D!RoundsAreGated
    /\ cs = "sincronia" => S!RoundsAreGated

\* A worker invokes each chunk of a tensor once per iteration.
ChunksInvokedOnce ==
    /\ cs = "byte" => Y!ChunksInvokedOnce
    /\ cs = "drr" => D!ChunksInvokedOnce
    /\ cs = "sincronia" => S!ChunksInvokedOnce

\* No enqueue is dropped.
EnqueuesKept ==
    /\ cs = "fifo" => F!EnqueuesKept
    /\ cs = "drr" => D!EnqueuesKept
    /\ cs = "sincronia" => S!EnqueuesKept

\* No enqueue is dropped: not so for ReadyAndGo and ByteScheduler.
EnqueuesKeptToo ==
    /\ cs = "ready" => G!EnqueuesKept
    /\ cs = "byte" => Y!EnqueuesKept

\* The ready queue that kick_off refers to exists while it runs: not so when a
\* worker of the job has already cleaned it up.
ReadyQueueAlive == cs = "byte" => Y!ReadyQueueAlive

\* With FirstInFirstOutOneByOne every job ends.
EveryJobEnds == <>(cs # "fifo" \/ F!LoopsOver)

\* The allreduces of the first tensor of a job under "fifo".
Fabric == INSTANCE AllReduce WITH
    Worker <- F!Workers(Observed), Rounds <- NIter, Gated <- TRUE,
    started <- [p \in F!Workers(Observed) |-> IF cs = "fifo" THEN started[p][0] ELSE 0],
    done <- [p \in F!Workers(Observed) |-> IF cs = "fifo" THEN done[p][0] ELSE 0]

\* The scheduler implements the gate that AllReduce can put on its rounds: no
\* worker starts one before every worker has ended the one before.
GatedFabricSpec == Fabric!Spec
=============================================================================
