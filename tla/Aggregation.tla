---------------------------- MODULE Aggregation ----------------------------
(***************************************************************************)
(* In-network aggregation of ONE tensor of ONE job: the workers' allreduce  *)
(* (worker.cpp), the ToR and core switches (switch.cpp) and the FIFO links  *)
(* between them.  A round is one call of Worker::allreduce on every worker: *)
(* a whole tensor, or one chunk of it.  All switch and worker state of the  *)
(* code is kept per tensor key, so other tensors only delay this one, and   *)
(* every delay is an interleaving here.  Gradients carry no payload in the  *)
(* code; a packet is its header.                                            *)
(***************************************************************************)
EXTENDS Naturals, Sequences, FiniteSets

CONSTANTS
    Worker,      \* the workers the placement chose for the job
    TorOf,       \* the ToR switch of each worker
    Core,        \* the core switch
    NumSlots,    \* NUM_SLOTS: the pool of aggregation slots
    Rounds,      \* bound: allreduces per worker that are explored
    Pkts,        \* packets of each round (tensor or chunk size / NUM_UPDATES)
    Gated,       \* a collective scheduler starts the rounds (cs is not null)
    FlagInit,    \* what cleaner_worker_set may hold before the first worker
    Teardown     \* the job ends after Rounds, and the workers delete their tensors

Tors == {TorOf[w] : w \in Worker}
Node == Worker \cup Tors
Switch == Tors \cup {Core}

ASSUME WorkerAssumption == IsFiniteSet(Worker) /\ Worker # {}
ASSUME TopologyAssumption ==
    /\ TorOf = [w \in Worker |-> TorOf[w]]
    /\ Worker \cap Tors = {}
    /\ Core \notin Node
ASSUME SizeAssumption ==
    /\ NumSlots \in Nat \ {0}
    /\ Rounds \in Nat
    /\ Pkts \in [1..Rounds -> Nat \ {0}]
ASSUME ModeAssumption ==
    /\ Gated \in BOOLEAN /\ Teardown \in BOOLEAN
    /\ FlagInit \subseteq BOOLEAN
    \* without a collective scheduler every allreduce is of the whole tensor
    /\ ~Gated => \A r, q \in 1..Rounds : Pkts[r] = Pkts[q]

VARIABLES
    phase,        \* each worker is "active" from its call of allreduce to its end
    allreduce_lock, \* available_ of each worker's lock for the tensor
    iter,         \* allreduces each worker has finished
    num_pkts_expected, \* Tensor::num_pkts_expected of each worker's tensor
    received_pkts,\* Worker::received_pkts: offsets received in this round
    up,           \* queues worker -> ToR and ToR -> core, by sender
    down,         \* queues ToR -> worker and core -> ToR, by receiver
    seen,         \* Switch::seen_for_tensor_key
    count,        \* Switch::count_for_tensor_key
    clean_ToR,    \* the workers with clean_ToR_for_job set
    clean_upper,  \* the ToRs with clean_upper_level_switch_for_job set
    deleted       \* the workers whose execute_job has deleted its tensor

vars == <<phase, allreduce_lock, iter, num_pkts_expected, received_pkts, up, down,
          seen, count, clean_ToR, clean_upper, deleted>>

-----------------------------------------------------------------------------
(* What set_switch_num_updates stores in the switches for the job. *)

\* The two levels are used when the placement spans more than one ToR.
TwoLevel == Cardinality(Tors) > 1

Members(t) == {w \in Worker : TorOf[w] = t}

\* Switch::downward_ids_for_job
Children(s) == IF s = Core THEN Tors ELSE Members(s)

\* FAULT: the entry is set, not incremented, for each child.
NumUpdates_One(s) == 1

\* Switch::num_updates_for_job
NumUpdates(s) == Cardinality(Children(s))

\* Switch::top_level_for_job
TopLevel(s) == s = Core \/ ~TwoLevel

\* The switch at the far end of a node's uplink.
Parent(c) == IF c \in Worker THEN TorOf[c] ELSE Core

\* job->num_workers_allocated, carried by every packet as n_workers
NWorkers == Cardinality(Worker)

-----------------------------------------------------------------------------
(* Packets and switch cells. *)

Slot == 0 .. NumSlots - 1
Version == 0 .. 1
Cell == Slot \X Version

Packet == [off : Nat, slot : Slot, ver : Version, size : Nat, tensor : Worker]

CellOf(p) == <<p.slot, p.ver>>
OtherCellOf(p) == <<p.slot, 1 - p.ver>>

\* Worker::sendPacket on behalf of worker w.
NewPacket(w, off, slot, ver, size) ==
    [off |-> off, slot |-> slot, ver |-> ver, size |-> size, tensor |-> w]

\* A link is a FIFO queue that loses nothing: see SimpleQueue for its bound.
Push(queues, dests, p) ==
    [c \in Node |-> IF c \in dests THEN Append(queues[c], p) ELSE queues[c]]

Pop(queues, c) == [queues EXCEPT ![c] = Tail(@)]

NoSeen == [c \in Cell |-> {}]
NoCount == [c \in Cell |-> 0]

\* FAULT: the wrap at n_workers is missing.
NextCount_NoWrap(s, old) == (old + 1) % NumUpdates(s)

\* The step of the aggregation counter: n_workers is the value of a cell whose
\* result was sent down, and counts as zero.
NextCount(s, old) == ((old + 1) % NWorkers) % NumUpdates(s)

-----------------------------------------------------------------------------
\* The sets of cleaners set_switch_num_updates can leave at ToR t: the first
\* worker of run_config, in any order, or none if the flag already was true.
ToRCleaners(t) ==
    UNION {IF flag THEN {{}} ELSE {{w} : w \in Members(t)} : flag \in FlagInit}

Init ==
    /\ phase = [w \in Worker |-> "idle"]
    /\ allreduce_lock = [w \in Worker |-> 1]
    /\ iter = [w \in Worker |-> 0]
    /\ num_pkts_expected = [w \in Worker |-> 0]
    /\ received_pkts = [w \in Worker |-> {}]
    /\ up = [c \in Node |-> <<>>]
    /\ down = [c \in Node |-> <<>>]
    /\ seen = [s \in Switch |-> NoSeen]
    /\ count = [s \in Switch |-> NoCount]
    /\ clean_ToR \in {C \in SUBSET Worker :
                        \A t \in Tors : C \cap Members(t) \in ToRCleaners(t)}
    /\ clean_upper \in IF TwoLevel THEN {{t} : t \in Tors} ELSE {{}}
    /\ deleted = {}

-----------------------------------------------------------------------------
(* The worker. *)

\* FAULT: the scheduler does not await the previous round.
MayStart_Always(w) == TRUE

\* A collective scheduler starts a round on every worker and awaits all of
\* them (all_of) before the next; without one, each worker is on its own.
MayStart(w) == Gated => \A v \in Worker : iter[v] >= iter[w]

\* FAULT: the window is one packet too long.
FirstWindow_OneMore(w, size) ==
    [i \in 1 .. (IF size < NumSlots THEN size ELSE NumSlots + 1) |->
        NewPacket(w, i - 1, i - 1, 0, size)]

\* The window of packets that opens a round: one per slot, all version 0.
FirstWindow(w, size) ==
    [i \in 1 .. (IF size < NumSlots THEN size ELSE NumSlots) |->
        NewPacket(w, i - 1, i - 1, 0, size)]

\* Worker::allreduce from its first request of allreduce_lock to its second.
StartAllreduce(w) ==
    /\ phase[w] = "idle"
    /\ allreduce_lock[w] > 0
    /\ iter[w] < Rounds
    /\ MayStart(w)
    /\ LET size == Pkts[iter[w] + 1]
       IN  /\ num_pkts_expected' = [num_pkts_expected EXCEPT ![w] = size]
           /\ up' = [up EXCEPT ![w] = @ \o FirstWindow(w, size)]
    /\ phase' = [phase EXCEPT ![w] = "active"]
    /\ allreduce_lock' = [allreduce_lock EXCEPT ![w] = @ - 1]
    /\ UNCHANGED <<iter, received_pkts, down, seen, count, clean_ToR, clean_upper,
                   deleted>>

\* FAULT: the last, partial packet is not counted.
ExpectedRead_Floor(p, got) == {num_pkts_expected[p.tensor] - 1}

\* Reading num_pkts_expected through p->tensor: any value once it is deleted.
ExpectedRead(p, got) ==
    IF p.tensor \in deleted THEN {num_pkts_expected[p.tensor], got}
    ELSE {num_pkts_expected[p.tensor]}

\* FAULT: the next offset is not a whole window away.
NextPacket_NoStride(p) ==
    NewPacket(p.tensor, p.off + 1, p.slot, 1 - p.ver, p.size)

\* FAULT: the version is not flipped.
NextPacket_SameVersion(p) ==
    NewPacket(p.tensor, p.off + NumSlots, p.slot, p.ver, p.size)

\* FAULT: the next packet moves to the next slot.
NextPacket_NextSlot(p) ==
    NewPacket(p.tensor, p.off + NumSlots, p.slot + 1, 1 - p.ver, p.size)

\* The packet that reuses the slot of p, with the other version.
NextPacket(p) ==
    NewPacket(p.tensor, p.off + NumSlots, p.slot, 1 - p.ver, p.size)

\* Worker::receivePacket: a duplicate is discarded.  A packet whose tensor is
\* deleted may be booked under another key, which for this tensor is a loss.
DiscardResult(w) ==
    /\ down[w] # <<>>
    /\ LET p == Head(down[w])
       IN  p.off \in received_pkts[w] \/ p.tensor \in deleted
    /\ down' = Pop(down, w)
    /\ UNCHANGED <<phase, allreduce_lock, iter, num_pkts_expected, received_pkts, up,
                   seen, count, clean_ToR, clean_upper, deleted>>

\* Worker::receivePacket: the last packet of the round releases allreduce_lock;
\* any other one sends the next packet of its slot, if there is one.
ReceiveResult(w) ==
    /\ down[w] # <<>>
    /\ LET p == Head(down[w])
           set == received_pkts[w] \cup {p.off}
       IN  /\ p.off \notin received_pkts[w]
           /\ \E expected \in ExpectedRead(p, Cardinality(set)) :
                IF Cardinality(set) = expected
                THEN /\ received_pkts' = [received_pkts EXCEPT ![w] = {}]
                     /\ allreduce_lock' = [allreduce_lock EXCEPT ![w] = @ + 1]
                     /\ UNCHANGED up
                ELSE /\ received_pkts' = [received_pkts EXCEPT ![w] = set]
                     /\ up' = IF p.off + NumSlots < p.size
                              THEN Push(up, {w}, NextPacket(p)) ELSE up
                     /\ UNCHANGED allreduce_lock
    /\ down' = Pop(down, w)
    /\ UNCHANGED <<phase, iter, num_pkts_expected, seen, count, clean_ToR,
                   clean_upper, deleted>>

\* FAULT: nobody cleans the core.
Cleaned_ToROnly(w) == IF w \notin clean_ToR THEN {} ELSE {TorOf[w]}

\* The switches whose state for the tensor worker w erases after its round.
Cleaned(w) ==
    IF w \notin clean_ToR THEN {}
    ELSE {TorOf[w]} \cup (IF TorOf[w] \in clean_upper THEN {Core} ELSE {})

\* Worker::allreduce from the grant of its second request to its end, which
\* releases the lock again.
FinishAllreduce(w) ==
    /\ phase[w] = "active"
    /\ allreduce_lock[w] > 0
    /\ phase' = [phase EXCEPT ![w] = "idle"]
    /\ iter' = [iter EXCEPT ![w] = @ + 1]
    /\ seen' = [s \in Switch |-> IF s \in Cleaned(w) THEN NoSeen ELSE seen[s]]
    /\ count' = [s \in Switch |-> IF s \in Cleaned(w) THEN NoCount ELSE count[s]]
    /\ UNCHANGED <<allreduce_lock, num_pkts_expected, received_pkts, up, down,
                   clean_ToR, clean_upper, deleted>>

\* The end of Worker::execute_job, after its wait for the final allreduces.
DeleteTensor(w) ==
    /\ Teardown
    /\ w \notin deleted
    /\ phase[w] = "idle" /\ iter[w] = Rounds
    /\ deleted' = deleted \cup {w}
    /\ UNCHANGED <<phase, allreduce_lock, iter, num_pkts_expected, received_pkts, up,
                   down, seen, count, clean_ToR, clean_upper>>

-----------------------------------------------------------------------------
(* The switch. *)

\* seen[key].insert(p->id); seen[key_of_the_other_slot].erase(p->id)
Mark(cells, p, c) ==
    [cells EXCEPT ![CellOf(p)] = @ \cup {c}, ![OtherCellOf(p)] = @ \ {c}]

SetCount(s, cell, n) == [count EXCEPT ![s] = [count[s] EXCEPT ![cell] = n]]

\* Switch::receivePacket, a packet going up from node c.  In a build without
\* assertions the branch the code calls the shadow buffer drops the packet.
SwitchReceiveUp(c) ==
    /\ up[c] # <<>>
    /\ LET p == Head(up[c])
           s == Parent(c)
           cell == CellOf(p)
           n == NextCount(s, count[s][cell])
       IN  IF c \in seen[s][cell]
           THEN up' = Pop(up, c) /\ UNCHANGED <<down, seen, count>>
           ELSE /\ seen' = [seen EXCEPT ![s] = Mark(seen[s], p, c)]
                /\ count' = SetCount(s, cell, IF n = 0 /\ TopLevel(s) THEN NWorkers ELSE n)
                /\ down' = IF n = 0 /\ TopLevel(s)
                           THEN Push(down, Children(s), p) ELSE down
                /\ up' = IF n = 0 /\ ~TopLevel(s)
                         THEN Push(Pop(up, c), {s}, p) ELSE Pop(up, c)
    /\ UNCHANGED <<phase, allreduce_lock, iter, num_pkts_expected, received_pkts, clean_ToR,
                   clean_upper, deleted>>

\* Switch::receivePacket, a result coming down from the core to ToR t.  The
\* count may miss the tensor's entry when its key is read from freed memory.
SwitchReceiveDown(t) ==
    /\ down[t] # <<>>
    /\ LET p == Head(down[t])
       IN  /\ down' = Push(Pop(down, t), Children(t), p)
           /\ \/ count' = SetCount(t, CellOf(p), NWorkers)
              \/ p.tensor \in deleted /\ UNCHANGED count
    /\ UNCHANGED <<phase, allreduce_lock, iter, num_pkts_expected, received_pkts, up, seen,
                   clean_ToR, clean_upper, deleted>>

-----------------------------------------------------------------------------
\* The explored rounds are over, no event is left.
Quiescent ==
    /\ \A w \in Worker : phase[w] = "idle" /\ iter[w] = Rounds
    /\ \A c \in Node : up[c] = <<>> /\ down[c] = <<>>
    /\ UNCHANGED vars

WorkerStep(w) ==
    \/ StartAllreduce(w)
    \/ DiscardResult(w)
    \/ ReceiveResult(w)
    \/ FinishAllreduce(w)
    \/ DeleteTensor(w)

Next ==
    \/ \E w \in Worker : WorkerStep(w)
    \/ \E c \in Node : SwitchReceiveUp(c)
    \/ \E t \in Tors : SwitchReceiveDown(t)
    \/ Quiescent

Spec == Init /\ [][Next]_vars

\* Both event lists run until they are empty: no scheduled event waits forever.
Fairness ==
    /\ \A w \in Worker : WF_vars(WorkerStep(w))
    /\ \A c \in Node : WF_vars(SwitchReceiveUp(c))
    /\ \A t \in Tors : WF_vars(SwitchReceiveDown(t))

FairSpec == Spec /\ Fairness
-----------------------------------------------------------------------------
(* Properties. *)

\* Every variable keeps its type, for the state of worker.h and switch.h.
TypeOK ==
    /\ phase \in [Worker -> {"idle", "active"}]
    /\ allreduce_lock \in [Worker -> Nat]
    /\ iter \in [Worker -> Nat]
    /\ num_pkts_expected \in [Worker -> Nat]
    /\ received_pkts \in [Worker -> SUBSET Nat]
    /\ up \in [Node -> Seq(Packet)]
    /\ down \in [Node -> Seq(Packet)]
    /\ seen \in [Switch -> [Cell -> SUBSET Node]]
    /\ count \in [Switch -> [Cell -> Nat]]
    /\ clean_ToR \subseteq Worker
    /\ clean_upper \subseteq Tors
    /\ deleted \subseteq Worker

PacketsIn(queue) == {queue[i] : i \in DOMAIN queue}
UpPackets == UNION {PacketsIn(up[c]) : c \in Node}
DownPackets == UNION {PacketsIn(down[c]) : c \in Node}

\* The allreduce of w holds its lock: its packets are in the network.
InNetwork(w) == phase[w] = "active" /\ allreduce_lock[w] = 0

\* Worker v has sent its packet for offset off of round r (rounds from 0).
Contributed(v, r, off) ==
    \/ iter[v] > r
    \/ /\ iter[v] = r
       /\ phase[v] = "active"
       /\ \/ allreduce_lock[v] > 0
          \/ off < NumSlots
          \/ off - NumSlots \in received_pkts[v]

\* The assertion in Switch::receivePacket: a switch is never handed a second
\* packet of one sender for a cell before the other version cleared the first.
NoShadowBuffer ==
    \A c \in Node : up[c] # <<>> =>
        c \notin seen[Parent(c)][CellOf(Head(up[c]))]

\* A switch sends a result down only when every worker has contributed to it:
\* the modular counter reaches zero neither early nor on a mix of two rounds.
ResultIsComplete ==
    \A v, w \in Worker : InNetwork(w) =>
        \A p \in PacketsIn(down[w]) : Contributed(v, iter[w], p.off)

\* The duplicate branch of Worker::receivePacket is dead without loss recovery:
\* each result reaches each worker exactly once in a round.
ResultsArriveOnce ==
    \A w \in Worker : \A i, j \in DOMAIN down[w] :
        /\ down[w][i].off \notin received_pkts[w]
        /\ i # j => down[w][i].off # down[w][j].off

\* The packets of a cell on their way to one switch are all for one offset,
\* which is why Switch::receivePacket may add them up without looking at it.
CellsAreAligned ==
    \A c, d \in Node : Parent(c) = Parent(d) =>
        \A p \in PacketsIn(up[c]), q \in PacketsIn(up[d]) :
            CellOf(p) = CellOf(q) => p.off = q.off

\* No queue of the fabric ever holds more of a tensor than NUM_SLOTS packets,
\* the window the slots give it: what the buffers must hold for no loss.
WindowBoundsQueues ==
    \A c \in Node : Len(up[c]) <= NumSlots /\ Len(down[c]) <= NumSlots

\* A result reaches a worker only inside its allreduce, so receivePacket
\* releases allreduce_lock on behalf of the allreduce that holds it.
ResultsArriveInside ==
    \A w \in Worker : down[w] # <<>> => InNetwork(w)

\* Once a round is over on every worker no switch keeps a trace of it: the
\* cleaners between them reach every switch of the job.
SwitchesCleanBetweenRounds ==
    (\A v, w \in Worker : phase[v] = "idle" /\ iter[v] = iter[w]) =>
        \A s \in Switch : seen[s] = NoSeen /\ count[s] = NoCount

\* A packet that still goes up belongs to a tensor that still exists, even
\* while its job is being torn down worker by worker.
UpwardTensorsExist == \A p \in UpPackets : p.tensor \notin deleted

\* "Wait until final allreduces are done" before the tensors are deleted: no
\* packet that is still in the network refers to a deleted tensor.
TensorsExist == \A p \in UpPackets \cup DownPackets : p.tensor \notin deleted

\* Abstraction: what the job sees of the fabric is a barrier per round.
Barrier == INSTANCE AllReduce WITH
    started <- [w \in Worker |-> iter[w] + (IF phase[w] = "active" THEN 1 ELSE 0)],
    done <- iter

BarrierSpec == Barrier!Spec
BarrierFairSpec == Barrier!FairSpec
=============================================================================
