# Verification of CloudSimCpp

CloudSimCpp simulates a GPU cluster that trains machine-learning jobs: a control
plane places jobs on workers, every worker runs a training loop, and the gradients
are summed *in the network*, by switches that aggregate packets in a small pool of
slots (the SwitchML scheme).  The program runs in one thread, on two event lists
(htsim for packets, simcpp20 for coroutines), but its logic is concurrent: every
`co_await` is a point where other coroutines and packets get their turn.  The
repository also holds the packet simulator it grew out of, `src/htsim2`: queues,
lossless switches, data centre topologies, NDP and TCP.

This directory holds TLA+ modules for that logic, TLC configurations that check
them on small instances, and TLAPS proofs of theorems about them.

    tlasany Aggregation.tla
    tlc -workers 4 -config MCAggregationTwoToRs.cfg MCAggregation
    tlapm SchedulerProofs.tla

## 1. The system

### The simulation (`src/src/`)

| component | state | operations | interacts with |
|---|---|---|---|
| resource lock, `resource.hpp` | free units, queue of events | `request`, `release`, `trigger_evs` | every coroutine of workers and collective schedulers |
| worker, packets (`worker.cpp` 154-297) | `received_pkts`, `allreduce_locks`, per-tensor `num_pkts_expected`, `allreduced_size`, `clean_ToR_for_job` | `allreduce`, `sendPacket`, `receivePacket` | its ToR switch, by packets; the switches' maps, which a cleaning worker erases directly |
| worker, training loop (`worker.cpp` 28-150) | `gpu`, `fp_locks`, tensors | `execute_job` | collective scheduler (`enqueue`, `cleanup_for_job`) or its own `allreduce`; cluster |
| switch, `switch.cpp` | `count_for_tensor_key`, `seen_for_tensor_key`, what the topology stored per job | `receivePacket`, `multicast_downward` | workers and the upper switch, by packets |
| links, `simplequeue.cpp` | FIFO of packets, bounded | `receivePacket`, service | drops what does not fit; nothing retransmits |
| topologies, `topology/` | routes; per-job switch configuration | `set_switch_num_updates`, `accommodate`, `bssi` | switches, cleaners, DeficitRoundRobin, Sincronia |
| collective schedulers, `collective_scheduling/` | queues of tensors, locks or a loop | `enqueue`, `collective_scheduler`, `cleanup_for_job` | call `Worker::allreduce`, await the events it returns |
| cluster scheduler, broker and cluster: `job_scheduler.cpp`, `job_submitter.cpp`, `cluster.cpp` | job list, three flags, start and finish times | polling, submission, flags | scheduling and placement algorithms; start `execute_job` |
| job scheduling and placement, `job_scheduling/`, `job_placement/` | none that lasts | `choose_job_to_execute_in`, `place_job_in` | read the cluster |

### The packet simulator (`src/htsim2/`)

| component | state | operations | interacts with |
|---|---|---|---|
| routes and topologies, `route.cpp`, `network.cpp`, `datacenter/*_topology.cpp` | queues and pipes by link; the routes of a pair | `init_network`, `get_paths`, `sendOn`, `bounce` | every packet |
| output queues, `queue.cpp`, `compositequeue.cpp`, ... | one or two lists of packets, sizes, pause state | `receivePacket`, `completeService` | drop, trim, return, mark; obey PAUSE |
| lossless switches, `queue_lossless*.cpp`, `switch_htsim.cpp` | sizes, thresholds, `_state_send`, `_state_recv` | as above, `sendPause` | PAUSE and GO to the other ends of the links |
| NDP, `ndp.cpp`, `fairpullqueue.cpp` | windows, retransmission queue; per host a pull queue and a pacer | sends, acks, nacks, pulls, returned headers | the queues, which trim and return |
| TCP and DCTCP, `tcp.cpp`, `dctcp.cpp`, `tcp_transfer.cpp`, `tcp_periodic.cpp` | window, recovery, timer | sends, acks, timeouts, restarts | the queues, which drop and mark |
| multipath TCP, RCP, CBR, workloads, loggers, event list | | | not modelled, see 5 |

`CMakeLists.txt` builds the files of the submodule `NDP`, whose directory is empty in
the repository; `src/htsim2` is the copy of that simulator in the tree.  The program
uses its event list, packets and routes through the classes of `src/src`; its queues,
topologies and transports are a library beside the program.  (In this copy,
`topology.h` has pure virtual functions for the program's own topologies that the ones
of `datacenter/` do not define.)  They are modelled as the library they are, each
against its own interface.

Not part of the logic: `switchml_main.cpp` (environment, job file, output),
`counter.hpp` (unused), `simplepipe.cpp` (never instantiated), the vendored CSV
reader and progress bar.  The submodule `simcpp20` is empty too: its behaviour is taken
from how the code uses it.

What is hard about it, and what correctness means:

* **Aggregation without looking.**  A switch adds a packet to a cell (slot, version)
  by counting; offsets and rounds are never compared.  Correct means: each result
  has exactly one contribution of every worker, for one offset of one round.
* **State erased from outside.**  One worker per switch erases its maps when that
  worker's round is over, whatever the others are doing.
* **Locks across coroutines.**  `receivePacket` releases a lock `allreduce` holds;
  a forward pass waits on a lock that the allreduce of the last iteration releases.
* **State kept across `co_await`.**  The schedulers read queues, heaps, deques and
  references again after suspensions in which other workers enqueue or clean up.
* **Staggered ends.**  The workers of a job end one by one; rank 0 alone marks the
  job finished, each worker gives back its own GPUs and deletes its own tensors.
* **No loss recovery in the simulation.**  One lost packet or enqueue stops a job forever.
* **Recovery in the transports.**  A packet of NDP moves between flight, nack and
  retransmission queue, with no timer to repeat what is forgotten; a timer of TCP is
  armed, cleared and overtaken by acks in fast recovery.
* **Back pressure.**  A PAUSE takes time to arrive, and what is on its way meanwhile
  must fit; every PAUSE needs its GO.

`PROJECT.json` lists the hazards at their lines with the properties that cover them.

## 2. Modules

    Resource  <---- ResourceProofs          AllReduce  (abstract barrier)
       ^ INSTANCE (Lock)                        ^ implemented by Aggregation
       |                                        ^ (gated) implemented by each of the
       |                                        |         five collective schedulers
    FifoScheduler, ReadyAndGo               Aggregation <---- AggregationProofs
    ByteScheduler
    SharedNetwork <- DeficitRoundRobin,     ClusterScheduler <- ClusterProofs
       |             Sincronia
       | EXTENDS                            Schedulers  (chooses one of the five) <---- CompositionProofs
    CollectiveScheduler --EXTENDS--> Training <--EXTENDS-- Ungoverned
                                        ^                      ^
                      SchedulerProofs --------INSTANCE (U)-----+

    Route <- FatTree, OversubscribedFatTree, MultihomedFatTree, BCube, CamCube, VL2, Star
      ^                    ^ INSTANCE
    Datacenter ------------+        PortQueue        Lossless <- LosslessSwitch
                                        ^                            ^
    MCNetwork  (Datacenter, PortQueue,  +------ NetworkProofs -------+
                both switches)
    Ndp <- NdpProofs                Tcp <- TcpProofs
    MCJobs  (Resource, Ungoverned, ClusterScheduler)

    SchedulerProofs EXTENDS FifoScheduler and has the other four as instances
                    (D, Ready, Byte, Sinc); CompositionProofs EXTENDS Schedulers
                    and has SchedulerProofs twice, with the chunks of the
                    jobs (P) and with whole tensors (W)

`MC*.tla` give constants values for TLC.  An operator whose name has an underscore
and whose comment begins with `FAULT` is a plausible bug of the definition below it.
It is used by no specification; it serves to show that a property notices the bug
when it takes the place of the definition.

**Resource** is `resource.hpp`.  A client is a coroutine; its event is pending,
triggered (the unit is its own, the coroutine has not run yet) or processed.
`TriggerEvs` is the loop of `trigger_evs` in one formula: how many events it pops,
how many units these take, who is triggered.  `Request`, `Release` call it as the
code does; `Resume` is simcpp20's processing of a triggered event.  `Abort` is the
operation of simcpp20's events that `trigger_evs` provides for with its test.  No
coroutine of this repository aborts a request: the lock is checked as the general
component it is, and its users only as they use it.

**Aggregation** is the data plane for one tensor of one job: `Worker::allreduce` in
two actions (its two waits on `allreduce_lock`), `Worker::receivePacket`
(`DiscardResult`, `ReceiveResult`), the deletion of the tensor, and
`Switch::receivePacket` (`SwitchReceiveUp`, `SwitchReceiveDown`).  The queues `up`
and `down` are the FIFO links of the topology.  Switch state is kept per tensor key
in the code, so other tensors act on this one only by delaying it.  What
`set_switch_num_updates` stores (`NumUpdates`, `Children`, `TopLevel`, the choice of
the cleaners) is computed from the placement; the order of its `unordered_map` is a
nondeterministic choice.  Reads through a deleted tensor return an arbitrary choice
among the outcomes that differ for this tensor.  Sizes are whole packets: the rounding of bytes
to packets in `allreduce` is done before the model begins.  With `Gated`, rounds start the way a
collective scheduler starts them; without, each worker is on its own (`CS` unset).

**AllReduce** is what the training loop may rely on: a round ends on a worker only
after every worker of the job has started it.  `Aggregation` implements it
(`BarrierSpec`, with fairness `BarrierFairSpec`); `Training` assumes it.

**Training** is `execute_job`: forward passes behind `fp_lock`, backward passes in
reverse, the calls of allreduce, the final loop over both locks, the end.
`called`, `started` and `done` count the allreduces of each worker and tensor:
called, holding the lock, returned.  `Chunks` is the number of rounds an allreduce
of the tensor is split into.  Compute times are inputs (and zero under
`NO_COMPUTATION_TIME`), so they are arbitrary.  **Ungoverned** completes it with the
loop's own calls of `allreduce`, **CollectiveScheduler** with what the collective
schedulers share; each of these then has a module:

* **FifoScheduler** (`first_in_first_out_one_by_one.cpp`): one lock for everything, an
  instance of `Resource` whose clients are the enqueue coroutines that wait on it.
* **ReadyAndGo** (`ready_and_go.cpp`): the same with a lock per job, and a queue that is
  erased after the allreduces rather than before.  (`enqueue` reads the key of its tensor
  after the wait too, when another worker may have ended the job and deleted that tensor;
  the model goes on with the key.)
* **ByteScheduler** (`bytescheduler.cpp`): the loop `kick_off` with its heap.  The heap's
  comparator reads `tensor->iter`, which changes while the tensor is in the heap: the
  model keeps the set of entries and the top.  That is exact for the two tensors of
  the instance and allows more than the code with three or more.
* **DeficitRoundRobin** (`deficit_round_robin.cpp`): the loop over the deque of jobs, with
  the quantums of work conservation; **SharedNetwork** has what it and Sincronia ask of
  `HierarchicalTopology::accommodate`.
* **Sincronia** (`sincronia.cpp`): the loop over an order of all ready tensors, kept from
  turn to turn, with the tensors that are finished but not yet at the front (`can_erase`).
  The order comes from `bssi`, which divides floating-point weights: any order here.

A coroutine body runs up to its first suspension in the step that calls it: so
`enqueue` belongs to the backward pass, and the start of `execute_job` with
`gpu -= gpus_required` to the step of `cluster_scheduler`.  The loops of `ByteScheduler`,
`DeficitRoundRobin` and `Sincronia` start in a step of their own, at any time after the
enqueue that starts them, which covers both an eager and a deferred start of a coroutine.

**ClusterScheduler** is the control plane: `broker` (`Submit`), `cluster_scheduler`
(`Start`, `GiveUp`, `Stop`), the end of `execute_job` on each worker (`EndJob`), the
flags of `Cluster`, the scheduling algorithms (first come first served, the same
blocking for `onebyone`, fit first) and the placements (YARN with and without random
fallback, random in its three variants) as sets of the maps they may return.

**Route** is what the topologies share: a link is a pair of nodes, a route the sinks that
`get_paths` pushes back.  The seven topologies each have the links that `init_network`
creates, written by the index arithmetic of the code, and the paths of a pair.
**Datacenter** sends a packet along one of them: `SendOn` is `Packet::sendOn` with the hop
counter, `Bounce` is `Packet::bounce`.

**PortQueue** is the output queues of `alloc_queue` and `alloc_src_queue`, chosen by
`PortInit`, and the three that only other code builds: arrival, service and its end, trimming,
booting, returns, marks, PAUSE and GO.  A GO may come at any time, also in the middle of a service,
of which it begins a second one.  What would fail an assertion, such as a header above the
threshold of `CutPayloadQueue` or a service with nothing to serve, ends the program (`exited`).
**Lossless** is `LosslessInputQueue` with the `LosslessOutputQueue`s before and after it
and the links between them; **LosslessSwitch** is the older `LosslessQueue` with
`Switch_htsim::sendPause`.

**Ndp** has the sources of several flows, one receiving host with its sinks, pull queue and
pacer, and a network that delivers in any order, trims and returns.  `OneCopy` is about
every packet at once.  `RESEND_ON_TIMEOUT` is not defined in the code, so no timer is.
**Tcp** is one connection of a plain, DCTCP, transfer or periodic source over a network that
drops and reorders; sequence numbers count bytes.  A timer that runs may expire at any
time (the estimate of the round trip is left out), but only `MaxSpurious` times while
something is on its way.  The marks of DCTCP cut the window by any amount up to half of it.
`TcpSrcTransfer` adds a packet to its flow size and so does `set_flowsize`: a transfer ends two
packets before `FlowSize` (`BytesToSend`).

## 3. What the runs check

| run | instance | shows |
|---|---|---|
| `jobs`, the lock | 4 clients, 2 units | no unit is lost, doubled or idle while someone waits; grants in order of request; no request starves |
| `jobs`, the loop | jobs of 2 and 1 workers, 2 tensors, 3 iterations | no forward pass before its allreduce, cleanup after the last, every job ends if its rounds do |
| `jobs`, the cluster | 3 jobs on 3 workers of 2 GPUs in 2 racks, 3 x 2 algorithms | GPUs conserved, none taken that is not free; every job is run unless the program gives up |
| `fabric_gated` | 3 workers on 2 ToRs, 2 slots, rounds of 5 packets and 1 | every result is complete, the window bounds every queue, switches are clean between rounds, and the fabric is the fair barrier |
| `fabric_ungated` | the same, 2 rounds of 3, no gate, with teardown | the barrier still holds, even where the switch drops packets or reads deleted tensors; no packet on its way up has a deleted tensor |
| `fabric_shadow` | the same, no gate | **violated**: the switch's `assert(false)` is reached |
| `schedulers` | FIFO, DRR, Sincronia: jobs of 2, 2 and 1 workers, 2 iterations to the end; ReadyAndGo, ByteScheduler: a job of 3 workers, 3 iterations; DRR, Sincronia: jobs of 2, 2, 2 and 1 workers on 3 racks | one tensor in the network, jobs that run together share no worker and no link, rounds gated, each chunk invoked once, no enqueue dropped, the rounds under FIFO are the gated `AllReduce`, every job under FIFO ends |
| `ndp` | 2 flows of 2 packets, window 2, 1 trim, 1 return | each packet is in one place, the pulls conserve the window, the pull queue is fair, every flow ends or is left waiting for a pull (`Stranded`) |
| `ndp_window` | the same | **violated**: a source is left with a packet to repeat and no pull to come |
| `tcp` | 4 packets, 2 drops, 1 early timeout, reordering by 2, TCP and DCTCP | acks are backed by data, outstanding data has a timer, recovery can end, the flow completes |
| `tcp_periodic` | a periodic source | **violated**: the branch "Wrong place to be in" ends the program |
| `network` | 8 topologies x 2 sources, 8 kinds of queue, both lossless switches | a packet stands where there is a link, on its way and back, and arrives; the paths of a pair differ; a queue has each packet once and its sizes right; headers do not starve data; lossless input queues never overflow; every pause ends |
| `network_three_ports` | the older lossless switch with 3 ports, 2 busy outputs | **violated**: an output queue overflows |
| `network_paused` | queues of a host and of ECN switches | **violated**: a paused queue sends |

In the run `schedulers`, a behavior begins with the choice of `main`: of a scheduler, and here
of the jobs too.  `MCSchedulers` has `Schedulers` three times over the same variables: with the
jobs of the cfg, with one job (`One`) and with jobs that can share the network (`Shared`).
What the invariants of `Schedulers` say of the first, `OthersAreOrdered` says of the other two.

Assume and guarantee: `fabric_gated` assumes `Gated`; the properties `RoundsAreGated`
and `GatedFabricSpec` of `schedulers` are that assumption, and `SchedulerProofs` proves
it of each of the five schedulers for all instances.  The schedulers and the loop of `jobs` assume
the barrier; `fabric_gated` and `fabric_ungated` check it.  That a round ends once all have
started it is assumed where the rounds are gated, which is where `fabric_gated` shows it;
without a scheduler it may not (disagreement 1).

Bounds, and why they are enough for these questions:

* Two slots with a round of five packets use the first slot three times, so both
  versions wrap and a slot ends before the other; two rounds are needed for state to
  survive from one to the next.  Two ToRs with two and one workers give a modular
  count that wraps at `n_workers` at one switch and at `num_updates` at another.
* Three iterations (`One`): the queues of an iteration can meet the entries of the next, and
  a third shows what is left of it.  Two iterations to the end of the jobs (the jobs of the
  cfg) show the meeting with all cleanups.  Two tensors give the schedulers an order to get
  wrong; one of several chunks makes the last-chunk arithmetic matter.
* Three jobs on three racks (`Shared`): one inside a rack, two that cross, one sharing a worker,
  so that every outcome of `accommodate` occurs, and indexes shift on both sides.  These
  jobs do one iteration and stop before their end; the two of the cfg run to it.  One job
  has a single worker, which calls no scheduler and cleans up in it all the same.
* In the control plane the three jobs (3, 5 and 2 of 6 GPUs) do not fit together, and
  the first leaves GPUs that fit none, one or the other of the rest.
* NDP: with two flows the pull queue has to choose; one trim and one return let a nack and a
  returned header of the same flow meet each other and the pulls in every order.
* TCP: a flow of four packets with all of it in the first window gives three duplicate acks,
  so that fast recovery, a partial ack and a timeout in the middle of recovery happen; two
  drops lose a packet and its repetition.
* Topologies: the smallest size of each at which every branch of `get_paths` is taken (same
  switch, same pod, across; BCube with two levels and three ports; a CamCube of 4 has
  routes in both directions of a ring).  A packet is returned twice.
* Queues: five packets of two sizes into a buffer of two full packets, so that every queue
  is full, boots and trims; a composite queue turns after two
  headers instead of ten.

Fairness.  Both event lists run until they are empty, so a scheduled event is
processed: weak fairness per worker and per link in `Aggregation`, per `execute_job`,
per allreduce and per scheduler in `Schedulers`.  `Ungoverned` is fair to `execute_job` only: its
rounds may end or not, as nothing gates them, and `JobEndsIfRoundsDo` says that every job ends
whose started rounds do.  Submit times come, timeouts expire and
training ends, which is the fairness of `ClusterScheduler`.  In `Resource` a holder
releases in the end; the modules that use the lock state this for their own holders.
In `Ndp`, `Tcp`, `PortQueue`, `Datacenter` and `Lossless` a packet on its way is delivered, a
service and a timer end, and a next hop that paused a queue resumes it in the end: each an
event that is already in the list, except the last, which is what `PausesEnd` promises of
the switch at the other end (checked with two ports: in the older switch with three, an output
kept busy by senders that another releases may hold a third for ever).
`ReadyAndGo` and `ByteScheduler` state no liveness: they can lose an enqueue (below).
`DeficitRoundRobin` and `Sincronia` state none either: between the last test of their loop
and `loop_is_running = false` an event passes, and an enqueue in it starts no loop.  Whether
that can happen depends on the order of events of one instant in simcpp20.

No run checks deadlock as such.  Where a run has a liveness property, an early stop violates
that property; elsewhere the modelled code really can stop, for the reasons given in the
cfg files.

### Disagreements found

With a run, listed under `findings`:

1. `fabric_shadow`.  Without a collective scheduler a worker may start its next
   allreduce of a tensor before the cleaning worker has erased the switch's record of
   the last one.  Its packet meets its own bit: `switch.cpp:45 assert(false)`; without
   assertions the packet is dropped and the allreduce hangs.
2. `ndp_window`.  A comment says that with return-to-sender no timeout is needed.
   `pull_packets` counts a pull that overtakes its nack as answered, although there was
   nothing to send; the packet the nack brings is then asked for by no pull.
3. `tcp_periodic`.  `TcpSrcPeriodic::reset` forgets a pending timeout whose event is still in
   the list.  It arrives in the idle time and starts the next active time early; the start
   that was scheduled finds the source active with no timeout pending, in the branch that
   prints "Wrong place to be in" and exits.

4. `network_three_ports`.  A comment derives the space of `LosslessQueue` above its threshold from "2
   packets per incoming port", and an overflow prints "LOSSLESS not working!".  With three
   ports and two busy outputs the GO of one output queue resumes a sender that another queue
   still needs paused, and that one overflows: it does not pause a sender twice.
5. `network_paused`.  A comment says that a paused queue does nothing until the other end unblocks
   it.  A GO that arrives while a packet is still in service starts a second service
   (`queue.cpp:188`, `ecnqueue.cpp:41`); a PAUSE after it ends one of the two, and the
   other sends.  If it finds nothing to send, an assertion fails.

Without a run, because no text of the repository claims otherwise.  Each was found with
TLC; where a cfg is named it shows it, else the property and the module are given.

6. `MCSchedulersLost.cfg`: `ReadyAndGo` erases a tensor's queue when its allreduces are
   over on all workers, `ByteScheduler` clears it at a later turn of its loop; a fast worker
   may have enqueued the next iteration by then.  The entry is lost and the job waits
   forever.
7. `MCSchedulersLost.cfg`: `cleanup_for_job` is called when each *worker* finishes;
   `ByteScheduler` erases the entry of `ready_queue` to which `kick_off`, still awaiting the
   slower workers, holds a reference.
8. `MCClusterExit.cfg`: a job stops counting as running when rank 0 ends, while its other
   workers hold their GPUs: the program may exit with "cannot be placed" for a job that
   fits.
9. `SwitchesCleanBetweenRounds` of `Aggregation`, in the instance of `fabric_gated` with one
   ToR and `FlagInit <- Uninitialised`: `CustomTopology::set_switch_num_updates` reads
   `cleaner_worker_set` before it is written; if it reads true, nobody cleans the switch.
10. `TensorsExist` of `Aggregation`, in the instance of `fabric_ungated`: results on their way
    down refer to the tensor of the worker that completed the aggregation, which may have
    ended its job and deleted it.
11. With plain `yarn` and fit first, a job larger than a rack is polled for forever.
12. `SwallowedIsPulled` of `Ndp`: the comment at `ndp.h:109` describes `_pull_window` as the
    pulls to expect, but a nack with the pull bit raises it for good; a returned header is
    then queued for a pull that does not come.
13. `PullsArePaced` of `Ndp`: after `release_pulls` has emptied the pull queue the old timer
    runs on beside a new one, and two pulls leave closer together than the drain time.
14. `TransferIsDelivered` and `NothingBeyondTheFlow` of `Tcp`, with transfers that are started
    again: an ack of the last transfer ends the next early; a timeout pending at the last
    ack sends a packet beyond the flow.
15. `VL2`: of the `4 * NI` routes of a pair, pairs are the same route when both ToRs have an
    aggregation switch in common (`vl2_topology.cpp:202`), so `PathsDiffer` leaves VL2 out.
16. `FatTree`: `set_params` accepts 6 nodes and others of odd `K` (`K * K * K / 4` rounds
    down), where the index arithmetic of the links does not work out.
17. `Route::add_endpoints` (`route.cpp:10`) appends to the one reverse route that flows with
    the same path share: with two flows a returned packet can end at the other's source.

## 4. What is proved

`ResourceProofs`, for every finite set of clients and every capacity:

* `ResourceConservesUnits`, `ResourceNoIdleUnit`, `ResourceQueueIsWaiters`, and for a
  capacity of one `ResourceMutualExclusion`.
* The inductive invariant is `IInv == TypeOK /\ UnitsConserved /\ NoIdleUnit /\
  QueueIsWaiters`.  None of its parts is inductive alone: what a release does to the
  count depends on the queue having each waiter once, and that a new request has no
  free unit in front of it depends on `NoIdleUnit`.
* `TriggerPreserves` is the argument: from a queue that matches the waiters and units
  that add up, the loop of `trigger_evs` re-establishes `IInv`.  `Request` and `Release`
  reduce to it; `Resume` and `Abort` move a client between states that count the same.
* `ResourceIsFirstComeFirstServed`: the action property `FirstComeFirstServed`.  `trigger_evs`
  pops a prefix, so who stays pending was not popped and neither was anybody behind it
  (`TriggerKeepsOrder`); that nobody stands in the queue twice is what it needs of `IInv`.
* Assumed: `ClientAssumption`, `CapacityAssumption`.

`AggregationProofs`, for every placement, number of slots, number and size of rounds:

* `AggregationTypeOK`.  Its content is that packets stay in the slots and versions the
  switches have, through the reuse of a slot with the other version, and that counts
  stay numbers under the two moduli, neither of which is ever zero (`TopologyFacts`).
* `ResultsAreComplete`, `WindowIsTheBound`, `SwitchesAreCleaned`: the three invariants of
  `fabric_gated`.  `ShadowBufferIsDead`: the branch that `fabric_shadow` reaches without a
  scheduler is dead with one.  `CellsAlign`: a switch compares no offsets, and yet the packets
  in one cell are for one.  `ResultsArrive`: once each, and inside an allreduce.
* `FabricIsABarrier`: the fabric implements `AllReduce`, by the refinement mapping of
  `BarrierSpec`, step by step: what `SchedulerProofs` assumes of it.
* The inductive invariant is `RoundInv` (`RoundInvariant`).  It says that there is a round r
  that every worker is in, has ended or has yet to start, and that in it *everything in the
  fabric is a function of the workers' progress and the queues*.  A worker has sent the packet of an
  offset when it has the result of the offset one window before (`Sent`); a switch has counted
  it when it is in the queue no more (`Counted`, `Gathered`, `Taken`); the result is made when
  all are taken (`Complete`).  `QueuesOk` says that a queue has each offset once, in the order
  of a slot's turns, and only what was sent; `SeenOk` that the marks of a cell are the nodes
  whose latest packet of that slot has this version; `CountOk` that the counter is the number of
  them while the cell is partly full, and one of its two rest values otherwise; `ResultsOk`
  that a result a worker has did reach it.  `SwitchOk` replaces the last two by "empty" once
  a cleaner of that switch has ended the round.
* Why so much: that a mark is stale (the other version's) when a packet comes is the argument
  that one window is never two turns ahead (a worker sends offset o + 2 * NUM_SLOTS only after
  the result of o + NUM_SLOTS, for which all had sent).  It needs the workers, both queues
  and the marks at once; no property of the run is inductive alone or with types.
* `UpwardPacketsAreSafe` is about the end of the job, where `Teardown` lets each worker delete
  its tensors as soon as its own last round is over.  `RoundInv` does not survive that (a worker
  whose tensor is gone leaves its results on the link and its switches uncleaned), so the
  invariant of `EndInvariant` is `EndInv == TypeOK /\ (RoundInv \/ Winding)`.  The step from one to
  the other is the first deletion (`FirstDelete`): a worker that has ended has all results,
  so all workers have sent everything and nothing goes up any more (`AllMade`); and
  `Winding` is kept because only results are left and none asks for another packet.
  `ShadowBufferIsDead` and `CellsAlign` hold through that end too.
* Assumed: `WorkerAssumption`, `TopologyAssumption`, `SizeAssumption`, `ModeAssumption`; and
  for all but `AggregationTypeOK` also `GatedRounds`: `Gated`, which `SchedulerProofs`
  proves of every collective scheduler, and a cleaner flag that is initialised, else
  disagreement 9.  The others of these theorems assume `OrderedRounds`, which adds that there
  is no `Teardown`: while a job ends, its switches need not be clean.

`SchedulerProofs` begins with the training loop.  For the loop without a scheduler (`U!LoopSpec`),
every set of jobs and workers, any number of tensors, chunks and iterations (the safety properties
of the loop in `jobs`):

* `ForwardWaits`, `CleanupWaits`: what the two comments on `execute_job`'s locks say.
  `fp_lock` is a number the code adds to and subtracts from in three functions, so the
  invariant is an equation, `FpLockCounts`: the lock plus the forward passes made
  equals one plus the allreduces ended in full.  As `fp_lock` is never negative, a
  forward pass has its allreduces behind it.  The final loop needs `DrainedSoFar` (the
  tensors it has passed are still drained) and `CountsInOrder` (a drained tensor has no
  round that could end).
* `WorkersStayInStep`: the same equation for the first tensor, with two more facts: a
  round that ended on one worker has been started by all (`StartedByAll`), and a worker
  calls as often as it has made the backward pass (`CallsMade`).  So a worker in
  iteration n has an allreduce n - 1 that every other worker has called.
* The lemmas up to there hold for whatever step raises `called`, so that the proofs about the
  schedulers can use them; `QuietMove` names the steps of a scheduler that leave the loop's counters alone.
* Assumed: `TrainingAssumption`.  The barrier is the guard of `CompleteAllreduce`, which
  `AllReduce` promises and `fabric_gated` and `fabric_ungated` check of `Aggregation`.

Then it has the five collective schedulers.  Of FIFO, for every set of jobs and workers and any
number of tensors and iterations:

* `FifoOneTensorInNetwork`, `FifoRoundsAreGated`, `FifoCleanupWaits` and, with one chunk per
  tensor, `FifoEnqueuesKept`.
* `FifoImplementsGatedAllReduce`: for each tensor of each job, the calls of allreduce
  implement `AllReduce` with its gate.  This is the assumption of `fabric_gated`, for every
  instance: initial states map to initial states, a call that gets its lock is `Start`, an
  allreduce that returns is `Complete`, and every other step stutters.
* The inductive invariant `FifoInv` joins the invariant of `Training`, the invariant of the
  lock (`ResourceProofs`, for the clients of this scheduler) and what `enqueue` keeps between
  its suspensions: a full queue has each worker of the job once (`OneEntryEach`), only the
  enqueue that fills a queue asks for the lock (`OnlyFullAsks`), the batch that is awaited
  belongs to the holder (`AwaitedIsHeld`), a worker's calls are its entries that have been
  taken out (`EnqueuesAccounted`).  One tensor in the network follows from mutual exclusion
  only with all of them: without `OneEntryEach` a batch could call a worker twice, and
  without `OnlyFullAsks` a grant could find a queue that is not full.

and of DeficitRoundRobin (`D`), for every set of jobs, workers and racks, with any number of
chunks per tensor and jobs of one worker among them:

* `DrrLinksAreExclusive`: jobs whose chunks are in the network together share no worker and no
  link to the core.  `accommodate` compares a job with the union of the jobs before it;
  that this makes them exclusive pair by pair is `AccommodateAdds`, and `DrrInv` needs that
  the whole batch is invoked, and only the batch (`CallsAwaited`, `BatchExclusive`).
* `DrrChunksInvokedOnce`, `DrrEnqueuesKept`: `ChunksAccounted` is an equation for each worker and
  tensor: the chunks called plus those left in the entry that waits are those of the enqueues
  that filled a queue.  How many are left is `done % Chunks`, which is 0 both before the first
  chunk and after the last: what tells these apart is that an entry in which no chunk is under
  way is whole (`WholeEntries`) and that the tops stay tops while they are awaited
  (`PassedIsNotReady`: a worker in a later iteration leaves no earlier entry behind).
* `DrrIndexesAgree`: `jid_to_deque_idx` and the deque name each other, although each worker of
  a job erases the job's queue and renumbers the rest while the loop is at some index.
* `DrrRoundsAreGated`, `DrrCleanupWaits`, `DrrImplementsGatedAllReduce`: what FIFO provides,
  for the chunks of every tensor.
* The recursions of the loop (`Involved`: jobs join until none can) and of `cleanup_for_job`
  (`Without`) are functions over 0..n; that they exist and what they keep comes from the
  least-number principle (`LeastNumber`).
* Assumed: `TrainingAssumption`, and of `Rack` nothing.

The other three have an argument in common, `GateInv`: a scheduler that calls allreduce for
all workers of a job together (`CalledTogether`), for rounds that are due (`RoundsDue`),
and awaits what it called before it calls again (`CallsAwaited`) gates the rounds and
implements `AllReduce` (`GateGated`, `GateFabric`).  Which steps keep it is said once
(`GateQuiet`, `GateAdvance`, `GateInvoke`); that each scheduler calls like this
depends on its queues, and these differ.

ReadyAndGo (`Ready`), for every set of workers of a job, any number of tensors and iterations:

* `ReadyOneTensorInNetwork`, `ReadyRoundsAreGated`, `ReadyCallsAreEnqueued`,
  `ReadyCleanupWaits`, `ReadyImplementsGatedAllReduce`.
* `ReadyInv` adds to `GateInv` the invariant of the lock, and that a tensor without the lock
  gathers each worker once, for a round that is due (`Gathers`), and is full when its
  coroutine asks.  Of the holder's queue it says only that it is not shorter: entries of the
  next iteration come into it and are erased with it (disagreement 6).  The theorems hold
  all the same, as the lost entries belong to workers that then wait forever; `EnqueuesKept`
  is false here.

ByteScheduler (`Byte`), with any number of chunks per tensor:

* `ByteOneTensorInNetwork`, `ByteRoundsAreGated`, `ByteChunksInvokedOnce`,
  `ByteCleanupWaits`, `ByteImplementsGatedAllReduce`; `EnqueuesKept` is false here too.
* `ByteInv` says what is in the queue of a tensor by its place in the heap and in `can_erase`
  (`ByteQueues`), and that the loop awaits one tensor (`ByteAwaits`).  A worker that cleans up
  empties `ready_queue` while the loop still awaits the others; that no enqueue then starts a
  second loop is `NoEnqueueAfterDone`: the last rounds of a worker that is done were called
  on all workers, so these have made their last backward passes.  Nothing is used of the
  order of the heap.
* Assumed of both: `TrainingAssumption`, and `OneJob`: these two keep a queue, a heap and a
  lock for each job apart, and the modules have those of one job.

Sincronia (`Sinc`), for every set of jobs, workers and racks, with any number of chunks per
tensor, whatever order `bssi` returns:

* `SincLinksAreExclusive`, `SincChunksInvokedOnce`, `SincEnqueuesKept`, `SincRoundsAreGated`,
  `SincCleanupWaits`, `SincImplementsGatedAllReduce`.
* `SincInv` describes a queue in which entries of two iterations meet (`TensorQueue`): the
  first `Offset` of them, if the tensor is in `can_erase`, are each worker once and are to be
  erased; those behind wait, each worker once, and are exactly the workers with rounds due
  (`WaitsFor`); and the tensor is ready as many times as it is full.  So an erasure by count
  takes the right entries, although the tensor may be full again before it happens, and
  nothing is lost.  That all entries of a queue may be invoked needs that no tensor of an
  order is in `can_erase` and each is exactly full (`Runnable`), through the erasures at the
  front of its jobs' queues.  `NoneLags` (a worker is at most one iteration ahead of what is
  called) bounds the overlap to two iterations.
* The loops over the order (`Involved`, `Without`) are functions over 1..n and 0..n, and
  `IterExists` gives the values that their steps keep.
* Assumed: `TrainingAssumption`, and of `Rack` nothing.

`CompositionProofs`, for the program as `main` sets it up (`Schedulers`): one of the schedulers,
with any jobs that it may be given:

* `SchedulersSendOneTensor`, `SchedulersKeepLinksApart`, `SchedulersGateRounds`,
  `SchedulersInvokeChunksOnce`, `SchedulersKeepEnqueues`: the five invariants that
  `schedulers` checks, and `SchedulersImplementGatedFabric`, its refinement.
* The invariant is `Composed`: the invariant of the chosen scheduler, whichever that is.  It is
  kept because the choice is (`ComposedStep`), and because a step of a scheduler in
  `Schedulers` is a step of the same scheduler in `SchedulerProofs`; as these are different
  instances of one module, that is said for each and proved by unfolding (`FifoNext`,
  `ReadyNext` and so on).
* FIFO and ReadyAndGo do not split a tensor: `Schedulers` gives them whole ones, and the proofs
  have `SchedulerProofs` with these too (`W`).
* Assumed: `SchedulersAssumption`, which is `TrainingAssumption`, that the job observed is one of
  the jobs, and that there is one job if ReadyAndGo or ByteScheduler can be chosen
  (`OneJobIsTrained`: their jobs share no state, and nothing keeps them apart in the network).

`NetworkProofs` has the queues of htsim2.  Of an output queue (`PortQueue`), for every kind, any
capacity, threshold, ratio, size of a full packet, path lengths, pauses and number of packets:

* `PortIsAccounted`: a packet that arrived is queued once or has left once, each size is that of
  its list and within the buffer, and the longest path is that of a queued packet, through
  every trim, boot, return and drop, and through second services.
* `PortServesLow`: the ratio bounds the run of headers while a full packet waits.
* `PortTypes`, and the inductive invariant `PortInvariant` itself.
* `PortInv` is `Sound`, `Longest` and `Ratio`.  `Sound` strengthens `Accounted` to what a step can
  be checked against: what has arrived is what is in the lists and in `left`, no two of these
  share a packet and none has one twice (`Kept`), and each class has the packets it is for
  (`Sorted`).  By the last, a composite queue has full packets in its low list only, so that
  one boot makes room for the packet that caused it, and `MaxQueued` is asked of full packets.
  `Ratio` relates the run of headers to the counter `crt`: it fails if a turn resets one and
  not the other.
* Every outcome of a receive, and every service, is made of three moves: a packet comes to a list
  (`SoundPush`), goes from some place of a list (`SoundTaken`) or leaves (`SoundLeft`).  The
  invariant is proved for the moves, then for each receive (`FifoIs`, `CutIs`, `CompositeIs`,
  `LengthIs`, `CtrlIs`) as a sequence of them.  What they need of `SumSizes` and `MaxQueued`
  when a list gains or loses a packet (`SumAppend`, `SumWithout`, `MaxAppend`, `MaxWithout`) is
  proved by the least-number principle.
* Assumed: `PortAssumption`: the kinds are those of the code, and a full packet fits an empty
  buffer; with a smaller buffer the boot loops of the composite queues take from an empty list.

Of `Lossless`, for every number of senders, link length and thresholds that leave the
margin of the constructor:

* `LosslessNeverOverflows`.  Its invariant counts, for each sender, the packets that can
  still come before its PAUSE takes effect: what is on the link, the one in service, and
  the one that exceeded the threshold.
* `LosslessEndsAgree`: the two ends of a link agree on the last notification, whatever
  crosses on it.
* Assumed: `LosslessAssumption`, which has the assertion of the constructor and the margin.

and for the other lossless switch (`LosslessSwitch`), with any number of ports:

* `LosslessHeldByAQueue`: a sender that may not send is held by an output queue of another port
  that has paused the switch and not resumed it yet; so the last GO of all queues leaves
  nobody held.  Its converse, that the senders of such a queue are all held, is what disagreement
  4 refutes, and with it the bound of the queues; nothing weaker that the code guarantees
  would prove that bound.
* Assumed: `DemandsAssumption`, that packets come and go by ports of the switch.

`ClusterProofs`, for every cluster, list of jobs and set of algorithms:

* `GpusAreConserved`, `ClusterTypeOK`, `FinishedMeansFinished`.
* `ClusterInv` adds to them that only started jobs run (`BusyIsStarted`: else the GPUs of a job
  that starts would be counted twice) and what each flag of `Cluster` means (`FlagsInOrder`).
* `GpusConserved` says that no worker has fewer than no GPUs left (the code's counter is unsigned
  and would wrap, with `CHECK_GE(gpu, 0)` always true) and that GPUs add up.  `GpusAddUp` adds up what jobs hold, by `MapThenSumSet`, which recurses over the set.  The
  induction theorems of the library take an operator as a parameter and cannot be used;
  the lemmas about sums (`SumExists`, `HeldRemove`, `HeldSame`) are proved from the
  least-number principle instead: a smallest set that violates the claim is taken apart
  (`LeastNumber`, `MinimalSubset`).
* `PlacementsAreFree` and `ChosenWait` are all it needs to know of the algorithms.
* Assumed: `ClusterAssumption`.

`TcpProofs`, for plain and DCTCP sources with any packet size, flow, first window and
reordering, and a network that drops packets and acks and lets the timer expire early:

* `TimerAlwaysCoversFlight`: an unacked byte has a timer that runs or a timeout on the way.
* `RecoveryCanAlwaysEnd`: fast recovery waits for the ack of something that was sent.
* `AcksAreAlwaysBacked`: what an ack says, the sink has.
* The inductive invariant is `TcpInv`.  `Safe`, about the source between two calls, has the
  first two and what they need: all its numbers end packets (`Aligned`), and a pending
  timeout counts only on an established connection, as `retransmit_packet` does not set the
  timer for a SYN.  Each call of the source is a lemma of its own, from `SendPackets` up to
  `ReceiveAck` and `Timeout`.  `SinkOk` says what the sink has received up to its
  cumulative ack, and `CumAfterBacked` that the ack passes no gap.  `EventsOk` ties the one
  event of the source to its start or its pending timeout, and `EndsAgree` the source to the
  sink and to what is between them: no data packet is on its way before the SYN is acked, so
  the sink never counts a packet with the size of the SYN.
* Assumed: `TcpAssumption`, and of the kinds that they are `tcp` and `dctcp`.  The other two
  restart; for these disagreements 3 and 14 above say what fails.

`NdpProofs`, for any flows of any size, any first window, any drain time of the pacer and any
number of trims and returns (all safety properties of `ndp`):

* `PacketsAreInOnePlace`, `WindowIsConserved`, `PullsAreServedInTurn`, `NdpTypeOK`.
* `NdpInv` has for each flow: what the source has sent is *divided* between the network, its
  retransmission queue and the sink, each once (`Divided`); its flight is what has no ack yet
  (`Balanced`, by which a source never believes that less is in flight than is); the packets
  ahead of the sink plus the pulls not acted upon are within the first window (`Windowed`).
  A pull says how many were requested so far, and a source sends one packet for each that it
  had not heard of: so pulls that overtake one another or come after a gap cost nothing, and
  the loop of `Send` needs an argument over its calls, from the least-number principle again
  (`SendsExist`, `SendSends`).
* `ServedInTurn` is about a C++ iterator into a map that changes under it.  `Turn` says that it
  has passed whoever a waiting flow saw served and not yet come to the flow itself, around the
  end of the map if need be (`Between`); `flush_flow` moves it on if it stands at what is erased.
* Assumed: `NdpConstants`.

Only model-checked: all liveness (`BarrierFairSpec` included); what the fabric does without the
gate (`UpwardTensorsExist` and `BarrierSpec` in `fabric_ungated`); and `RoutesAreSound`
(`FollowsLinks` and `PathsDiffer`) of the topologies.  Their links and paths are nested
divisions and remainders by the size of the network (a power of it in `BCube`), and the SMT
solver decides division by literals only; for the sizes of the run TLC tries every pair of
hosts.

## 5. Not modelled

* **bssi** orders tensors by floating-point weights and is a choice of any order.
* **Loss in SimpleQueue**: links lose nothing in `Aggregation`; `WindowBoundsQueues` gives what
  a tensor may put into a queue, which the configured buffers must hold.
* **Time**: durations, bandwidths and submit times are arbitrary delays.
* **Key width**: `Tensor::key` is narrowed to `unsigned` in the switches' maps and in
  Sincronia's `can_erase`.
* **NOSIMPKT**: that build replaces the packets of `allreduce` by a computed delay, and with them the
  barrier: nothing of it is modelled.
* **Bytes**: a round of `Aggregation` is so many packets; that bytes are rounded up to packets, and the
  comparisons of bytes in `receivePacket` and `allreduce` agree with it, is not represented.
* **NDP**: the choice of a path with its penalties (`choose_route`, `count_feedback`), which
  draws random numbers; the timeout path, which is compiled out; the transfers of
  `ndp_transfer.cpp`.  Acks, nacks and pulls are not lost, as they are not in the queues NDP
  is used with unless the header queue is full.
* **TCP**: the round-trip estimate, and the coupled windows of `MultipathTcpSrc`.
* **mtcp.cpp, rcp.cpp, cbr.cpp**: window coupling and rates are floating-point formulas.
* **Workloads** (`connection_matrix.cpp`, `shortflows.cpp`, `incast.cpp`, `firstfit.cpp`):
  random pairs and sizes.
* **Event list, pipes, loggers**: the event list is the scheduling of the models' actions, a
  pipe is a delay, the loggers write files.
* Custom placement (an experiment's fixture), round-robin placement and `one_by_one.cpp`
  (not built), `SimplePipe`, `counter.hpp`, `switchml_main.cpp`'s I/O, vendored code.

## 6. What could follow

1. Proofs: the routes of the topologies, whose index arithmetic divides by the size of the
   network; the theorems of `Tcp` for its transfers.
2. `set_switch_num_updates` as an algorithm over the placement, checked against the
   values `Aggregation` computes from it; two jobs with different placements.
3. `SimpleQueue` with its bound, composed with one worker's window: no loss while the
   buffer holds the windows of the tensors that share the link.
4. `choose_route` of NDP with the counters of path penalties, in integers as the code has them.
