-------------------------------- MODULE Ndp --------------------------------
(***************************************************************************)
(* The NDP transport of htsim2/ndp.cpp: the sources of Flows send to one   *)
(* receiving host, whose sinks share a pull pacer.  The network delivers   *)
(* in any order; a switch may trim a full packet to its header and may     *)
(* return a header to its sender.  Acks, nacks and pulls are not lost.     *)
(*                                                                         *)
(* A packet is one unit (_mss = 1), so sequence numbers count packets.     *)
(* Drain is the pacer's _packet_drain_time in ticks; rtx_timer_hook        *)
(* returns at once (RESEND_ON_TIMEOUT is not defined), so no time of the   *)
(* source is modelled.                                                     *)
(***************************************************************************)
EXTENDS Integers, Sequences, FiniteSets

CONSTANTS Flows,       \* the flow ids, the keys of the fair pull queue
          Sizes,       \* the values of _flow_size to choose from
          Cwnd,        \* _cwnd
          Drain,       \* _packet_drain_time
          MaxTrims,    \* how many packets the switches trim
          MaxBounces   \* how many headers the switches return

ASSUME NdpConstants ==
  /\ Flows \subseteq Nat /\ Flows # {}
  /\ Sizes \subseteq Nat \ {0}
  /\ Cwnd \in Nat \ {0} /\ Drain \in Nat \ {0}
  /\ MaxTrims \in Nat /\ MaxBounces \in Nat

VARIABLES
  src,     \* [started, size, highest, acked, flight, lastPull, window, first, rtx]
  snk,     \* [cum, received, pullNo, last] of each NdpSink
  pacer,   \* [queues, current, timers, since] of the NdpPullPacer
  passed,  \* history: passed[g] are the flows served since g has been waiting
  net,     \* the packets in the network
  budget   \* [trims, bounces] the network has left

vars == <<src, snk, pacer, passed, net, budget>>

End == -1   \* _queue_map.end()

FullPkt(f, s, l)   == [type |-> "full", flow |-> f, seq |-> s, last |-> l]
HeaderPkt(f, s, l) == [type |-> "header", flow |-> f, seq |-> s, last |-> l]
BouncedPkt(f, s, l) == [type |-> "bounced", flow |-> f, seq |-> s, last |-> l]
Feedback(t, f, s, cum, no, p) ==
  [type |-> t, flow |-> f, seq |-> s, cum |-> cum, pullNo |-> no, pull |-> p]
PullPkt(f, q) == [type |-> "pull", flow |-> f, cum |-> q.cum, pullNo |-> q.pullNo]

-----------------------------------------------------------------------------
(* The source. *)

\* send_packet: the retransmission queue first, else new data, else nothing.
\* It maps [s |-> source record, out |-> packets sent].
SendPacket(f, r) ==
  LET s == r.s IN
  IF s.rtx # <<>>
    THEN [s   |-> [s EXCEPT !.rtx = Tail(@)],
          out |-> r.out \cup {FullPkt(f, Head(s.rtx).seq, Head(s.rtx).last)}]
    ELSE IF s.highest >= s.size THEN r
    ELSE [s   |-> [s EXCEPT !.highest = @ + 1, !.flight = @ + 1],
          out |-> r.out \cup {FullPkt(f, s.highest + 1, s.highest + 1 >= s.size)}]

\* n calls of send_packet.
Send(f, s, n) ==
  LET after[i \in 0 .. n] ==
        IF i = 0 THEN [s |-> s, out |-> {}] ELSE SendPacket(f, after[i - 1])
  IN  after[n]

\* pull_packets: one packet for every pull number not seen yet.
PullPackets(f, s, no) ==
  LET r == Send(f, s, IF no > s.lastPull THEN no - s.lastPull ELSE 0)
  IN  [r EXCEPT !.s.lastPull = IF no > @ THEN no ELSE @]

Larger(a, b) == IF a > b THEN a ELSE b
Less(a, b) == IF a < b THEN a ELSE b

\* startflow, the event of NdpSrc::connect.
StartFlow(f) ==
  /\ ~src[f].started
  /\ LET n == Less(Cwnd, src[f].size)
         r == Send(f, [src[f] EXCEPT !.started = TRUE, !.highest = 0, !.acked = 0,
                                     !.window = 0, !.flight = 0, !.first = n], n)
     IN  /\ src' = [src EXCEPT ![f] = r.s]
         /\ net' = net \cup r.out
  /\ UNCHANGED <<snk, pacer, passed, budget>>

\* processRTS: the packet goes to the front of the retransmission queue and
\* is sent at once when no pull is expected or the path is bad.
ProcessRTS(f, s, p, bad) ==
  LET q == [s EXCEPT !.first = @ - 1,
                     !.rtx = <<[seq |-> p.seq, last |-> p.last]>> \o @]
  IN  IF (q.window = 0 /\ q.first <= 1) \/ bad
        THEN SendPacket(f, [s |-> q, out |-> {}])
        ELSE [s |-> q, out |-> {}]

\* FAULT: nothing is queued for retransmission when the nack pulls.
ProcessNack_Lost(f, s, p) ==
  LET q == [s EXCEPT !.window = @ + 1, !.first = @ - 1]
  IN  IF p.pull THEN PullPackets(f, q, p.pullNo)
                ELSE [s |-> [q EXCEPT !.rtx = Append(@, [seq |-> p.seq,
                                                          last |-> p.seq >= s.size])],
                      out |-> {}]

\* FAULT: a nack without the pull bit is answered at once, too.
ProcessNack_AtOnce(f, s, p) ==
  LET q == [s EXCEPT !.window = @ + 1, !.first = @ - 1,
                     !.rtx = Append(@, [seq |-> p.seq, last |-> p.seq >= s.size])]
  IN  IF p.pull THEN PullPackets(f, q, p.pullNo) ELSE Send(f, q, 1)

\* receivePacket and processNack: window += 1, and not back for the pull bit.
ProcessNack(f, s, p) ==
  LET q == [s EXCEPT !.window = @ + 1, !.first = @ - 1,
                     !.rtx = Append(@, [seq |-> p.seq, last |-> p.seq >= s.size])]
  IN  IF p.pull THEN PullPackets(f, q, p.pullNo) ELSE [s |-> q, out |-> {}]

\* receivePacket and processAck.
ProcessAck(f, s, p) ==
  LET q == [s EXCEPT !.window = IF p.pull THEN @ ELSE @ + 1, !.first = @ - 1,
                     !.acked = Larger(@, p.cum), !.flight = @ - 1]
  IN  IF p.pull THEN PullPackets(f, q, p.pullNo) ELSE [s |-> q, out |-> {}]

\* receivePacket for a PULL.
ProcessPull(f, s, p) ==
  PullPackets(f, [s EXCEPT !.window = @ - 1, !.acked = Larger(@, p.cum)], p.pullNo)

\* is_bad_path needs an ACK in the feedback history; the history is not kept.
BadPath(s) == IF s.flight < s.highest THEN BOOLEAN ELSE {FALSE}

\* NdpSrc::receivePacket
SrcReceive(p) ==
  /\ p.type \in {"bounced", "nack", "ack", "pull"}
  /\ LET f == p.flow  s == src[f] IN
     \E bad \in BadPath(s) :
       LET r == CASE p.type = "bounced" -> ProcessRTS(f, s, p, bad)
                  [] p.type = "nack"    -> ProcessNack(f, s, p)
                  [] p.type = "ack"     -> ProcessAck(f, s, p)
                  [] p.type = "pull"    -> ProcessPull(f, s, p)
       IN  /\ bad => p.type = "bounced"
           /\ src' = [src EXCEPT ![f] = r.s]
           /\ net' = (net \ {p}) \cup r.out
  /\ UNCHANGED <<snk, pacer, passed, budget>>

-----------------------------------------------------------------------------
(* The pull pacer and its fair queue: queues maps the flows of _queue_map   *)
(* to their pulls, oldest first; current is the iterator _current_queue.    *)

QueuesEmpty(q) == \A f \in DOMAIN q.queues : q.queues[f] = <<>>

\* FairPullQueue::enqueue, with create_queue for a flow it does not know.
Enqueue(q, f, pull) ==
  [q EXCEPT !.queues = [g \in DOMAIN @ \cup {f} |->
     IF g # f THEN @[g] ELSE IF f \in DOMAIN @ THEN Append(@[f], pull) ELSE <<pull>>]]

Waiting(q, f) == f \in DOMAIN q.queues /\ q.queues[f] # <<>>

\* The iterator after the one at flow f.
NextOf(q, f) ==
  LET later == {g \in DOMAIN q.queues : g > f}
  IN  IF later = {} THEN End ELSE CHOOSE g \in later : \A h \in later : g <= h

\* FAULT: the first flow that has a pull, whoever was served before.
Served_First(q) ==
  LET waiting == {g \in DOMAIN q.queues : Waiting(q, g)}
  IN  CHOOSE g \in waiting : \A h \in waiting : g <= h

\* The flow dequeue serves: the first with a pull from current on, cyclically.
Served(q) ==
  LET waiting == {g \in DOMAIN q.queues : Waiting(q, g)}
      ahead == IF q.current = End THEN {} ELSE {g \in waiting : g >= q.current}
      from == IF ahead # {} THEN ahead ELSE waiting
  IN  CHOOSE g \in from : \A h \in from : g <= h

Dequeue(q) ==
  LET f == Served(q)
  IN  [q EXCEPT !.queues[f] = Tail(@), !.current = NextOf(q, f)]

\* FairPullQueue::flush_flow, called by release_pulls.
FlushFlow(q, f) ==
  IF f \notin DOMAIN q.queues THEN q
  ELSE [q EXCEPT !.current = IF @ = f THEN NextOf(q, f) ELSE @,
                 !.queues = [g \in DOMAIN @ \ {f} |-> @[g]]]

AddTimer(q, t) == [q EXCEPT !.timers[t] = @ + 1]

\* FAULT: no timer is set for a pull that finds the queue empty.
PacerSend_NoTimer(q, p) ==
  IF QueuesEmpty(q) /\ q.since >= Drain
    THEN [q |-> [q EXCEPT !.since = 0], out |-> p]
    ELSE [q |-> Enqueue(q, p.flow, [cum |-> p.cum, pullNo |-> p.pullNo]),
          out |-> [p EXCEPT !.pull = FALSE, !.pullNo = 0]]

\* NdpPullPacer::sendPacket: p goes out with its pull bit when the pacer has
\* been idle for Drain, else without it and a pull is queued in its place.
\* It maps [q |-> pacer, out |-> packet].
PacerSend(q, p) ==
  IF QueuesEmpty(q) /\ q.since >= Drain
    THEN [q |-> [q EXCEPT !.since = 0], out |-> p]
    ELSE [q |-> Enqueue(IF QueuesEmpty(q) THEN AddTimer(q, Drain - q.since) ELSE q,
                        p.flow, [cum |-> p.cum, pullNo |-> p.pullNo]),
          out |-> [p EXCEPT !.pull = FALSE, !.pullNo = 0]]

\* NdpPullPacer::doNextEvent: a timer expires; a queue that a flush emptied is
\* left alone.
PacerEvent ==
  /\ pacer.timers[0] > 0
  /\ LET q == [pacer EXCEPT !.timers[0] = @ - 1] IN
     IF QueuesEmpty(q)
       THEN pacer' = q /\ UNCHANGED <<net, passed>>
       ELSE LET f == Served(q)
                d == [Dequeue(q) EXCEPT !.since = 0]
            IN  /\ net' = net \cup {PullPkt(f, Head(q.queues[f]))}
                /\ pacer' = IF QueuesEmpty(d) THEN d ELSE AddTimer(d, Drain)
                /\ passed' = [g \in Flows |-> IF g = f \/ ~Waiting(q, g) THEN {}
                                              ELSE passed[g] \cup {f}]
  /\ UNCHANGED <<src, snk, budget>>

\* Time passes; no event is passed over.
Tick ==
  /\ pacer.timers[0] = 0
  /\ pacer.since < Drain \/ \E t \in 1 .. Drain : pacer.timers[t] > 0
  /\ pacer' = [pacer EXCEPT !.since = Less(Drain, @ + 1),
                 !.timers = [t \in 0 .. Drain |-> IF t = Drain THEN 0 ELSE @[t + 1]]]
  /\ UNCHANGED <<src, snk, passed, net, budget>>

-----------------------------------------------------------------------------
(* The sink. *)

\* The cumulative ack after packet s of the sink k: the packets that wait in
\* _received are taken over while they follow.
CumAfter(k, s) ==
  LET have == k.received \cup {s}
      CumOf[c \in Nat] == IF c + 1 \in have THEN CumOf[c + 1] ELSE c
  IN  IF s = k.cum + 1 THEN CumOf[k.cum] ELSE k.cum

\* NdpSink::receivePacket of a header: send_nack.
SinkHeader(f, p) ==
  LET k == [snk[f] EXCEPT !.pullNo = @ + 1]
      r == PacerSend(pacer, Feedback("nack", f, p.seq, k.cum, k.pullNo, TRUE))
  IN  /\ snk' = [snk EXCEPT ![f] = k]
      /\ pacer' = r.q
      /\ net' = (net \ {p}) \cup {r.out}

\* The flow is complete: its last packet was seen and all before it.
Complete(k) == k.last > 0 /\ k.cum = k.last

\* NdpSink::receivePacket of a full packet: send_ack, and release_pulls at the
\* end of the flow.
SinkFull(f, p) ==
  LET cum == CumAfter(snk[f], p.seq)
      k == [snk[f] EXCEPT !.cum = cum,
                          !.received = {s \in @ \cup {p.seq} : s > cum},
                          !.last = IF p.last THEN p.seq ELSE @,
                          !.pullNo = @ + 1]
      r == PacerSend(pacer, Feedback("ack", f, p.seq, k.cum, k.pullNo, TRUE))
  IN  /\ snk' = [snk EXCEPT ![f] = k]
      /\ pacer' = IF Complete(k) THEN FlushFlow(r.q, f) ELSE r.q
      /\ net' = (net \ {p}) \cup {r.out}

SinkReceive(p) ==
  /\ \/ p.type = "header" /\ SinkHeader(p.flow, p)
     \/ p.type = "full" /\ SinkFull(p.flow, p)
  /\ UNCHANGED <<src, budget>>
  /\ passed' = [g \in Flows |-> IF Waiting(pacer', g) THEN passed[g] ELSE {}]

-----------------------------------------------------------------------------
(* The switches (CompositeQueue): a low-priority queue that is full trims a  *)
(* packet, a header queue that is full returns the header to its sender.     *)

Trim(p) ==
  /\ p.type = "full" /\ budget.trims > 0
  /\ net' = (net \ {p}) \cup {HeaderPkt(p.flow, p.seq, p.last)}
  /\ budget' = [budget EXCEPT !.trims = @ - 1]
  /\ UNCHANGED <<src, snk, pacer, passed>>

BounceHeader(p) ==
  /\ p.type = "header" /\ budget.bounces > 0
  /\ net' = (net \ {p}) \cup {BouncedPkt(p.flow, p.seq, p.last)}
  /\ budget' = [budget EXCEPT !.bounces = @ - 1]
  /\ UNCHANGED <<src, snk, pacer, passed>>

Init ==
  /\ \E size \in [Flows -> Sizes] :
       src = [f \in Flows |->
                [started |-> FALSE, size |-> size[f], highest |-> 0, acked |-> 0,
                 flight |-> 0, lastPull |-> 0, window |-> 0, first |-> 0, rtx |-> <<>>]]
  /\ snk = [f \in Flows |-> [cum |-> 0, received |-> {}, pullNo |-> 0, last |-> 0]]
  /\ pacer = [queues |-> <<>>, current |-> End, since |-> 0,
              timers |-> [t \in 0 .. Drain |-> 0]]
  /\ passed = [f \in Flows |-> {}]
  /\ net = {}
  /\ budget = [trims |-> MaxTrims, bounces |-> MaxBounces]

Next ==
  \/ \E f \in Flows : StartFlow(f)
  \/ \E p \in net : SrcReceive(p) \/ SinkReceive(p) \/ Trim(p) \/ BounceHeader(p)
  \/ PacerEvent \/ Tick

Deliver == \E p \in net : SrcReceive(p) \/ SinkReceive(p)

Spec ==
  /\ Init /\ [][Next]_vars
  /\ \A f \in Flows : WF_vars(StartFlow(f))
  /\ WF_vars(Deliver) /\ WF_vars(PacerEvent) /\ WF_vars(Tick)

-----------------------------------------------------------------------------
SrcRecord ==
  [started : BOOLEAN, size : Sizes, highest : Nat, acked : Nat, flight : Int,
   lastPull : Nat, window : Int, first : Int, rtx : Seq([seq : Nat, last : BOOLEAN])]

SnkRecord == [cum : Nat, received : SUBSET Nat, pullNo : Nat, last : Nat]

Packet ==
  [type : {"full", "header", "bounced"}, flow : Flows, seq : Nat, last : BOOLEAN]
  \cup [type : {"ack", "nack"}, flow : Flows, seq : Nat, cum : Nat, pullNo : Nat,
        pull : BOOLEAN]
  \cup [type : {"pull"}, flow : Flows, cum : Nat, pullNo : Nat]

\* Every variable keeps its type.
TypeOK ==
  /\ src \in [Flows -> SrcRecord] /\ snk \in [Flows -> SnkRecord]
  /\ DOMAIN pacer.queues \subseteq Flows
  /\ pacer.queues \in [DOMAIN pacer.queues -> Seq([cum : Nat, pullNo : Nat])]
  /\ pacer \in [queues : {pacer.queues}, current : Flows \cup {End}, since : 0 .. Drain,
                timers : [0 .. Drain -> Nat]]
  /\ passed \in [Flows -> SUBSET Flows]
  /\ net \subseteq Packet
  /\ budget \in [trims : Nat, bounces : Nat]

Of(f, types) == {p \in net : p.flow = f /\ p.type \in types}

\* A packet the source has sent is in exactly one place until it is
\* delivered: on its way, in the hands of a nack, in the retransmission queue
\* or received.  Nothing is lost although no timer would repeat it, nothing is
\* sent twice, and the flight size counts what has no ack yet.
OneCopy ==
  \A f \in Flows :
    LET held == (1 .. snk[f].cum) \cup snk[f].received
        Places(s) ==
          Cardinality({p \in Of(f, {"full", "header", "bounced", "nack"}) : p.seq = s})
          + Cardinality({i \in 1 .. Len(src[f].rtx) : src[f].rtx[i].seq = s})
          + (IF s \in held THEN 1 ELSE 0)
    IN  /\ \A s \in 1 .. src[f].highest : Places(s) = 1
        /\ held \subseteq 1 .. src[f].highest
        /\ src[f].flight = src[f].highest - Cardinality(held)
                           + Cardinality(Of(f, {"ack"}))

\* The receiver controls the sender: the packets on their way and the pulls
\* not acted upon never exceed the first window, whatever is trimmed,
\* returned, reordered or released.
WindowConserved ==
  \A f \in Flows :
    Cardinality(Of(f, {"full", "header", "bounced"}))
      + snk[f].pullNo - src[f].lastPull <= Cwnd

Pulls(f) == IF f \in DOMAIN pacer.queues THEN Len(pacer.queues[f]) ELSE 0

\* The pull queue is fair: while a flow waits for a pull, no other flow on the
\* pacer is served twice, whichever flows join and are flushed meanwhile.
ServedInTurn ==
  [][ \A f, g \in Flows :
        PacerEvent /\ f # g /\ Waiting(pacer, g) /\ Pulls(f)' < Pulls(f)
          => f \notin passed[g] ]_vars

Silent(f) == Of(f, {"full", "header", "bounced", "ack", "nack", "pull"}) = {}
             /\ Pulls(f) = 0
Stranded(f) == src[f].rtx # <<>> /\ Silent(f)

\* Every flow ends, or its source is left with a packet to repeat that no pull
\* will ever ask for; no timeout is needed for anything else.
EndsUnlessStranded ==
  \A f \in Flows : <>[](src[f].acked = src[f].size \/ Stranded(f))

\* "if we're using RTS, we shouldn't need to also use timeouts": a source is
\* never left with a packet to repeat, nothing on its way and no pull to come.
\* It is: pull_packets counts a pull that overtakes its nack as answered.
TimeoutsUnneeded == \A f \in Flows : ~Stranded(f)

\* A returned packet is swallowed only while a pull is expected: even so, no
\* source is stranded with _pull_window above zero.  It is, since a nack with
\* the pull bit raises the window and nothing lowers it again.
SwallowedIsPulled == \A f \in Flows : Stranded(f) => src[f].window <= 0

\* The pacer paces: a pull waits until Drain has passed since the last.  It does
\* not, once release_pulls has emptied the queue and left its timer running.
PullsArePaced ==
  [][ PacerEvent /\ ~QueuesEmpty(pacer) => pacer.since >= Drain ]_vars
=============================================================================
