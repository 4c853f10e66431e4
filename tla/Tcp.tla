-------------------------------- MODULE Tcp --------------------------------
(***************************************************************************)
(* One TCP connection of htsim2 (tcp.cpp), over a network that drops and   *)
(* reorders.  Kind selects the source: "tcp", "dctcp" (dctcp.cpp),         *)
(* "transfer" (tcp_transfer.cpp, one flow after another on one             *)
(* connection) or "periodic" (tcp_periodic.cpp, active and idle by turns). *)
(*                                                                         *)
(* Sequence numbers count bytes; the SYN has one byte, a packet Mss.  The  *)
(* round-trip estimate is left out: a timer that runs may expire at any    *)
(* time, but at most MaxSpurious times while packets are on their way.     *)
(***************************************************************************)
EXTENDS Integers, Sequences, FiniteSets

CONSTANTS Kinds,         \* the kinds of source to choose from
          Mss,           \* _mss, in bytes
          FlowSize,      \* _flow_size, in bytes
          FirstWindow,   \* the window startflow sets, in bytes (10 * _mss)
          Reach,         \* how far ahead the network delivers: 1 is in order
          MaxDrops,      \* how many packets the network drops
          MaxSpurious,   \* how often the timer expires too early
          MaxRestarts    \* how often a source is started again

ASSUME TcpAssumption ==
  /\ Kinds \subseteq {"tcp", "dctcp", "transfer", "periodic"}
  /\ Mss \in Nat \ {0} /\ FlowSize \in Nat /\ FirstWindow \in Nat \ {0}
  /\ Reach \in Nat \ {0}

VARIABLES
  src,      \* the TcpSrc
  snk,      \* [cum, received]: the TcpSink; history: arrived, all it got
  events,   \* the doNextEvent calls pending for the source, by their reason
  data,     \* the packets on their way, [seq, size]
  acks,     \* the acks on their way, their _ackno
  budget    \* [drops, spurious, restarts] left

vars == <<src, snk, events, data, acks, budget>>

Unlimited == 1000    \* 0xffffffff, the first _ssthresh

Smaller(a, b) == IF a < b THEN a ELSE b
Larger(a, b) == IF a > b THEN a ELSE b

Syn == [seq |-> 1, size |-> 1]
Segment(n) == [seq |-> n, size |-> Mss]
Sent(s, out) == [s |-> s, out |-> out]

-----------------------------------------------------------------------------
(* The source.  Each operator maps [s |-> the source, out |-> what it sends].*)

\* The timer is set unless it runs (RFC 2988 5.1).
Armed(s) == [s EXCEPT !.timer = TRUE]

\* FAULT: only the first packet of a flow sets the timer.
SendPackets_NoTimer(s) ==
  IF ~s.established THEN Sent(Armed([s EXCEPT !.highest = 1]), <<Syn>>)
  ELSE LET n == Larger(0, Smaller((s.acked + s.cwnd - s.highest) \div Mss,
                                  (FlowSize + 1 - s.highest) \div Mss))
       IN  Sent([s EXCEPT !.highest = @ + n * Mss],
                [i \in 1 .. n |-> Segment(s.highest + 1 + (i - 1) * Mss)])

\* send_packets: the SYN until it is acked, then what window and flow allow.
SendPackets(s) ==
  IF ~s.established THEN Sent(Armed([s EXCEPT !.highest = 1]), <<Syn>>)
  ELSE LET n == Larger(0, Smaller((s.acked + s.cwnd - s.highest) \div Mss,
                                  (FlowSize + 1 - s.highest) \div Mss))
       IN  Sent(IF n = 0 THEN s ELSE Armed([s EXCEPT !.highest = @ + n * Mss]),
                [i \in 1 .. n |-> Segment(s.highest + 1 + (i - 1) * Mss)])

\* retransmit_packet; before the connection is established it asserts that only
\* the SYN is out.
Retransmit(s) ==
  IF s.established THEN Sent(Armed(s), <<Segment(s.acked + 1)>>)
  ELSE IF s.highest = 1 THEN Sent(s, <<Syn>>)
  ELSE Sent([s EXCEPT !.exited = "assert"], <<>>)

\* Retransmit and then send what the window allows.
RetransmitAndSend(s) ==
  LET r == Retransmit(s)  t == SendPackets(r.s) IN Sent(t.s, r.out \o t.out)

\* startflow
StartFlow(s) == SendPackets([s EXCEPT !.cwnd = FirstWindow, !.established = FALSE])

\* deflate_window
Deflate(s) == [s EXCEPT !.ssthresh = Larger(s.cwnd \div 2, 2 * Mss)]

\* inflate_window: slow start below ssthresh, else a packet per window.
Inflate(s) ==
  LET newly == Smaller(s.acked + s.cwnd - s.highest, Mss) IN
  IF newly < 0 THEN s
  ELSE IF s.cwnd < s.ssthresh
    THEN [s EXCEPT !.cwnd = @ + Smaller(s.ssthresh - @, newly)]
    ELSE [s EXCEPT !.cwnd = @ + (newly * Mss) \div @]

\* A new ack a outside fast recovery, the ack that ends fast recovery, and a
\* partial one within it; s has its timer already set for the ack.
AckOfNew(s, a) == SendPackets(Inflate([s EXCEPT !.acked = a, !.dupacks = 0]))

EndRecovery(s, a) ==
  SendPackets([s EXCEPT !.cwnd = Smaller(s.ssthresh, s.highest - a + Mss),
                        !.acked = a, !.dupacks = 0, !.fast = FALSE])

PartialAck(s, a) ==
  LET new == a - s.acked
  IN  RetransmitAndSend([s EXCEPT !.acked = a,
                           !.cwnd = (IF new < @ THEN @ - new ELSE 0) + Mss])

\* FAULT: the acks that arrive in fast recovery are not compared with recoverq.
NewAck_NoRecoverq(s, a) ==
  LET q == [s EXCEPT !.timer = a < s.highest, !.highest = Larger(@, a)]
  IN  IF ~q.fast THEN AckOfNew(q, a) ELSE PartialAck(q, a)

\* FAULT: the timer is cleared although packets are unacked.
NewAck_ClearTimer(s, a) ==
  LET q == [s EXCEPT !.timer = FALSE, !.highest = Larger(@, a)]
  IN  IF ~q.fast THEN AckOfNew(q, a)
      ELSE IF a >= q.recoverq THEN EndRecovery(q, a) ELSE PartialAck(q, a)

\* receivePacket: an ack above _last_acked restarts the timer, or stops it
\* when nothing is outstanding.
NewAck(s, a) ==
  LET q == [s EXCEPT !.timer = a < s.highest, !.highest = Larger(@, a)]
  IN  IF ~q.fast THEN AckOfNew(q, a)
      ELSE IF a >= q.recoverq THEN EndRecovery(q, a) ELSE PartialAck(q, a)

\* The third duplicate ack starts fast recovery, once per recovery window.
FastRetransmit(s) ==
  IF s.acked < s.recoverq THEN Sent(s, <<>>)
  ELSE LET r == Retransmit(Deflate(s))
       IN  Sent([r.s EXCEPT !.cwnd = r.s.ssthresh + 3 * Mss, !.fast = TRUE,
                            !.recoverq = s.highest], r.out)

\* receivePacket: an ack equal to _last_acked.
DupAck(s) ==
  IF s.fast THEN SendPackets([s EXCEPT !.cwnd = @ + Mss])
  ELSE LET q == [s EXCEPT !.dupacks = @ + 1]
       IN  IF q.dupacks # 3 THEN SendPackets(q) ELSE FastRetransmit(q)

\* TcpSrc::receivePacket
ReceiveAck(s, a) ==
  IF a < s.acked THEN Sent(s, <<>>)
  ELSE LET q == [s EXCEPT !.established = @ \/ a = 1]
       IN  IF a > q.acked THEN NewAck(q, a) ELSE DupAck(q)

\* DCTCPSrc::receivePacket before it calls TcpSrc's: a mark ends slow start,
\* and once per window the window shrinks by up to half, with the fraction of
\* marks.  The fraction is left open, and an ack may always be the one that ends a
\* window.
EcnUpdates(s) ==
  IF s.kind # "dctcp" THEN {s}
  ELSE {s, [s EXCEPT !.ssthresh = Smaller(@, s.cwnd)]}
         \cup {[s EXCEPT !.cwnd = Larger(Mss, w), !.ssthresh = Larger(Mss, w)] :
                 w \in s.cwnd \div 2 .. s.cwnd}

\* doNextEvent with the timeout pending: the window shrinks to one packet and
\* the source goes back to the first unacked one.
Timeout(s) ==
  LET q == IF s.fast
             THEN [s EXCEPT !.cwnd = Smaller(s.ssthresh, s.highest - s.acked + Mss)]
             ELSE s
      d == Deflate(q)
  IN  Retransmit([d EXCEPT !.pending = FALSE, !.cwnd = Mss, !.fast = FALSE,
                    !.recoverq = s.highest, !.dupacks = 0,
                    !.highest = IF s.established THEN s.acked + Mss ELSE @])

\* TcpSrcTransfer::reset and TcpSrcPeriodic::reset; the latter leaves
\* _established alone.
Reset(s) ==
  [s EXCEPT !.highest = 0, !.ssthresh = Unlimited, !.acked = 0, !.dupacks = 0,
            !.recoverq = 0, !.fast = FALSE, !.pending = FALSE, !.timer = FALSE,
            !.established = IF s.kind = "periodic" THEN @ ELSE FALSE,
            !.active = FALSE]

-----------------------------------------------------------------------------
(* The sink. *)

\* FAULT: whatever arrives is taken for the next packet.
CumAfter_Any(k, p) == Larger(k.cum, p.seq + p.size - 1)

\* The cumulative ack after packet p: as many packets of _received as follow
\* are taken over, each counted with the size of p.
CumAfter(k, p) ==
  LET next == k.cum + p.size
      Gaps == {j \in 0 .. Cardinality(k.received) : next + j * p.size + 1 \notin k.received}
      taken == CHOOSE j \in Gaps : \A i \in Gaps : j <= i
  IN  IF p.seq = k.cum + 1 THEN next + taken * p.size ELSE k.cum

NewSink == [cum |-> 0, received |-> {}, arrived |-> {}]

\* Neither exit(1) nor a failed assertion has ended the program.
Running == src.exited = "no"

\* TcpSink::receivePacket and send_ack.
SinkReceive ==
  /\ Running
  /\ \E i \in 1 .. Smaller(Reach, Len(data)) :
       LET p == data[i]
           cum == CumAfter(snk, p)
           have == IF p.seq > snk.cum + 1 THEN snk.received \cup {p.seq} ELSE snk.received
       IN  /\ snk' = [cum |-> cum, received |-> {n \in have : n > cum},
                      arrived |-> snk.arrived \cup {p.seq}]
           /\ acks' = Append(acks, cum)
           /\ data' = SubSeq(data, 1, i - 1) \o SubSeq(data, i + 1, Len(data))
           /\ UNCHANGED <<src, events, budget>>

-----------------------------------------------------------------------------
\* _bytes_to_send of a transfer: it calls set_flowsize with _mss added to it, which
\* adds _mss once more.
BytesToSend == FlowSize - 2 * Mss

Sends(r) == src' = r.s /\ data' = data \o r.out

\* An ack arrives.  A transfer that is complete stops, resets and is started
\* again later; an inactive source drops the ack.
SrcReceive ==
  /\ Running
  /\ \E i \in 1 .. Smaller(Reach, Len(acks)), s \in EcnUpdates(src) :
       LET r == ReceiveAck(s, acks[i])
           done == src.kind = "transfer" /\ r.s.acked >= BytesToSend
       IN  /\ acks' = SubSeq(acks, 1, i - 1) \o SubSeq(acks, i + 1, Len(acks))
           /\ IF ~src.active THEN s = src /\ UNCHANGED <<src, data, events, budget>>
              ELSE /\ Sends(Sent(IF done THEN Reset(r.s) ELSE r.s, r.out))
                   /\ IF done /\ budget.restarts > 0
                        THEN /\ events' = [events EXCEPT !["start"] = @ + 1]
                             /\ budget' = [budget EXCEPT !.restarts = @ - 1]
                        ELSE UNCHANGED <<events, budget>>
           /\ UNCHANGED snk

\* rtx_timer_hook, called by the scanner: the timer has expired; the timeout
\* itself is an event of its own, and the timer runs again.
TimerHook ==
  /\ Running /\ src.timer /\ ~src.pending /\ src.active
  /\ \/ data = <<>> /\ acks = <<>> /\ UNCHANGED budget
     \/ /\ budget.spurious > 0
        /\ budget' = [budget EXCEPT !.spurious = @ - 1]
  /\ src' = [src EXCEPT !.pending = TRUE]
  /\ events' = [events EXCEPT !["timeout"] = @ + 1]
  /\ UNCHANGED <<snk, data, acks>>

\* doNextEvent of a TcpSrc: the timeout, or the start of the flow.
SrcEvent(s) == IF s.pending THEN Timeout(s) ELSE StartFlow(s)

\* doNextEvent of a source that starts (again); a TcpSrc has no sink to reset.
Starts(why) ==
  /\ Sends(StartFlow([src EXCEPT !.active = TRUE]))
  /\ snk' = IF src.kind \in {"transfer", "periodic"} THEN NewSink ELSE snk
  /\ events' = [events EXCEPT ![why] = @ - 1,
                  !["end"] = IF src.kind = "periodic" THEN @ + 1 ELSE @]
  /\ UNCHANGED <<acks, budget>>

\* TcpSrcPeriodic::doNextEvent at the end of an active time.
EndsActivity ==
  /\ src' = Reset(src)
  /\ IF budget.restarts > 0
       THEN /\ events' = [events EXCEPT !["end"] = @ - 1, !["start"] = @ + 1]
            /\ budget' = [budget EXCEPT !.restarts = @ - 1]
       ELSE events' = [events EXCEPT !["end"] = @ - 1] /\ UNCHANGED budget
  /\ UNCHANGED <<snk, data, acks>>

\* exit(1): the simulation is over.
Exit ==
  /\ src' = [src EXCEPT !.exited = "exit"]
  /\ UNCHANGED <<snk, events, data, acks, budget>>

\* An event of the source is due.  The calls are the same whatever they were
\* scheduled for; only the end of an active time is told by the clock.
DoNextEvent(why) ==
  /\ Running /\ events[why] > 0
  /\ IF ~src.active THEN Starts(why)
     ELSE IF src.kind = "periodic" /\ why = "end" THEN EndsActivity
     ELSE IF src.kind = "periodic" /\ ~src.pending
       THEN Exit
     ELSE /\ Sends(SrcEvent(src))
          /\ events' = [events EXCEPT ![why] = @ - 1]
          /\ UNCHANGED <<snk, acks, budget>>

\* A queue of the network is full.
Drop ==
  /\ Running /\ budget.drops > 0
  /\ budget' = [budget EXCEPT !.drops = @ - 1]
  /\ \/ data # <<>> /\ data' = Tail(data) /\ UNCHANGED acks
     \/ acks # <<>> /\ acks' = Tail(acks) /\ UNCHANGED data
  /\ UNCHANGED <<src, snk, events>>

Init ==
  /\ \E kind \in Kinds :
       src = [kind |-> kind, active |-> kind \in {"tcp", "dctcp"}, established |-> FALSE,
              highest |-> 0, acked |-> 0, cwnd |-> 0, ssthresh |-> Unlimited,
              dupacks |-> 0, recoverq |-> 0, fast |-> FALSE, timer |-> FALSE,
              pending |-> FALSE, exited |-> "no"]
  /\ snk = NewSink
  /\ events = [start |-> 1, timeout |-> 0, end |-> 0]
  /\ data = <<>> /\ acks = <<>>
  /\ budget = [drops |-> MaxDrops, spurious |-> MaxSpurious, restarts |-> MaxRestarts]

Next ==
  \/ SinkReceive \/ SrcReceive \/ TimerHook \/ Drop
  \/ \E why \in DOMAIN events : DoNextEvent(why)

Spec ==
  /\ Init /\ [][Next]_vars
  /\ WF_vars(SinkReceive) /\ WF_vars(SrcReceive) /\ WF_vars(TimerHook)
  /\ WF_vars(\E why \in DOMAIN events : DoNextEvent(why))

-----------------------------------------------------------------------------
\* The acks are backed: every packet up to what the source takes for acked,
\* and up to what any ack on its way says, has reached the sink.
Backed(a) ==
  /\ a <= snk.cum
  /\ a >= Syn.seq => Syn.seq \in snk.arrived
  /\ \A k \in 0 .. a : 2 + k * Mss <= a => 2 + k * Mss \in snk.arrived
AcksAreBacked == Backed(src.acked) /\ \A i \in 1 .. Len(acks) : Backed(acks[i])

\* No outstanding byte waits without a timer: whatever is lost, repeated or
\* acked late, the timer runs or its event is on the way.
TimerCoversFlight ==
  src.highest > src.acked => src.timer \/ src.pending

\* Fast recovery is always left: the ack that ends it is still to come.
RecoveryCanEnd ==
  src.fast => src.acked <= src.recoverq /\ src.recoverq <= src.highest

\* The flow completes, whatever the network drops and reorders, as long as it
\* drops a bounded number of packets.
FlowCompletes == <>[](src.acked >= FlowSize)

\* The source sends nothing beyond its flow.  It does: a timeout that was
\* pending when the last ack came sends the packet after the last.
NothingBeyondTheFlow ==
  \A i \in 1 .. Len(data) : data[i].seq + data[i].size - 1 <= FlowSize + 1

\* A transfer that ends has delivered its bytes.  It has not when an ack of the
\* transfer before it was still on its way.
TransferIsDelivered ==
  [][ src.kind = "transfer" /\ src.active /\ ~src.active'
        => snk.cum >= BytesToSend ]_vars

\* "Wrong place to be in ... maybe i got a timeout here. How?": a periodic
\* source has a timeout pending whenever an event finds it active.
NeverInTheWrongPlace == src.exited # "exit"
=============================================================================
