------------------------------ MODULE TcpProofs ------------------------------
(***************************************************************************)
(* Proofs about Tcp for its plain and DCTCP sources, for every packet size, *)
(* flow, window and network that drops, reorders and lets the timer expire  *)
(* early: acks are backed by data, outstanding data has a timer, and fast   *)
(* recovery can end.                                                        *)
(***************************************************************************)
EXTENDS Tcp, TLAPS, FiniteSetTheorems, WellFoundedInduction

-----------------------------------------------------------------------------
(* The natural numbers are well ordered.                                    *)

Before == {p \in Nat \X Nat : p[1] < p[2]}

LEMMA BeforeWellFounded == IsWellFoundedOn(Before, Nat)
<1>1. OpToRel(<, Nat) = Before
  BY DEF OpToRel, Before
<1> QED
  BY <1>1, NatLessThanWellFounded

LEMMA Least ==
    ASSUME NEW S, S \subseteq Nat, S # {}
    PROVE  \E n \in S : \A m \in S : n <= m
<1>1. PICK n \in S : \A m \in S : ~(<<m, n>> \in Before)
  BY BeforeWellFounded, WFMin
<1>2. ASSUME NEW m \in S, m < n PROVE FALSE
  <2>1. <<m, n>> \in Nat \X Nat /\ <<m, n>>[1] = m /\ <<m, n>>[2] = n
    OBVIOUS
  <2>2. <<m, n>> \in Before
    BY <2>1, <1>2 DEF Before
  <2> QED
    BY <2>2, <1>1
<1>3. n \in Nat /\ \A m \in S : m \in Nat
  OBVIOUS
<1> QED
  BY <1>2, <1>3

-----------------------------------------------------------------------------
(* Sequence numbers: the SYN has byte 1, the packets follow, Mss bytes each. *)

\* The first byte of packet k, and the last byte before it.
First(k) == 2 + k * Mss
Ends(k) == 1 + k * Mss

Packets == [seq : {First(k) : k \in Nat}, size : {Mss}]
Boundaries == {Ends(k) : k \in Nat}

LEMMA MssType == Mss \in Nat /\ Mss > 0
BY TcpAssumption

LEMMA EndsType ==
    ASSUME NEW k \in Nat
    PROVE  /\ Ends(k) \in Nat /\ Ends(k) >= 1 /\ First(k) = Ends(k) + 1
           /\ Ends(k + 1) = Ends(k) + Mss
BY MssType DEF Ends, First

LEMMA EndsNext ==
    ASSUME NEW k \in Nat, NEW n \in Nat
    PROVE  Ends(k) + Mss + n * Mss = Ends(k + 1 + n)
BY MssType DEF Ends

LEMMA EndsOrder ==
    ASSUME NEW k \in Nat, NEW m \in Nat, k < m
    PROVE  Ends(k + 1) <= Ends(m)
<1>1. PICK d \in Nat : m = k + 1 + d
  <2>1. m - k - 1 \in Nat /\ m = k + 1 + (m - k - 1)
    OBVIOUS
  <2> QED
    BY <2>1
<1>2. Ends(m) = Ends(k + 1) + d * Mss
  BY <1>1, MssType DEF Ends
<1>3. d * Mss \in Nat
  BY MssType
<1>4. Ends(k + 1) \in Nat
  BY EndsType
<1> QED
  BY <1>2, <1>3, <1>4

LEMMA EndsZero == Ends(0) = 1 /\ First(0) = 2
BY MssType DEF Ends, First

-----------------------------------------------------------------------------
(* The sink.                                                                *)

\* What a sink has: its cumulative ack ends a packet, all up to it has arrived,
\* and so has what waits in _received.
SinkOk(k) ==
    /\ k.cum \in {0} \union Boundaries
    /\ IsFiniteSet(k.received)
    /\ k.received \subseteq {First(i) : i \in Nat} \intersect k.arrived
    /\ k.cum = 0 => k.received = {}
    /\ k.cum >= 1 => 1 \in k.arrived
    /\ \A i \in Nat : First(i) <= k.cum => First(i) \in k.arrived

\* The loop over _received ends.
LEMMA GapExists ==
    ASSUME NEW R, IsFiniteSet(R), NEW m \in Nat
    PROVE  \E j \in 0 .. Cardinality(R) :
             /\ First(m + 1 + j) \notin R
             /\ \A i \in 0 .. Cardinality(R) : First(m + 1 + i) \notin R => j <= i
<1> DEFINE N == Cardinality(R)
           Gaps == {j \in 0 .. N : First(m + 1 + j) \notin R}
<1>1. N \in Nat
  BY FS_CardinalityType
<1>2. Gaps # {}
  <2> SUFFICES ASSUME Gaps = {} PROVE FALSE
    OBVIOUS
  <2> DEFINE f == [j \in 0 .. N |-> First(m + 1 + j)]
  <2>1. f \in [0 .. N -> R]
    OBVIOUS
  <2>2. ASSUME NEW i \in 0 .. N, NEW j \in 0 .. N, i # j PROVE f[i] # f[j]
    <3>1. ASSUME NEW x \in 0 .. N, NEW y \in 0 .. N, x < y PROVE First(m + 1 + x) < First(m + 1 + y)
      <4>1. Ends(m + 1 + x + 1) <= Ends(m + 1 + y)
        BY <1>1, <3>1, EndsOrder
      <4>2. Ends(m + 1 + x) \in Nat /\ Ends(m + 1 + x + 1) = Ends(m + 1 + x) + Mss
            /\ First(m + 1 + x) = Ends(m + 1 + x) + 1
        BY m + 1 + x \in Nat, <1>1, EndsType
      <4>3. Ends(m + 1 + y) \in Nat /\ First(m + 1 + y) = Ends(m + 1 + y) + 1
        BY m + 1 + y \in Nat, <1>1, EndsType
      <4> QED
        BY <4>1, <4>2, <4>3, MssType
    <3>2. First(m + 1 + i) \in Nat /\ First(m + 1 + j) \in Nat
      BY m + 1 + i \in Nat, m + 1 + j \in Nat, <1>1, EndsType
    <3>3. i < j \/ j < i
      BY <2>2, <1>1
    <3>4. f[i] = First(m + 1 + i) /\ f[j] = First(m + 1 + j)
      OBVIOUS
    <3> QED
      BY <3>1, <3>2, <3>3, <3>4
  <2>3. f \in Injection(0 .. N, R)
    BY <2>1, <2>2 DEF Injection, IsInjective
  <2>4. Cardinality(0 .. N) <= N
    BY <2>3, FS_Injection
  <2>5. Cardinality(0 .. N) = N + 1
    <3>1. 0 \in Int /\ N \in Int
      BY <1>1
    <3> QED
      BY <1>1, <3>1, FS_Interval
  <2> QED
    BY <2>4, <2>5, <1>1
<1>3. Gaps \subseteq Nat
  BY <1>1
<1>4. \E j \in Gaps : \A i \in Gaps : j <= i
  BY <1>2, <1>3, Least
<1> QED
  BY <1>4

LEMMA CumAfterSyn ==
    ASSUME NEW k, SinkOk(k), NEW p, p = Syn
    PROVE  CumAfter(k, p) = IF k.cum = 0 THEN 1 ELSE k.cum
<1>1. p.size = 1 /\ p.seq = 1
  BY DEF Syn
<1>2. CASE k.cum = 0
  <2> DEFINE Gaps == {j \in 0 .. Cardinality(k.received) :
                        k.cum + p.size + j * p.size + 1 \notin k.received}
             taken == CHOOSE j \in Gaps : \A i \in Gaps : j <= i
  <2>1. k.received = {} /\ Cardinality({}) = 0
    BY <1>2, FS_EmptySet DEF SinkOk
  <2>2. Gaps = {0}
    BY <2>1, <1>1, <1>2
  <2>3. taken = 0
    BY <2>2
  <2>4. CumAfter(k, p) = k.cum + p.size + taken * p.size
    BY <1>1, <1>2 DEF CumAfter
  <2> HIDE DEF Gaps, taken
  <2> QED
    BY <1>1, <1>2, <2>3, <2>4
<1>3. CASE k.cum \in Boundaries
  <2>1. k.cum \in Nat /\ k.cum >= 1
    BY <1>3, EndsType DEF Boundaries
  <2> QED
    BY <1>1, <2>1 DEF CumAfter
<1> QED
  BY <1>2, <1>3 DEF SinkOk

LEMMA CumAfterPacket ==
    ASSUME NEW k, SinkOk(k), NEW p \in Packets, NEW m \in Nat,
           k.cum = Ends(m), p.seq = First(m)
    PROVE  \E j \in Nat : /\ CumAfter(k, p) = Ends(m + 1 + j)
                          /\ \A i \in Nat : i < j => First(m + 1 + i) \in k.received
<1> DEFINE next == k.cum + p.size
           N == Cardinality(k.received)
           Gaps == {j \in 0 .. N : next + j * p.size + 1 \notin k.received}
           taken == CHOOSE j \in Gaps : \A i \in Gaps : j <= i
<1>1. N \in Nat
  BY FS_CardinalityType DEF SinkOk
<1>2. p.size = Mss /\ p.seq = k.cum + 1
  BY EndsType DEF Packets
<1>3. ASSUME NEW j \in Nat PROVE /\ next + j * p.size = Ends(m + 1 + j)
                                /\ next + j * p.size + 1 = First(m + 1 + j)
  <2>1. next + j * p.size = Ends(m + 1 + j)
    BY <1>2, EndsNext
  <2>2. First(m + 1 + j) = Ends(m + 1 + j) + 1
    BY m + 1 + j \in Nat, EndsType
  <2> QED
    BY <2>1, <2>2
<1>4. Gaps = {j \in 0 .. N : First(m + 1 + j) \notin k.received}
  BY <1>1, <1>3
<1>5. \E j \in Gaps : \A i \in Gaps : j <= i
  <2> HIDE DEF Gaps
  <2>1. PICK j \in 0 .. N : /\ First(m + 1 + j) \notin k.received
             /\ \A i \in 0 .. N : First(m + 1 + i) \notin k.received => j <= i
    BY GapExists DEF SinkOk
  <2> QED
    BY <2>1, <1>4
<1>6. taken \in Gaps /\ \A i \in Gaps : taken <= i
  <2> HIDE DEF Gaps
  <2> QED
    BY <1>5
<1>7. CumAfter(k, p) = next + taken * p.size
  BY <1>2 DEF CumAfter
<1> HIDE DEF taken, Gaps, next, N
<1>8. taken \in Nat /\ taken <= N
  BY <1>6, <1>1 DEF Gaps
<1>9. ASSUME NEW i \in Nat, i < taken PROVE First(m + 1 + i) \in k.received
  BY <1>1, <1>4, <1>6, <1>8, <1>9
<1> QED
  BY <1>3, <1>7, <1>8, <1>9

\* The cumulative ack after a packet: it ends a packet, is not below the last
\* one, and all up to it has arrived.
LEMMA CumAfterBacked ==
    ASSUME NEW k, SinkOk(k), NEW p, p = Syn \/ (p \in Packets /\ k.cum >= 1)
    PROVE  /\ CumAfter(k, p) \in Boundaries
           /\ k.cum <= CumAfter(k, p)
           /\ 1 \in k.arrived \union {p.seq}
           /\ \A i \in Nat : First(i) <= CumAfter(k, p) => First(i) \in k.arrived \union {p.seq}
<1>1. CASE p = Syn /\ k.cum = 0
  <2>1. CumAfter(k, p) = Ends(0) /\ Ends(0) = 1 /\ p.seq = 1
    BY <1>1, CumAfterSyn, EndsZero DEF Syn
  <2>2. ASSUME NEW i \in Nat PROVE First(i) \in Nat /\ First(i) > 1
    BY EndsType
  <2> QED
    <3>1. k.cum <= 1 /\ 1 \in Boundaries
      BY <1>1, <2>1 DEF Boundaries
    <3> QED
      BY <1>1, <2>1, <2>2, <3>1
<1>2. CASE p = Syn /\ k.cum \in Boundaries
  <2>1. k.cum \in Nat /\ k.cum >= 1
    BY <1>2, EndsType DEF Boundaries
  <2> QED
    <3>1. CumAfter(k, p) = k.cum
      BY <1>2, <2>1, CumAfterSyn
    <3>2. 1 \in k.arrived /\ \A i \in Nat : First(i) <= k.cum => First(i) \in k.arrived
      BY <2>1 DEF SinkOk
    <3> QED
      BY <1>2, <2>1, <3>1, <3>2
<1>3. CASE p \in Packets /\ k.cum >= 1 /\ p.seq # k.cum + 1
  <2>1. k.cum \in Boundaries
    BY <1>3 DEF SinkOk
  <2>2. k.cum \in Nat
    BY <2>1, EndsType DEF Boundaries
  <2>3. CumAfter(k, p) = k.cum
    BY <1>3 DEF CumAfter
  <2> QED
    BY <1>3, <2>1, <2>2, <2>3 DEF SinkOk
<1>4. CASE p \in Packets /\ k.cum >= 1 /\ p.seq = k.cum + 1
  <2>1. PICK m \in Nat : k.cum = Ends(m)
    BY <1>4 DEF SinkOk, Boundaries
  <2>2. p.seq = First(m)
    BY <1>4, <2>1, EndsType
  <2>3. PICK j \in Nat : /\ CumAfter(k, p) = Ends(m + 1 + j)
                         /\ \A i \in Nat : i < j => First(m + 1 + i) \in k.received
    BY <1>4, <2>1, <2>2, CumAfterPacket
  <2>4. m + 1 + j \in Nat /\ m < m + 1 + j
    OBVIOUS
  <2>5. Ends(m) \in Nat /\ Ends(m + 1) = Ends(m) + Mss /\ Ends(m + 1) <= Ends(m + 1 + j)
    BY <2>4, EndsType, EndsOrder
  <2>6. Ends(m + 1 + j) \in Nat
    BY <2>4, EndsType
  <2>7. ASSUME NEW i \in Nat, First(i) <= Ends(m + 1 + j)
        PROVE First(i) \in k.arrived \union {p.seq}
    <3>1. Ends(i) \in Nat /\ First(i) = Ends(i) + 1
      BY EndsType
    <3>2. CASE i < m
      <4>1. Ends(i + 1) <= Ends(m) /\ Ends(i + 1) = Ends(i) + Mss
        BY <3>2, EndsOrder, EndsType
      <4> QED
        BY <2>1, <2>5, <3>1, <4>1, MssType DEF SinkOk
    <3>3. CASE i = m
      BY <2>2, <3>3
    <3>4. CASE m < i /\ i < m + 1 + j
      <4>1. i - m - 1 \in Nat /\ i - m - 1 < j /\ m + 1 + (i - m - 1) = i
        BY <3>4
      <4>2. First(i) \in k.received
        BY <2>3, <4>1
      <4> QED
        BY <4>2 DEF SinkOk
    <3>5. CASE i >= m + 1 + j
      <4>1. Ends(m + 1 + j) <= Ends(i)
        <5>1. CASE i = m + 1 + j
          BY <5>1, <2>6
        <5>2. CASE m + 1 + j < i
          <6>1. Ends(m + 1 + j + 1) <= Ends(i) /\ Ends(m + 1 + j + 1) = Ends(m + 1 + j) + Mss
            BY <2>4, <5>2, EndsOrder, EndsType
          <6> QED
            BY <2>6, <3>1, <6>1, MssType
        <5> QED
          BY <3>5, <5>1, <5>2
      <4> QED
        BY <2>6, <2>7, <3>1, <4>1
    <3> QED
      BY <3>2, <3>3, <3>4, <3>5
  <2>8. k.cum <= CumAfter(k, p) /\ CumAfter(k, p) \in Boundaries
    BY <2>1, <2>3, <2>4, <2>5, <2>6, MssType DEF Boundaries
  <2>9. 1 \in k.arrived
    BY <1>4 DEF SinkOk
  <2> QED
    BY <2>3, <2>7, <2>8, <2>9
<1> QED
  BY <1>1, <1>2, <1>3, <1>4 DEF SinkOk

LEMMA SinkTakes ==
    ASSUME NEW k, SinkOk(k), NEW p, p = Syn \/ (p \in Packets /\ k.cum >= 1),
           NEW have, have = IF p.seq > k.cum + 1 THEN k.received \union {p.seq} ELSE k.received,
           NEW t, t = [cum |-> CumAfter(k, p), received |-> {n \in have : n > CumAfter(k, p)},
                       arrived |-> k.arrived \union {p.seq}]
    PROVE  SinkOk(t) /\ t.cum \in Boundaries /\ k.cum <= t.cum
<1>1. /\ t.cum = CumAfter(k, p)
      /\ t.received = {n \in have : n > CumAfter(k, p)}
      /\ t.arrived = k.arrived \union {p.seq}
  OBVIOUS
<1>2. t.cum \in Nat /\ t.cum >= 1
  BY <1>1, CumAfterBacked, EndsType DEF Boundaries
<1>3. IsFiniteSet(t.received)
  <2>1. IsFiniteSet(have)
    <3>1. IsFiniteSet(k.received)
      BY DEF SinkOk
    <3>2. IsFiniteSet(k.received \union {p.seq})
      BY <3>1, FS_AddElement
    <3> QED
      BY <3>1, <3>2
  <2>2. t.received \subseteq have
    BY <1>1
  <2> QED
    BY <2>1, <2>2, FS_Subset
<1>4. t.received \subseteq {First(i) : i \in Nat} \intersect t.arrived
  <2>1. k.received \subseteq {First(i) : i \in Nat} \intersect k.arrived
    BY DEF SinkOk
  <2>2. CASE p = Syn
    <3>1. p.seq = 1
      BY <2>2 DEF Syn
    <3>2. k.cum \in Nat
      BY EndsType DEF SinkOk, Boundaries
    <3> QED
      BY <1>1, <2>1, <3>1, <3>2
  <2>3. CASE p \in Packets
    BY <1>1, <2>1, <2>3 DEF Packets
  <2> QED
    BY <2>2, <2>3
<1> QED
  BY <1>1, <1>2, <1>3, <1>4, CumAfterBacked DEF SinkOk

-----------------------------------------------------------------------------
(* The source.                                                              *)

SrcType ==
    [kind : {"tcp", "dctcp"}, active : {TRUE}, established : BOOLEAN, highest : Nat,
     acked : Nat, cwnd : Nat, ssthresh : Nat \ {0}, dupacks : Nat, recoverq : Nat,
     fast : BOOLEAN, timer : BOOLEAN, pending : BOOLEAN, exited : {"no"}]

\* Between two calls of the source: the sequence numbers end packets.
Aligned(s) ==
    /\ s \in SrcType /\ s.cwnd > 0
    /\ s.acked <= s.highest
    /\ IF s.established THEN s.acked \in Boundaries /\ s.highest \in Boundaries
                        ELSE s.acked = 0 /\ s.highest \in {0, 1}

\* And the parts that the theorems are about: what fast recovery waits for is
\* outstanding, and what is outstanding has a timer.  A pending timeout counts
\* only when it will find the connection established: it does not arm the timer
\* for a SYN.  A timeout before that finds the SYN out, as retransmit_packet asserts.
Safe(s) ==
    /\ Aligned(s)
    /\ s.fast => s.acked <= s.recoverq /\ s.recoverq <= s.highest
    /\ s.highest > s.acked => s.timer \/ (s.pending /\ s.established)
    /\ ~s.established => ((s.timer \/ s.pending) => s.highest = 1)

\* What a source may send.
Sendable(established) == {Syn} \union (IF established THEN Packets ELSE {})

\* A call that leaves a safe source and sends something; it changes nothing
\* of t that others rely on.
SafeCall(r, t) ==
    /\ Safe(r.s)
    /\ r.s.established = t.established /\ r.s.acked = t.acked /\ r.s.pending = t.pending
    /\ r.out \in Seq(Sendable(t.established))

LEMMA BoundariesNat == Boundaries \subseteq Nat \ {0}
BY EndsType DEF Boundaries

LEMMA SmallerLarger ==
    ASSUME NEW a \in Int, NEW b \in Int
    PROVE  /\ Smaller(a, b) \in {a, b} /\ Smaller(a, b) <= a /\ Smaller(a, b) <= b
           /\ Larger(a, b) \in {a, b} /\ Larger(a, b) >= a /\ Larger(a, b) >= b
BY DEF Smaller, Larger

\* Segments from a boundary on.
LEMMA SegmentsFrom ==
    ASSUME NEW h \in Boundaries, NEW n \in Nat
    PROVE  /\ h + n * Mss \in Boundaries /\ h <= h + n * Mss
           /\ [i \in 1 .. n |-> Segment(h + 1 + (i - 1) * Mss)] \in Seq(Packets)
<1>1. PICK k \in Nat : h = Ends(k)
  BY DEF Boundaries
<1>2. h \in Nat /\ n * Mss \in Nat
  BY BoundariesNat, MssType
<1>3. h + n * Mss = Ends(k + n) /\ k + n \in Nat
  BY <1>1, MssType DEF Ends
<1>4. ASSUME NEW i \in 1 .. n PROVE Segment(h + 1 + (i - 1) * Mss) \in Packets
  <2>1. k + (i - 1) \in Nat
    OBVIOUS
  <2>2. h + 1 + (i - 1) * Mss = First(k + (i - 1))
    BY <1>1, MssType DEF Ends, First
  <2> QED
    BY <2>1, <2>2 DEF Segment, Packets
<1>5. [i \in 1 .. n |-> Segment(h + 1 + (i - 1) * Mss)] \in Seq(Packets)
  BY <1>4
<1> QED
  BY <1>2, <1>3, <1>5 DEF Boundaries

LEMMA SegmentAfter ==
    ASSUME NEW h \in Boundaries
    PROVE  Segment(h + 1) \in Packets
<1>1. PICK k \in Nat : h = Ends(k)
  BY DEF Boundaries
<1>2. First(k) = h + 1
  BY <1>1, EndsType
<1> QED
  BY <1>2 DEF Segment, Packets

LEMMA SendPacketsSafe ==
    ASSUME NEW s, Safe(s)
    PROVE  SafeCall(SendPackets(s), s)
<1>1. CASE ~s.established
  <2> DEFINE t == [s EXCEPT !.highest = 1, !.timer = TRUE]
  <2>1. SendPackets(s) = Sent(t, <<Syn>>)
    <3>1. Armed([s EXCEPT !.highest = 1]) = t
      BY DEF Armed, Safe, Aligned, SrcType
    <3> QED
      BY <1>1, <3>1 DEF SendPackets
  <2>2. Safe(t) /\ t.established = s.established /\ t.acked = s.acked /\ t.pending = s.pending
    <3>1. t \in SrcType
      BY DEF Safe, Aligned, SrcType
    <3>2. /\ t.highest = 1 /\ t.timer /\ t.acked = s.acked /\ t.cwnd = s.cwnd
          /\ t.established = s.established /\ t.fast = s.fast /\ t.recoverq = s.recoverq
          /\ t.pending = s.pending
      BY DEF Safe, Aligned, SrcType
    <3>3. s.acked = 0 /\ s.highest \in {0, 1} /\ s.cwnd > 0
          /\ (s.fast => s.acked <= s.recoverq /\ s.recoverq <= s.highest) /\ s.recoverq \in Nat
      BY <1>1 DEF Safe, Aligned, SrcType
    <3> HIDE DEF t
    <3> QED
      BY <1>1, <3>1, <3>2, <3>3 DEF Safe, Aligned
  <2>3. <<Syn>> \in Seq(Sendable(s.established))
    BY DEF Sendable
  <2> HIDE DEF t
  <2> QED
    BY <2>1, <2>2, <2>3 DEF SafeCall, Sent
<1>2. CASE s.established
  <2> DEFINE n == Larger(0, Smaller((s.acked + s.cwnd - s.highest) \div Mss,
                                    (FlowSize + 1 - s.highest) \div Mss))
             h == s.highest + n * Mss
             out == [i \in 1 .. n |-> Segment(s.highest + 1 + (i - 1) * Mss)]
             t == IF n = 0 THEN s ELSE [s EXCEPT !.highest = h, !.timer = TRUE]
  <2>1. SendPackets(s) = Sent(t, out)
    <3>1. Armed([s EXCEPT !.highest = h]) = [s EXCEPT !.highest = h, !.timer = TRUE]
      BY DEF Armed, Safe, Aligned, SrcType
    <3>2. [s EXCEPT !.highest = @ + n * Mss] = [s EXCEPT !.highest = h]
      OBVIOUS
    <3> QED
      BY <1>2, <3>1, <3>2 DEF SendPackets
  <2>2. n \in Nat
    <3>1. /\ (s.acked + s.cwnd - s.highest) \div Mss \in Int
          /\ (FlowSize + 1 - s.highest) \div Mss \in Int
      BY MssType, TcpAssumption DEF Safe, Aligned, SrcType
    <3>2. Smaller((s.acked + s.cwnd - s.highest) \div Mss,
                  (FlowSize + 1 - s.highest) \div Mss) \in Int
      BY <3>1 DEF Smaller
    <3> QED
      BY <3>2 DEF Larger
  <2>3. s.highest \in Boundaries
    BY <1>2 DEF Safe, Aligned
  <2> HIDE DEF n
  <2>4. h \in Boundaries /\ s.highest <= h /\ out \in Seq(Packets)
    BY <2>2, <2>3, SegmentsFrom
  <2>5. h \in Nat
    BY <2>4, BoundariesNat
  <2> HIDE DEF h, out
  <2>6. Safe(t) /\ t.established = s.established /\ t.acked = s.acked /\ t.pending = s.pending
    <3>1. t \in SrcType
      BY <2>5 DEF Safe, Aligned, SrcType
    <3>2. CASE n # 0
      <4>1. /\ t.highest = h /\ t.timer /\ t.acked = s.acked /\ t.cwnd = s.cwnd
            /\ t.established = s.established /\ t.fast = s.fast /\ t.recoverq = s.recoverq
            /\ t.pending = s.pending
          /\ t.pending = s.pending
        BY <3>2 DEF Safe, Aligned, SrcType
      <4>2. /\ s.acked <= s.highest /\ s.acked \in Boundaries /\ s.cwnd > 0
            /\ s.acked \in Nat /\ s.highest \in Nat /\ s.recoverq \in Nat
            /\ (s.fast => s.acked <= s.recoverq /\ s.recoverq <= s.highest)
        BY <1>2 DEF Safe, Aligned, SrcType
      <4> HIDE DEF t
      <4> QED
        BY <1>2, <2>4, <2>5, <3>1, <4>1, <4>2 DEF Safe, Aligned
    <3>3. CASE n = 0
      BY <3>3
    <3> QED
      BY <3>2, <3>3
  <2>7. out \in Seq(Sendable(s.established))
    BY <1>2, <2>4 DEF Sendable
  <2> HIDE DEF t
  <2> QED
    BY <2>1, <2>6, <2>7 DEF SafeCall, Sent
<1> QED
  BY <1>1, <1>2

\* retransmit_packet, from any state between two packets.
LEMMA RetransmitSends ==
    ASSUME NEW s, Aligned(s), ~s.established => s.highest = 1
    PROVE  /\ Retransmit(s).s = IF s.established THEN [s EXCEPT !.timer = TRUE] ELSE s
           /\ Retransmit(s).out \in Seq(Sendable(s.established))
<1>1. CASE ~s.established
  <2>1. <<Syn>> \in Seq(Sendable(s.established))
    BY DEF Sendable
  <2> QED
    BY <1>1, <2>1 DEF Retransmit, Sent
<1>2. CASE s.established
  <2>1. Segment(s.acked + 1) \in Packets
    BY <1>2, SegmentAfter DEF Aligned
  <2>2. <<Segment(s.acked + 1)>> \in Seq(Sendable(s.established))
    BY <1>2, <2>1 DEF Sendable
  <2> QED
    BY <1>2, <2>2 DEF Retransmit, Sent, Armed
<1>3. s.established \in BOOLEAN
  BY DEF Aligned, SrcType
<1> QED
  BY <1>1, <1>2, <1>3

\* Setting the timer, the window and the counters leaves a source safe.
LEMMA TimerSet ==
    ASSUME NEW s, Safe(s), s.established = TRUE
    PROVE  Safe([s EXCEPT !.timer = TRUE])
<1> DEFINE t == [s EXCEPT !.timer = TRUE]
<1>1. /\ t \in SrcType
      /\ t.highest = s.highest /\ t.acked = s.acked /\ t.cwnd = s.cwnd
      /\ t.established = s.established /\ t.fast = s.fast /\ t.recoverq = s.recoverq
      /\ t.timer
  BY DEF Safe, Aligned, SrcType
<1> HIDE DEF t
<1>2. Safe(t)
  BY <1>1 DEF Safe, Aligned
<1> QED
  BY <1>2 DEF t

LEMMA WindowSet ==
    ASSUME NEW s, Safe(s), NEW c \in Nat \ {0}, NEW b \in Nat \ {0}, NEW d \in Nat
    PROVE  Safe([s EXCEPT !.cwnd = c, !.ssthresh = b, !.dupacks = d])
<1> DEFINE t == [s EXCEPT !.cwnd = c, !.ssthresh = b, !.dupacks = d]
<1>1. /\ t \in SrcType
      /\ t.highest = s.highest /\ t.acked = s.acked /\ t.cwnd = c
      /\ t.established = s.established /\ t.fast = s.fast /\ t.recoverq = s.recoverq
      /\ t.timer = s.timer /\ t.pending = s.pending
  BY DEF Safe, Aligned, SrcType
<1> HIDE DEF t
<1>2. Safe(t)
  BY <1>1 DEF Safe, Aligned
<1> QED
  BY <1>2 DEF t

LEMMA RetransmitSafe ==
    ASSUME NEW s, Safe(s), s.established = TRUE
    PROVE  SafeCall(Retransmit(s), s)
<1>1. Aligned(s)
  BY DEF Safe
<1>2. /\ Safe(Retransmit(s).s) /\ Retransmit(s).s.established = s.established
      /\ Retransmit(s).s.acked = s.acked /\ Retransmit(s).s.pending = s.pending
  <2>1. /\ [s EXCEPT !.timer = TRUE].established = s.established
        /\ [s EXCEPT !.timer = TRUE].acked = s.acked
        /\ [s EXCEPT !.timer = TRUE].pending = s.pending
    BY DEF Safe, Aligned, SrcType
  <2> QED
    BY <1>1, <2>1, RetransmitSends, TimerSet
<1> QED
  BY <1>1, <1>2, RetransmitSends DEF SafeCall

LEMMA SendableJoin ==
    ASSUME NEW b \in BOOLEAN, NEW x \in Seq(Sendable(b)), NEW y \in Seq(Sendable(b))
    PROVE  x \o y \in Seq(Sendable(b))
OBVIOUS

LEMMA RetransmitAndSendSafe ==
    ASSUME NEW s, Safe(s), s.established = TRUE
    PROVE  SafeCall(RetransmitAndSend(s), s)
<1> DEFINE r == Retransmit(s)
           t == SendPackets(r.s)
<1>1. SafeCall(r, s)
  BY RetransmitSafe
<1>2. SafeCall(t, s)
  BY <1>1, SendPacketsSafe DEF SafeCall
<1>3. s.established \in BOOLEAN
  BY DEF Safe, Aligned, SrcType
<1>4. RetransmitAndSend(s) = Sent(t.s, r.out \o t.out)
  BY DEF RetransmitAndSend
<1> HIDE DEF r, t
<1>5. r.out \o t.out \in Seq(Sendable(s.established))
  BY <1>1, <1>2, <1>3, SendableJoin DEF SafeCall
<1> QED
  BY <1>2, <1>4, <1>5 DEF SafeCall, Sent

-----------------------------------------------------------------------------
(* Windows.                                                                 *)

LEMMA DeflateSets ==
    ASSUME NEW s \in SrcType
    PROVE  \E b \in Nat \ {0} : Deflate(s) = [s EXCEPT !.ssthresh = b]
<1>1. s.cwnd \div 2 \in Nat /\ 2 * Mss \in Nat /\ 2 * Mss > 0
  BY MssType DEF SrcType
<1>2. Larger(s.cwnd \div 2, 2 * Mss) \in Nat \ {0}
  BY <1>1 DEF Larger
<1> QED
  BY <1>2 DEF Deflate

LEMMA QuotientNat ==
    ASSUME NEW a \in Nat, NEW b \in Nat \ {0}
    PROVE  a \div b \in Nat
OBVIOUS

LEMMA InflateSets ==
    ASSUME NEW s, Safe(s)
    PROVE  \E c \in Nat \ {0} : Inflate(s) = [s EXCEPT !.cwnd = c]
<1> DEFINE newly == Smaller(s.acked + s.cwnd - s.highest, Mss)
<1>1. s.cwnd \in Nat \ {0} /\ s.ssthresh \in Nat \ {0} /\ s.acked \in Nat /\ s.highest \in Nat
  BY DEF Safe, Aligned, SrcType
<1>2. newly \in Int
  BY <1>1, MssType DEF Smaller
<1>3. Inflate(s) = IF newly < 0 THEN s
                   ELSE IF s.cwnd < s.ssthresh
                     THEN [s EXCEPT !.cwnd = s.cwnd + Smaller(s.ssthresh - s.cwnd, newly)]
                     ELSE [s EXCEPT !.cwnd = s.cwnd + (newly * Mss) \div s.cwnd]
  BY DEF Inflate, Safe, Aligned, SrcType
<1> HIDE DEF newly
<1>4. CASE newly < 0
  <2>1. s = [s EXCEPT !.cwnd = s.cwnd]
    BY DEF Safe, Aligned, SrcType
  <2> QED
    BY <1>1, <1>3, <1>4, <2>1
<1>5. CASE newly >= 0 /\ s.cwnd < s.ssthresh
  <2>1. Smaller(s.ssthresh - s.cwnd, newly) \in Nat
    BY <1>1, <1>2, <1>5 DEF Smaller
  <2>2. s.cwnd + Smaller(s.ssthresh - s.cwnd, newly) \in Nat \ {0}
    BY <1>1, <2>1
  <2> QED
    BY <1>2, <1>3, <1>5, <2>2
<1>6. CASE newly >= 0 /\ ~(s.cwnd < s.ssthresh)
  <2>1. newly * Mss \in Nat
    BY <1>2, <1>6, MssType
  <2>2. s.cwnd + (newly * Mss) \div s.cwnd \in Nat \ {0}
    BY <1>1, <2>1, QuotientNat
  <2> QED
    BY <1>2, <1>3, <1>6, <2>2
<1> QED
  BY <1>2, <1>4, <1>5, <1>6

LEMMA EcnSets ==
    ASSUME NEW s, Safe(s), NEW t \in EcnUpdates(s)
    PROVE  \E c \in Nat \ {0}, b \in Nat \ {0} :
             t = [s EXCEPT !.cwnd = c, !.ssthresh = b, !.dupacks = s.dupacks]
<1>1. s.cwnd \in Nat \ {0} /\ s.ssthresh \in Nat \ {0} /\ s \in SrcType
  <2>1. s \in SrcType /\ s.cwnd > 0
    BY DEF Safe, Aligned
  <2>2. s.cwnd \in Nat /\ s.ssthresh \in Nat \ {0}
    BY <2>1 DEF SrcType
  <2> QED
    BY <2>1, <2>2
<1>2. \/ t = s
      \/ t = [s EXCEPT !.ssthresh = Smaller(s.ssthresh, s.cwnd)]
      \/ \E w \in s.cwnd \div 2 .. s.cwnd :
            t = [s EXCEPT !.cwnd = Larger(Mss, w), !.ssthresh = Larger(Mss, w)]
  BY DEF EcnUpdates
<1>3. CASE t = s
  <2>1. s = [s EXCEPT !.cwnd = s.cwnd, !.ssthresh = s.ssthresh, !.dupacks = s.dupacks]
    BY <1>1 DEF SrcType
  <2> USE <1>1
  <2> WITNESS s.cwnd \in Nat \ {0}, s.ssthresh \in Nat \ {0}
  <2> QED
    BY <1>3, <2>1
<1>4. CASE t = [s EXCEPT !.ssthresh = Smaller(s.ssthresh, s.cwnd)]
  <2> DEFINE b == Smaller(s.ssthresh, s.cwnd)
  <2>1. b \in Nat \ {0}
    BY <1>1 DEF Smaller
  <2> HIDE DEF b
  <2>2. [s EXCEPT !.ssthresh = b] = [s EXCEPT !.cwnd = s.cwnd, !.ssthresh = b, !.dupacks = s.dupacks]
    BY <1>1 DEF SrcType
  <2>3. t = [s EXCEPT !.ssthresh = b]
    BY <1>4 DEF b
  <2> USE <1>1, <2>1
  <2> WITNESS s.cwnd \in Nat \ {0}, b \in Nat \ {0}
  <2> QED
    BY <2>2, <2>3
<1>5. ASSUME NEW w \in s.cwnd \div 2 .. s.cwnd,
             t = [s EXCEPT !.cwnd = Larger(Mss, w), !.ssthresh = Larger(Mss, w)]
      PROVE  \E c \in Nat \ {0}, b \in Nat \ {0} :
               t = [s EXCEPT !.cwnd = c, !.ssthresh = b, !.dupacks = s.dupacks]
  <2> DEFINE c == Larger(Mss, w)
  <2>1. c \in Nat \ {0}
    BY <1>1, MssType DEF Larger
  <2> HIDE DEF c
  <2>2. [s EXCEPT !.cwnd = c, !.ssthresh = c]
          = [s EXCEPT !.cwnd = c, !.ssthresh = c, !.dupacks = s.dupacks]
    BY <1>1 DEF SrcType
  <2>3. t = [s EXCEPT !.cwnd = c, !.ssthresh = c]
    BY <1>5 DEF c
  <2> USE <2>1
  <2> WITNESS c \in Nat \ {0}, c \in Nat \ {0}
  <2> QED
    BY <2>2, <2>3
<1> QED
  BY <1>2, <1>3, <1>4, <1>5

-----------------------------------------------------------------------------
(* Acks.  An ack of new data finds the source safe, moves _last_acked and   *)
(* sets the timer for what is left.                                         *)

LEMMA CallsCompose ==
    ASSUME NEW t, NEW u, NEW r,
           u.established = t.established, u.acked = t.acked, u.pending = t.pending,
           SafeCall(r, u)
    PROVE  SafeCall(r, t)
BY DEF SafeCall

\* The source when ack a has been noted in q, before the window moves.
Noted(q, a) ==
    /\ q \in SrcType /\ q.cwnd > 0 /\ q.established
    /\ a \in Boundaries /\ q.highest \in Boundaries
    /\ q.acked < a /\ a <= q.highest
    /\ q.highest > a => q.timer
    /\ q.fast => q.recoverq <= q.highest

LEMMA AckOfNewSafe ==
    ASSUME NEW q, NEW a, Noted(q, a), ~q.fast
    PROVE  SafeCall(AckOfNew(q, a), [q EXCEPT !.acked = a])
<1> DEFINE t == [q EXCEPT !.acked = a, !.dupacks = 0]
<1>1. a \in Nat
  BY BoundariesNat DEF Noted
<1>2. /\ t \in SrcType /\ t.highest = q.highest /\ t.acked = a /\ t.cwnd = q.cwnd
      /\ t.established /\ t.established = q.established /\ t.timer = q.timer /\ ~t.fast
      /\ t.pending = q.pending
  BY <1>1 DEF Noted, SrcType
<1> HIDE DEF t
<1>3. Safe(t)
  BY <1>2 DEF Safe, Aligned, Noted
<1>4. PICK c \in Nat \ {0} : Inflate(t) = [t EXCEPT !.cwnd = c]
  BY <1>3, InflateSets
<1>5. [t EXCEPT !.cwnd = c] = [t EXCEPT !.cwnd = c, !.ssthresh = t.ssthresh, !.dupacks = t.dupacks]
      /\ t.ssthresh \in Nat \ {0} /\ t.dupacks \in Nat
  BY <1>2 DEF SrcType
<1>6. Safe(Inflate(t))
  <2>1. Safe([t EXCEPT !.cwnd = c, !.ssthresh = t.ssthresh, !.dupacks = t.dupacks])
    BY <1>3, <1>5, WindowSet
  <2> QED
    BY <1>4, <1>5, <2>1
<1>7. /\ Inflate(t).established = t.established /\ Inflate(t).acked = t.acked
      /\ Inflate(t).pending = t.pending
  BY <1>2, <1>4 DEF SrcType
<1>8. SafeCall(SendPackets(Inflate(t)), Inflate(t))
  BY <1>6, SendPacketsSafe
<1>9. /\ [q EXCEPT !.acked = a].established = q.established
      /\ [q EXCEPT !.acked = a].acked = a /\ [q EXCEPT !.acked = a].pending = q.pending
  BY DEF Noted, SrcType
<1>10. AckOfNew(q, a) = SendPackets(Inflate(t))
  BY DEF AckOfNew, t
<1> QED
  BY <1>2, <1>7, <1>8, <1>9, <1>10, CallsCompose

LEMMA EndRecoverySafe ==
    ASSUME NEW q, NEW a, Noted(q, a)
    PROVE  SafeCall(EndRecovery(q, a), [q EXCEPT !.acked = a])
<1> DEFINE c == Smaller(q.ssthresh, q.highest - a + Mss)
           t == [q EXCEPT !.cwnd = c, !.acked = a, !.dupacks = 0, !.fast = FALSE]
<1>1. a \in Nat /\ q.highest \in Nat
  BY BoundariesNat DEF Noted
<1>2. c \in Nat \ {0}
  BY <1>1, MssType DEF Noted, SrcType, Smaller
<1> HIDE DEF c
<1>3. /\ t \in SrcType /\ t.highest = q.highest /\ t.acked = a /\ t.cwnd = c
      /\ t.established /\ t.established = q.established /\ t.timer = q.timer /\ ~t.fast
      /\ t.pending = q.pending
  BY <1>1, <1>2 DEF Noted, SrcType
<1> HIDE DEF t
<1>4. Safe(t)
  BY <1>2, <1>3 DEF Safe, Aligned, Noted
<1>5. SafeCall(SendPackets(t), t)
  BY <1>4, SendPacketsSafe
<1>6. /\ [q EXCEPT !.acked = a].established = q.established
      /\ [q EXCEPT !.acked = a].acked = a /\ [q EXCEPT !.acked = a].pending = q.pending
  BY DEF Noted, SrcType
<1> QED
  BY <1>3, <1>5, <1>6, CallsCompose DEF EndRecovery, t, c

LEMMA PartialAckSafe ==
    ASSUME NEW q, NEW a, Noted(q, a), a < q.recoverq
    PROVE  SafeCall(PartialAck(q, a), [q EXCEPT !.acked = a])
<1> DEFINE new == a - q.acked
           c == (IF new < q.cwnd THEN q.cwnd - new ELSE 0) + Mss
           t == [q EXCEPT !.acked = a, !.cwnd = c]
<1>1. a \in Nat /\ q.highest \in Nat
  BY BoundariesNat DEF Noted
<1>2. c \in Nat \ {0}
  BY <1>1, MssType DEF Noted, SrcType
<1>3. PartialAck(q, a) = RetransmitAndSend(t)
  BY DEF PartialAck, Noted, SrcType
<1> HIDE DEF c, new
<1>4. /\ t \in SrcType /\ t.highest = q.highest /\ t.acked = a /\ t.cwnd = c
      /\ t.established /\ t.established = q.established /\ t.timer = q.timer
      /\ t.pending = q.pending /\ t.fast = q.fast /\ t.recoverq = q.recoverq
      /\ t.recoverq \in Nat
  BY <1>1, <1>2 DEF Noted, SrcType
<1> HIDE DEF t
<1>5. Safe(t)
  BY <1>1, <1>2, <1>4 DEF Safe, Aligned, Noted
<1>6. SafeCall(RetransmitAndSend(t), t)
  BY <1>4, <1>5, RetransmitAndSendSafe
<1>7. /\ [q EXCEPT !.acked = a].established = q.established
      /\ [q EXCEPT !.acked = a].acked = a /\ [q EXCEPT !.acked = a].pending = q.pending
  BY DEF Noted, SrcType
<1> QED
  BY <1>3, <1>4, <1>6, <1>7, CallsCompose

\* An ack a of new data.
LEMMA NewAckSafe ==
    ASSUME NEW s, Safe(s), NEW a \in Boundaries, s.acked < a,
           ~s.established => a = 1,
           NEW e, e = [s EXCEPT !.established = TRUE]
    PROVE  SafeCall(NewAck(e, a), [e EXCEPT !.acked = a])
<1> DEFINE h == Larger(s.highest, a)
           left == a < s.highest
           q == [e EXCEPT !.timer = left, !.highest = h]
<1>1. /\ s \in SrcType /\ s.cwnd > 0 /\ s.highest \in Nat /\ s.acked \in Nat /\ s.recoverq \in Nat
      /\ s.acked <= s.highest /\ (s.fast => s.recoverq <= s.highest)
  BY DEF Safe, Aligned, SrcType
<1>2. a \in Nat /\ 1 \in Boundaries
  BY BoundariesNat, EndsZero, 0 \in Nat DEF Boundaries
<1>3. h \in Boundaries /\ h \in Nat /\ h >= s.highest /\ h >= a /\ (s.highest <= a => h = a)
      /\ (a < s.highest => h = s.highest)
  <2>1. h \in {s.highest, a} /\ h >= s.highest /\ h >= a /\ (s.highest <= a => h = a)
        /\ (a < s.highest => h = s.highest)
    BY <1>1, <1>2 DEF Larger
  <2>2. s.highest \in {0, 1} \/ s.highest \in Boundaries
    BY DEF Safe, Aligned
  <2>3. a >= 1
    BY <1>2, BoundariesNat
  <2> HIDE DEF h
  <2> QED
    BY <1>1, <1>2, <2>1, <2>2, <2>3
<1>30. left \in BOOLEAN /\ (left <=> a < s.highest) /\ left = (a < e.highest)
  BY <1>1 DEF SrcType
<1> HIDE DEF h, left
<1>31. /\ e \in SrcType /\ e.established /\ e.highest = s.highest
       /\ e.acked = s.acked /\ e.cwnd = s.cwnd /\ e.fast = s.fast /\ e.recoverq = s.recoverq
       /\ e.pending = s.pending
  BY <1>1 DEF SrcType
<1>4. /\ q \in SrcType /\ q.highest = h /\ q.timer = left /\ q.established
      /\ q.acked = s.acked /\ q.cwnd = s.cwnd /\ q.fast = s.fast /\ q.recoverq = s.recoverq
      /\ q.pending = s.pending
  BY <1>3, <1>30, <1>31 DEF SrcType
<1>5. [q EXCEPT !.acked = a].established = e.established
      /\ [q EXCEPT !.acked = a].acked = a /\ [q EXCEPT !.acked = a].pending = e.pending
      /\ [e EXCEPT !.acked = a].established = e.established
      /\ [e EXCEPT !.acked = a].acked = a /\ [e EXCEPT !.acked = a].pending = e.pending
  BY <1>4, <1>31 DEF SrcType
<1>6. NewAck(e, a) = IF ~q.fast THEN AckOfNew(q, a)
                     ELSE IF a >= q.recoverq THEN EndRecovery(q, a) ELSE PartialAck(q, a)
  <2>1. Larger(e.highest, a) = h
    BY <1>31 DEF h
  <2>2. [e EXCEPT !.timer = a < e.highest, !.highest = Larger(e.highest, a)] = q
    BY <1>30, <2>1
  <2>3. NewAck(e, a) =
          LET n == [e EXCEPT !.timer = a < e.highest, !.highest = Larger(e.highest, a)]
          IN  IF ~n.fast THEN AckOfNew(n, a)
              ELSE IF a >= n.recoverq THEN EndRecovery(n, a) ELSE PartialAck(n, a)
    BY DEF NewAck
  <2> HIDE DEF q
  <2> QED
    BY <2>2, <2>3, Zenon
<1> HIDE DEF q
<1>7. Noted(q, a)
  BY <1>1, <1>2, <1>3, <1>30, <1>4 DEF Noted
<1>8. SafeCall(NewAck(e, a), [q EXCEPT !.acked = a])
  <2>1. CASE ~q.fast
    BY <1>6, <1>7, <2>1, AckOfNewSafe
  <2>2. CASE q.fast /\ a >= q.recoverq
    BY <1>6, <1>7, <2>2, EndRecoverySafe
  <2>3. CASE q.fast /\ ~(a >= q.recoverq)
    BY <1>1, <1>2, <1>4, <1>6, <1>7, <2>3, PartialAckSafe
  <2> QED
    BY <2>1, <2>2, <2>3
<1> QED
  BY <1>5, <1>8, CallsCompose

\* The third duplicate ack.
LEMMA FastRetransmitSafe ==
    ASSUME NEW s, Safe(s), s.established = TRUE
    PROVE  SafeCall(FastRetransmit(s), s)
<1>1. CASE s.acked < s.recoverq
  <2>1. FastRetransmit(s) = Sent(s, <<>>)
    BY <1>1 DEF FastRetransmit
  <2>2. <<>> \in Seq(Sendable(s.established))
    OBVIOUS
  <2> QED
    BY <2>1, <2>2 DEF SafeCall, Sent
<1>2. CASE ~(s.acked < s.recoverq)
  <2>1. s \in SrcType /\ s.recoverq \in Nat /\ s.acked \in Nat /\ s.highest \in Nat
        /\ s.acked <= s.highest
    BY DEF Safe, Aligned, SrcType
  <2>2. PICK b \in Nat \ {0} : Deflate(s) = [s EXCEPT !.ssthresh = b]
    BY <2>1, DeflateSets
  <2> DEFINE d == [s EXCEPT !.ssthresh = b]
             r == Retransmit(d)
             c == r.s.ssthresh + 3 * Mss
             t == [r.s EXCEPT !.cwnd = c, !.fast = TRUE, !.recoverq = s.highest]
  <2>3. d = [s EXCEPT !.cwnd = s.cwnd, !.ssthresh = b, !.dupacks = s.dupacks]
        /\ s.cwnd \in Nat /\ s.dupacks \in Nat
    BY <2>1 DEF SrcType
  <2>4. s.cwnd \in Nat \ {0}
    BY <2>3 DEF Safe, Aligned
  <2>5. Safe(d)
    <3>1. Safe([s EXCEPT !.cwnd = s.cwnd, !.ssthresh = b, !.dupacks = s.dupacks])
      BY <2>3, <2>4, WindowSet
    <3> HIDE DEF d
    <3> QED
      BY <2>3, <3>1
  <2>6. d.established = s.established /\ d.acked = s.acked /\ d.pending = s.pending
        /\ d.highest = s.highest /\ d \in SrcType
    BY <2>1 DEF SrcType
  <2>7. FastRetransmit(s) = Sent(t, r.out)
    BY <1>2, <2>2 DEF FastRetransmit
  <2> HIDE DEF d
  <2>8. SafeCall(r, d)
    BY <2>5, <2>6, RetransmitSafe
  <2>9. r.s.highest = d.highest
    BY <2>5, <2>6, RetransmitSends DEF Safe, SrcType
  <2> HIDE DEF r
  <2>10. c \in Nat \ {0}
    <3>1. r.s \in SrcType
      BY <2>8 DEF SafeCall, Safe, Aligned
    <3>2. r.s.ssthresh \in Nat \ {0}
      BY <3>1 DEF SrcType
    <3> QED
      BY <3>2, MssType
  <2> HIDE DEF c
  <2>11. /\ t \in SrcType /\ t.highest = r.s.highest /\ t.acked = r.s.acked /\ t.cwnd = c
         /\ t.established = r.s.established /\ t.timer = r.s.timer
         /\ t.pending = r.s.pending /\ t.fast /\ t.recoverq = s.highest
    BY <2>1, <2>8, <2>10 DEF SafeCall, Safe, Aligned, SrcType
  <2> HIDE DEF t
  <2>12. Safe(t)
    BY <2>1, <2>6, <2>8, <2>9, <2>10, <2>11 DEF SafeCall, Safe, Aligned
  <2> QED
    BY <2>6, <2>7, <2>8, <2>11, <2>12 DEF SafeCall, Sent
<1> QED
  BY <1>1, <1>2

LEMMA DupAckSafe ==
    ASSUME NEW s, Safe(s), s.established = TRUE
    PROVE  SafeCall(DupAck(s), s)
<1>1. s \in SrcType /\ s.cwnd > 0
  BY DEF Safe, Aligned
<1>2. s.cwnd \in Nat \ {0} /\ s.ssthresh \in Nat \ {0} /\ s.dupacks \in Nat
  <2>1. s.cwnd \in Nat /\ s.ssthresh \in Nat \ {0} /\ s.dupacks \in Nat
    BY <1>1 DEF SrcType
  <2> QED
    BY <1>1, <2>1
<1>3. CASE s.fast
  <2> DEFINE c == s.cwnd + Mss
             t == [s EXCEPT !.cwnd = c, !.ssthresh = s.ssthresh, !.dupacks = s.dupacks]
  <2>1. c \in Nat \ {0}
    BY <1>2, MssType
  <2>2. DupAck(s) = SendPackets([s EXCEPT !.cwnd = c])
    BY <1>3 DEF DupAck
  <2> HIDE DEF c
  <2>3. [s EXCEPT !.cwnd = c] = t /\ t.established = s.established /\ t.acked = s.acked
        /\ t.pending = s.pending
    BY <1>1 DEF SrcType
  <2>4. Safe(t)
    BY <1>2, <2>1, WindowSet
  <2> HIDE DEF t
  <2> QED
    BY <2>2, <2>3, <2>4, SendPacketsSafe, CallsCompose
<1>4. CASE ~s.fast
  <2> DEFINE d == s.dupacks + 1
             t == [s EXCEPT !.cwnd = s.cwnd, !.ssthresh = s.ssthresh, !.dupacks = d]
  <2>1. d \in Nat
    BY <1>2
  <2>2. DupAck(s) = LET q == [s EXCEPT !.dupacks = d]
                    IN  IF q.dupacks # 3 THEN SendPackets(q) ELSE FastRetransmit(q)
    BY <1>4 DEF DupAck
  <2> HIDE DEF d
  <2>3. [s EXCEPT !.dupacks = d] = t /\ t.established = s.established /\ t.acked = s.acked
        /\ t.pending = s.pending
    BY <1>1 DEF SrcType
  <2>4. Safe(t)
    BY <1>2, <2>1, WindowSet
  <2> HIDE DEF t
  <2>5. SafeCall(SendPackets(t), t) /\ SafeCall(FastRetransmit(t), t)
    BY <2>3, <2>4, SendPacketsSafe, FastRetransmitSafe
  <2>6. DupAck(s) = SendPackets(t) \/ DupAck(s) = FastRetransmit(t)
    BY <2>2, <2>3
  <2> QED
    BY <2>3, <2>5, <2>6, CallsCompose
<1> QED
  BY <1>3, <1>4

\* An ack, a step of the connection: the SYN's own ack establishes it.
LEMMA ReceiveAckSafe ==
    ASSUME NEW s, Safe(s), NEW a \in Boundaries, ~s.established => a = 1
    PROVE  /\ Safe(ReceiveAck(s, a).s)
           /\ ReceiveAck(s, a).s.established
           /\ ReceiveAck(s, a).s.acked \in {s.acked, a}
           /\ ReceiveAck(s, a).s.pending = s.pending
           /\ ReceiveAck(s, a).out \in Seq(Sendable(TRUE))
<1>1. s \in SrcType /\ s.acked \in Nat /\ a \in Nat /\ s.established \in BOOLEAN
  BY BoundariesNat DEF Safe, Aligned, SrcType
<1>2. ~s.established => s.acked = 0
  BY DEF Safe, Aligned
<1> DEFINE e == [s EXCEPT !.established = TRUE]
<1>3. e.acked = s.acked /\ e.established /\ e.pending = s.pending
  BY <1>1 DEF SrcType
<1>4. CASE a < s.acked
  <2>1. ReceiveAck(s, a) = Sent(s, <<>>)
    BY <1>4 DEF ReceiveAck
  <2>2. s.established
    BY <1>1, <1>2, <1>4
  <2>3. <<>> \in Seq(Sendable(TRUE))
    OBVIOUS
  <2> QED
    BY <2>1, <2>2, <2>3 DEF Sent
<1>5. CASE ~(a < s.acked)
  <2>1. (s.established \/ a = 1) = TRUE
    BY <1>1
  <2>2. ReceiveAck(s, a) = LET q == [s EXCEPT !.established = s.established \/ a = 1]
                           IN  IF a > q.acked THEN NewAck(q, a) ELSE DupAck(q)
    BY <1>5 DEF ReceiveAck
  <2>3. ReceiveAck(s, a) = IF a > e.acked THEN NewAck(e, a) ELSE DupAck(e)
    BY <2>1, <2>2
  <2>4. CASE a > s.acked
    <3>1. SafeCall(NewAck(e, a), [e EXCEPT !.acked = a])
      BY <1>1, <2>4, NewAckSafe
    <3>2. /\ [e EXCEPT !.acked = a].established = e.established
          /\ [e EXCEPT !.acked = a].acked = a /\ [e EXCEPT !.acked = a].pending = e.pending
      BY <1>1 DEF SrcType
    <3> HIDE DEF e
    <3>3. ReceiveAck(s, a) = NewAck(e, a)
      BY <1>3, <2>3, <2>4
    <3> QED
      BY <1>3, <3>1, <3>2, <3>3 DEF SafeCall
  <2>5. CASE a = s.acked
    <3>1. s.established = TRUE
      BY <1>1, <1>2, <2>5, BoundariesNat
    <3>2. ASSUME NEW b, b = TRUE, s.established = b PROVE [s EXCEPT !.established = b] = s
      BY <1>1, <3>2 DEF SrcType
    <3>3. e = s
      BY <3>1, <3>2
    <3> HIDE DEF e
    <3>4. ReceiveAck(s, a) = DupAck(s)
      BY <1>1, <2>3, <2>5, <3>3
    <3>5. SafeCall(DupAck(s), s)
      BY <3>1, DupAckSafe
    <3>6. DupAck(s).out \in Seq(Sendable(TRUE)) /\ DupAck(s).s.established = TRUE
      BY <3>1, <3>5 DEF SafeCall
    <3>7. Safe(DupAck(s).s) /\ DupAck(s).s.acked = s.acked /\ DupAck(s).s.pending = s.pending
      BY <3>5 DEF SafeCall
    <3> QED
      BY <3>4, <3>6, <3>7
  <2>6. a > s.acked \/ a = s.acked
    BY <1>1, <1>5
  <2> QED
    BY <2>4, <2>5, <2>6
<1> QED
  BY <1>4, <1>5

\* The timeout: the source goes back, and arms the timer again.
LEMMA TimeoutSafe ==
    ASSUME NEW s, Safe(s), s.pending
    PROVE  SafeCall(Timeout(s), [s EXCEPT !.pending = FALSE])
<1>1. /\ s \in SrcType /\ s.acked \in Nat /\ s.highest \in Nat /\ s.recoverq \in Nat
      /\ s.established \in BOOLEAN /\ s.cwnd \in Nat /\ s.ssthresh \in Nat \ {0}
      /\ s.acked <= s.highest
  <2>1. s \in SrcType /\ s.acked <= s.highest
    BY DEF Safe, Aligned
  <2>2. /\ s.acked \in Nat /\ s.highest \in Nat /\ s.recoverq \in Nat
        /\ s.established \in BOOLEAN /\ s.cwnd \in Nat /\ s.ssthresh \in Nat \ {0}
    BY <2>1 DEF SrcType
  <2> QED
    BY <2>1, <2>2
<1> DEFINE c == Smaller(s.ssthresh, s.highest - s.acked + Mss)
           q == IF s.fast THEN [s EXCEPT !.cwnd = c] ELSE s
<1>2. q \in SrcType /\ q.highest = s.highest /\ q.acked = s.acked
      /\ q.established = s.established /\ q.timer = s.timer
  <2>1. c \in Nat
    BY <1>1, MssType DEF Smaller
  <2> HIDE DEF c
  <2> QED
    BY <1>1, <2>1 DEF SrcType
<1>3. PICK b \in Nat \ {0} : Deflate(q) = [q EXCEPT !.ssthresh = b]
  BY <1>2, DeflateSets
<1> DEFINE h == IF s.established THEN s.acked + Mss ELSE s.highest
           d == [q EXCEPT !.ssthresh = b]
           t == [d EXCEPT !.pending = FALSE, !.cwnd = Mss, !.fast = FALSE,
                          !.recoverq = s.highest, !.dupacks = 0, !.highest = h]
<1>4. Timeout(s) = Retransmit(t)
  <2>1. d.highest = s.highest
    BY <1>2 DEF SrcType
  <2>2. Timeout(s) = Retransmit([Deflate(q) EXCEPT !.pending = FALSE, !.cwnd = Mss,
                       !.fast = FALSE, !.recoverq = s.highest, !.dupacks = 0,
                       !.highest = IF s.established THEN s.acked + Mss ELSE @])
    BY DEF Timeout
  <2> HIDE DEF q
  <2>3. [d EXCEPT !.pending = FALSE, !.cwnd = Mss, !.fast = FALSE, !.recoverq = s.highest,
                  !.dupacks = 0, !.highest = IF s.established THEN s.acked + Mss ELSE d.highest]
        = t
    BY <2>1
  <2> QED
    BY <1>3, <2>2, <2>3
<1> HIDE DEF q
<1>5. h \in Nat /\ s.acked <= h /\ (s.established => h \in Boundaries)
      /\ (~s.established => h = s.highest)
  <2>1. CASE s.established
    <3>1. PICK k \in Nat : s.acked = Ends(k)
      BY <2>1 DEF Safe, Aligned, Boundaries
    <3>2. s.acked + Mss = Ends(k + 1) /\ k + 1 \in Nat
      BY <3>1, EndsType
    <3> QED
      BY <1>1, <2>1, <3>2, MssType DEF Boundaries
  <2>2. CASE ~s.established
    BY <1>1, <2>2
  <2> QED
    BY <2>1, <2>2
<1> HIDE DEF h
<1>6. /\ t \in SrcType /\ t.highest = h /\ t.acked = s.acked /\ t.cwnd = Mss
      /\ t.established = s.established /\ t.timer = s.timer /\ ~t.pending /\ t.pending = FALSE
      /\ ~t.fast
  BY <1>1, <1>2, <1>5, MssType DEF SrcType
<1> HIDE DEF t
<1>7. Aligned(t) /\ (~t.established => t.highest = 1)
  BY <1>1, <1>5, <1>6, MssType DEF Safe, Aligned
<1> DEFINE r == Retransmit(t)
           u == [t EXCEPT !.timer = TRUE]
<1>8. r.s = IF t.established THEN u ELSE t
  BY <1>7, RetransmitSends
<1>9. r.out \in Seq(Sendable(t.established))
  BY <1>7, RetransmitSends
<1> HIDE DEF r
<1>10. Safe(r.s) /\ r.s.established = s.established /\ r.s.acked = s.acked /\ r.s.pending = FALSE
  <2>1. CASE s.established
    <3>1. /\ u \in SrcType /\ u.highest = h /\ u.acked = s.acked /\ u.cwnd = Mss
          /\ u.established = s.established /\ u.timer /\ u.pending = FALSE /\ ~u.fast
      BY <1>6 DEF SrcType
    <3> HIDE DEF u
    <3>2. Safe(u)
      BY <1>5, <1>6, <1>7, <2>1, <3>1 DEF Safe, Aligned
    <3> QED
      BY <1>6, <1>8, <2>1, <3>1, <3>2
  <2>2. CASE ~s.established
    <3>1. (s.highest > s.acked => s.timer) /\ s.highest = 1
      BY <2>2 DEF Safe
    <3>2. Safe(t)
      BY <1>5, <1>6, <1>7, <2>2, <3>1 DEF Safe
    <3> QED
      BY <1>6, <1>8, <2>2, <3>2
  <2> QED
    BY <2>1, <2>2
<1>11. /\ [s EXCEPT !.pending = FALSE].established = s.established
       /\ [s EXCEPT !.pending = FALSE].acked = s.acked
       /\ [s EXCEPT !.pending = FALSE].pending = FALSE
  BY <1>1 DEF SrcType
<1> QED
  BY <1>4, <1>6, <1>9, <1>10, <1>11 DEF SafeCall, r

LEMMA StartFlowSafe ==
    ASSUME NEW s \in SrcType, s.acked = 0, s.highest = 0, ~s.fast, s.established = FALSE,
           ~s.timer, ~s.pending
    PROVE  SafeCall(StartFlow(s), s)
<1> DEFINE t == [s EXCEPT !.cwnd = FirstWindow, !.established = FALSE]
<1>1. FirstWindow \in Nat /\ FirstWindow > 0
  BY TcpAssumption
<1>2. /\ t \in SrcType /\ t.highest = 0 /\ t.acked = 0 /\ t.cwnd = FirstWindow
      /\ t.established = FALSE /\ ~t.fast /\ t.pending = s.pending /\ ~t.timer /\ ~t.pending
  BY <1>1 DEF SrcType
<1>3. StartFlow(s) = SendPackets(t)
  BY DEF StartFlow
<1> HIDE DEF t
<1>4. Safe(t)
  BY <1>1, <1>2 DEF Safe, Aligned
<1> QED
  BY <1>2, <1>3, <1>4, SendPacketsSafe, CallsCompose

-----------------------------------------------------------------------------
(* The invariant of a plain or DCTCP connection.                            *)

AcksUpTo(c) == {a \in Boundaries : a <= c}

\* Before startflow.
Fresh ==
    /\ src.acked = 0 /\ src.highest = 0 /\ src.established = FALSE
    /\ ~src.fast /\ ~src.timer /\ ~src.pending
    /\ data = <<>> /\ acks = <<>>

\* The one event of the source is its start, or its pending timeout.
EventsOk ==
    /\ events \in [{"start", "timeout", "end"} -> Nat]
    /\ events["end"] = 0
    /\ events["timeout"] = IF src.pending THEN 1 ELSE 0
    /\ \/ events["start"] = 1 /\ Fresh
       \/ events["start"] = 0 /\ Safe(src)

\* Source, sink and what is between them agree: nothing is acked that has not
\* arrived, and data is on its way only after the SYN has been acked.
EndsAgree ==
    /\ src.acked <= snk.cum
    /\ IF src.established THEN snk.cum >= 1 ELSE snk.cum <= 1
    /\ data \in Seq(Sendable(src.established))
    /\ acks \in Seq(AcksUpTo(snk.cum))

TcpInv == src \in SrcType /\ SinkOk(snk) /\ EventsOk /\ EndsAgree

LEMMA Removed ==
    ASSUME NEW S, NEW s \in Seq(S), NEW i \in 1 .. Len(s)
    PROVE  SubSeq(s, 1, i - 1) \o SubSeq(s, i + 1, Len(s)) \in Seq(S)
<1>1. SubSeq(s, 1, i - 1) \in Seq(S)
  OBVIOUS
<1>2. SubSeq(s, i + 1, Len(s)) \in Seq(S)
  OBVIOUS
<1> QED
  BY <1>1, <1>2

LEMMA WidenSeq ==
    ASSUME NEW S, NEW T, S \subseteq T, NEW s \in Seq(S)
    PROVE  s \in Seq(T)
OBVIOUS

LEMMA SinkCumNat ==
    ASSUME NEW k, SinkOk(k)
    PROVE  k.cum \in Nat /\ k.cum \in {0} \union Boundaries
<1>1. k.cum \in {0} \union Boundaries
  BY DEF SinkOk
<1>2. \A b \in Boundaries : b \in Nat
  BY BoundariesNat
<1> QED
  BY <1>1, <1>2

LEMMA TcpInvInit == Kinds \subseteq {"tcp", "dctcp"} /\ Init => TcpInv
<1> SUFFICES ASSUME Kinds \subseteq {"tcp", "dctcp"}, Init PROVE TcpInv
  OBVIOUS
<1>1. PICK kind \in Kinds :
        src = [kind |-> kind, active |-> kind \in {"tcp", "dctcp"}, established |-> FALSE,
               highest |-> 0, acked |-> 0, cwnd |-> 0, ssthresh |-> Unlimited,
               dupacks |-> 0, recoverq |-> 0, fast |-> FALSE, timer |-> FALSE,
               pending |-> FALSE, exited |-> "no"]
  BY DEF Init
<1>2. kind \in {"tcp", "dctcp"} /\ (kind \in {"tcp", "dctcp"}) = TRUE
  OBVIOUS
<1>3. src \in SrcType
  <2>1. src = [kind |-> kind, active |-> TRUE, established |-> FALSE,
               highest |-> 0, acked |-> 0, cwnd |-> 0, ssthresh |-> Unlimited,
               dupacks |-> 0, recoverq |-> 0, fast |-> FALSE, timer |-> FALSE,
               pending |-> FALSE, exited |-> "no"]
    BY <1>1, <1>2, Zenon
  <2> QED
    BY <1>2, <2>1 DEF SrcType, Unlimited
<1>4. /\ src.acked = 0 /\ src.highest = 0 /\ src.established = FALSE
      /\ src.fast = FALSE /\ src.timer = FALSE /\ src.pending = FALSE
  BY <1>1
<1>5. snk.cum = 0 /\ snk.received = {} /\ snk.arrived = {}
  BY DEF Init, NewSink
<1>6. SinkOk(snk)
  <2>1. ASSUME NEW i \in Nat PROVE ~(First(i) <= 0)
    BY EndsType
  <2> QED
    BY <1>5, <2>1, FS_EmptySet DEF SinkOk
<1>7. EventsOk
  BY <1>4 DEF Init, EventsOk, Fresh
<1>8. EndsAgree
  BY <1>4, <1>5 DEF Init, EndsAgree
<1> QED
  BY <1>3, <1>6, <1>7, <1>8 DEF TcpInv

LEMMA SinkReceiveKeeps == TcpInv /\ SinkReceive => TcpInv'
<1> SUFFICES ASSUME TcpInv, SinkReceive PROVE TcpInv'
  OBVIOUS
<1>1. PICK i \in 1 .. Smaller(Reach, Len(data)) :
        LET p == data[i]
            cum == CumAfter(snk, p)
            have == IF p.seq > snk.cum + 1 THEN snk.received \cup {p.seq} ELSE snk.received
        IN  /\ snk' = [cum |-> cum, received |-> {n \in have : n > cum},
                       arrived |-> snk.arrived \cup {p.seq}]
            /\ acks' = Append(acks, cum)
            /\ data' = SubSeq(data, 1, i - 1) \o SubSeq(data, i + 1, Len(data))
            /\ UNCHANGED <<src, events, budget>>
  BY DEF SinkReceive
<1> DEFINE p == data[i]
           have == IF p.seq > snk.cum + 1 THEN snk.received \cup {p.seq} ELSE snk.received
<1>2. /\ snk' = [cum |-> CumAfter(snk, p), received |-> {n \in have : n > CumAfter(snk, p)},
                 arrived |-> snk.arrived \cup {p.seq}]
      /\ acks' = Append(acks, CumAfter(snk, p))
      /\ data' = SubSeq(data, 1, i - 1) \o SubSeq(data, i + 1, Len(data))
      /\ src' = src /\ events' = events
  BY <1>1
<1>3. /\ src \in SrcType /\ SinkOk(snk) /\ EventsOk
      /\ src.acked <= snk.cum
      /\ IF src.established THEN snk.cum >= 1 ELSE snk.cum <= 1
      /\ data \in Seq(Sendable(src.established))
      /\ acks \in Seq(AcksUpTo(snk.cum))
  BY DEF TcpInv, EndsAgree
<1>4. i \in 1 .. Len(data)
  BY <1>3, TcpAssumption DEF Smaller
<1>5. p \in Sendable(src.established)
  BY <1>3, <1>4
<1>6. p = Syn \/ (p \in Packets /\ snk.cum >= 1)
  BY <1>3, <1>5 DEF Sendable
<1> HIDE DEF p, have
<1>7. have = IF p.seq > snk.cum + 1 THEN snk.received \union {p.seq} ELSE snk.received
  BY DEF have
<1>8. SinkOk(snk') /\ snk'.cum \in Boundaries /\ snk.cum <= snk'.cum
  BY <1>2, <1>3, <1>6, <1>7, SinkTakes
<1>9. snk.cum \in Nat /\ snk'.cum \in Nat /\ snk'.cum = CumAfter(snk, p) /\ src.acked \in Nat
  BY <1>2, <1>3, <1>8, SinkCumNat, BoundariesNat DEF SrcType
<1>10. IF src.established THEN snk'.cum >= 1 ELSE snk'.cum <= 1
  <2>1. CASE ~src.established
    <3>1. p = Syn
      BY <1>5, <2>1 DEF Sendable
    <3>2. snk'.cum = IF snk.cum = 0 THEN 1 ELSE snk.cum
      BY <1>3, <1>9, <3>1, CumAfterSyn
    <3> QED
      BY <1>3, <1>9, <2>1, <3>2
  <2>2. CASE src.established
    BY <1>3, <1>8, <1>9, <2>2
  <2> QED
    BY <2>1, <2>2
<1>11. data' \in Seq(Sendable(src.established))
  BY <1>2, <1>3, <1>4, Removed
<1>12. acks' \in Seq(AcksUpTo(snk'.cum))
  <2>1. AcksUpTo(snk.cum) \subseteq AcksUpTo(snk'.cum)
    <3>1. \A b \in Boundaries : b \in Nat
      BY BoundariesNat
    <3> QED
      BY <1>8, <1>9, <3>1 DEF AcksUpTo
  <2>2. acks \in Seq(AcksUpTo(snk'.cum))
    BY <1>3, <2>1, WidenSeq
  <2>3. snk'.cum \in AcksUpTo(snk'.cum)
    BY <1>8, <1>9 DEF AcksUpTo
  <2> QED
    BY <1>2, <1>9, <2>2, <2>3
<1>13. EventsOk'
  <2>1. events["start"] = 0 /\ Safe(src)
    <3>1. data # <<>>
      BY <1>3, <1>4
    <3> QED
      BY <1>3, <3>1 DEF EventsOk, Fresh
  <2> QED
    BY <1>2, <1>3, <2>1 DEF EventsOk
<1>14. EndsAgree'
  BY <1>2, <1>3, <1>8, <1>9, <1>10, <1>11, <1>12 DEF EndsAgree
<1> QED
  BY <1>2, <1>3, <1>8, <1>13, <1>14 DEF TcpInv

LEMMA SrcReceiveKeeps == TcpInv /\ SrcReceive => TcpInv'
<1> SUFFICES ASSUME TcpInv, SrcReceive PROVE TcpInv'
  OBVIOUS
<1>1. /\ src \in SrcType /\ SinkOk(snk) /\ EventsOk
      /\ src.acked <= snk.cum
      /\ IF src.established THEN snk.cum >= 1 ELSE snk.cum <= 1
      /\ data \in Seq(Sendable(src.established))
      /\ acks \in Seq(AcksUpTo(snk.cum))
  BY DEF TcpInv, EndsAgree
<1>2. /\ src.active /\ src.kind # "transfer" /\ src.acked \in Nat
      /\ src.established \in BOOLEAN /\ src.pending \in BOOLEAN
  BY <1>1 DEF SrcType
<1>3. PICK i \in 1 .. Smaller(Reach, Len(acks)), s \in EcnUpdates(src) :
        LET r == ReceiveAck(s, acks[i])
            done == src.kind = "transfer" /\ r.s.acked >= BytesToSend
        IN  /\ acks' = SubSeq(acks, 1, i - 1) \o SubSeq(acks, i + 1, Len(acks))
            /\ IF ~src.active THEN s = src /\ UNCHANGED <<src, data, events, budget>>
               ELSE /\ Sends(Sent(IF done THEN Reset(r.s) ELSE r.s, r.out))
                    /\ IF done /\ budget.restarts > 0
                         THEN /\ events' = [events EXCEPT !["start"] = @ + 1]
                              /\ budget' = [budget EXCEPT !.restarts = @ - 1]
                         ELSE UNCHANGED <<events, budget>>
            /\ UNCHANGED snk
  BY DEF SrcReceive
<1> DEFINE a == acks[i]
           r == ReceiveAck(s, a)
<1>4. /\ acks' = SubSeq(acks, 1, i - 1) \o SubSeq(acks, i + 1, Len(acks))
      /\ events' = events /\ snk' = snk
      /\ Sends(Sent(r.s, r.out))
  BY <1>2, <1>3
<1>5. src' = r.s /\ data' = data \o r.out
  BY <1>4 DEF Sends, Sent
<1>6. i \in 1 .. Len(acks)
  BY <1>1, TcpAssumption DEF Smaller
<1>7. a \in Boundaries /\ a <= snk.cum /\ a \in Nat
  <2>1. a \in AcksUpTo(snk.cum)
    BY <1>1, <1>6
  <2> QED
    BY <2>1, BoundariesNat DEF AcksUpTo
<1>8. events["start"] = 0 /\ Safe(src)
  <2>1. acks # <<>>
    BY <1>1, <1>6
  <2> QED
    BY <1>1, <2>1 DEF EventsOk, Fresh
<1>9. /\ Safe(s) /\ s.established = src.established /\ s.acked = src.acked
      /\ s.pending = src.pending
  <2>1. PICK c \in Nat \ {0}, b \in Nat \ {0} :
          s = [src EXCEPT !.cwnd = c, !.ssthresh = b, !.dupacks = src.dupacks]
    BY <1>8, EcnSets
  <2>2. src.dupacks \in Nat
    BY <1>1 DEF SrcType
  <2>3. Safe(s)
    BY <1>8, <2>1, <2>2, WindowSet
  <2>4. s.established = src.established /\ s.acked = src.acked /\ s.pending = src.pending
    BY <1>1, <2>1 DEF SrcType
  <2> QED
    BY <2>3, <2>4
<1>10. snk.cum \in Nat
  BY <1>1, SinkCumNat
<1>11. ~s.established => a = 1
  <2>1. a >= 1
    BY <1>7, BoundariesNat
  <2> QED
    BY <1>1, <1>7, <1>9, <1>10, <2>1
<1>12. /\ Safe(r.s) /\ r.s.established /\ r.s.acked \in {s.acked, a}
       /\ r.s.pending = s.pending /\ r.out \in Seq(Sendable(TRUE))
  BY <1>7, <1>9, <1>11, ReceiveAckSafe
<1> HIDE DEF r, a
<1>13. src' \in SrcType
  BY <1>5, <1>12 DEF Safe, Aligned
<1>14. EventsOk'
  BY <1>1, <1>4, <1>5, <1>8, <1>9, <1>12 DEF EventsOk
<1>15. EndsAgree'
  <2>1. snk'.cum >= 1
    <3>1. a >= 1
      BY <1>7, BoundariesNat
    <3> QED
      BY <1>4, <1>7, <1>10, <3>1
  <2>2. src'.acked <= snk'.cum
    BY <1>1, <1>4, <1>5, <1>7, <1>9, <1>12
  <2>3. data' \in Seq(Sendable(TRUE))
    <3>1. data \in Seq(Sendable(TRUE))
      BY <1>1, WidenSeq DEF Sendable
    <3> QED
      BY <1>5, <1>12, <3>1, SendableJoin
  <2>4. acks' \in Seq(AcksUpTo(snk.cum))
    BY <1>1, <1>4, <1>6, Removed
  <2>5. src'.established = TRUE
    BY <1>5, <1>12, <1>13 DEF SrcType
  <2> QED
    BY <1>4, <2>1, <2>2, <2>3, <2>4, <2>5 DEF EndsAgree
<1> QED
  BY <1>1, <1>4, <1>13, <1>14, <1>15 DEF TcpInv

LEMMA TimerHookKeeps == TcpInv /\ TimerHook => TcpInv'
<1> SUFFICES ASSUME TcpInv, TimerHook PROVE TcpInv'
  OBVIOUS
<1>1. /\ src \in SrcType /\ SinkOk(snk) /\ EventsOk /\ EndsAgree
      /\ src.timer /\ src.pending = FALSE
      /\ src' = [src EXCEPT !.pending = TRUE]
      /\ events' = [events EXCEPT !["timeout"] = @ + 1]
      /\ snk' = snk /\ data' = data /\ acks' = acks
  BY DEF TcpInv, TimerHook, SrcType
<1>2. events["start"] = 0 /\ Safe(src)
  BY <1>1 DEF EventsOk, Fresh
<1>3. /\ src' \in SrcType /\ src'.pending = TRUE /\ src'.timer = src.timer
      /\ src'.highest = src.highest /\ src'.acked = src.acked /\ src'.cwnd = src.cwnd
      /\ src'.established = src.established /\ src'.fast = src.fast
      /\ src'.recoverq = src.recoverq
  BY <1>1 DEF SrcType
<1>4. Safe(src')
  BY <1>1, <1>2, <1>3 DEF Safe, Aligned
<1>5. EventsOk'
  <2>1. events \in [{"start", "timeout", "end"} -> Nat] /\ events["timeout"] = 0
        /\ events["end"] = 0
    BY <1>1 DEF EventsOk
  <2>2. events' \in [{"start", "timeout", "end"} -> Nat] /\ events'["timeout"] = 1
        /\ events'["start"] = 0 /\ events'["end"] = 0
    BY <1>1, <1>2, <2>1
  <2> QED
    BY <1>3, <1>4, <2>2 DEF EventsOk
<1>6. EndsAgree'
  BY <1>1, <1>3 DEF EndsAgree
<1> QED
  BY <1>1, <1>3, <1>5, <1>6 DEF TcpInv

LEMMA DropKeeps == TcpInv /\ Drop => TcpInv'
<1> SUFFICES ASSUME TcpInv, Drop PROVE TcpInv'
  OBVIOUS
<1>1. /\ src \in SrcType /\ SinkOk(snk) /\ EventsOk /\ EndsAgree
      /\ src' = src /\ snk' = snk /\ events' = events
  BY DEF TcpInv, Drop
<1>2. data # <<>> \/ acks # <<>>
  BY DEF Drop
<1>3. events["start"] = 0 /\ Safe(src)
  BY <1>1, <1>2 DEF EventsOk, Fresh
<1>4. EventsOk'
  BY <1>1, <1>3 DEF EventsOk
<1>5. EndsAgree'
  <2>1. CASE data # <<>> /\ data' = Tail(data) /\ acks' = acks
    BY <1>1, <2>1 DEF EndsAgree
  <2>2. CASE acks # <<>> /\ acks' = Tail(acks) /\ data' = data
    BY <1>1, <2>2 DEF EndsAgree
  <2> QED
    BY <2>1, <2>2 DEF Drop
<1> QED
  BY <1>1, <1>4, <1>5 DEF TcpInv

LEMMA DoNextEventKeeps ==
    ASSUME TcpInv, NEW why \in DOMAIN events, DoNextEvent(why)
    PROVE  TcpInv'
<1>1. src \in SrcType /\ SinkOk(snk) /\ EventsOk /\ EndsAgree
  BY DEF TcpInv
<1>2. /\ src.active /\ src.kind # "periodic" /\ src.acked \in Nat
      /\ src.established \in BOOLEAN /\ src.pending \in BOOLEAN
  BY <1>1 DEF SrcType
<1>3. /\ events[why] > 0 /\ Sends(SrcEvent(src))
      /\ events' = [events EXCEPT ![why] = @ - 1]
      /\ snk' = snk /\ acks' = acks
  BY <1>2 DEF DoNextEvent
<1>4. /\ events \in [{"start", "timeout", "end"} -> Nat] /\ events["end"] = 0
      /\ events["timeout"] = IF src.pending THEN 1 ELSE 0
  BY <1>1 DEF EventsOk
<1>5. why \in {"start", "timeout"}
  BY <1>3, <1>4
<1> DEFINE r == SrcEvent(src)
<1>6. src' = r.s /\ data' = data \o r.out
  BY <1>3 DEF Sends
<1>7. CASE why = "start"
  <2>1. events["start"] = 1 /\ Fresh
    BY <1>1, <1>3, <1>7 DEF EventsOk
  <2>2. r = StartFlow(src)
    BY <2>1 DEF Fresh, SrcEvent
  <2> HIDE DEF r
  <2>3. SafeCall(r, src)
    BY <1>1, <2>1, <2>2, StartFlowSafe DEF Fresh
  <2>4. /\ Safe(r.s) /\ r.s.established = src.established /\ r.s.acked = src.acked
        /\ r.s.pending = src.pending /\ r.out \in Seq(Sendable(src.established))
    BY <2>3 DEF SafeCall
  <2>5. /\ events' \in [{"start", "timeout", "end"} -> Nat] /\ events'["start"] = 0
        /\ events'["timeout"] = events["timeout"] /\ events'["end"] = 0
    BY <1>3, <1>4, <1>7, <2>1
  <2>6. EventsOk'
    BY <1>4, <1>6, <2>4, <2>5 DEF EventsOk
  <2>7. EndsAgree'
    BY <1>1, <1>2, <1>3, <1>6, <2>4, SendableJoin DEF EndsAgree
  <2>8. src' \in SrcType
    BY <1>6, <2>4 DEF Safe, Aligned
  <2> QED
    BY <1>1, <1>3, <2>6, <2>7, <2>8 DEF TcpInv
<1>8. CASE why = "timeout"
  <2>1. src.pending /\ events["timeout"] = 1
    BY <1>3, <1>4, <1>8
  <2>2. events["start"] = 0 /\ Safe(src)
    BY <1>1, <2>1 DEF EventsOk, Fresh
  <2>3. r = Timeout(src)
    BY <2>1 DEF SrcEvent
  <2> HIDE DEF r
  <2> DEFINE t == [src EXCEPT !.pending = FALSE]
  <2>4. SafeCall(r, t)
    BY <2>1, <2>2, <2>3, TimeoutSafe
  <2>5. t.established = src.established /\ t.acked = src.acked /\ t.pending = FALSE
    BY <1>1 DEF SrcType
  <2> HIDE DEF t
  <2>6. /\ Safe(r.s) /\ r.s.established = src.established /\ r.s.acked = src.acked
        /\ r.s.pending = FALSE /\ r.out \in Seq(Sendable(src.established))
    BY <2>4, <2>5 DEF SafeCall
  <2>7. /\ events' \in [{"start", "timeout", "end"} -> Nat] /\ events'["start"] = 0
        /\ events'["timeout"] = 0 /\ events'["end"] = 0
    BY <1>3, <1>4, <1>8, <2>1, <2>2
  <2>8. EventsOk'
    BY <1>6, <2>6, <2>7 DEF EventsOk
  <2>9. EndsAgree'
    BY <1>1, <1>2, <1>3, <1>6, <2>6, SendableJoin DEF EndsAgree
  <2>10. src' \in SrcType
    BY <1>6, <2>6 DEF Safe, Aligned
  <2> QED
    BY <1>1, <1>3, <2>8, <2>9, <2>10 DEF TcpInv
<1> QED
  BY <1>5, <1>7, <1>8

LEMMA UnchangedKeeps == TcpInv /\ UNCHANGED vars => TcpInv'
BY DEF TcpInv, EventsOk, Fresh, EndsAgree, vars

-----------------------------------------------------------------------------
(* The theorems.                                                            *)

\* The invariant of every plain or DCTCP connection.
THEOREM TcpInvariant == ASSUME Kinds \subseteq {"tcp", "dctcp"} PROVE Spec => []TcpInv
<1>1. Init => TcpInv
  BY TcpInvInit
<1>2. TcpInv /\ [Next]_vars => TcpInv'
  <2> SUFFICES ASSUME TcpInv, [Next]_vars PROVE TcpInv'
    OBVIOUS
  <2>1. CASE SinkReceive
    BY <2>1, SinkReceiveKeeps
  <2>2. CASE SrcReceive
    BY <2>2, SrcReceiveKeeps
  <2>3. CASE TimerHook
    BY <2>3, TimerHookKeeps
  <2>4. CASE Drop
    BY <2>4, DropKeeps
  <2>5. CASE \E why \in DOMAIN events : DoNextEvent(why)
    <3>1. PICK why \in DOMAIN events : DoNextEvent(why)
      BY <2>5
    <3> QED
      BY <3>1, DoNextEventKeeps
  <2>6. CASE UNCHANGED vars
    BY <2>6, UnchangedKeeps
  <2> QED
    BY <2>1, <2>2, <2>3, <2>4, <2>5, <2>6 DEF Next
<1> QED
  BY <1>1, <1>2, PTL DEF Spec

\* A plain or DCTCP connection never has an unacked byte without a timer that
\* runs or a timeout that is on the way (tcp.cpp, send_packets and
\* receivePacket), however long the flow and whatever the network does.
THEOREM TimerAlwaysCoversFlight ==
    ASSUME Kinds \subseteq {"tcp", "dctcp"} PROVE Spec => []TimerCoversFlight
<1>1. TcpInv => TimerCoversFlight
  <2> SUFFICES ASSUME TcpInv PROVE TimerCoversFlight
    OBVIOUS
  <2>1. CASE Fresh
    BY <2>1 DEF Fresh, TimerCoversFlight
  <2>2. CASE Safe(src)
    BY <2>2 DEF Safe, TimerCoversFlight
  <2> QED
    BY <2>1, <2>2 DEF TcpInv, EventsOk
<1> QED
  BY <1>1, TcpInvariant, PTL

\* In fast recovery the source waits for the ack of a byte it has sent, so the
\* ack that ends the recovery (tcp.cpp, receivePacket) is still to come.
THEOREM RecoveryCanAlwaysEnd ==
    ASSUME Kinds \subseteq {"tcp", "dctcp"} PROVE Spec => []RecoveryCanEnd
<1>1. TcpInv => RecoveryCanEnd
  <2> SUFFICES ASSUME TcpInv PROVE RecoveryCanEnd
    OBVIOUS
  <2>1. CASE Fresh
    BY <2>1 DEF Fresh, RecoveryCanEnd
  <2>2. CASE Safe(src)
    BY <2>2 DEF Safe, RecoveryCanEnd
  <2> QED
    BY <2>1, <2>2 DEF TcpInv, EventsOk
<1> QED
  BY <1>1, TcpInvariant, PTL

LEMMA BackedUpTo == ASSUME TcpInv, NEW a \in {0} \union Boundaries, a <= snk.cum PROVE Backed(a)
<1>1. /\ snk.cum \in Nat /\ (snk.cum >= 1 => 1 \in snk.arrived)
      /\ \A i \in Nat : First(i) <= snk.cum => First(i) \in snk.arrived
  BY SinkCumNat DEF TcpInv, SinkOk
<1>2. a \in Nat
  BY BoundariesNat
<1>3. a >= Syn.seq => Syn.seq \in snk.arrived
  BY <1>1, <1>2 DEF Syn
<1>4. ASSUME NEW k \in 0 .. a, 2 + k * Mss <= a PROVE 2 + k * Mss \in snk.arrived
  <2>1. k \in Nat /\ First(k) = 2 + k * Mss /\ First(k) \in Nat
    BY <1>2, EndsType DEF First
  <2> QED
    BY <1>1, <1>2, <1>4, <2>1
<1> QED
  BY <1>3, <1>4 DEF Backed

\* Every byte that the source takes for acked, and every byte an ack on its way
\* speaks of, has reached the sink (tcp.cpp, TcpSink::receivePacket), whatever
\* is lost, repeated or reordered.
THEOREM AcksAreAlwaysBacked ==
    ASSUME Kinds \subseteq {"tcp", "dctcp"} PROVE Spec => []AcksAreBacked
<1>1. TcpInv => AcksAreBacked
  <2> SUFFICES ASSUME TcpInv PROVE AcksAreBacked
    OBVIOUS
  <2>1. src.acked \in {0} \union Boundaries
    <3>1. CASE Fresh
      BY <3>1 DEF Fresh
    <3>2. CASE Safe(src)
      BY <3>2 DEF Safe, Aligned
    <3> QED
      BY <3>1, <3>2 DEF TcpInv, EventsOk
  <2>2. Backed(src.acked)
    BY <2>1, BackedUpTo DEF TcpInv, EndsAgree
  <2>3. ASSUME NEW i \in 1 .. Len(acks) PROVE Backed(acks[i])
    <3>1. acks \in Seq(AcksUpTo(snk.cum))
      BY DEF TcpInv, EndsAgree
    <3>2. acks[i] \in AcksUpTo(snk.cum)
      BY <3>1
    <3> QED
      BY <3>2, BackedUpTo DEF AcksUpTo
  <2> QED
    BY <2>2, <2>3 DEF AcksAreBacked
<1> QED
  BY <1>1, TcpInvariant, PTL
=============================================================================
