------------------------------ MODULE NdpProofs ------------------------------
(***************************************************************************)
(* Ndp for any number of flows of any size, any window, any drain time and *)
(* any trims and returns of the switches: each packet is in one place,     *)
(* pulls conserve the window, and the pull queue serves in turn.           *)
(***************************************************************************)
EXTENDS Ndp, TLAPS, FiniteSetTheorems, WellFoundedInduction

-----------------------------------------------------------------------------
(* The invariant.                                                          *)

\* What is on its way or known to be lost, and the acks, of a flow.
OnWay(N, f) == {p \in N : p.flow = f /\ p.type \in {"full", "header", "bounced", "nack"}}
AcksIn(N, f) == {p \in N : p.flow = f /\ p.type = "ack"}

\* What a window counts: the packets that have not reached the receiver.
Ahead(N, f) == {p \in N : p.flow = f /\ p.type \in {"full", "header", "bounced"}}

SeqsIn(P) == {p.seq : p \in P}
Single(P) == \A p, q \in P : p.seq = q.seq => p = q

SeqsOf(rtx) == {rtx[i].seq : i \in DOMAIN rtx}
Distinct(rtx) == \A i, j \in DOMAIN rtx : rtx[i].seq = rtx[j].seq => i = j

HeldBy(k) == (1 .. k.cum) \cup k.received

\* What flow f has sent is divided between the network N, the retransmission
\* queue of the source s and the sink k.
Divided(f, s, k, N) ==
  /\ SeqsIn(OnWay(N, f)) \cup SeqsOf(s.rtx) \cup HeldBy(k) = 1 .. s.highest
  /\ SeqsIn(OnWay(N, f)) \cap SeqsOf(s.rtx) = {}
  /\ SeqsIn(OnWay(N, f)) \cap HeldBy(k) = {}
  /\ SeqsOf(s.rtx) \cap HeldBy(k) = {}
  /\ Single(OnWay(N, f)) /\ Distinct(s.rtx)

\* Each packet the sink holds has at most one ack on its way; the rest of the
\* flight has none yet.
Balanced(f, s, k, N) ==
  /\ SeqsIn(AcksIn(N, f)) \subseteq HeldBy(k) /\ Single(AcksIn(N, f))
  /\ s.flight = s.highest - Cardinality(HeldBy(k)) + Cardinality(AcksIn(N, f))

Tidy(f, s, k, N) == Divided(f, s, k, N) /\ Balanced(f, s, k, N)

Windowed(f, s, k, N) == Cardinality(Ahead(N, f)) + k.pullNo - s.lastPull <= Cwnd

\* Nothing is on its way for a flow that was not started.
Fresh ==
  /\ \A p \in net : src[p.flow].started
  /\ \A f \in DOMAIN pacer.queues : src[f].started
  /\ \A f \in Flows : src[f].started \/ (snk[f].pullNo = 0 /\ src[f].highest = 0)

\* The iterator c of the pull queue has passed f and not yet reached g.
Between(c, f, g) ==
  IF f < g THEN f < c /\ c <= g ELSE c = End \/ f < c \/ c <= g

\* Whom a waiting flow has seen served, the iterator has passed since.
Turn(q, P) ==
  \A g \in Flows :
    /\ ~Waiting(q, g) => P[g] = {}
    /\ \A f \in P[g] : f # g /\ Between(q.current, f, g)

InTurn == Turn(pacer, passed)

NdpInv ==
  /\ TypeOK /\ IsFiniteSet(net) /\ Fresh /\ InTurn
  /\ \A f \in Flows : Tidy(f, src[f], snk[f], net) /\ Windowed(f, src[f], snk[f], net)

-----------------------------------------------------------------------------
(* Numbers and sequences.                                                  *)

\* Every non-empty set of numbers has a least element.
LEMMA LeastNumber ==
  ASSUME NEW T \in SUBSET Nat, T # {}
  PROVE  \E n \in T : \A m \in T : n <= m
<1>1. PICK R : R = {ss \in Nat \X Nat : ss[1] < ss[2]}
  OBVIOUS
<1>2. IsWellFoundedOn(R, Nat)
  BY <1>1, NatLessThanWellFounded DEF OpToRel
<1>3. T \subseteq Nat
  OBVIOUS
<1>4. PICK x \in T : \A y \in T : ~(<<y, x>> \in R)
  BY <1>2, <1>3, WFMin
<1>5. \A y \in T : ~(y < x)
  BY <1>4, <1>1, <1>3
<1> QED
  BY <1>3, <1>5

Again == [seq : Nat, last : BOOLEAN]

LEMMA SeqsAppend ==
  ASSUME NEW q \in Seq(Again), NEW e \in Again
  PROVE  /\ Append(q, e) \in Seq(Again)
         /\ SeqsOf(Append(q, e)) = SeqsOf(q) \cup {e.seq}
         /\ Distinct(q) /\ e.seq \notin SeqsOf(q) => Distinct(Append(q, e))
<1> DEFINE a == Append(q, e)
<1>1. /\ a \in Seq(Again) /\ DOMAIN q = 1 .. Len(q) /\ DOMAIN a = 1 .. Len(q) + 1
      /\ Len(q) \in Nat /\ a[Len(q) + 1] = e /\ \A i \in DOMAIN q : a[i] = q[i]
  OBVIOUS
<1> HIDE DEF a
<1>2. SeqsOf(a) = SeqsOf(q) \cup {e.seq}
  <2>1. ASSUME NEW i \in DOMAIN a PROVE a[i].seq \in SeqsOf(q) \cup {e.seq}
    BY <1>1 DEF SeqsOf
  <2>2. ASSUME NEW i \in DOMAIN q PROVE q[i].seq \in SeqsOf(a)
    BY <1>1 DEF SeqsOf
  <2>3. e.seq \in SeqsOf(a)
    BY <1>1 DEF SeqsOf
  <2> QED
    BY <2>1, <2>2, <2>3 DEF SeqsOf
<1>3. ASSUME Distinct(q), e.seq \notin SeqsOf(q), NEW i \in DOMAIN a, NEW j \in DOMAIN a,
             a[i].seq = a[j].seq
      PROVE  i = j
  <2>1. \A n \in DOMAIN q : q[n].seq # e.seq
    BY <1>3 DEF SeqsOf
  <2> QED
    BY <1>1, <1>3, <2>1 DEF Distinct
<1> QED
  BY <1>1, <1>2, <1>3 DEF Distinct, a

LEMMA SeqsFront ==
  ASSUME NEW q \in Seq(Again), NEW e \in Again
  PROVE  /\ <<e>> \o q \in Seq(Again)
         /\ SeqsOf(<<e>> \o q) = SeqsOf(q) \cup {e.seq}
         /\ Distinct(q) /\ e.seq \notin SeqsOf(q) => Distinct(<<e>> \o q)
<1> DEFINE a == <<e>> \o q
<1>1. /\ a \in Seq(Again) /\ DOMAIN q = 1 .. Len(q) /\ DOMAIN a = 1 .. Len(q) + 1
      /\ Len(q) \in Nat /\ a[1] = e /\ \A i \in DOMAIN q : a[i + 1] = q[i]
  OBVIOUS
<1> HIDE DEF a
<1>2. \A i \in DOMAIN a : i = 1 \/ (i - 1 \in DOMAIN q /\ a[i] = q[i - 1])
  <2> TAKE i \in DOMAIN a
  <2>1. i # 1 => i - 1 \in DOMAIN q /\ (i - 1) + 1 = i
    BY <1>1
  <2> QED
    BY <1>1, <2>1
<1>3. SeqsOf(a) = SeqsOf(q) \cup {e.seq}
  <2>1. ASSUME NEW i \in DOMAIN a PROVE a[i].seq \in SeqsOf(q) \cup {e.seq}
    BY <1>1, <1>2 DEF SeqsOf
  <2>2. ASSUME NEW i \in DOMAIN q PROVE q[i].seq \in SeqsOf(a)
    <3>1. i + 1 \in DOMAIN a /\ a[i + 1] = q[i]
      BY <1>1
    <3> QED
      BY <3>1 DEF SeqsOf
  <2>3. e.seq \in SeqsOf(a)
    BY <1>1 DEF SeqsOf
  <2> QED
    BY <2>1, <2>2, <2>3 DEF SeqsOf
<1>4. ASSUME Distinct(q), e.seq \notin SeqsOf(q), NEW i \in DOMAIN a, NEW j \in DOMAIN a,
             a[i].seq = a[j].seq
      PROVE  i = j
  <2>1. \A n \in DOMAIN q : q[n].seq # e.seq
    BY <1>4 DEF SeqsOf
  <2>2. i \in Int /\ j \in Int
    BY <1>1
  <2>3. i # 1 /\ j # 1 => i - 1 = j - 1
    BY <1>2, <1>4 DEF Distinct
  <2> QED
    BY <1>1, <1>2, <1>4, <2>1, <2>2, <2>3
<1> QED
  BY <1>1, <1>3, <1>4 DEF Distinct, a

LEMMA SeqsTail ==
  ASSUME NEW q \in Seq(Again), q # <<>>, Distinct(q)
  PROVE  /\ Tail(q) \in Seq(Again) /\ Head(q) \in Again /\ Distinct(Tail(q))
         /\ SeqsOf(q) = SeqsOf(Tail(q)) \cup {Head(q).seq}
         /\ Head(q).seq \notin SeqsOf(Tail(q))
<1> DEFINE t == Tail(q)
<1>1. /\ t \in Seq(Again) /\ Len(q) \in Nat \ {0} /\ DOMAIN q = 1 .. Len(q)
      /\ DOMAIN t = 1 .. Len(q) - 1 /\ q[1] = Head(q)
      /\ \A i \in DOMAIN t : t[i] = q[i + 1]
  OBVIOUS
<1>2. Head(q) \in Again
  BY <1>1
<1> HIDE DEF t
<1>3. \A i \in DOMAIN t : i + 1 \in DOMAIN q /\ i + 1 # 1 /\ i \in Int
  BY <1>1
<1>4. \A i \in DOMAIN q : i = 1 \/ (i - 1 \in DOMAIN t /\ q[i] = t[i - 1])
  <2> TAKE i \in DOMAIN q
  <2>1. i # 1 => i - 1 \in DOMAIN t /\ (i - 1) + 1 = i
    BY <1>1
  <2> QED
    BY <1>1, <2>1
<1>5. 1 \in DOMAIN q
  BY <1>1
<1>6. Distinct(t)
  <2> SUFFICES ASSUME NEW i \in DOMAIN t, NEW j \in DOMAIN t, t[i].seq = t[j].seq
               PROVE  i = j
    BY DEF Distinct
  <2>1. i + 1 = j + 1
    BY <1>1, <1>3 DEF Distinct
  <2> QED
    BY <1>3, <2>1
<1>7. SeqsOf(q) = SeqsOf(t) \cup {Head(q).seq}
  <2>1. ASSUME NEW i \in DOMAIN q PROVE q[i].seq \in SeqsOf(t) \cup {Head(q).seq}
    BY <1>1, <1>4 DEF SeqsOf
  <2>2. ASSUME NEW i \in DOMAIN t PROVE t[i].seq \in SeqsOf(q)
    BY <1>1, <1>3 DEF SeqsOf
  <2>3. Head(q).seq \in SeqsOf(q)
    BY <1>1, <1>5 DEF SeqsOf
  <2> QED
    BY <2>1, <2>2, <2>3 DEF SeqsOf
<1>8. ASSUME Head(q).seq \in SeqsOf(t) PROVE FALSE
  <2>1. PICK i \in DOMAIN t : t[i].seq = q[1].seq
    BY <1>1, <1>8 DEF SeqsOf
  <2>2. i + 1 = 1
    BY <1>1, <1>3, <1>5, <2>1 DEF Distinct
  <2> QED
    BY <1>3, <2>2
<1> QED
  BY <1>1, <1>2, <1>6, <1>7, <1>8 DEF t

-----------------------------------------------------------------------------
(* The network: what a change of one packet does to the parts of a flow.   *)

\* Nothing of the flow is added or taken.
LEMMA SameParts ==
  ASSUME NEW N, NEW M, NEW f, \A p : p.flow = f => (p \in N <=> p \in M)
  PROVE  OnWay(N, f) = OnWay(M, f) /\ AcksIn(N, f) = AcksIn(M, f) /\ Ahead(N, f) = Ahead(M, f)
  BY DEF OnWay, AcksIn, Ahead

LEMMA SameFlow ==
  ASSUME NEW f, NEW s, NEW k, NEW N, NEW M,
         OnWay(N, f) = OnWay(M, f), AcksIn(N, f) = AcksIn(M, f)
  PROVE  Tidy(f, s, k, N) <=> Tidy(f, s, k, M)
  BY DEF Tidy, Divided, Balanced

\* A packet of one of the kinds of OnWay is taken out, or put in.
LEMMA TakeMoving ==
  ASSUME NEW N, NEW f, NEW p \in OnWay(N, f), Single(OnWay(N, f))
  PROVE  /\ OnWay(N \ {p}, f) = OnWay(N, f) \ {p} /\ AcksIn(N \ {p}, f) = AcksIn(N, f)
         /\ SeqsIn(OnWay(N \ {p}, f)) = SeqsIn(OnWay(N, f)) \ {p.seq}
         /\ Single(OnWay(N \ {p}, f)) /\ p.seq \in SeqsIn(OnWay(N, f))
<1>1. OnWay(N \ {p}, f) = OnWay(N, f) \ {p}
  BY DEF OnWay
<1>2. AcksIn(N \ {p}, f) = AcksIn(N, f)
  BY DEF OnWay, AcksIn
<1> DEFINE P == OnWay(N, f)
<1> HIDE DEF P
<1>3. P = OnWay(N, f)
  BY DEF P
<1>4. SeqsIn(P \ {p}) = SeqsIn(P) \ {p.seq} /\ Single(P \ {p}) /\ p.seq \in SeqsIn(P)
  BY <1>3 DEF SeqsIn, Single
<1> QED
  BY <1>1, <1>2, <1>3, <1>4

LEMMA PutMoving ==
  ASSUME NEW N, NEW f, NEW p, p.flow = f, p.type \in {"full", "header", "bounced", "nack"},
         Single(OnWay(N, f)), p.seq \notin SeqsIn(OnWay(N, f))
  PROVE  /\ OnWay(N \cup {p}, f) = OnWay(N, f) \cup {p} /\ AcksIn(N \cup {p}, f) = AcksIn(N, f)
         /\ SeqsIn(OnWay(N \cup {p}, f)) = SeqsIn(OnWay(N, f)) \cup {p.seq}
         /\ Single(OnWay(N \cup {p}, f))
<1>1. OnWay(N \cup {p}, f) = OnWay(N, f) \cup {p}
  BY DEF OnWay
<1>2. AcksIn(N \cup {p}, f) = AcksIn(N, f)
  BY DEF AcksIn
<1> DEFINE P == OnWay(N, f)
<1> HIDE DEF P
<1>3. P = OnWay(N, f)
  BY DEF P
<1>4. SeqsIn(P \cup {p}) = SeqsIn(P) \cup {p.seq} /\ Single(P \cup {p})
  BY <1>3 DEF SeqsIn, Single
<1> QED
  BY <1>1, <1>2, <1>3, <1>4

\* An ack is taken out, or put in.
LEMMA TakeAck ==
  ASSUME NEW N, NEW f, NEW p \in AcksIn(N, f), IsFiniteSet(N)
  PROVE  /\ OnWay(N \ {p}, f) = OnWay(N, f) /\ AcksIn(N \ {p}, f) \subseteq AcksIn(N, f)
         /\ Ahead(N \ {p}, f) = Ahead(N, f)
         /\ Cardinality(AcksIn(N \ {p}, f)) = Cardinality(AcksIn(N, f)) - 1
<1>1. AcksIn(N \ {p}, f) = AcksIn(N, f) \ {p}
  BY DEF AcksIn
<1>2. OnWay(N \ {p}, f) = OnWay(N, f) /\ Ahead(N \ {p}, f) = Ahead(N, f)
  BY DEF OnWay, Ahead, AcksIn
<1>3. IsFiniteSet(AcksIn(N, f))
  BY FS_Subset DEF AcksIn
<1>4. Cardinality(AcksIn(N, f) \ {p}) = Cardinality(AcksIn(N, f)) - 1
  BY <1>3, FS_RemoveElement
<1> QED
  BY <1>1, <1>2, <1>4

LEMMA PutAck ==
  ASSUME NEW N, NEW f, NEW p, p.flow = f, p.type = "ack", IsFiniteSet(N),
         Single(AcksIn(N, f)), p.seq \notin SeqsIn(AcksIn(N, f))
  PROVE  /\ OnWay(N \cup {p}, f) = OnWay(N, f) /\ Ahead(N \cup {p}, f) = Ahead(N, f)
         /\ SeqsIn(AcksIn(N \cup {p}, f)) = SeqsIn(AcksIn(N, f)) \cup {p.seq}
         /\ Single(AcksIn(N \cup {p}, f))
         /\ Cardinality(AcksIn(N \cup {p}, f)) = Cardinality(AcksIn(N, f)) + 1
<1>1. AcksIn(N \cup {p}, f) = AcksIn(N, f) \cup {p}
  BY DEF AcksIn
<1>2. OnWay(N \cup {p}, f) = OnWay(N, f) /\ Ahead(N \cup {p}, f) = Ahead(N, f)
  BY DEF OnWay, Ahead
<1> DEFINE P == AcksIn(N, f)
<1>3. IsFiniteSet(P)
  BY FS_Subset DEF AcksIn
<1> HIDE DEF P
<1>4. P = AcksIn(N, f)
  BY DEF P
<1>5. SeqsIn(P \cup {p}) = SeqsIn(P) \cup {p.seq} /\ Single(P \cup {p}) /\ p \notin P
  BY <1>4 DEF SeqsIn, Single
<1>6. Cardinality(P \cup {p}) = Cardinality(P) + 1
  BY <1>3, <1>5, FS_AddElement
<1> QED
  BY <1>1, <1>2, <1>4, <1>5, <1>6

\* The packets that have not reached the receiver are counted.
LEMMA AheadFinite ==
  ASSUME NEW N, NEW f, IsFiniteSet(N)
  PROVE  IsFiniteSet(Ahead(N, f)) /\ Cardinality(Ahead(N, f)) \in Nat
  BY FS_Subset, FS_CardinalityType DEF Ahead

LEMMA TakeAhead ==
  ASSUME NEW N, NEW f, NEW p \in Ahead(N, f), IsFiniteSet(N)
  PROVE  Cardinality(Ahead(N \ {p}, f)) = Cardinality(Ahead(N, f)) - 1
<1>1. Ahead(N \ {p}, f) = Ahead(N, f) \ {p}
  BY DEF Ahead
<1> QED
  BY <1>1, AheadFinite, FS_RemoveElement

LEMMA PutAhead ==
  ASSUME NEW N, NEW f, NEW p, IsFiniteSet(N)
  PROVE  Cardinality(Ahead(N \cup {p}, f)) <= Cardinality(Ahead(N, f)) + 1
<1>1. Ahead(N \cup {p}, f) = Ahead(N, f) \/ Ahead(N \cup {p}, f) = Ahead(N, f) \cup {p}
  BY DEF Ahead
<1>2. IsFiniteSet(Ahead(N, f)) /\ Cardinality(Ahead(N, f)) \in Nat
  BY AheadFinite
<1>3. Cardinality(Ahead(N, f) \cup {p}) <= Cardinality(Ahead(N, f)) + 1
  BY <1>2, FS_AddElement
<1>4. CASE Ahead(N \cup {p}, f) = Ahead(N, f)
  BY <1>2, <1>4
<1>5. CASE Ahead(N \cup {p}, f) = Ahead(N, f) \cup {p}
  BY <1>3, <1>5
<1> QED
  BY <1>1, <1>4, <1>5

-----------------------------------------------------------------------------
(* The source sends.                                                       *)

\* What sending leaves alone.
Kept(s, t) ==
  /\ t.started = s.started /\ t.size = s.size /\ t.lastPull = s.lastPull
  /\ t.highest >= s.highest

LEMMA RtxUpdate ==
  ASSUME NEW s \in SrcRecord, NEW x \in Seq(Again), NEW u, u = [s EXCEPT !.rtx = x]
  PROVE  /\ u \in SrcRecord /\ Kept(s, u) /\ u.rtx = x
         /\ u.highest = s.highest /\ u.flight = s.flight
<1>1. u \in SrcRecord /\ u.rtx = x
  BY DEF SrcRecord, Again
<1>2. /\ u.highest = s.highest /\ u.flight = s.flight /\ u.started = s.started
      /\ u.size = s.size /\ u.lastPull = s.lastPull /\ s.highest \in Nat
  BY DEF SrcRecord
<1> QED
  BY <1>1, <1>2 DEF Kept

LEMMA NewUpdate ==
  ASSUME NEW s \in SrcRecord, NEW u,
         u = [s EXCEPT !.highest = s.highest + 1, !.flight = s.flight + 1]
  PROVE  /\ u \in SrcRecord /\ Kept(s, u) /\ u.rtx = s.rtx
         /\ u.highest = s.highest + 1 /\ u.flight = s.flight + 1
<1>1. s.highest + 1 \in Nat /\ s.flight + 1 \in Int /\ s.highest \in Nat
  BY DEF SrcRecord
<1>2. u \in SrcRecord
  BY <1>1 DEF SrcRecord
<1>3. /\ u.highest = s.highest + 1 /\ u.flight = s.flight + 1 /\ u.started = s.started
      /\ u.size = s.size /\ u.lastPull = s.lastPull /\ u.rtx = s.rtx
  BY DEF SrcRecord
<1> QED
  BY <1>1, <1>2, <1>3 DEF Kept

\* The cases of send_packet with u the new source record and p the packet.
Resends(f, s, O, t, u, p) ==
  /\ s.rtx # <<>>
  /\ u = [s EXCEPT !.rtx = Tail(s.rtx)]
  /\ p = FullPkt(f, Head(s.rtx).seq, Head(s.rtx).last)
  /\ t = [s |-> u, out |-> O \cup {p}]

SendsNew(f, s, O, t, u, p) ==
  /\ u = [s EXCEPT !.highest = s.highest + 1, !.flight = s.flight + 1]
  /\ p = FullPkt(f, s.highest + 1, s.highest + 1 >= s.size)
  /\ t = [s |-> u, out |-> O \cup {p}]

LEMMA SendPacketCases ==
  ASSUME NEW f, NEW s, NEW O, NEW t, t = SendPacket(f, [s |-> s, out |-> O])
  PROVE  \/ t = [s |-> s, out |-> O]
         \/ \E u, p : Resends(f, s, O, t, u, p)
         \/ \E u, p : SendsNew(f, s, O, t, u, p)
  BY DEF SendPacket, Resends, SendsNew

\* At most one full packet comes out.
OneMore(f, O, X) == X = O \/ \E n \in Nat, l \in BOOLEAN : X = O \cup {FullPkt(f, n, l)}

LEMMA SendPacketType ==
  ASSUME NEW f \in Flows, NEW s \in SrcRecord, NEW O, NEW t, NdpConstants,
         t = SendPacket(f, [s |-> s, out |-> O])
  PROVE  t = [s |-> t.s, out |-> t.out] /\ t.s \in SrcRecord /\ Kept(s, t.s)
         /\ OneMore(f, O, t.out)
<1>1. s.highest \in Nat
  BY DEF SrcRecord
<1>2. CASE t = [s |-> s, out |-> O]
  BY <1>1, <1>2 DEF Kept, OneMore
<1>3. ASSUME NEW u, NEW p, Resends(f, s, O, t, u, p)
      PROVE  t = [s |-> t.s, out |-> t.out] /\ t.s \in SrcRecord /\ Kept(s, t.s)
             /\ OneMore(f, O, t.out)
  <2>1. s.rtx \in Seq(Again)
    BY DEF SrcRecord, Again
  <2>2. Tail(s.rtx) \in Seq(Again) /\ Head(s.rtx) \in Again
    BY <1>3, <2>1 DEF Resends
  <2>3. u \in SrcRecord /\ Kept(s, u)
    BY <1>3, <2>2, RtxUpdate DEF Resends
  <2>4. Head(s.rtx).seq \in Nat /\ Head(s.rtx).last \in BOOLEAN
    BY <2>2 DEF Again
  <2>5. t.s = u /\ t.out = O \cup {p}
    BY <1>3 DEF Resends
  <2>6. OneMore(f, O, t.out)
    BY <1>3, <2>4, <2>5 DEF Resends, OneMore
  <2> QED
    BY <1>3, <2>3, <2>5, <2>6 DEF Resends
<1>4. ASSUME NEW u, NEW p, SendsNew(f, s, O, t, u, p)
      PROVE  t = [s |-> t.s, out |-> t.out] /\ t.s \in SrcRecord /\ Kept(s, t.s)
             /\ OneMore(f, O, t.out)
  <2>1. u \in SrcRecord /\ Kept(s, u)
    BY <1>4, NewUpdate DEF SendsNew
  <2>2. s.highest + 1 \in Nat /\ (s.highest + 1 >= s.size) \in BOOLEAN
    BY <1>1
  <2>3. t.s = u /\ t.out = O \cup {p}
    BY <1>4 DEF SendsNew
  <2>4. OneMore(f, O, t.out)
    BY <1>4, <2>2, <2>3 DEF SendsNew, OneMore
  <2> QED
    BY <1>4, <2>1, <2>3, <2>4 DEF SendsNew
<1> QED
  BY <1>2, <1>3, <1>4, SendPacketCases

\* A packet that is sent leaves the retransmission queue, or is new.
LEMMA SendPacketTidy ==
  ASSUME NEW f \in Flows, NEW s \in SrcRecord, NEW O, NEW k, NEW B, NEW t, NdpConstants,
         t = SendPacket(f, [s |-> s, out |-> O]),
         IsFiniteSet(B \cup O), Tidy(f, s, k, B \cup O)
  PROVE  Tidy(f, t.s, k, B \cup t.out)
<1> DEFINE N == B \cup O
<1>1. s.highest \in Nat /\ s.flight \in Int
  BY DEF SrcRecord
<1>2. Divided(f, s, k, N) /\ Balanced(f, s, k, N)
  BY DEF Tidy
<1>3. Single(OnWay(N, f)) /\ Distinct(s.rtx)
  BY <1>2 DEF Divided
<1>4. CASE t = [s |-> s, out |-> O]
  BY <1>4
<1>5. ASSUME NEW u, NEW p, Resends(f, s, O, t, u, p) PROVE Tidy(f, t.s, k, B \cup t.out)
  <2>1. s.rtx \in Seq(Again)
    BY DEF SrcRecord, Again
  <2>2. /\ Tail(s.rtx) \in Seq(Again) /\ Distinct(Tail(s.rtx))
        /\ SeqsOf(s.rtx) = SeqsOf(Tail(s.rtx)) \cup {Head(s.rtx).seq}
        /\ Head(s.rtx).seq \notin SeqsOf(Tail(s.rtx))
    BY <1>3, <1>5, <2>1, SeqsTail DEF Resends
  <2>3. u.rtx = Tail(s.rtx) /\ u.highest = s.highest /\ u.flight = s.flight
    BY <1>5, <2>2, RtxUpdate DEF Resends
  <2>4. p.flow = f /\ p.type = "full" /\ p.seq = Head(s.rtx).seq
    BY <1>5 DEF FullPkt, Resends
  <2>5. t.s = u /\ B \cup t.out = N \cup {p}
    BY <1>5 DEF Resends
  <2> HIDE DEF N
  <2>6. p.seq \notin SeqsIn(OnWay(N, f))
    BY <1>2, <2>2, <2>4 DEF Divided
  <2>7. p.type \in {"full", "header", "bounced", "nack"}
    BY <2>4
  <2>8. /\ AcksIn(N \cup {p}, f) = AcksIn(N, f)
        /\ SeqsIn(OnWay(N \cup {p}, f)) = SeqsIn(OnWay(N, f)) \cup {p.seq}
        /\ Single(OnWay(N \cup {p}, f))
    BY <1>3, <2>4, <2>6, <2>7, PutMoving DEF Resends
  <2>9. Divided(f, u, k, N \cup {p})
    <3>1. /\ SeqsIn(OnWay(N, f)) \cup SeqsOf(s.rtx) \cup HeldBy(k) = 1 .. s.highest
          /\ SeqsIn(OnWay(N, f)) \cap SeqsOf(s.rtx) = {}
          /\ SeqsIn(OnWay(N, f)) \cap HeldBy(k) = {}
          /\ SeqsOf(s.rtx) \cap HeldBy(k) = {}
      BY <1>2 DEF Divided
    <3>2. SeqsOf(s.rtx) = SeqsOf(u.rtx) \cup {p.seq} /\ p.seq \notin SeqsOf(u.rtx)
      BY <2>2, <2>3, <2>4
    <3>3. SeqsIn(OnWay(N \cup {p}, f)) \cup SeqsOf(u.rtx) \cup HeldBy(k) = 1 .. u.highest
      BY <2>3, <2>8, <3>1, <3>2
    <3>4. /\ SeqsIn(OnWay(N \cup {p}, f)) \cap SeqsOf(u.rtx) = {}
          /\ SeqsIn(OnWay(N \cup {p}, f)) \cap HeldBy(k) = {}
          /\ SeqsOf(u.rtx) \cap HeldBy(k) = {}
      BY <2>8, <3>1, <3>2
    <3>5. Distinct(u.rtx)
      BY <2>2, <2>3
    <3> QED
      BY <2>8, <3>3, <3>4, <3>5 DEF Divided
  <2>10. Balanced(f, u, k, N \cup {p})
    BY <1>2, <2>3, <2>8 DEF Balanced
  <2> QED
    BY <2>5, <2>9, <2>10 DEF Tidy
<1>6. ASSUME NEW u, NEW p, SendsNew(f, s, O, t, u, p) PROVE Tidy(f, t.s, k, B \cup t.out)
  <2>1. u.rtx = s.rtx /\ u.highest = s.highest + 1 /\ u.flight = s.flight + 1
    BY <1>6, NewUpdate DEF SendsNew
  <2>2. p.flow = f /\ p.type = "full" /\ p.seq = s.highest + 1
    BY <1>6 DEF FullPkt, SendsNew
  <2>3. t.s = u /\ B \cup t.out = N \cup {p}
    BY <1>6 DEF SendsNew
  <2>4. IsFiniteSet(AcksIn(N, f)) /\ IsFiniteSet(HeldBy(k))
    <3>1. HeldBy(k) \subseteq 1 .. s.highest
      BY <1>2 DEF Divided
    <3>2. IsFiniteSet(1 .. s.highest)
      <4>1. 1 \in Int /\ s.highest \in Int
        BY <1>1
      <4> QED
        BY <4>1, FS_Interval
    <3>3. AcksIn(N, f) \subseteq N
      BY DEF AcksIn
    <3> QED
      BY <3>1, <3>2, <3>3, FS_Subset
  <2> HIDE DEF N
  <2>5. p.seq \notin 1 .. s.highest /\ 1 .. u.highest = (1 .. s.highest) \cup {p.seq}
    BY <1>1, <2>1, <2>2
  <2>6. SeqsIn(OnWay(N, f)) \cup SeqsOf(s.rtx) \cup HeldBy(k) = 1 .. s.highest
    BY <1>2 DEF Divided
  <2>7. p.seq \notin SeqsIn(OnWay(N, f)) \cup SeqsOf(s.rtx) \cup HeldBy(k)
    BY <2>5, <2>6
  <2>8. /\ p.flow = f /\ p.type \in {"full", "header", "bounced", "nack"}
        /\ p.seq \notin SeqsIn(OnWay(N, f))
    BY <2>2, <2>7
  <2>9. /\ AcksIn(N \cup {p}, f) = AcksIn(N, f)
        /\ SeqsIn(OnWay(N \cup {p}, f)) = SeqsIn(OnWay(N, f)) \cup {p.seq}
        /\ Single(OnWay(N \cup {p}, f))
    BY <1>3, <2>8, PutMoving
  <2>10. Divided(f, u, k, N \cup {p})
    <3>1. SeqsIn(OnWay(N \cup {p}, f)) \cup SeqsOf(u.rtx) \cup HeldBy(k) = 1 .. u.highest
      BY <2>1, <2>5, <2>6, <2>9
    <3>2. /\ SeqsIn(OnWay(N, f)) \cap SeqsOf(s.rtx) = {}
          /\ SeqsIn(OnWay(N, f)) \cap HeldBy(k) = {}
          /\ SeqsOf(s.rtx) \cap HeldBy(k) = {} /\ Distinct(s.rtx)
      BY <1>2 DEF Divided
    <3>3. /\ SeqsIn(OnWay(N \cup {p}, f)) \cap SeqsOf(s.rtx) = {}
          /\ SeqsIn(OnWay(N \cup {p}, f)) \cap HeldBy(k) = {}
      BY <2>7, <2>9, <3>2
    <3> QED
      BY <2>1, <2>9, <3>1, <3>2, <3>3 DEF Divided
  <2>11. Balanced(f, u, k, N \cup {p})
    <3>1. s.flight = s.highest - Cardinality(HeldBy(k)) + Cardinality(AcksIn(N, f))
      BY <1>2 DEF Balanced
    <3>2. Cardinality(HeldBy(k)) \in Int /\ Cardinality(AcksIn(N, f)) \in Int
      BY <2>4, FS_CardinalityType
    <3>3. u.flight = u.highest - Cardinality(HeldBy(k)) + Cardinality(AcksIn(N, f))
      BY <1>1, <2>1, <3>1, <3>2
    <3> QED
      BY <1>2, <2>9, <3>3 DEF Balanced
  <2> QED
    BY <2>3, <2>10, <2>11 DEF Tidy
<1> QED
  BY <1>4, <1>5, <1>6, SendPacketCases

\* What holds after at most i sends of flow f, which had the record s.
Sent(f, s, k, B, i, r) ==
  /\ r = [s |-> r.s, out |-> r.out] /\ r.s \in SrcRecord /\ Kept(s, r.s)
  /\ r.out \subseteq [type : {"full"}, flow : {f}, seq : Nat, last : BOOLEAN]
  /\ IsFiniteSet(B \cup r.out) /\ Tidy(f, r.s, k, B \cup r.out)
  /\ Cardinality(Ahead(B \cup r.out, f)) <= Cardinality(Ahead(B, f)) + i

LEMMA SentNothing ==
  ASSUME NEW f \in Flows, NEW s \in SrcRecord, NEW k, NEW B, NEW r, IsFiniteSet(B),
         Tidy(f, s, k, B), r = [s |-> s, out |-> {}]
  PROVE  Sent(f, s, k, B, 0, r)
<1>1. r.s = s /\ r.out = {} /\ B \cup r.out = B
  OBVIOUS
<1>2. s.highest \in Nat
  BY DEF SrcRecord
<1>3. Kept(s, s)
  BY <1>2 DEF Kept
<1>4. Cardinality(Ahead(B, f)) <= Cardinality(Ahead(B, f)) + 0
  BY AheadFinite
<1> QED
  BY <1>1, <1>3, <1>4 DEF Sent

LEMMA SentOneMore ==
  ASSUME NEW f \in Flows, NEW s \in SrcRecord, NEW k, NEW B, NEW i \in Nat, NEW r, NEW t,
         NdpConstants, IsFiniteSet(B), Sent(f, s, k, B, i, r), t = SendPacket(f, r)
  PROVE  Sent(f, s, k, B, i + 1, t)
<1> DEFINE u == r.s
           O == r.out
           N == B \cup O
<1>1. /\ r = [s |-> u, out |-> O] /\ u \in SrcRecord /\ Kept(s, u)
      /\ O \subseteq [type : {"full"}, flow : {f}, seq : Nat, last : BOOLEAN]
      /\ IsFiniteSet(N) /\ Tidy(f, u, k, N)
      /\ Cardinality(Ahead(N, f)) <= Cardinality(Ahead(B, f)) + i
  BY DEF Sent
<1> HIDE DEF u, O
<1>2. t = SendPacket(f, [s |-> u, out |-> O])
  BY <1>1
<1>3. /\ t = [s |-> t.s, out |-> t.out] /\ t.s \in SrcRecord /\ Kept(u, t.s)
      /\ OneMore(f, O, t.out)
  BY <1>1, <1>2, SendPacketType
<1>4. Tidy(f, t.s, k, B \cup t.out)
  BY <1>1, <1>2, SendPacketTidy
<1>5. Kept(s, t.s)
  <2>1. s.highest \in Nat /\ u.highest \in Nat /\ t.s.highest \in Nat
    BY <1>1, <1>3 DEF SrcRecord
  <2> QED
    BY <1>1, <1>3, <2>1 DEF Kept
<1>6. /\ Cardinality(Ahead(B, f)) \in Nat /\ Cardinality(Ahead(N, f)) \in Nat
  BY <1>1, AheadFinite
<1>7. CASE t.out = O
  <2>1. Cardinality(Ahead(N, f)) <= Cardinality(Ahead(B, f)) + (i + 1)
    BY <1>1, <1>6
  <2> QED
    BY <1>1, <1>3, <1>4, <1>5, <1>7, <2>1 DEF Sent
<1>8. ASSUME NEW n \in Nat, NEW l \in BOOLEAN, t.out = O \cup {FullPkt(f, n, l)}
      PROVE  Sent(f, s, k, B, i + 1, t)
  <2> DEFINE p == FullPkt(f, n, l)
  <2>1. p \in [type : {"full"}, flow : {f}, seq : Nat, last : BOOLEAN]
    BY DEF FullPkt
  <2>2. B \cup t.out = N \cup {p}
    BY <1>8
  <2> HIDE DEF p
  <2>3. IsFiniteSet(N \cup {p})
    BY <1>1, FS_AddElement
  <2> HIDE DEF N
  <2>4. Cardinality(Ahead(N \cup {p}, f)) <= Cardinality(Ahead(N, f)) + 1
    BY <1>1, PutAhead
  <2>5. Cardinality(Ahead(N \cup {p}, f)) \in Nat
    BY <2>3, AheadFinite
  <2>6. Cardinality(Ahead(N \cup {p}, f)) <= Cardinality(Ahead(B, f)) + (i + 1)
    BY <1>1, <1>6, <2>4, <2>5
  <2>7. t.out \subseteq [type : {"full"}, flow : {f}, seq : Nat, last : BOOLEAN]
    BY <1>1, <1>8, <2>1 DEF p
  <2> QED
    BY <1>3, <1>4, <1>5, <2>2, <2>3, <2>6, <2>7 DEF Sent
<1> QED
  BY <1>3, <1>7, <1>8 DEF OneMore

\* The calls of send_packet one after the other: a[i] is the result of i calls.
Sending(a, f, s, i) ==
  IF i = 0 THEN [s |-> s, out |-> {}] ELSE SendPacket(f, a[i - 1])

Sends(a, f, s, n) == a = [i \in 0 .. n |-> Sending(a, f, s, i)]

LEMMA SendsExist ==
  ASSUME NEW f, NEW s, NEW n \in Nat
  PROVE  \E a : Sends(a, f, s, n)
<1> DEFINE T == {m \in Nat : ~ \E a : Sends(a, f, s, m)}
<1> SUFFICES ASSUME T # {} PROVE FALSE
  OBVIOUS
<1>1. PICK m \in T : \A i \in T : m <= i
  <2>1. T \in SUBSET Nat
    OBVIOUS
  <2> HIDE DEF T
  <2> QED
    BY <2>1, LeastNumber
<1>2. CASE m = 0
  <2>1. 0 .. 0 = {0}
    OBVIOUS
  <2> DEFINE a == [i \in {0} |-> [s |-> s, out |-> {}]]
  <2>2. Sends(a, f, s, 0)
    BY <2>1 DEF Sends, Sending
  <2> QED
    BY <1>1, <1>2, <2>2
<1>3. CASE m # 0
  <2>1. m - 1 \in Nat /\ m - 1 \notin T /\ m = (m - 1) + 1
    BY <1>1, <1>3
  <2>2. PICK b : Sends(b, f, s, m - 1)
    BY <2>1
  <2> DEFINE a == [i \in 0 .. m |-> Sending(b, f, s, i)]
  <2>3. ASSUME NEW i \in 0 .. m - 1 PROVE a[i] = b[i]
    BY <2>1, <2>2 DEF Sends
  <2>4. ASSUME NEW i \in 0 .. m PROVE Sending(b, f, s, i) = Sending(a, f, s, i)
    <3> HIDE DEF a
    <3>1. i = 0 \/ i - 1 \in 0 .. m - 1
      BY <2>1
    <3> QED
      BY <2>3, <3>1 DEF Sending
  <2>5. Sends(a, f, s, m)
    <3> DEFINE A(i) == Sending(b, f, s, i)
               C(i) == Sending(a, f, s, i)
    <3>1. a = [i \in 0 .. m |-> A(i)]
      OBVIOUS
    <3>2. \A i \in 0 .. m : A(i) = C(i)
      BY <2>4
    <3> HIDE DEF A, C
    <3>3. [i \in 0 .. m |-> A(i)] = [i \in 0 .. m |-> C(i)]
      BY <3>2
    <3>4. a = [i \in 0 .. m |-> C(i)]
      BY <3>1, <3>3
    <3> QED
      BY <3>4 DEF C, Sends
  <2> QED
    BY <1>1, <2>5
<1> QED
  BY <1>2, <1>3

LEMMA SendIsSends ==
  ASSUME NEW f, NEW s, NEW n \in Nat
  PROVE  \E a : Sends(a, f, s, n) /\ Send(f, s, n) = a[n]
<1> DEFINE a == CHOOSE a : Sends(a, f, s, n)
<1>1. Sends(a, f, s, n)
  BY SendsExist
<1>2. Send(f, s, n) = a[n]
  BY DEF Send, Sends, Sending
<1> QED
  BY <1>1, <1>2

\* n calls of send_packet.
LEMMA SendSends ==
  ASSUME NEW f \in Flows, NEW s \in SrcRecord, NEW k, NEW B, NEW n \in Nat,
         NdpConstants, IsFiniteSet(B), Tidy(f, s, k, B)
  PROVE  Sent(f, s, k, B, n, Send(f, s, n))
<1>1. PICK a : Sends(a, f, s, n) /\ Send(f, s, n) = a[n]
  BY SendIsSends
<1> DEFINE T == {i \in 0 .. n : ~Sent(f, s, k, B, i, a[i])}
<1> SUFFICES ASSUME T # {} PROVE FALSE
  BY <1>1
<1>2. PICK i \in T : \A j \in T : i <= j
  <2>1. T \in SUBSET Nat
    OBVIOUS
  <2> HIDE DEF T
  <2> QED
    BY <2>1, LeastNumber
<1>3. i \in 0 .. n /\ ~Sent(f, s, k, B, i, a[i]) /\ a[i] = Sending(a, f, s, i)
  BY <1>1, <1>2 DEF Sends
<1>4. CASE i = 0
  BY <1>3, <1>4, SentNothing DEF Sending
<1>5. CASE i # 0
  <2>1. i - 1 \in Nat /\ i - 1 \in 0 .. n /\ (i - 1) + 1 = i /\ ~(i <= i - 1)
    BY <1>3, <1>5
  <2>2. Sent(f, s, k, B, i - 1, a[i - 1])
    BY <1>2, <2>1
  <2>3. a[i] = SendPacket(f, a[i - 1])
    BY <1>3, <1>5 DEF Sending
  <2>4. Sent(f, s, k, B, (i - 1) + 1, a[i])
    BY <2>1, <2>2, <2>3, SentOneMore
  <2> QED
    BY <1>3, <2>1, <2>4
<1> QED
  BY <1>4, <1>5

-----------------------------------------------------------------------------
(* The source receives.                                                    *)

LEMMA PacketKinds ==
  ASSUME NEW p \in Packet
  PROVE  /\ p.flow \in Flows
         /\ p.type \in {"full", "header", "bounced", "ack", "nack", "pull"}
         /\ p.type \in {"full", "header", "bounced"} => p.seq \in Nat /\ p.last \in BOOLEAN
         /\ p.type \in {"ack", "nack"} => p.seq \in Nat /\ p.cum \in Nat /\ p.pullNo \in Nat
         /\ p.type = "pull" => p.cum \in Nat /\ p.pullNo \in Nat
  BY DEF Packet

\* What Tidy reads of a source.
LEMMA SameSource ==
  ASSUME NEW f, NEW s, NEW u, NEW k, NEW N,
         u.rtx = s.rtx, u.highest = s.highest, u.flight = s.flight
  PROVE  Tidy(f, u, k, N) <=> Tidy(f, s, k, N)
  BY DEF Tidy, Divided, Balanced

\* What holds when the source, with the record s, has answered a packet.
Answered(f, s, k, B, r) ==
  /\ r.s \in SrcRecord /\ r.s.started = s.started
  /\ r.out \subseteq [type : {"full"}, flow : {f}, seq : Nat, last : BOOLEAN]
  /\ IsFiniteSet(B \cup r.out)
  /\ Tidy(f, r.s, k, B \cup r.out) /\ Windowed(f, r.s, k, B \cup r.out)

\* The packets that are pulled are paid for by the pulls.
LEMMA PullsAnswered ==
  ASSUME NEW f \in Flows, NEW s \in SrcRecord, NEW k \in SnkRecord, NEW B, NEW no \in Nat,
         NdpConstants, IsFiniteSet(B), Tidy(f, s, k, B), Windowed(f, s, k, B)
  PROVE  Answered(f, s, k, B, PullPackets(f, s, no))
<1> DEFINE d == IF no > s.lastPull THEN no - s.lastPull ELSE 0
           last == IF no > s.lastPull THEN no ELSE s.lastPull
           r == Send(f, s, d)
           t == PullPackets(f, s, no)
<1>1. s.lastPull \in Nat /\ k.pullNo \in Nat /\ Cwnd \in Nat
  BY DEF SrcRecord, SnkRecord, NdpConstants
<1>2. d \in Nat /\ last \in Nat /\ last = s.lastPull + d
  BY <1>1
<1> HIDE DEF d
<1>3. Sent(f, s, k, B, d, r)
  BY <1>2, SendSends
<1> HIDE DEF r
<1>4. /\ r = [s |-> r.s, out |-> r.out] /\ r.s \in SrcRecord /\ Kept(s, r.s)
      /\ r.out \subseteq [type : {"full"}, flow : {f}, seq : Nat, last : BOOLEAN]
      /\ IsFiniteSet(B \cup r.out) /\ Tidy(f, r.s, k, B \cup r.out)
      /\ Cardinality(Ahead(B \cup r.out, f)) <= Cardinality(Ahead(B, f)) + d
  BY <1>3 DEF Sent
<1>5. t = [r EXCEPT !.s.lastPull = IF no > @ THEN no ELSE @]
  BY DEF PullPackets, r, d
<1> DEFINE x == r.s
           O == r.out
           u == [x EXCEPT !.lastPull = last]
<1> HIDE DEF last
<1>6. x.lastPull = s.lastPull
  BY <1>4 DEF Kept
<1>7. t = [s |-> u, out |-> O]
  <2>1. r = [s |-> x, out |-> O]
    BY <1>4
  <2> HIDE DEF x, O
  <2>2. t = [s |-> [x EXCEPT !.lastPull = IF no > x.lastPull THEN no ELSE x.lastPull],
             out |-> O]
    BY <1>5, <2>1
  <2> QED
    BY <1>6, <2>2 DEF last
<1>8. x \in SrcRecord /\ x.started = s.started
  BY <1>4 DEF Kept
<1> HIDE DEF x, O, t
<1>9. /\ u \in SrcRecord /\ u.started = s.started /\ u.lastPull = last
      /\ u.rtx = x.rtx /\ u.highest = x.highest /\ u.flight = x.flight
  BY <1>2, <1>8 DEF SrcRecord
<1> HIDE DEF u
<1>10. t.s = u /\ t.out = O
  BY <1>7
<1>11. Tidy(f, u, k, B \cup O)
  BY <1>4, <1>9, SameSource DEF x, O
<1>12. Windowed(f, u, k, B \cup O)
  <2>1. Cardinality(Ahead(B, f)) \in Nat
    BY AheadFinite
  <2>2. Cardinality(Ahead(B \cup O, f)) \in Nat
    BY <1>4, AheadFinite DEF O
  <2>3. Cardinality(Ahead(B \cup O, f)) <= Cardinality(Ahead(B, f)) + d
    BY <1>4 DEF O
  <2>4. Cardinality(Ahead(B, f)) + k.pullNo - s.lastPull <= Cwnd
    BY DEF Windowed
  <2> QED
    BY <1>1, <1>2, <1>9, <2>1, <2>2, <2>3, <2>4 DEF Windowed
<1>13. IsFiniteSet(B \cup O) /\ O \subseteq [type : {"full"}, flow : {f}, seq : Nat, last : BOOLEAN]
  BY <1>4 DEF O
<1>14. Answered(f, s, k, B, t)
  BY <1>9, <1>10, <1>11, <1>12, <1>13 DEF Answered
<1> QED
  BY <1>14 DEF t

\* Nothing is sent.
LEMMA NothingAnswered ==
  ASSUME NEW f \in Flows, NEW s \in SrcRecord, NEW k \in SnkRecord, NEW B, NEW r,
         IsFiniteSet(B), Tidy(f, s, k, B), Windowed(f, s, k, B), r = [s |-> s, out |-> {}]
  PROVE  Answered(f, s, k, B, r)
<1>1. r.s = s /\ r.out = {} /\ B \cup r.out = B
  OBVIOUS
<1> QED
  BY <1>1 DEF Answered

\* A packet that was lost goes from the network to the retransmission queue.
LEMMA Requeued ==
  ASSUME NEW f \in Flows, NEW s \in SrcRecord, NEW q \in SrcRecord, NEW k, NEW N,
         NEW p \in OnWay(N, f), Tidy(f, s, k, N),
         SeqsOf(q.rtx) = SeqsOf(s.rtx) \cup {p.seq},
         Distinct(s.rtx) /\ p.seq \notin SeqsOf(s.rtx) => Distinct(q.rtx),
         q.highest = s.highest, q.flight = s.flight
  PROVE  Tidy(f, q, k, N \ {p})
<1>1. Divided(f, s, k, N) /\ Balanced(f, s, k, N)
  BY DEF Tidy
<1>2. /\ SeqsIn(OnWay(N, f)) \cup SeqsOf(s.rtx) \cup HeldBy(k) = 1 .. s.highest
      /\ SeqsIn(OnWay(N, f)) \cap SeqsOf(s.rtx) = {}
      /\ SeqsIn(OnWay(N, f)) \cap HeldBy(k) = {}
      /\ SeqsOf(s.rtx) \cap HeldBy(k) = {}
      /\ Single(OnWay(N, f)) /\ Distinct(s.rtx)
  BY <1>1 DEF Divided
<1>3. /\ AcksIn(N \ {p}, f) = AcksIn(N, f)
      /\ SeqsIn(OnWay(N \ {p}, f)) = SeqsIn(OnWay(N, f)) \ {p.seq}
      /\ Single(OnWay(N \ {p}, f)) /\ p.seq \in SeqsIn(OnWay(N, f))
  BY <1>2, TakeMoving
<1>4. Distinct(q.rtx)
  BY <1>2, <1>3
<1>5. SeqsIn(OnWay(N \ {p}, f)) \cup SeqsOf(q.rtx) \cup HeldBy(k) = 1 .. q.highest
  BY <1>2, <1>3
<1>6. /\ SeqsIn(OnWay(N \ {p}, f)) \cap SeqsOf(q.rtx) = {}
      /\ SeqsIn(OnWay(N \ {p}, f)) \cap HeldBy(k) = {}
      /\ SeqsOf(q.rtx) \cap HeldBy(k) = {}
  BY <1>2, <1>3
<1>7. Divided(f, q, k, N \ {p})
  BY <1>3, <1>4, <1>5, <1>6 DEF Divided
<1>8. Balanced(f, q, k, N \ {p})
  BY <1>1, <1>3 DEF Balanced
<1> QED
  BY <1>7, <1>8 DEF Tidy

LEMMA RTSAnswered ==
  ASSUME NEW f \in Flows, NEW s \in SrcRecord, NEW k \in SnkRecord, NEW N, NEW p, NEW bad,
         p.flow = f, p.type = "bounced", p.seq \in Nat, p.last \in BOOLEAN, p \in N,
         NdpConstants, IsFiniteSet(N), Tidy(f, s, k, N), Windowed(f, s, k, N)
  PROVE  Answered(f, s, k, N \ {p}, ProcessRTS(f, s, p, bad))
<1> DEFINE e == [seq |-> p.seq, last |-> p.last]
           x == <<e>> \o s.rtx
           q == [s EXCEPT !.first = @ - 1, !.rtx = x]
           B == N \ {p}
           r == ProcessRTS(f, s, p, bad)
<1>1. /\ s.rtx \in Seq(Again) /\ s.first - 1 \in Int /\ s.lastPull \in Nat
      /\ s.highest \in Nat
  BY DEF SrcRecord, Again
<1>2. e \in Again /\ e.seq = p.seq
  BY DEF Again
<1>3. /\ x \in Seq(Again) /\ SeqsOf(x) = SeqsOf(s.rtx) \cup {p.seq}
      /\ Distinct(s.rtx) /\ p.seq \notin SeqsOf(s.rtx) => Distinct(x)
  <2> HIDE DEF e
  <2> QED
    BY <1>1, <1>2, SeqsFront
<1>4. r = SendPacket(f, [s |-> q, out |-> {}]) \/ r = [s |-> q, out |-> {}]
  BY DEF ProcessRTS
<1> HIDE DEF x, r
<1>5. /\ q \in SrcRecord /\ q.started = s.started /\ q.lastPull = s.lastPull
      /\ q.rtx = x /\ q.highest = s.highest /\ q.flight = s.flight
  <2>1. q \in SrcRecord
    BY <1>1, <1>3 DEF SrcRecord, Again
  <2>2. /\ q.started = s.started /\ q.lastPull = s.lastPull
        /\ q.rtx = x /\ q.highest = s.highest /\ q.flight = s.flight
    BY DEF SrcRecord
  <2> QED
    BY <2>1, <2>2
<1> HIDE DEF q
<1>6. p \in OnWay(N, f) /\ p \in Ahead(N, f)
  BY DEF OnWay, Ahead
<1>7. Tidy(f, q, k, B)
  BY <1>3, <1>5, <1>6, Requeued
<1>8. IsFiniteSet(B)
  BY FS_Subset
<1>9. Cardinality(Ahead(B, f)) = Cardinality(Ahead(N, f)) - 1
  BY <1>6, TakeAhead
<1> HIDE DEF B
<1>10. Cardinality(Ahead(B, f)) \in Nat /\ Cardinality(Ahead(N, f)) \in Nat
  BY <1>8, AheadFinite
<1>11. Cardinality(Ahead(N, f)) + k.pullNo - s.lastPull <= Cwnd /\ k.pullNo \in Nat /\ Cwnd \in Nat
  BY DEF Windowed, SnkRecord, NdpConstants
<1>12. CASE r = [s |-> q, out |-> {}]
  <2>1. Windowed(f, q, k, B)
    BY <1>1, <1>5, <1>9, <1>10, <1>11 DEF Windowed
  <2>2. Answered(f, q, k, B, r)
    BY <1>5, <1>7, <1>8, <1>12, <2>1, NothingAnswered
  <2> QED
    BY <1>5, <2>2 DEF Answered, r, B
<1>13. CASE r = SendPacket(f, [s |-> q, out |-> {}])
  <2>1. Sent(f, q, k, B, 0, [s |-> q, out |-> {}])
    BY <1>5, <1>7, <1>8, SentNothing
  <2>2. Sent(f, q, k, B, 0 + 1, r)
    BY <1>5, <1>8, <1>13, <2>1, SentOneMore
  <2>3. /\ r.s \in SrcRecord /\ Kept(q, r.s)
        /\ r.out \subseteq [type : {"full"}, flow : {f}, seq : Nat, last : BOOLEAN]
        /\ IsFiniteSet(B \cup r.out) /\ Tidy(f, r.s, k, B \cup r.out)
        /\ Cardinality(Ahead(B \cup r.out, f)) <= Cardinality(Ahead(B, f)) + 1
    BY <2>2 DEF Sent
  <2>4. Cardinality(Ahead(B \cup r.out, f)) \in Nat
    BY <2>3, AheadFinite
  <2>5. r.s.lastPull = s.lastPull /\ r.s.started = s.started
    BY <1>5, <2>3 DEF Kept
  <2>6. Windowed(f, r.s, k, B \cup r.out)
    BY <1>1, <1>9, <1>10, <1>11, <2>3, <2>4, <2>5 DEF Windowed
  <2>7. Answered(f, s, k, B, r)
    BY <2>3, <2>5, <2>6 DEF Answered
  <2> QED
    BY <2>7 DEF r, B
<1> QED
  BY <1>4, <1>12, <1>13

LEMMA NackAnswered ==
  ASSUME NEW f \in Flows, NEW s \in SrcRecord, NEW k \in SnkRecord, NEW N, NEW p,
         p.flow = f, p.type = "nack", p.seq \in Nat, p.pullNo \in Nat, p \in N,
         NdpConstants, IsFiniteSet(N), Tidy(f, s, k, N), Windowed(f, s, k, N)
  PROVE  Answered(f, s, k, N \ {p}, ProcessNack(f, s, p))
<1> DEFINE e == [seq |-> p.seq, last |-> p.seq >= s.size]
           x == Append(s.rtx, e)
           q == [s EXCEPT !.window = @ + 1, !.first = @ - 1, !.rtx = x]
           B == N \ {p}
           r == ProcessNack(f, s, p)
<1>1. s.rtx \in Seq(Again) /\ s.first - 1 \in Int /\ s.window + 1 \in Int
  BY DEF SrcRecord, Again
<1>2. e \in Again /\ e.seq = p.seq
  BY DEF Again
<1>3. /\ x \in Seq(Again) /\ SeqsOf(x) = SeqsOf(s.rtx) \cup {p.seq}
      /\ Distinct(s.rtx) /\ p.seq \notin SeqsOf(s.rtx) => Distinct(x)
  <2> HIDE DEF e
  <2> QED
    BY <1>1, <1>2, SeqsAppend
<1>4. r = PullPackets(f, q, p.pullNo) \/ r = [s |-> q, out |-> {}]
  BY DEF ProcessNack
<1> HIDE DEF x, r
<1>5. /\ q \in SrcRecord /\ q.started = s.started /\ q.lastPull = s.lastPull
      /\ q.rtx = x /\ q.highest = s.highest /\ q.flight = s.flight
  <2>1. q \in SrcRecord
    BY <1>1, <1>3 DEF SrcRecord, Again
  <2>2. /\ q.started = s.started /\ q.lastPull = s.lastPull
        /\ q.rtx = x /\ q.highest = s.highest /\ q.flight = s.flight
    BY DEF SrcRecord
  <2> QED
    BY <2>1, <2>2
<1> HIDE DEF q
<1>6. p \in OnWay(N, f) /\ Ahead(B, f) = Ahead(N, f)
  BY DEF OnWay, Ahead
<1>7. Tidy(f, q, k, B)
  BY <1>3, <1>5, <1>6, Requeued
<1>8. IsFiniteSet(B)
  BY FS_Subset
<1>9. Windowed(f, q, k, B)
  BY <1>5, <1>6 DEF Windowed
<1>10. Answered(f, q, k, B, r)
  BY <1>4, <1>5, <1>7, <1>8, <1>9, NothingAnswered, PullsAnswered
<1> QED
  BY <1>5, <1>10 DEF Answered, r, B

LEMMA AckAnswered ==
  ASSUME NEW f \in Flows, NEW s \in SrcRecord, NEW k \in SnkRecord, NEW N, NEW p,
         p.flow = f, p.type = "ack", p.cum \in Nat, p.pullNo \in Nat, p \in N,
         NdpConstants, IsFiniteSet(N), Tidy(f, s, k, N), Windowed(f, s, k, N)
  PROVE  Answered(f, s, k, N \ {p}, ProcessAck(f, s, p))
<1> DEFINE q == [s EXCEPT !.window = IF p.pull THEN @ ELSE @ + 1, !.first = @ - 1,
                          !.acked = Larger(@, p.cum), !.flight = @ - 1]
           B == N \ {p}
           r == ProcessAck(f, s, p)
<1>1. /\ s.first - 1 \in Int /\ s.window \in Int /\ s.window + 1 \in Int
      /\ s.flight \in Int /\ s.flight - 1 \in Int /\ s.acked \in Nat /\ s.highest \in Nat
  BY DEF SrcRecord
<1>2. Larger(s.acked, p.cum) \in Nat
  BY <1>1 DEF Larger
<1>3. r = PullPackets(f, q, p.pullNo) \/ r = [s |-> q, out |-> {}]
  BY DEF ProcessAck
<1> HIDE DEF r
<1>4. /\ q \in SrcRecord /\ q.started = s.started /\ q.lastPull = s.lastPull
      /\ q.rtx = s.rtx /\ q.highest = s.highest /\ q.flight = s.flight - 1
  <2>1. q \in SrcRecord
    BY <1>1, <1>2 DEF SrcRecord
  <2>2. /\ q.started = s.started /\ q.lastPull = s.lastPull
        /\ q.rtx = s.rtx /\ q.highest = s.highest /\ q.flight = s.flight - 1
    BY DEF SrcRecord
  <2> QED
    BY <2>1, <2>2
<1> HIDE DEF q
<1>5. p \in AcksIn(N, f)
  BY DEF AcksIn
<1>6. /\ OnWay(B, f) = OnWay(N, f) /\ AcksIn(B, f) \subseteq AcksIn(N, f)
      /\ Ahead(B, f) = Ahead(N, f)
      /\ Cardinality(AcksIn(B, f)) = Cardinality(AcksIn(N, f)) - 1
  BY <1>5, TakeAck
<1>7. IsFiniteSet(B) /\ IsFiniteSet(AcksIn(N, f))
  BY FS_Subset DEF AcksIn
<1> HIDE DEF B
<1>8. Divided(f, s, k, N) /\ Balanced(f, s, k, N)
  BY DEF Tidy
<1>9. Divided(f, q, k, B)
  BY <1>4, <1>6, <1>8 DEF Divided
<1>10. Balanced(f, q, k, B)
  <2>1. SeqsIn(AcksIn(B, f)) \subseteq HeldBy(k) /\ Single(AcksIn(B, f))
    BY <1>6, <1>8 DEF Balanced, SeqsIn, Single
  <2>2. IsFiniteSet(HeldBy(k))
    <3>1. 1 \in Int /\ s.highest \in Int
      BY <1>1
    <3>2. IsFiniteSet(1 .. s.highest)
      BY <3>1, FS_Interval
    <3>3. HeldBy(k) \subseteq 1 .. s.highest
      BY <1>8 DEF Divided
    <3> QED
      BY <3>2, <3>3, FS_Subset
  <2>3. Cardinality(HeldBy(k)) \in Int /\ Cardinality(AcksIn(N, f)) \in Int
    BY <1>7, <2>2, FS_CardinalityType
  <2>4. s.flight = s.highest - Cardinality(HeldBy(k)) + Cardinality(AcksIn(N, f))
    BY <1>8 DEF Balanced
  <2>5. q.flight = q.highest - Cardinality(HeldBy(k)) + Cardinality(AcksIn(B, f))
    BY <1>1, <1>4, <1>6, <2>3, <2>4
  <2> QED
    BY <2>1, <2>5 DEF Balanced
<1>11. Tidy(f, q, k, B)
  BY <1>9, <1>10 DEF Tidy
<1>12. Windowed(f, q, k, B)
  BY <1>4, <1>6 DEF Windowed
<1>13. Answered(f, q, k, B, r)
  BY <1>3, <1>4, <1>7, <1>11, <1>12, NothingAnswered, PullsAnswered
<1> QED
  BY <1>4, <1>13 DEF Answered, r, B

LEMMA PullAnswered ==
  ASSUME NEW f \in Flows, NEW s \in SrcRecord, NEW k \in SnkRecord, NEW N, NEW p,
         p.flow = f, p.type = "pull", p.cum \in Nat, p.pullNo \in Nat,
         NdpConstants, IsFiniteSet(N), Tidy(f, s, k, N), Windowed(f, s, k, N)
  PROVE  Answered(f, s, k, N \ {p}, ProcessPull(f, s, p))
<1> DEFINE q == [s EXCEPT !.window = @ - 1, !.acked = Larger(@, p.cum)]
           B == N \ {p}
<1>1. s.window - 1 \in Int /\ s.acked \in Nat
  BY DEF SrcRecord
<1>2. Larger(s.acked, p.cum) \in Nat
  BY <1>1 DEF Larger
<1>3. ProcessPull(f, s, p) = PullPackets(f, q, p.pullNo)
  BY DEF ProcessPull
<1>4. /\ q \in SrcRecord /\ q.started = s.started /\ q.lastPull = s.lastPull
      /\ q.rtx = s.rtx /\ q.highest = s.highest /\ q.flight = s.flight
  <2>1. q \in SrcRecord
    BY <1>1, <1>2 DEF SrcRecord
  <2>2. /\ q.started = s.started /\ q.lastPull = s.lastPull
        /\ q.rtx = s.rtx /\ q.highest = s.highest /\ q.flight = s.flight
    BY DEF SrcRecord
  <2> QED
    BY <2>1, <2>2
<1> HIDE DEF q
<1>5. OnWay(B, f) = OnWay(N, f) /\ AcksIn(B, f) = AcksIn(N, f) /\ Ahead(B, f) = Ahead(N, f)
  BY DEF OnWay, AcksIn, Ahead
<1>6. IsFiniteSet(B)
  BY FS_Subset
<1> HIDE DEF B
<1>7. Tidy(f, q, k, B)
  BY <1>4, <1>5, SameSource, SameFlow
<1>8. Windowed(f, q, k, B)
  BY <1>4, <1>5 DEF Windowed
<1>9. Answered(f, q, k, B, PullPackets(f, q, p.pullNo))
  BY <1>4, <1>6, <1>7, <1>8, PullsAnswered
<1> QED
  BY <1>3, <1>4, <1>9 DEF Answered, B

-----------------------------------------------------------------------------
(* The steps of a source.                                                  *)

\* What concerns one flow.
FlowInv(f) == Tidy(f, src[f], snk[f], net) /\ Windowed(f, src[f], snk[f], net)

\* The flows of which nothing changes.
LEMMA OtherFlow ==
  ASSUME NEW g, FlowInv(g), src'[g] = src[g], snk'[g] = snk[g],
         \A p : p.flow = g => (p \in net <=> p \in net')
  PROVE  FlowInv(g)'
<1> DEFINE s == src[g]
           k == snk[g]
           M == net'
<1>1. Tidy(g, s, k, net) /\ Windowed(g, s, k, net)
  BY DEF FlowInv
<1>2. /\ OnWay(net, g) = OnWay(M, g) /\ AcksIn(net, g) = AcksIn(M, g)
      /\ Ahead(net, g) = Ahead(M, g)
  BY SameParts
<1> HIDE DEF M, s, k
<1>3. Tidy(g, s, k, M) /\ Windowed(g, s, k, M)
  BY <1>1, <1>2, SameFlow DEF Windowed
<1> QED
  BY <1>3 DEF FlowInv, M, s, k

\* What a source does when it answers.
LEMMA SourceStep ==
  ASSUME NdpConstants, NdpInv, NEW f \in Flows, NEW B \in SUBSET net, NEW q, NEW r,
         \A p \in net : p.flow # f => p \in B,
         q.started = TRUE, Answered(f, q, snk[f], B, r),
         src' = [src EXCEPT ![f] = r.s], net' = B \cup r.out,
         UNCHANGED <<snk, pacer, passed, budget>>
  PROVE  NdpInv'
<1>1. /\ TypeOK /\ IsFiniteSet(net) /\ Fresh /\ InTurn
      /\ \A g \in Flows : FlowInv(g)
  BY DEF NdpInv, FlowInv
<1>2. /\ r.s \in SrcRecord /\ r.s.started = TRUE
      /\ r.out \subseteq [type : {"full"}, flow : {f}, seq : Nat, last : BOOLEAN]
      /\ IsFiniteSet(B \cup r.out)
      /\ Tidy(f, r.s, snk[f], B \cup r.out) /\ Windowed(f, r.s, snk[f], B \cup r.out)
  BY DEF Answered
<1>3. \A p \in r.out : p \in Packet /\ p.flow = f
  BY <1>2 DEF Packet
<1>4. src \in [Flows -> SrcRecord] /\ net \subseteq Packet
  BY <1>1 DEF TypeOK
<1>5. src' \in [Flows -> SrcRecord] /\ src'[f] = r.s /\ \A g \in Flows \ {f} : src'[g] = src[g]
  BY <1>2, <1>4
<1>6. TypeOK'
  <2>1. net' \subseteq Packet
    BY <1>3, <1>4
  <2> QED
    BY <1>1, <1>5, <2>1 DEF TypeOK
<1>7. Fresh'
  <2>1. \A p \in net' : src'[p.flow].started
    <3> SUFFICES ASSUME NEW p \in net' PROVE src'[p.flow].started
      OBVIOUS
    <3>1. p \in Packet /\ p.flow \in Flows
      BY <1>3, <1>4, PacketKinds
    <3>2. CASE p.flow = f
      BY <1>2, <1>5, <3>2
    <3>3. CASE p.flow # f
      <4>1. p \in net
        BY <1>3, <3>3
      <4>2. src[p.flow].started
        BY <1>1, <4>1 DEF Fresh
      <4> QED
        BY <1>5, <3>1, <3>3, <4>2
    <3> QED
      BY <3>2, <3>3
  <2>2. \A g \in Flows : src[g].started => src'[g].started
    BY <1>2, <1>5
  <2>3. DOMAIN pacer.queues \subseteq Flows
    BY <1>1 DEF TypeOK
  <2>4. \A g \in DOMAIN pacer.queues : src'[g].started
    BY <1>1, <2>2, <2>3 DEF Fresh
  <2>5. \A g \in Flows : src'[g].started \/ (snk[g].pullNo = 0 /\ src'[g].highest = 0)
    BY <1>1, <1>2, <1>5 DEF Fresh
  <2> QED
    BY <2>1, <2>4, <2>5 DEF Fresh
<1>8. InTurn'
  BY <1>1 DEF InTurn
<1>9. ASSUME NEW g \in Flows PROVE FlowInv(g)'
  <2>1. CASE g = f
    BY <1>2, <1>5, <2>1 DEF FlowInv
  <2>2. CASE g # f
    <3>1. \A p : p.flow = g => (p \in net <=> p \in net')
      BY <1>3, <2>2
    <3>2. src'[g] = src[g] /\ snk'[g] = snk[g] /\ FlowInv(g)
      BY <1>1, <1>5, <2>2
    <3> QED
      BY <3>1, <3>2, OtherFlow
  <2> QED
    BY <2>1, <2>2
<1>10. IsFiniteSet(net')
  BY <1>2
<1> QED
  BY <1>6, <1>7, <1>8, <1>9, <1>10 DEF NdpInv, FlowInv

LEMMA SourceReset ==
  ASSUME NEW s \in SrcRecord, NEW n \in Nat
  PROVE  [s EXCEPT !.started = TRUE, !.highest = 0, !.acked = 0, !.window = 0,
                   !.flight = 0, !.first = n] \in SrcRecord
<1> DEFINE u == [s EXCEPT !.highest = 0, !.acked = 0]
           v == [u EXCEPT !.window = 0, !.flight = 0, !.first = n]
           w == [v EXCEPT !.started = TRUE]
<1>1. 0 \in Nat /\ 0 \in Int /\ n \in Int
  OBVIOUS
<1>2. u \in SrcRecord
  BY <1>1 DEF SrcRecord
<1> HIDE DEF u
<1>3. v \in SrcRecord
  BY <1>1, <1>2 DEF SrcRecord
<1> HIDE DEF v
<1>4. w \in SrcRecord
  BY <1>3 DEF SrcRecord
<1>5. w = [s EXCEPT !.started = TRUE, !.highest = 0, !.acked = 0, !.window = 0,
                    !.flight = 0, !.first = n]
  BY DEF SrcRecord, u, v
<1> QED
  BY <1>4, <1>5

LEMMA StartFlowStep ==
  ASSUME NdpConstants, NdpInv, NEW f \in Flows, StartFlow(f)
  PROVE  NdpInv'
<1> DEFINE s == src[f]
           k == snk[f]
           n == Less(Cwnd, s.size)
           q == [s EXCEPT !.started = TRUE, !.highest = 0, !.acked = 0,
                          !.window = 0, !.flight = 0, !.first = n]
           r == Send(f, q, n)
<1>1. /\ s \in SrcRecord /\ k \in SnkRecord /\ IsFiniteSet(net)
      /\ Tidy(f, s, k, net) /\ ~s.started
  BY DEF NdpInv, TypeOK, StartFlow
<1>2. k.pullNo = 0 /\ s.highest = 0
  BY <1>1 DEF NdpInv, Fresh
<1>3. src' = [src EXCEPT ![f] = r.s] /\ net' = net \cup r.out
      /\ UNCHANGED <<snk, pacer, passed, budget>>
  BY DEF StartFlow
<1> HIDE DEF s, k
<1>4. n \in Nat /\ n <= Cwnd /\ Cwnd \in Nat
  <2>1. s.size \in Nat /\ Cwnd \in Nat
    BY <1>1 DEF SrcRecord, NdpConstants
  <2> QED
    BY <2>1 DEF Less
<1> HIDE DEF n
<1>5. /\ q \in SrcRecord /\ q.started = TRUE /\ q.highest = 0 /\ q.flight = 0
      /\ q.rtx = s.rtx /\ q.lastPull \in Nat
  <2>1. q \in SrcRecord
    BY <1>1, <1>4, SourceReset
  <2>2. /\ q.started = TRUE /\ q.highest = 0 /\ q.flight = 0 /\ q.rtx = s.rtx
    BY <1>1 DEF SrcRecord
  <2> QED
    BY <2>1, <2>2 DEF SrcRecord
<1> HIDE DEF q
<1>6. OnWay(net, f) = {} /\ AcksIn(net, f) = {} /\ HeldBy(k) = {}
  <2>1. 1 .. s.highest = {}
    BY <1>2
  <2>2. SeqsIn(OnWay(net, f)) = {} /\ HeldBy(k) = {}
    BY <1>1, <2>1 DEF Tidy, Divided
  <2>3. SeqsIn(AcksIn(net, f)) = {}
    BY <1>1, <2>2 DEF Tidy, Balanced
  <2> QED
    BY <2>2, <2>3 DEF SeqsIn
<1>7. Tidy(f, q, k, net)
  <2>1. s.flight = 0
    <3>1. s.flight = s.highest - Cardinality(HeldBy(k)) + Cardinality(AcksIn(net, f))
      BY <1>1 DEF Tidy, Balanced
    <3>2. Cardinality({}) = 0
      BY FS_EmptySet
    <3> QED
      BY <1>2, <1>6, <3>1, <3>2
  <2> QED
    BY <1>1, <1>2, <1>5, <2>1, SameSource
<1>8. Sent(f, q, k, net, n, r)
  BY <1>1, <1>4, <1>5, <1>7, SendSends
<1> HIDE DEF r
<1>9. Answered(f, q, k, net, r)
  <2>1. /\ r.s \in SrcRecord /\ Kept(q, r.s)
        /\ r.out \subseteq [type : {"full"}, flow : {f}, seq : Nat, last : BOOLEAN]
        /\ IsFiniteSet(net \cup r.out) /\ Tidy(f, r.s, k, net \cup r.out)
        /\ Cardinality(Ahead(net \cup r.out, f)) <= Cardinality(Ahead(net, f)) + n
    BY <1>8 DEF Sent
  <2>2. Cardinality(Ahead(net, f)) = 0
    <3>1. Ahead(net, f) = {}
      BY <1>6 DEF Ahead, OnWay
    <3> QED
      BY <3>1, FS_EmptySet
  <2>3. Cardinality(Ahead(net \cup r.out, f)) \in Nat
    BY <2>1, AheadFinite
  <2>4. r.s.lastPull = q.lastPull /\ r.s.started = q.started
    BY <2>1 DEF Kept
  <2>5. Windowed(f, r.s, k, net \cup r.out)
    BY <1>2, <1>4, <1>5, <2>1, <2>2, <2>3, <2>4 DEF Windowed
  <2> QED
    BY <2>1, <2>4, <2>5 DEF Answered
<1> QED
  BY <1>3, <1>5, <1>9, SourceStep DEF k

LEMMA SrcReceiveStep ==
  ASSUME NdpConstants, NdpInv, NEW p \in net, SrcReceive(p)
  PROVE  NdpInv'
<1> DEFINE f == p.flow
           s == src[f]
           k == snk[f]
           B == net \ {p}
<1>1. p \in Packet /\ f \in Flows
  BY PacketKinds DEF NdpInv, TypeOK
<1>2. /\ s \in SrcRecord /\ k \in SnkRecord /\ IsFiniteSet(net)
      /\ Tidy(f, s, k, net) /\ Windowed(f, s, k, net) /\ s.started = TRUE
  <2>1. s \in SrcRecord /\ k \in SnkRecord
    BY <1>1 DEF NdpInv, TypeOK
  <2>2. s.started /\ s.started \in BOOLEAN
    BY <2>1 DEF NdpInv, Fresh, SrcRecord
  <2> QED
    BY <1>1, <2>1, <2>2 DEF NdpInv
<1>3. PICK r, bad :
        /\ \/ p.type = "bounced" /\ r = ProcessRTS(f, s, p, bad)
           \/ p.type = "nack" /\ r = ProcessNack(f, s, p)
           \/ p.type = "ack" /\ r = ProcessAck(f, s, p)
           \/ p.type = "pull" /\ r = ProcessPull(f, s, p)
        /\ src' = [src EXCEPT ![f] = r.s] /\ net' = B \cup r.out
        /\ UNCHANGED <<snk, pacer, passed, budget>>
  BY DEF SrcReceive
<1> HIDE DEF s, k
<1>4. /\ p.type \in {"full", "header", "bounced"} => p.seq \in Nat /\ p.last \in BOOLEAN
      /\ p.type \in {"ack", "nack"} => p.seq \in Nat /\ p.cum \in Nat /\ p.pullNo \in Nat
      /\ p.type = "pull" => p.cum \in Nat /\ p.pullNo \in Nat
  BY <1>1, PacketKinds
<1>5. Answered(f, s, k, B, r)
  <2>1. CASE p.type = "bounced" /\ r = ProcessRTS(f, s, p, bad)
    BY <1>1, <1>2, <1>4, <2>1, RTSAnswered
  <2>2. CASE p.type = "nack" /\ r = ProcessNack(f, s, p)
    BY <1>1, <1>2, <1>4, <2>2, NackAnswered
  <2>3. CASE p.type = "ack" /\ r = ProcessAck(f, s, p)
    BY <1>1, <1>2, <1>4, <2>3, AckAnswered
  <2>4. CASE p.type = "pull" /\ r = ProcessPull(f, s, p)
    BY <1>1, <1>2, <1>4, <2>4, PullAnswered
  <2> QED
    BY <1>3, <2>1, <2>2, <2>3, <2>4
<1>6. B \in SUBSET net /\ \A m \in net : m.flow # f => m \in B
  OBVIOUS
<1> HIDE DEF B, f
<1>7. Answered(f, s, snk[f], B, r)
  BY <1>5 DEF k
<1> QED
  BY <1>1, <1>2, <1>3, <1>6, <1>7, SourceStep

-----------------------------------------------------------------------------
(* The cumulative ack.                                                     *)

\* The equation of CumOf, and the first number from c on whose successor is
\* not there: the solution.
Taken(g, have) == g = [c \in Nat |-> IF c + 1 \in have THEN g[c + 1] ELSE c]

Gap(have, c, m) ==
  /\ m \in Nat /\ c <= m /\ m + 1 \notin have
  /\ \A j \in Nat : c <= j /\ j + 1 \notin have => m <= j

LEMMA GapExists ==
  ASSUME NEW H \in Nat, NEW have, \A x \in have : x \in 1 .. H, NEW c \in Nat
  PROVE  \E m : Gap(have, c, m)
<1> DEFINE T == {j \in Nat : c <= j /\ j + 1 \notin have}
<1>1. T # {}
  <2>1. c + H \in Nat /\ c <= c + H /\ c + H + 1 \notin 1 .. H
    OBVIOUS
  <2>2. c + H \in T
    BY <2>1
  <2> QED
    BY <2>2
<1>2. T \in SUBSET Nat
  OBVIOUS
<1>3. PICK m \in T : \A j \in T : m <= j
  <2> HIDE DEF T
  <2> QED
    BY <1>1, <1>2, LeastNumber
<1>4. Gap(have, c, m)
  BY <1>3 DEF Gap
<1> QED
  BY <1>4

LEMMA GapSame ==
  ASSUME NEW have, NEW c \in Nat, NEW m, NEW n, Gap(have, c, m), Gap(have, c, n)
  PROVE  m = n
<1>1. m \in Nat /\ n \in Nat /\ m <= n /\ n <= m
  BY DEF Gap
<1> QED
  BY <1>1

LEMMA GapNext ==
  ASSUME NEW have, NEW c \in Nat, NEW m, c + 1 \in have, Gap(have, c, m)
  PROVE  Gap(have, c + 1, m)
<1>1. m \in Nat /\ c <= m /\ m + 1 \notin have
  BY DEF Gap
<1>2. m # c /\ c + 1 <= m
  BY <1>1
<1>3. ASSUME NEW j \in Nat, c + 1 <= j, j + 1 \notin have PROVE m <= j
  <2>1. c <= j
    BY <1>3
  <2> QED
    BY <1>3, <2>1 DEF Gap
<1> QED
  BY <1>1, <1>2, <1>3 DEF Gap

LEMMA TakenExists ==
  ASSUME NEW H \in Nat, NEW have, \A x \in have : x \in 1 .. H
  PROVE  \E g : Taken(g, have)
<1> DEFINE First(c) == CHOOSE m : Gap(have, c, m)
           g == [c \in Nat |-> First(c)]
<1>1. \A c \in Nat : Gap(have, c, First(c))
  BY GapExists
<1> HIDE DEF First
<1>2. ASSUME NEW c \in Nat PROVE First(c) = IF c + 1 \in have THEN g[c + 1] ELSE c
  <2>1. CASE c + 1 \in have
    <3>1. c + 1 \in Nat /\ g[c + 1] = First(c + 1)
      OBVIOUS
    <3>2. Gap(have, c, First(c)) /\ Gap(have, c + 1, First(c + 1))
      BY <1>1, <3>1
    <3>3. Gap(have, c + 1, First(c))
      BY <2>1, <3>2, GapNext
    <3>4. First(c) = First(c + 1)
      BY <3>1, <3>2, <3>3, GapSame
    <3> QED
      BY <2>1, <3>1, <3>4
  <2>2. CASE c + 1 \notin have
    <3>1. Gap(have, c, First(c))
      BY <1>1
    <3>2. First(c) \in Nat /\ c <= First(c) /\ First(c) <= c
      BY <2>2, <3>1 DEF Gap
    <3> QED
      BY <2>2, <3>2
  <2> QED
    BY <2>1, <2>2
<1>3. Taken(g, have)
  <2> DEFINE A(c) == IF c + 1 \in have THEN g[c + 1] ELSE c
  <2>1. \A c \in Nat : First(c) = A(c)
    BY <1>2
  <2>2. g = [c \in Nat |-> First(c)]
    OBVIOUS
  <2> HIDE DEF A
  <2>3. [c \in Nat |-> First(c)] = [c \in Nat |-> A(c)]
    BY <2>1
  <2>4. g = [c \in Nat |-> A(c)]
    BY <2>2, <2>3
  <2> HIDE DEF g
  <2> QED
    BY <2>4 DEF A, Taken
<1> QED
  BY <1>3

\* It climbs while the next packet is there.
LEMMA TakenClimbs ==
  ASSUME NEW H \in Nat, NEW have, \A x \in have : x \in 1 .. H, NEW g, Taken(g, have),
         NEW c \in Nat
  PROVE  g[c] \in Nat /\ c <= g[c] /\ \A j \in Nat : c < j /\ j <= g[c] => j \in have
<1> DEFINE Good(i) == g[i] \in Nat /\ i <= g[i]
                      /\ \A j \in Nat : i < j /\ j <= g[i] => j \in have
           T == {d \in Nat : \E i \in Nat : i + d = c + H /\ ~Good(i)}
<1>1. \A i \in Nat : g[i] = IF i + 1 \in have THEN g[i + 1] ELSE i
  BY DEF Taken
<1>2. ASSUME NEW i \in Nat, i + 1 \notin have PROVE Good(i)
  BY <1>1, <1>2
<1>3. ASSUME NEW i \in Nat, i + 1 \in have, Good(i + 1) PROVE Good(i)
  <2>1. g[i] = g[i + 1] /\ i + 1 \in Nat
    BY <1>1, <1>3
  <2>2. g[i] \in Nat /\ i + 1 <= g[i] /\ \A j \in Nat : i + 1 < j /\ j <= g[i] => j \in have
    BY <1>3, <2>1
  <2>3. ASSUME NEW j \in Nat, i < j, j <= g[i] PROVE j \in have
    <3>1. j = i + 1 \/ i + 1 < j
      BY <2>3
    <3> QED
      BY <1>3, <2>2, <2>3, <3>1
  <2>4. i <= g[i]
    BY <2>2
  <2> QED
    BY <2>2, <2>3, <2>4
<1> HIDE DEF Good
<1>4. T = {}
  <2> SUFFICES ASSUME T # {} PROVE FALSE
    OBVIOUS
  <2>1. PICK d \in T : \A e \in T : d <= e
    <3>1. T \in SUBSET Nat
      OBVIOUS
    <3> HIDE DEF T
    <3> QED
      BY <3>1, LeastNumber
  <2>2. PICK i \in Nat : i + d = c + H /\ ~Good(i)
    BY <2>1
  <2>3. i + 1 \in have
    BY <1>2, <2>2
  <2>4. i + 1 <= H /\ i + 1 \in Nat /\ d \in Nat /\ d # 0 /\ c + H \in Nat
    BY <2>1, <2>2, <2>3
  <2>5. d - 1 \in Nat /\ (i + 1) + (d - 1) = c + H /\ ~(d <= d - 1)
    BY <2>2, <2>4
  <2>6. d - 1 \notin T
    BY <2>1, <2>5
  <2>7. Good(i + 1)
    BY <2>4, <2>5, <2>6
  <2> QED
    BY <1>3, <2>2, <2>3, <2>7
<1>5. Good(c)
  <2>1. c + H = c + H /\ H \in Nat /\ H \notin T
    BY <1>4
  <2> QED
    BY <2>1
<1> QED
  BY <1>5 DEF Good

LEMMA CumClimbs ==
  ASSUME NEW k \in SnkRecord, NEW s \in Nat, NEW H \in Nat,
         \A x \in k.received \cup {s} : x \in 1 .. H
  PROVE  /\ CumAfter(k, s) \in Nat /\ k.cum <= CumAfter(k, s)
         /\ \A j \in Nat : k.cum < j /\ j <= CumAfter(k, s) => j \in k.received \cup {s}
<1> DEFINE have == k.received \cup {s}
           g == CHOOSE g : g = [c \in Nat |-> IF c + 1 \in have THEN g[c + 1] ELSE c]
<1>1. k.cum \in Nat
  BY DEF SnkRecord
<1>2. CumAfter(k, s) = IF s = k.cum + 1 THEN g[k.cum] ELSE k.cum
  BY DEF CumAfter
<1> HIDE DEF have
<1>3. Taken(g, have)
  <2>1. \E h : Taken(h, have)
    BY TakenExists DEF have
  <2> QED
    BY <2>1 DEF Taken
<1> HIDE DEF g
<1>4. /\ g[k.cum] \in Nat /\ k.cum <= g[k.cum]
      /\ \A j \in Nat : k.cum < j /\ j <= g[k.cum] => j \in have
  <2>1. \A x \in have : x \in 1 .. H
    BY DEF have
  <2> QED
    BY <1>1, <1>3, <2>1, TakenClimbs
<1> QED
  BY <1>1, <1>2, <1>4 DEF have

\* The record of the sink k after packet s.
Took(q, k, s) ==
  q.cum = CumAfter(k, s) /\ q.received = {x \in k.received \cup {s} : x > q.cum}

\* The sink holds what it held and the new packet.
LEMMA HeldAfter ==
  ASSUME NEW k \in SnkRecord, NEW s \in Nat, NEW H \in Nat, NEW q,
         HeldBy(k) \cup {s} \subseteq 1 .. H, Took(q, k, s)
  PROVE  q.cum \in Nat /\ q.received \in SUBSET Nat /\ HeldBy(q) = HeldBy(k) \cup {s}
<1>1. q.cum = CumAfter(k, s) /\ q.received = {x \in k.received \cup {s} : x > q.cum}
  BY DEF Took
<1>2. k.cum \in Nat /\ k.received \in SUBSET Nat
  BY DEF SnkRecord
<1>3. \A x \in k.received \cup {s} : x \in 1 .. H
  BY DEF HeldBy
<1>4. /\ q.cum \in Nat /\ k.cum <= q.cum
      /\ \A j \in Nat : k.cum < j /\ j <= q.cum => j \in k.received \cup {s}
  BY <1>1, <1>3, CumClimbs
<1>5. ASSUME NEW x \in HeldBy(q) PROVE x \in HeldBy(k) \cup {s}
  <2>1. CASE x \in 1 .. q.cum
    <3>1. x \in Nat /\ (x \in 1 .. k.cum \/ k.cum < x)
      BY <1>2, <1>4, <2>1
    <3> QED
      BY <1>4, <2>1, <3>1 DEF HeldBy
  <2>2. CASE x \in q.received
    BY <1>1, <2>2 DEF HeldBy
  <2> QED
    BY <1>5, <2>1, <2>2 DEF HeldBy
<1>6. ASSUME NEW x \in HeldBy(k) \cup {s} PROVE x \in HeldBy(q)
  <2>1. CASE x \in 1 .. k.cum
    <3>1. x \in 1 .. q.cum
      BY <1>2, <1>4, <2>1
    <3> QED
      BY <3>1 DEF HeldBy
  <2>2. CASE x \in k.received \cup {s}
    <3>1. x \in 1 .. H
      BY <1>3, <2>2
    <3>2. x \in 1 .. q.cum \/ x > q.cum
      BY <1>4, <3>1
    <3> QED
      BY <1>1, <2>2, <3>2 DEF HeldBy
  <2> QED
    BY <1>6, <2>1, <2>2 DEF HeldBy
<1>7. q.received \in SUBSET Nat
  BY <1>1, <1>2
<1> QED
  BY <1>4, <1>5, <1>6, <1>7

-----------------------------------------------------------------------------
(* The network and the sink: what becomes of the flow.                     *)

\* A packet that turns into another on its way.
LEMMA Swapped ==
  ASSUME NEW f, NEW s, NEW k, NEW N, NEW p \in OnWay(N, f), NEW m, Tidy(f, s, k, N),
         m.flow = f, m.type \in {"full", "header", "bounced", "nack"}, m.seq = p.seq
  PROVE  Tidy(f, s, k, (N \ {p}) \cup {m})
<1> DEFINE B == N \ {p}
<1>1. Divided(f, s, k, N) /\ Balanced(f, s, k, N) /\ Single(OnWay(N, f))
  BY DEF Tidy, Divided
<1>2. /\ AcksIn(B, f) = AcksIn(N, f) /\ Single(OnWay(B, f))
      /\ SeqsIn(OnWay(B, f)) = SeqsIn(OnWay(N, f)) \ {p.seq}
      /\ p.seq \in SeqsIn(OnWay(N, f))
  BY <1>1, TakeMoving
<1> HIDE DEF B
<1>3. m.seq \notin SeqsIn(OnWay(B, f))
  BY <1>2
<1>4. /\ AcksIn(B \cup {m}, f) = AcksIn(B, f) /\ Single(OnWay(B \cup {m}, f))
      /\ SeqsIn(OnWay(B \cup {m}, f)) = SeqsIn(OnWay(B, f)) \cup {m.seq}
  BY <1>2, <1>3, PutMoving
<1>5. SeqsIn(OnWay(B \cup {m}, f)) = SeqsIn(OnWay(N, f))
  BY <1>2, <1>4
<1>6. Divided(f, s, k, B \cup {m})
  BY <1>1, <1>4, <1>5 DEF Divided
<1>7. Balanced(f, s, k, B \cup {m})
  BY <1>1, <1>2, <1>4 DEF Balanced
<1> QED
  BY <1>6, <1>7 DEF Tidy, B

\* What Tidy reads of a sink.
LEMMA SameSink ==
  ASSUME NEW f, NEW s, NEW k, NEW q, NEW N, q.cum = k.cum, q.received = k.received
  PROVE  Tidy(f, s, k, N) <=> Tidy(f, s, q, N)
  BY DEF Tidy, Divided, Balanced, HeldBy

\* A packet arrives and is answered: the window is the same.
LEMMA Arrives ==
  ASSUME NEW f, NEW s \in SrcRecord, NEW k \in SnkRecord, NEW q, NEW N,
         NEW p \in Ahead(N, f), NEW m, IsFiniteSet(N), Windowed(f, s, k, N), NdpConstants,
         m.type \in {"ack", "nack"}, q.pullNo = k.pullNo + 1
  PROVE  Windowed(f, s, q, (N \ {p}) \cup {m})
<1>1. Ahead((N \ {p}) \cup {m}, f) = Ahead(N \ {p}, f)
  BY DEF Ahead
<1>2. Cardinality(Ahead(N \ {p}, f)) = Cardinality(Ahead(N, f)) - 1
  BY TakeAhead
<1>3. Cardinality(Ahead(N, f)) \in Nat
  BY AheadFinite
<1>4. s.lastPull \in Nat /\ k.pullNo \in Nat /\ Cwnd \in Nat
  BY DEF SrcRecord, SnkRecord, NdpConstants
<1>5. Cardinality(Ahead(N, f)) + k.pullNo - s.lastPull <= Cwnd
  BY DEF Windowed
<1> QED
  BY <1>1, <1>2, <1>3, <1>4, <1>5 DEF Windowed

\* A header is answered with a nack.
LEMMA HeaderArrives ==
  ASSUME NEW f, NEW s \in SrcRecord, NEW k \in SnkRecord, NEW q, NEW N, NEW p \in N, NEW m,
         IsFiniteSet(N), NdpConstants, Tidy(f, s, k, N), Windowed(f, s, k, N),
         p.flow = f, p.type = "header", m.flow = f, m.type = "nack", m.seq = p.seq,
         q.cum = k.cum, q.received = k.received, q.pullNo = k.pullNo + 1
  PROVE  Tidy(f, s, q, (N \ {p}) \cup {m}) /\ Windowed(f, s, q, (N \ {p}) \cup {m})
<1>1. p \in OnWay(N, f) /\ p \in Ahead(N, f)
  BY DEF OnWay, Ahead
<1>2. /\ m.type \in {"full", "header", "bounced", "nack"} /\ m.type \in {"ack", "nack"}
  OBVIOUS
<1>3. Tidy(f, s, k, (N \ {p}) \cup {m})
  BY <1>1, <1>2, Swapped
<1>4. Tidy(f, s, q, (N \ {p}) \cup {m})
  BY <1>3, SameSink
<1>5. Windowed(f, s, q, (N \ {p}) \cup {m})
  BY <1>1, <1>2, Arrives
<1> QED
  BY <1>4, <1>5

\* A packet on its way turns into its ack.
LEMMA Acked ==
  ASSUME NEW N, NEW f, NEW p \in OnWay(N, f), NEW m, IsFiniteSet(N), Single(OnWay(N, f)),
         m.flow = f, m.type = "ack",
         Single(AcksIn(N, f)), m.seq \notin SeqsIn(AcksIn(N, f))
  PROVE  LET M == (N \ {p}) \cup {m}
         IN  /\ SeqsIn(OnWay(M, f)) = SeqsIn(OnWay(N, f)) \ {p.seq} /\ Single(OnWay(M, f))
             /\ p.seq \in SeqsIn(OnWay(N, f))
             /\ SeqsIn(AcksIn(M, f)) = SeqsIn(AcksIn(N, f)) \cup {m.seq}
             /\ Single(AcksIn(M, f))
             /\ Cardinality(AcksIn(M, f)) = Cardinality(AcksIn(N, f)) + 1
<1> DEFINE B == N \ {p}
<1>1. /\ AcksIn(B, f) = AcksIn(N, f) /\ Single(OnWay(B, f))
      /\ SeqsIn(OnWay(B, f)) = SeqsIn(OnWay(N, f)) \ {p.seq}
      /\ p.seq \in SeqsIn(OnWay(N, f))
  BY TakeMoving
<1>2. IsFiniteSet(B)
  BY FS_Subset
<1> HIDE DEF B
<1>3. /\ Single(AcksIn(B, f)) /\ m.seq \notin SeqsIn(AcksIn(B, f))
  BY <1>1
<1>4. /\ OnWay(B \cup {m}, f) = OnWay(B, f)
      /\ SeqsIn(AcksIn(B \cup {m}, f)) = SeqsIn(AcksIn(B, f)) \cup {m.seq}
      /\ Single(AcksIn(B \cup {m}, f))
      /\ Cardinality(AcksIn(B \cup {m}, f)) = Cardinality(AcksIn(B, f)) + 1
  BY <1>2, <1>3, PutAck
<1> QED
  BY <1>1, <1>4 DEF B

\* A full packet is answered with an ack.
LEMMA FullArrives ==
  ASSUME NEW f, NEW s \in SrcRecord, NEW k \in SnkRecord, NEW q, NEW N, NEW p \in N, NEW m,
         IsFiniteSet(N), NdpConstants, Tidy(f, s, k, N), Windowed(f, s, k, N),
         p.flow = f, p.type = "full",
         m.flow = f, m.type = "ack", m.seq = p.seq,
         Took(q, k, p.seq), q.pullNo = k.pullNo + 1
  PROVE  /\ q.cum \in Nat /\ q.received \in SUBSET Nat
         /\ Tidy(f, s, q, (N \ {p}) \cup {m}) /\ Windowed(f, s, q, (N \ {p}) \cup {m})
<1> DEFINE M == (N \ {p}) \cup {m}
           H == HeldBy(k)
<1> HIDE DEF M, H
<1>1. p \in OnWay(N, f) /\ p \in Ahead(N, f)
  BY DEF OnWay, Ahead
<1>2. Divided(f, s, k, N) /\ Balanced(f, s, k, N) /\ Single(OnWay(N, f))
  BY DEF Tidy, Divided
<1>3. s.highest \in Nat
  BY DEF SrcRecord
<1>4. p.seq \in SeqsIn(OnWay(N, f))
  BY <1>1, <1>2, TakeMoving
<1>5. /\ H \subseteq 1 .. s.highest /\ p.seq \in 1 .. s.highest /\ p.seq \notin H
      /\ SeqsIn(AcksIn(N, f)) \subseteq H /\ Single(AcksIn(N, f))
  BY <1>2, <1>4 DEF Divided, Balanced, H
<1>6. q.cum \in Nat /\ q.received \in SUBSET Nat /\ HeldBy(q) = H \cup {p.seq}
  <2>1. H \cup {p.seq} \subseteq 1 .. s.highest
    BY <1>5
  <2>2. p.seq \in Nat
    BY <1>3, <1>5
  <2> QED
    BY <1>3, <2>1, <2>2, HeldAfter DEF H
<1>7. m.seq \notin SeqsIn(AcksIn(N, f))
  BY <1>5
<1>8. /\ SeqsIn(OnWay(M, f)) = SeqsIn(OnWay(N, f)) \ {p.seq} /\ Single(OnWay(M, f))
      /\ SeqsIn(AcksIn(M, f)) = SeqsIn(AcksIn(N, f)) \cup {p.seq} /\ Single(AcksIn(M, f))
      /\ Cardinality(AcksIn(M, f)) = Cardinality(AcksIn(N, f)) + 1
  BY <1>1, <1>2, <1>5, <1>7, Acked DEF M
<1>9. Divided(f, s, q, M)
  <2>1. /\ SeqsIn(OnWay(N, f)) \cup SeqsOf(s.rtx) \cup H = 1 .. s.highest
        /\ SeqsIn(OnWay(N, f)) \cap SeqsOf(s.rtx) = {}
        /\ SeqsIn(OnWay(N, f)) \cap H = {}
        /\ SeqsOf(s.rtx) \cap H = {} /\ Distinct(s.rtx)
    BY <1>2 DEF Divided, H
  <2>2. SeqsIn(OnWay(M, f)) = SeqsIn(OnWay(N, f)) \ {p.seq}
    BY <1>8
  <2>3. SeqsIn(OnWay(M, f)) \cup SeqsOf(s.rtx) \cup HeldBy(q) = 1 .. s.highest
    BY <1>4, <1>6, <2>1, <2>2
  <2>4. /\ SeqsIn(OnWay(M, f)) \cap SeqsOf(s.rtx) = {}
        /\ SeqsIn(OnWay(M, f)) \cap HeldBy(q) = {}
        /\ SeqsOf(s.rtx) \cap HeldBy(q) = {}
    BY <1>4, <1>6, <2>1, <2>2
  <2>5. Single(OnWay(M, f))
    BY <1>8
  <2> QED
    BY <2>1, <2>3, <2>4, <2>5 DEF Divided
<1>10. Balanced(f, s, q, M)
  <2>1. IsFiniteSet(H) /\ IsFiniteSet(AcksIn(N, f))
    <3>1. 1 \in Int /\ s.highest \in Int
      BY <1>3
    <3>2. IsFiniteSet(1 .. s.highest)
      BY <3>1, FS_Interval
    <3>3. AcksIn(N, f) \subseteq N
      BY DEF AcksIn
    <3> QED
      BY <1>5, <3>2, <3>3, FS_Subset
  <2>2. Cardinality(H \cup {p.seq}) = Cardinality(H) + 1
    BY <1>5, <2>1, FS_AddElement
  <2>3. Cardinality(H) \in Nat /\ Cardinality(AcksIn(N, f)) \in Nat
    BY <2>1, FS_CardinalityType
  <2>4. s.flight = s.highest - Cardinality(H) + Cardinality(AcksIn(N, f))
    BY <1>2 DEF Balanced, H
  <2>5. s.flight = s.highest - Cardinality(HeldBy(q)) + Cardinality(AcksIn(M, f))
    BY <1>3, <1>6, <1>8, <2>2, <2>3, <2>4
  <2> QED
    BY <1>5, <1>6, <1>8, <2>5 DEF Balanced
<1>11. Windowed(f, s, q, M)
  <2>1. m.type \in {"ack", "nack"}
    OBVIOUS
  <2> QED
    BY <1>1, <2>1, Arrives DEF M
<1>12. Tidy(f, s, q, M)
  BY <1>9, <1>10 DEF Tidy
<1> QED
  BY <1>6, <1>11, <1>12 DEF M

-----------------------------------------------------------------------------
(* The pull pacer.                                                         *)

Pull == [cum : Nat, pullNo : Nat]

\* The type of the pacer, as in TypeOK.
PacerOK(q) ==
  /\ DOMAIN q.queues \subseteq Flows
  /\ q.queues \in [DOMAIN q.queues -> Seq(Pull)]
  /\ q \in [queues : {q.queues}, current : Flows \cup {End}, since : 0 .. Drain,
            timers : [0 .. Drain -> Nat]]

LEMMA PacerParts ==
  ASSUME NEW q, PacerOK(q)
  PROVE  /\ q = [queues |-> q.queues, current |-> q.current, since |-> q.since,
                 timers |-> q.timers]
         /\ DOMAIN q.queues \subseteq Flows /\ q.queues \in [DOMAIN q.queues -> Seq(Pull)]
         /\ q.current \in Flows \cup {End} /\ q.since \in 0 .. Drain
         /\ q.timers \in [0 .. Drain -> Nat]
  BY DEF PacerOK

LEMMA PacerMade ==
  ASSUME NEW Q, DOMAIN Q \subseteq Flows, Q \in [DOMAIN Q -> Seq(Pull)],
         NEW c \in Flows \cup {End}, NEW n \in 0 .. Drain, NEW T \in [0 .. Drain -> Nat],
         NEW q, q = [queues |-> Q, current |-> c, since |-> n, timers |-> T]
  PROVE  PacerOK(q) /\ q.queues = Q /\ q.current = c /\ q.since = n /\ q.timers = T
  BY DEF PacerOK

LEMMA SinceUpdate ==
  ASSUME NEW q, PacerOK(q), NEW n \in 0 .. Drain, NEW u, u = [q EXCEPT !.since = n]
  PROVE  PacerOK(u) /\ u.queues = q.queues /\ u.current = q.current
<1> DEFINE Q == q.queues  c == q.current  m == q.since  T == q.timers
<1>1. /\ q = [queues |-> Q, current |-> c, since |-> m, timers |-> T]
      /\ DOMAIN Q \subseteq Flows /\ Q \in [DOMAIN Q -> Seq(Pull)]
      /\ c \in Flows \cup {End} /\ T \in [0 .. Drain -> Nat]
  BY PacerParts
<1> HIDE DEF Q, c, m, T
<1>2. u = [queues |-> Q, current |-> c, since |-> n, timers |-> T]
  BY <1>1
<1>3. PacerOK(u) /\ u.queues = Q /\ u.current = c
  BY <1>1, <1>2 DEF PacerOK
<1> QED
  BY <1>3 DEF Q, c

LEMMA TimersUpdate ==
  ASSUME NEW q, PacerOK(q), NEW x \in [0 .. Drain -> Nat], NEW u, u = [q EXCEPT !.timers = x]
  PROVE  PacerOK(u) /\ u.queues = q.queues /\ u.current = q.current /\ u.since = q.since
<1> DEFINE Q == q.queues  c == q.current  m == q.since  T == q.timers
<1>1. /\ q = [queues |-> Q, current |-> c, since |-> m, timers |-> T]
      /\ DOMAIN Q \subseteq Flows /\ Q \in [DOMAIN Q -> Seq(Pull)]
      /\ c \in Flows \cup {End} /\ m \in 0 .. Drain
  BY PacerParts
<1> HIDE DEF Q, c, m, T
<1>2. u = [queues |-> Q, current |-> c, since |-> m, timers |-> x]
  BY <1>1
<1>3. PacerOK(u) /\ u.queues = Q /\ u.current = c /\ u.since = m
  BY <1>1, <1>2 DEF PacerOK
<1> QED
  BY <1>3 DEF Q, c, m

LEMMA TimerAdded ==
  ASSUME NEW q, PacerOK(q), NEW t \in 0 .. Drain, NEW u, u = AddTimer(q, t)
  PROVE  PacerOK(u) /\ u.queues = q.queues /\ u.current = q.current /\ u.since = q.since
<1> DEFINE x == [q.timers EXCEPT ![t] = @ + 1]
<1> DEFINE T == q.timers
<1>1. T \in [0 .. Drain -> Nat]
  BY PacerParts
<1> HIDE DEF T
<1>2. T[t] \in Nat
  BY <1>1
<1>3. [T EXCEPT ![t] = T[t] + 1] \in [0 .. Drain -> Nat]
  BY <1>1, <1>2
<1>4. u = [q EXCEPT !.timers = x]
  BY DEF AddTimer
<1>5. x \in [0 .. Drain -> Nat]
  BY <1>3 DEF T
<1> HIDE DEF x
<1> QED
  BY <1>4, <1>5, TimersUpdate

\* What becomes of the queues and the iterator.
LEMMA QueuesUpdate ==
  ASSUME NEW q, PacerOK(q), NEW Q, DOMAIN Q \subseteq Flows, Q \in [DOMAIN Q -> Seq(Pull)],
         NEW c \in Flows \cup {End}, NEW u, u = [q EXCEPT !.queues = Q, !.current = c]
  PROVE  PacerOK(u) /\ u.queues = Q /\ u.current = c /\ u.since = q.since
<1> DEFINE P == q.queues  d == q.current  m == q.since  T == q.timers
<1>1. /\ q = [queues |-> P, current |-> d, since |-> m, timers |-> T]
      /\ m \in 0 .. Drain /\ T \in [0 .. Drain -> Nat]
  BY PacerParts
<1> HIDE DEF P, d, m, T
<1>2. u = [queues |-> Q, current |-> c, since |-> m, timers |-> T]
  BY <1>1
<1>3. PacerOK(u) /\ u.queues = Q /\ u.current = c /\ u.since = m
  BY <1>1, <1>2 DEF PacerOK
<1> QED
  BY <1>3 DEF m

LEMMA Enqueued ==
  ASSUME NEW q, PacerOK(q), NEW f \in Flows, NEW pull \in Pull, NEW u, u = Enqueue(q, f, pull)
  PROVE  /\ PacerOK(u) /\ u.current = q.current
         /\ DOMAIN u.queues = DOMAIN q.queues \cup {f} /\ u.queues[f] # <<>>
         /\ \A g \in DOMAIN q.queues : g # f => u.queues[g] = q.queues[g]
<1> DEFINE Q == q.queues
           R == [g \in DOMAIN Q \cup {f} |->
                   IF g # f THEN Q[g] ELSE IF f \in DOMAIN Q THEN Append(Q[f], pull) ELSE <<pull>>]
           v == [q EXCEPT !.queues = R, !.current = q.current]
<1>1. /\ q = [queues |-> Q, current |-> q.current, since |-> q.since, timers |-> q.timers]
      /\ DOMAIN Q \subseteq Flows /\ Q \in [DOMAIN Q -> Seq(Pull)]
      /\ q.current \in Flows \cup {End}
  BY PacerParts
<1>2. u = [q EXCEPT !.queues = R]
  BY DEF Enqueue
<1> HIDE DEF Q
<1>3. u = v
  <2> HIDE DEF R
  <2> QED
    BY <1>1, <1>2
<1>4. R[f] \in Seq(Pull) /\ R[f] # <<>>
  <2>1. CASE f \in DOMAIN Q
    <3>1. Q[f] \in Seq(Pull) /\ R[f] = Append(Q[f], pull)
      BY <1>1, <2>1
    <3> HIDE DEF R
    <3> QED
      BY <3>1
  <2>2. CASE f \notin DOMAIN Q
    <3>1. R[f] = <<pull>>
      BY <2>2
    <3> HIDE DEF R
    <3> QED
      BY <3>1
  <2> QED
    BY <2>1, <2>2
<1>5. DOMAIN R = DOMAIN Q \cup {f} /\ \A g \in DOMAIN Q : g # f => R[g] = Q[g]
  OBVIOUS
<1>6. R = [g \in DOMAIN R |-> R[g]]
  OBVIOUS
<1> HIDE DEF R
<1>7. \A g \in DOMAIN R : R[g] \in Seq(Pull)
  BY <1>1, <1>4, <1>5
<1>8. R \in [DOMAIN R -> Seq(Pull)]
  BY <1>6, <1>7
<1>9. DOMAIN R \subseteq Flows
  BY <1>1, <1>5
<1>10. PacerOK(v) /\ v.queues = R /\ v.current = q.current
  BY <1>1, <1>8, <1>9, QueuesUpdate
<1> QED
  BY <1>3, <1>4, <1>5, <1>10 DEF Q

LEMMA NextIsNext ==
  ASSUME NEW q, PacerOK(q), NdpConstants, NEW f \in Flows
  PROVE  /\ NextOf(q, f) \in Flows \cup {End}
         /\ NextOf(q, f) = End \/ f < NextOf(q, f)
         /\ \A g \in DOMAIN q.queues : f < g => NextOf(q, f) # End /\ NextOf(q, f) <= g
<1> DEFINE later == {g \in DOMAIN q.queues : g > f}
<1>1. Flows \subseteq Nat /\ DOMAIN q.queues \subseteq Flows
  BY PacerParts DEF NdpConstants
<1>2. CASE later = {}
  <2>1. NextOf(q, f) = End
    BY <1>2 DEF NextOf
  <2> QED
    BY <1>1, <1>2, <2>1
<1>3. CASE later # {}
  <2>1. later \in SUBSET Nat
    BY <1>1
  <2>2. \E g \in later : \A h \in later : g <= h
    <3> HIDE DEF later
    <3> QED
      BY <1>3, <2>1, LeastNumber
  <2>3. NextOf(q, f) = CHOOSE g \in later : \A h \in later : g <= h
    BY <1>3 DEF NextOf
  <2>4. NextOf(q, f) \in later /\ \A h \in later : NextOf(q, f) <= h
    <3> HIDE DEF later
    <3> QED
      BY <2>2, <2>3
  <2>5. NextOf(q, f) \in Nat /\ NextOf(q, f) \in Flows /\ f < NextOf(q, f) /\ f \in Nat
    BY <1>1, <2>4
  <2>6. NextOf(q, f) # End
    BY <2>5 DEF End
  <2> QED
    BY <1>1, <2>4, <2>5, <2>6
<1> QED
  BY <1>2, <1>3

\* Whom the pacer serves: the first from the iterator on, else the first.
LEMMA ServedIsFirst ==
  ASSUME NEW q, PacerOK(q), NdpConstants, ~QueuesEmpty(q)
  PROVE  /\ Served(q) \in Flows /\ Waiting(q, Served(q))
         /\ \/ /\ q.current # End /\ q.current <= Served(q)
               /\ \A g \in Flows : Waiting(q, g) /\ q.current <= g => Served(q) <= g
            \/ /\ \A g \in Flows : Waiting(q, g) => q.current = End \/ g < q.current
               /\ \A g \in Flows : Waiting(q, g) => Served(q) <= g
<1> DEFINE waiting == {g \in DOMAIN q.queues : Waiting(q, g)}
           ahead == IF q.current = End THEN {} ELSE {g \in waiting : g >= q.current}
           from == IF ahead # {} THEN ahead ELSE waiting
<1>1. Flows \subseteq Nat /\ DOMAIN q.queues \subseteq Flows /\ q.current \in Flows \cup {End}
  BY PacerParts DEF NdpConstants
<1>2. \A g : Waiting(q, g) <=> g \in waiting
  BY DEF Waiting
<1>3. waiting # {} /\ waiting \subseteq Nat /\ waiting \subseteq Flows
  BY <1>1 DEF QueuesEmpty, Waiting
<1>4. Served(q) = CHOOSE g \in from : \A h \in from : g <= h
  BY DEF Served
<1> HIDE DEF waiting
<1>5. from # {} /\ from \in SUBSET Nat /\ from \subseteq waiting
  BY <1>3
<1>6. \E g \in from : \A h \in from : g <= h
  <2> HIDE DEF from
  <2> QED
    BY <1>5, LeastNumber
<1>7. Served(q) \in from /\ \A h \in from : Served(q) <= h
  <2> HIDE DEF from
  <2> QED
    BY <1>4, <1>6
<1>8. Served(q) \in Flows /\ Waiting(q, Served(q))
  BY <1>2, <1>3, <1>5, <1>7
<1>9. CASE ahead # {}
  <2>1. q.current # End /\ Served(q) >= q.current
    BY <1>7, <1>9
  <2>2. ASSUME NEW g \in Flows, Waiting(q, g), q.current <= g PROVE Served(q) <= g
    BY <1>2, <1>7, <1>9, <2>1, <2>2
  <2> QED
    BY <1>1, <1>8, <2>1, <2>2
<1>10. CASE ahead = {}
  <2>1. \A g \in Flows : Waiting(q, g) => Served(q) <= g
    BY <1>2, <1>7, <1>10
  <2>2. ASSUME NEW g \in Flows, Waiting(q, g), q.current # End PROVE g < q.current
    <3>1. ~(g >= q.current)
      BY <1>2, <1>10, <2>2
    <3>2. q.current \in Nat /\ g \in Nat
      BY <1>1, <2>2
    <3> QED
      BY <3>1, <3>2
  <2> QED
    BY <1>8, <2>1, <2>2
<1> QED
  BY <1>9, <1>10

\* The flows that wait and those they saw served, when the iterator stays.
LEMMA TurnKept ==
  ASSUME NEW q, NEW P, Turn(q, P), NEW u, NEW R, u.current = q.current,
         \A g \in Flows : R[g] \subseteq P[g] /\ (~Waiting(u, g) => R[g] = {})
  PROVE  Turn(u, R)
  BY DEF Turn

\* A packet without its pull.
Unpulled(m) == [m EXCEPT !.pull = FALSE, !.pullNo = 0]

\* NdpPullPacer::sendPacket leaves the iterator.
LEMMA PacerSends ==
  ASSUME NEW q, PacerOK(q), NdpConstants, NEW P, Turn(q, P), NEW f \in Flows,
         NEW m, m.flow = f, m.cum \in Nat, m.pullNo \in Nat, NEW r, r = PacerSend(q, m)
  PROVE  /\ PacerOK(r.q) /\ Turn(r.q, P)
         /\ DOMAIN r.q.queues \subseteq DOMAIN q.queues \cup {f}
         /\ r.out = m \/ r.out = Unpulled(m)
<1>1. 0 \in 0 .. Drain /\ q.since \in 0 .. Drain /\ Drain \in Nat
  BY PacerParts DEF NdpConstants
<1>2. CASE QueuesEmpty(q) /\ q.since >= Drain
  <2> DEFINE u == [q EXCEPT !.since = 0]
  <2>1. r = [q |-> u, out |-> m]
    BY <1>2 DEF PacerSend
  <2>2. PacerOK(u) /\ u.queues = q.queues /\ u.current = q.current
    BY <1>1, SinceUpdate
  <2> HIDE DEF u
  <2>3. Turn(u, P)
    BY <2>2 DEF Turn, Waiting
  <2> QED
    BY <2>1, <2>2, <2>3
<1>3. CASE ~(QueuesEmpty(q) /\ q.since >= Drain)
  <2> DEFINE v == IF QueuesEmpty(q) THEN AddTimer(q, Drain - q.since) ELSE q
             pull == [cum |-> m.cum, pullNo |-> m.pullNo]
             u == Enqueue(v, f, pull)
  <2>1. r = [q |-> u, out |-> Unpulled(m)]
    BY <1>3 DEF PacerSend, Unpulled
  <2>2. PacerOK(v) /\ v.queues = q.queues /\ v.current = q.current
    <3>1. Drain - q.since \in 0 .. Drain
      BY <1>1
    <3> QED
      BY <3>1, TimerAdded
  <2>3. pull \in Pull
    BY DEF Pull
  <2> HIDE DEF v, pull
  <2>4. /\ PacerOK(u) /\ u.current = v.current
        /\ DOMAIN u.queues = DOMAIN v.queues \cup {f} /\ u.queues[f] # <<>>
        /\ \A g \in DOMAIN v.queues : g # f => u.queues[g] = v.queues[g]
    BY <2>2, <2>3, Enqueued
  <2> HIDE DEF u
  <2>5. \A g : Waiting(q, g) => Waiting(u, g)
    BY <2>2, <2>4 DEF Waiting
  <2>6. Turn(u, P)
    <3>1. \A g \in Flows : P[g] \subseteq P[g] /\ (~Waiting(u, g) => P[g] = {})
      BY <2>5 DEF Turn
    <3>2. u.current = q.current
      BY <2>2, <2>4
    <3> QED
      BY <3>1, <3>2, TurnKept
  <2> QED
    BY <2>1, <2>2, <2>4, <2>6
<1> QED
  BY <1>2, <1>3

\* flush_flow: the queue of the flow goes, the iterator does not stay on it.
FlushedTo(q, f, u) ==
  /\ DOMAIN u.queues = DOMAIN q.queues \ {f}
  /\ \A g \in DOMAIN u.queues : u.queues[g] = q.queues[g]
  /\ u.current = IF q.current = f THEN NextOf(q, f) ELSE q.current

LEMMA FlushedQueues ==
  ASSUME NEW q, PacerOK(q), NdpConstants, NEW f \in Flows, f \in DOMAIN q.queues,
         NEW u, u = FlushFlow(q, f)
  PROVE  PacerOK(u) /\ FlushedTo(q, f, u)
<1> DEFINE c == IF q.current = f THEN NextOf(q, f) ELSE q.current
           D == q.queues
           Q == [g \in DOMAIN D \ {f} |-> D[g]]
<1>1. /\ q = [queues |-> D, current |-> q.current, since |-> q.since, timers |-> q.timers]
      /\ DOMAIN D \subseteq Flows /\ D \in [DOMAIN D -> Seq(Pull)]
      /\ q.current \in Flows \cup {End}
  BY PacerParts
<1>2. u = [q EXCEPT !.current = c, !.queues = Q]
  BY DEF FlushFlow
<1>3. c \in Flows \cup {End}
  BY <1>1, NextIsNext
<1> HIDE DEF D
<1>4. /\ DOMAIN Q = DOMAIN D \ {f} /\ Q \in [DOMAIN Q -> Seq(Pull)]
      /\ \A g \in DOMAIN Q : Q[g] = D[g]
  BY <1>1
<1> HIDE DEF Q, c
<1>5. u = [queues |-> Q, current |-> c, since |-> q.since, timers |-> q.timers]
  BY <1>1, <1>2
<1>6. DOMAIN Q \subseteq Flows
  BY <1>1, <1>4
<1>7. PacerOK(u) /\ u.queues = Q /\ u.current = c
  <2>1. q.since \in 0 .. Drain /\ q.timers \in [0 .. Drain -> Nat]
    BY PacerParts
  <2> QED
    BY <1>3, <1>4, <1>5, <1>6, <2>1 DEF PacerOK
<1> QED
  BY <1>4, <1>7 DEF c, D, FlushedTo

\* flush_flow moves the iterator on when it stands at the flow.
LEMMA Flushed ==
  ASSUME NEW q, PacerOK(q), NdpConstants, NEW P, Turn(q, P), NEW f \in Flows,
         NEW u, u = FlushFlow(q, f), NEW R,
         \A g \in Flows : R[g] \subseteq P[g] /\ (~Waiting(u, g) => R[g] = {}),
         \A g \in Flows : P[g] \subseteq Flows
  PROVE  PacerOK(u) /\ DOMAIN u.queues \subseteq DOMAIN q.queues /\ Turn(u, R)
<1>1. CASE f \notin DOMAIN q.queues
  <2>1. u = q
    BY <1>1 DEF FlushFlow
  <2> QED
    BY <2>1, TurnKept
<1>2. CASE f \in DOMAIN q.queues
  <2> DEFINE c == u.current
  <2>0. PacerOK(u) /\ FlushedTo(q, f, u)
    BY <1>2, FlushedQueues
  <2>1. /\ PacerOK(u) /\ DOMAIN u.queues = DOMAIN q.queues \ {f}
        /\ \A g \in DOMAIN u.queues : u.queues[g] = q.queues[g]
        /\ c = IF q.current = f THEN NextOf(q, f) ELSE q.current
    BY <2>0 DEF FlushedTo
  <2>2. q.current \in Flows \cup {End}
    BY PacerParts
  <2>3. NextOf(q, f) \in Flows \cup {End} /\ (NextOf(q, f) = End \/ f < NextOf(q, f))
        /\ \A g \in DOMAIN q.queues : f < g => NextOf(q, f) # End /\ NextOf(q, f) <= g
    BY NextIsNext
  <2> HIDE DEF c
  <2>4. ASSUME NEW g \in Flows, NEW h \in R[g] PROVE h # g /\ Between(c, h, g)
    <3>1. h \in P[g] /\ Waiting(u, g) /\ h \in Flows
      BY <2>4
    <3>2. h # g /\ Between(q.current, h, g)
      BY <3>1 DEF Turn
    <3>3. g \in DOMAIN q.queues /\ g # f
      BY <2>1, <3>1 DEF Waiting
    <3>4. CASE q.current # f
      BY <2>1, <3>2, <3>4
    <3>5. CASE q.current = f
      <4> DEFINE n == NextOf(q, f)
      <4>1. /\ c = n /\ (n = End \/ f < n) /\ (f < g => n # End /\ n <= g)
        BY <2>1, <2>3, <3>3, <3>5
      <4>2. f \in Nat /\ g \in Nat /\ h \in Nat /\ n \in Nat \cup {End}
        BY <2>3, <3>1 DEF NdpConstants
      <4> HIDE DEF n
      <4> QED
        BY <3>2, <3>3, <3>5, <4>1, <4>2 DEF Between, End
    <3> QED
      BY <3>4, <3>5
  <2>5. Turn(u, R)
    BY <2>4 DEF Turn, c
  <2> QED
    BY <2>1, <2>5
<1> QED
  BY <1>1, <1>2

\* A pull is served and the iterator moves behind the flow: those that still
\* wait have now seen that flow.
LEMMA TurnTaken ==
  ASSUME NEW q, PacerOK(q), NdpConstants, ~QueuesEmpty(q), NEW P, Turn(q, P),
         \A g \in Flows : P[g] \subseteq Flows,
         NEW u, NEW R, u.current = NextOf(q, Served(q)),
         \A g \in Flows : g # Served(q) => (Waiting(u, g) <=> Waiting(q, g)),
         \A g \in Flows : R[g] = IF g = Served(q) \/ ~Waiting(q, g) THEN {}
                                 ELSE P[g] \cup {Served(q)}
  PROVE  Turn(u, R)
<1> DEFINE f == Served(q)
           c == q.current
           n == NextOf(q, f)
<1>1. /\ f \in Flows
      /\ \/ /\ c # End /\ c <= f /\ \A g \in Flows : Waiting(q, g) /\ c <= g => f <= g
         \/ /\ \A g \in Flows : Waiting(q, g) => c = End \/ g < c
            /\ \A g \in Flows : Waiting(q, g) => f <= g
  BY ServedIsFirst
<1> HIDE DEF f
<1>2. /\ n \in Flows \cup {End} /\ (n = End \/ f < n)
      /\ \A g \in DOMAIN q.queues : f < g => n # End /\ n <= g
  BY <1>1, NextIsNext
<1>3. Flows \subseteq Nat /\ c \in Flows \cup {End}
  BY PacerParts DEF NdpConstants
<1>4. \A g \in Flows : ~Waiting(u, g) => R[g] = {}
  BY DEF f
<1>5. ASSUME NEW g \in Flows, NEW h \in R[g] PROVE h # g /\ Between(n, h, g)
  <2>1. g # f /\ Waiting(q, g) /\ (h \in P[g] \/ h = f)
    BY <1>5 DEF f
  <2>2. h \in Flows /\ (h = f \/ (h # g /\ Between(c, h, g)))
    BY <1>1, <2>1 DEF Turn
  <2>3. f < g => n # End /\ n <= g
    BY <1>2, <2>1 DEF Waiting
  <2>4. f \in Nat /\ g \in Nat /\ h \in Nat /\ n \in Nat \cup {-1} /\ c \in Nat \cup {-1}
    BY <1>1, <1>2, <1>3, <2>2 DEF End
  <2>5. \/ c # End /\ c <= f /\ (c <= g => f <= g)
        \/ (c = End \/ g < c) /\ f <= g
    BY <1>1, <2>1
  <2>6. n = End \/ f < n
    BY <1>2
  <2> HIDE DEF n, c
  <2>7. CASE h = f
    BY <2>1, <2>3, <2>4, <2>6, <2>7 DEF Between, End
  <2>8. CASE h # g /\ Between(c, h, g)
    <3>1. CASE h < g
      <4>1. h < c /\ c <= g
        BY <2>8, <3>1 DEF Between
      <4>2. c <= f /\ f < g
        BY <2>1, <2>4, <2>5, <4>1 DEF End
      <4> QED
        BY <2>3, <2>4, <2>6, <3>1, <4>1, <4>2 DEF Between, End
    <3>2. CASE ~(h < g)
      <4>1. c = End \/ h < c \/ c <= g
        BY <2>8, <3>2 DEF Between
      <4>2. f < g \/ (c <= f /\ h < c)
        BY <2>1, <2>4, <2>5, <4>1 DEF End
      <4> QED
        BY <2>3, <2>4, <2>6, <2>8, <3>2, <4>2 DEF Between, End
    <3> QED
      BY <3>1, <3>2
  <2> QED
    BY <2>2, <2>7, <2>8, <2>1
<1> QED
  BY <1>4, <1>5 DEF Turn, f

\* The flow served has not been served since a waiting flow began to wait.
LEMMA ServedIsNew ==
  ASSUME NEW q, PacerOK(q), NdpConstants, ~QueuesEmpty(q), NEW P, Turn(q, P),
         NEW g \in Flows, Waiting(q, g), g # Served(q)
  PROVE  Served(q) \notin P[g]
<1> DEFINE f == Served(q)
           c == q.current
<1>1. /\ f \in Flows
      /\ \/ c # End /\ c <= f /\ (c <= g => f <= g)
         \/ (c = End \/ g < c) /\ f <= g
  BY ServedIsFirst
<1>2. f \in Nat /\ g \in Nat /\ c \in Nat \cup {-1}
  BY <1>1, PacerParts DEF NdpConstants, End
<1>3. ASSUME f \in P[g] PROVE FALSE
  <2>1. Between(c, f, g)
    BY <1>3 DEF Turn
  <2> HIDE DEF f, c
  <2>2. f # g
    BY DEF f
  <2> QED
    BY <1>1, <1>2, <2>1, <2>2 DEF Between, End
<1> QED
  BY <1>3

-----------------------------------------------------------------------------
(* The steps of the network, the sinks and the pacer.                      *)

LEMMA PacerTyped ==
  TypeOK <=> /\ src \in [Flows -> SrcRecord] /\ snk \in [Flows -> SnkRecord]
             /\ PacerOK(pacer) /\ passed \in [Flows -> SUBSET Flows]
             /\ net \subseteq Packet /\ budget \in [trims : Nat, bounces : Nat]
  BY DEF TypeOK, PacerOK, Pull

\* A packet p of flow f becomes the packet m, and the sink's record k.
LEMMA PacketStep ==
  ASSUME NdpConstants, NdpInv, NEW p \in net, NEW f, f = p.flow, NEW m \in Packet,
         m.flow = f, NEW k \in SnkRecord, NEW x \in [trims : Nat, bounces : Nat],
         NEW N, N = (net \ {p}) \cup {m}, Tidy(f, src[f], k, N), Windowed(f, src[f], k, N),
         src' = src, snk' = [snk EXCEPT ![f] = k], net' = N, budget' = x,
         PacerOK(pacer'), DOMAIN pacer'.queues \subseteq DOMAIN pacer.queues \cup {f},
         passed' \in [Flows -> SUBSET Flows], Turn(pacer', passed')
  PROVE  NdpInv'
<1>1. /\ TypeOK /\ IsFiniteSet(net) /\ Fresh /\ \A g \in Flows : FlowInv(g)
  BY DEF NdpInv, FlowInv
<1>2. /\ src \in [Flows -> SrcRecord] /\ snk \in [Flows -> SnkRecord]
      /\ net \subseteq Packet /\ p \in Packet
  BY <1>1, PacerTyped
<1>3. f \in Flows
  BY <1>2, PacketKinds
<1>4. /\ snk' \in [Flows -> SnkRecord] /\ snk'[f] = k
      /\ \A g \in Flows \ {f} : snk'[g] = snk[g]
  BY <1>2, <1>3
<1>5. N \subseteq Packet /\ IsFiniteSet(N)
  BY <1>1, <1>2, FS_Subset, FS_AddElement
<1>6. TypeOK'
  <2>1. PacerOK(pacer')
    OBVIOUS
  <2>2. /\ DOMAIN pacer'.queues \subseteq Flows
        /\ pacer'.queues \in [DOMAIN pacer'.queues -> Seq([cum : Nat, pullNo : Nat])]
        /\ pacer' \in [queues : {pacer'.queues}, current : Flows \cup {End},
                       since : 0 .. Drain, timers : [0 .. Drain -> Nat]]
    BY <2>1 DEF PacerOK, Pull
  <2> QED
    BY <1>2, <1>4, <1>5, <2>2 DEF TypeOK
<1>7. Fresh'
  <2>1. src[f].started
    BY <1>1 DEF Fresh
  <2>2. \A q \in N : src[q.flow].started
    BY <1>1, <2>1 DEF Fresh
  <2>3. \A g \in DOMAIN pacer'.queues : src[g].started
    BY <1>1, <2>1 DEF Fresh
  <2>4. \A g \in Flows : src[g].started \/ (snk'[g].pullNo = 0 /\ src[g].highest = 0)
    <3> TAKE g \in Flows
    <3>1. CASE g = f
      BY <2>1, <3>1
    <3>2. CASE g # f
      BY <1>1, <1>4, <3>2 DEF Fresh
    <3> QED
      BY <3>1, <3>2
  <2> QED
    BY <2>2, <2>3, <2>4 DEF Fresh
<1>8. ASSUME NEW g \in Flows PROVE FlowInv(g)'
  <2>1. CASE g = f
    BY <1>4, <2>1 DEF FlowInv
  <2>2. CASE g # f
    <3>1. \A q : q.flow = g => (q \in net <=> q \in net')
      BY <2>2
    <3>2. src'[g] = src[g] /\ snk'[g] = snk[g] /\ FlowInv(g)
      BY <1>1, <1>4, <2>2
    <3> QED
      BY <3>1, <3>2, OtherFlow
  <2> QED
    BY <2>1, <2>2
<1>9. InTurn'
  BY DEF InTurn
<1>10. IsFiniteSet(net')
  BY <1>5
<1> QED
  BY <1>6, <1>7, <1>8, <1>9, <1>10 DEF NdpInv, FlowInv

LEMMA TrimStep ==
  ASSUME NdpConstants, NdpInv, NEW p \in net, Trim(p) \/ BounceHeader(p)
  PROVE  NdpInv'
<1> DEFINE f == p.flow
<1>1. /\ TypeOK /\ IsFiniteSet(net) /\ Turn(pacer, passed)
      /\ \A g \in Flows : FlowInv(g)
  BY DEF NdpInv, FlowInv, InTurn
<1>2. /\ p \in Packet /\ f \in Flows /\ snk \in [Flows -> SnkRecord] /\ PacerOK(pacer)
      /\ passed \in [Flows -> SUBSET Flows] /\ src[f] \in SrcRecord
  BY <1>1, PacerTyped, PacketKinds
<1>3. PICK t \in {"header", "bounced"} :
        /\ net' = (net \ {p}) \cup {[type |-> t, flow |-> f, seq |-> p.seq, last |-> p.last]}
        /\ UNCHANGED <<src, snk, pacer, passed>> /\ p.type \in {"full", "header"}
        /\ budget' \in [trims : Nat, bounces : Nat]
  <2>1. budget \in [trims : Nat, bounces : Nat]
    BY <1>1 DEF TypeOK
  <2>2. CASE Trim(p)
    <3>1. budget.trims - 1 \in Nat /\ budget' = [budget EXCEPT !.trims = @ - 1]
      BY <2>1, <2>2 DEF Trim
    <3>2. budget' \in [trims : Nat, bounces : Nat]
      BY <2>1, <3>1
    <3> QED
      BY <2>2, <3>2 DEF Trim, HeaderPkt
  <2>3. CASE BounceHeader(p)
    <3>1. budget.bounces - 1 \in Nat /\ budget' = [budget EXCEPT !.bounces = @ - 1]
      BY <2>1, <2>3 DEF BounceHeader
    <3>2. budget' \in [trims : Nat, bounces : Nat]
      BY <2>1, <3>1
    <3> QED
      BY <2>3, <3>2 DEF BounceHeader, BouncedPkt
  <2> QED
    BY <2>2, <2>3
<1> DEFINE m == [type |-> t, flow |-> f, seq |-> p.seq, last |-> p.last]
           N == (net \ {p}) \cup {m}
           s == src[f]
           k == snk[f]
<1>4. m \in Packet /\ m.flow = f /\ m.type = t /\ m.seq = p.seq
  BY <1>2, <1>3, PacketKinds DEF Packet
<1>5. Tidy(f, s, k, net) /\ Windowed(f, s, k, net) /\ k \in SnkRecord
  BY <1>1, <1>2 DEF FlowInv
<1>6. net' = N
  BY <1>3
<1> HIDE DEF m
<1>7. p \in OnWay(net, f) /\ p \in Ahead(net, f)
  BY <1>3 DEF OnWay, Ahead
<1> HIDE DEF f, s, k
<1>8. Tidy(f, s, k, N)
  <2>1. m.type \in {"full", "header", "bounced", "nack"}
    BY <1>3, <1>4
  <2> QED
    BY <1>4, <1>5, <1>7, <2>1, Swapped
<1>9. Windowed(f, s, k, N)
  <2> DEFINE B == net \ {p}
  <2>1. Cardinality(Ahead(B, f)) = Cardinality(Ahead(net, f)) - 1
    BY <1>1, <1>7, TakeAhead
  <2>2. IsFiniteSet(B)
    BY <1>1, FS_Subset
  <2> HIDE DEF B
  <2>3. Cardinality(Ahead(B \cup {m}, f)) <= Cardinality(Ahead(B, f)) + 1
    BY <2>2, PutAhead
  <2>4. IsFiniteSet(B \cup {m})
    BY <2>2, FS_AddElement
  <2>5. /\ Cardinality(Ahead(B \cup {m}, f)) \in Nat /\ Cardinality(Ahead(net, f)) \in Nat
        /\ Cardinality(Ahead(B, f)) \in Nat
    BY <1>1, <2>2, <2>4, AheadFinite
  <2>6. k.pullNo \in Nat /\ s.lastPull \in Nat /\ Cwnd \in Nat
    BY <1>2, <1>5 DEF SnkRecord, SrcRecord, NdpConstants, s
  <2>7. Cardinality(Ahead(net, f)) + k.pullNo - s.lastPull <= Cwnd
    BY <1>5 DEF Windowed
  <2>8. Windowed(f, s, k, B \cup {m})
    BY <2>1, <2>3, <2>5, <2>6, <2>7 DEF Windowed
  <2> QED
    BY <2>8 DEF B
<1>10. snk' = [snk EXCEPT ![f] = k]
  BY <1>2, <1>3 DEF k
<1>11. /\ PacerOK(pacer') /\ DOMAIN pacer'.queues \subseteq DOMAIN pacer.queues \cup {f}
       /\ passed' \in [Flows -> SUBSET Flows] /\ Turn(pacer', passed') /\ src' = src
       /\ budget' \in [trims : Nat, bounces : Nat]
  BY <1>1, <1>2, <1>3
<1> HIDE DEF N
<1>12. /\ f = p.flow /\ N = (net \ {p}) \cup {m} /\ Tidy(f, src[f], k, N)
       /\ Windowed(f, src[f], k, N)
  BY <1>8, <1>9 DEF f, N, s
<1> QED
  BY <1>4, <1>5, <1>6, <1>10, <1>11, <1>12, PacketStep

\* A record of send_ack or send_nack.
IsFeedback(m, t, f, s, c, no) == m = Feedback(t, f, s, c, no, TRUE)

LEMMA FeedbackMade ==
  ASSUME NEW t \in {"ack", "nack"}, NEW f \in Flows, NEW s \in Nat, NEW c \in Nat, NEW no \in Nat,
         NEW b, b \in BOOLEAN, NEW x, x = Feedback(t, f, s, c, no, b)
  PROVE  /\ x \in Packet /\ x.flow = f /\ x.type = t /\ x.seq = s
         /\ x.cum = c /\ x.pullNo = no
<1>1. x = [type |-> t, flow |-> f, seq |-> s, cum |-> c, pullNo |-> no, pull |-> b]
  BY DEF Feedback
<1> QED
  BY <1>1 DEF Packet

LEMMA FeedbackSent ==
  ASSUME NEW t \in {"ack", "nack"}, NEW f \in Flows, NEW s \in Nat, NEW c \in Nat, NEW no \in Nat,
         NEW m, IsFeedback(m, t, f, s, c, no), NEW x, x = m \/ x = Unpulled(m)
  PROVE  /\ m.flow = f /\ m.cum = c /\ m.pullNo = no
         /\ x \in Packet /\ x.flow = f /\ x.type = t /\ x.seq = s
<1>1. PICK b : b = TRUE
  OBVIOUS
<1>2. PICK y : y = FALSE
  OBVIOUS
<1>3. b \in BOOLEAN /\ y \in BOOLEAN
  BY <1>1, <1>2
<1>4. m = Feedback(t, f, s, c, no, b)
  BY <1>1, Zenon DEF IsFeedback
<1>5. x = m \/ x = [m EXCEPT !.pull = y, !.pullNo = 0]
  BY <1>2, Zenon DEF Unpulled
<1>6. x = m \/ x = Feedback(t, f, s, c, 0, y)
  BY <1>4, <1>5 DEF Feedback
<1>7. /\ m \in Packet /\ m.flow = f /\ m.type = t /\ m.seq = s /\ m.cum = c /\ m.pullNo = no
  BY <1>3, <1>4, FeedbackMade
<1>8. ASSUME x = Feedback(t, f, s, c, 0, y)
       PROVE  x \in Packet /\ x.flow = f /\ x.type = t /\ x.seq = s
  BY <1>3, <1>8, FeedbackMade
<1> QED
  BY <1>6, <1>7, <1>8

\* What the history of a sink step keeps.
LEMMA HistoryFiltered ==
  ASSUME passed \in [Flows -> SUBSET Flows],
         passed' = [g \in Flows |-> IF Waiting(pacer', g) THEN passed[g] ELSE {}]
  PROVE  /\ passed' \in [Flows -> SUBSET Flows]
         /\ \A g \in Flows :
              passed'[g] \subseteq passed[g] /\ (~Waiting(pacer', g) => passed'[g] = {})
  OBVIOUS

LEMMA SinkHeaderStep ==
  ASSUME NdpConstants, NdpInv, NEW p \in net, p.type = "header", SinkReceive(p)
  PROVE  NdpInv'
<1> DEFINE f == p.flow
           s == src[f]
           j == snk[f]
           k == [j EXCEPT !.pullNo = @ + 1]
           m == Feedback("nack", f, p.seq, k.cum, k.pullNo, TRUE)
           r == PacerSend(pacer, m)
           N == (net \ {p}) \cup {r.out}
<1>1. /\ TypeOK /\ IsFiniteSet(net) /\ Turn(pacer, passed)
      /\ \A g \in Flows : FlowInv(g)
  BY DEF NdpInv, FlowInv, InTurn
<1>2. /\ p \in Packet /\ f \in Flows /\ PacerOK(pacer) /\ budget \in [trims : Nat, bounces : Nat]
      /\ passed \in [Flows -> SUBSET Flows] /\ s \in SrcRecord /\ j \in SnkRecord
  BY <1>1, PacerTyped, PacketKinds
<1>3. p.seq \in Nat
  BY <1>2, PacketKinds
<1>4. /\ snk' = [snk EXCEPT ![f] = k] /\ pacer' = r.q /\ net' = N
      /\ UNCHANGED <<src, budget>>
      /\ passed' = [g \in Flows |-> IF Waiting(pacer', g) THEN passed[g] ELSE {}]
  BY DEF SinkReceive, SinkHeader
<1>5. Tidy(f, s, j, net) /\ Windowed(f, s, j, net)
  BY <1>1, <1>2 DEF FlowInv
<1>6. s = src[f] /\ f = p.flow
  OBVIOUS
<1> HIDE DEF f, s, j
<1>7. /\ k \in SnkRecord /\ k.cum = j.cum /\ k.received = j.received
      /\ k.pullNo = j.pullNo + 1 /\ k.cum \in Nat /\ k.pullNo \in Nat
  <2>1. j.pullNo + 1 \in Nat /\ j.cum \in Nat
    BY <1>2 DEF SnkRecord
  <2>2. k \in SnkRecord
    BY <1>2, <2>1 DEF SnkRecord
  <2>3. k.cum = j.cum /\ k.received = j.received /\ k.pullNo = j.pullNo + 1
    BY <1>2 DEF SnkRecord
  <2> QED
    BY <2>1, <2>2, <2>3
<1> HIDE DEF k
<1>8. IsFeedback(m, "nack", f, p.seq, k.cum, k.pullNo)
  BY DEF IsFeedback
<1> HIDE DEF m
<1>9. m.flow = f /\ m.cum \in Nat /\ m.pullNo \in Nat
  BY <1>2, <1>3, <1>7, <1>8, FeedbackSent
<1>10. /\ PacerOK(r.q) /\ Turn(r.q, passed)
       /\ DOMAIN r.q.queues \subseteq DOMAIN pacer.queues \cup {f}
       /\ r.out = m \/ r.out = Unpulled(m)
  BY <1>1, <1>2, <1>9, PacerSends
<1> DEFINE x == r.out
           q == r.q
<1> HIDE DEF r
<1>11. x \in Packet /\ x.flow = f /\ x.type = "nack" /\ x.seq = p.seq
  BY <1>2, <1>3, <1>7, <1>8, <1>10, FeedbackSent DEF x
<1> HIDE DEF x
<1>12. Tidy(f, s, k, N) /\ Windowed(f, s, k, N)
  BY <1>1, <1>2, <1>5, <1>6, <1>7, <1>11, HeaderArrives DEF x
<1>13. /\ PacerOK(pacer') /\ DOMAIN pacer'.queues \subseteq DOMAIN pacer.queues \cup {f}
       /\ passed' \in [Flows -> SUBSET Flows] /\ Turn(pacer', passed')
  <2>1. Turn(pacer', passed)
    BY <1>4, <1>10
  <2>2. /\ passed' \in [Flows -> SUBSET Flows]
        /\ \A g \in Flows :
             passed'[g] \subseteq passed[g] /\ (~Waiting(pacer', g) => passed'[g] = {})
    BY <1>2, <1>4, HistoryFiltered
  <2>3. Turn(pacer', passed')
    BY <2>1, <2>2, TurnKept
  <2> QED
    BY <1>4, <1>10, <2>2, <2>3
<1>14. N = (net \ {p}) \cup {x}
  BY DEF x
<1> HIDE DEF N
<1>15. src' = src /\ budget' = budget
  BY <1>4
<1> QED
  BY <1>2, <1>4, <1>6, <1>7, <1>11, <1>12, <1>13, <1>14, <1>15, PacketStep

LEMMA SinkFullStep ==
  ASSUME NdpConstants, NdpInv, NEW p \in net, p.type = "full", SinkReceive(p)
  PROVE  NdpInv'
<1> DEFINE f == p.flow
           s == src[f]
           j == snk[f]
           c == CumAfter(j, p.seq)
           R == {a \in j.received \cup {p.seq} : a > c}
           l == IF p.last THEN p.seq ELSE j.last
           k == [j EXCEPT !.cum = c, !.received = R, !.last = l, !.pullNo = @ + 1]
           m == Feedback("ack", f, p.seq, k.cum, k.pullNo, TRUE)
           r == PacerSend(pacer, m)
           N == (net \ {p}) \cup {r.out}
<1>1. /\ TypeOK /\ IsFiniteSet(net) /\ Turn(pacer, passed)
      /\ \A g \in Flows : FlowInv(g)
  BY DEF NdpInv, FlowInv, InTurn
<1>2. /\ p \in Packet /\ f \in Flows /\ PacerOK(pacer) /\ budget \in [trims : Nat, bounces : Nat]
      /\ passed \in [Flows -> SUBSET Flows] /\ s \in SrcRecord /\ j \in SnkRecord
  BY <1>1, PacerTyped, PacketKinds
<1>3. p.seq \in Nat
  BY <1>2, PacketKinds
<1>4. /\ snk' = [snk EXCEPT ![f] = k] /\ net' = N
      /\ pacer' = IF Complete(k) THEN FlushFlow(r.q, f) ELSE r.q
      /\ UNCHANGED <<src, budget>>
      /\ passed' = [g \in Flows |-> IF Waiting(pacer', g) THEN passed[g] ELSE {}]
  BY DEF SinkReceive, SinkFull
<1>5. Tidy(f, s, j, net) /\ Windowed(f, s, j, net)
  BY <1>1, <1>2 DEF FlowInv
<1>6. s = src[f] /\ f = p.flow
  OBVIOUS
<1> HIDE DEF f, s, j
<1>7. j.pullNo + 1 \in Nat /\ l \in Nat
  BY <1>2, <1>3 DEF SnkRecord
<1> HIDE DEF l, m
<1>8. k.cum = c /\ k.received = R /\ k.pullNo = j.pullNo + 1
  <2> HIDE DEF R, c
  <2> QED
    BY <1>2 DEF SnkRecord
<1>9. Took(k, j, p.seq)
  <2> HIDE DEF k
  <2> QED
    BY <1>8 DEF Took
<1> DEFINE x == r.out
<1> HIDE DEF R, c, r
<1>10. k.cum \in Nat /\ k.received \in SUBSET Nat
  <2>1. Divided(f, s, j, net) /\ s.highest \in Nat
    BY <1>2, <1>5 DEF Tidy, SrcRecord
  <2>2. p.seq \in SeqsIn(OnWay(net, f))
    BY <1>6 DEF OnWay, SeqsIn
  <2>3. HeldBy(j) \cup {p.seq} \subseteq 1 .. s.highest
    BY <2>1, <2>2 DEF Divided
  <2> HIDE DEF k
  <2> QED
    BY <1>2, <1>3, <1>9, <2>1, <2>3, HeldAfter
<1>11. k \in SnkRecord
  <2>1. c \in Nat /\ R \in SUBSET Nat
    BY <1>8, <1>10
  <2> QED
    BY <1>2, <1>7, <2>1 DEF SnkRecord
<1> HIDE DEF k
<1>12. k.cum \in Nat /\ k.pullNo \in Nat
  BY <1>11 DEF SnkRecord
<1>13. IsFeedback(m, "ack", f, p.seq, k.cum, k.pullNo)
  BY DEF m, IsFeedback
<1>14. m.flow = f /\ m.cum \in Nat /\ m.pullNo \in Nat
  BY <1>2, <1>3, <1>12, <1>13, FeedbackSent
<1>15. /\ PacerOK(r.q) /\ Turn(r.q, passed)
       /\ DOMAIN r.q.queues \subseteq DOMAIN pacer.queues \cup {f}
       /\ r.out = m \/ r.out = Unpulled(m)
  BY <1>1, <1>2, <1>14, PacerSends DEF r
<1>16. x \in Packet /\ x.flow = f /\ x.type = "ack" /\ x.seq = p.seq
  BY <1>2, <1>3, <1>12, <1>13, <1>15, FeedbackSent
<1>17. N = (net \ {p}) \cup {x}
  OBVIOUS
<1> HIDE DEF x, N
<1>18. Tidy(f, s, k, N) /\ Windowed(f, s, k, N)
  BY <1>1, <1>2, <1>5, <1>6, <1>8, <1>9, <1>16, <1>17, FullArrives
<1>19. /\ passed' \in [Flows -> SUBSET Flows]
       /\ \A g \in Flows :
            passed'[g] \subseteq passed[g] /\ (~Waiting(pacer', g) => passed'[g] = {})
  BY <1>2, <1>4, HistoryFiltered
<1>20. /\ PacerOK(pacer') /\ DOMAIN pacer'.queues \subseteq DOMAIN pacer.queues \cup {f}
       /\ Turn(pacer', passed')
  <2>1. CASE Complete(k)
    <3> DEFINE q == r.q
    <3>1. pacer' = FlushFlow(q, f)
      BY <1>4, <2>1
    <3>2. \A g \in Flows : passed[g] \subseteq Flows
      BY <1>2
    <3>3. PacerOK(q) /\ Turn(q, passed) /\ DOMAIN q.queues \subseteq DOMAIN pacer.queues \cup {f}
      BY <1>15
    <3> HIDE DEF q
    <3>4. /\ PacerOK(pacer') /\ DOMAIN pacer'.queues \subseteq DOMAIN q.queues
          /\ Turn(pacer', passed')
      BY <1>2, <1>19, <3>1, <3>2, <3>3, Flushed
    <3> QED
      BY <3>3, <3>4
  <2>2. CASE ~Complete(k)
    <3>1. pacer' = r.q
      BY <1>4, <2>2
    <3>2. Turn(pacer', passed')
      BY <1>15, <1>19, <3>1, TurnKept
    <3> QED
      BY <1>15, <3>1, <3>2
  <2> QED
    BY <2>1, <2>2
<1>21. src' = src /\ budget' = budget
  BY <1>4
<1> QED
  BY <1>2, <1>4, <1>6, <1>11, <1>16, <1>17, <1>18, <1>19, <1>20, <1>21, PacketStep

\* A pull goes out and its flow is served.
LEMMA Dequeued ==
  ASSUME NEW q, PacerOK(q), NdpConstants, ~QueuesEmpty(q), NEW f, f = Served(q)
  PROVE  LET d == [Dequeue(q) EXCEPT !.since = 0]
         IN  /\ PacerOK(d) /\ d.current = NextOf(q, f) /\ DOMAIN d.queues = DOMAIN q.queues
             /\ \A g \in DOMAIN q.queues : g # f => d.queues[g] = q.queues[g]
             /\ Head(q.queues[f]) \in Pull
<1> DEFINE d == [Dequeue(q) EXCEPT !.since = 0]
           D == q.queues
           Q == [D EXCEPT ![f] = Tail(@)]
           c == NextOf(q, f)
<1>1. /\ q = [queues |-> D, current |-> q.current, since |-> q.since, timers |-> q.timers]
      /\ DOMAIN D \subseteq Flows /\ D \in [DOMAIN D -> Seq(Pull)]
      /\ q.timers \in [0 .. Drain -> Nat]
  BY PacerParts
<1>2. f \in Flows /\ f \in DOMAIN D /\ D[f] # <<>>
  BY ServedIsFirst DEF Waiting
<1>3. c \in Flows \cup {End}
  BY <1>2, NextIsNext
<1>4. Dequeue(q) = [q EXCEPT !.queues[f] = Tail(@), !.current = c]
  BY DEF Dequeue
<1>5. 0 \in 0 .. Drain
  BY DEF NdpConstants
<1> DEFINE v == [q EXCEPT !.queues = Q, !.current = c]
<1>6. d = [v EXCEPT !.since = 0]
  BY <1>4
<1> HIDE DEF v
<1>13. v = [queues |-> Q, current |-> c, since |-> q.since, timers |-> q.timers]
  <2> DEFINE e == q.current  m == q.since  T == q.timers
             w == [q EXCEPT !.queues = Q]
  <2>1. q = [queues |-> D, current |-> e, since |-> m, timers |-> T]
    BY PacerParts
  <2> HIDE DEF Q, c, D, e, m, T
  <2>2. w = [queues |-> Q, current |-> e, since |-> m, timers |-> T]
    BY <2>1
  <2>3. v = [w EXCEPT !.current = c]
    BY DEF v
  <2> HIDE DEF w
  <2>4. v = [queues |-> Q, current |-> c, since |-> m, timers |-> T]
    BY <2>2, <2>3
  <2> QED
    BY <2>4 DEF m, T
<1> HIDE DEF D, c
<1>7. D[f] \in Seq(Pull)
  BY <1>1, <1>2
<1>8. Tail(D[f]) \in Seq(Pull) /\ Head(D[f]) \in Pull
  BY <1>2, <1>7
<1>9. /\ DOMAIN Q = DOMAIN D /\ Q \in [DOMAIN Q -> Seq(Pull)]
      /\ \A g \in DOMAIN D : g # f => Q[g] = D[g]
  BY <1>1, <1>2, <1>8
<1> HIDE DEF Q
<1>10. DOMAIN Q \subseteq Flows
  BY <1>1, <1>9
<1>11. PacerOK(v) /\ v.queues = Q /\ v.current = c
  <2>1. q.since \in 0 .. Drain /\ q.timers \in [0 .. Drain -> Nat]
    BY PacerParts
  <2> QED
    BY <1>3, <1>9, <1>10, <1>13, <2>1 DEF PacerOK
<1>12. PacerOK(d) /\ d.queues = Q /\ d.current = c
  BY <1>5, <1>6, <1>11, SinceUpdate
<1> QED
  BY <1>8, <1>9, <1>12 DEF D, c

\* What a step of the pacer keeps of the flows: a pull is no packet on its way.
LEMMA PacerStep ==
  ASSUME NdpConstants, NdpInv, NEW M, M \subseteq Packet, IsFiniteSet(M), net' = net \cup M,
         \A p \in M : p.type = "pull" /\ p.flow \in DOMAIN pacer.queues,
         UNCHANGED <<src, snk, budget>>, PacerOK(pacer'),
         DOMAIN pacer'.queues = DOMAIN pacer.queues,
         passed' \in [Flows -> SUBSET Flows], Turn(pacer', passed')
  PROVE  NdpInv'
<1>1. /\ TypeOK /\ IsFiniteSet(net) /\ Fresh /\ \A g \in Flows : FlowInv(g)
  BY DEF NdpInv, FlowInv
<1>2. TypeOK'
  <2>1. /\ src \in [Flows -> SrcRecord] /\ snk \in [Flows -> SnkRecord]
        /\ net \subseteq Packet /\ budget \in [trims : Nat, bounces : Nat]
    BY <1>1, PacerTyped
  <2>2. /\ DOMAIN pacer'.queues \subseteq Flows
        /\ pacer'.queues \in [DOMAIN pacer'.queues -> Seq([cum : Nat, pullNo : Nat])]
        /\ pacer' \in [queues : {pacer'.queues}, current : Flows \cup {End},
                       since : 0 .. Drain, timers : [0 .. Drain -> Nat]]
    BY DEF PacerOK, Pull
  <2>3. net' \subseteq Packet
    BY <2>1
  <2> QED
    BY <2>1, <2>2, <2>3 DEF TypeOK
<1>3. Fresh'
  BY <1>1 DEF Fresh
<1>4. ASSUME NEW g \in Flows PROVE FlowInv(g)'
  <2> DEFINE N == net \cup M
             s == src[g]
             k == snk[g]
  <2>1. Tidy(g, s, k, net) /\ Windowed(g, s, k, net)
    BY <1>1 DEF FlowInv
  <2>2. /\ OnWay(N, g) = OnWay(net, g) /\ AcksIn(N, g) = AcksIn(net, g)
        /\ Ahead(N, g) = Ahead(net, g)
    BY DEF OnWay, AcksIn, Ahead
  <2> HIDE DEF N
  <2>3. Tidy(g, s, k, N) /\ Windowed(g, s, k, N)
    BY <2>1, <2>2, SameFlow DEF Windowed
  <2> QED
    BY <2>3 DEF FlowInv, N
<1>5. IsFiniteSet(net')
  BY <1>1, FS_Union
<1>6. InTurn'
  BY DEF InTurn
<1> QED
  BY <1>2, <1>3, <1>4, <1>5, <1>6 DEF NdpInv, FlowInv

\* A timer that expires, or time that passes, leaves the queues.
LEMMA ClockStep ==
  ASSUME NdpConstants, NdpInv, UNCHANGED <<src, snk, budget, net, passed>>,
         PacerOK(pacer'), pacer'.queues = pacer.queues, pacer'.current = pacer.current
  PROVE  NdpInv'
<1>1. TypeOK /\ Turn(pacer, passed)
  BY DEF NdpInv, InTurn
<1>2. passed' \in [Flows -> SUBSET Flows] /\ Turn(pacer', passed')
  BY <1>1, PacerTyped DEF Turn, Waiting
<1>3. {} \subseteq Packet /\ IsFiniteSet({}) /\ net' = net \cup {}
  BY FS_EmptySet
<1> QED
  BY <1>2, <1>3, PacerStep

LEMMA TickStep ==
  ASSUME NdpConstants, NdpInv, Tick
  PROVE  NdpInv'
<1> DEFINE q == pacer
           x == [t \in 0 .. Drain |-> IF t = Drain THEN 0 ELSE q.timers[t + 1]]
           n == Less(Drain, q.since + 1)
<1>1. TypeOK
  BY DEF NdpInv
<1>2. PacerOK(q)
  BY <1>1, PacerTyped
<1>3. q.since \in 0 .. Drain /\ q.timers \in [0 .. Drain -> Nat] /\ Drain \in Nat
  BY <1>2, PacerParts DEF NdpConstants
<1>4. pacer' = [q EXCEPT !.since = n, !.timers = x] /\ UNCHANGED <<src, snk, budget, net, passed>>
  BY DEF Tick
<1> HIDE DEF q
<1>5. n \in 0 .. Drain
  BY <1>3 DEF Less
<1>6. x \in [0 .. Drain -> Nat]
  <2>1. ASSUME NEW t \in 0 .. Drain PROVE (IF t = Drain THEN 0 ELSE q.timers[t + 1]) \in Nat
    <3>1. CASE t = Drain
      BY <3>1
    <3>2. CASE t # Drain
      <4>1. t + 1 \in 0 .. Drain
        BY <1>3, <3>2
      <4> QED
        BY <1>3, <3>2, <4>1
    <3> QED
      BY <3>1, <3>2
  <2> QED
    BY <2>1
<1> HIDE DEF x, n
<1> DEFINE u == [q EXCEPT !.since = n]
<1>7. PacerOK(u) /\ u.queues = q.queues /\ u.current = q.current
  BY <1>2, <1>5, SinceUpdate
<1>8. pacer' = [u EXCEPT !.timers = x]
  BY <1>4
<1> HIDE DEF u
<1>9. PacerOK(pacer') /\ pacer'.queues = u.queues /\ pacer'.current = u.current
  BY <1>6, <1>7, <1>8, TimersUpdate
<1> QED
  BY <1>4, <1>7, <1>9, ClockStep DEF q

LEMMA TimerExpires ==
  ASSUME NdpConstants, PacerOK(pacer), PacerEvent
  PROVE  LET q == [pacer EXCEPT !.timers[0] = @ - 1]
         IN  PacerOK(q) /\ q.queues = pacer.queues /\ q.current = pacer.current
<1> DEFINE T == pacer.timers
           q == [pacer EXCEPT !.timers[0] = @ - 1]
           x == [T EXCEPT ![0] = T[0] - 1]
<1>1. T \in [0 .. Drain -> Nat] /\ 0 \in 0 .. Drain /\ T[0] > 0
  BY PacerParts DEF NdpConstants, PacerEvent
<1> HIDE DEF T
<1>2. T[0] - 1 \in Nat
  BY <1>1
<1>3. x \in [0 .. Drain -> Nat]
  BY <1>1, <1>2
<1>4. q = [pacer EXCEPT !.timers = x]
  BY DEF T
<1> HIDE DEF x, q
<1>5. PacerOK(q) /\ q.queues = pacer.queues /\ q.current = pacer.current
  BY <1>3, <1>4, TimersUpdate
<1> QED
  BY <1>5 DEF q

LEMMA PacerEventStep ==
  ASSUME NdpConstants, NdpInv, PacerEvent
  PROVE  NdpInv'
<1> DEFINE q == [pacer EXCEPT !.timers[0] = @ - 1]
           f == Served(q)
           d == [Dequeue(q) EXCEPT !.since = 0]
<1>1. TypeOK /\ Turn(pacer, passed)
  BY DEF NdpInv, InTurn
<1>2. PacerOK(pacer) /\ passed \in [Flows -> SUBSET Flows]
  BY <1>1, PacerTyped
<1>3. PacerOK(q) /\ q.queues = pacer.queues /\ q.current = pacer.current
  BY <1>2, TimerExpires
<1>4. UNCHANGED <<src, snk, budget>>
  BY DEF PacerEvent
<1>5. CASE QueuesEmpty(q)
  <2>1. pacer' = q /\ UNCHANGED <<net, passed>>
    BY <1>5 DEF PacerEvent
  <2> HIDE DEF q
  <2> QED
    BY <1>3, <1>4, <2>1, ClockStep
<1>6. CASE ~QueuesEmpty(q)
  <2>1. /\ net' = net \cup {PullPkt(f, Head(q.queues[f]))}
        /\ pacer' = IF QueuesEmpty(d) THEN d ELSE AddTimer(d, Drain)
        /\ passed' = [g \in Flows |-> IF g = f \/ ~Waiting(q, g) THEN {}
                                      ELSE passed[g] \cup {f}]
    BY <1>6 DEF PacerEvent
  <2>2. Turn(q, passed)
    <3> HIDE DEF q
    <3> QED
      BY <1>1, <1>3 DEF Turn, Waiting
  <2> HIDE DEF q
  <2>3. /\ PacerOK(d) /\ d.current = NextOf(q, f) /\ DOMAIN d.queues = DOMAIN q.queues
        /\ \A g \in DOMAIN q.queues : g # f => d.queues[g] = q.queues[g]
        /\ Head(q.queues[f]) \in Pull
    BY <1>3, <1>6, Dequeued
  <2>4. f \in Flows /\ Waiting(q, f)
    BY <1>3, <1>6, ServedIsFirst
  <2>5. Drain \in 0 .. Drain
    BY DEF NdpConstants
  <2> HIDE DEF f, d
  <2>6. PacerOK(pacer') /\ pacer'.queues = d.queues /\ pacer'.current = d.current
    <3>1. CASE QueuesEmpty(d)
      BY <2>1, <2>3, <3>1
    <3>2. CASE ~QueuesEmpty(d)
      <4>1. pacer' = AddTimer(d, Drain)
        BY <2>1, <3>2
      <4> QED
        BY <2>3, <2>5, <4>1, TimerAdded
    <3> QED
      BY <3>1, <3>2
  <2>7. passed' \in [Flows -> SUBSET Flows]
    BY <1>2, <2>1, <2>4
  <2>8. Turn(pacer', passed')
    <3>1. \A g \in Flows : g # f => (Waiting(pacer', g) <=> Waiting(q, g))
      BY <2>3, <2>6 DEF Waiting
    <3>2. \A g \in Flows : passed'[g] = IF g = f \/ ~Waiting(q, g) THEN {}
                                        ELSE passed[g] \cup {f}
      BY <2>1
    <3>3. \A g \in Flows : passed[g] \subseteq Flows
      BY <1>2
    <3>4. pacer'.current = NextOf(q, f)
      BY <2>3, <2>6
    <3> QED
      BY <1>3, <1>6, <2>2, <3>1, <3>2, <3>3, <3>4, TurnTaken DEF f
  <2> DEFINE M == {PullPkt(f, Head(q.queues[f]))}
  <2>9. /\ M \subseteq Packet /\ \A p \in M : p.type = "pull" /\ p.flow \in DOMAIN pacer.queues
    <3> DEFINE h == Head(q.queues[f])
    <3>1. h.cum \in Nat /\ h.pullNo \in Nat
      BY <2>3 DEF Pull
    <3> HIDE DEF h
    <3>2. PullPkt(f, h) \in Packet /\ PullPkt(f, h).type = "pull" /\ PullPkt(f, h).flow = f
      BY <2>4, <3>1 DEF PullPkt, Packet
    <3>3. f \in DOMAIN pacer.queues
      BY <1>3, <2>4 DEF Waiting
    <3> QED
      BY <3>2, <3>3 DEF h
  <2>10. IsFiniteSet(M)
    BY FS_Singleton
  <2>11. net' = net \cup M
    BY <2>1
  <2>12. DOMAIN pacer'.queues = DOMAIN pacer.queues
    BY <1>3, <2>3, <2>6
  <2> HIDE DEF M
  <2> QED
    BY <1>4, <2>6, <2>7, <2>8, <2>9, <2>10, <2>11, <2>12, PacerStep
<1> QED
  BY <1>5, <1>6

-----------------------------------------------------------------------------
(* The invariant holds.                                                    *)

LEMMA InitInv ==
  ASSUME NdpConstants, Init
  PROVE  NdpInv
<1>1. PICK size \in [Flows -> Sizes] :
        src = [f \in Flows |->
                 [started |-> FALSE, size |-> size[f], highest |-> 0, acked |-> 0,
                  flight |-> 0, lastPull |-> 0, window |-> 0, first |-> 0, rtx |-> <<>>]]
  BY DEF Init
<1>2. /\ snk = [f \in Flows |-> [cum |-> 0, received |-> {}, pullNo |-> 0, last |-> 0]]
      /\ pacer = [queues |-> <<>>, current |-> End, since |-> 0,
                  timers |-> [t \in 0 .. Drain |-> 0]]
      /\ passed = [f \in Flows |-> {}] /\ net = {}
      /\ budget = [trims |-> MaxTrims, bounces |-> MaxBounces]
  BY DEF Init
<1>3. src \in [Flows -> SrcRecord]
  <2>1. ASSUME NEW f \in Flows
        PROVE  [started |-> FALSE, size |-> size[f], highest |-> 0, acked |-> 0,
                flight |-> 0, lastPull |-> 0, window |-> 0, first |-> 0, rtx |-> <<>>]
               \in SrcRecord
    <3>1. <<>> \in Seq([seq : Nat, last : BOOLEAN])
      OBVIOUS
    <3> QED
      BY <3>1 DEF SrcRecord
  <2> QED
    BY <1>1, <2>1
<1>4. snk \in [Flows -> SnkRecord]
  BY <1>2 DEF SnkRecord
<1>5. PacerOK(pacer)
  <2> DEFINE Q == <<>>
             T == [t \in 0 .. Drain |-> 0]
  <2>1. DOMAIN Q = {} /\ Q \in [DOMAIN Q -> Seq(Pull)] /\ DOMAIN Q \subseteq Flows
    OBVIOUS
  <2>2. T \in [0 .. Drain -> Nat] /\ 0 \in 0 .. Drain /\ End \in Flows \cup {End}
    BY DEF NdpConstants
  <2>3. pacer = [queues |-> Q, current |-> End, since |-> 0, timers |-> T]
    BY <1>2
  <2>4. Q \in [DOMAIN Q -> Seq(Pull)] /\ DOMAIN Q \subseteq Flows
    BY <2>1
  <2> HIDE DEF Q, T
  <2>5. pacer.queues = Q
    BY <2>3
  <2>6. pacer \in [queues : {Q}, current : Flows \cup {End}, since : 0 .. Drain,
                  timers : [0 .. Drain -> Nat]]
    BY <2>2, <2>3
  <2> QED
    BY <2>4, <2>5, <2>6 DEF PacerOK
<1>6. TypeOK
  <2>1. budget \in [trims : Nat, bounces : Nat]
    BY <1>2 DEF NdpConstants
  <2> QED
    BY <1>2, <1>3, <1>4, <1>5, <2>1, PacerTyped
<1>7. IsFiniteSet(net) /\ Cardinality({}) = 0
  BY <1>2, FS_EmptySet
<1>8. Fresh
  <2>1. DOMAIN pacer.queues = {}
    BY <1>2
  <2>2. \A f \in Flows : snk[f].pullNo = 0 /\ src[f].highest = 0
    BY <1>1, <1>2
  <2> QED
    BY <1>2, <2>1, <2>2 DEF Fresh
<1>9. InTurn
  BY <1>2 DEF InTurn, Turn
<1>10. ASSUME NEW f \in Flows PROVE FlowInv(f)
  <2> DEFINE s == src[f]
             k == snk[f]
  <2>1. s.highest = 0 /\ s.flight = 0 /\ s.lastPull = 0 /\ s.rtx = <<>>
    BY <1>1
  <2>2. k.cum = 0 /\ k.received = {} /\ k.pullNo = 0
    BY <1>2
  <2> HIDE DEF s, k
  <2>3. OnWay(net, f) = {} /\ AcksIn(net, f) = {} /\ Ahead(net, f) = {}
    BY <1>2 DEF OnWay, AcksIn, Ahead
  <2>4. HeldBy(k) = {} /\ SeqsOf(s.rtx) = {} /\ 1 .. s.highest = {}
    BY <2>1, <2>2 DEF HeldBy, SeqsOf
  <2>5. Divided(f, s, k, net)
    BY <2>1, <2>3, <2>4 DEF Divided, SeqsIn, Single, Distinct
  <2>6. Balanced(f, s, k, net)
    BY <1>7, <2>1, <2>3, <2>4 DEF Balanced, SeqsIn, Single
  <2>7. Windowed(f, s, k, net)
    BY <1>7, <2>1, <2>2, <2>3 DEF Windowed, NdpConstants
  <2> QED
    BY <2>5, <2>6, <2>7 DEF FlowInv, Tidy, s, k
<1> QED
  BY <1>6, <1>7, <1>8, <1>9, <1>10 DEF NdpInv, FlowInv

LEMMA NextInv ==
  ASSUME NdpConstants, NdpInv, [Next]_vars
  PROVE  NdpInv'
<1>1. ASSUME NEW f \in Flows, StartFlow(f) PROVE NdpInv'
  BY <1>1, StartFlowStep
<1>2. ASSUME NEW p \in net, SrcReceive(p) PROVE NdpInv'
  BY <1>2, SrcReceiveStep
<1>3. ASSUME NEW p \in net, SinkReceive(p) PROVE NdpInv'
  <2>1. p.type = "header" \/ p.type = "full"
    BY <1>3 DEF SinkReceive
  <2> QED
    BY <1>3, <2>1, SinkHeaderStep, SinkFullStep
<1>4. ASSUME NEW p \in net, Trim(p) PROVE NdpInv'
  BY <1>4, TrimStep
<1>5. ASSUME NEW p \in net, BounceHeader(p) PROVE NdpInv'
  BY <1>5, TrimStep
<1>6. CASE PacerEvent
  BY <1>6, PacerEventStep
<1>7. CASE Tick
  BY <1>7, TickStep
<1>8. CASE UNCHANGED vars
  BY <1>8 DEF vars, NdpInv, TypeOK, Fresh, InTurn
<1> QED
  BY <1>1, <1>2, <1>3, <1>4, <1>5, <1>6, <1>7, <1>8 DEF Next

\* Every reachable state satisfies the invariant.
THEOREM NdpInvariant == Spec => []NdpInv
<1>1. Init => NdpInv
  BY NdpConstants, InitInv
<1>2. NdpInv /\ [Next]_vars => NdpInv'
  BY NdpConstants, NextInv
<1> QED
  BY <1>1, <1>2, PTL DEF Spec

\* Every variable of the sources, the sinks, the pacer and the network keeps
\* its type.
THEOREM NdpTypeOK == Spec => []TypeOK
<1>1. NdpInv => TypeOK
  BY DEF NdpInv
<1> QED
  BY <1>1, NdpInvariant, PTL

LEMMA OneOrNone ==
  ASSUME NEW S, \A x, y \in S : x = y
  PROVE  Cardinality(S) = IF S = {} THEN 0 ELSE 1
<1>1. CASE S = {}
  BY <1>1, FS_EmptySet
<1>2. CASE S # {}
  <2>1. PICK x : x \in S
    BY <1>2
  <2>2. S = {x}
    BY <2>1
  <2> QED
    BY <1>2, <2>2, FS_Singleton
<1> QED
  BY <1>1, <1>2

\* Whatever the network delivers, trims and returns, in any order: each packet
\* a source has sent is in exactly one place (OneCopy).
THEOREM PacketsAreInOnePlace == Spec => []OneCopy
<1>1. ASSUME NdpInv, NEW f \in Flows
      PROVE  LET held == (1 .. snk[f].cum) \cup snk[f].received
                 Places(s) ==
                   Cardinality({p \in Of(f, {"full", "header", "bounced", "nack"}) : p.seq = s})
                   + Cardinality({i \in 1 .. Len(src[f].rtx) : src[f].rtx[i].seq = s})
                   + (IF s \in held THEN 1 ELSE 0)
             IN  /\ \A s \in 1 .. src[f].highest : Places(s) = 1
                 /\ held \subseteq 1 .. src[f].highest
                 /\ src[f].flight = src[f].highest - Cardinality(held)
                                    + Cardinality(Of(f, {"ack"}))
  <2> DEFINE r == src[f]
             H == HeldBy(snk[f])
             W == OnWay(net, f)
  <2>1. r \in SrcRecord /\ Divided(f, r, snk[f], net) /\ Balanced(f, r, snk[f], net)
    BY <1>1 DEF NdpInv, TypeOK, Tidy
  <2>2. Of(f, {"full", "header", "bounced", "nack"}) = W /\ Of(f, {"ack"}) = AcksIn(net, f)
    BY DEF Of, OnWay, AcksIn
  <2>3. (1 .. snk[f].cum) \cup snk[f].received = H
    BY DEF HeldBy
  <2>4. DOMAIN r.rtx = 1 .. Len(r.rtx)
    BY <2>1 DEF SrcRecord
  <2>5. /\ SeqsIn(W) \cup SeqsOf(r.rtx) \cup H = 1 .. r.highest
        /\ SeqsIn(W) \cap SeqsOf(r.rtx) = {} /\ SeqsIn(W) \cap H = {}
        /\ SeqsOf(r.rtx) \cap H = {} /\ Single(W) /\ Distinct(r.rtx)
    BY <2>1 DEF Divided
  <2>6. r.flight = r.highest - Cardinality(H) + Cardinality(AcksIn(net, f))
    BY <2>1 DEF Balanced
  <2> HIDE DEF W, H
  <2>7. ASSUME NEW s \in 1 .. r.highest
        PROVE  Cardinality({p \in W : p.seq = s})
               + Cardinality({i \in 1 .. Len(r.rtx) : r.rtx[i].seq = s})
               + (IF s \in H THEN 1 ELSE 0) = 1
    <3> DEFINE P == {p \in W : p.seq = s}
               I == {i \in 1 .. Len(r.rtx) : r.rtx[i].seq = s}
    <3>1. \A x, y \in P : x = y
      BY <2>5 DEF Single
    <3>2. \A x, y \in I : x = y
      BY <2>4, <2>5 DEF Distinct
    <3>3. P = {} <=> s \notin SeqsIn(W)
      BY DEF SeqsIn
    <3>4. I = {} <=> s \notin SeqsOf(r.rtx)
      BY <2>4 DEF SeqsOf
    <3> HIDE DEF P, I
    <3>5. /\ Cardinality(P) = IF s \in SeqsIn(W) THEN 1 ELSE 0
          /\ Cardinality(I) = IF s \in SeqsOf(r.rtx) THEN 1 ELSE 0
      BY <3>1, <3>2, <3>3, <3>4, OneOrNone
    <3>6. Cardinality(P) + Cardinality(I) + (IF s \in H THEN 1 ELSE 0) = 1
      <4>1. s \in SeqsIn(W) \/ s \in SeqsOf(r.rtx) \/ s \in H
        BY <2>5
      <4>2. /\ ~(s \in SeqsIn(W) /\ s \in SeqsOf(r.rtx)) /\ ~(s \in SeqsIn(W) /\ s \in H)
            /\ ~(s \in SeqsOf(r.rtx) /\ s \in H)
        BY <2>5
      <4> QED
        BY <3>5, <4>1, <4>2
    <3> QED
      BY <3>6 DEF P, I
  <2>8. H \subseteq 1 .. r.highest
    BY <2>5
  <2> QED
    BY <2>2, <2>3, <2>6, <2>7, <2>8
<1>2. NdpInv => OneCopy
  BY <1>1 DEF OneCopy
<1> QED
  BY <1>2, NdpInvariant, PTL

\* The receiver controls the sender: the packets on their way and the pulls not
\* acted upon never exceed the first window (WindowConserved).
THEOREM WindowIsConserved == Spec => []WindowConserved
<1>1. ASSUME NdpInv, NEW f \in Flows
      PROVE  Cardinality(Of(f, {"full", "header", "bounced"}))
               + snk[f].pullNo - src[f].lastPull <= Cwnd
  <2>1. Of(f, {"full", "header", "bounced"}) = Ahead(net, f)
    BY DEF Of, Ahead
  <2>2. Windowed(f, src[f], snk[f], net)
    BY <1>1 DEF NdpInv
  <2> QED
    BY <2>1, <2>2 DEF Windowed
<1>2. NdpInv => WindowConserved
  BY <1>1 DEF WindowConserved
<1> QED
  BY <1>2, NdpInvariant, PTL

\* The flow a pull is taken from is the one the pacer serves.
LEMMA OnlyServedIsTaken ==
  ASSUME NdpConstants, NdpInv, PacerEvent, NEW f \in Flows, Pulls(f)' < Pulls(f)
  PROVE  \E q : /\ PacerOK(q) /\ q.queues = pacer.queues /\ q.current = pacer.current
                /\ ~QueuesEmpty(q) /\ f = Served(q)
<1> DEFINE q == [pacer EXCEPT !.timers[0] = @ - 1]
           d == [Dequeue(q) EXCEPT !.since = 0]
<1>1. PacerOK(pacer)
  BY PacerTyped DEF NdpInv
<1>2. PacerOK(q) /\ q.queues = pacer.queues /\ q.current = pacer.current
  BY <1>1, TimerExpires
<1>3. \/ QueuesEmpty(q) /\ pacer' = q
      \/ ~QueuesEmpty(q) /\ (pacer' = d \/ pacer' = AddTimer(d, Drain))
  BY DEF PacerEvent
<1>4. Pulls(f) \in Int
  BY <1>1, PacerParts DEF Pulls
<1>5. ASSUME pacer'.queues[f] = pacer.queues[f], DOMAIN pacer'.queues = DOMAIN pacer.queues
      PROVE  FALSE
  <2>1. Pulls(f)' = Pulls(f)
    BY <1>5 DEF Pulls
  <2> QED
    BY <1>4, <2>1
<1> HIDE DEF q
<1>6. ~QueuesEmpty(q)
  BY <1>2, <1>3, <1>5
<1>7. /\ PacerOK(d) /\ DOMAIN d.queues = DOMAIN q.queues
      /\ \A g \in DOMAIN q.queues : g # Served(q) => d.queues[g] = q.queues[g]
  BY <1>2, <1>6, Dequeued
<1>8. Drain \in 0 .. Drain
  BY DEF NdpConstants
<1> HIDE DEF d
<1>9. pacer'.queues = d.queues
  BY <1>3, <1>6, <1>7, <1>8, TimerAdded
<1>10. f \in DOMAIN pacer.queues
  <2>1. CASE f \notin DOMAIN pacer.queues
    <3>1. f \notin DOMAIN pacer'.queues
      BY <1>2, <1>7, <1>9, <2>1
    <3>2. Pulls(f) = 0 /\ Pulls(f)' = 0
      BY <2>1, <3>1 DEF Pulls
    <3> QED
      BY <3>2
  <2> QED
    BY <2>1
<1>11. f = Served(q)
  BY <1>2, <1>5, <1>7, <1>9, <1>10
<1> QED
  BY <1>2, <1>6, <1>11

\* The pull queue is fair: while a flow waits no other is served twice,
\* whichever flows join and are flushed meanwhile (ServedInTurn).
THEOREM PullsAreServedInTurn == Spec => ServedInTurn
<1>1. ASSUME NdpInv, NEW f \in Flows, NEW g \in Flows,
             PacerEvent, f # g, Waiting(pacer, g), Pulls(f)' < Pulls(f)
      PROVE  f \notin passed[g]
  <2>1. PICK q : /\ PacerOK(q) /\ q.queues = pacer.queues /\ q.current = pacer.current
                 /\ ~QueuesEmpty(q) /\ f = Served(q)
    BY <1>1, NdpConstants, OnlyServedIsTaken
  <2>2. Turn(q, passed) /\ Waiting(q, g)
    BY <1>1, <2>1 DEF NdpInv, InTurn, Turn, Waiting
  <2> QED
    BY <1>1, <2>1, <2>2, NdpConstants, ServedIsNew
<1>2. NdpInv => \A f, g \in Flows : PacerEvent /\ f # g /\ Waiting(pacer, g) /\ Pulls(f)' < Pulls(f)
                                    => f \notin passed[g]
  BY <1>1
<1> QED
  BY <1>2, NdpInvariant, PTL DEF ServedInTurn
=============================================================================
