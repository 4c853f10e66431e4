---------------------------- MODULE NetworkProofs -----------------------------
(***************************************************************************)
(* The queues of htsim2 and its two lossless switches.  First PortQueue:   *)
(* for every kind of queue, any capacity and any number of packets, what   *)
(* arrived is queued once or has left once and the sizes are right         *)
(* (Accounted), and headers do not starve full packets (LowIsServed).  The *)
(* induction is on PortInv; Sound, most of it, is kept by a packet that    *)
(* comes to a list (SoundPush), goes from one (SoundTaken) or leaves       *)
(* (SoundLeft), and every receive and every service is made of these.      *)
(* Then Lossless: its input queues never overflow, for any number of       *)
(* ports, any thresholds that LosslessAssumption allows and any length of  *)
(* the links.  The induction is on IInv: a sender is held exactly while    *)
(* its input queue has asked for it (EndsAgree), and what may still arrive *)
(* then, the packets on the link and the one in service, fits (Room).      *)
(* Then LosslessSwitch, where a sender may be held by several output       *)
(* queues: while it is held, one of them still wants it (HeldByAQueue).    *)
(***************************************************************************)
EXTENDS PortQueue, LosslessSwitch, FiniteSetTheorems, SequenceTheorems,
        WellFoundedInduction, TLAPS

-----------------------------------------------------------------------------
(* The invariant of a port queue.                                          *)

Hows == {"sent", "marked", "dropped", "bounced"}
Packet == [id : Nat, header : BOOLEAN, len : 1 .. MaxLen, returns : BOOLEAN]
Departure == [id : Nat, header : BOOLEAN, how : Hows]
PortQueues ==
  [kind : Kinds, list : [Classes -> Seq(Packet)], size : [Classes -> Int],
   serv : Classes \cup {"none"}, crt : 0 .. RatioHigh, events : Int,
   longest : 0 .. MaxLen, state : {"ready", "pause_received", "paused"},
   pauses : Int, exited : BOOLEAN]

PortTypeOK ==
  /\ port \in PortQueues /\ left \in Seq(Departure)
  /\ arrived \in 0 .. Packets /\ high \in Nat

\* A sequence of packets, or of departures, names every packet once.
Ids(s) == {s[i].id : i \in 1 .. Len(s)}
Once(s) == \A i, j \in 1 .. Len(s) : s[i].id = s[j].id => i = j

\* The packets X are queued or have left, each in one place.
Kept(list, l, X) ==
  /\ Ids(l) \subseteq X /\ \A c \in Classes : Ids(list[c]) \subseteq X
  /\ \A x \in X : x \in Ids(l) \/ \E c \in Classes : x \in Ids(list[c])
  /\ \A c \in Classes : Once(list[c]) /\ Ids(list[c]) \cap Ids(l) = {}
  /\ \A c, d \in Classes : c # d => Ids(list[c]) \cap Ids(list[d]) = {}
  /\ Once(l)

Composites == {"composite", "length"}
Trims == Composites \cup {"ctrl"}

\* Where full packets and headers have lists of their own.
Sorted(a) ==
  a.kind \in Trims =>
    /\ \A i \in 1 .. Len(a.list["hi"]) : a.list["hi"][i].header
    /\ \A i \in 1 .. Len(a.list["lo"]) : ~a.list["lo"][i].header

Sound(a, l, X) ==
  /\ a \in PortQueues /\ l \in Seq(Departure) /\ Kept(a.list, l, X)
  /\ \A c \in Classes : a.size[c] = SumSizes(a.list[c])
  /\ a.kind # "priority" => \A c \in Classes : a.size[c] <= BufferSize
  /\ Sorted(a)

Longest(a) == a.kind = "length" => a.longest = MaxQueued(a.list["lo"])

\* The ratio of the composite queues, when h headers in a row have left.
Ratio(a, h) ==
  a.kind \in Composites =>
    /\ a.state = "ready" /\ h <= RatioHigh + 1
    /\ a.serv = "none" => h = 0 /\ IsEmpty(a)
    /\ a.serv = "hi" => h = 0 \/ (h <= a.crt + 1 /\ a.crt < RatioHigh)

PortInv ==
  /\ arrived \in 0 .. Packets /\ high \in Nat
  /\ Sound(port, left, 1 .. arrived) /\ Longest(port) /\ Ratio(port, high)

-----------------------------------------------------------------------------
(* Numbers and sequences.                                                  *)

\* Every non-empty set of numbers has a least element.
LEMMA LeastNumber ==
  ASSUME NEW T \in SUBSET Nat, T # {}
  PROVE  \E n \in T : \A m \in T : n <= m
<1>1. PICK R : R = {ss \in Nat \X Nat : ss[1] < ss[2]}
  OBVIOUS
<1>2. IsWellFoundedOn(R, Nat)
  BY <1>1, NatLessThanWellFounded DEF OpToRel
<1>3. T \subseteq Nat
  OBVIOUS
<1>4. PICK x \in T : \A y \in T : ~(<<y, x>> \in R)
  BY <1>2, <1>3, WFMin
<1>5. \A y \in T : ~(y < x)
  BY <1>4, <1>1, <1>3
<1> QED
  BY <1>3, <1>5

\* What counts up from 0 in steps of weight is a function.
LEMMA SumExists ==
  ASSUME NEW n \in Nat, NEW w \in [1 .. n -> Nat]
  PROVE  \E f \in [0 .. n -> Nat] : f[0] = 0 /\ \A i \in 1 .. n : f[i] = f[i - 1] + w[i]
<1> DEFINE Adds(f, m) == /\ f \in [0 .. m -> Nat] /\ f[0] = 0
                         /\ \A i \in 1 .. m : f[i] = f[i - 1] + w[i]
           T == {m \in 0 .. n : ~ \E f : Adds(f, m)}
<1> SUFFICES ASSUME T # {} PROVE FALSE
  <2>1. n \in 0 .. n
    OBVIOUS
  <2>2. (\E f : Adds(f, n)) <=>
          \E f \in [0 .. n -> Nat] : f[0] = 0 /\ \A i \in 1 .. n : f[i] = f[i - 1] + w[i]
    OBVIOUS
  <2> HIDE DEF Adds
  <2> QED
    BY <2>1, <2>2
<1>1. PICK m \in T : \A i \in T : m <= i
  <2>1. T \in SUBSET Nat
    OBVIOUS
  <2> HIDE DEF T
  <2> QED
    BY <2>1, LeastNumber
<1>2. CASE m = 0
  <2> DEFINE g == [i \in 0 .. 0 |-> 0]
  <2>1. Adds(g, 0)
    OBVIOUS
  <2> HIDE DEF Adds
  <2> QED
    BY <1>1, <1>2, <2>1
<1>3. CASE m # 0
  <2>1. m \in 1 .. n /\ m - 1 \in Nat /\ m - 1 \notin T
    <3>1. T \subseteq 0 .. n
      OBVIOUS
    <3> HIDE DEF T
    <3> QED
      BY <1>1, <1>3, <3>1
  <2>2. PICK f : Adds(f, m - 1)
    <3> HIDE DEF Adds
    <3> QED
      BY <2>1
  <2> DEFINE g == [i \in 0 .. m |-> IF i = m THEN f[m - 1] + w[m] ELSE f[i]]
  <2>3. w[m] \in Nat /\ m - 1 \in 0 .. m - 1
    BY <2>1
  <2>4. f[m - 1] \in Nat /\ \A i \in 0 .. m - 1 : f[i] \in Nat
    BY <2>2, <2>3
  <2>5. g \in [0 .. m -> Nat] /\ g[0] = 0
    BY <2>1, <2>2, <2>3, <2>4
  <2>6. ASSUME NEW i \in 1 .. m PROVE g[i] = g[i - 1] + w[i]
    <3>1. i \in 0 .. m /\ i - 1 \in 0 .. m /\ i - 1 # m
      BY <2>1
    <3>2. g[i - 1] = f[i - 1] /\ g[i] = IF i = m THEN f[m - 1] + w[m] ELSE f[i]
      BY <3>1
    <3>3. i # m => f[i] = f[i - 1] + w[i]
      BY <2>1, <2>2
    <3> HIDE DEF g
    <3> QED
      BY <3>2, <3>3
  <2>7. Adds(g, m)
    BY <2>5, <2>6
  <2> HIDE DEF Adds
  <2> QED
    BY <1>1, <2>7
<1> QED
  BY <1>2, <1>3

LEMMA SizeIs == ASSUME NEW p PROVE Size(p) \in Nat /\ Size(p) <= BufferSize /\ Size(p) > 0
  BY PortAssumption DEF Size

\* The sum over a list, by the places of the list.
LEMMA SumIs ==
  ASSUME NEW s \in Seq(Packet)
  PROVE  \E f \in [0 .. Len(s) -> Nat] :
           /\ f[0] = 0 /\ \A i \in 1 .. Len(s) : f[i] = f[i - 1] + Size(s[i])
           /\ SumSizes(s) = f[Len(s)]
<1> DEFINE n == Len(s)
           w == [i \in 1 .. n |-> Size(s[i])]
           Is(x) == x = [i \in 0 .. n |-> IF i = 0 THEN 0 ELSE x[i - 1] + Size(s[i])]
<1>1. n \in Nat /\ w \in [1 .. n -> Nat]
  BY SizeIs
<1>2. PICK f \in [0 .. n -> Nat] : f[0] = 0 /\ \A i \in 1 .. n : f[i] = f[i - 1] + w[i]
  <2> HIDE DEF n, w
  <2> QED
    BY <1>1, SumExists
<1>3. Is(f)
  <2>1. \A i \in 0 .. n : f[i] = IF i = 0 THEN 0 ELSE f[i - 1] + Size(s[i])
    BY <1>1, <1>2
  <2>2. f = [i \in 0 .. n |-> f[i]]
    BY <1>2
  <2> HIDE DEF n
  <2> QED
    BY <2>1, <2>2
<1> DEFINE c == CHOOSE x : Is(x)
<1>4. Is(c)
  <2> HIDE DEF Is
  <2> QED
    BY <1>3
<1>5. SumSizes(s) = c[n]
  BY DEF SumSizes
<1>6. c[0] = 0 /\ \A i \in 1 .. n : c[i] = c[i - 1] + Size(s[i])
  <2> HIDE DEF c
  <2> QED
    BY <1>1, <1>4
<1>7. c \in [0 .. n -> Nat]
  <2> DEFINE T == {i \in 0 .. n : c[i] # f[i]}
  <2>1. T = {}
    <3> SUFFICES ASSUME T # {} PROVE FALSE
      OBVIOUS
    <3>1. PICK m \in T : \A i \in T : m <= i
      <4>1. T \in SUBSET Nat
        BY <1>1
      <4> HIDE DEF T
      <4> QED
        BY <4>1, LeastNumber
    <3>2. m \in 0 .. n /\ c[m] # f[m]
      OBVIOUS
    <3> HIDE DEF c
    <3>3. m # 0
      BY <1>2, <1>6, <3>2
    <3>4. m \in 1 .. n /\ m - 1 \in 0 .. n /\ m - 1 \notin T
      <4> HIDE DEF T
      <4> QED
        BY <1>1, <3>1, <3>2, <3>3
    <3>5. c[m - 1] = f[m - 1]
      BY <3>4
    <3> QED
      BY <1>2, <1>6, <3>2, <3>4, <3>5
  <2>2. \A i \in 0 .. n : c[i] = f[i]
    BY <2>1
  <2>3. c = [i \in 0 .. n |-> c[i]]
    <3> HIDE DEF c
    <3> QED
      BY <1>4
  <2> HIDE DEF c
  <2> QED
    BY <1>2, <2>2, <2>3
<1> QED
  <2> HIDE DEF c
  <2> QED
    BY <1>5, <1>6, <1>7
LEMMA WithoutIs ==
  ASSUME NEW S, NEW s \in Seq(S), NEW i \in 1 .. Len(s)
  PROVE  /\ Without(s, i) \in Seq(S) /\ Len(Without(s, i)) = Len(s) - 1
         /\ \A k \in 1 .. Len(s) - 1 : Without(s, i)[k] = IF k < i THEN s[k] ELSE s[k + 1]
<1> DEFINE a == SubSeq(s, 1, i - 1)
           b == SubSeq(s, i + 1, Len(s))
<1>1. Len(s) \in Nat /\ i - 1 \in 0 .. Len(s) - 1 /\ \A k \in 1 .. Len(s) : s[k] \in S
  OBVIOUS
<1>2. a \in Seq(S) /\ Len(a) = i - 1 /\ \A k \in 1 .. i - 1 : a[k] = s[k]
  BY <1>1
<1>3. b \in Seq(S) /\ Len(b) = Len(s) - i /\ \A k \in 1 .. Len(s) - i : b[k] = s[k + i]
  BY <1>1
<1>4. Without(s, i) = a \o b
  BY DEF Without
<1> HIDE DEF a, b
<1>5. a \o b \in Seq(S) /\ Len(a \o b) = Len(s) - 1
  <2>1. a \o b \in Seq(S) /\ Len(a \o b) = Len(a) + Len(b)
    BY <1>2, <1>3, ConcatProperties
  <2>2. (i - 1) + (Len(s) - i) = Len(s) - 1
    BY <1>1
  <2> QED
    BY <1>2, <1>3, <2>1, <2>2
<1>6. \A k \in 1 .. Len(s) - 1 : (a \o b)[k] = IF k <= i - 1 THEN a[k] ELSE b[k - (i - 1)]
  <2>1. \A k \in 1 .. Len(a) + Len(b) :
          (a \o b)[k] = IF k <= Len(a) THEN a[k] ELSE b[k - Len(a)]
    BY <1>2, <1>3, ConcatProperties
  <2>2. (i - 1) + (Len(s) - i) = Len(s) - 1
    BY <1>1
  <2> QED
    BY <1>2, <1>3, <2>1, <2>2
<1>7. ASSUME NEW k \in 1 .. Len(s) - 1
      PROVE  (a \o b)[k] = IF k < i THEN s[k] ELSE s[k + 1]
  <2>1. CASE k < i
    BY <1>1, <1>2, <1>6, <2>1
  <2>2. CASE ~(k < i)
    <3>1. k - (i - 1) \in 1 .. Len(s) - i /\ (k - (i - 1)) + i = k + 1 /\ ~(k <= i - 1)
      BY <1>1, <2>2
    <3>2. (a \o b)[k] = b[k - (i - 1)] /\ b[k - (i - 1)] = s[(k - (i - 1)) + i]
      BY <1>3, <1>6, <3>1
    <3> QED
      BY <2>2, <3>1, <3>2
  <2> QED
    BY <2>1, <2>2
<1> QED
  BY <1>4, <1>5, <1>7

LEMMA TailIs ==
  ASSUME NEW S, NEW s \in Seq(S), s # <<>>
  PROVE  /\ Tail(s) = Without(s, 1) /\ Len(s) \in Nat /\ 1 \in 1 .. Len(s) /\ Head(s) = s[1]
         /\ Tail(s) \in Seq(S)
<1>1. Len(s) \in Nat /\ Len(s) > 0
  BY EmptySeq
<1>2. 1 \in 1 .. Len(s)
  BY <1>1
<1>3. Tail(s) \in Seq(S) /\ Len(Tail(s)) = Len(s) - 1 /\ \A k \in 1 .. Len(s) - 1 : Tail(s)[k] = s[k + 1]
  BY <1>1
<1>4. /\ Without(s, 1) \in Seq(S) /\ Len(Without(s, 1)) = Len(s) - 1
      /\ \A k \in 1 .. Len(s) - 1 : Without(s, 1)[k] = s[k + 1]
  BY <1>1, <1>2, WithoutIs
<1>5. Tail(s) = Without(s, 1)
  BY <1>1, <1>3, <1>4, SeqEqual
<1>6. Head(s) = s[1]
  BY <1>1
<1> QED
  BY <1>1, <1>2, <1>3, <1>5, <1>6

LEMMA AppendIs ==
  ASSUME NEW S, NEW s \in Seq(S), NEW p \in S
  PROVE  /\ Append(s, p) \in Seq(S) /\ Len(Append(s, p)) = Len(s) + 1 /\ Len(s) \in Nat
         /\ Len(s) + 1 \in 1 .. Len(Append(s, p))
         /\ Append(s, p)[Len(s) + 1] = p /\ \A k \in 1 .. Len(s) : Append(s, p)[k] = s[k]
         /\ Without(Append(s, p), Len(s) + 1) = s
<1> DEFINE a == Append(s, p)
<1>1. /\ a \in Seq(S) /\ Len(a) = Len(s) + 1 /\ Len(s) \in Nat
      /\ a[Len(s) + 1] = p /\ \A k \in 1 .. Len(s) : a[k] = s[k]
  OBVIOUS
<1> HIDE DEF a
<1>2. Len(s) + 1 \in 1 .. Len(a)
  BY <1>1
<1>3. /\ Without(a, Len(s) + 1) \in Seq(S) /\ Len(Without(a, Len(s) + 1)) = Len(s)
      /\ \A k \in 1 .. Len(s) : Without(a, Len(s) + 1)[k] = s[k]
  <2>1. /\ Without(a, Len(s) + 1) \in Seq(S) /\ Len(Without(a, Len(s) + 1)) = Len(a) - 1
        /\ \A k \in 1 .. Len(a) - 1 :
             Without(a, Len(s) + 1)[k] = IF k < Len(s) + 1 THEN a[k] ELSE a[k + 1]
    BY <1>1, <1>2, WithoutIs
  <2>2. Len(a) - 1 = Len(s) /\ \A k \in 1 .. Len(s) : k < Len(s) + 1
    BY <1>1
  <2> QED
    BY <1>1, <2>1, <2>2
<1>4. Without(a, Len(s) + 1) = s
  BY <1>3, SeqEqual
<1> QED
  BY <1>1, <1>2, <1>4 DEF a

LEMMA SumWithout ==
  ASSUME NEW s \in Seq(Packet), NEW i \in 1 .. Len(s)
  PROVE  SumSizes(Without(s, i)) = SumSizes(s) - Size(s[i])
<1> DEFINE v == Without(s, i)
           n == Len(s)
<1>1. n \in Nat /\ v \in Seq(Packet) /\ Len(v) = n - 1 /\ i \in 1 .. n
  BY WithoutIs
<1>2. \A k \in 1 .. n - 1 : v[k] = IF k < i THEN s[k] ELSE s[k + 1]
  BY WithoutIs
<1> HIDE DEF v
<1>s. \A p : Size(p) \in Nat
  BY SizeIs
<1>3. PICK f \in [0 .. n -> Nat] :
        /\ f[0] = 0 /\ \A k \in 1 .. n : f[k] = f[k - 1] + Size(s[k])
        /\ SumSizes(s) = f[n]
  BY SumIs
<1>4. PICK g \in [0 .. n - 1 -> Nat] :
        /\ g[0] = 0 /\ \A k \in 1 .. n - 1 : g[k] = g[k - 1] + Size(v[k])
        /\ SumSizes(v) = g[n - 1]
  BY <1>1, SumIs
<1> DEFINE T == {k \in 0 .. n - 1 : g[k] # IF k < i THEN f[k] ELSE f[k + 1] - Size(s[i])}
<1>5. T = {}
  <2> SUFFICES ASSUME T # {} PROVE FALSE
    OBVIOUS
  <2>1. PICK m \in T : \A k \in T : m <= k
    <3>1. T \in SUBSET Nat
      BY <1>1
    <3> HIDE DEF T
    <3> QED
      BY <3>1, LeastNumber
  <2>2. m \in 0 .. n - 1 /\ g[m] # IF m < i THEN f[m] ELSE f[m + 1] - Size(s[i])
    OBVIOUS
  <2>3. m # 0
    BY <1>1, <1>3, <1>4, <2>2
  <2>4. m \in 1 .. n - 1 /\ m - 1 \in 0 .. n - 1 /\ m - 1 \notin T
    <3> HIDE DEF T
    <3> QED
      BY <1>1, <2>1, <2>2, <2>3
  <2>5. g[m - 1] = IF m - 1 < i THEN f[m - 1] ELSE f[m] - Size(s[i])
    BY <1>1, <2>4
  <2>6. g[m] = g[m - 1] + Size(v[m]) /\ v[m] = IF m < i THEN s[m] ELSE s[m + 1]
    BY <1>2, <1>4, <2>4
  <2>7. /\ m \in 1 .. n /\ m + 1 \in 1 .. n /\ f[m] = f[m - 1] + Size(s[m])
        /\ f[m + 1] = f[m] + Size(s[m + 1])
    BY <1>1, <1>3, <2>4
  <2>8. /\ f[m] \in Nat /\ f[m + 1] \in Nat /\ f[m - 1] \in Nat /\ Size(s[i]) \in Nat
        /\ Size(s[m]) \in Nat /\ Size(s[m + 1]) \in Nat /\ g[m] \in Nat /\ g[m - 1] \in Nat
    <3>1. m \in 0 .. n /\ m + 1 \in 0 .. n /\ m - 1 \in 0 .. n
      BY <1>1, <2>4
    <3> QED
      BY <1>s, <1>3, <1>4, <2>4, <3>1
  <2> HIDE DEF T, n
  <2>9. CASE m < i
    <3>1. m - 1 < i
      BY <1>1, <2>4, <2>9
    <3> QED
      BY <2>2, <2>5, <2>6, <2>7, <2>9, <3>1
  <2>10. CASE m = i
    <3>1. m - 1 < i /\ ~(m < i)
      BY <1>1, <2>4, <2>10
    <3> QED
      BY <2>2, <2>5, <2>6, <2>7, <2>8, <2>10, <3>1
  <2>11. CASE m > i
    <3>1. ~(m - 1 < i) /\ ~(m < i)
      BY <1>1, <2>4, <2>11
    <3> QED
      BY <2>2, <2>5, <2>6, <2>7, <2>8, <3>1
  <2> QED
    BY <1>1, <2>4, <2>9, <2>10, <2>11
<1>6. n - 1 \in 0 .. n - 1 /\ n - 1 \notin T
  BY <1>1, <1>5
<1>7. g[n - 1] = IF n - 1 < i THEN f[n - 1] ELSE f[n] - Size(s[i])
  BY <1>1, <1>6
<1>8. f[n] = f[n - 1] + Size(s[n]) /\ f[n] \in Nat /\ f[n - 1] \in Nat /\ Size(s[n]) \in Nat
  <2>1. n \in 1 .. n /\ n \in 0 .. n /\ n - 1 \in 0 .. n
    BY <1>1
  <2> QED
    BY <1>s, <1>3, <2>1
<1>9. n - 1 < i => i = n
  BY <1>1
<1> HIDE DEF T, n
<1>10. SumSizes(v) = SumSizes(s) - Size(s[i])
  BY <1>1, <1>3, <1>4, <1>7, <1>8, <1>9
<1> QED
  BY <1>10 DEF v

LEMMA SumAppend ==
  ASSUME NEW s \in Seq(Packet), NEW p \in Packet
  PROVE  /\ SumSizes(s) \in Nat /\ SumSizes(Append(s, p)) = SumSizes(s) + Size(p)
         /\ SumSizes(<<>>) = 0
<1>1. \A t \in Seq(Packet) : SumSizes(t) \in Nat
  <2> TAKE t \in Seq(Packet)
  <2>1. PICK f \in [0 .. Len(t) -> Nat] : SumSizes(t) = f[Len(t)]
    BY SumIs
  <2>2. Len(t) \in 0 .. Len(t)
    OBVIOUS
  <2> QED
    BY <2>1, <2>2
<1>2. SumSizes(<<>>) = 0
  <2>1. <<>> \in Seq(Packet) /\ Len(<<>>) = 0
    OBVIOUS
  <2> QED
    BY <2>1, SumIs
<1> DEFINE a == Append(s, p)
           n == Len(s) + 1
<1>3. a \in Seq(Packet) /\ n \in 1 .. Len(a) /\ a[n] = p /\ Without(a, n) = s
  BY AppendIs
<1>4. SumSizes(a) \in Nat /\ Size(p) \in Nat /\ SumSizes(s) \in Nat
  BY <1>1, <1>3, SizeIs
<1> HIDE DEF a, n
<1>5. SumSizes(s) = SumSizes(a) - Size(p)
  BY <1>3, SumWithout
<1>6. SumSizes(a) = SumSizes(s) + Size(p)
  BY <1>4, <1>5
<1> QED
  BY <1>1, <1>2, <1>6 DEF a
LEMMA IdsAppend ==
  ASSUME NEW S, NEW s \in Seq(S), NEW p \in S
  PROVE  /\ Ids(Append(s, p)) = Ids(s) \cup {p.id}
         /\ Once(s) /\ p.id \notin Ids(s) => Once(Append(s, p))
<1> DEFINE a == Append(s, p)
           n == Len(s)
<1>1. /\ n \in Nat /\ Len(a) = n + 1 /\ a[n + 1] = p
      /\ \A k \in 1 .. n : a[k] = s[k]
  BY AppendIs
<1>2. \A k \in 1 .. n + 1 : k = n + 1 \/ k \in 1 .. n
  BY <1>1
<1>3. n + 1 \in 1 .. n + 1 /\ \A k \in 1 .. n : k \in 1 .. n + 1 /\ k # n + 1
  BY <1>1
<1> HIDE DEF a, n
<1>4. Ids(a) = {a[k].id : k \in 1 .. n + 1} /\ Ids(s) = {s[k].id : k \in 1 .. n}
  BY <1>1 DEF Ids, n
<1>5. Ids(a) = Ids(s) \cup {p.id}
  <2>1. \A x \in Ids(a) : x \in Ids(s) \cup {p.id}
    BY <1>1, <1>2, <1>4
  <2>2. \A x \in Ids(s) : x \in Ids(a)
    BY <1>1, <1>3, <1>4
  <2>3. p.id \in Ids(a)
    BY <1>1, <1>3, <1>4
  <2> QED
    BY <2>1, <2>2, <2>3
<1>6. ASSUME Once(s), p.id \notin Ids(s), NEW i \in 1 .. n + 1, NEW j \in 1 .. n + 1,
             a[i].id = a[j].id
      PROVE  i = j
  <2>1. \A k \in 1 .. n : a[k].id # p.id
    BY <1>1, <1>4, <1>6
  <2> QED
    BY <1>1, <1>2, <1>6, <2>1 DEF Once, n
<1> QED
  BY <1>1, <1>5, <1>6 DEF Once, a, n

LEMMA IdsWithout ==
  ASSUME NEW S, NEW s \in Seq(S), NEW i \in 1 .. Len(s), Once(s)
  PROVE  /\ Ids(Without(s, i)) = Ids(s) \ {s[i].id} /\ s[i].id \in Ids(s)
         /\ Once(Without(s, i))
<1> DEFINE a == Without(s, i)
           n == Len(s)
           at(k) == IF k < i THEN k ELSE k + 1
<1>1. /\ n \in Nat /\ i \in 1 .. n /\ Len(a) = n - 1
      /\ \A k \in 1 .. n - 1 : a[k] = IF k < i THEN s[k] ELSE s[k + 1]
  BY WithoutIs
<1>2. \A k \in 1 .. n - 1 : at(k) \in 1 .. n /\ at(k) # i
  BY <1>1
<1>3. \A k \in 1 .. n - 1 : a[k] = s[at(k)]
  BY <1>1
<1>4. \A k, j \in 1 .. n - 1 : at(k) = at(j) => k = j
  BY <1>1
<1>5. \A k \in 1 .. n : k # i => \E j \in 1 .. n - 1 : at(j) = k
  <2> SUFFICES ASSUME NEW k \in 1 .. n, k # i PROVE \E j \in 1 .. n - 1 : at(j) = k
    OBVIOUS
  <2> DEFINE m == IF k < i THEN k ELSE k - 1
  <2>1. m \in 1 .. n - 1 /\ at(m) = k
    BY <1>1
  <2> QED
    BY <2>1
<1> HIDE DEF a, n, at
<1>6. Ids(a) = {a[k].id : k \in 1 .. n - 1} /\ Ids(s) = {s[k].id : k \in 1 .. n}
  BY <1>1 DEF Ids, n
<1>7. \A j, k \in 1 .. n : s[j].id = s[k].id => j = k
  BY DEF Once, n
<1>8. Ids(a) = Ids(s) \ {s[i].id}
  <2>1. ASSUME NEW x \in Ids(a) PROVE x \in Ids(s) /\ x # s[i].id
    <3>1. PICK k \in 1 .. n - 1 : x = a[k].id
      BY <1>6
    <3> QED
      BY <1>1, <1>2, <1>3, <1>6, <1>7, <3>1
  <2>2. ASSUME NEW x \in Ids(s), x # s[i].id PROVE x \in Ids(a)
    <3>1. PICK k \in 1 .. n : x = s[k].id
      BY <1>6
    <3>2. PICK j \in 1 .. n - 1 : at(j) = k
      BY <1>5, <2>2, <3>1
    <3> QED
      BY <1>3, <1>6, <3>1, <3>2
  <2> QED
    BY <2>1, <2>2
<1>9. \A j, k \in 1 .. n - 1 : a[j].id = a[k].id => j = k
  BY <1>2, <1>3, <1>4, <1>7
<1>10. s[i].id \in Ids(s)
  BY <1>1, <1>6
<1> QED
  BY <1>1, <1>8, <1>9, <1>10 DEF Once, a, n

-----------------------------------------------------------------------------
(* The longest path queued.                                                *)

Maximal(s, n) == n \in {s[i].len : i \in 1 .. Len(s)} /\ \A i \in 1 .. Len(s) : s[i].len <= n

LEMMA MaxExists ==
  ASSUME NEW s \in Seq(Packet), s # <<>>
  PROVE  \E n \in 1 .. MaxLen : Maximal(s, n)
<1> DEFINE T == {n \in Nat : \A i \in 1 .. Len(s) : s[i].len <= n}
<1>1. Len(s) \in Nat /\ 1 \in 1 .. Len(s) /\ \A i \in 1 .. Len(s) : s[i].len \in 1 .. MaxLen
  <2>1. \A i \in 1 .. Len(s) : s[i] \in Packet
    OBVIOUS
  <2> QED
    BY <2>1, TailIs DEF Packet
<1>2. MaxLen \in Nat
  BY PortAssumption
<1>3. MaxLen \in T
  BY <1>1, <1>2
<1>4. PICK m \in T : \A n \in T : m <= n
  <2>1. T \in SUBSET Nat /\ T # {}
    BY <1>3
  <2> HIDE DEF T
  <2> QED
    BY <2>1, LeastNumber
<1>5. m \in Nat /\ m <= MaxLen /\ \A i \in 1 .. Len(s) : s[i].len <= m
  BY <1>3, <1>4
<1>6. m \in 1 .. MaxLen
  BY <1>1, <1>2, <1>5
<1>7. m - 1 \notin T
  BY <1>4, <1>6
<1>8. PICK i \in 1 .. Len(s) : ~(s[i].len <= m - 1)
  BY <1>6, <1>7
<1>9. s[i].len = m
  BY <1>1, <1>5, <1>8
<1> QED
  BY <1>5, <1>6, <1>9 DEF Maximal

LEMMA MaxIs ==
  ASSUME NEW s \in Seq(Packet)
  PROVE  /\ MaxQueued(s) \in 0 .. MaxLen
         /\ s # <<>> => Maximal(s, MaxQueued(s))
         /\ s = <<>> => MaxQueued(s) = 0
<1>0. MaxLen \in Nat
  BY PortAssumption
<1>1. CASE s = <<>>
  BY <1>0, <1>1 DEF MaxQueued
<1>2. CASE s # <<>>
  <2> DEFINE L == {s[i].len : i \in 1 .. Len(s)}
             Top(n) == \A i \in 1 .. Len(s) : s[i].len <= n
  <2>1. PICK n \in 1 .. MaxLen : Maximal(s, n)
    BY <1>2, MaxExists
  <2>2. MaxQueued(s) = CHOOSE x \in L : Top(x)
    BY <1>2 DEF MaxQueued
  <2>3. n \in L /\ Top(n)
    BY <2>1 DEF Maximal
  <2>4. MaxQueued(s) \in L /\ Top(MaxQueued(s))
    <3> HIDE DEF L, Top
    <3> QED
      BY <2>2, <2>3
  <2>5. \A i \in 1 .. Len(s) : s[i].len \in 1 .. MaxLen
    <3>1. \A i \in 1 .. Len(s) : s[i] \in Packet
      OBVIOUS
    <3> QED
      BY <3>1 DEF Packet
  <2>6. MaxQueued(s) \in 1 .. MaxLen
    BY <2>4, <2>5
  <2> QED
    BY <1>2, <2>4, <2>6 DEF Maximal
<1> QED
  BY <1>1, <1>2

LEMMA MaxUnique ==
  ASSUME NEW s \in Seq(Packet), s # <<>>, NEW n, Maximal(s, n)
  PROVE  MaxQueued(s) = n
<1>1. Maximal(s, MaxQueued(s))
  BY MaxIs
<1>2. \A i \in 1 .. Len(s) : s[i].len \in Nat
  <2>1. \A i \in 1 .. Len(s) : s[i] \in Packet
    OBVIOUS
  <2> QED
    BY <2>1 DEF Packet
<1> QED
  BY <1>1, <1>2 DEF Maximal

LEMMA MaxAppend ==
  ASSUME NEW s \in Seq(Packet), NEW p \in Packet
  PROVE  MaxQueued(Append(s, p)) = IF p.len > MaxQueued(s) THEN p.len ELSE MaxQueued(s)
<1> DEFINE a == Append(s, p)
           m == MaxQueued(s)
           n == Len(s)
<1>1. /\ a \in Seq(Packet) /\ Len(a) = n + 1 /\ n \in Nat /\ a[n + 1] = p
      /\ \A k \in 1 .. n : a[k] = s[k]
  BY AppendIs
<1>2. \A k \in 1 .. n + 1 : k = n + 1 \/ k \in 1 .. n
  BY <1>1
<1>3. n + 1 \in 1 .. n + 1 /\ \A k \in 1 .. n : k \in 1 .. n + 1
  BY <1>1
<1>4. p.len \in 1 .. MaxLen /\ m \in 0 .. MaxLen /\ MaxLen \in Nat
  BY MaxIs, PortAssumption DEF Packet
<1>5. \A k \in 1 .. n : s[k].len \in Nat
  <2>1. \A i \in 1 .. n : s[i] \in Packet
    OBVIOUS
  <2> QED
    BY <2>1 DEF Packet
<1>6. a # <<>>
  <2> HIDE DEF a
  <2> QED
    BY <1>1, EmptySeq
<1>7. s # <<>> => (\E k \in 1 .. n : s[k].len = m) /\ \A k \in 1 .. n : s[k].len <= m
  BY MaxIs DEF Maximal
<1>8. s = <<>> => n = 0 /\ m = 0
  BY MaxIs
<1> HIDE DEF a, m, n
<1> DEFINE x == IF p.len > m THEN p.len ELSE m
<1>9. \A k \in 1 .. n + 1 : a[k].len <= x
  <2> TAKE k \in 1 .. n + 1
  <2>1. CASE k = n + 1
    BY <1>1, <1>4, <2>1
  <2>2. CASE k \in 1 .. n
    <3>1. s # <<>>
      BY <1>8, <2>2
    <3>2. s[k].len <= m /\ a[k] = s[k] /\ s[k].len \in Nat
      BY <1>1, <1>5, <1>7, <2>2, <3>1
    <3> QED
      BY <1>4, <3>2
  <2> QED
    BY <1>2, <2>1, <2>2
<1>10. \E k \in 1 .. n + 1 : a[k].len = x
  <2>1. CASE p.len > m
    BY <1>1, <1>3, <2>1
  <2>2. CASE ~(p.len > m)
    <3>1. s # <<>>
      BY <1>4, <1>8, <2>2
    <3>2. PICK k \in 1 .. n : s[k].len = m
      BY <1>7, <3>1
    <3> QED
      BY <1>1, <1>3, <2>2, <3>2
  <2> QED
    BY <2>1, <2>2
<1>11. Maximal(a, x)
  <2> HIDE DEF x
  <2> QED
    BY <1>1, <1>9, <1>10 DEF Maximal
<1>12. MaxQueued(a) = x
  <2> HIDE DEF x
  <2> QED
    BY <1>1, <1>6, <1>11, MaxUnique
<1> QED
  BY <1>12 DEF a, m

LEMMA MaxWithout ==
  ASSUME NEW s \in Seq(Packet), NEW i \in 1 .. Len(s), s[i].len # MaxQueued(s)
  PROVE  MaxQueued(Without(s, i)) = MaxQueued(s)
<1> DEFINE a == Without(s, i)
           m == MaxQueued(s)
           n == Len(s)
<1>1. /\ a \in Seq(Packet) /\ Len(a) = n - 1 /\ n \in Nat /\ i \in 1 .. n
      /\ \A k \in 1 .. n - 1 : a[k] = IF k < i THEN s[k] ELSE s[k + 1]
  BY WithoutIs
<1>2. s # <<>>
  BY <1>1
<1>3. PICK k \in 1 .. n : s[k].len = m
  BY <1>2, MaxIs DEF Maximal
<1>4. \A j \in 1 .. n : s[j].len <= m
  BY <1>2, MaxIs DEF Maximal
<1>5. s[i].len # m
  OBVIOUS
<1> HIDE DEF a, m, n
<1>6. \A j \in 1 .. n - 1 : a[j].len <= m
  <2> TAKE j \in 1 .. n - 1
  <2>1. j \in 1 .. n /\ j + 1 \in 1 .. n
    BY <1>1
  <2> QED
    BY <1>1, <1>4, <2>1
<1>7. \E j \in 1 .. n - 1 : a[j].len = m
  <2>1. CASE k < i
    <3>1. k \in 1 .. n - 1
      BY <1>1, <2>1
    <3> QED
      BY <1>1, <1>3, <2>1, <3>1
  <2>2. CASE k > i
    <3>1. k - 1 \in 1 .. n - 1 /\ ~(k - 1 < i) /\ (k - 1) + 1 = k
      BY <1>1, <2>2
    <3>2. a[k - 1] = s[(k - 1) + 1]
      BY <1>1, <3>1
    <3> QED
      BY <1>3, <3>1, <3>2
  <2>3. k # i
    BY <1>3, <1>5
  <2> QED
    BY <1>1, <2>1, <2>2, <2>3
<1>8. a # <<>>
  BY <1>1, <1>7, EmptySeq
<1>9. Maximal(a, m)
  BY <1>1, <1>6, <1>7 DEF Maximal
<1>10. MaxQueued(a) = m
  BY <1>1, <1>8, <1>9, MaxUnique
<1> QED
  BY <1>10 DEF a, m
-----------------------------------------------------------------------------
(* The operations on a queue.                                              *)

\* What an operation on lists and sizes does to the rest of the queue.
Alike(a, b) ==
  /\ b.kind = a.kind /\ b.serv = a.serv /\ b.crt = a.crt /\ b.longest = a.longest
  /\ b.state = a.state

\* Only the service changes, and the longest path.
SameLists(a, b) == b.kind = a.kind /\ b.list = a.list /\ b.size = a.size /\ b.state = a.state

Changed(a, c, s, n) == [a EXCEPT !.list[c] = s, !.size[c] = n]

LEMMA ChangedIs ==
  ASSUME NEW a \in PortQueues, NEW c \in Classes, NEW s \in Seq(Packet), NEW n \in Int
  PROVE  /\ Changed(a, c, s, n) \in PortQueues /\ Alike(a, Changed(a, c, s, n))
         /\ Changed(a, c, s, n).list = [a.list EXCEPT ![c] = s]
         /\ Changed(a, c, s, n).size = [a.size EXCEPT ![c] = n]
  BY DEF PortQueues, Alike, Changed

Serves(a, c, s, e) == [a EXCEPT !.crt = c, !.serv = s, !.events = e]

LEMMA ServesIs ==
  ASSUME NEW a \in PortQueues, NEW c \in 0 .. RatioHigh, NEW s \in Classes, NEW e \in Int
  PROVE  /\ Serves(a, c, s, e) \in PortQueues /\ SameLists(a, Serves(a, c, s, e))
         /\ Serves(a, c, s, e).longest = a.longest
         /\ Serves(a, c, s, e).crt = c /\ Serves(a, c, s, e).serv = s
  BY DEF PortQueues, SameLists, Serves

LEMMA PushIs ==
  ASSUME NEW a \in PortQueues, NEW c \in Classes, NEW p \in Packet
  PROVE  /\ Push(a, c, p) \in PortQueues /\ Alike(a, Push(a, c, p))
         /\ Push(a, c, p).list = [a.list EXCEPT ![c] = Append(@, p)]
         /\ Push(a, c, p).size = [a.size EXCEPT ![c] = @ + Size(p)]
         /\ Push(a, c, p).list[c] = Append(a.list[c], p)
<1>1. a.list \in [Classes -> Seq(Packet)] /\ a.size \in [Classes -> Int]
  BY DEF PortQueues
<1> DEFINE s == Append(a.list[c], p)
           n == a.size[c] + Size(p)
<1>2. s \in Seq(Packet) /\ n \in Int
  BY <1>1, SizeIs
<1>3. Push(a, c, p) = Changed(a, c, s, n)
  BY DEF Push, PortQueues, Changed
<1> HIDE DEF s, n
<1>4. /\ Push(a, c, p) \in PortQueues /\ Alike(a, Push(a, c, p))
      /\ Push(a, c, p).list = [a.list EXCEPT ![c] = s]
      /\ Push(a, c, p).size = [a.size EXCEPT ![c] = n]
  BY <1>2, <1>3, ChangedIs
<1> QED
  BY <1>1, <1>4 DEF s, n

\* The ratio counter runs from 0 to RatioHigh and begins again.
LEMMA NextTurn ==
  ASSUME NEW n \in 0 .. RatioHigh
  PROVE  (n + 1) % (RatioHigh + 1) = IF n = RatioHigh THEN 0 ELSE n + 1
  BY PortAssumption

LEMMA BeginServiceIs ==
  ASSUME NEW a \in PortQueues
  PROVE  /\ BeginService(a) \in PortQueues /\ SameLists(a, BeginService(a))
         /\ BeginService(a).longest = a.longest /\ BeginService(a).serv \in Classes
         /\ a.kind \in {"composite", "length"} =>
              LET both == a.list["hi"] # <<>> /\ a.list["lo"] # <<>>
                  next == IF a.crt = RatioHigh THEN 0 ELSE a.crt + 1
              IN  /\ BeginService(a).crt = IF both THEN next ELSE a.crt
                  /\ BeginService(a).serv =
                       IF both THEN (IF next < RatioHigh THEN "hi" ELSE "lo")
                       ELSE IF a.list["hi"] # <<>> THEN "hi" ELSE "lo"
<1> DEFINE next == IF a.crt = RatioHigh THEN 0 ELSE a.crt + 1
           both == a.list["hi"] # <<>> /\ a.list["lo"] # <<>>
           crt == IF both THEN next ELSE a.crt
           serv == IF both THEN (IF next < RatioHigh THEN "hi" ELSE "lo")
                   ELSE IF a.list["hi"] # <<>> THEN "hi" ELSE "lo"
           other == IF a.list["hi"] # <<>> THEN "hi"
                    ELSE IF a.list["mid"] # <<>> THEN "mid" ELSE "lo"
<1>1. a.crt \in 0 .. RatioHigh /\ RatioHigh \in Nat
  BY PortAssumption DEF PortQueues
<1>2. (a.crt + 1) % (RatioHigh + 1) = next /\ crt \in 0 .. RatioHigh
  BY <1>1, NextTurn
<1>3. serv \in Classes /\ other \in Classes
  BY DEF Classes
<1>4. CASE a.kind \in {"composite", "length"}
  <2>1. BeginService(a) = Serves(a, crt, serv, a.events + 1)
    BY <1>2, <1>4 DEF BeginService, Serves
  <2>2. a.events + 1 \in Int
    BY DEF PortQueues
  <2> HIDE DEF crt, serv
  <2>3. /\ BeginService(a) \in PortQueues /\ SameLists(a, BeginService(a))
        /\ BeginService(a).longest = a.longest
        /\ BeginService(a).crt = crt /\ BeginService(a).serv = serv
    BY <1>2, <1>3, <2>1, <2>2, ServesIs
  <2> QED
    BY <1>3, <2>3 DEF crt, serv
<1>5. CASE a.kind \notin {"composite", "length"}
  <2>1. BeginService(a) = Serves(a, a.crt, other, a.events + 1)
    BY <1>5 DEF BeginService, PortQueues, Serves
  <2>2. a.events + 1 \in Int
    BY DEF PortQueues
  <2>4. a.crt \in 0 .. RatioHigh /\ other \in Classes
    BY <1>1, <1>3
  <2> HIDE DEF other, serv, crt, next, both
  <2>3. /\ BeginService(a) \in PortQueues /\ SameLists(a, BeginService(a))
        /\ BeginService(a).longest = a.longest /\ BeginService(a).serv = other
    BY <2>1, <2>2, <2>4, ServesIs
  <2> QED
    BY <1>5, <2>3, <2>4
<1> QED
  BY <1>4, <1>5

LEMMA StartedIs ==
  ASSUME NEW a \in PortQueues, NEW idle \in BOOLEAN
  PROVE  /\ Started(a, idle) \in PortQueues /\ SameLists(a, Started(a, idle))
         /\ Started(a, idle).longest = a.longest
         /\ ~idle => Started(a, idle) = a
         /\ idle /\ a.state = "ready" => Started(a, idle).serv \in Classes
  BY BeginServiceIs DEF Started, SameLists

\* Recount never changes but the longest path.
LEMMA RecountIs ==
  ASSUME NEW a \in PortQueues, NEW p
  PROVE  /\ Recount(a, p) \in PortQueues /\ SameLists(a, Recount(a, p))
         /\ Recount(a, p).serv = a.serv /\ Recount(a, p).crt = a.crt
         /\ Recount(a, p).longest = IF a.kind = "length" /\ ~p.header /\ p.len = a.longest
                                      THEN MaxQueued(a.list["lo"]) ELSE a.longest
<1>1. a.list["lo"] \in Seq(Packet)
  BY DEF PortQueues, Classes
<1>2. MaxQueued(a.list["lo"]) \in 0 .. MaxLen
  BY <1>1, MaxIs
<1> QED
  BY <1>2 DEF Recount, PortQueues, SameLists
-----------------------------------------------------------------------------
(* A packet comes to a list, goes from it, or leaves.                      *)

LEMMA KeptPush ==
  ASSUME NEW list \in [Classes -> Seq(Packet)], NEW l \in Seq(Departure), NEW X,
         NEW c \in Classes, NEW p \in Packet, p.id \notin X, Kept(list, l, X)
  PROVE  Kept([list EXCEPT ![c] = Append(@, p)], l, X \cup {p.id})
<1> DEFINE m == [list EXCEPT ![c] = Append(@, p)]
           id == p.id
<1>1. Ids(list[c]) \subseteq X /\ Ids(l) \subseteq X /\ Once(list[c])
  BY DEF Kept
<1>2. m[c] = Append(list[c], p) /\ \A d \in Classes : d # c => m[d] = list[d]
  OBVIOUS
<1>3. Ids(m[c]) = Ids(list[c]) \cup {id} /\ Once(m[c])
  BY <1>1, <1>2, IdsAppend
<1>4. id \notin Ids(l) /\ \A d \in Classes : id \notin Ids(list[d])
  BY DEF Kept
<1> HIDE DEF m, id
<1>5. Ids(l) \subseteq X \cup {id} /\ \A d \in Classes : Ids(m[d]) \subseteq X \cup {id}
  BY <1>2, <1>3 DEF Kept
<1>6. \A x \in X \cup {id} : x \in Ids(l) \/ \E d \in Classes : x \in Ids(m[d])
  BY <1>2, <1>3 DEF Kept
<1>7. \A d \in Classes : Once(m[d]) /\ Ids(m[d]) \cap Ids(l) = {}
  <2> TAKE d \in Classes
  <2>1. Once(list[d]) /\ Ids(list[d]) \cap Ids(l) = {}
    BY DEF Kept
  <2>2. CASE d = c
    BY <1>3, <1>4, <2>1, <2>2
  <2> QED
    BY <1>2, <2>1, <2>2
<1>8. \A d, e \in Classes : d # e => Ids(m[d]) \cap Ids(m[e]) = {}
  <2> SUFFICES ASSUME NEW d \in Classes, NEW e \in Classes, d # e
               PROVE  Ids(m[d]) \cap Ids(m[e]) = {}
    OBVIOUS
  <2>1. Ids(list[d]) \cap Ids(list[e]) = {}
    BY DEF Kept
  <2>2. CASE d = c
    BY <1>2, <1>3, <1>4, <2>1, <2>2
  <2>3. CASE e = c
    BY <1>2, <1>3, <1>4, <2>1, <2>3
  <2> QED
    BY <1>2, <2>1, <2>2, <2>3
<1>9. Once(l)
  BY DEF Kept
<1>10. Kept(m, l, X \cup {id})
  BY <1>5, <1>6, <1>7, <1>8, <1>9 DEF Kept
<1> QED
  BY <1>10 DEF m, id

LEMMA KeptWithout ==
  ASSUME NEW list \in [Classes -> Seq(Packet)], NEW l \in Seq(Departure), NEW X,
         NEW c \in Classes, NEW i \in 1 .. Len(list[c]), Kept(list, l, X)
  PROVE  /\ Kept([list EXCEPT ![c] = Without(@, i)], l, X \ {list[c][i].id})
         /\ list[c][i].id \in X
<1> DEFINE m == [list EXCEPT ![c] = Without(@, i)]
           id == list[c][i].id
<1>1. Once(list[c])
  BY DEF Kept
<1>2. m[c] = Without(list[c], i) /\ \A d \in Classes : d # c => m[d] = list[d]
  OBVIOUS
<1>3. Ids(m[c]) = Ids(list[c]) \ {id} /\ id \in Ids(list[c]) /\ Once(m[c])
  BY <1>1, <1>2, IdsWithout
<1> HIDE DEF m, id
<1>4. id \notin Ids(l) /\ id \in X /\ \A d \in Classes : d # c => id \notin Ids(list[d])
  BY <1>3 DEF Kept
<1>5. Ids(l) \subseteq X \ {id} /\ \A d \in Classes : Ids(m[d]) \subseteq X \ {id}
  BY <1>2, <1>3, <1>4 DEF Kept
<1>6. \A x \in X \ {id} : x \in Ids(l) \/ \E d \in Classes : x \in Ids(m[d])
  BY <1>2, <1>3 DEF Kept
<1>7. \A d \in Classes : Once(m[d]) /\ Ids(m[d]) \cap Ids(l) = {}
  BY <1>2, <1>3 DEF Kept
<1>8. \A d, e \in Classes : d # e => Ids(m[d]) \cap Ids(m[e]) = {}
  BY <1>2, <1>3 DEF Kept
<1>9. Once(l)
  BY DEF Kept
<1>10. Kept(m, l, X \ {id})
  BY <1>5, <1>6, <1>7, <1>8, <1>9 DEF Kept
<1> QED
  BY <1>4, <1>10 DEF m, id

LEMMA KeptLeft ==
  ASSUME NEW list, NEW l \in Seq(Departure), NEW X, NEW x \in Departure,
         x.id \notin X, Kept(list, l, X)
  PROVE  Kept(list, Append(l, x), X \cup {x.id})
<1> DEFINE k == Append(l, x)
           id == x.id
<1>1. Ids(k) = Ids(l) \cup {id} /\ id \notin Ids(l)
  BY IdsAppend DEF Kept
<1>2. Once(k)
  BY <1>1, IdsAppend DEF Kept
<1>3. id \notin X
  OBVIOUS
<1> HIDE DEF k, id
<1>4. Ids(k) \subseteq X \cup {id} /\ \A d \in Classes : Ids(list[d]) \subseteq X \cup {id}
  BY <1>1 DEF Kept
<1>5. \A y \in X \cup {id} : y \in Ids(k) \/ \E d \in Classes : y \in Ids(list[d])
  BY <1>1 DEF Kept
<1>6. \A d \in Classes : Once(list[d]) /\ Ids(list[d]) \cap Ids(k) = {}
  BY <1>1, <1>3 DEF Kept
<1>7. \A d, e \in Classes : d # e => Ids(list[d]) \cap Ids(list[e]) = {}
  BY DEF Kept
<1>8. Kept(list, k, X \cup {id})
  BY <1>2, <1>4, <1>5, <1>6, <1>7 DEF Kept
<1> QED
  BY <1>8 DEF k, id
LEMMA SoundSame ==
  ASSUME NEW a, NEW b \in PortQueues, NEW l, NEW X, Sound(a, l, X),
         b.kind = a.kind, b.list = a.list, b.size = a.size
  PROVE  Sound(b, l, X)
  BY DEF Sound, Sorted

LEMMA SoundLeft ==
  ASSUME NEW a, NEW l, NEW X, NEW p \in Packet, NEW how \in Hows,
         p.id \notin X, Sound(a, l, X)
  PROVE  Sound(a, Append(l, Goes(p, how)), X \cup {p.id})
<1> DEFINE x == Goes(p, how)
<1>1. x \in Departure /\ x.id = p.id
  BY DEF Goes, Departure, Packet
<1>2. l \in Seq(Departure)
  BY DEF Sound
<1> HIDE DEF x
<1>3. Append(l, x) \in Seq(Departure) /\ Kept(a.list, Append(l, x), X \cup {p.id})
  BY <1>1, <1>2, KeptLeft DEF Sound
<1>4. Sound(a, Append(l, x), X \cup {p.id})
  BY <1>3 DEF Sound
<1> QED
  BY <1>4 DEF x

LEMMA SoundPush ==
  ASSUME NEW a, NEW l, NEW X, NEW c \in Classes, NEW p \in Packet,
         p.id \notin X, Sound(a, l, X),
         a.kind # "priority" => a.size[c] + Size(p) <= BufferSize,
         a.kind \in Trims => c = IF p.header THEN "hi" ELSE "lo"
  PROVE  Sound(Push(a, c, p), l, X \cup {p.id})
<1> DEFINE b == Push(a, c, p)
<1>1. a \in PortQueues /\ l \in Seq(Departure)
  BY DEF Sound
<1>2. a.list \in [Classes -> Seq(Packet)] /\ a.size \in [Classes -> Int]
  BY <1>1 DEF PortQueues
<1>3. /\ b \in PortQueues /\ b.kind = a.kind
      /\ b.list = [a.list EXCEPT ![c] = Append(@, p)]
      /\ b.size = [a.size EXCEPT ![c] = @ + Size(p)]
  BY <1>1, PushIs DEF Alike
<1> HIDE DEF b
<1>4. Kept(b.list, l, X \cup {p.id})
  <2>1. Kept(a.list, l, X)
    BY DEF Sound
  <2>2. Kept([a.list EXCEPT ![c] = Append(@, p)], l, X \cup {p.id})
    BY <1>1, <1>2, <2>1, KeptPush
  <2> QED
    BY <1>3, <2>2
<1>5. ASSUME NEW d \in Classes
      PROVE  /\ b.size[d] = SumSizes(b.list[d])
             /\ b.kind # "priority" => b.size[d] <= BufferSize
  <2>1. a.size[d] = SumSizes(a.list[d]) /\ (a.kind # "priority" => a.size[d] <= BufferSize)
    BY DEF Sound
  <2>2. CASE d = c
    <3>1. b.size[c] = a.size[c] + Size(p) /\ b.list[c] = Append(a.list[c], p)
      BY <1>2, <1>3
    <3>2. SumSizes(Append(a.list[c], p)) = SumSizes(a.list[c]) + Size(p)
      BY <1>2, SumAppend
    <3> QED
      BY <1>3, <2>1, <2>2, <3>1, <3>2
  <2>3. CASE d # c
    BY <1>2, <1>3, <2>1, <2>3
  <2> QED
    BY <2>2, <2>3
<1>6. Sorted(b)
  <2> SUFFICES ASSUME b.kind \in Trims
               PROVE  /\ \A i \in 1 .. Len(b.list["hi"]) : b.list["hi"][i].header
                      /\ \A i \in 1 .. Len(b.list["lo"]) : ~b.list["lo"][i].header
    BY DEF Sorted
  <2>1. /\ \A i \in 1 .. Len(a.list["hi"]) : a.list["hi"][i].header
        /\ \A i \in 1 .. Len(a.list["lo"]) : ~a.list["lo"][i].header
    BY <1>3 DEF Sound, Sorted
  <2>2. "hi" \in Classes /\ "lo" \in Classes /\ c = IF p.header THEN "hi" ELSE "lo"
    BY <1>3 DEF Classes
  <2> DEFINE s == a.list[c]
  <2>3. /\ Len(s) \in Nat /\ Len(Append(s, p)) = Len(s) + 1 /\ Append(s, p)[Len(s) + 1] = p
        /\ \A k \in 1 .. Len(s) : Append(s, p)[k] = s[k]
    BY <1>2, AppendIs
  <2>4. \A k \in 1 .. Len(Append(s, p)) : k \in 1 .. Len(s) \/ k = Len(s) + 1
    BY <2>3
  <2>5. b.list[c] = Append(s, p) /\ \A d \in Classes : d # c => b.list[d] = a.list[d]
    BY <1>2, <1>3
  <2> HIDE DEF s
  <2>6. CASE p.header
    <3>1. c = "hi"
      BY <2>2, <2>6
    <3>2. \A k \in 1 .. Len(s) : s[k].header
      BY <2>1, <3>1 DEF s
    <3> QED
      BY <2>1, <2>2, <2>3, <2>4, <2>5, <2>6, <3>1, <3>2
  <2>7. CASE ~p.header
    <3>1. c = "lo"
      BY <2>2, <2>7
    <3>2. \A k \in 1 .. Len(s) : ~s[k].header
      BY <2>1, <3>1 DEF s
    <3> QED
      BY <2>1, <2>2, <2>3, <2>4, <2>5, <2>7, <3>1, <3>2
  <2> QED
    BY <2>6, <2>7
<1>7. Sound(b, l, X \cup {p.id})
  BY <1>1, <1>3, <1>4, <1>5, <1>6 DEF Sound
<1> QED
  BY <1>7 DEF b

\* The queue without the i-th packet of class c.
Taken(a, c, i) == Changed(a, c, Without(a.list[c], i), a.size[c] - Size(a.list[c][i]))

WithoutOne(a, l, X, c, i) ==
  /\ Sound(Taken(a, c, i), l, X \ {a.list[c][i].id}) /\ Alike(a, Taken(a, c, i))
  /\ Taken(a, c, i).list[c] = Without(a.list[c], i)
  /\ \A d \in Classes : d # c => Taken(a, c, i).list[d] = a.list[d]
  /\ Taken(a, c, i).size[c] = a.size[c] - Size(a.list[c][i])
  /\ a.list[c][i].id \in X /\ a.list[c][i] \in Packet

LEMMA SoundTaken ==
  ASSUME NEW a, NEW l, NEW X, Sound(a, l, X), NEW c \in Classes,
         NEW i \in 1 .. Len(a.list[c])
  PROVE  WithoutOne(a, l, X, c, i)
<1> DEFINE b == Taken(a, c, i)
           s == Without(a.list[c], i)
           n == a.size[c] - Size(a.list[c][i])
<1>1. a \in PortQueues /\ l \in Seq(Departure)
  BY DEF Sound
<1>2. a.list \in [Classes -> Seq(Packet)] /\ a.size \in [Classes -> Int]
  BY <1>1 DEF PortQueues
<1>3. a.list[c] \in Seq(Packet) /\ a.list[c][i] \in Packet
  BY <1>2
<1>4. s \in Seq(Packet) /\ n \in Int
  BY <1>2, <1>3, WithoutIs, SizeIs
<1>5. b = Changed(a, c, s, n)
  BY DEF Taken
<1> HIDE DEF b, s, n
<1>6. /\ b \in PortQueues /\ Alike(a, b)
      /\ b.list = [a.list EXCEPT ![c] = s] /\ b.size = [a.size EXCEPT ![c] = n]
  BY <1>1, <1>4, <1>5, ChangedIs
<1>7. Kept(b.list, l, X \ {a.list[c][i].id}) /\ a.list[c][i].id \in X
  <2>1. Kept(a.list, l, X)
    BY DEF Sound
  <2>2. /\ Kept([a.list EXCEPT ![c] = Without(@, i)], l, X \ {a.list[c][i].id})
        /\ a.list[c][i].id \in X
    BY <1>1, <1>2, <2>1, KeptWithout
  <2>3. b.list = [a.list EXCEPT ![c] = Without(@, i)]
    BY <1>2, <1>6 DEF s
  <2> QED
    BY <2>2, <2>3
<1>8. ASSUME NEW d \in Classes
      PROVE  /\ b.size[d] = SumSizes(b.list[d])
             /\ b.kind # "priority" => b.size[d] <= BufferSize
  <2>1. a.size[d] = SumSizes(a.list[d]) /\ (a.kind # "priority" => a.size[d] <= BufferSize)
    BY DEF Sound
  <2>2. CASE d = c
    <3>1. b.size[c] = n /\ b.list[c] = s
      BY <1>2, <1>6
    <3>2. SumSizes(s) = SumSizes(a.list[c]) - Size(a.list[c][i])
      BY <1>3, SumWithout DEF s
    <3>3. Size(a.list[c][i]) \in Nat /\ a.size[c] \in Int /\ BufferSize \in Nat
      BY <1>2, SizeIs, PortAssumption
    <3>4. n = SumSizes(a.list[c]) - Size(a.list[c][i]) /\ n = a.size[c] - Size(a.list[c][i])
      BY <2>1, <2>2 DEF n
    <3>5. b.kind = a.kind
      BY <1>6 DEF Alike
    <3>6. n <= a.size[c]
      BY <3>3, <3>4
    <3> QED
      BY <1>4, <2>1, <2>2, <3>1, <3>2, <3>3, <3>4, <3>5, <3>6
  <2>3. CASE d # c
    BY <1>2, <1>6, <2>1, <2>3 DEF Alike
  <2> QED
    BY <2>2, <2>3
<1>9. Sorted(b)
  <2> DEFINE m == Len(a.list[c])
  <2>1. /\ m \in Nat /\ Len(s) = m - 1
        /\ \A k \in 1 .. m - 1 : s[k] = a.list[c][k] \/ s[k] = a.list[c][k + 1]
        /\ \A k \in 1 .. m - 1 : k \in 1 .. m /\ k + 1 \in 1 .. m
    <3>1. m \in Nat /\ \A k \in 1 .. m - 1 : k \in 1 .. m /\ k + 1 \in 1 .. m
      BY <1>3
    <3>2. /\ Len(s) = m - 1
          /\ \A k \in 1 .. m - 1 : s[k] = IF k < i THEN a.list[c][k] ELSE a.list[c][k + 1]
      BY <1>3, WithoutIs DEF s
    <3> QED
      BY <3>1, <3>2
  <2> HIDE DEF m
  <2>2. "hi" \in Classes /\ "lo" \in Classes
    BY DEF Classes
  <2>3. b.list[c] = s /\ \A d \in Classes : d # c => b.list[d] = a.list[d]
    BY <1>2, <1>6
  <2>4. b.kind = a.kind
    BY <1>6 DEF Alike
  <2>5. ASSUME a.kind \in Trims
        PROVE  \A k \in 1 .. Len(b.list["hi"]) : b.list["hi"][k].header
    <3>1. \A k \in 1 .. Len(a.list["hi"]) : a.list["hi"][k].header
      BY <2>5 DEF Sound, Sorted
    <3>2. CASE c = "hi"
      BY <2>1, <2>3, <3>1, <3>2 DEF m
    <3> QED
      BY <2>2, <2>3, <3>1, <3>2
  <2>6. ASSUME a.kind \in Trims
        PROVE  \A k \in 1 .. Len(b.list["lo"]) : ~b.list["lo"][k].header
    <3>1. \A k \in 1 .. Len(a.list["lo"]) : ~a.list["lo"][k].header
      BY <2>6 DEF Sound, Sorted
    <3>2. CASE c = "lo"
      BY <2>1, <2>3, <3>1, <3>2 DEF m
    <3> QED
      BY <2>2, <2>3, <3>1, <3>2
  <2> QED
    BY <2>4, <2>5, <2>6 DEF Sorted
<1>10. Sound(b, l, X \ {a.list[c][i].id})
  BY <1>1, <1>6, <1>7, <1>8, <1>9 DEF Sound
<1> QED
  BY <1>2, <1>3, <1>6, <1>7, <1>10 DEF b, s, n, WithoutOne
-----------------------------------------------------------------------------
(* What a receive makes of the queue, and how it disturbs the service.     *)

\* A service that runs goes on; an idle queue begins one, or stays as it is.
CarriesOn(a, b) ==
  /\ b.kind = a.kind /\ b.state = a.state
  /\ a.kind \in Composites =>
       /\ a.serv # "none" => b.serv = a.serv /\ b.crt = a.crt
       /\ a.serv = "none" /\ a.state = "ready" =>
            b.serv # "none" \/ (b.serv = "none" /\ b.list = a.list)

LEMMA LeftIs ==
  ASSUME NEW l \in Seq(Departure), NEW x \in Departure
  PROVE  l \o <<>> = l /\ l \o <<x>> = Append(l, x)
  OBVIOUS

LEMMA GoesIs ==
  ASSUME NEW p \in Packet, NEW how \in Hows
  PROVE  Goes(p, how) \in Departure
  BY DEF Goes, Departure, Packet

LEMMA StripIs ==
  ASSUME NEW p \in Packet
  PROVE  Strip(p) \in Packet /\ Strip(p).id = p.id /\ Strip(p).header /\ Strip(p).len = p.len
  BY DEF Strip, Packet

LEMMA PushCarriesOn ==
  ASSUME NEW a \in PortQueues, NEW c \in Classes, NEW p \in Packet
  PROVE  LET b == Started(Push(a, c, p), a.serv = "none")
         IN  /\ b \in PortQueues /\ CarriesOn(a, b) /\ b.longest = a.longest
             /\ b.list = Push(a, c, p).list /\ b.size = Push(a, c, p).size
<1> DEFINE d == Push(a, c, p)
<1>1. d \in PortQueues /\ Alike(a, d)
  BY PushIs
<1> HIDE DEF d
<1>2. (a.serv = "none") \in BOOLEAN /\ "none" \notin Classes
  BY DEF Classes
<1>3. LET b == Started(d, a.serv = "none")
      IN  /\ b \in PortQueues /\ CarriesOn(a, b) /\ b.longest = a.longest
          /\ b.list = d.list /\ b.size = d.size
  BY <1>1, <1>2, StartedIs DEF Alike, SameLists, CarriesOn
<1> QED
  BY <1>3 DEF d

\* A header changes neither the list of the full packets nor the longest path.
HeaderReceived(a, l, X, r) ==
  /\ Sound(r.a, l \o r.out, X) /\ r.out \in Seq(Departure)
  /\ r.a.longest = a.longest /\ r.a.list["lo"] = a.list["lo"]
  /\ r.a.size["lo"] = a.size["lo"] /\ CarriesOn(a, r.a)

LEMMA ReceiveHeaderIs ==
  ASSUME NEW a, NEW l, NEW X, NEW p \in Packet, p.header, p.id \notin X,
         Sound(a, l, X), a.kind \in Composites
  PROVE  HeaderReceived(a, l, X \cup {p.id}, ReceiveHeader(a, p))
<1>1. a \in PortQueues /\ l \in Seq(Departure) /\ "hi" \in Classes /\ "lo" \in Classes
  BY DEF Sound, Classes
<1>2. a.list \in [Classes -> Seq(Packet)] /\ a.size \in [Classes -> Int]
  BY <1>1 DEF PortQueues
<1>3. CASE a.size["hi"] + 1 <= BufferSize
  <2> DEFINE d == Push(a, "hi", p)
             b == Started(d, a.serv = "none")
  <2>1. /\ d.list = [a.list EXCEPT !["hi"] = Append(@, p)]
        /\ d.size = [a.size EXCEPT !["hi"] = @ + Size(p)]
        /\ d \in PortQueues /\ d.kind = a.kind
    BY <1>1, PushIs DEF Alike
  <2>2. b \in PortQueues /\ CarriesOn(a, b) /\ b.longest = a.longest /\ b.list = d.list /\ b.size = d.size
    BY <1>1, PushCarriesOn
  <2>3. Size(p) = 1
    BY DEF Size
  <2>4. Sound(d, l, X \cup {p.id})
    BY <1>1, <1>3, <2>3, SoundPush
  <2>5. ReceiveHeader(a, p).a = b /\ ReceiveHeader(a, p).out = <<>>
    BY <1>3 DEF ReceiveHeader, Outcome
  <2> HIDE DEF d, b
  <2>6. Sound(b, l, X \cup {p.id})
    BY <2>1, <2>2, <2>4, SoundSame DEF CarriesOn
  <2>7. b.list["lo"] = a.list["lo"] /\ b.size["lo"] = a.size["lo"]
    BY <1>1, <1>2, <2>1, <2>2
  <2>8. l \o <<>> = l
    BY <1>1
  <2> QED
    BY <2>2, <2>5, <2>6, <2>7, <2>8 DEF HeaderReceived
<1>4. CASE ~(a.size["hi"] + 1 <= BufferSize)
  <2> DEFINE how == IF a.kind = "composite" /\ p.returns THEN "bounced" ELSE "dropped"
  <2>1. how \in Hows
    BY DEF Hows
  <2>2. ReceiveHeader(a, p).a = a /\ ReceiveHeader(a, p).out = <<Goes(p, how)>>
    BY <1>4 DEF ReceiveHeader, Outcome
  <2> HIDE DEF how
  <2>3. Goes(p, how) \in Departure
    BY <2>1, GoesIs
  <2>4. Sound(a, Append(l, Goes(p, how)), X \cup {p.id})
    BY <2>1, SoundLeft
  <2>5. l \o <<Goes(p, how)>> = Append(l, Goes(p, how))
    BY <1>1, <2>3, LeftIs
  <2>6. CarriesOn(a, a)
    BY DEF CarriesOn
  <2>7. <<Goes(p, how)>> \in Seq(Departure)
    BY <2>3
  <2>8. Sound(a, l \o <<Goes(p, how)>>, X \cup {p.id})
    BY <2>4, <2>5
  <2> QED
    BY <2>2, <2>6, <2>7, <2>8 DEF HeaderReceived
<1> QED
  BY <1>3, <1>4

LEMMA EnqueueLowIs ==
  ASSUME NEW a, NEW l, NEW X, NEW p \in Packet, ~p.header, p.id \notin X,
         Sound(a, l, X), Longest(a), a.kind \in Composites,
         a.size["lo"] + Size(p) <= BufferSize
  PROVE  /\ Sound(EnqueueLow(a, p), l, X \cup {p.id}) /\ Longest(EnqueueLow(a, p))
         /\ CarriesOn(a, EnqueueLow(a, p))
<1> DEFINE d == Push(a, "lo", p)
           n == IF a.kind = "length" /\ p.len > a.longest THEN p.len ELSE a.longest
           e == [d EXCEPT !.longest = n]
           idle == a.serv = "none"
           b == Started(e, idle)
<1>1. a \in PortQueues /\ l \in Seq(Departure) /\ "lo" \in Classes
  BY DEF Sound, Classes
<1>2. a.list \in [Classes -> Seq(Packet)] /\ a.size \in [Classes -> Int] /\ a.longest \in 0 .. MaxLen
  BY <1>1 DEF PortQueues
<1>3. /\ d \in PortQueues /\ Alike(a, d)
      /\ d.list["lo"] = Append(a.list["lo"], p)
  <2> HIDE DEF n, e, idle, b
  <2> QED
    BY <1>1, PushIs
<1>4. Sound(d, l, X \cup {p.id})
  BY <1>1, SoundPush
<1>5. n \in 0 .. MaxLen /\ idle \in BOOLEAN
  <2>1. p.len \in 1 .. MaxLen /\ MaxLen \in Nat
    BY PortAssumption DEF Packet
  <2> QED
    BY <1>2, <2>1
<1>6. EnqueueLow(a, p) = b
  BY <1>3 DEF EnqueueLow, Alike
<1> HIDE DEF d, n
<1>7. /\ e \in PortQueues /\ e.list = d.list /\ e.size = d.size /\ e.longest = n
      /\ e.kind = a.kind /\ e.serv = a.serv /\ e.crt = a.crt /\ e.state = a.state
  BY <1>3, <1>5 DEF PortQueues, Alike
<1> HIDE DEF e, idle
<1>8. /\ b \in PortQueues /\ SameLists(e, b) /\ b.longest = n
      /\ (~idle => b = e) /\ (idle /\ e.state = "ready" => b.serv \in Classes)
  BY <1>5, <1>7, StartedIs
<1> HIDE DEF b
<1>9. Sound(b, l, X \cup {p.id})
  BY <1>3, <1>4, <1>7, <1>8, SoundSame DEF SameLists, Alike
<1>10. CarriesOn(a, b)
  <2>1. "none" \notin Classes
    BY DEF Classes
  <2> QED
    BY <1>7, <1>8, <2>1 DEF CarriesOn, SameLists, idle
<1>11. Longest(b)
  <2> SUFFICES ASSUME a.kind = "length" PROVE n = MaxQueued(b.list["lo"])
    BY <1>7, <1>8 DEF Longest, SameLists
  <2>1. b.list["lo"] = Append(a.list["lo"], p)
    BY <1>3, <1>7, <1>8 DEF SameLists
  <2>2. a.longest = MaxQueued(a.list["lo"]) /\ a.list["lo"] \in Seq(Packet)
    BY <1>1, <1>2 DEF Longest
  <2>3. MaxQueued(Append(a.list["lo"], p)) = IF p.len > a.longest THEN p.len ELSE a.longest
    BY <2>2, MaxAppend
  <2> QED
    BY <2>1, <2>3 DEF n
<1> QED
  BY <1>6, <1>9, <1>10, <1>11
LEMMA BootIs ==
  ASSUME NEW a, NEW l, NEW X, Sound(a, l, X), Longest(a), a.kind \in Composites,
         NEW i \in 1 .. Len(a.list["lo"]), a.serv # "none"
  PROVE  LET r == Boot(a, i)
         IN  /\ Sound(r.a, l \o r.out, X) /\ r.out \in Seq(Departure) /\ Longest(r.a)
             /\ r.a.size["lo"] = a.size["lo"] - Full /\ CarriesOn(a, r.a)
<1> DEFINE p == a.list["lo"][i]
           t == Taken(a, "lo", i)
           u == Recount(t, p)
           r == ReceiveHeader(u, Strip(p))
<1>1. a \in PortQueues /\ l \in Seq(Departure) /\ "lo" \in Classes
  BY DEF Sound, Classes
<1>2. a.list \in [Classes -> Seq(Packet)] /\ a.size \in [Classes -> Int]
  BY <1>1 DEF PortQueues
<1>3. p \in Packet /\ ~p.header /\ a.list["lo"] \in Seq(Packet)
  BY <1>1, <1>2 DEF Sound, Sorted, Composites, Trims
<1>4. Size(p) = Full /\ Full \in Nat
  BY <1>3, PortAssumption DEF Size
<1>5. /\ Sound(t, l, X \ {p.id}) /\ Alike(a, t) /\ p.id \in X
      /\ t.list["lo"] = Without(a.list["lo"], i) /\ t.size["lo"] = a.size["lo"] - Full
  <2>1. WithoutOne(a, l, X, "lo", i)
    BY <1>1, SoundTaken
  <2> QED
    BY <1>4, <2>1 DEF WithoutOne
<1>6. Boot(a, i) = r
  BY DEF Boot, Taken, Changed
<1> HIDE DEF p, t
<1>7. /\ u \in PortQueues /\ SameLists(t, u) /\ u.serv = t.serv /\ u.crt = t.crt
      /\ u.longest = IF t.kind = "length" /\ ~p.header /\ p.len = t.longest
                       THEN MaxQueued(t.list["lo"]) ELSE t.longest
  <2>1. t \in PortQueues
    BY <1>5 DEF Sound
  <2> QED
    BY <2>1, RecountIs
<1> HIDE DEF u
<1>8. Sound(u, l, X \ {p.id}) /\ u.kind \in Composites
  BY <1>5, <1>7, SoundSame DEF SameLists, Alike
<1>9. Strip(p) \in Packet /\ Strip(p).id = p.id /\ Strip(p).header
  BY <1>3, StripIs
<1>10. /\ Sound(r.a, l \o r.out, (X \ {p.id}) \cup {Strip(p).id}) /\ r.out \in Seq(Departure)
       /\ r.a.longest = u.longest /\ r.a.list["lo"] = u.list["lo"]
       /\ r.a.size["lo"] = u.size["lo"] /\ CarriesOn(u, r.a)
  <2> DEFINE q == Strip(p)
             Y == X \ {p.id}
  <2>1. q \in Packet /\ q.header /\ q.id \notin Y /\ Sound(u, l, Y)
    BY <1>8, <1>9
  <2> HIDE DEF q, Y
  <2>2. HeaderReceived(u, l, Y \cup {q.id}, ReceiveHeader(u, q))
    BY <1>8, <2>1, ReceiveHeaderIs
  <2> QED
    BY <2>2 DEF q, Y, HeaderReceived
<1> HIDE DEF r
<1>11. (X \ {p.id}) \cup {Strip(p).id} = X
  BY <1>5, <1>9
<1>12. r.a.size["lo"] = a.size["lo"] - Full /\ CarriesOn(a, r.a)
  BY <1>5, <1>7, <1>10 DEF SameLists, Alike, CarriesOn
<1>13. Longest(r.a)
  <2> SUFFICES ASSUME a.kind = "length" PROVE r.a.longest = MaxQueued(r.a.list["lo"])
    BY <1>12 DEF Longest, CarriesOn
  <2>1. t.kind = "length" /\ t.longest = MaxQueued(a.list["lo"])
    BY <1>5 DEF Alike, Longest
  <2>2. r.a.list["lo"] = Without(a.list["lo"], i) /\ t.list["lo"] = Without(a.list["lo"], i)
    BY <1>5, <1>7, <1>10 DEF SameLists
  <2>3. CASE p.len = t.longest
    BY <1>3, <1>7, <1>10, <2>1, <2>2, <2>3
  <2>4. CASE p.len # t.longest
    <3>1. MaxQueued(Without(a.list["lo"], i)) = MaxQueued(a.list["lo"])
      BY <1>3, <2>1, <2>4, MaxWithout DEF p
    <3> QED
      BY <1>7, <1>10, <2>1, <2>2, <2>4, <3>1
  <2> QED
    BY <2>3, <2>4
<1> QED
  BY <1>6, <1>10, <1>11, <1>12, <1>13

\* What a receive returns: the packets X are accounted for, and service goes on.
Received(a, l, X, r) ==
  Sound(r.a, l \o r.out, X) /\ Longest(r.a) /\ CarriesOn(a, r.a)

LEMMA ReplaceIs ==
  ASSUME NEW a, NEW l, NEW X, Sound(a, l, X), Longest(a), a.kind \in Composites,
         NEW p \in Packet, ~p.header, p.id \notin X,
         NEW i \in 1 .. Len(a.list["lo"]), a.serv # "none"
  PROVE  Received(a, l, X \cup {p.id}, Replace(a, p, i))
<1> DEFINE b == Boot(a, i)
<1>1. /\ Sound(b.a, l \o b.out, X) /\ Longest(b.a)
      /\ b.a.size["lo"] = a.size["lo"] - Full /\ CarriesOn(a, b.a)
  BY BootIs
<1>2. Replace(a, p, i).a = EnqueueLow(b.a, p) /\ Replace(a, p, i).out = b.out
  BY DEF Replace, Outcome
<1>3. Size(p) = Full /\ Full \in Int
  BY PortAssumption DEF Size
<1>4. a.size["lo"] <= BufferSize /\ a.size["lo"] \in Int
  BY DEF Sound, Classes, PortQueues, Composites
<1>5. b.a.size["lo"] + Size(p) <= BufferSize /\ b.a.kind \in Composites
  BY <1>1, <1>3, <1>4 DEF CarriesOn
<1> HIDE DEF b
<1>6. /\ Sound(EnqueueLow(b.a, p), l \o b.out, X \cup {p.id}) /\ Longest(EnqueueLow(b.a, p))
      /\ CarriesOn(b.a, EnqueueLow(b.a, p))
  BY <1>1, <1>5, EnqueueLowIs
<1>7. CarriesOn(a, EnqueueLow(b.a, p))
  BY <1>1, <1>6 DEF CarriesOn
<1> QED
  BY <1>2, <1>6, <1>7 DEF Received
\* A packet that does not fit a list finds it occupied.
LEMMA FullIs ==
  ASSUME NEW a, NEW l, NEW X, Sound(a, l, X), NEW c \in Classes, NEW p \in Packet
  PROVE  /\ a.list[c] \in Seq(Packet) /\ a.size[c] \in Nat
         /\ a.size[c] <= Total(a) /\ Total(a) \in Nat
         /\ ~(a.size[c] + Size(p) <= BufferSize) =>
              a.list[c] # <<>> /\ Len(a.list[c]) \in 1 .. Len(a.list[c])
<1>1. a.list \in [Classes -> Seq(Packet)]
  BY DEF Sound, PortQueues
<1>2. \A d \in Classes : a.size[d] \in Nat
  <2> TAKE d \in Classes
  <2>1. a.list[d] \in Seq(Packet) /\ a.size[d] = SumSizes(a.list[d])
    BY <1>1 DEF Sound
  <2> QED
    BY <2>1, SumAppend
<1>3. a.size[c] <= Total(a) /\ Total(a) \in Nat
  BY <1>2 DEF Total, Classes
<1>4. ASSUME ~(a.size[c] + Size(p) <= BufferSize)
      PROVE  a.list[c] # <<>> /\ Len(a.list[c]) \in 1 .. Len(a.list[c])
  <2>1. Size(p) \in Nat /\ Size(p) <= BufferSize /\ BufferSize \in Nat
    BY SizeIs, PortAssumption
  <2>2. a.size[c] # 0
    BY <1>2, <1>4, <2>1
  <2>3. a.list[c] # <<>>
    <3>1. SumSizes(<<>>) = 0
      BY <1>1, SumAppend
    <3> QED
      BY <2>2, <3>1 DEF Sound
  <2>4. Len(a.list[c]) \in Nat /\ 1 \in 1 .. Len(a.list[c])
    BY <1>1, <2>3, TailIs
  <2> QED
    BY <2>3, <2>4
<1> QED
  BY <1>1, <1>2, <1>3, <1>4

\* A packet is queued, by a queue with no ratio to keep.
LEMMA QueuedIs ==
  ASSUME NEW a, NEW l, NEW X, Sound(a, l, X), a.kind \notin Composites,
         NEW c \in Classes, NEW p \in Packet, p.id \notin X, NEW idle \in BOOLEAN,
         a.kind # "priority" => a.size[c] + Size(p) <= BufferSize,
         a.kind \in Trims => c = IF p.header THEN "hi" ELSE "lo"
  PROVE  Received(a, l, X \cup {p.id}, Outcome(Started(Push(a, c, p), idle), <<>>))
<1> DEFINE d == Push(a, c, p)
           b == Started(d, idle)
<1>1. a \in PortQueues /\ l \in Seq(Departure)
  BY DEF Sound
<1>2. Sound(d, l, X \cup {p.id})
  BY SoundPush
<1>3. d \in PortQueues /\ Alike(a, d)
  BY <1>1, PushIs
<1> HIDE DEF d
<1>4. b \in PortQueues /\ SameLists(d, b)
  BY <1>3, StartedIs
<1> HIDE DEF b
<1>5. Sound(b, l, X \cup {p.id})
  BY <1>2, <1>4, SoundSame DEF SameLists
<1>6. CarriesOn(a, b) /\ Longest(b)
  BY <1>3, <1>4 DEF CarriesOn, SameLists, Alike, Longest, Composites
<1>7. l \o <<>> = l
  BY <1>1
<1>8. Received(a, l, X \cup {p.id}, Outcome(b, <<>>))
  BY <1>5, <1>6, <1>7 DEF Received, Outcome
<1> QED
  BY <1>8 DEF b, d

\* A packet leaves, and the program may end.
LEMMA LeavesIs ==
  ASSUME NEW a, NEW l, NEW X, Sound(a, l, X), Longest(a),
         NEW p \in Packet, p.id \notin X, NEW how \in Hows, NEW e \in BOOLEAN
  PROVE  /\ Received(a, l, X \cup {p.id}, Outcome([a EXCEPT !.exited = e], <<Goes(p, how)>>))
         /\ Received(a, l, X \cup {p.id}, Outcome(a, <<Goes(p, how)>>))
<1> DEFINE b == [a EXCEPT !.exited = e]
           x == Goes(p, how)
<1>1. a \in PortQueues /\ l \in Seq(Departure)
  BY DEF Sound
<1>2. /\ b \in PortQueues /\ b.kind = a.kind /\ b.list = a.list /\ b.size = a.size
      /\ b.state = a.state /\ b.serv = a.serv /\ b.crt = a.crt /\ b.longest = a.longest
  BY <1>1 DEF PortQueues
<1>3. x \in Departure
  BY GoesIs
<1>4. Sound(a, Append(l, x), X \cup {p.id})
  BY SoundLeft
<1>5. l \o <<x>> = Append(l, x)
  BY <1>1, <1>3, LeftIs
<1> HIDE DEF b, x
<1>6. Sound(b, Append(l, x), X \cup {p.id})
  BY <1>2, <1>4, SoundSame
<1>7. Longest(b) /\ CarriesOn(a, b) /\ CarriesOn(a, a)
  BY <1>2 DEF Longest, CarriesOn
<1>8. /\ Received(a, l, X \cup {p.id}, Outcome(b, <<x>>))
      /\ Received(a, l, X \cup {p.id}, Outcome(a, <<x>>))
  BY <1>4, <1>5, <1>6, <1>7 DEF Received, Outcome
<1> QED
  BY <1>8 DEF b, x

LEMMA FifoIs ==
  ASSUME NEW a, NEW l, NEW X, Sound(a, l, X), NEW p \in Packet, p.id \notin X,
         a.kind \in {"queue", "random", "ecn"}, NEW r \in ReceiveFifo(a, p)
  PROVE  Received(a, l, X \cup {p.id}, r)
<1>1. a.kind \notin Composites /\ a.kind \notin Trims /\ Longest(a)
  BY DEF Composites, Trims, Longest
<1>2. "lo" \in Classes /\ IsEmpty(a) \in BOOLEAN /\ "dropped" \in Hows
  BY DEF Classes, IsEmpty, Hows
<1>3. a.size["lo"] \in Nat /\ a.size["lo"] <= Total(a) /\ Total(a) \in Nat
  BY <1>2, FullIs
<1>4. Size(p) \in Nat /\ BufferSize \in Nat
  BY SizeIs, PortAssumption
<1>5. CASE Total(a) + Size(p) <= BufferSize /\ r = Outcome(Started(Push(a, "lo", p), IsEmpty(a)), <<>>)
  <2>1. a.size["lo"] + Size(p) <= BufferSize
    BY <1>3, <1>4, <1>5
  <2> QED
    BY <1>1, <1>2, <1>5, <2>1, QueuedIs
<1>6. CASE r = Outcome([a EXCEPT !.exited = a.kind = "random"], <<Goes(p, "dropped")>>)
  <2>1. (a.kind = "random") \in BOOLEAN
    OBVIOUS
  <2> QED
    BY <1>1, <1>2, <1>6, <2>1, LeavesIs
<1> QED
  BY <1>5, <1>6 DEF ReceiveFifo

LEMMA PriorityIs ==
  ASSUME NEW a, NEW l, NEW X, Sound(a, l, X), NEW p \in Packet, p.id \notin X,
         a.kind = "priority", NEW r \in ReceivePriority(a, p)
  PROVE  Received(a, l, X \cup {p.id}, r)
<1> DEFINE c == IF p.header THEN "hi" ELSE IF p.len = 1 THEN "lo" ELSE "mid"
<1>1. a.kind \notin Composites /\ a.kind \notin Trims /\ c \in Classes /\ IsEmpty(a) \in BOOLEAN
  BY DEF Composites, Trims, Classes, IsEmpty
<1>2. r = Outcome(Started(Push(a, c, p), IsEmpty(a)), <<>>)
  BY DEF ReceivePriority
<1> HIDE DEF c
<1> QED
  BY <1>1, <1>2, QueuedIs

LEMMA CutIs ==
  ASSUME NEW a, NEW l, NEW X, Sound(a, l, X), NEW p \in Packet, p.id \notin X,
         a.kind = "cut", NEW r \in ReceiveCut(a, p)
  PROVE  Received(a, l, X \cup {p.id}, r)
<1> DEFINE over == Total(a) + Size(p) > Threshold
           t == IF over THEN Strip(p) ELSE p
<1>1. a.kind \notin Composites /\ a.kind \notin Trims /\ Longest(a) /\ a.kind # "priority"
  BY DEF Composites, Trims, Longest
<1>2. "lo" \in Classes /\ IsEmpty(a) \in BOOLEAN /\ "dropped" \in Hows
  BY DEF Classes, IsEmpty, Hows
<1>3. a.size["lo"] \in Nat /\ a.size["lo"] <= Total(a) /\ Total(a) \in Nat
  BY <1>2, FullIs
<1>4. t \in Packet /\ t.id = p.id
  BY StripIs
<1>5. r = IF over /\ p.header
            THEN Outcome([a EXCEPT !.exited = TRUE], <<Goes(p, "dropped")>>)
          ELSE IF Total(a) + Size(t) > BufferSize THEN Outcome(a, <<Goes(t, "dropped")>>)
          ELSE Outcome(Started(Push(a, "lo", t), IsEmpty(a)), <<>>)
  BY DEF ReceiveCut
<1> HIDE DEF t, over
<1>6. Size(t) \in Nat /\ BufferSize \in Nat
  BY SizeIs, PortAssumption
<1>7. CASE over /\ p.header
  <2>1. TRUE \in BOOLEAN
    OBVIOUS
  <2> QED
    BY <1>1, <1>2, <1>5, <1>7, <2>1, LeavesIs
<1>8. CASE ~(over /\ p.header) /\ Total(a) + Size(t) > BufferSize
  <2>1. TRUE \in BOOLEAN
    OBVIOUS
  <2> QED
    BY <1>1, <1>2, <1>4, <1>5, <1>8, <2>1, LeavesIs
<1>9. CASE ~(over /\ p.header) /\ ~(Total(a) + Size(t) > BufferSize)
  <2>1. a.size["lo"] + Size(t) <= BufferSize
    BY <1>3, <1>6, <1>9
  <2>2. Received(a, l, X \cup {t.id}, Outcome(Started(Push(a, "lo", t), IsEmpty(a)), <<>>))
    BY <1>1, <1>2, <1>4, <2>1, QueuedIs
  <2> QED
    BY <1>4, <1>5, <1>9, <2>2
<1> QED
  BY <1>7, <1>8, <1>9

\* An idle composite queue is empty.
IdleIsEmpty(a) == a.kind \in Composites /\ a.serv = "none" => IsEmpty(a)

\* The outcomes of the composite queues, for a header, a full packet that fits,
\* one that is trimmed, and one that takes a place.
LEMMA CompositesIs ==
  ASSUME NEW a, NEW l, NEW X, Sound(a, l, X), Longest(a), IdleIsEmpty(a),
         a.kind \in Composites, NEW p \in Packet, p.id \notin X
  PROVE  /\ p.header => Received(a, l, X \cup {p.id}, ReceiveHeader(a, p))
         /\ Received(a, l, X \cup {p.id}, ReceiveHeader(a, Strip(p)))
         /\ ~p.header /\ a.size["lo"] + Size(p) <= BufferSize =>
              Received(a, l, X \cup {p.id}, Outcome(EnqueueLow(a, p), <<>>))
         /\ ~p.header =>
              \A i \in 1 .. Len(a.list["lo"]) : Received(a, l, X \cup {p.id}, Replace(a, p, i))
<1>1. a \in PortQueues /\ l \in Seq(Departure) /\ "lo" \in Classes
  BY DEF Sound, Classes
<1>2. ASSUME NEW q \in Packet, q.header, q.id = p.id
      PROVE  Received(a, l, X \cup {p.id}, ReceiveHeader(a, q))
  <2> DEFINE r == ReceiveHeader(a, q)
  <2>1. HeaderReceived(a, l, X \cup {q.id}, r)
    BY <1>2, ReceiveHeaderIs
  <2> HIDE DEF r
  <2>2. Longest(r.a)
    BY <2>1 DEF Longest, CarriesOn, HeaderReceived
  <2>3. Received(a, l, X \cup {p.id}, r)
    BY <1>2, <2>1, <2>2 DEF Received, HeaderReceived
  <2> QED
    BY <2>3 DEF r
<1>3. ASSUME ~p.header, a.size["lo"] + Size(p) <= BufferSize
      PROVE  Received(a, l, X \cup {p.id}, Outcome(EnqueueLow(a, p), <<>>))
  <2>1. /\ Sound(EnqueueLow(a, p), l, X \cup {p.id}) /\ Longest(EnqueueLow(a, p))
        /\ CarriesOn(a, EnqueueLow(a, p))
    BY <1>3, EnqueueLowIs
  <2>2. l \o <<>> = l
    BY <1>1
  <2> QED
    BY <2>1, <2>2 DEF Received, Outcome
<1>4. ASSUME ~p.header, NEW i \in 1 .. Len(a.list["lo"])
      PROVE  Received(a, l, X \cup {p.id}, Replace(a, p, i))
  <2>1. a.list["lo"] # <<>>
    OBVIOUS
  <2>2. a.serv # "none"
    BY <1>1, <2>1 DEF IdleIsEmpty, IsEmpty
  <2> QED
    BY <1>4, <2>2, ReplaceIs
<1>5. Strip(p) \in Packet /\ Strip(p).header /\ Strip(p).id = p.id
  BY StripIs
<1> QED
  BY <1>2, <1>3, <1>4, <1>5

LEMMA CompositeIs ==
  ASSUME NEW a, NEW l, NEW X, Sound(a, l, X), Longest(a), IdleIsEmpty(a),
         a.kind = "composite", NEW p \in Packet, p.id \notin X,
         NEW r \in ReceiveComposite(a, p)
  PROVE  Received(a, l, X \cup {p.id}, r)
<1>1. a.kind \in Composites /\ "lo" \in Classes
  BY DEF Composites, Classes
<1>2. CASE p.header
  BY <1>1, <1>2, CompositesIs DEF ReceiveComposite
<1>3. CASE ~p.header /\ a.size["lo"] + Size(p) <= BufferSize
  BY <1>1, <1>3, CompositesIs DEF ReceiveComposite
<1>4. CASE ~p.header /\ ~(a.size["lo"] + Size(p) <= BufferSize)
  <2>1. Len(a.list["lo"]) \in 1 .. Len(a.list["lo"])
    BY <1>1, <1>4, FullIs
  <2>2. r = ReceiveHeader(a, Strip(p)) \/ r = Replace(a, p, Len(a.list["lo"]))
    BY <1>4 DEF ReceiveComposite
  <2> QED
    BY <1>1, <1>4, <2>1, <2>2, CompositesIs
<1> QED
  BY <1>2, <1>3, <1>4

\* The newest packet of a path longer than n.
LEMMA NewestAboveExists ==
  ASSUME NEW s \in Seq(Packet), NEW n \in Int, NEW k \in 1 .. Len(s), s[k].len > n
  PROVE  \E i \in 1 .. Len(s) : s[i].len > n /\ \A j \in i + 1 .. Len(s) : s[j].len <= n
<1> DEFINE z == Len(s)
           T == {m \in Nat : m < z /\ s[z - m].len > n}
<1>1. z \in Nat /\ \A i \in 1 .. z : s[i].len \in Int
  <2>1. \A i \in 1 .. z : s[i] \in Packet
    OBVIOUS
  <2> QED
    BY <2>1 DEF Packet
<1>2. z - k \in T
  BY <1>1
<1>3. PICK m \in T : \A i \in T : m <= i
  <2>1. T \in SUBSET Nat /\ T # {}
    BY <1>2
  <2> HIDE DEF T
  <2> QED
    BY <2>1, LeastNumber
<1>4. m \in Nat /\ m < z /\ s[z - m].len > n
  BY <1>3
<1>5. ASSUME NEW j \in (z - m) + 1 .. z PROVE s[j].len <= n
  <2>1. z - j \in Nat /\ z - j < z /\ z - j < m /\ z - (z - j) = j /\ j \in 1 .. z
    BY <1>1, <1>4
  <2>2. z - j \notin T
    BY <1>3, <1>4, <2>1
  <2>3. ~(s[j].len > n)
    BY <2>1, <2>2
  <2> QED
    BY <1>1, <2>1, <2>3
<1>6. z - m \in 1 .. z
  BY <1>1, <1>4
<1> QED
  BY <1>4, <1>5, <1>6

LEMMA LengthIs ==
  ASSUME NEW a, NEW l, NEW X, Sound(a, l, X), Longest(a), IdleIsEmpty(a),
         a.kind = "length", NEW p \in Packet, p.id \notin X,
         NEW r \in ReceiveLength(a, p)
  PROVE  Received(a, l, X \cup {p.id}, r)
<1> DEFINE s == a.list["lo"]
           n == IF p.len < a.longest THEN p.len ELSE p.len - 1
           Above(i) == s[i].len > n /\ \A j \in i + 1 .. Len(s) : s[j].len <= n
           k == CHOOSE i \in 1 .. Len(s) : Above(i)
<1>1. a.kind \in Composites /\ "lo" \in Classes
  BY DEF Composites, Classes
<1>2. CASE p.header
  BY <1>1, <1>2, CompositesIs DEF ReceiveLength
<1>3. CASE ~p.header /\ a.size["lo"] + Size(p) <= BufferSize
  BY <1>1, <1>3, CompositesIs DEF ReceiveLength
<1>4. CASE ~p.header /\ ~(a.size["lo"] + Size(p) <= BufferSize)
  <2>1. s \in Seq(Packet) /\ s # <<>> /\ Len(s) \in 1 .. Len(s)
    BY <1>1, <1>4, FullIs
  <2>2. p.len \in 1 .. MaxLen /\ n \in Int
    BY PortAssumption DEF Packet
  <2>3. r = ReceiveHeader(a, Strip(p)) \/
        (r = Replace(a, p, k) /\ (p.len < a.longest \/ p.len = s[Len(s)].len))
    BY <1>4 DEF ReceiveLength, Newest
  <2>4. CASE r = ReceiveHeader(a, Strip(p))
    BY <1>1, <2>4, CompositesIs
  <2>5. CASE r = Replace(a, p, k) /\ (p.len < a.longest \/ p.len = s[Len(s)].len)
    <3>1. \E i \in 1 .. Len(s) : s[i].len > n
      <4>1. CASE p.len < a.longest
        <5>1. a.longest = MaxQueued(s)
          BY DEF Longest
        <5>2. PICK i \in 1 .. Len(s) : s[i].len = a.longest
          BY <2>1, <5>1, MaxIs DEF Maximal
        <5>3. s[i].len > n
          BY <4>1, <5>2
        <5> HIDE DEF n, s
        <5> QED
          BY <5>3
      <4>2. CASE ~(p.len < a.longest)
        <5>1. s[Len(s)].len > n
          BY <2>2, <2>5, <4>2
        <5> HIDE DEF n, s
        <5> QED
          BY <2>1, <5>1
      <4> QED
        BY <4>1, <4>2
    <3>2. \E i \in 1 .. Len(s) : Above(i)
      <4> HIDE DEF n, s
      <4> QED
        BY <2>1, <2>2, <3>1, NewestAboveExists
    <3>3. k \in 1 .. Len(s)
      <4> HIDE DEF Above
      <4> QED
        BY <3>2
    <3> HIDE DEF k
    <3> QED
      BY <1>1, <1>4, <2>5, <3>3, CompositesIs
  <2> HIDE DEF k
  <2> QED
    BY <2>3, <2>4, <2>5
<1> QED
  BY <1>2, <1>3, <1>4

LEMMA CtrlIs ==
  ASSUME NEW a, NEW l, NEW X, Sound(a, l, X),
         a.kind = "ctrl", NEW p \in Packet, p.id \notin X,
         NEW r \in ReceiveCtrl(a, p)
  PROVE  Received(a, l, X \cup {p.id}, r)
<1> DEFINE c == IF p.header THEN "hi" ELSE "lo"
           n == Len(a.list[c])
           x == Newest(a, c)
           t == Taken(a, c, n)
           b == Push(t, c, p)
<1>1. a.kind \notin Composites /\ a.kind # "priority" /\ Longest(a) /\ c \in Classes
  BY DEF Composites, Longest, Classes
<1>2. "dropped" \in Hows /\ (a.serv = "none") \in BOOLEAN
  BY DEF Hows
<1>3. CASE a.size[c] + Size(p) <= BufferSize
  <2>1. r = Outcome(Started(Push(a, c, p), a.serv = "none"), <<>>)
    BY <1>3 DEF ReceiveCtrl
  <2> HIDE DEF b, t, x, n
  <2>2. a.kind \in Trims => c = IF p.header THEN "hi" ELSE "lo"
    OBVIOUS
  <2> HIDE DEF c
  <2> QED
    BY <1>1, <1>2, <1>3, <2>1, <2>2, QueuedIs
<1>4. CASE ~(a.size[c] + Size(p) <= BufferSize)
  <2>1. a.list[c] \in Seq(Packet) /\ a.list[c] # <<>> /\ n \in 1 .. n
    BY <1>1, <1>4, FullIs
  <2>2. x = a.list[c][n] /\ x \in Packet
    BY <2>1 DEF Newest
  <2>3. \/ \E e \in BOOLEAN : r = Outcome([a EXCEPT !.exited = e], <<Goes(p, "dropped")>>)
        \/ \E e \in BOOLEAN : r = Outcome([b EXCEPT !.exited = e], <<Goes(x, "dropped")>>)
    BY <1>4, <2>2 DEF ReceiveCtrl, Taken, Changed
  <2>4. CASE \E e \in BOOLEAN : r = Outcome([a EXCEPT !.exited = e], <<Goes(p, "dropped")>>)
    BY <1>1, <1>2, <2>4, LeavesIs
  <2>5. CASE \E e \in BOOLEAN : r = Outcome([b EXCEPT !.exited = e], <<Goes(x, "dropped")>>)
    <3>1. WithoutOne(a, l, X, c, n)
      BY <1>1, <2>1, SoundTaken
    <3>2. /\ Sound(t, l, X \ {x.id}) /\ Alike(a, t) /\ x.id \in X
          /\ t.size[c] = a.size[c] - Size(x)
      BY <2>2, <3>1 DEF WithoutOne
    <3>3. Size(x) = Size(p) /\ Size(p) \in Int
      <4>1. x.header = p.header
        BY <2>1, <2>2 DEF Sound, Sorted, Trims, Packet
      <4> QED
        BY <4>1, SizeIs DEF Size
    <3>4. a.size[c] \in Int /\ a.size[c] <= BufferSize
      BY <1>1 DEF Sound, PortQueues
    <3>5. t.kind = a.kind /\ t.state = a.state /\ t \in PortQueues
      BY <3>2 DEF Alike, Sound
    <3>6. c = IF p.header THEN "hi" ELSE "lo"
      OBVIOUS
    <3> HIDE DEF t, x, n, c
    <3>7. t.size[c] + Size(p) <= BufferSize
      BY <3>2, <3>3, <3>4
    <3>8. Sound(b, l, (X \ {x.id}) \cup {p.id})
      <4> DEFINE Y == X \ {x.id}
      <4>1. p.id \notin Y /\ Sound(t, l, Y)
        BY <3>2
      <4> HIDE DEF Y
      <4>2. Sound(Push(t, c, p), l, Y \cup {p.id})
        BY <1>1, <3>6, <3>7, <4>1, SoundPush
      <4> QED
        BY <4>2 DEF Y
    <3>9. b.kind = a.kind /\ b.state = a.state
      <4>1. Alike(t, b)
        BY <1>1, <3>5, PushIs
      <4> QED
        BY <3>5, <4>1 DEF Alike
    <3> HIDE DEF b
    <3>10. Longest(b) /\ x.id # p.id /\ x.id \notin (X \ {x.id}) \cup {p.id}
      BY <3>2, <3>9 DEF Longest
    <3>11. Received(b, l, ((X \ {x.id}) \cup {p.id}) \cup {x.id}, r)
      BY <1>2, <2>2, <2>5, <3>8, <3>10, LeavesIs
    <3>12. ((X \ {x.id}) \cup {p.id}) \cup {x.id} = X \cup {p.id}
      BY <3>2
    <3>13. Received(b, l, X \cup {p.id}, r)
      BY <3>11, <3>12
    <3> QED
      BY <1>1, <3>9, <3>13 DEF Received, CarriesOn
  <2> QED
    BY <2>3, <2>4, <2>5
<1> QED
  BY <1>3, <1>4

LEMMA ReceiveIs ==
  ASSUME NEW a, NEW l, NEW X, Sound(a, l, X), Longest(a), IdleIsEmpty(a),
         NEW p \in Packet, p.id \notin X, NEW r \in Receive(a, p)
  PROVE  Received(a, l, X \cup {p.id}, r)
<1>1. a.kind \in {"queue", "random", "ecn", "priority", "cut", "composite", "length", "ctrl"}
  BY PortAssumption DEF Sound, PortQueues
<1>2. CASE a.kind \in {"queue", "random", "ecn"}
  BY <1>2, FifoIs DEF Receive
<1>3. CASE a.kind = "priority"
  BY <1>3, PriorityIs DEF Receive
<1>4. CASE a.kind = "cut"
  BY <1>4, CutIs DEF Receive
<1>5. CASE a.kind = "composite"
  BY <1>5, CompositeIs DEF Receive
<1>6. CASE a.kind = "length"
  BY <1>6, LengthIs DEF Receive
<1>7. CASE a.kind = "ctrl"
  BY <1>7, CtrlIs DEF Receive
<1> QED
  BY <1>1, <1>2, <1>3, <1>4, <1>5, <1>6, <1>7
-----------------------------------------------------------------------------
(* The steps.                                                              *)

LEMMA PortInitOK == PortInit => PortInv
<1> SUFFICES ASSUME PortInit PROVE PortInv
  OBVIOUS
<1>1. PICK kind \in Kinds :
        port = [kind |-> kind, list |-> [c \in Classes |-> <<>>],
                size |-> [c \in Classes |-> 0], serv |-> "none", crt |-> 0, events |-> 0,
                longest |-> 0, state |-> "ready", pauses |-> MaxPauses, exited |-> FALSE]
  BY DEF PortInit
<1>2. left = <<>> /\ arrived = 0 /\ high = 0
  BY DEF PortInit
<1>3. {Packets, BufferSize, RatioHigh, MaxLen, MaxPauses} \subseteq Nat
  BY PortAssumption
<1>4. port \in PortQueues
  <2>1. [c \in Classes |-> <<>>] \in [Classes -> Seq(Packet)]
    OBVIOUS
  <2> QED
    BY <1>1, <1>3, <2>1 DEF PortQueues
<1>5. \A c \in Classes : port.list[c] = <<>> /\ port.size[c] = 0
  BY <1>1
<1>6. left \in Seq(Departure) /\ Len(<<>>) = 0
  BY <1>2
<1>7. SumSizes(<<>>) = 0
  <2>1. <<>> \in Seq(Packet)
    OBVIOUS
  <2>2. \A f \in [0 .. Len(<<>>) -> Nat] : f[0] = 0 => f[Len(<<>>)] = 0
    BY <1>6
  <2> QED
    BY <2>1, <2>2, SumIs
<1>8. Kept(port.list, left, 1 .. arrived)
  <2>1. Ids(<<>>) = {} /\ Once(<<>>) /\ 1 .. 0 = {}
    BY <1>6 DEF Ids, Once
  <2> QED
    BY <1>2, <1>5, <2>1 DEF Kept
<1>9. Sorted(port)
  BY <1>5, <1>6 DEF Sorted, Classes
<1>10. Sound(port, left, 1 .. arrived)
  BY <1>3, <1>4, <1>5, <1>6, <1>7, <1>8, <1>9 DEF Sound
<1>11. Longest(port)
  <2>1. MaxQueued(<<>>) = 0
    BY DEF MaxQueued
  <2> QED
    BY <1>1, <1>5, <2>1 DEF Longest, Classes
<1>12. Ratio(port, high)
  BY <1>1, <1>2, <1>3, <1>5 DEF Ratio, IsEmpty
<1> QED
  BY <1>2, <1>3, <1>10, <1>11, <1>12 DEF PortInv

LEMMA RatioCarriesOn ==
  ASSUME NEW a, NEW b, NEW h, Ratio(a, h), CarriesOn(a, b)
  PROVE  Ratio(b, h)
  BY DEF Ratio, CarriesOn, IsEmpty, Composites

LEMMA ArriveOK == PortInv /\ Arrive => PortInv'
<1> SUFFICES ASSUME PortInv, Arrive PROVE PortInv'
  OBVIOUS
<1>1. arrived \in 0 .. Packets /\ high \in Nat /\ Packets \in Nat
  BY PortAssumption DEF PortInv
<1>2. arrived' = arrived + 1 /\ arrived < Packets /\ high' = high
  BY DEF Arrive
<1>3. PICK p \in Packet :
        /\ p.id = arrived + 1
        /\ \E r \in Receive(port, p) : port' = r.a /\ left' = left \o r.out
  <2>1. PICK header \in BOOLEAN, returns \in BOOLEAN, len \in 1 .. MaxLen :
          \E r \in Receive(port, [id |-> arrived + 1, header |-> header, len |-> len,
                                  returns |-> returns]) :
            port' = r.a /\ left' = left \o r.out
    BY DEF Arrive
  <2> DEFINE p == [id |-> arrived + 1, header |-> header, len |-> len, returns |-> returns]
  <2>2. p \in Packet /\ p.id = arrived + 1
    BY <1>1 DEF Packet
  <2> HIDE DEF p
  <2> QED
    BY <2>1, <2>2 DEF p
<1>4. p.id \notin 1 .. arrived /\ 1 .. arrived \cup {p.id} = 1 .. arrived'
  BY <1>1, <1>2, <1>3
<1>5. Sound(port, left, 1 .. arrived) /\ Longest(port) /\ Ratio(port, high)
  BY DEF PortInv
<1>6. IdleIsEmpty(port)
  BY <1>5 DEF IdleIsEmpty, Ratio
<1>7. PICK r \in Receive(port, p) : port' = r.a /\ left' = left \o r.out
  BY <1>3
<1>8. Received(port, left, 1 .. arrived \cup {p.id}, r)
  BY <1>4, <1>5, <1>6, ReceiveIs
<1>9. Sound(port', left', 1 .. arrived') /\ Longest(port') /\ Ratio(port', high')
  BY <1>2, <1>4, <1>5, <1>7, <1>8, RatioCarriesOn DEF Received
<1> QED
  BY <1>1, <1>2, <1>9 DEF PortInv

LEMMA PausedIs ==
  ASSUME NEW a \in PortQueues, NEW n \in Int, NEW s \in {"ready", "pause_received", "paused"}
  PROVE  LET b == [a EXCEPT !.pauses = n, !.state = s]
         IN  b \in PortQueues /\ b.kind = a.kind /\ b.list = a.list /\ b.size = a.size
  BY DEF PortQueues

LEMMA PauseOK == PortInv /\ Pause => PortInv'
<1> SUFFICES ASSUME PortInv, Pause PROVE PortInv'
  OBVIOUS
<1> DEFINE s == IF IsEmpty(port) THEN "paused" ELSE "pause_received"
           n == port.pauses - 1
<1>1. /\ port' = [port EXCEPT !.pauses = n, !.state = s]
      /\ port.kind \in {"ecn", "priority"}
      /\ left' = left /\ arrived' = arrived /\ high' = high
  BY DEF Pause
<1>2. port \in PortQueues
  BY DEF PortInv, Sound
<1>3. s \in {"ready", "pause_received", "paused"} /\ n \in Int
  BY <1>2 DEF PortQueues
<1> HIDE DEF s, n
<1>4. /\ port' \in PortQueues /\ port'.kind = port.kind /\ port'.list = port.list
      /\ port'.size = port.size
  BY <1>1, <1>2, <1>3, PausedIs
<1>5. Sound(port', left, 1 .. arrived)
  BY <1>4, SoundSame DEF PortInv
<1>6. Longest(port') /\ Ratio(port', high)
  BY <1>1, <1>4 DEF Longest, Ratio, Composites
<1> QED
  BY <1>1, <1>5, <1>6 DEF PortInv

LEMMA GoOK == PortInv /\ Go => PortInv'
<1> SUFFICES ASSUME PortInv, Go PROVE PortInv'
  OBVIOUS
<1> DEFINE a == Resumed(port)
<1>1. /\ port' = IF IsEmpty(a) THEN a ELSE BeginService(a)
      /\ port.kind \in {"ecn", "priority"}
      /\ left' = left /\ arrived' = arrived /\ high' = high
  BY DEF Go, MayGo
<1>2. port \in PortQueues
  BY DEF PortInv, Sound
<1>3. a \in PortQueues /\ a.kind = port.kind /\ a.list = port.list /\ a.size = port.size
  <2> DEFINE n == IF port.state = "ready" THEN port.pauses - 1 ELSE port.pauses
  <2>1. a = [port EXCEPT !.pauses = n, !.state = "ready"]
    BY DEF Resumed
  <2>2. n \in Int
    BY <1>2 DEF PortQueues
  <2>3. "ready" \in {"ready", "pause_received", "paused"}
    OBVIOUS
  <2> HIDE DEF n, a
  <2> QED
    BY <1>2, <2>1, <2>2, <2>3, PausedIs
<1> HIDE DEF a
<1>4. /\ port' \in PortQueues /\ port'.kind = port.kind /\ port'.list = port.list
      /\ port'.size = port.size
  BY <1>1, <1>3, BeginServiceIs DEF SameLists
<1>5. Sound(port', left, 1 .. arrived)
  BY <1>4, SoundSame DEF PortInv
<1>6. Longest(port') /\ Ratio(port', high)
  BY <1>1, <1>4 DEF Longest, Ratio, Composites
<1> QED
  BY <1>1, <1>5, <1>6 DEF PortInv
\* The oldest packet of a class leaves the queue.
Dequeued(a, l, X, c, d) ==
  /\ Sound(d, l, X \ {Head(a.list[c]).id}) /\ Longest(d)
  /\ Head(a.list[c]) \in Packet /\ Head(a.list[c]).id \in X
  /\ d.kind = a.kind /\ d.state = a.state /\ d.crt = a.crt
  /\ \A e \in Classes : e # c => d.list[e] = a.list[e]

LEMMA DequeueIs ==
  ASSUME NEW a, NEW l, NEW X, Sound(a, l, X), Longest(a),
         NEW c \in Classes, a.list[c] # <<>>
  PROVE  Dequeued(a, l, X, c, Dequeue(a, c))
<1> DEFINE p == Head(a.list[c])
           t == Taken(a, c, 1)
           d == Recount(t, p)
<1>1. a \in PortQueues /\ "lo" \in Classes
  BY DEF Sound, Classes
<1>2. a.list \in [Classes -> Seq(Packet)]
  BY <1>1 DEF PortQueues
<1>3. /\ Tail(a.list[c]) = Without(a.list[c], 1) /\ 1 \in 1 .. Len(a.list[c])
      /\ p = a.list[c][1]
  BY <1>2, TailIs
<1>4. Dequeue(a, c) = d
  BY <1>1, <1>3 DEF Dequeue, Taken, Changed, PortQueues
<1>5. /\ Sound(t, l, X \ {p.id}) /\ Alike(a, t) /\ t.list[c] = Without(a.list[c], 1)
      /\ \A e \in Classes : e # c => t.list[e] = a.list[e]
      /\ p.id \in X /\ p \in Packet
  <2>1. WithoutOne(a, l, X, c, 1)
    BY <1>3, SoundTaken
  <2> QED
    BY <1>3, <2>1 DEF WithoutOne
<1>6. Sorted(a) /\ (c = "lo" /\ a.kind \in Trims => ~p.header)
  BY <1>3 DEF Sound, Sorted
<1> HIDE DEF t
<1>7. /\ d \in PortQueues /\ SameLists(t, d) /\ d.crt = t.crt
      /\ d.longest = IF t.kind = "length" /\ ~p.header /\ p.len = t.longest
                       THEN MaxQueued(t.list["lo"]) ELSE t.longest
  <2>1. t \in PortQueues
    BY <1>5 DEF Sound
  <2> HIDE DEF p
  <2> QED
    BY <2>1, RecountIs
<1> HIDE DEF d
<1>8. Sound(d, l, X \ {p.id})
  BY <1>5, <1>7, SoundSame DEF SameLists
<1>9. Longest(d)
  <2> SUFFICES ASSUME a.kind = "length" PROVE d.longest = MaxQueued(d.list["lo"])
    BY <1>5, <1>7 DEF Longest, SameLists, Alike
  <2>1. t.kind = "length" /\ t.longest = MaxQueued(a.list["lo"]) /\ d.list["lo"] = t.list["lo"]
    BY <1>5, <1>7 DEF Alike, Longest, SameLists
  <2>2. CASE ~p.header /\ p.len = t.longest
    BY <1>7, <2>1, <2>2
  <2>3. CASE c # "lo" /\ ~(~p.header /\ p.len = t.longest)
    BY <1>1, <1>5, <1>7, <2>1, <2>3
  <2>4. CASE c = "lo" /\ p.len # t.longest
    <3>1. MaxQueued(Without(a.list["lo"], 1)) = MaxQueued(a.list["lo"])
      BY <1>1, <1>2, <1>3, <2>1, <2>4, MaxWithout
    <3> QED
      BY <1>5, <1>7, <2>1, <2>4, <3>1
  <2>5. c = "lo" => ~p.header
    BY <1>6 DEF Trims, Composites
  <2> QED
    BY <2>2, <2>3, <2>4, <2>5
<1>10. /\ d.kind = a.kind /\ d.state = a.state /\ d.crt = a.crt
       /\ \A e \in Classes : e # c => d.list[e] = a.list[e]
  BY <1>5, <1>7 DEF SameLists, Alike
<1>11. Dequeued(a, l, X, c, d)
  BY <1>5, <1>8, <1>9, <1>10 DEF Dequeued
<1> QED
  BY <1>4, <1>11

Ended(a, n, v, s) == [a EXCEPT !.events = n, !.serv = v, !.state = s]

LEMMA EndedIs ==
  ASSUME NEW a \in PortQueues, NEW n \in Int, NEW v \in Classes \cup {"none"},
         NEW s \in {"ready", "pause_received", "paused"}
  PROVE  LET b == Ended(a, n, v, s)
         IN  /\ b \in PortQueues /\ b.kind = a.kind /\ b.list = a.list /\ b.size = a.size
             /\ b.longest = a.longest /\ b.crt = a.crt /\ b.serv = v /\ b.state = s
  BY DEF PortQueues, Ended

\* An event with nothing to serve ends the program and leaves the queue alone.
LEMMA NothingServedOK ==
  ASSUME PortInv, CompletePortService, NothingToServe(port)
  PROVE  PortInv'
<1>1. /\ Sound(port, left, 1 .. arrived) /\ Longest(port) /\ Ratio(port, high)
      /\ port \in PortQueues
  BY DEF PortInv, Sound
<1>2. port' = [port EXCEPT !.exited = TRUE] /\ left' = left /\ high' = high /\ arrived' = arrived
  BY DEF CompletePortService
<1>3. /\ port' \in PortQueues /\ port'.kind = port.kind /\ port'.list = port.list
      /\ port'.size = port.size /\ port'.longest = port.longest /\ port'.state = port.state
      /\ port'.serv = port.serv /\ port'.crt = port.crt
  BY <1>1, <1>2 DEF PortQueues
<1>4. Sound(port', left, 1 .. arrived)
  BY <1>1, <1>3, SoundSame
<1>5. Longest(port') /\ Ratio(port', high)
  BY <1>1, <1>3 DEF Longest, Ratio, IsEmpty
<1> QED
  BY <1>2, <1>4, <1>5 DEF PortInv

LEMMA ServedOK ==
  ASSUME PortInv, CompletePortService, ~NothingToServe(port)
  PROVE  PortInv'
<1> DEFINE X == 1 .. arrived
           how == IF port.kind = "ecn" /\ Total(port) > Threshold THEN "marked" ELSE "sent"
<1>1. /\ Sound(port, left, X) /\ Longest(port) /\ Ratio(port, high) /\ high \in Nat
      /\ RatioHigh \in Nat
  BY PortAssumption DEF PortInv
<1>2. port \in PortQueues
  BY <1>1 DEF Sound
<1>3. PICK c \in Classes : c = Served(port) /\ port.list[c] # <<>>
  <2>1. Served(port) # "none" /\ port.list[Served(port)] # <<>>
    BY DEF NothingToServe
  <2>2. port.serv \in Classes \cup {"none"} /\ "lo" \in Classes
    BY <1>2 DEF PortQueues, Classes
  <2>3. Served(port) \in Classes
    BY <2>1, <2>2 DEF Served
  <2> QED
    BY <2>1, <2>3
<1>4. PICK e : e = AfterService(port)
  OBVIOUS
<1>5. PICK p : p = Head(port.list[c])
  OBVIOUS
<1>6. PICK d : d = Dequeue(port, c)
  OBVIOUS
<1>7. Dequeued(port, left, X, c, d)
  BY <1>1, <1>3, <1>6, DequeueIs
<1>8. d \in PortQueues /\ d.state \in {"ready", "pause_received", "paused"}
  BY <1>7 DEF Dequeued, Sound, PortQueues
<1>9. /\ left' = Append(left, Goes(p, how))
      /\ port' = IF ~IsEmpty(e) /\ e.state = "ready" THEN BeginService(e) ELSE e
      /\ high' = IF c = "hi" /\ port.list["lo"] # <<>> THEN high + 1 ELSE 0
      /\ arrived' = arrived
  BY <1>3, <1>4, <1>5 DEF CompletePortService
<1>10. /\ e \in PortQueues /\ e.kind = d.kind /\ e.list = d.list /\ e.size = d.size
       /\ e.longest = d.longest /\ e.crt = d.crt
       /\ d.state = "ready" => e.state = "ready"
       /\ IsEmpty(e) => e.serv = "none"
  <2> DEFINE s1 == IF d.state = "pause_received" THEN "paused" ELSE d.state
             n1 == d.events - 1
             v1 == IF IsEmpty(d) THEN "none" ELSE d.serv
  <2>1. e = Ended(d, n1, v1, s1)
    BY <1>3, <1>4, <1>6 DEF Ended, AfterService
  <2>2. n1 \in Int /\ s1 \in {"ready", "pause_received", "paused"} /\ v1 \in Classes \cup {"none"}
    BY <1>8 DEF PortQueues
  <2>3. (d.state = "ready" => s1 = "ready") /\ (IsEmpty(d) => v1 = "none")
    OBVIOUS
  <2> HIDE DEF s1, n1, v1
  <2>4. /\ e \in PortQueues /\ e.kind = d.kind /\ e.list = d.list /\ e.size = d.size
        /\ e.longest = d.longest /\ e.crt = d.crt /\ e.serv = v1 /\ e.state = s1
    BY <1>8, <2>1, <2>2, EndedIs
  <2>5. IsEmpty(e) => IsEmpty(d)
    BY <2>4 DEF IsEmpty
  <2> QED
    BY <2>3, <2>4, <2>5
<1>12. how \in Hows
  BY DEF Hows
<1> HIDE DEF how
<1>14. Sound(e, left', X)
  <2>1. /\ Sound(d, left, X \ {p.id}) /\ p \in Packet /\ p.id \in X
    BY <1>5, <1>7 DEF Dequeued
  <2>2. Sound(e, left, X \ {p.id})
    BY <1>10, <2>1, SoundSame
  <2> DEFINE Y == X \ {p.id}
  <2>3. p.id \notin Y /\ Sound(e, left, Y)
    BY <2>2
  <2> HIDE DEF Y
  <2>4. Sound(e, Append(left, Goes(p, how)), Y \cup {p.id})
    BY <1>12, <2>1, <2>3, SoundLeft
  <2>5. Y \cup {p.id} = X
    BY <2>1 DEF Y
  <2> QED
    BY <1>9, <2>4, <2>5
<1>15. Longest(e)
  BY <1>7, <1>10 DEF Dequeued, Longest
<1>16. /\ port' \in PortQueues /\ port'.kind = e.kind /\ port'.list = e.list
       /\ port'.size = e.size /\ port'.longest = e.longest /\ port'.state = e.state
  BY <1>9, <1>10, BeginServiceIs DEF SameLists
<1>17. Sound(port', left', 1 .. arrived')
  BY <1>9, <1>14, <1>16, SoundSame
<1>18. Longest(port')
  BY <1>15, <1>16 DEF Longest
<1>19. high' \in Nat
  BY <1>1, <1>9
<1>20. Ratio(port', high')
  <2> SUFFICES ASSUME port.kind \in Composites PROVE Ratio(port', high')
    BY <1>7, <1>10, <1>16 DEF Ratio, Dequeued
  <2>1. /\ port.state = "ready" /\ high <= RatioHigh + 1
        /\ port.serv = "hi" => high = 0 \/ (high <= port.crt + 1 /\ port.crt < RatioHigh)
    BY <1>1 DEF Ratio
  <2>2. e.state = "ready" /\ e.crt = port.crt /\ e.kind = port.kind
    BY <1>7, <1>10, <2>1 DEF Dequeued
  <2>3. port.crt \in 0 .. RatioHigh
    BY <1>2 DEF PortQueues
  <2>4. high' = 0 \/ (port.serv = "hi" /\ port.list["lo"] # <<>> /\ high' = high + 1)
    BY <1>3, <1>9 DEF Served, Composites
  <2>5. high' <= RatioHigh + 1
    BY <1>1, <2>1, <2>3, <2>4
  <2>6. high' # 0 => e.list["lo"] # <<>>
    <3>1. "lo" \in Classes /\ "lo" # "hi"
      BY DEF Classes
    <3> QED
      BY <1>3, <1>7, <1>10, <2>4, <3>1 DEF Dequeued, Served, Composites
  <2>7. CASE IsEmpty(e)
    <3>1. high' = 0
      BY <2>6, <2>7 DEF IsEmpty, Classes
    <3>2. port' = e
      BY <1>9, <2>7
    <3> QED
      BY <1>10, <2>2, <2>5, <2>7, <3>1, <3>2 DEF Ratio
  <2>8. CASE ~IsEmpty(e)
    <3> DEFINE both == e.list["hi"] # <<>> /\ e.list["lo"] # <<>>
               next == IF port.crt = RatioHigh THEN 0 ELSE port.crt + 1
    <3>1. port' = BeginService(e) /\ e.kind \in {"composite", "length"}
      BY <1>9, <2>2, <2>8 DEF Composites
    <3>2. /\ port'.serv \in Classes
          /\ port'.crt = IF both THEN next ELSE port.crt
          /\ port'.serv = IF both THEN (IF next < RatioHigh THEN "hi" ELSE "lo")
                          ELSE IF e.list["hi"] # <<>> THEN "hi" ELSE "lo"
      BY <1>10, <2>2, <3>1, BeginServiceIs
    <3>3. port'.serv # "none"
      BY <3>2 DEF Classes
    <3>4. ASSUME port'.serv = "hi", high' # 0
          PROVE  high' <= port'.crt + 1 /\ port'.crt < RatioHigh
      <4>1. e.list["hi"] # <<>> /\ e.list["lo"] # <<>>
        BY <2>6, <3>2, <3>4
      <4>2. port'.crt = next /\ next < RatioHigh
        BY <3>2, <3>4, <4>1
      <4>3. high' = high + 1 /\ (high = 0 \/ (high <= port.crt + 1 /\ port.crt < RatioHigh))
        BY <2>1, <2>4, <3>4
      <4>4. high' <= next + 1
        BY <1>1, <2>3, <4>3
      <4> QED
        BY <4>2, <4>4
    <3>5. port'.state = "ready"
      BY <1>16, <2>2
    <3> QED
      BY <2>5, <3>3, <3>4, <3>5 DEF Ratio
  <2> QED
    BY <2>7, <2>8
<1> QED
  BY <1>9, <1>17, <1>18, <1>19, <1>20 DEF PortInv

LEMMA CompleteServiceOK == PortInv /\ CompletePortService => PortInv'
  BY NothingServedOK, ServedOK

LEMMA PortStep == PortInv /\ [PortNext]_portVars => PortInv'
<1> SUFFICES ASSUME PortInv, [PortNext]_portVars PROVE PortInv'
  OBVIOUS
<1>1. CASE UNCHANGED portVars
  <2>1. port' = port /\ left' = left /\ arrived' = arrived /\ high' = high
    BY <1>1 DEF portVars
  <2> QED
    BY <2>1 DEF PortInv
<1> QED
  BY <1>1, ArriveOK, CompleteServiceOK, PauseOK, GoOK DEF PortNext

\* PortInv is an invariant of every queue: the packets are accounted for, the
\* sizes and the longest path are right, and the ratio counter bounds the run
\* of headers.
THEOREM PortInvariant == PortSpec => []PortInv
<1>1. PortInit => PortInv
  BY PortInitOK
<1>2. PortInv /\ [PortNext]_portVars => PortInv'
  BY PortStep
<1> QED
  BY <1>1, <1>2, PTL DEF PortSpec

LEMMA PortInvAccounts == PortInv => Accounted
<1> SUFFICES ASSUME PortInv PROVE Accounted
  OBVIOUS
<1>1. Sound(port, left, 1 .. arrived) /\ Longest(port)
  BY DEF PortInv
<1>2. Kept(port.list, left, 1 .. arrived)
  BY <1>1 DEF Sound
<1>3. \A c \in Classes : ListedIds(c) = Ids(port.list[c])
  BY DEF ListedIds, Ids
<1>4. ASSUME NEW id \in 1 .. arrived
      PROVE  Cardinality({c \in Classes : id \in ListedIds(c)})
               + Cardinality({i \in 1 .. Len(left) : left[i].id = id}) = 1
  <2> DEFINE C == {c \in Classes : id \in ListedIds(c)}
             L == {i \in 1 .. Len(left) : left[i].id = id}
  <2>1. Cardinality({}) = 0 /\ \A x : Cardinality({x}) = 1
    BY FS_EmptySet, FS_Singleton
  <2>2. CASE id \in Ids(left)
    <3>1. C = {}
      BY <1>2, <1>3, <2>2 DEF Kept
    <3>2. PICK i \in 1 .. Len(left) : left[i].id = id
      BY <2>2 DEF Ids
    <3>3. L = {i}
      BY <1>2, <3>2 DEF Kept, Once
    <3> HIDE DEF C, L
    <3>4. Cardinality(C) = 0 /\ Cardinality(L) = 1
      BY <2>1, <3>1, <3>3, Zenon
    <3> QED
      BY <3>4 DEF C, L
  <2>3. CASE id \notin Ids(left)
    <3>1. L = {}
      BY <2>3 DEF Ids
    <3>2. PICK c \in Classes : id \in ListedIds(c)
      BY <1>2, <1>3, <2>3 DEF Kept
    <3>3. C = {c}
      BY <1>2, <1>3, <3>2 DEF Kept
    <3> HIDE DEF C, L
    <3>4. Cardinality(C) = 1 /\ Cardinality(L) = 0
      BY <2>1, <3>1, <3>3, Zenon
    <3> QED
      BY <3>4 DEF C, L
  <2> QED
    BY <2>2, <2>3
<1> QED
  BY <1>1, <1>4 DEF Accounted, Sound, Longest

\* Whatever is trimmed, booted, returned or dropped, a packet that arrived is
\* queued once or has left once, and the sizes and the longest path kept by a
\* queue are those of its lists (check_queued), for any capacity, threshold,
\* ratio and number of packets.
THEOREM PortIsAccounted == PortSpec => []Accounted
  BY PortInvariant, PortInvAccounts, PTL

\* At most RatioHigh headers and one leave a composite queue in a row while a
\* full packet waits, for any ratio.
THEOREM PortServesLow == PortSpec => []LowIsServed
<1>1. PortInv => LowIsServed
  BY DEF PortInv, Ratio, LowIsServed, Composites
<1> QED
  BY <1>1, PortInvariant, PTL

\* The variables of a port queue keep their types.
THEOREM PortTypes == PortSpec => []PortTypeOK
<1>1. PortInv => PortTypeOK
  BY DEF PortInv, Sound, PortTypeOK
<1> QED
  BY <1>1, PortInvariant, PTL
-----------------------------------------------------------------------------
(* The lossless switches.                                                  *)

\* What the operations of an output queue return.
LEMMA ReceivePauseIs ==
  ASSUME NEW o \in OutQueues
  PROVE  /\ ReceivePause(o) \in OutQueues
         /\ (ReceivePause(o).sending <=> o.sending)
         /\ ReceivePause(o).state = IF o.sending THEN "pause_received" ELSE "paused"
  BY DEF OutQueues, States, ReceivePause

LEMMA ReceiveGoIs ==
  ASSUME NEW o \in OutQueues
  PROVE  ReceiveGo(o) \in OutQueues /\ ReceiveGo(o).state = "ready"
  BY DEF OutQueues, States, ReceiveGo

LEMMA EnqueueIs ==
  ASSUME NEW o \in OutQueues, NEW p \in Ports
  PROVE  /\ Enqueue(o, p) \in OutQueues
         /\ o.state # "ready" => (Enqueue(o, p).sending <=> o.sending)
         /\ Enqueue(o, p).state = o.state
<1>1. Enqueue(o, p) \in OutQueues
  <2>1. Append(o.list, p) \in Seq(Ports)
    BY DEF OutQueues
  <2>2. (o.sending \/ (o.list = <<>> /\ o.state = "ready")) \in BOOLEAN
    OBVIOUS
  <2> QED
    BY <2>1, <2>2 DEF OutQueues, States, Enqueue
<1>2. o.state # "ready" => (Enqueue(o, p).sending <=> o.sending)
  BY DEF OutQueues, States, Enqueue
<1>3. Enqueue(o, p).state = o.state
  BY DEF OutQueues, States, Enqueue
<1> QED
  BY <1>1, <1>2, <1>3

LEMMA CompleteServiceIs ==
  ASSUME NEW o \in OutQueues, o.list # <<>>
  PROVE  /\ CompleteService(o) \in OutQueues
         /\ (CompleteService(o).sending => o.state = "ready")
         /\ CompleteService(o).state = IF o.state = "pause_received" THEN "paused" ELSE o.state
<1>1. Tail(o.list) \in Seq(Ports)
  BY DEF OutQueues
<1>2. (Tail(o.list) # <<>> /\ o.state = "ready") \in BOOLEAN
  OBVIOUS
<1>3. (IF o.state = "pause_received" THEN "paused" ELSE o.state) \in States
  BY DEF OutQueues, States
<1> QED
  BY <1>1, <1>2, <1>3 DEF OutQueues, CompleteService

LEMMA InServiceIs == \A o : InService(o) \in {0, 1}
  BY DEF InService

LEMMA InitIInv == Init => IInv
<1> SUFFICES ASSUME Init PROVE IInv
  OBVIOUS
<1>1. EmptyQueue \in OutQueues
  BY DEF EmptyQueue, OutQueues, States
<1>2. TypeOK
  BY <1>1 DEF Init, TypeOK
<1>3. EndsAgree
  BY DEF Init, EndsAgree, EmptyQueue
<1>4. Room
  <2> SUFFICES ASSUME NEW i \in Ports PROVE RoomOf(i)
    BY DEF Room
  <2>1. pipe[i] = <<>> /\ sender[i] = EmptyQueue /\ recv[i] = "ready" /\ in[i] = 0
    BY DEF Init
  <2> QED
    BY <2>1, LosslessAssumption DEF RoomOf, EmptyQueue
<1> QED
  BY <1>2, <1>3, <1>4 DEF IInv

(***************************************************************************)
(* Every step preserves IInv.  Only the sender, the link and the counters  *)
(* of one port change, or an output queue, which the invariant only types. *)
(***************************************************************************)
LEMMA SupplyIInv == ASSUME IInv, NEW i \in Ports, NEW j \in Ports, Supply(i, j) PROVE IInv'
<1> DEFINE s == sender[i]
<1>1. s \in OutQueues /\ Enqueue(s, j) \in OutQueues
  BY EnqueueIs DEF IInv, TypeOK
<1>2. TypeOK'
  BY <1>1 DEF IInv, TypeOK, Supply
<1>3. Enqueue(s, j).state = s.state
  BY <1>1, EnqueueIs
<1>4. s.state # "ready" => (Enqueue(s, j).sending <=> s.sending)
  BY <1>1, EnqueueIs
<1>5. sender' = [sender EXCEPT ![i] = Enqueue(s, j)] /\ UNCHANGED <<pipe, in, recv>>
  BY DEF Supply
<1>6. \A k \in Ports : sender'[k].state = sender[k].state
  BY <1>3, <1>5 DEF IInv, TypeOK
<1>7. \A k \in Ports : sender[k].state # "ready" => (sender'[k].sending <=> sender[k].sending)
  BY <1>4, <1>5 DEF IInv, TypeOK
<1>8. EndsAgree'
  BY <1>5, <1>6 DEF IInv, EndsAgree
<1>9. Room'
  <2> SUFFICES ASSUME NEW k \in Ports PROVE RoomOf(k)'
    BY DEF Room
  <2>1. RoomOf(k)
    BY DEF IInv, Room
  <2>2. recv[k] = "paused" => sender[k].state # "ready"
    BY DEF IInv, EndsAgree
  <2>3. recv[k] = "paused" => InService(sender'[k]) = InService(sender[k])
    BY <2>2, <1>6, <1>7 DEF InService
  <2> QED
    BY <2>1, <2>2, <2>3, <1>5, <1>6, <1>7 DEF RoomOf
<1> QED
  BY <1>2, <1>8, <1>9 DEF IInv

\* A packet in service becomes one on the link: what may still arrive is the same.
LEMMA TransmitIInv == ASSUME IInv, NEW i \in Ports, Transmit(i) PROVE IInv'
<1> DEFINE s == sender[i]
<1>1. s \in OutQueues /\ s.list # <<>> /\ s.sending /\ RoomOf(i)
  BY DEF IInv, TypeOK, Transmit, Room
<1>2. CompleteService(s) \in OutQueues
  BY <1>1, CompleteServiceIs
<1>3. Head(s.list) \in Ports
  BY <1>1 DEF OutQueues
<1>4. pipe[i] \in Seq(Ports) /\ Append(pipe[i], Head(s.list)) \in Seq(Ports)
  BY <1>3 DEF IInv, TypeOK
<1>5. /\ sender' = [sender EXCEPT ![i] = CompleteService(s)]
      /\ pipe' = [pipe EXCEPT ![i] = Append(@, Head(s.list))]
      /\ Len(pipe[i]) < MaxFlight
      /\ UNCHANGED <<in, recv, out>>
  BY DEF Transmit
<1>6. TypeOK'
  BY <1>2, <1>4, <1>5 DEF IInv, TypeOK
<1>7. (CompleteService(s).state = "ready") <=> (s.state = "ready")
  BY <1>1, CompleteServiceIs
<1>8. EndsAgree'
  BY <1>5, <1>7 DEF IInv, TypeOK, EndsAgree
<1>9. RoomOf(i)'
  <2>1. sender'[i] = CompleteService(s) /\ Len(pipe'[i]) = Len(pipe[i]) + 1
        /\ in'[i] = in[i] /\ recv'[i] = recv[i] /\ in[i] \in Int /\ Len(pipe[i]) \in Nat
    BY <1>4, <1>5 DEF IInv, TypeOK
  <2>2. CompleteService(s).state = "paused" => ~CompleteService(s).sending
    BY <1>1, CompleteServiceIs
  <2>3. recv[i] = "paused" => s.state # "ready"
    BY DEF IInv, EndsAgree
  <2>4. recv[i] = "paused" => InService(s) = 1
    BY <1>1 DEF RoomOf, InService
  <2>5. recv[i] = "paused" => InService(CompleteService(s)) = 0
    BY <1>1, <2>3, CompleteServiceIs DEF InService
  <2> QED
    BY <1>1, <1>5, <2>1, <2>2, <2>4, <2>5, LosslessAssumption DEF RoomOf
<1>10. Room'
  <2> SUFFICES ASSUME NEW k \in Ports, k # i PROVE RoomOf(k)'
    BY <1>9 DEF Room
  <2>1. sender'[k] = sender[k] /\ pipe'[k] = pipe[k] /\ in'[k] = in[k] /\ recv'[k] = recv[k]
    BY <1>5 DEF IInv, TypeOK
  <2> QED
    BY <2>1 DEF IInv, Room, RoomOf
<1> QED
  BY <1>6, <1>8, <1>10 DEF IInv

\* The packet that exceeds the threshold pauses the sender: the link and the
\* packet in service fit above it.
LEMMA DeliverIInv == ASSUME IInv, NEW i \in Ports, Deliver(i) PROVE IInv'
<1> DEFINE s == sender[i]
           above == in[i] + 1 > High /\ recv[i] # "paused"
<1>1. /\ s \in OutQueues /\ RoomOf(i) /\ in[i] \in Int
      /\ pipe[i] \in Seq(Ports) /\ pipe[i] # <<>>
  BY DEF IInv, TypeOK, Deliver, Room
<1>2. /\ Head(pipe[i]) \in Ports /\ Tail(pipe[i]) \in Seq(Ports)
      /\ Len(Tail(pipe[i])) = Len(pipe[i]) - 1 /\ Len(pipe[i]) \in Nat
  BY <1>1
<1>3. Enqueue(out[Head(pipe[i])], i) \in OutQueues
  BY <1>2, EnqueueIs DEF IInv, TypeOK
<1>4. /\ ReceivePause(s) \in OutQueues /\ ReceivePause(s).state # "ready"
      /\ ReceivePause(s).state = "paused" => ~ReceivePause(s).sending
  BY <1>1, ReceivePauseIs
<1>5. /\ pipe' = [pipe EXCEPT ![i] = Tail(@)] /\ in' = [in EXCEPT ![i] = @ + 1]
      /\ out' = [out EXCEPT ![Head(pipe[i])] = Enqueue(@, i)]
      /\ recv' = IF above THEN [recv EXCEPT ![i] = "paused"] ELSE recv
      /\ sender' = IF above THEN [sender EXCEPT ![i] = ReceivePause(s)] ELSE sender
  BY DEF Deliver
<1>6. TypeOK'
  BY <1>1, <1>2, <1>3, <1>4, <1>5 DEF IInv, TypeOK
<1>7. EndsAgree'
  BY <1>4, <1>5 DEF IInv, TypeOK, EndsAgree
<1>8. RoomOf(i)'
  <2>1. in'[i] = in[i] + 1 /\ Len(pipe'[i]) = Len(pipe[i]) - 1
    BY <1>1, <1>2, <1>5 DEF IInv, TypeOK
  <2>2. CASE above
    <3>1. recv[i] = "ready" /\ recv'[i] = "paused" /\ sender'[i] = ReceivePause(s)
      BY <1>5, <2>2 DEF IInv, TypeOK
    <3>2. InService(ReceivePause(s)) \in {0, 1}
      BY InServiceIs
    <3> QED
      BY <1>1, <1>2, <1>4, <2>1, <3>1, <3>2, LosslessAssumption DEF RoomOf
  <2>3. CASE ~above
    <3>1. recv'[i] = recv[i] /\ sender'[i] = s
      BY <1>5, <2>3
    <3>2. in[i] + 1 <= High \/ recv[i] = "paused"
      BY <1>1, <2>3, LosslessAssumption
    <3>3. InService(s) \in {0, 1}
      BY InServiceIs
    <3>4. RoomOf(i) /\ in[i] \in Int /\ Len(pipe[i]) \in Nat /\ s = sender[i]
      BY <1>1, <1>2 DEF IInv, Room
    <3>5. recv'[i] = "paused" => in'[i] + Len(pipe'[i]) + InService(sender'[i]) <= MaxSize
      BY <2>1, <3>1, <3>3, <3>4 DEF RoomOf
    <3>6. Len(pipe'[i]) <= MaxFlight
      BY <2>1, <3>4, LosslessAssumption DEF RoomOf
    <3>7. recv'[i] = "ready" => in'[i] <= High
      BY <2>1, <3>1, <3>2
    <3>8. sender'[i].state = "paused" => ~sender'[i].sending
      BY <3>1, <3>4 DEF RoomOf
    <3> QED
      BY <3>5, <3>6, <3>7, <3>8 DEF RoomOf
  <2> QED
    BY <2>2, <2>3
<1>9. Room'
  <2> SUFFICES ASSUME NEW k \in Ports, k # i PROVE RoomOf(k)'
    BY <1>8 DEF Room
  <2>1. sender'[k] = sender[k] /\ pipe'[k] = pipe[k] /\ in'[k] = in[k] /\ recv'[k] = recv[k]
    BY <1>5 DEF IInv, TypeOK
  <2> QED
    BY <2>1 DEF IInv, Room, RoomOf
<1> QED
  BY <1>6, <1>7, <1>9 DEF IInv

\* A packet that leaves lowers the count; below the low threshold it ends the
\* pause on both sides of the link.
LEMMA LeaveIInv == ASSUME IInv, NEW j \in Ports, Leave(j) PROVE IInv'
<1>1. out[j] \in OutQueues /\ out[j].list # <<>>
  BY DEF IInv, TypeOK, Leave
<1>2. CompleteService(out[j]) \in OutQueues
  BY <1>1, CompleteServiceIs
<1>3. PICK i \in Ports : i = Head(out[j].list)
  BY <1>1 DEF OutQueues
<1> DEFINE s == sender[i]
           below == in[i] - 1 < Low /\ recv[i] = "paused"
<1>4. s \in OutQueues /\ RoomOf(i) /\ in[i] \in Int
  BY DEF IInv, TypeOK, Room
<1>5. ReceiveGo(s) \in OutQueues /\ ReceiveGo(s).state = "ready"
  BY <1>4, ReceiveGoIs
<1>6. /\ in' = [in EXCEPT ![i] = @ - 1] /\ pipe' = pipe
      /\ out' = [out EXCEPT ![j] = CompleteService(@)]
      /\ recv' = IF below THEN [recv EXCEPT ![i] = "ready"] ELSE recv
      /\ sender' = IF below THEN [sender EXCEPT ![i] = ReceiveGo(s)] ELSE sender
  BY <1>3 DEF Leave, CompletedService
<1>7. TypeOK'
  BY <1>2, <1>4, <1>5, <1>6 DEF IInv, TypeOK
<1>8. EndsAgree'
  BY <1>2, <1>5, <1>6 DEF IInv, TypeOK, EndsAgree
<1>9. RoomOf(i)'
  <2>1. in'[i] = in[i] - 1 /\ pipe'[i] = pipe[i] /\ Len(pipe[i]) \in Nat
    BY <1>2, <1>6 DEF IInv, TypeOK
  <2>2. CASE below
    <3>1. recv'[i] = "ready" /\ sender'[i] = ReceiveGo(s)
      BY <1>2, <1>6, <2>2 DEF IInv, TypeOK
    <3> QED
      BY <1>4, <1>5, <2>1, <2>2, <3>1, LosslessAssumption DEF RoomOf
  <2>3. CASE ~below
    <3>1. recv'[i] = recv[i] /\ sender'[i] = s
      BY <1>6, <2>3
    <3>2. InService(s) \in {0, 1}
      BY InServiceIs
    <3> QED
      BY <1>4, <2>1, <3>1, <3>2, LosslessAssumption DEF RoomOf
  <2> QED
    BY <2>2, <2>3
<1>10. Room'
  <2> SUFFICES ASSUME NEW k \in Ports, k # i PROVE RoomOf(k)'
    BY <1>9 DEF Room
  <2>1. sender'[k] = sender[k] /\ pipe'[k] = pipe[k] /\ in'[k] = in[k] /\ recv'[k] = recv[k]
    BY <1>2, <1>6 DEF IInv, TypeOK
  <2> QED
    BY <2>1 DEF IInv, Room, RoomOf
<1> QED
  BY <1>7, <1>8, <1>10 DEF IInv

\* The pauses of the next hop only hold output queues back.
LEMMA NextHopIInv ==
  ASSUME IInv, NEW j \in Ports, NextHopPause(j) \/ NextHopGo(j)
  PROVE  IInv'
<1>1. out[j] \in OutQueues
  BY DEF IInv, TypeOK
<1>2. ReceivePause(out[j]) \in OutQueues /\ ReceiveGo(out[j]) \in OutQueues
  BY <1>1, ReceivePauseIs, ReceiveGoIs
<1>3. UNCHANGED <<sender, pipe, in, recv>>
  BY DEF NextHopPause, NextHopGo
<1>4. out' = [out EXCEPT ![j] = ReceivePause(@)] \/ out' = [out EXCEPT ![j] = ReceiveGo(@)]
  BY DEF NextHopPause, NextHopGo
<1>5. TypeOK'
  BY <1>2, <1>3, <1>4 DEF IInv, TypeOK
<1>6. EndsAgree' /\ Room'
  BY <1>3 DEF IInv, EndsAgree, Room, RoomOf
<1> QED
  BY <1>5, <1>6 DEF IInv

LEMMA NextIInv == IInv /\ [Next]_vars => IInv'
<1> SUFFICES ASSUME IInv, [Next]_vars PROVE IInv'
  OBVIOUS
<1>1. ASSUME NEW i \in Ports, NEW j \in Ports, Supply(i, j) PROVE IInv'
  BY <1>1, SupplyIInv
<1>2. ASSUME NEW i \in Ports, Transmit(i) PROVE IInv'
  BY <1>2, TransmitIInv
<1>3. ASSUME NEW i \in Ports, Deliver(i) PROVE IInv'
  BY <1>3, DeliverIInv
<1>4. ASSUME NEW i \in Ports, Leave(i) PROVE IInv'
  BY <1>4, LeaveIInv
<1>5. ASSUME NEW i \in Ports, NextHopPause(i) \/ NextHopGo(i) PROVE IInv'
  BY <1>5, NextHopIInv
<1>6. CASE UNCHANGED vars
  BY <1>6 DEF vars, IInv, TypeOK, EndsAgree, Room, RoomOf
<1> QED
  BY <1>1, <1>2, <1>3, <1>4, <1>5, <1>6 DEF Next

LEMMA AlwaysIInv == Spec => []IInv
  BY InitIInv, NextIInv, PTL DEF Spec

-----------------------------------------------------------------------------
(***************************************************************************)
(* No input queue of a lossless switch ever holds more than its buffer     *)
(* (LosslessInputQueue::receivePacket's "LOSSLESS not working!"): with any *)
(* number of ports and any pauses of the next hops, the PAUSE that goes    *)
(* out above the high threshold stops the sender in time.                  *)
(***************************************************************************)
THEOREM LosslessNeverOverflows == Spec => []NeverOverflows
<1>1. IInv => NeverOverflows
  <2> SUFFICES ASSUME IInv, NEW i \in Ports PROVE in[i] <= MaxSize
    BY DEF NeverOverflows
  <2>1. RoomOf(i) /\ in[i] \in Int /\ recv[i] \in {"ready", "paused"} /\ Len(pipe[i]) \in Nat
    BY DEF IInv, TypeOK, Room
  <2>2. InService(sender[i]) \in {0, 1}
    BY InServiceIs
  <2> QED
    BY <2>1, <2>2, LosslessAssumption DEF RoomOf
<1> QED
  BY <1>1, AlwaysIInv, PTL

(***************************************************************************)
(* An input queue and the output queue at the other end of its link agree  *)
(* on whether the link is paused: no PAUSE or GO of completedService and   *)
(* receivePacket is lost on a state that was already left.                 *)
(***************************************************************************)
THEOREM LosslessEndsAgree == Spec => []EndsAgree
  BY AlwaysIInv, PTL DEF IInv

-----------------------------------------------------------------------------
(* The output queues of the other lossless switch, LosslessSwitch.         *)

SwitchInv == TypeOK /\ HeldByAQueue

\* The steps of LosslessSwitch that Lossless has too.
LEMMA SharedSwitch ==
  ASSUME SwitchInv,
         \/ \E i, j \in Ports : Supply(i, j)
         \/ \E i \in Ports : Transmit(i) \/ NextHopPause(i) \/ NextHopGo(i)
  PROVE  SwitchInv'
<1>1. ASSUME NEW i \in Ports, NEW o \in OutQueues,
             sender' = [sender EXCEPT ![i] = o], o.state # "ready" => sender[i].state # "ready",
             recv' = recv
      PROVE  HeldByAQueue' /\ sender' \in [Ports -> OutQueues]
  <2>1. \A k \in Ports : sender'[k] = IF k = i THEN o ELSE sender[k]
    BY <1>1 DEF SwitchInv, TypeOK
  <2> QED
    BY <1>1, <2>1 DEF SwitchInv, HeldByAQueue, TypeOK
<1>2. ASSUME NEW i \in Ports, NEW j \in Ports, Supply(i, j) PROVE SwitchInv'
  <2>1. sender[i] \in OutQueues
    BY DEF SwitchInv, TypeOK
  <2>2. Enqueue(sender[i], j) \in OutQueues /\ Enqueue(sender[i], j).state = sender[i].state
    BY <2>1, EnqueueIs
  <2>3. /\ sender' = [sender EXCEPT ![i] = Enqueue(sender[i], j)]
        /\ UNCHANGED <<pipe, in, recv, out>>
    BY <1>2 DEF Supply
  <2> QED
    BY <1>1, <2>2, <2>3 DEF SwitchInv, TypeOK
<1>3. ASSUME NEW i \in Ports, Transmit(i) PROVE SwitchInv'
  <2> DEFINE c == CompleteService(sender[i])
  <2>1. sender[i] \in OutQueues /\ sender[i].list # <<>>
    BY <1>3 DEF SwitchInv, TypeOK, Transmit
  <2>2. c \in OutQueues /\ (c.state # "ready" => sender[i].state # "ready")
    BY <2>1, CompleteServiceIs
  <2>3. Head(sender[i].list) \in Ports /\ pipe[i] \in Seq(Ports)
    BY <2>1 DEF OutQueues, SwitchInv, TypeOK
  <2>4. /\ sender' = [sender EXCEPT ![i] = c]
        /\ pipe' = [pipe EXCEPT ![i] = Append(@, Head(sender[i].list))]
        /\ UNCHANGED <<in, recv, out>>
    BY <1>3 DEF Transmit
  <2>5. Append(pipe[i], Head(sender[i].list)) \in Seq(Ports)
    BY <2>3
  <2> HIDE DEF c
  <2> QED
    BY <1>1, <2>2, <2>4, <2>5 DEF SwitchInv, TypeOK
<1>4. ASSUME NEW i \in Ports, NextHopPause(i) \/ NextHopGo(i) PROVE SwitchInv'
  <2>1. out[i] \in OutQueues
    BY DEF SwitchInv, TypeOK
  <2>2. ReceivePause(out[i]) \in OutQueues /\ ReceiveGo(out[i]) \in OutQueues
    BY <2>1, ReceivePauseIs, ReceiveGoIs
  <2>3. UNCHANGED <<sender, pipe, in, recv>>
    BY <1>4 DEF NextHopPause, NextHopGo
  <2>4. out' = [out EXCEPT ![i] = ReceivePause(@)] \/ out' = [out EXCEPT ![i] = ReceiveGo(@)]
    BY <1>4 DEF NextHopPause, NextHopGo
  <2> QED
    BY <2>2, <2>3, <2>4 DEF SwitchInv, TypeOK, HeldByAQueue
<1> QED
  BY <1>2, <1>3, <1>4

\* sendPause speaks to every sender but the one behind the queue's own port.
LEMMA SendPauseIs ==
  ASSUME SwitchInv, NEW j \in Ports, NEW wait \in BOOLEAN, sender' = SendPause(j, wait)
  PROVE  /\ sender' \in [Ports -> OutQueues] /\ sender'[j] = sender[j]
         /\ ~wait => \A k \in Ports \ {j} : sender'[k].state = "ready"
<1>1. \A k \in Ports : sender[k] \in OutQueues
  BY DEF SwitchInv, TypeOK
<1>2. \A k \in Ports : /\ ReceivePause(sender[k]) \in OutQueues
                      /\ ReceiveGo(sender[k]) \in OutQueues
                      /\ ReceiveGo(sender[k]).state = "ready"
  BY <1>1, ReceivePauseIs, ReceiveGoIs
<1> QED
  BY <1>1, <1>2 DEF SendPause

\* The queue that pauses the senders is the one that then holds them.
LEMMA DeliverSwitch ==
  ASSUME SwitchInv, NEW i \in Ports, DeliverToOutput(i)
  PROVE  SwitchInv'
<1> DEFINE j == Head(pipe[i])
<1>1. pipe[i] \in Seq(Ports) /\ pipe[i] # <<>>
  BY DEF SwitchInv, TypeOK, DeliverToOutput
<1>2. j \in Ports /\ Tail(pipe[i]) \in Seq(Ports)
  BY <1>1
<1>3. Enqueue(out[j], j) \in OutQueues
  BY <1>2, EnqueueIs DEF SwitchInv, TypeOK
<1>4. /\ pipe' = [pipe EXCEPT ![i] = Tail(@)]
      /\ out' = [out EXCEPT ![j] = Enqueue(@, j)]
      /\ \/ recv' = [recv EXCEPT ![j] = "paused"] /\ sender' = SendPause(j, TRUE)
         \/ recv' = recv /\ sender' = sender
      /\ in' = in
  BY DEF DeliverToOutput
<1> HIDE DEF j
<1>5. pipe' \in [Ports -> Seq(Ports)] /\ out' \in [Ports -> OutQueues]
      /\ in' \in [Ports -> Int]
  BY <1>2, <1>3, <1>4 DEF SwitchInv, TypeOK
<1>6. CASE recv' = [recv EXCEPT ![j] = "paused"] /\ sender' = SendPause(j, TRUE)
  <2>1. sender' \in [Ports -> OutQueues] /\ sender'[j] = sender[j]
    BY <1>2, <1>6, SendPauseIs
  <2>2. /\ recv' \in [Ports -> {"ready", "paused"}] /\ recv'[j] = "paused"
        /\ \A k \in Ports : recv[k] = "paused" => recv'[k] = "paused"
    BY <1>2, <1>6 DEF SwitchInv, TypeOK
  <2>3. ASSUME NEW k \in Ports, sender'[k].state # "ready"
        PROVE  \E h \in Ports \ {k} : recv'[h] = "paused"
    <3>1. CASE k = j
      BY <2>1, <2>2, <2>3, <3>1 DEF SwitchInv, HeldByAQueue
    <3>2. CASE k # j
      BY <1>2, <2>2, <3>2
    <3> QED
      BY <3>1, <3>2
  <2> QED
    BY <1>5, <2>1, <2>2, <2>3 DEF SwitchInv, TypeOK, HeldByAQueue
<1>7. CASE recv' = recv /\ sender' = sender
  BY <1>5, <1>7 DEF SwitchInv, TypeOK, HeldByAQueue
<1> QED
  BY <1>4, <1>6, <1>7

\* The queue that ends its pause resumes every sender it could have held.
LEMMA LeaveSwitch ==
  ASSUME SwitchInv, NEW j \in Ports, LeaveOutput(j)
  PROVE  SwitchInv'
<1>1. out[j] \in OutQueues /\ out[j].list # <<>>
  BY DEF SwitchInv, TypeOK, LeaveOutput
<1>2. CompleteService(out[j]) \in OutQueues
  BY <1>1, CompleteServiceIs
<1>3. /\ out' = [out EXCEPT ![j] = CompleteService(@)]
      /\ \/ recv' = [recv EXCEPT ![j] = "ready"] /\ sender' = SendPause(j, FALSE)
         \/ recv' = recv /\ sender' = sender
      /\ pipe' = pipe /\ in' = in
  BY DEF LeaveOutput
<1>4. out' \in [Ports -> OutQueues]
  BY <1>2, <1>3 DEF SwitchInv, TypeOK
<1>5. CASE recv' = [recv EXCEPT ![j] = "ready"] /\ sender' = SendPause(j, FALSE)
  <2>1. /\ sender' \in [Ports -> OutQueues] /\ sender'[j] = sender[j]
        /\ \A k \in Ports \ {j} : sender'[k].state = "ready"
    BY <1>5, SendPauseIs
  <2>2. /\ recv' \in [Ports -> {"ready", "paused"}]
        /\ \A k \in Ports \ {j} : recv'[k] = recv[k]
    BY <1>5 DEF SwitchInv, TypeOK
  <2>3. ASSUME NEW k \in Ports, sender'[k].state # "ready"
        PROVE  \E h \in Ports \ {k} : recv'[h] = "paused"
    <3>1. k = j
      BY <2>1, <2>3
    <3>2. PICK h \in Ports \ {j} : recv[h] = "paused"
      BY <2>1, <2>3, <3>1 DEF SwitchInv, HeldByAQueue
    <3> QED
      BY <2>2, <3>1, <3>2
  <2> QED
    BY <1>3, <1>4, <2>1, <2>2, <2>3 DEF SwitchInv, TypeOK, HeldByAQueue
<1>6. CASE recv' = recv /\ sender' = sender
  BY <1>3, <1>4, <1>6 DEF SwitchInv, TypeOK, HeldByAQueue
<1> QED
  BY <1>3, <1>5, <1>6

(***************************************************************************)
(* No sender of the lossless switch waits for nobody: as long as it is     *)
(* held, an output queue of another port has paused it and will resume it  *)
(* when it has drained, for any number of ports, any traffic, thresholds   *)
(* and links, although the GO of each queue ends the pauses of all.        *)
(***************************************************************************)
THEOREM LosslessHeldByAQueue == SpecSwitch => []HeldByAQueue
<1>1. Init => SwitchInv
  <2> SUFFICES ASSUME Init PROVE SwitchInv
    OBVIOUS
  <2>1. TypeOK
    BY InitIInv DEF IInv
  <2>2. \A i \in Ports : sender[i].state = "ready"
    BY DEF Init, EmptyQueue
  <2> QED
    BY <2>1, <2>2 DEF SwitchInv, HeldByAQueue
<1>2. SwitchInv /\ [NextSwitch]_vars => SwitchInv'
  <2> SUFFICES ASSUME SwitchInv, [NextSwitch]_vars PROVE SwitchInv'
    OBVIOUS
  <2>1. CASE \E d \in Demands : Supply(d[1], d[2])
    <3>1. PICK d \in Demands : Supply(d[1], d[2])
      BY <2>1
    <3>2. d[1] \in Ports /\ d[2] \in Ports
      BY DemandsAssumption
    <3> QED
      BY <3>1, <3>2, SharedSwitch
  <2>2. ASSUME NEW i \in Ports, Transmit(i) \/ NextHopPause(i) \/ NextHopGo(i)
        PROVE  SwitchInv'
    BY <2>2, SharedSwitch
  <2>3. ASSUME NEW i \in Ports, DeliverToOutput(i) PROVE SwitchInv'
    BY <2>3, DeliverSwitch
  <2>4. ASSUME NEW i \in Ports, LeaveOutput(i) PROVE SwitchInv'
    BY <2>4, LeaveSwitch
  <2>5. CASE UNCHANGED vars
    BY <2>5 DEF vars, SwitchInv, TypeOK, HeldByAQueue
  <2> QED
    BY <2>1, <2>2, <2>3, <2>4, <2>5 DEF NextSwitch
<1>3. SwitchInv => HeldByAQueue
  BY DEF SwitchInv
<1> QED
  BY <1>1, <1>2, <1>3, PTL DEF SpecSwitch
================================================================================
