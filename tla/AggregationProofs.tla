------------------------- MODULE AggregationProofs -------------------------
(* Theorems about Aggregation, for every placement, window and tensor size. *)
EXTENDS Aggregation, Integers, FiniteSetTheorems, TLAPS

\* Every switch of the job has a child, and a node's parent is its switch.
LEMMA TopologyFacts ==
    /\ NWorkers \in Nat \ {0}
    /\ \A s \in Switch : Children(s) \subseteq Node /\ NumUpdates(s) \in Nat \ {0}
    /\ \A c \in Node : Parent(c) \in Switch /\ c \in Children(Parent(c))
    /\ \A w \in Worker : TorOf[w] \in Tors
    /\ Tors \subseteq Switch /\ Core \in Switch /\ Core \notin Tors
<1>1. IsFiniteSet(Tors) /\ Tors # {}
  <2>1. TorOf \in Surjection(Worker, Tors)
    BY TopologyAssumption DEF Surjection, Tors
  <2> QED
    BY <2>1, WorkerAssumption, FS_Surjection DEF Tors
<1>2. Core \notin Tors
  BY TopologyAssumption DEF Node
<1>3. \A s \in Switch : Children(s) \subseteq Node /\ Children(s) # {} /\ IsFiniteSet(Children(s))
  <2> SUFFICES ASSUME NEW s \in Switch
               PROVE  Children(s) \subseteq Node /\ Children(s) # {} /\ IsFiniteSet(Children(s))
    OBVIOUS
  <2>1. CASE s = Core
    BY <1>1, <2>1 DEF Children, Node
  <2>2. CASE s # Core
    <3>1. s \in Tors /\ Children(s) = Members(s)
      BY <2>2 DEF Switch, Children
    <3>2. Members(s) \subseteq Worker /\ Members(s) # {}
      BY <3>1 DEF Members, Tors
    <3>3. IsFiniteSet(Members(s))
      BY <3>2, WorkerAssumption, FS_Subset
    <3> QED
      BY <3>1, <3>2, <3>3 DEF Node
  <2> QED
    BY <2>1, <2>2
<1>4. \A S : IsFiniteSet(S) /\ S # {} => Cardinality(S) \in Nat \ {0}
  BY FS_CardinalityType, FS_EmptySet
<1>5. NWorkers \in Nat \ {0}
  BY <1>4, WorkerAssumption DEF NWorkers
<1>6. \A s \in Switch : NumUpdates(s) \in Nat \ {0}
  BY <1>3, <1>4 DEF NumUpdates
<1>7. \A c \in Node : Parent(c) \in Switch /\ c \in Children(Parent(c))
  <2> SUFFICES ASSUME NEW c \in Node
               PROVE  Parent(c) \in Switch /\ c \in Children(Parent(c))
    OBVIOUS
  <2>1. CASE c \in Worker
    BY <1>2, <2>1 DEF Parent, Switch, Tors, Children, Members
  <2>2. CASE c \notin Worker
    BY <2>2 DEF Parent, Switch, Node, Children
  <2> QED
    BY <2>1, <2>2
<1> QED
  BY <1>2, <1>3, <1>5, <1>6, <1>7 DEF Tors, Switch

\* A packet addresses a cell, and so does its other version.
LEMMA CellType ==
    ASSUME NEW p \in Packet PROVE CellOf(p) \in Cell /\ OtherCellOf(p) \in Cell
BY DEF Packet, CellOf, OtherCellOf, Cell, Version

LEMMA PacketType ==
    /\ \A p \in Packet : NextPacket(p) \in Packet
    /\ \A w \in Worker, size \in Nat : FirstWindow(w, size) \in Seq(Packet)
<1>1. ASSUME NEW p \in Packet PROVE NextPacket(p) \in Packet
  BY SizeAssumption DEF Packet, NextPacket, NewPacket, Version
<1>2. ASSUME NEW w \in Worker, NEW size \in Nat
      PROVE  FirstWindow(w, size) \in Seq(Packet)
  <2> DEFINE n == IF size < NumSlots THEN size ELSE NumSlots
  <2>1. n \in Nat /\ n <= NumSlots
    BY SizeAssumption
  <2>2. \A i \in 1..n : NewPacket(w, i - 1, i - 1, 0, size) \in Packet
    BY <2>1, SizeAssumption DEF NewPacket, Packet, Slot, Version
  <2> HIDE DEF n
  <2>3. [i \in 1..n |-> NewPacket(w, i - 1, i - 1, 0, size)] \in Seq(Packet)
    BY <2>1, <2>2
  <2> QED
    BY <2>3 DEF FirstWindow, n
<1> QED
  BY <1>1, <1>2

\* Queues stay sequences of packets.
LEMMA QueueType ==
    ASSUME NEW Q \in [Node -> Seq(Packet)]
    PROVE  /\ \A D, p : p \in Packet => Push(Q, D, p) \in [Node -> Seq(Packet)]
           /\ \A c \in Node : Q[c] # <<>> =>
                /\ Head(Q[c]) \in Packet
                /\ Pop(Q, c) \in [Node -> Seq(Packet)]
BY DEF Push, Pop

LEMMA CountType ==
    ASSUME NEW s \in Switch, NEW n \in Nat PROVE NextCount(s, n) \in Nat
BY TopologyFacts DEF NextCount

LEMMA CountSetType ==
    ASSUME count \in [Switch -> [Cell -> Nat]],
           NEW s \in Switch, NEW cell \in Cell, NEW n \in Nat
    PROVE  SetCount(s, cell, n) \in [Switch -> [Cell -> Nat]]
<1>1. count[s] \in [Cell -> Nat]
  OBVIOUS
<1>2. [count[s] EXCEPT ![cell] = n] \in [Cell -> Nat]
  BY <1>1
<1> QED
  BY <1>2 DEF SetCount

LEMMA TypeInit == Init => TypeOK
<1> SUFFICES ASSUME Init PROVE TypeOK
  OBVIOUS
<1>1. seen \in [Switch -> [Cell -> SUBSET Node]] /\ count \in [Switch -> [Cell -> Nat]]
  BY DEF Init, NoSeen, NoCount
<1>2. clean_upper \subseteq Tors
  BY DEF Init
<1>3. up \in [Node -> Seq(Packet)] /\ down \in [Node -> Seq(Packet)]
  BY DEF Init
<1> QED
  BY <1>1, <1>2, <1>3 DEF Init, TypeOK

LEMMA TypeNext == TypeOK /\ [Next]_vars => TypeOK'
<1> SUFFICES ASSUME TypeOK, [Next]_vars PROVE TypeOK'
  OBVIOUS
<1> USE DEF TypeOK
<1>1. ASSUME NEW w \in Worker, StartAllreduce(w) PROVE TypeOK'
  <2>1. iter[w] + 1 \in 1..Rounds
    BY <1>1, SizeAssumption DEF StartAllreduce
  <2>2. Pkts[iter[w] + 1] \in Nat
    BY <2>1, SizeAssumption
  <2>3. FirstWindow(w, Pkts[iter[w] + 1]) \in Seq(Packet)
    BY <2>2, PacketType
  <2>4. up' \in [Node -> Seq(Packet)]
    BY <1>1, <2>3 DEF StartAllreduce, Node
  <2>5. allreduce_lock' \in [Worker -> Nat]
    BY <1>1 DEF StartAllreduce
  <2> QED
    BY <1>1, <2>2, <2>4, <2>5 DEF StartAllreduce
<1>2. ASSUME NEW w \in Worker, DiscardResult(w) PROVE TypeOK'
  BY <1>2, QueueType DEF DiscardResult, Node
<1>3. ASSUME NEW w \in Worker, ReceiveResult(w) PROVE TypeOK'
  <2> DEFINE p == Head(down[w])
  <2>1. w \in Node /\ p \in Packet /\ down' \in [Node -> Seq(Packet)]
    BY <1>3, QueueType DEF ReceiveResult, Node
  <2>2. p.off \in Nat
    BY <2>1 DEF Packet
  <2>3. Push(up, {w}, NextPacket(p)) \in [Node -> Seq(Packet)]
    BY <2>1, QueueType, PacketType
  <2>4. up' \in [Node -> Seq(Packet)]
    BY <1>3, <2>3 DEF ReceiveResult
  <2>5. received_pkts' \in [Worker -> SUBSET Nat]
    <3>1. received_pkts[w] \cup {p.off} \in SUBSET Nat
      BY <2>2
    <3>2. \/ received_pkts' = [received_pkts EXCEPT ![w] = {}]
          \/ received_pkts' = [received_pkts EXCEPT ![w] = received_pkts[w] \cup {p.off}]
      BY <1>3 DEF ReceiveResult
    <3> HIDE DEF p
    <3> QED
      BY <3>1, <3>2
  <2>6. allreduce_lock' \in [Worker -> Nat]
    BY <1>3 DEF ReceiveResult
  <2> QED
    BY <1>3, <2>1, <2>4, <2>5, <2>6 DEF ReceiveResult
<1>4. ASSUME NEW w \in Worker, FinishAllreduce(w) PROVE TypeOK'
  <2>1. seen' \in [Switch -> [Cell -> SUBSET Node]]
    BY <1>4 DEF FinishAllreduce, NoSeen
  <2>2. count' \in [Switch -> [Cell -> Nat]]
    BY <1>4 DEF FinishAllreduce, NoCount
  <2> QED
    BY <1>4, <2>1, <2>2 DEF FinishAllreduce
<1>5. ASSUME NEW w \in Worker, DeleteTensor(w) PROVE TypeOK'
  BY <1>5 DEF DeleteTensor
<1>6. ASSUME NEW c \in Node, SwitchReceiveUp(c) PROVE TypeOK'
  <2> DEFINE p == Head(up[c])
             s == Parent(c)
             n == NextCount(s, count[s][CellOf(p)])
  <2>1. p \in Packet /\ Pop(up, c) \in [Node -> Seq(Packet)]
    BY <1>6, QueueType DEF SwitchReceiveUp
  <2>2. s \in Switch /\ CellOf(p) \in Cell /\ OtherCellOf(p) \in Cell
    BY <2>1, CellType, TopologyFacts
  <2>3. n \in Nat /\ NWorkers \in Nat
    BY <2>2, CountType, TopologyFacts
  <2> HIDE DEF p, s, n
  <2>4. up' \in [Node -> Seq(Packet)]
    <3>1. Push(Pop(up, c), {s}, p) \in [Node -> Seq(Packet)]
      BY <2>1, QueueType
    <3> QED
      BY <1>6, <2>1, <3>1 DEF SwitchReceiveUp, p, s, n
  <2>5. down' \in [Node -> Seq(Packet)]
    <3>1. down' = down \/ down' = Push(down, Children(s), p)
      BY <1>6 DEF SwitchReceiveUp, p, s, n
    <3>2. Push(down, Children(s), p) \in [Node -> Seq(Packet)]
      BY <2>1, QueueType
    <3> QED
      BY <3>1, <3>2
  <2>6. seen' \in [Switch -> [Cell -> SUBSET Node]]
    <3> DEFINE cells == Mark(seen[s], p, c)
    <3>1. seen' = seen \/ seen' = [seen EXCEPT ![s] = cells]
      BY <1>6 DEF SwitchReceiveUp, p, s, n
    <3>2. seen[s] \in [Cell -> SUBSET Node]
      BY <2>2
    <3>3. cells \in [Cell -> SUBSET Node]
      BY <3>2, CellType, <2>1 DEF Mark
    <3> HIDE DEF cells
    <3> QED
      BY <2>2, <3>1, <3>3
  <2>7. count' \in [Switch -> [Cell -> Nat]]
    <3>1. \/ count' = count
          \/ count' = SetCount(s, CellOf(p), NWorkers)
          \/ count' = SetCount(s, CellOf(p), n)
      BY <1>6 DEF SwitchReceiveUp, p, s, n
    <3>2. SetCount(s, CellOf(p), NWorkers) \in [Switch -> [Cell -> Nat]]
      BY <2>2, <2>3, CountSetType
    <3>3. SetCount(s, CellOf(p), n) \in [Switch -> [Cell -> Nat]]
      BY <2>2, <2>3, CountSetType
    <3> QED
      BY <3>1, <3>2, <3>3
  <2> QED
    BY <1>6, <2>4, <2>5, <2>6, <2>7 DEF SwitchReceiveUp
<1>7. ASSUME NEW t \in Tors, SwitchReceiveDown(t) PROVE TypeOK'
  <2> DEFINE p == Head(down[t])
  <2>1. t \in Node /\ t \in Switch
    BY DEF Node, Switch
  <2>2. p \in Packet /\ Pop(down, t) \in [Node -> Seq(Packet)]
    BY <1>7, <2>1, QueueType DEF SwitchReceiveDown
  <2>3. down' \in [Node -> Seq(Packet)]
    BY <1>7, <2>2, QueueType DEF SwitchReceiveDown
  <2>4. count' \in [Switch -> [Cell -> Nat]]
    <3>1. CellOf(p) \in Cell /\ NWorkers \in Nat
      BY <2>2, CellType, TopologyFacts
    <3>2. count' = count \/ count' = SetCount(t, CellOf(p), NWorkers)
      BY <1>7 DEF SwitchReceiveDown
    <3> QED
      BY <2>1, <3>1, <3>2, CountSetType
  <2> QED
    BY <1>7, <2>3, <2>4 DEF SwitchReceiveDown
<1>8. CASE UNCHANGED vars
  BY <1>8 DEF vars
<1> QED
  BY <1>1, <1>2, <1>3, <1>4, <1>5, <1>6, <1>7, <1>8 DEF Next, WorkerStep, Quiescent

\* The state of worker.h and switch.h keeps its types, for every placement.
THEOREM AggregationTypeOK == Spec => []TypeOK
  BY TypeInit, TypeNext, PTL DEF Spec

-----------------------------------------------------------------------------
(* Slots.  An offset o travels in slot o % NUM_SLOTS, and the version of its *)
(* packet is the parity of its turn in that slot.                           *)

SlotOf(o) == o % NumSlots
VersionOf(o) == (o \div NumSlots) % 2
CellAt(o) == <<SlotOf(o), VersionOf(o)>>

LEMMA DivMod ==
    ASSUME NEW o \in Nat, NEW n \in Nat, n > 0
    PROVE  /\ o \div n \in Nat /\ o % n \in 0 .. n - 1
           /\ o = n * (o \div n) + (o % n)
OBVIOUS

LEMMA TimesMonotone ==
    ASSUME NEW n \in Nat, NEW a \in Nat, NEW b \in Nat, a < b
    PROVE  n * a + n <= n * b
<1>1. PICK d \in Nat : b = a + 1 + d
  <2>1. b - a - 1 \in Nat
    OBVIOUS
  <2> QED
    BY <2>1
<1>2. n * b = n * a + n + n * d
  BY <1>1
<1>3. n * d \in Nat /\ n * a \in Nat /\ n * b \in Nat
  OBVIOUS
<1> QED
  BY <1>2, <1>3

\* Division with remainder is unique.
LEMMA DivUnique ==
    ASSUME NEW n \in Nat, n > 0, NEW q \in Nat, NEW m \in 0 .. n - 1
    PROVE  (n * q + m) \div n = q /\ (n * q + m) % n = m
<1> DEFINE o == n * q + m
           p == o \div n
           k == o % n
<1>1. p \in Nat /\ k \in 0 .. n - 1 /\ o = n * p + k
  BY DivMod
<1>2. n * p \in Nat /\ n * q \in Nat
  BY <1>1
<1>3. n * p + k = n * q + m
  BY <1>1
<1> HIDE DEF o, p, k
<1>4. ~(p < q)
  <2> SUFFICES ASSUME p < q PROVE FALSE
    OBVIOUS
  <2>1. n * p + n <= n * q
    BY <1>1, TimesMonotone
  <2> QED
    BY <1>1, <1>2, <1>3, <2>1
<1>5. ~(q < p)
  <2> SUFFICES ASSUME q < p PROVE FALSE
    OBVIOUS
  <2>1. n * q + n <= n * p
    BY <1>1, TimesMonotone
  <2> QED
    BY <1>1, <1>2, <1>3, <2>1
<1>6. p = q
  BY <1>1, <1>4, <1>5
<1>7. k = m
  BY <1>1, <1>2, <1>3, <1>6
<1> QED
  BY <1>6, <1>7 DEF o, p, k

LEMMA SlotsPositive == NumSlots \in Nat /\ NumSlots > 0
BY SizeAssumption

LEMMA FirstTurn ==
    ASSUME NEW o \in Nat, o < NumSlots
    PROVE  SlotOf(o) = o /\ VersionOf(o) = 0
<1>1. NumSlots * 0 + o = o /\ o \in 0 .. NumSlots - 1
  BY SlotsPositive
<1>2. (NumSlots * 0 + o) \div NumSlots = 0 /\ (NumSlots * 0 + o) % NumSlots = o
  BY <1>1, DivUnique, SlotsPositive
<1> QED
  BY <1>1, <1>2 DEF SlotOf, VersionOf

LEMMA NextTurn ==
    ASSUME NEW o \in Nat
    PROVE  SlotOf(o + NumSlots) = SlotOf(o) /\ VersionOf(o + NumSlots) = 1 - VersionOf(o)
<1> DEFINE q == o \div NumSlots
           m == o % NumSlots
<1>1. q \in Nat /\ m \in 0 .. NumSlots - 1 /\ o = NumSlots * q + m
  BY SlotsPositive, DivMod
<1> HIDE DEF q, m
<1>2. o + NumSlots = NumSlots * (q + 1) + m /\ q + 1 \in Nat
  BY <1>1, SlotsPositive
<1>3. /\ (NumSlots * (q + 1) + m) \div NumSlots = q + 1
      /\ (NumSlots * (q + 1) + m) % NumSlots = m
  BY <1>1, <1>2, DivUnique, SlotsPositive
<1>4. (q + 1) % 2 = 1 - (q % 2)
  BY <1>1
<1> QED
  BY <1>2, <1>3, <1>4 DEF SlotOf, VersionOf, q, m

\* Two offsets of a slot are at least a window apart.
LEMMA SlotStep ==
    ASSUME NEW x \in Nat, NEW o \in Nat, x < o, SlotOf(x) = SlotOf(o)
    PROVE  x + NumSlots <= o
<1> DEFINE q == o \div NumSlots
           m == o % NumSlots
           y == x \div NumSlots
<1>1. q \in Nat /\ m \in 0 .. NumSlots - 1 /\ o = NumSlots * q + m
  BY SlotsPositive, DivMod
<1>2. y \in Nat /\ x = NumSlots * y + m
  BY SlotsPositive, DivMod DEF SlotOf
<1> HIDE DEF q, m, y
<1>3. NumSlots * y \in Nat /\ NumSlots * q \in Nat /\ NumSlots * y < NumSlots * q
  BY <1>1, <1>2, SlotsPositive
<1>4. y < q
  <2> SUFFICES ASSUME ~(y < q) PROVE FALSE
    OBVIOUS
  <2>1. CASE y = q
    BY <1>3, <2>1
  <2>2. CASE q < y
    <3>1. NumSlots * q + NumSlots <= NumSlots * y
      BY <1>1, <1>2, <2>2, TimesMonotone, SlotsPositive
    <3> QED
      BY <1>1, <1>3, <3>1, SlotsPositive
  <2> QED
    BY <1>1, <1>2, <2>1, <2>2
<1>5. NumSlots * y + NumSlots <= NumSlots * q
  BY <1>1, <1>2, <1>4, TimesMonotone, SlotsPositive
<1> QED
  BY <1>1, <1>2, <1>3, <1>5, SlotsPositive

LEMMA SlotType ==
    ASSUME NEW o \in Nat
    PROVE  SlotOf(o) \in Slot /\ VersionOf(o) \in Version /\ CellAt(o) \in Cell
<1>1. o \div NumSlots \in Nat /\ o % NumSlots \in 0 .. NumSlots - 1
  BY SlotsPositive, DivMod
<1> QED
  BY <1>1 DEF SlotOf, VersionOf, CellAt, Slot, Version, Cell

\* Two offsets of one cell are at least two windows apart.
LEMMA CellStep ==
    ASSUME NEW x \in Nat, NEW o \in Nat, x < o, CellAt(x) = CellAt(o)
    PROVE  x + NumSlots < o /\ SlotOf(x + NumSlots) = SlotOf(o)
<1>1. SlotOf(x) = SlotOf(o) /\ VersionOf(x) = VersionOf(o)
  BY DEF CellAt
<1>2. x + NumSlots <= o
  BY <1>1, SlotStep
<1>3. SlotOf(x + NumSlots) = SlotOf(x) /\ VersionOf(x + NumSlots) = 1 - VersionOf(x)
  BY NextTurn
<1>4. VersionOf(x) # 1 - VersionOf(x)
  BY SlotType DEF Version
<1>5. x + NumSlots # o
  BY <1>1, <1>3, <1>4
<1> QED
  BY <1>1, <1>2, <1>3, <1>5, SlotsPositive

-----------------------------------------------------------------------------
(* The counter of a cell.                                                    *)

LEMMA ChildrenCounts ==
    ASSUME NEW s \in Switch
    PROVE  /\ IsFiniteSet(Children(s)) /\ NumUpdates(s) = Cardinality(Children(s))
           /\ NumUpdates(s) \in Nat \ {0} /\ NumUpdates(s) <= NWorkers
<1>1. IsFiniteSet(Tors) /\ Cardinality(Tors) <= NWorkers
  <2>1. TorOf \in Surjection(Worker, Tors)
    BY TopologyAssumption DEF Surjection, Tors
  <2> QED
    BY <2>1, WorkerAssumption, FS_Surjection DEF NWorkers
<1>2. \A t : IsFiniteSet(Members(t)) /\ Cardinality(Members(t)) <= NWorkers
  <2> SUFFICES ASSUME NEW t
               PROVE  IsFiniteSet(Members(t)) /\ Cardinality(Members(t)) <= NWorkers
    OBVIOUS
  <2>1. Members(t) \in SUBSET Worker
    BY DEF Members
  <2> QED
    BY <2>1, WorkerAssumption, FS_Subset DEF NWorkers
<1>3. Children(s) = Tors \/ Children(s) = Members(s)
  BY DEF Children
<1> QED
  BY <1>1, <1>2, <1>3, TopologyFacts DEF NumUpdates

LEMMA SmallRemainders ==
    ASSUME NEW m \in Nat, m > 0
    PROVE  /\ \A a \in Nat : a < m => a % m = a
           /\ m % m = 0
           /\ (m + 1) % m = IF m = 1 THEN 0 ELSE 1
<1>1. ASSUME NEW a \in Nat, a < m PROVE a % m = a
  <2>1. m * 0 + a = a /\ a \in 0 .. m - 1
    BY <1>1
  <2>2. (m * 0 + a) % m = a
    BY <2>1, DivUnique
  <2> QED
    BY <2>1, <2>2
<1>2. m % m = 0
  <2>1. m * 1 + 0 = m /\ 0 \in 0 .. m - 1
    OBVIOUS
  <2>2. (m * 1 + 0) % m = 0
    BY <2>1, DivUnique
  <2> QED
    BY <2>1, <2>2
<1>3. CASE m = 1
  <2>1. m * 2 + 0 = m + 1 /\ 0 \in 0 .. m - 1
    BY <1>3
  <2>2. (m * 2 + 0) % m = 0
    BY <2>1, DivUnique
  <2> QED
    BY <1>1, <1>2, <1>3, <2>1, <2>2
<1>4. CASE m # 1
  <2>1. m * 1 + 1 = m + 1 /\ 1 \in 0 .. m - 1
    BY <1>4
  <2>2. (m * 1 + 1) % m = 1
    BY <2>1, DivUnique
  <2> QED
    BY <1>1, <1>2, <1>4, <2>1, <2>2
<1> QED
  BY <1>3, <1>4

\* The two moduli of the step make it count the children of the switch: from a
\* fresh cell or one whose result was sent down, up to zero at the last child.
LEMMA CountsChildren ==
    ASSUME NEW s \in Switch, NEW K \in SUBSET Children(s), NEW c \in Children(s), c \notin K,
           NEW old, IF K = {} THEN old \in {0, NWorkers} ELSE old = Cardinality(K)
    PROVE  NextCount(s, old) = IF K \union {c} = Children(s) THEN 0
                               ELSE Cardinality(K \union {c})
<1> DEFINE n == NWorkers
           m == NumUpdates(s)
           k == Cardinality(K)
           L == K \union {c}
<1>1. n \in Nat \ {0} /\ m \in Nat \ {0} /\ m <= n /\ IsFiniteSet(Children(s))
      /\ m = Cardinality(Children(s))
  BY TopologyFacts, ChildrenCounts
<1>2. IsFiniteSet(K) /\ k \in Nat
  BY <1>1, FS_Subset, FS_CardinalityType
<1>3. Cardinality(L) = k + 1
  BY <1>2, FS_AddElement
<1>4. L \in SUBSET Children(s)
  OBVIOUS
<1>5. k + 1 <= m /\ (k + 1 = m => L = Children(s))
  BY <1>1, <1>3, <1>4, FS_Subset
<1>6. L = Children(s) => k + 1 = m
  BY <1>1, <1>3
<1>7. (K = {} => k = 0) /\ (k = 0 => K = {})
  BY <1>2, FS_EmptySet
<1>8. \/ old = k /\ k < m
      \/ old = n /\ k = 0
  BY <1>1, <1>2, <1>5, <1>7
<1>9. NextCount(s, old) = ((old + 1) % n) % m
  BY DEF NextCount
<1> HIDE DEF n, m, k, L
<1>10. /\ \A a \in Nat : a < n => a % n = a
       /\ n % n = 0 /\ (n + 1) % n = IF n = 1 THEN 0 ELSE 1
  <2>1. n \in Nat /\ n > 0
    BY <1>1
  <2> QED
    BY <2>1, SmallRemainders, Zenon
<1>11. /\ \A a \in Nat : a < m => a % m = a
       /\ m % m = 0
  <2>1. m \in Nat /\ m > 0
    BY <1>1
  <2> QED
    BY <2>1, SmallRemainders, Zenon
<1>12. ((old + 1) % n) % m = IF k + 1 = m THEN 0 ELSE k + 1
  <2>1. CASE old = k /\ k < m
    <3>1. CASE k + 1 = n
      <4>1. k + 1 = m /\ (old + 1) % n = 0 /\ 0 % m = 0
        BY <1>1, <1>2, <1>5, <1>10, <1>11, <2>1, <3>1
      <4> QED
        BY <4>1
    <3>2. CASE k + 1 # n
      <4>1. (old + 1) % n = k + 1
        BY <1>1, <1>2, <1>5, <1>10, <2>1, <3>2
      <4>2. CASE k + 1 = m
        BY <1>11, <4>1, <4>2
      <4>3. CASE k + 1 # m
        BY <1>1, <1>2, <1>5, <1>11, <4>1, <4>3
      <4> QED
        BY <4>2, <4>3
    <3> QED
      BY <3>1, <3>2
  <2>2. CASE old = n /\ k = 0
    <3>1. CASE n = 1
      <4>1. m = 1 /\ (old + 1) % n = 0 /\ 0 % m = 0
        BY <1>1, <1>10, <1>11, <2>2, <3>1
      <4> QED
        BY <2>2, <4>1
    <3>2. CASE n # 1
      <4>1. (old + 1) % n = 1
        BY <1>10, <2>2, <3>2
      <4>2. CASE m = 1
        BY <1>11, <2>2, <4>1, <4>2
      <4>3. CASE m # 1
        <5>1. 1 < m
          BY <1>1, <4>3
        <5>2. 1 % m = 1
          BY <1>11, <5>1
        <5> QED
          BY <2>2, <4>1, <4>3, <5>2
      <4> QED
        BY <4>2, <4>3
    <3> QED
      BY <3>1, <3>2
  <2> QED
    BY <1>8, <2>1, <2>2
<1> QED
  BY <1>3, <1>5, <1>6, <1>9, <1>12 DEF L

-----------------------------------------------------------------------------
(* Queues.                                                                   *)

\* The offsets of round r, counted from 0.
Offsets(r) == IF r < Rounds THEN 0 .. Pkts[r + 1] - 1 ELSE {}

OffsetsIn(q) == {q[i].off : i \in DOMAIN q}

\* A packet of round r is in the cell of its offset.
Fits(r, p) ==
    /\ p.off \in Offsets(r) /\ CellOf(p) = CellAt(p.off)
    /\ p.size = Pkts[r + 1]

\* A queue holds packets of round r, with distinct offsets.
QueueOk(r, q) ==
    /\ \A i \in DOMAIN q : Fits(r, q[i])
    /\ \A i, j \in DOMAIN q : q[i].off = q[j].off => i = j

LEMMA OffsetsType ==
    ASSUME NEW r \in 0 .. Rounds
    PROVE  /\ Offsets(r) \subseteq Nat /\ IsFiniteSet(Offsets(r))
           /\ r < Rounds => /\ Pkts[r + 1] \in Nat \ {0} /\ 0 \in Offsets(r)
                            /\ Offsets(r) = 0 .. Pkts[r + 1] - 1
                            /\ Cardinality(Offsets(r)) = Pkts[r + 1]
<1>1. CASE r < Rounds
  <2>1. r + 1 \in 1 .. Rounds
    BY <1>1, SizeAssumption
  <2>2. Pkts[r + 1] \in Nat \ {0}
    BY <2>1, SizeAssumption
  <2>3. Offsets(r) = 0 .. Pkts[r + 1] - 1
    BY <1>1 DEF Offsets
  <2> DEFINE b == Pkts[r + 1] - 1
  <2>4. 0 \in Int /\ b \in Int /\ b \in Nat
    BY <2>2
  <2> HIDE DEF b
  <2>5. IsFiniteSet(0 .. b) /\ Cardinality(0 .. b) = b + 1
    BY <2>4, FS_Interval
  <2> QED
    BY <1>1, <2>2, <2>3, <2>4, <2>5 DEF b
<1>2. CASE ~(r < Rounds)
  BY <1>2, FS_EmptySet DEF Offsets
<1> QED
  BY <1>1, <1>2

LEMMA OffsetsBelow ==
    ASSUME NEW r \in 0 .. Rounds, NEW o \in Offsets(r), NEW x \in Nat, x <= o
    PROVE  x \in Offsets(r)
BY OffsetsType DEF Offsets

LEMMA QueueEmpty == OffsetsIn(<<>>) = {} /\ \A r : QueueOk(r, <<>>)
BY DEF OffsetsIn, QueueOk

LEMMA QueueNonempty ==
    ASSUME NEW S, NEW q \in Seq(S), q # <<>> PROVE OffsetsIn(q) # {}
<1>1. 1 \in DOMAIN q
  OBVIOUS
<1> QED
  BY <1>1 DEF OffsetsIn

LEMMA QueueHead ==
    ASSUME NEW r, NEW q \in Seq(Packet), q # <<>>, QueueOk(r, q)
    PROVE  /\ Head(q) \in Packet /\ Fits(r, Head(q)) /\ Head(q).off \in OffsetsIn(q)
           /\ QueueOk(r, Tail(q)) /\ OffsetsIn(Tail(q)) = OffsetsIn(q) \ {Head(q).off}
<1> DEFINE h == Head(q)
           t == Tail(q)
<1>1. /\ h = q[1] /\ 1 \in DOMAIN q /\ h \in Packet
      /\ t \in Seq(Packet) /\ Len(t) = Len(q) - 1
      /\ \A i \in DOMAIN t : t[i] = q[i + 1] /\ i + 1 \in DOMAIN q /\ i + 1 # 1
      /\ \A j \in DOMAIN q : j # 1 => j - 1 \in DOMAIN t /\ q[j] = t[j - 1]
  OBVIOUS
<1>2. DOMAIN t \subseteq Int /\ DOMAIN q \subseteq Int
  BY <1>1
<1> HIDE DEF h, t
<1>3. Fits(r, h) /\ h.off \in OffsetsIn(q)
  BY <1>1 DEF QueueOk, OffsetsIn
<1>4. QueueOk(r, t)
  <2>1. \A i \in DOMAIN t : Fits(r, t[i])
    BY <1>1 DEF QueueOk
  <2>2. ASSUME NEW i \in DOMAIN t, NEW j \in DOMAIN t, t[i].off = t[j].off PROVE i = j
    <3>1. q[i + 1].off = q[j + 1].off /\ i + 1 \in DOMAIN q /\ j + 1 \in DOMAIN q
      BY <1>1, <2>2
    <3>2. i + 1 = j + 1
      BY <3>1 DEF QueueOk
    <3> QED
      BY <1>2, <3>2
  <2> QED
    BY <2>1, <2>2 DEF QueueOk
<1>5. OffsetsIn(t) \subseteq OffsetsIn(q) \ {h.off}
  <2> SUFFICES ASSUME NEW i \in DOMAIN t PROVE t[i].off \in OffsetsIn(q) \ {h.off}
    BY DEF OffsetsIn
  <2>1. t[i] = q[i + 1] /\ i + 1 \in DOMAIN q /\ i + 1 # 1
    BY <1>1
  <2>2. q[i + 1].off # q[1].off
    BY <1>1, <2>1 DEF QueueOk
  <2> QED
    BY <1>1, <2>1, <2>2 DEF OffsetsIn
<1>6. OffsetsIn(q) \ {h.off} \subseteq OffsetsIn(t)
  <2> SUFFICES ASSUME NEW j \in DOMAIN q, q[j].off # h.off PROVE q[j].off \in OffsetsIn(t)
    BY DEF OffsetsIn
  <2>1. j - 1 \in DOMAIN t /\ q[j] = t[j - 1]
    BY <1>1
  <2> QED
    BY <2>1 DEF OffsetsIn
<1> QED
  BY <1>1, <1>3, <1>4, <1>5, <1>6 DEF h, t

LEMMA QueueAppend ==
    ASSUME NEW r, NEW q \in Seq(Packet), QueueOk(r, q),
           NEW p \in Packet, Fits(r, p), p.off \notin OffsetsIn(q)
    PROVE  /\ QueueOk(r, Append(q, p))
           /\ OffsetsIn(Append(q, p)) = OffsetsIn(q) \union {p.off}
<1> DEFINE a == Append(q, p)
           n == Len(q) + 1
<1>1. /\ a \in Seq(Packet) /\ DOMAIN a = DOMAIN q \union {n} /\ n \notin DOMAIN q
      /\ a[n] = p /\ \A i \in DOMAIN q : a[i] = q[i]
  OBVIOUS
<1> HIDE DEF a, n
<1>2. \A i \in DOMAIN q : q[i].off # p.off
  BY DEF OffsetsIn
<1>3. QueueOk(r, a)
  BY <1>1, <1>2 DEF QueueOk
<1>4. OffsetsIn(a) = OffsetsIn(q) \union {p.off}
  BY <1>1 DEF OffsetsIn
<1> QED
  BY <1>3, <1>4 DEF a

\* The packets that open a round are one per slot.
LEMMA QueueWindow ==
    ASSUME NEW r \in 0 .. Rounds, r < Rounds, NEW w \in Worker
    PROVE  /\ QueueOk(r, FirstWindow(w, Pkts[r + 1]))
           /\ OffsetsIn(FirstWindow(w, Pkts[r + 1])) = {o \in Offsets(r) : o < NumSlots}
<1> DEFINE size == Pkts[r + 1]
           n == IF size < NumSlots THEN size ELSE NumSlots
           q == [i \in 1 .. n |-> NewPacket(w, i - 1, i - 1, 0, size)]
<1>1. /\ size \in Nat \ {0} /\ Offsets(r) = 0 .. size - 1 /\ n \in Nat
      /\ n <= size /\ n <= NumSlots /\ (n = size \/ n = NumSlots)
  BY OffsetsType, SlotsPositive
<1>2. FirstWindow(w, size) = q
  BY DEF FirstWindow
<1> HIDE DEF size, n
<1>3. ASSUME NEW i \in DOMAIN q PROVE q[i].off = i - 1 /\ Fits(r, q[i])
  <2>1. i \in 1 .. n /\ i - 1 \in Nat /\ i - 1 < NumSlots /\ i - 1 \in Offsets(r)
    BY <1>1, SlotsPositive
  <2>2. q[i] = NewPacket(w, i - 1, i - 1, 0, size)
    BY <2>1
  <2>3. /\ q[i].off = i - 1 /\ q[i].size = size
        /\ CellOf(q[i]) = <<i - 1, 0>>
    BY <2>2 DEF NewPacket, CellOf
  <2>4. SlotOf(i - 1) = i - 1 /\ VersionOf(i - 1) = 0
    BY <2>1, FirstTurn
  <2> QED
    BY <2>1, <2>3, <2>4 DEF Fits, CellAt, size
<1>4. \A i, j \in DOMAIN q : q[i].off = q[j].off => i = j
  BY <1>3
<1>5. QueueOk(r, q)
  BY <1>3, <1>4 DEF QueueOk
<1>9. DOMAIN q = 1 .. n
  OBVIOUS
<1> HIDE DEF q
<1>6. ASSUME NEW o \in Offsets(r), o < NumSlots PROVE o \in OffsetsIn(q)
  <2> DEFINE i == o + 1
  <2>1. i \in DOMAIN q /\ i - 1 = o
    BY <1>1, <1>6, <1>9, SlotsPositive
  <2> HIDE DEF i
  <2>2. q[i].off = o
    BY <1>3, <2>1
  <2> QED
    BY <2>1, <2>2 DEF OffsetsIn
<1>7. ASSUME NEW i \in DOMAIN q PROVE q[i].off \in Offsets(r) /\ q[i].off < NumSlots
  BY <1>1, <1>3, <1>9, SlotsPositive
<1>8. OffsetsIn(q) = {o \in Offsets(r) : o < NumSlots}
  BY <1>6, <1>7 DEF OffsetsIn
<1> QED
  BY <1>2, <1>5, <1>8 DEF size

-----------------------------------------------------------------------------
(* A round.  In round r (from 0) the state of every packet follows from what  *)
(* the workers have and from the queues.                                     *)

Started(r, w) == iter[w] > r \/ phase[w] = "active"

\* Worker w has the result for offset o of the round.
HasResult(r, w, o) ==
    \/ iter[w] > r
    \/ phase[w] = "active" /\ (allreduce_lock[w] > 0 \/ o \in received_pkts[w])

\* Worker w has sent its packet for offset o.
Sent(r, w, o) ==
    Started(r, w) /\ (o < NumSlots \/ HasResult(r, w, o - NumSlots))

\* The ToR switch of w has counted it; and has counted all of its workers.
Counted(r, w, o) == Sent(r, w, o) /\ o \notin OffsetsIn(up[w])
Gathered(r, t, o) == \A w \in Members(t) : Counted(r, w, o)

\* The switch above node c has counted what c sends for offset o.
Taken(r, c, o) ==
    IF c \in Worker THEN Counted(r, c, o)
    ELSE TwoLevel /\ Gathered(r, c, o) /\ o \notin OffsetsIn(up[c])

\* The result for offset o is made, and has reached switch t.
Complete(r, o) == \A c \in Node : c \in Worker \/ TwoLevel => Taken(r, c, o)
Reached(r, t, o) == Complete(r, o) /\ o \notin OffsetsIn(down[t])

WorkerOk(r, w) ==
    /\ iter[w] \in {r, r + 1}
    /\ phase[w] = "active" => iter[w] = r
    /\ Started(r, w) => r < Rounds /\ num_pkts_expected[w] = Pkts[r + 1]
    /\ allreduce_lock[w] \in {0, 1}
    /\ allreduce_lock[w] = 0 => phase[w] = "active"
    /\ received_pkts[w] \subseteq Offsets(r)
    /\ received_pkts[w] # {} => allreduce_lock[w] = 0
    /\ \A o \in received_pkts[w], x \in Offsets(r) :
          x < o /\ SlotOf(x) = SlotOf(o) => x \in received_pkts[w]

QueuesOk(r) ==
    /\ \A c \in Node : QueueOk(r, up[c]) /\ QueueOk(r, down[c])
    /\ \A w \in Worker : \A o \in OffsetsIn(up[w]) : Sent(r, w, o)
    /\ \A t \in Tors : \A o \in OffsetsIn(up[t]) : TwoLevel /\ Gathered(r, t, o)
    /\ \A t \in Tors : \A o \in OffsetsIn(down[t]) : TwoLevel /\ Complete(r, o)
    /\ \A w \in Worker : \A o \in OffsetsIn(down[w]) : Reached(r, TorOf[w], o)

ResultsOk(r) ==
    \A w \in Worker, o \in Offsets(r) :
        HasResult(r, w, o) => Reached(r, TorOf[w], o) /\ o \notin OffsetsIn(down[w])

\* A worker that has ended the round has erased switch s; the core is not used
\* when there is one level.
IsClean(r, s) ==
    \/ \E w \in Worker : iter[w] > r /\ s \in Cleaned(w)
    \/ s = Core /\ ~TwoLevel

\* Offset o is the last one of its slot that has been taken from node c.
Latest(r, c, o) ==
    Taken(r, c, o) /\ ~(o + NumSlots \in Offsets(r) /\ Taken(r, c, o + NumSlots))

SeenOk(r, s) ==
    \A cell \in Cell :
        seen[s][cell] = {c \in Children(s) :
                            \E o \in Offsets(r) : CellAt(o) = cell /\ Latest(r, c, o)}

TakenBy(r, s, o) == {c \in Children(s) : Taken(r, c, o)}
Partial(r, s, o) == TakenBy(r, s, o) # {} /\ TakenBy(r, s, o) # Children(s)

CountOk(r, s) ==
    \A cell \in Cell :
        /\ \A o \in Offsets(r) : CellAt(o) = cell /\ Partial(r, s, o)
              => count[s][cell] = Cardinality(TakenBy(r, s, o))
        /\ (\A o \in Offsets(r) : CellAt(o) = cell => ~Partial(r, s, o))
              => \/ count[s][cell] = 0
                 \/ count[s][cell] = NWorkers /\ \E o \in Offsets(r) : Complete(r, o)

SwitchOk(r, s) ==
    IF IsClean(r, s) THEN seen[s] = NoSeen /\ count[s] = NoCount
    ELSE SeenOk(r, s) /\ CountOk(r, s)

RoundOk(r) ==
    /\ \A w \in Worker : WorkerOk(r, w)
    /\ QueuesOk(r)
    /\ ResultsOk(r)
    /\ \A s \in Switch : SwitchOk(r, s)

\* Every switch of the job has a cleaner.
CleanersOk ==
    /\ \A t \in Tors : \E w \in Members(t) : w \in clean_ToR
    /\ TwoLevel => \E t \in Tors : t \in clean_upper

RoundInv == TypeOK /\ CleanersOk /\ deleted = {} /\ \E r \in 0 .. Rounds : RoundOk(r)

-----------------------------------------------------------------------------
(* What follows in one state of a round.                                     *)

LEMMA MembersFacts ==
    ASSUME NEW t \in Tors
    PROVE  /\ Members(t) \subseteq Worker /\ Members(t) # {}
           /\ \A w \in Members(t) : TorOf[w] = t /\ Parent(w) = t
           /\ t \notin Worker /\ t # Core /\ t \in Switch /\ t \in Node
           /\ Parent(t) = Core /\ Children(t) = Members(t)
<1>1. t \in Node /\ t \notin Worker /\ t # Core /\ t \in Switch
  BY TopologyAssumption DEF Node, Switch
<1>2. PICK w \in Worker : t = TorOf[w]
  BY DEF Tors
<1> QED
  BY <1>1, <1>2 DEF Members, Parent, Children

\* The children of a switch are the nodes below it.
LEMMA ChildrenFacts ==
    ASSUME NEW s \in Switch, NEW c \in Node
    PROVE  c \in Children(s) <=> Parent(c) = s
<1>1. CASE c \in Worker
  <2>1. c \notin Tors /\ TorOf[c] \in Tors /\ TorOf[c] # Core /\ Parent(c) = TorOf[c]
    BY <1>1, TopologyAssumption, TopologyFacts DEF Parent
  <2> QED
    BY <1>1, <2>1 DEF Children, Members
<1>2. CASE c \notin Worker
  <2>1. c \in Tors /\ Parent(c) = Core
    BY <1>2 DEF Node, Parent
  <2> QED
    BY <1>2, <2>1 DEF Children, Members
<1> QED
  BY <1>1, <1>2

\* With one level there is one ToR switch.
LEMMA OneTor ==
    ASSUME ~TwoLevel, NEW t \in Tors
    PROVE  Tors = {t} /\ Members(t) = Worker
<1>1. IsFiniteSet(Tors)
  <2>1. TorOf \in Surjection(Worker, Tors)
    BY TopologyAssumption DEF Surjection, Tors
  <2> QED
    BY <2>1, WorkerAssumption, FS_Surjection
<1>2. Cardinality(Tors) \in Nat /\ Cardinality(Tors) # 0
  BY <1>1, FS_CardinalityType, FS_EmptySet
<1>3. Cardinality(Tors) = 1
  BY <1>2 DEF TwoLevel
<1>4. PICK x : Tors = {x}
  BY <1>1, <1>3, FS_Singleton
<1>5. Tors = {t}
  BY <1>4
<1>6. \A w \in Worker : TorOf[w] = t
  BY <1>5, TopologyFacts
<1> QED
  BY <1>5, <1>6 DEF Members

LEMMA HasResultClosed ==
    ASSUME NEW r \in 0 .. Rounds, NEW w \in Worker, WorkerOk(r, w),
           NEW o \in Nat, HasResult(r, w, o),
           NEW x \in Nat, x < o, SlotOf(x) = SlotOf(o)
    PROVE  HasResult(r, w, x)
<1>1. ASSUME o \in received_pkts[w] PROVE x \in received_pkts[w]
  <2>1. o \in Offsets(r)
    BY <1>1 DEF WorkerOk
  <2>2. x \in Offsets(r)
    BY <2>1, OffsetsBelow
  <2> QED
    BY <1>1, <2>2 DEF WorkerOk
<1> QED
  BY <1>1 DEF HasResult

\* Whoever has sent a packet has the results of its slot before it.
LEMMA SentChain ==
    ASSUME NEW r \in 0 .. Rounds, NEW w \in Worker, WorkerOk(r, w),
           NEW o \in Nat, Sent(r, w, o),
           NEW x \in Nat, x < o, SlotOf(x) = SlotOf(o)
    PROVE  HasResult(r, w, x)
<1> DEFINE y == o - NumSlots
<1>1. x + NumSlots <= o
  BY SlotStep
<1>2. y \in Nat /\ x <= y /\ y + NumSlots = o /\ ~(o < NumSlots)
  BY <1>1, SlotsPositive
<1>3. HasResult(r, w, y)
  BY <1>2 DEF Sent
<1> HIDE DEF y
<1>4. SlotOf(y) = SlotOf(o)
  BY <1>2, NextTurn
<1>5. CASE x = y
  BY <1>3, <1>5
<1>6. CASE x # y
  <2>1. x < y
    BY <1>2, <1>6
  <2> QED
    BY <1>2, <1>3, <1>4, <2>1, HasResultClosed
<1> QED
  BY <1>5, <1>6

LEMMA ResultFacts ==
    ASSUME NEW r \in 0 .. Rounds, ResultsOk(r), NEW w \in Worker,
           NEW o \in Offsets(r), HasResult(r, w, o)
    PROVE  /\ Complete(r, o) /\ Reached(r, TorOf[w], o)
           /\ o \notin OffsetsIn(down[w]) /\ o \notin OffsetsIn(down[TorOf[w]])
BY DEF ResultsOk, Reached

\* What node c has offered its switch: it is taken, or it is on the way.
Offered(r, c, o) == Taken(r, c, o) \/ o \in OffsetsIn(up[c])

LEMMA OfferedSent ==
    ASSUME NEW r \in 0 .. Rounds, QueuesOk(r), NEW c \in Node, NEW o, Offered(r, c, o)
    PROVE  \E w \in Worker : Sent(r, w, o) /\ (c \in Worker => w = c)
<1>1. CASE c \in Worker
  <2>1. Sent(r, c, o)
    BY <1>1 DEF Offered, Taken, Counted, QueuesOk
  <2> QED
    BY <1>1, <2>1
<1>2. CASE c \notin Worker
  <2>1. c \in Tors
    BY <1>2 DEF Node
  <2>2. Gathered(r, c, o)
    BY <1>2, <2>1 DEF Offered, Taken, QueuesOk
  <2>3. PICK w \in Members(c) : w \in Worker
    BY <2>1, MembersFacts
  <2>4. Sent(r, w, o)
    BY <2>2, <2>3 DEF Gathered, Counted
  <2> QED
    BY <1>2, <2>3, <2>4
<1> QED
  BY <1>1, <1>2

\* A node offers an offset only when the ones before it in the slot have made
\* their results.
LEMMA OfferedChain ==
    ASSUME NEW r \in 0 .. Rounds, RoundOk(r), NEW c \in Node, NEW o \in Offsets(r),
           Offered(r, c, o), NEW x \in Nat, x < o, SlotOf(x) = SlotOf(o)
    PROVE  /\ x \in Offsets(r) /\ Complete(r, x)
           /\ \E w \in Worker : HasResult(r, w, x) /\ (c \in Worker => w = c)
<1>1. o \in Nat /\ x \in Offsets(r)
  BY OffsetsType, OffsetsBelow
<1>2. PICK w \in Worker : Sent(r, w, o) /\ (c \in Worker => w = c)
  BY OfferedSent DEF RoundOk
<1>3. HasResult(r, w, x)
  BY <1>1, <1>2, SentChain DEF RoundOk
<1> QED
  BY <1>1, <1>2, <1>3, ResultFacts DEF RoundOk

LEMMA CompleteNotPartial ==
    ASSUME NEW r, NEW s \in Switch, NEW o, Complete(r, o)
    PROVE  ~Partial(r, s, o)
<1>1. CASE s = Core /\ ~TwoLevel
  <2>1. \A c \in Children(s) : c \notin Worker
    BY <1>1, MembersFacts DEF Children
  <2>2. TakenBy(r, s, o) = {}
    BY <1>1, <2>1 DEF TakenBy, Taken
  <2> QED
    BY <2>2 DEF Partial
<1>2. CASE ~(s = Core /\ ~TwoLevel)
  <2>1. \A c \in Children(s) : c \in Node /\ (c \in Worker \/ TwoLevel)
    BY <1>2, TopologyFacts DEF Children, Members
  <2>2. TakenBy(r, s, o) = Children(s)
    BY <2>1 DEF TakenBy, Complete
  <2> QED
    BY <2>2 DEF Partial
<1> QED
  BY <1>1, <1>2

\* What is on its way up is not taken, and so has made no result.
LEMMA OnItsWay ==
    ASSUME NEW r \in 0 .. Rounds, RoundOk(r), NEW c \in Node, NEW o \in OffsetsIn(up[c])
    PROVE  /\ ~Taken(r, c, o) /\ ~Complete(r, o) /\ (c \in Worker \/ TwoLevel)
           /\ \A w \in Worker : o \in Offsets(r) => ~HasResult(r, w, o)
<1>1. ~Taken(r, c, o)
  BY DEF Taken, Counted
<1>2. c \in Worker \/ TwoLevel
  BY DEF RoundOk, QueuesOk, Node
<1>3. ~Complete(r, o)
  BY <1>1, <1>2 DEF Complete
<1> QED
  BY <1>1, <1>2, <1>3, ResultFacts DEF RoundOk

-----------------------------------------------------------------------------
(* What a step leaves alone.                                                 *)

LEMMA QueueOffsets ==
    ASSUME NEW r, NEW q, QueueOk(r, q) PROVE OffsetsIn(q) \subseteq Offsets(r)
BY DEF QueueOk, OffsetsIn, Fits

\* A step of a worker changes what the switches have taken only through its
\* own packets; here it does not.
LEMMA WorkerFrame ==
    ASSUME NEW r \in 0 .. Rounds,
           \A v \in Worker, o \in Offsets(r) : Counted(r, v, o)' <=> Counted(r, v, o),
           \A t \in Tors : up'[t] = up[t] /\ down'[t] = down[t]
    PROVE  \A o \in Offsets(r) :
             /\ \A t \in Tors : Gathered(r, t, o)' <=> Gathered(r, t, o)
             /\ \A c \in Node : Taken(r, c, o)' <=> Taken(r, c, o)
             /\ Complete(r, o)' <=> Complete(r, o)
             /\ \A t \in Tors : Reached(r, t, o)' <=> Reached(r, t, o)
<1> SUFFICES ASSUME NEW o \in Offsets(r)
             PROVE  /\ \A t \in Tors : Gathered(r, t, o)' <=> Gathered(r, t, o)
                    /\ \A c \in Node : Taken(r, c, o)' <=> Taken(r, c, o)
                    /\ Complete(r, o)' <=> Complete(r, o)
                    /\ \A t \in Tors : Reached(r, t, o)' <=> Reached(r, t, o)
  OBVIOUS
<1>1. \A t \in Tors : Gathered(r, t, o)' <=> Gathered(r, t, o)
  BY MembersFacts DEF Gathered
<1>2. \A c \in Node : Taken(r, c, o)' <=> Taken(r, c, o)
  <2> SUFFICES ASSUME NEW c \in Node PROVE Taken(r, c, o)' <=> Taken(r, c, o)
    OBVIOUS
  <2>1. CASE c \in Worker
    BY <2>1 DEF Taken
  <2>2. CASE c \notin Worker
    <3>1. c \in Tors
      BY <2>2 DEF Node
    <3> QED
      BY <1>1, <2>2, <3>1 DEF Taken
  <2> QED
    BY <2>1, <2>2
<1>3. Complete(r, o)' <=> Complete(r, o)
  BY <1>2 DEF Complete
<1>4. \A t \in Tors : Reached(r, t, o)' <=> Reached(r, t, o)
  BY <1>3 DEF Reached
<1> QED
  BY <1>1, <1>2, <1>3, <1>4

\* A switch is as it was when neither it nor what it has taken changes.
LEMMA SwitchFrame ==
    ASSUME NEW r \in 0 .. Rounds, NEW s \in Switch, SwitchOk(r, s),
           \A c \in Children(s), o \in Offsets(r) : Taken(r, c, o)' <=> Taken(r, c, o),
           \A o \in Offsets(r) : Complete(r, o) => Complete(r, o)',
           IsClean(r, s)' <=> IsClean(r, s),
           seen'[s] = seen[s], count'[s] = count[s]
    PROVE  SwitchOk(r, s)'
<1>1. CASE IsClean(r, s)
  BY <1>1 DEF SwitchOk, NoSeen, NoCount
<1>2. CASE ~IsClean(r, s)
  <2>1. SeenOk(r, s) /\ CountOk(r, s)
    BY <1>2 DEF SwitchOk
  <2>2. \A c \in Children(s), o \in Offsets(r) : Latest(r, c, o)' <=> Latest(r, c, o)
    BY DEF Latest
  <2>3. SeenOk(r, s)'
    <3> SUFFICES ASSUME NEW cell \in Cell
                 PROVE  seen'[s][cell] = {c \in Children(s) :
                          \E o \in Offsets(r) : CellAt(o) = cell /\ Latest(r, c, o)'}
      BY DEF SeenOk
    <3>1. seen[s][cell] = {c \in Children(s) :
                          \E o \in Offsets(r) : CellAt(o) = cell /\ Latest(r, c, o)}
      BY <2>1 DEF SeenOk
    <3> QED
      BY <2>2, <3>1
  <2>4. \A o \in Offsets(r) : /\ TakenBy(r, s, o)' = TakenBy(r, s, o)
                              /\ Partial(r, s, o)' <=> Partial(r, s, o)
    <3>1. ASSUME NEW o \in Offsets(r) PROVE TakenBy(r, s, o)' = TakenBy(r, s, o)
      BY DEF TakenBy
    <3> QED
      BY <3>1 DEF Partial
  <2>5. CountOk(r, s)'
    <3> SUFFICES ASSUME NEW cell \in Cell
                 PROVE  /\ \A o \in Offsets(r) : CellAt(o) = cell /\ Partial(r, s, o)'
                             => count'[s][cell] = Cardinality(TakenBy(r, s, o)')
                        /\ (\A o \in Offsets(r) : CellAt(o) = cell => ~Partial(r, s, o)')
                             => \/ count'[s][cell] = 0
                                \/ /\ count'[s][cell] = NWorkers
                                   /\ \E o \in Offsets(r) : Complete(r, o)'
      BY DEF CountOk
    <3>1. /\ \A o \in Offsets(r) : CellAt(o) = cell /\ Partial(r, s, o)
               => count[s][cell] = Cardinality(TakenBy(r, s, o))
          /\ (\A o \in Offsets(r) : CellAt(o) = cell => ~Partial(r, s, o))
               => \/ count[s][cell] = 0
                  \/ count[s][cell] = NWorkers /\ \E o \in Offsets(r) : Complete(r, o)
      BY <2>1 DEF CountOk
    <3> QED
      BY <2>4, <3>1
  <2> QED
    BY <1>2, <2>3, <2>5 DEF SwitchOk
<1> QED
  BY <1>1, <1>2

LEMMA SwitchesFrame ==
    ASSUME NEW r \in 0 .. Rounds, RoundOk(r),
           \A v \in Worker, o \in Offsets(r) : Counted(r, v, o)' <=> Counted(r, v, o),
           \A t \in Tors : up'[t] = up[t] /\ down'[t] = down[t],
           iter' = iter, seen' = seen, count' = count,
           clean_ToR' = clean_ToR, clean_upper' = clean_upper
    PROVE  \A s \in Switch : SwitchOk(r, s)'
<1> SUFFICES ASSUME NEW s \in Switch PROVE SwitchOk(r, s)'
  OBVIOUS
<1>1. \A c \in Children(s), o \in Offsets(r) : Taken(r, c, o)' <=> Taken(r, c, o)
  BY WorkerFrame, TopologyFacts
<1>2. \A o \in Offsets(r) : Complete(r, o) => Complete(r, o)'
  BY WorkerFrame
<1>3. IsClean(r, s)' <=> IsClean(r, s)
  BY DEF IsClean, Cleaned
<1>4. SwitchOk(r, s)
  BY DEF RoundOk
<1> QED
  BY <1>1, <1>2, <1>3, <1>4, SwitchFrame

-----------------------------------------------------------------------------
(* The steps of a worker.                                                    *)

LEMMA StartKeeps ==
    ASSUME TypeOK, NEW r \in 0 .. Rounds, RoundOk(r), NEW w \in Worker,
           StartAllreduce(w), iter[w] = r
    PROVE  RoundOk(r)'
<1> DEFINE q == FirstWindow(w, Pkts[r + 1])
<1>1. /\ phase[w] = "idle" /\ allreduce_lock[w] = 1 /\ r < Rounds
      /\ num_pkts_expected' = [num_pkts_expected EXCEPT ![w] = Pkts[r + 1]]
      /\ up' = [up EXCEPT ![w] = @ \o q]
      /\ phase' = [phase EXCEPT ![w] = "active"]
      /\ allreduce_lock' = [allreduce_lock EXCEPT ![w] = 0]
      /\ iter' = iter /\ received_pkts' = received_pkts /\ down' = down
      /\ seen' = seen /\ count' = count
      /\ clean_ToR' = clean_ToR /\ clean_upper' = clean_upper
  <2>1. allreduce_lock[w] = 1
    BY DEF StartAllreduce, RoundOk, WorkerOk
  <2> QED
    BY <2>1 DEF StartAllreduce
<1>2. received_pkts[w] = {}
  BY <1>1 DEF RoundOk, WorkerOk
<1>3. ~Started(r, w)
  BY <1>1 DEF Started
<1>4. \A o : ~Sent(r, w, o) /\ ~Counted(r, w, o)
  BY <1>3 DEF Sent, Counted
<1>5. \A o : ~Complete(r, o)
  <2>1. \A o : ~Taken(r, w, o)
    BY <1>4 DEF Taken
  <2> QED
    BY <2>1 DEF Complete, Node
<1>6. up[w] = <<>>
  <2>1. up[w] \in Seq(Packet)
    BY DEF TypeOK, Node
  <2>2. OffsetsIn(up[w]) = {}
    BY <1>4 DEF RoundOk, QueuesOk
  <2> QED
    BY <2>1, <2>2, QueueNonempty
<1>7. /\ up'[w] = q /\ QueueOk(r, q) /\ OffsetsIn(q) = {o \in Offsets(r) : o < NumSlots}
      /\ \A c \in Node : c # w => up'[c] = up[c]
  <2>1. QueueOk(r, q) /\ OffsetsIn(q) = {o \in Offsets(r) : o < NumSlots} /\ q \in Seq(Packet)
    BY <1>1, QueueWindow, PacketType, OffsetsType
  <2> HIDE DEF q
  <2>2. <<>> \o q = q
    BY <2>1
  <2> QED
    BY <1>1, <1>6, <2>1, <2>2 DEF TypeOK, Node
<1> HIDE DEF q
<1>8. \A v \in Worker : v # w => /\ phase'[v] = phase[v]
                                 /\ allreduce_lock'[v] = allreduce_lock[v]
                                 /\ num_pkts_expected'[v] = num_pkts_expected[v]
  BY <1>1 DEF TypeOK
<1>9. /\ phase'[w] = "active" /\ allreduce_lock'[w] = 0
      /\ num_pkts_expected'[w] = Pkts[r + 1]
  BY <1>1 DEF TypeOK
<1>10. \A o : ~HasResult(r, w, o)'
  BY <1>1, <1>2, <1>9 DEF HasResult, TypeOK
<1>11. \A o : Sent(r, w, o)' <=> o < NumSlots
  BY <1>9, <1>10 DEF Sent, Started
<1>12. ASSUME NEW v \in Worker, v # w
       PROVE  /\ \A o : HasResult(r, v, o)' <=> HasResult(r, v, o)
              /\ \A o : Sent(r, v, o)' <=> Sent(r, v, o)
              /\ \A o : Counted(r, v, o)' <=> Counted(r, v, o)
  <2>1. \A o : HasResult(r, v, o)' <=> HasResult(r, v, o)
    BY <1>1, <1>8, <1>12 DEF HasResult
  <2>2. \A o : Sent(r, v, o)' <=> Sent(r, v, o)
    BY <1>1, <1>8, <1>12, <2>1 DEF Sent, Started
  <2>3. up'[v] = up[v]
    BY <1>7, <1>12 DEF Node
  <2> QED
    BY <2>1, <2>2, <2>3 DEF Counted
<1>13. \A v \in Worker, o \in Offsets(r) : Counted(r, v, o)' <=> Counted(r, v, o)
  <2>1. \A o \in Offsets(r) : ~Counted(r, w, o)'
    BY <1>7, <1>11 DEF Counted
  <2> QED
    BY <1>4, <1>12, <2>1
<1>14. \A t \in Tors : up'[t] = up[t] /\ down'[t] = down[t]
  BY <1>1, <1>7, MembersFacts
<1>15. \A v \in Worker : WorkerOk(r, v)'
  <2> SUFFICES ASSUME NEW v \in Worker PROVE WorkerOk(r, v)'
    OBVIOUS
  <2>1. WorkerOk(r, v)
    BY DEF RoundOk
  <2>2. CASE v = w
    BY <1>1, <1>2, <1>9, <2>1, <2>2 DEF WorkerOk
  <2>3. CASE v # w
    BY <1>1, <1>8, <2>1, <2>3 DEF WorkerOk, Started
  <2> QED
    BY <2>2, <2>3
<1>16. QueuesOk(r)'
  <2>1. \A c \in Node : QueueOk(r, up[c]) /\ QueueOk(r, down[c])
    BY DEF RoundOk, QueuesOk
  <2>2. \A c \in Node : QueueOk(r, up'[c]) /\ QueueOk(r, down'[c])
    BY <1>1, <1>7, <2>1
  <2>3. \A v \in Worker : \A o \in OffsetsIn(up'[v]) : Sent(r, v, o)'
    BY <1>7, <1>11, <1>12 DEF RoundOk, QueuesOk, Node
  <2>4. \A t \in Tors : \A o \in OffsetsIn(up'[t]) : TwoLevel /\ Gathered(r, t, o)'
    <3> SUFFICES ASSUME NEW t \in Tors, NEW o \in OffsetsIn(up'[t])
                 PROVE  TwoLevel /\ Gathered(r, t, o)'
      OBVIOUS
    <3>1. o \in OffsetsIn(up[t]) /\ t \in Node
      BY <1>14, MembersFacts
    <3>2. o \in Offsets(r)
      BY <2>1, <3>1, QueueOffsets
    <3> QED
      BY <1>13, <1>14, <3>1, <3>2, WorkerFrame DEF RoundOk, QueuesOk
  <2>5. \A c \in Node : OffsetsIn(down'[c]) = {}
    <3>1. \A v \in Worker : OffsetsIn(down[v]) = {}
      BY <1>5 DEF RoundOk, QueuesOk, Reached
    <3>2. \A t \in Tors : OffsetsIn(down[t]) = {}
      BY <1>5 DEF RoundOk, QueuesOk
    <3> QED
      BY <1>1, <3>1, <3>2 DEF Node
  <2> QED
    BY <2>2, <2>3, <2>4, <2>5, MembersFacts DEF QueuesOk, Node
<1>17. ResultsOk(r)'
  BY <1>5, <1>10, <1>12, ResultFacts DEF RoundOk, ResultsOk
<1>18. \A s \in Switch : SwitchOk(r, s)'
  BY <1>1, <1>13, <1>14, SwitchesFrame
<1> QED
  BY <1>15, <1>16, <1>17, <1>18 DEF RoundOk

-----------------------------------------------------------------------------
(* Between two rounds.                                                       *)

LEMMA FreshRound ==
    ASSUME NEW r \in 0 .. Rounds,
           \A w \in Worker : /\ phase[w] = "idle" /\ allreduce_lock[w] = 1
                             /\ iter[w] = r /\ received_pkts[w] = {},
           \A c \in Node : up[c] = <<>> /\ down[c] = <<>>,
           \A s \in Switch : seen[s] = NoSeen /\ count[s] = NoCount
    PROVE  RoundOk(r)
<1>1. \A w \in Worker : WorkerOk(r, w)
  BY DEF WorkerOk, Started
<1>2. \A w \in Worker : \A o : ~HasResult(r, w, o) /\ ~Counted(r, w, o)
  BY DEF HasResult, Counted, Sent, Started
<1>3. \A c \in Node : \A o : ~Taken(r, c, o)
  <2> SUFFICES ASSUME NEW c \in Node, NEW o PROVE ~Taken(r, c, o)
    OBVIOUS
  <2>1. c \notin Worker => \E w \in Members(c) : w \in Worker
    BY MembersFacts DEF Node
  <2> QED
    BY <1>2, <2>1 DEF Taken, Gathered
<1>4. \A o : ~Complete(r, o)
  <2>1. PICK w : w \in Worker
    BY WorkerAssumption
  <2> QED
    BY <1>3, <2>1 DEF Complete, Node
<1>5. QueuesOk(r)
  <2>1. \A c \in Node : OffsetsIn(up[c]) = {} /\ OffsetsIn(down[c]) = {}
    BY QueueEmpty
  <2>2. \A c \in Node : QueueOk(r, up[c]) /\ QueueOk(r, down[c])
    BY QueueEmpty
  <2> QED
    BY <2>1, <2>2 DEF QueuesOk, Node
<1>6. ResultsOk(r)
  BY <1>2 DEF ResultsOk
<1>7. ASSUME NEW s \in Switch PROVE SwitchOk(r, s)
  <2>1. \A c \in Children(s) : c \in Node
    BY TopologyFacts
  <2>2. SeenOk(r, s)
    BY <1>3, <2>1 DEF SeenOk, Latest, NoSeen
  <2>3. \A o : TakenBy(r, s, o) = {} /\ ~Partial(r, s, o)
    BY <1>3, <2>1 DEF TakenBy, Partial
  <2>4. CountOk(r, s)
    BY <2>3 DEF CountOk, NoCount
  <2> QED
    BY <2>2, <2>4 DEF SwitchOk
<1> QED
  BY <1>1, <1>5, <1>6, <1>7 DEF RoundOk

\* When every worker has ended a round, nothing is left of it.
LEMMA RoundOver ==
    ASSUME TypeOK, CleanersOk, NEW r \in 0 .. Rounds, RoundOk(r),
           \A w \in Worker : iter[w] = r + 1
    PROVE  /\ \A w \in Worker : /\ phase[w] = "idle" /\ allreduce_lock[w] = 1
                                /\ received_pkts[w] = {}
           /\ \A c \in Node : up[c] = <<>> /\ down[c] = <<>>
           /\ \A s \in Switch : seen[s] = NoSeen /\ count[s] = NoCount
<1>1. \A w \in Worker : /\ phase[w] = "idle" /\ allreduce_lock[w] = 1
                        /\ received_pkts[w] = {}
  <2> SUFFICES ASSUME NEW w \in Worker
               PROVE  /\ phase[w] = "idle" /\ allreduce_lock[w] = 1
                      /\ received_pkts[w] = {}
    OBVIOUS
  <2>1. iter[w] # r /\ WorkerOk(r, w)
    BY DEF RoundOk
  <2> QED
    BY <2>1 DEF WorkerOk, TypeOK
<1>2. \A w \in Worker : \A o : HasResult(r, w, o)
  BY DEF HasResult
<1>3. \A c \in Node : /\ OffsetsIn(up[c]) \subseteq Offsets(r)
                      /\ OffsetsIn(down[c]) \subseteq Offsets(r)
  BY QueueOffsets DEF RoundOk, QueuesOk
<1>4. ASSUME NEW c \in Node PROVE OffsetsIn(up[c]) = {}
  <2>1. ASSUME NEW o \in OffsetsIn(up[c]) PROVE FALSE
    <3>1. o \in Offsets(r)
      BY <1>3
    <3>2. PICK w : w \in Worker
      BY WorkerAssumption
    <3> QED
      BY <1>2, <3>1, <3>2, OnItsWay
  <2> QED
    BY <2>1
<1>5. ASSUME NEW c \in Node PROVE OffsetsIn(down[c]) = {}
  <2>1. ASSUME NEW o \in OffsetsIn(down[c]) PROVE FALSE
    <3>1. o \in Offsets(r) /\ ResultsOk(r)
      BY <1>3 DEF RoundOk
    <3>2. PICK w \in Worker : c = w \/ c = TorOf[w]
      <4>1. CASE c \in Worker
        BY <4>1
      <4>2. CASE c \in Tors
        BY <4>2 DEF Tors
      <4> QED
        BY <4>1, <4>2 DEF Node
    <3> QED
      BY <1>2, <3>1, <3>2, ResultFacts
  <2> QED
    BY <2>1
<1>6. \A c \in Node : up[c] = <<>> /\ down[c] = <<>>
  BY <1>4, <1>5, QueueNonempty DEF TypeOK
<1>7. ASSUME NEW s \in Switch PROVE IsClean(r, s)
  <2>1. CASE s \in Tors
    <3>1. PICK w \in Members(s) : w \in clean_ToR
      BY <2>1 DEF CleanersOk
    <3>2. w \in Worker /\ TorOf[w] = s /\ iter[w] > r
      BY <2>1, <3>1, MembersFacts
    <3>3. s \in Cleaned(w)
      BY <3>1, <3>2 DEF Cleaned
    <3> QED
      BY <3>2, <3>3 DEF IsClean
  <2>2. CASE s = Core /\ TwoLevel
    <3>1. PICK t \in Tors : t \in clean_upper
      BY <2>2 DEF CleanersOk
    <3>2. PICK w \in Members(t) : w \in clean_ToR
      BY DEF CleanersOk
    <3>3. w \in Worker /\ TorOf[w] = t /\ iter[w] > r
      BY <3>2, MembersFacts
    <3>4. Core \in Cleaned(w)
      BY <3>1, <3>2, <3>3 DEF Cleaned
    <3> QED
      BY <2>2, <3>3, <3>4 DEF IsClean
  <2>3. CASE s = Core /\ ~TwoLevel
    BY <2>3 DEF IsClean
  <2> QED
    BY <2>1, <2>2, <2>3 DEF Switch
<1>8. \A s \in Switch : seen[s] = NoSeen /\ count[s] = NoCount
  BY <1>7 DEF RoundOk, SwitchOk
<1> QED
  BY <1>1, <1>6, <1>8

LEMMA NextRound ==
    ASSUME TypeOK, CleanersOk, NEW r \in 0 .. Rounds, RoundOk(r),
           \A w \in Worker : iter[w] = r + 1, r + 1 \in 0 .. Rounds
    PROVE  RoundOk(r + 1)
BY RoundOver, FreshRound

LEMMA RoundInit == FlagInit \subseteq {FALSE} /\ Init => RoundInv
<1> SUFFICES ASSUME FlagInit \subseteq {FALSE}, Init PROVE RoundInv
  OBVIOUS
<1>1. 0 \in 0 .. Rounds
  BY SizeAssumption
<1>2. RoundOk(0)
  BY <1>1, FreshRound DEF Init
<1>3. \A t \in Tors : \E w \in Members(t) : w \in clean_ToR
  <2> SUFFICES ASSUME NEW t \in Tors PROVE \E w \in Members(t) : w \in clean_ToR
    OBVIOUS
  <2>1. clean_ToR \cap Members(t) \in ToRCleaners(t)
    BY DEF Init
  <2>2. PICK flag \in FlagInit :
          clean_ToR \cap Members(t) \in IF flag THEN {{}} ELSE {{w} : w \in Members(t)}
    BY <2>1 DEF ToRCleaners
  <2>3. flag = FALSE
    OBVIOUS
  <2>4. PICK w \in Members(t) : clean_ToR \cap Members(t) = {w}
    BY <2>2, <2>3
  <2> QED
    BY <2>4
<1>4. TwoLevel => \E t \in Tors : t \in clean_upper
  BY DEF Init
<1> QED
  BY <1>1, <1>2, <1>3, <1>4, TypeInit DEF RoundInv, CleanersOk, Init

\* The step of a worker that receives a result touches the round at one place.
LEMMA OneWorkerKeeps ==
    ASSUME NEW r \in 0 .. Rounds, RoundOk(r), NEW w \in Worker, WorkerOk(r, w)',
           \A v \in Worker : v # w => /\ phase'[v] = phase[v]
                                      /\ allreduce_lock'[v] = allreduce_lock[v]
                                      /\ num_pkts_expected'[v] = num_pkts_expected[v]
                                      /\ received_pkts'[v] = received_pkts[v],
           \A c \in Node : c # w => up'[c] = up[c] /\ down'[c] = down[c],
           \A o \in Offsets(r) : Counted(r, w, o)' <=> Counted(r, w, o),
           QueueOk(r, up'[w]), QueueOk(r, down'[w]),
           \A o \in OffsetsIn(up'[w]) : Sent(r, w, o)',
           OffsetsIn(down'[w]) \subseteq OffsetsIn(down[w]),
           \A o \in Offsets(r) : HasResult(r, w, o)' =>
                Reached(r, TorOf[w], o) /\ o \notin OffsetsIn(down'[w]),
           iter' = iter, seen' = seen, count' = count,
           clean_ToR' = clean_ToR, clean_upper' = clean_upper
    PROVE  RoundOk(r)'
<1>1. ASSUME NEW v \in Worker, v # w
      PROVE  /\ \A o : HasResult(r, v, o)' <=> HasResult(r, v, o)
             /\ \A o : Sent(r, v, o)' <=> Sent(r, v, o)
             /\ \A o : Counted(r, v, o)' <=> Counted(r, v, o)
  <2>1. \A o : HasResult(r, v, o)' <=> HasResult(r, v, o)
    BY <1>1 DEF HasResult
  <2>2. \A o : Sent(r, v, o)' <=> Sent(r, v, o)
    BY <1>1, <2>1 DEF Sent, Started
  <2>3. up'[v] = up[v]
    BY <1>1 DEF Node
  <2> QED
    BY <2>1, <2>2, <2>3 DEF Counted
<1>2. \A v \in Worker, o \in Offsets(r) : Counted(r, v, o)' <=> Counted(r, v, o)
  BY <1>1
<1>3. \A t \in Tors : up'[t] = up[t] /\ down'[t] = down[t] /\ t \in Node
  BY MembersFacts
<1>4. \A o \in Offsets(r) :
        /\ \A t \in Tors : Gathered(r, t, o)' <=> Gathered(r, t, o)
        /\ Complete(r, o)' <=> Complete(r, o)
        /\ \A t \in Tors : Reached(r, t, o)' <=> Reached(r, t, o)
  BY <1>2, <1>3, WorkerFrame
<1>5. \A c \in Node : /\ OffsetsIn(up[c]) \subseteq Offsets(r)
                      /\ OffsetsIn(down[c]) \subseteq Offsets(r)
  BY QueueOffsets DEF RoundOk, QueuesOk
<1>6. \A v \in Worker : WorkerOk(r, v)'
  <2> SUFFICES ASSUME NEW v \in Worker, v # w PROVE WorkerOk(r, v)'
    OBVIOUS
  <2>1. WorkerOk(r, v)
    BY DEF RoundOk
  <2> QED
    BY <2>1 DEF WorkerOk, Started
<1>7. QueuesOk(r)'
  <2>1. \A c \in Node : QueueOk(r, up'[c]) /\ QueueOk(r, down'[c])
    BY DEF RoundOk, QueuesOk
  <2>2. \A v \in Worker : \A o \in OffsetsIn(up'[v]) : Sent(r, v, o)'
    BY <1>1 DEF RoundOk, QueuesOk, Node
  <2>3. \A t \in Tors : \A o \in OffsetsIn(up'[t]) : TwoLevel /\ Gathered(r, t, o)'
    BY <1>3, <1>4, <1>5 DEF RoundOk, QueuesOk
  <2>4. \A t \in Tors : \A o \in OffsetsIn(down'[t]) : TwoLevel /\ Complete(r, o)'
    BY <1>3, <1>4, <1>5 DEF RoundOk, QueuesOk
  <2>5. \A v \in Worker : \A o \in OffsetsIn(down'[v]) : Reached(r, TorOf[v], o)'
    <3> SUFFICES ASSUME NEW v \in Worker, NEW o \in OffsetsIn(down'[v])
                 PROVE  Reached(r, TorOf[v], o)'
      OBVIOUS
    <3>1. v \in Node /\ TorOf[v] \in Tors /\ o \in OffsetsIn(down[v])
      BY TopologyFacts DEF Node
    <3>2. o \in Offsets(r) /\ Reached(r, TorOf[v], o)
      BY <1>5, <3>1 DEF RoundOk, QueuesOk
    <3> QED
      BY <1>4, <3>1, <3>2
  <2> QED
    BY <2>1, <2>2, <2>3, <2>4, <2>5 DEF QueuesOk
<1>8. ResultsOk(r)'
  <2> SUFFICES ASSUME NEW v \in Worker, NEW o \in Offsets(r), HasResult(r, v, o)'
               PROVE  Reached(r, TorOf[v], o)' /\ o \notin OffsetsIn(down'[v])
    BY DEF ResultsOk
  <2>1. TorOf[v] \in Tors
    BY TopologyFacts
  <2>2. Reached(r, TorOf[v], o) /\ o \notin OffsetsIn(down'[v])
    BY <1>1, ResultFacts DEF RoundOk, Node
  <2> QED
    BY <1>4, <2>1, <2>2
<1>9. \A s \in Switch : SwitchOk(r, s)'
  BY <1>2, <1>3, SwitchesFrame
<1> QED
  BY <1>6, <1>7, <1>8, <1>9 DEF RoundOk

\* What a worker receives is new to it, and belongs to the allreduce it is in.
LEMMA ReceiveFacts ==
    ASSUME TypeOK, NEW r \in 0 .. Rounds, RoundOk(r), NEW w \in Worker,
           NEW o \in OffsetsIn(down[w])
    PROVE  /\ o \in Offsets(r) /\ Reached(r, TorOf[w], o) /\ Sent(r, w, o)
           /\ ~HasResult(r, w, o) /\ o \notin received_pkts[w]
           /\ phase[w] = "active" /\ allreduce_lock[w] = 0 /\ iter[w] = r /\ r < Rounds
           /\ num_pkts_expected[w] = Pkts[r + 1]
<1>1. o \in Offsets(r) /\ Reached(r, TorOf[w], o)
  BY QueueOffsets DEF RoundOk, QueuesOk, Node
<1>2. ~HasResult(r, w, o)
  BY <1>1 DEF RoundOk, ResultsOk
<1>3. Sent(r, w, o)
  <2>1. Taken(r, w, o)
    BY <1>1 DEF Reached, Complete, Node
  <2> QED
    BY <2>1 DEF Taken, Counted
<1>4. phase[w] = "active" /\ ~(allreduce_lock[w] > 0) /\ o \notin received_pkts[w]
  BY <1>2, <1>3 DEF Sent, Started, HasResult
<1>5. allreduce_lock[w] = 0 /\ iter[w] = r /\ r < Rounds /\ num_pkts_expected[w] = Pkts[r + 1]
  BY <1>4 DEF RoundOk, WorkerOk, Started
<1> QED
  BY <1>1, <1>2, <1>3, <1>4, <1>5

LEMMA ReceiveKeeps ==
    ASSUME TypeOK, deleted = {}, NEW r \in 0 .. Rounds, RoundOk(r), NEW w \in Worker,
           ReceiveResult(w)
    PROVE  RoundOk(r)'
<1> DEFINE p == Head(down[w])
           o == p.off
           set == received_pkts[w] \union {o}
<1>1. /\ down[w] # <<>> /\ down' = Pop(down, w)
      /\ phase' = phase /\ iter' = iter /\ num_pkts_expected' = num_pkts_expected
      /\ seen' = seen /\ count' = count
      /\ clean_ToR' = clean_ToR /\ clean_upper' = clean_upper
  BY DEF ReceiveResult
<1>2. /\ p \in Packet /\ Fits(r, p) /\ o \in OffsetsIn(down[w])
      /\ QueueOk(r, Tail(down[w])) /\ OffsetsIn(Tail(down[w])) = OffsetsIn(down[w]) \ {o}
  <2>1. down[w] \in Seq(Packet) /\ QueueOk(r, down[w])
    BY DEF TypeOK, RoundOk, QueuesOk, Node
  <2> QED
    BY <1>1, <2>1, QueueHead
<1>3. /\ o \in Offsets(r) /\ Reached(r, TorOf[w], o) /\ Sent(r, w, o)
      /\ ~HasResult(r, w, o) /\ o \notin received_pkts[w]
      /\ phase[w] = "active" /\ allreduce_lock[w] = 0 /\ iter[w] = r /\ r < Rounds
  BY <1>2, ReceiveFacts
\* The packet carries the tensor of the worker that completed the offset.
<1>4. num_pkts_expected[p.tensor] = Pkts[r + 1] /\ num_pkts_expected[w] = Pkts[r + 1]
  <2>1. p.tensor \in Worker
    BY <1>2 DEF Packet
  <2>2. Taken(r, p.tensor, o)
    BY <1>3, <2>1 DEF Reached, Complete, Node
  <2>3. Started(r, p.tensor)
    BY <2>1, <2>2 DEF Taken, Counted, Sent
  <2> QED
    BY <1>2, <2>1, <2>3, ReceiveFacts DEF RoundOk, WorkerOk
<1>5. \/ /\ Cardinality(set) = Pkts[r + 1]
         /\ received_pkts' = [received_pkts EXCEPT ![w] = {}]
         /\ allreduce_lock' = [allreduce_lock EXCEPT ![w] = @ + 1]
         /\ up' = up
      \/ /\ Cardinality(set) # Pkts[r + 1]
         /\ received_pkts' = [received_pkts EXCEPT ![w] = set]
         /\ up' = IF o + NumSlots < p.size THEN Push(up, {w}, NextPacket(p)) ELSE up
         /\ allreduce_lock' = allreduce_lock
  BY <1>4 DEF ReceiveResult, ExpectedRead
<1>6. /\ o \in Nat /\ p.size = Pkts[r + 1] /\ Offsets(r) \subseteq Nat
      /\ Offsets(r) = 0 .. Pkts[r + 1] - 1 /\ Pkts[r + 1] \in Nat \ {0}
      /\ IsFiniteSet(Offsets(r)) /\ Cardinality(Offsets(r)) = Pkts[r + 1]
      /\ CellOf(p) = CellAt(o)
  BY <1>2, <1>3, OffsetsType DEF Fits
<1>7. WorkerOk(r, w) /\ received_pkts[w] \subseteq Offsets(r)
  BY DEF RoundOk, WorkerOk
<1>8. ASSUME NEW x \in Nat, x < o, SlotOf(x) = SlotOf(o) PROVE x \in received_pkts[w]
  <2>1. HasResult(r, w, x)
    BY <1>3, <1>6, <1>7, <1>8, SentChain
  <2> QED
    BY <1>3, <2>1 DEF HasResult
<1>9. o + NumSlots \in Nat /\ o + NumSlots > o /\ SlotOf(o + NumSlots) = SlotOf(o)
  <2>1. o + NumSlots \in Nat /\ o + NumSlots > o
    BY <1>6, SlotsPositive
  <2> HIDE DEF p, o
  <2>2. SlotOf(o + NumSlots) = SlotOf(o)
    BY <1>6, NextTurn
  <2> QED
    BY <2>1, <2>2
<1>10. o + NumSlots \notin received_pkts[w]
  BY <1>3, <1>6, <1>7, <1>9 DEF WorkerOk
<1>11. /\ \A v \in Worker : v # w => /\ allreduce_lock'[v] = allreduce_lock[v]
                                     /\ received_pkts'[v] = received_pkts[v]
       /\ \A c \in Node : c # w => up'[c] = up[c] /\ down'[c] = down[c]
       /\ down'[w] = Tail(down[w])
  <2>1. w \in Node
    BY DEF Node
  <2> QED
    BY <1>1, <1>5, <2>1 DEF TypeOK, Push, Pop
<1> HIDE DEF p, o, set
<1>12. CASE Cardinality(set) = Pkts[r + 1]
  <2> SUFFICES ASSUME Cardinality(set) = Pkts[r + 1] PROVE RoundOk(r)'
    BY <1>12
  <2>1. /\ received_pkts' = [received_pkts EXCEPT ![w] = {}]
        /\ allreduce_lock' = [allreduce_lock EXCEPT ![w] = @ + 1]
        /\ up' = up
    BY <1>5
  <2>2. received_pkts'[w] = {} /\ allreduce_lock'[w] = 1 /\ up'[w] = up[w]
    BY <1>3, <2>1 DEF TypeOK
  <2>3. set = Offsets(r)
    <3>1. set \in SUBSET Offsets(r)
      BY <1>3, <1>7 DEF set
    <3> QED
      BY <1>6, <3>1, FS_Subset
  <2>4. WorkerOk(r, w)'
    BY <1>1, <1>3, <1>7, <2>2 DEF WorkerOk, Started
  <2>5. ASSUME NEW x \in Offsets(r) PROVE Sent(r, w, x) /\ Sent(r, w, x)'
    <3>1. Sent(r, w, x)'
      BY <1>1, <1>3, <2>2 DEF Sent, Started, HasResult
    <3>2. CASE x < NumSlots
      BY <1>3, <3>1, <3>2 DEF Sent, Started
    <3>3. CASE ~(x < NumSlots)
      <4> DEFINE y == x - NumSlots
      <4>1. y \in Nat /\ y <= x /\ y + NumSlots = x
        BY <1>6, <3>3, SlotsPositive
      <4> HIDE DEF y
      <4>2. y \in Offsets(r)
        BY <4>1, OffsetsBelow
      <4>3. y # o
        <5> SUFFICES ASSUME y = o PROVE FALSE
          OBVIOUS
        <5>1. o + NumSlots \in set
          BY <2>3, <4>1
        <5> QED
          BY <1>9, <1>10, <5>1 DEF set
      <4>4. y \in received_pkts[w]
        BY <2>3, <4>2, <4>3 DEF set
      <4> QED
        BY <1>3, <3>1, <4>4 DEF Sent, Started, HasResult, y
    <3> QED
      BY <3>1, <3>2, <3>3
  <2>6. \A x \in Offsets(r) : Counted(r, w, x)' <=> Counted(r, w, x)
    BY <2>2, <2>5 DEF Counted
  <2>7. QueueOk(r, up'[w]) /\ QueueOk(r, down'[w])
    BY <1>2, <1>11, <2>2 DEF RoundOk, QueuesOk, Node
  <2>8. \A x \in OffsetsIn(up'[w]) : Sent(r, w, x)'
    BY <2>2, <2>5, <2>7, QueueOffsets
  <2>9. OffsetsIn(down'[w]) \subseteq OffsetsIn(down[w])
    BY <1>2, <1>11
  <2>10. ASSUME NEW x \in Offsets(r)
         PROVE  Reached(r, TorOf[w], x) /\ x \notin OffsetsIn(down'[w])
    <3>1. CASE x = o
      BY <1>2, <1>3, <1>11, <3>1
    <3>2. CASE x # o
      <4>1. HasResult(r, w, x)
        BY <1>3, <2>3, <3>2 DEF HasResult, set
      <4> QED
        BY <2>9, <4>1, ResultFacts DEF RoundOk
    <3> QED
      BY <3>1, <3>2
  <2> QED
    BY <1>1, <1>11, <2>4, <2>6, <2>7, <2>8, <2>9, <2>10, OneWorkerKeeps
<1>13. CASE Cardinality(set) # Pkts[r + 1]
  <2> SUFFICES ASSUME Cardinality(set) # Pkts[r + 1] PROVE RoundOk(r)'
    BY <1>13
  <2>1. /\ received_pkts' = [received_pkts EXCEPT ![w] = set]
        /\ up' = IF o + NumSlots < p.size THEN Push(up, {w}, NextPacket(p)) ELSE up
        /\ allreduce_lock' = allreduce_lock
    BY <1>5
  <2>2. received_pkts'[w] = set /\ allreduce_lock'[w] = 0
    BY <1>3, <2>1 DEF TypeOK
  <2>3. WorkerOk(r, w)'
    <3>1. set \subseteq Offsets(r)
      BY <1>3, <1>7 DEF set
    <3>2. \A y \in set, x \in Offsets(r) : x < y /\ SlotOf(x) = SlotOf(y) => x \in set
      BY <1>6, <1>7, <1>8 DEF WorkerOk, set
    <3> QED
      BY <1>1, <1>3, <1>7, <2>2, <3>1, <3>2 DEF WorkerOk, Started
  <2>4. \A x : HasResult(r, w, x)' <=> HasResult(r, w, x) \/ x = o
    BY <1>1, <1>3, <2>2 DEF HasResult, set
  <2>5. \A x \in Offsets(r) : Sent(r, w, x)' <=> Sent(r, w, x) \/ x = o + NumSlots
    <3> SUFFICES ASSUME NEW x \in Offsets(r)
                 PROVE  Sent(r, w, x)' <=> Sent(r, w, x) \/ x = o + NumSlots
      OBVIOUS
    <3>1. Started(r, w) /\ Started(r, w)'
      BY <1>1, <1>3 DEF Started
    <3>2. x = o + NumSlots <=> ~(x < NumSlots) /\ x - NumSlots = o
      BY <1>6, SlotsPositive
    <3> QED
      BY <2>4, <3>1, <3>2 DEF Sent
  <2>6. ~Sent(r, w, o + NumSlots)
    <3>1. ~(o + NumSlots < NumSlots) /\ (o + NumSlots) - NumSlots = o
      BY <1>6, SlotsPositive
    <3> QED
      BY <1>3, <3>1 DEF Sent
  <2>7. o + NumSlots < p.size <=> o + NumSlots \in Offsets(r)
    BY <1>6, <1>9
  <2>8. /\ QueueOk(r, up'[w])
        /\ OffsetsIn(up'[w]) = OffsetsIn(up[w]) \union ({o + NumSlots} \cap Offsets(r))
    <3>1. w \in Node /\ up[w] \in Seq(Packet) /\ QueueOk(r, up[w])
      BY DEF TypeOK, RoundOk, QueuesOk, Node
    <3>2. CASE o + NumSlots \in Offsets(r)
      <4> DEFINE n == NextPacket(p)
      <4>1. n \in Packet
        BY <1>2, PacketType
      <4>2. n.off = o + NumSlots /\ n.size = Pkts[r + 1] /\ CellOf(n) = CellAt(o + NumSlots)
        <5>1. n.off = o + NumSlots /\ n.size = Pkts[r + 1] /\ CellOf(n) = <<p.slot, 1 - p.ver>>
          BY <1>6 DEF NextPacket, NewPacket, CellOf, o
        <5>2. p.slot = SlotOf(o) /\ p.ver = VersionOf(o)
          BY <1>6 DEF CellOf, CellAt
        <5> QED
          BY <1>6, <5>1, <5>2, NextTurn DEF CellAt
      <4> HIDE DEF n
      <4>3. Fits(r, n)
        BY <3>2, <4>2 DEF Fits
      <4>4. n.off \notin OffsetsIn(up[w])
        BY <2>6, <4>2 DEF RoundOk, QueuesOk
      <4>5. up'[w] = Append(up[w], n)
        BY <2>1, <2>7, <3>1, <3>2 DEF Push, n
      <4> QED
        BY <3>1, <3>2, <4>1, <4>2, <4>3, <4>4, <4>5, QueueAppend
    <3>3. CASE o + NumSlots \notin Offsets(r)
      BY <2>1, <2>7, <3>1, <3>3
    <3> QED
      BY <3>2, <3>3
  <2>9. \A x \in Offsets(r) : Counted(r, w, x)' <=> Counted(r, w, x)
    BY <2>5, <2>6, <2>8 DEF Counted
  <2>10. QueueOk(r, down'[w]) /\ OffsetsIn(down'[w]) \subseteq OffsetsIn(down[w])
    BY <1>2, <1>11
  <2>11. \A x \in OffsetsIn(up'[w]) : Sent(r, w, x)'
    <3> SUFFICES ASSUME NEW x \in OffsetsIn(up'[w]) PROVE Sent(r, w, x)'
      OBVIOUS
    <3>1. x \in Offsets(r)
      BY <2>8, QueueOffsets
    <3> QED
      BY <2>5, <2>8, <3>1 DEF RoundOk, QueuesOk
  <2>12. \A x \in Offsets(r) : HasResult(r, w, x)' =>
                Reached(r, TorOf[w], x) /\ x \notin OffsetsIn(down'[w])
    <3> SUFFICES ASSUME NEW x \in Offsets(r), HasResult(r, w, x)'
                 PROVE  Reached(r, TorOf[w], x) /\ x \notin OffsetsIn(down'[w])
      OBVIOUS
    <3>1. CASE x = o
      BY <1>2, <1>3, <1>11, <3>1
    <3>2. CASE x # o
      BY <2>4, <2>10, <3>2, ResultFacts DEF RoundOk
    <3> QED
      BY <3>1, <3>2
  <2> QED
    BY <1>1, <1>11, <2>3, <2>8, <2>9, <2>10, <2>11, <2>12, OneWorkerKeeps
<1> QED
  BY <1>12, <1>13

LEMMA FinishKeeps ==
    ASSUME TypeOK, NEW r \in 0 .. Rounds, RoundOk(r), NEW w \in Worker, FinishAllreduce(w)
    PROVE  RoundOk(r)'
<1>1. /\ phase[w] = "active" /\ allreduce_lock[w] = 1 /\ iter[w] = r /\ received_pkts[w] = {}
      /\ r < Rounds /\ num_pkts_expected[w] = Pkts[r + 1]
  BY DEF FinishAllreduce, RoundOk, WorkerOk, Started
<1>2. /\ phase' = [phase EXCEPT ![w] = "idle"] /\ iter' = [iter EXCEPT ![w] = @ + 1]
      /\ seen' = [s \in Switch |-> IF s \in Cleaned(w) THEN NoSeen ELSE seen[s]]
      /\ count' = [s \in Switch |-> IF s \in Cleaned(w) THEN NoCount ELSE count[s]]
      /\ allreduce_lock' = allreduce_lock /\ num_pkts_expected' = num_pkts_expected
      /\ received_pkts' = received_pkts /\ up' = up /\ down' = down
      /\ clean_ToR' = clean_ToR /\ clean_upper' = clean_upper
  BY DEF FinishAllreduce
<1>3. /\ phase'[w] = "idle" /\ iter'[w] = r + 1 /\ iter'[w] > r
      /\ \A v \in Worker : v # w => phase'[v] = phase[v] /\ iter'[v] = iter[v]
  BY <1>1, <1>2 DEF TypeOK
<1>4. \A o : /\ HasResult(r, w, o) /\ HasResult(r, w, o)'
             /\ Sent(r, w, o) /\ Sent(r, w, o)'
  BY <1>1, <1>3 DEF HasResult, Sent, Started
<1>5. ASSUME NEW v \in Worker
      PROVE  \A o : /\ HasResult(r, v, o)' <=> HasResult(r, v, o)
                    /\ Sent(r, v, o)' <=> Sent(r, v, o)
                    /\ Counted(r, v, o)' <=> Counted(r, v, o)
  <2>1. CASE v = w
    BY <1>2, <1>4, <2>1 DEF Counted
  <2>2. CASE v # w
    <3>1. \A o : HasResult(r, v, o)' <=> HasResult(r, v, o)
      BY <1>2, <1>3, <2>2 DEF HasResult
    <3>2. \A o : Sent(r, v, o)' <=> Sent(r, v, o)
      BY <1>3, <2>2, <3>1 DEF Sent, Started
    <3> QED
      BY <1>2, <3>1, <3>2 DEF Counted
  <2> QED
    BY <2>1, <2>2
<1>6. \A t \in Tors : up'[t] = up[t] /\ down'[t] = down[t]
  BY <1>2
<1>7. \A o \in Offsets(r) :
        /\ \A t \in Tors : Gathered(r, t, o)' <=> Gathered(r, t, o)
        /\ \A c \in Node : Taken(r, c, o)' <=> Taken(r, c, o)
        /\ Complete(r, o)' <=> Complete(r, o)
        /\ \A t \in Tors : Reached(r, t, o)' <=> Reached(r, t, o)
  BY <1>5, <1>6, WorkerFrame
<1>8. \A v \in Worker : WorkerOk(r, v)'
  <2> SUFFICES ASSUME NEW v \in Worker PROVE WorkerOk(r, v)'
    OBVIOUS
  <2>1. WorkerOk(r, v)
    BY DEF RoundOk
  <2>2. CASE v = w
    BY <1>1, <1>2, <1>3, <2>1, <2>2 DEF WorkerOk, Started
  <2>3. CASE v # w
    BY <1>2, <1>3, <2>1, <2>3 DEF WorkerOk, Started
  <2> QED
    BY <2>2, <2>3
<1>9. QueuesOk(r)'
  <2>1. \A c \in Node : /\ QueueOk(r, up[c]) /\ OffsetsIn(up[c]) \subseteq Offsets(r)
                        /\ QueueOk(r, down[c]) /\ OffsetsIn(down[c]) \subseteq Offsets(r)
    BY QueueOffsets DEF RoundOk, QueuesOk
  <2>2. \A t \in Tors : t \in Node
    BY MembersFacts
  <2>3. \A v \in Worker : \A o \in OffsetsIn(up'[v]) : Sent(r, v, o)'
    BY <1>2, <1>5 DEF RoundOk, QueuesOk
  <2>4. \A t \in Tors : \A o \in OffsetsIn(up'[t]) : TwoLevel /\ Gathered(r, t, o)'
    BY <1>2, <1>7, <2>1, <2>2 DEF RoundOk, QueuesOk
  <2>5. \A t \in Tors : \A o \in OffsetsIn(down'[t]) : TwoLevel /\ Complete(r, o)'
    BY <1>2, <1>7, <2>1, <2>2 DEF RoundOk, QueuesOk
  <2>6. \A v \in Worker : \A o \in OffsetsIn(down'[v]) : Reached(r, TorOf[v], o)'
    BY <1>2, <1>7, <2>1, TopologyFacts DEF RoundOk, QueuesOk, Node
  <2> QED
    BY <1>2, <2>1, <2>3, <2>4, <2>5, <2>6 DEF QueuesOk
<1>10. ResultsOk(r)'
  BY <1>2, <1>5, <1>7, TopologyFacts DEF RoundOk, ResultsOk
<1>11. ASSUME NEW s \in Switch PROVE SwitchOk(r, s)'
  <2>1. CASE s \in Cleaned(w)
    <3>1. IsClean(r, s)'
      BY <1>2, <1>3, <2>1 DEF IsClean, Cleaned
    <3> QED
      BY <1>2, <2>1, <3>1 DEF SwitchOk, NoSeen, NoCount
  <2>2. CASE s \notin Cleaned(w)
    <3>1. IsClean(r, s)' <=> IsClean(r, s)
      <4>1. \A v : Cleaned(v)' = Cleaned(v)
        BY <1>2 DEF Cleaned
      <4> QED
        BY <1>3, <2>2, <4>1 DEF IsClean
    <3>2. seen'[s] = seen[s] /\ count'[s] = count[s]
      BY <1>2, <2>2
    <3>3. /\ \A c \in Children(s), o \in Offsets(r) : Taken(r, c, o)' <=> Taken(r, c, o)
          /\ \A o \in Offsets(r) : Complete(r, o) => Complete(r, o)'
      BY <1>7, TopologyFacts
    <3>4. SwitchOk(r, s)
      BY DEF RoundOk
    <3> QED
      BY <3>1, <3>2, <3>3, <3>4, SwitchFrame
  <2> QED
    BY <2>1, <2>2
<1> QED
  BY <1>8, <1>9, <1>10, <1>11 DEF RoundOk

-----------------------------------------------------------------------------
(* A switch receives a packet that goes up.                                  *)

\* The latest offset a node has offered in a slot is one turn before the packet
\* of the slot that is on its way.
LEMMA LatestBefore ==
    ASSUME NEW r \in 0 .. Rounds, RoundOk(r), NEW c \in Node, NEW o \in OffsetsIn(up[c]),
           o \in Offsets(r), NEW x \in Offsets(r), SlotOf(x) = SlotOf(o), Latest(r, c, x)
    PROVE  x + NumSlots = o
<1>1. x \in Nat /\ o \in Nat /\ x + NumSlots \in Nat
  BY OffsetsType, SlotsPositive
<1>2. ~Taken(r, c, o) /\ ~Complete(r, o) /\ (c \in Worker \/ TwoLevel)
  BY OnItsWay
<1>3. Taken(r, c, x) /\ x # o
  BY <1>2 DEF Latest
<1>4. ~(o < x)
  BY <1>1, <1>2, <1>3, OfferedChain DEF Offered
<1>5. x < o /\ x + NumSlots <= o
  <2>1. x < o
    BY <1>1, <1>3, <1>4
  <2> QED
    BY <1>1, <2>1, SlotStep
<1>6. SlotOf(x + NumSlots) = SlotOf(o)
  BY <1>1, NextTurn
<1>7. ASSUME x + NumSlots < o PROVE FALSE
  <2>1. x + NumSlots \in Offsets(r) /\ Complete(r, x + NumSlots)
    BY <1>1, <1>6, <1>7, OfferedChain DEF Offered
  <2>2. Taken(r, c, x + NumSlots)
    BY <1>2, <2>1 DEF Complete
  <2> QED
    BY <2>1, <2>2 DEF Latest
<1> QED
  BY <1>1, <1>5, <1>7, SlotsPositive

LEMMA UpFacts ==
    ASSUME TypeOK, NEW r \in 0 .. Rounds, RoundOk(r), NEW c \in Node,
           NEW o \in OffsetsIn(up[c]), o \in Offsets(r)
    PROVE  LET s == Parent(c)
               K == TakenBy(r, s, o)
               n == NextCount(s, count[s][CellAt(o)])
           IN  /\ s \in Switch /\ ~IsClean(r, s) /\ SeenOk(r, s) /\ CountOk(r, s)
               /\ c \notin seen[s][CellAt(o)]
               /\ c \in Children(s) /\ c \notin K /\ K \subseteq Children(s)
               /\ \A x \in Offsets(r) : CellAt(x) = CellAt(o) /\ x # o => ~Partial(r, s, x)
               /\ n = IF K \union {c} = Children(s) THEN 0 ELSE Cardinality(K \union {c})
               /\ Cardinality(K \union {c}) # 0
<1> DEFINE s == Parent(c)
           K == TakenBy(r, s, o)
           n == NextCount(s, count[s][CellAt(o)])
<1>1. s \in Switch /\ c \in Children(s)
  BY TopologyFacts
<1>2. /\ ~Taken(r, c, o) /\ ~Complete(r, o) /\ (c \in Worker \/ TwoLevel)
      /\ \A w \in Worker : ~HasResult(r, w, o)
  BY OnItsWay
<1>3. c \notin K /\ K \subseteq Children(s)
  BY <1>2 DEF TakenBy
<1>4. ~IsClean(r, s)
  <2>1. \A w \in Worker : ~(iter[w] > r)
    BY <1>2 DEF HasResult
  <2>2. ~(s = Core /\ ~TwoLevel)
    BY <1>2, TopologyFacts DEF Parent
  <2> QED
    BY <2>1, <2>2 DEF IsClean
<1>5. SeenOk(r, s) /\ CountOk(r, s)
  BY <1>1, <1>4 DEF RoundOk, SwitchOk
<1>6. o \in Nat /\ CellAt(o) \in Cell
  BY OffsetsType, SlotType
<1>7. c \notin seen[s][CellAt(o)]
  <2> SUFFICES ASSUME NEW x \in Offsets(r), CellAt(x) = CellAt(o), Latest(r, c, x)
               PROVE  FALSE
    BY <1>5, <1>6 DEF SeenOk
  <2>1. SlotOf(x) = SlotOf(o) /\ VersionOf(x) = VersionOf(o) /\ x \in Nat
    BY OffsetsType DEF CellAt
  <2>2. x + NumSlots = o
    BY <2>1, LatestBefore
  <2>3. VersionOf(o) = 1 - VersionOf(x)
    BY <2>1, <2>2, NextTurn
  <2> QED
    BY <2>1, <2>3, SlotType DEF Version
<1>8. ASSUME NEW x \in Offsets(r), CellAt(x) = CellAt(o), x # o PROVE ~Partial(r, s, x)
  <2> SUFFICES ASSUME Partial(r, s, x) PROVE FALSE
    OBVIOUS
  <2>1. x \in Nat /\ SlotOf(x) = SlotOf(o)
    BY <1>8, OffsetsType DEF CellAt
  <2>2. CASE x < o
    <3>1. Complete(r, x)
      BY <2>1, <2>2, OfferedChain DEF Offered
    <3> QED
      BY <1>1, <3>1, CompleteNotPartial
  <2>3. CASE o < x
    <3>1. PICK d \in Children(s) : Taken(r, d, x)
      BY DEF Partial, TakenBy
    <3>2. d \in Node
      BY <1>1, TopologyFacts
    <3> QED
      BY <1>2, <1>6, <2>1, <2>3, <3>1, <3>2, OfferedChain DEF Offered
  <2> QED
    BY <1>6, <1>8, <2>1, <2>2, <2>3
<1>9. IF K = {} THEN count[s][CellAt(o)] \in {0, NWorkers}
      ELSE count[s][CellAt(o)] = Cardinality(K)
  <2>1. K = {} => ~Partial(r, s, o)
    BY DEF Partial
  <2>2. K # {} => Partial(r, s, o)
    BY <1>1, <1>3 DEF Partial
  <2>3. CASE K = {}
    <3>1. \A x \in Offsets(r) : CellAt(x) = CellAt(o) => ~Partial(r, s, x)
      BY <1>8, <2>1, <2>3
    <3> QED
      BY <1>5, <1>6, <2>3, <3>1 DEF CountOk
  <2>4. CASE K # {}
    BY <1>5, <1>6, <2>2, <2>4 DEF CountOk
  <2> QED
    BY <2>3, <2>4
<1>10. n = IF K \union {c} = Children(s) THEN 0 ELSE Cardinality(K \union {c})
  <2> HIDE DEF K, s
  <2> QED
    BY <1>1, <1>3, <1>9, CountsChildren
<1>11. Cardinality(K \union {c}) # 0
  <2>1. K \union {c} \in SUBSET Children(s)
    BY <1>1, <1>3
  <2>2. IsFiniteSet(K \union {c})
    BY <1>1, <2>1, ChildrenCounts, FS_Subset
  <2> HIDE DEF K, s
  <2> QED
    BY <2>2, FS_EmptySet
<1> QED
  BY <1>1, <1>3, <1>4, <1>5, <1>7, <1>8, <1>10, <1>11

\* With node c the switch above it has all its children for offset o.
LastChild(r, c, o) == TakenBy(r, Parent(c), o) \union {c} = Children(Parent(c))

\* The packet counts at the switch above its sender and nowhere else: at a ToR
\* switch below the core the last packet of an offset goes on its way up.
LEMMA UpTaken ==
    ASSUME NEW r \in 0 .. Rounds, RoundOk(r), NEW c \in Node,
           NEW o \in OffsetsIn(up[c]), o \in Offsets(r),
           phase' = phase, allreduce_lock' = allreduce_lock, iter' = iter,
           received_pkts' = received_pkts,
           OffsetsIn(up'[c]) = OffsetsIn(up[c]) \ {o},
           \A d \in Node : d # c /\ d # Parent(c) => up'[d] = up[d],
           Parent(c) \in Node => OffsetsIn(up'[Parent(c)]) = OffsetsIn(up[Parent(c)]) \union
                (IF LastChild(r, c, o) /\ ~TopLevel(Parent(c)) THEN {o} ELSE {})
    PROVE  /\ \A v \in Worker : \A x : HasResult(r, v, x)' <=> HasResult(r, v, x)
           /\ \A v \in Worker : \A x : Sent(r, v, x)' <=> Sent(r, v, x)
           /\ \A t \in Tors, x \in Offsets(r) : Gathered(r, t, x) => Gathered(r, t, x)'
           /\ LastChild(r, c, o) /\ Parent(c) \in Tors => Gathered(r, Parent(c), o)'
           /\ \A d \in Node, x \in Offsets(r) :
                Taken(r, d, x)' <=> Taken(r, d, x) \/ (d = c /\ x = o)
           /\ \A x \in Offsets(r) : x # o => (Complete(r, x)' <=> Complete(r, x))
           /\ Complete(r, o)' <=> LastChild(r, c, o) /\ TopLevel(Parent(c))
<1> SUFFICES
      ASSUME NEW s, s = Parent(c), NEW L, L = TakenBy(r, s, o) \union {c},
             LastChild(r, c, o) <=> L = Children(s),
             \A d \in Node : d # c /\ d # s => up'[d] = up[d],
             s \in Node => OffsetsIn(up'[s]) = OffsetsIn(up[s]) \union
                                (IF L = Children(s) /\ ~TopLevel(s) THEN {o} ELSE {})
      PROVE  /\ \A v \in Worker : \A x : HasResult(r, v, x)' <=> HasResult(r, v, x)
             /\ \A v \in Worker : \A x : Sent(r, v, x)' <=> Sent(r, v, x)
             /\ \A t \in Tors, x \in Offsets(r) : Gathered(r, t, x) => Gathered(r, t, x)'
             /\ L = Children(s) /\ s \in Tors => Gathered(r, s, o)'
             /\ \A d \in Node, x \in Offsets(r) :
                  Taken(r, d, x)' <=> Taken(r, d, x) \/ (d = c /\ x = o)
             /\ \A x \in Offsets(r) : x # o => (Complete(r, x)' <=> Complete(r, x))
             /\ Complete(r, o)' <=> L = Children(s) /\ TopLevel(s)
  BY DEF LastChild
<1>1. \A v \in Worker : \A x : HasResult(r, v, x)' <=> HasResult(r, v, x)
  BY DEF HasResult
<1>2. \A v \in Worker : \A x : Sent(r, v, x)' <=> Sent(r, v, x)
  BY <1>1 DEF Sent, Started
<1>3. /\ ~Taken(r, c, o) /\ (c \in Worker \/ TwoLevel)
  BY OnItsWay
<1>4. /\ s \in Switch /\ c \in Children(s) /\ s \notin Worker /\ s # c
      /\ c \in Worker => s \in Tors /\ c \in Members(s) /\ Children(s) = Members(s)
      /\ c \notin Worker => c \in Tors /\ s = Core /\ TwoLevel /\ Children(s) = Tors
      /\ s \in Node => c \in Worker
  <2>1. CASE c \in Worker
    <3>1. s = TorOf[c] /\ s \in Tors
      BY <2>1, TopologyFacts DEF Parent
    <3> QED
      BY <2>1, <3>1, MembersFacts DEF Members
  <2>2. CASE c \notin Worker
    <3>1. c \in Tors /\ s = Core
      BY <2>2 DEF Node, Parent
    <3>2. Core \notin Node
      BY TopologyAssumption
    <3> QED
      BY <1>3, <2>2, <3>1, <3>2, TopologyFacts DEF Children, Node
  <2> QED
    BY <2>1, <2>2
<1>5. \A v \in Worker : \A x : Counted(r, v, x)' <=> Counted(r, v, x) \/ (v = c /\ x = o)
  <2> SUFFICES ASSUME NEW v \in Worker, NEW x
               PROVE  Counted(r, v, x)' <=> Counted(r, v, x) \/ (v = c /\ x = o)
    OBVIOUS
  <2>1. CASE v = c
    <3>1. Sent(r, c, o)
      BY <2>1 DEF RoundOk, QueuesOk
    <3> QED
      BY <1>2, <2>1, <3>1 DEF Counted
  <2>2. CASE v # c
    <3>1. up'[v] = up[v]
      BY <1>4, <2>2 DEF Node
    <3> QED
      BY <1>2, <2>2, <3>1 DEF Counted
  <2> QED
    BY <2>1, <2>2
<1>6. ASSUME NEW t \in Tors, NEW x, x # o \/ t # s \/ c \notin Worker
      PROVE  Gathered(r, t, x)' <=> Gathered(r, t, x)
  <2>1. \A v \in Members(t) : v \in Worker /\ ~(v = c /\ x = o)
    BY <1>4, <1>6, MembersFacts DEF Members
  <2> QED
    BY <1>5, <2>1 DEF Gathered
<1>7. ASSUME c \in Worker
      PROVE  /\ s \in Tors /\ ~Gathered(r, s, o) /\ ~Taken(r, s, o)
             /\ Gathered(r, s, o)' <=> L = Children(s)
  <2>1. ~Counted(r, c, o)
    BY <1>3, <1>7 DEF Taken
  <2>2. ~Gathered(r, s, o) /\ ~Taken(r, s, o)
    BY <1>4, <1>7, <2>1 DEF Gathered, Taken
  <2>3. Gathered(r, s, o)' <=> \A v \in Members(s) : Counted(r, v, o) \/ v = c
    BY <1>4, <1>5, <1>7, MembersFacts DEF Gathered
  <2>4. TakenBy(r, s, o) = {v \in Members(s) : Counted(r, v, o)}
    BY <1>4, <1>7, MembersFacts DEF TakenBy, Taken
  <2> QED
    BY <1>4, <1>7, <2>2, <2>3, <2>4
<1>8. ASSUME NEW d \in Node, NEW x \in Offsets(r)
      PROVE  Taken(r, d, x)' <=> Taken(r, d, x) \/ (d = c /\ x = o)
  <2>1. CASE d \in Worker
    BY <1>5, <2>1 DEF Taken
  <2>2. CASE d \notin Worker /\ d = c
    <3>1. c \in Tors /\ c \notin Worker /\ TwoLevel
      BY <1>4, <2>2
    <3>2. Gathered(r, c, x)' <=> Gathered(r, c, x)
      BY <1>6, <3>1
    <3>3. Gathered(r, c, o)
      BY <3>1 DEF RoundOk, QueuesOk
    <3> QED
      BY <2>2, <3>1, <3>2, <3>3 DEF Taken
  <2>3. CASE d \notin Worker /\ d # c /\ d # s
    <3>1. d \in Tors /\ up'[d] = up[d]
      BY <2>3 DEF Node
    <3>2. Gathered(r, d, x)' <=> Gathered(r, d, x)
      BY <1>6, <2>3, <3>1
    <3> QED
      BY <2>3, <3>1, <3>2 DEF Taken
  <2>4. CASE d \notin Worker /\ d # c /\ d = s
    <3>1. c \in Worker /\ s \in Tors /\ s # Core
      BY <1>4, <2>4, TopologyFacts
    <3>2. CASE x # o
      <4>1. Gathered(r, s, x)' <=> Gathered(r, s, x)
        BY <1>6, <3>1, <3>2
      <4>2. x \in OffsetsIn(up'[s]) <=> x \in OffsetsIn(up[s])
        BY <2>4, <3>2
      <4> QED
        BY <2>4, <4>1, <4>2 DEF Taken
    <3>3. CASE x = o
      <4>1. ~Taken(r, s, o)
        BY <1>7, <3>1
      <4>2. ASSUME Taken(r, s, o)' PROVE FALSE
        <5>1. TwoLevel /\ Gathered(r, s, o)' /\ o \notin OffsetsIn(up'[s])
          BY <2>4, <4>2 DEF Taken
        <5>2. L = Children(s) /\ ~TopLevel(s)
          BY <1>7, <3>1, <5>1 DEF TopLevel
        <5> QED
          BY <2>4, <5>1, <5>2
      <4> QED
        BY <2>4, <3>3, <4>1, <4>2
    <3> QED
      BY <3>2, <3>3
  <2> QED
    BY <2>1, <2>2, <2>3, <2>4
<1>9. \A x \in Offsets(r) : x # o => (Complete(r, x)' <=> Complete(r, x))
  BY <1>8 DEF Complete
<1>10. Complete(r, o)' <=> \A d \in Node : d \in Worker \/ TwoLevel => Taken(r, d, o) \/ d = c
  BY <1>8 DEF Complete
<1>11. TakenBy(r, s, o) = {d \in Children(s) : Taken(r, d, o)}
  BY DEF TakenBy
<1>12. ASSUME L = Children(s), TopLevel(s) PROVE Complete(r, o)'
  <2>1. CASE c \in Worker
    <3>1. ~TwoLevel
      BY <1>4, <1>12, <2>1, TopologyFacts DEF TopLevel
    <3>2. Children(s) = Worker
      BY <1>4, <2>1, <3>1, OneTor
    <3> QED
      BY <1>10, <1>11, <1>12, <3>1, <3>2
  <2>2. CASE c \notin Worker
    <3>1. \A t \in Tors : Taken(r, t, o) \/ t = c
      BY <1>4, <1>11, <1>12, <2>2
    <3>2. \A t \in Tors : Gathered(r, t, o)
      <4>1. Gathered(r, c, o)
        BY <1>4, <2>2 DEF RoundOk, QueuesOk
      <4> QED
        BY <3>1, <4>1, MembersFacts DEF Taken
    <3>3. \A v \in Worker : Taken(r, v, o)
      <4> SUFFICES ASSUME NEW v \in Worker PROVE Taken(r, v, o)
        OBVIOUS
      <4>1. TorOf[v] \in Tors /\ v \in Members(TorOf[v])
        BY TopologyFacts DEF Members
      <4> QED
        BY <3>2, <4>1 DEF Gathered, Taken
    <3> QED
      BY <1>10, <3>1, <3>3 DEF Node
  <2> QED
    BY <2>1, <2>2
<1>13. ASSUME Complete(r, o)' PROVE L = Children(s) /\ TopLevel(s)
  <2>1. CASE c \in Worker
    <3>1. \A v \in Worker : Taken(r, v, o) \/ v = c
      BY <1>10, <1>13 DEF Node
    <3>2. L = Children(s)
      BY <1>4, <1>11, <2>1, <3>1 DEF Members
    <3>3. ~TwoLevel
      BY <1>4, <1>7, <1>10, <1>13, <2>1 DEF Node
    <3> QED
      BY <3>2, <3>3 DEF TopLevel
  <2>2. CASE c \notin Worker
    <3>1. \A t \in Tors : Taken(r, t, o) \/ t = c
      BY <1>4, <1>10, <1>13, <2>2 DEF Node
    <3> QED
      BY <1>4, <1>11, <2>2, <3>1 DEF TopLevel
  <2> QED
    BY <2>1, <2>2
<1>14. \A t \in Tors, x \in Offsets(r) : Gathered(r, t, x) => Gathered(r, t, x)'
  BY <1>5, MembersFacts DEF Gathered
<1>15. L = Children(s) /\ s \in Tors => Gathered(r, s, o)'
  BY <1>4, <1>7, TopologyFacts
<1> QED
  BY <1>1, <1>2, <1>8, <1>9, <1>12, <1>13, <1>14, <1>15

\* The counter of the cell of offset o with one more packet from node c.
CountWith(c, o) == NextCount(Parent(c), count[Parent(c)][CellAt(o)])

\* Mark and the counter keep what a switch knows of its cells.
LEMMA UpSwitches ==
    ASSUME TypeOK, NEW r \in 0 .. Rounds, RoundOk(r), NEW c \in Node,
           NEW o \in OffsetsIn(up[c]), o \in Offsets(r),
           NEW p \in Packet, CellOf(p) = CellAt(o),
           seen' = [seen EXCEPT ![Parent(c)] = Mark(seen[Parent(c)], p, c)],
           count' = SetCount(Parent(c), CellOf(p),
                             IF CountWith(c, o) = 0 /\ TopLevel(Parent(c)) THEN NWorkers
                             ELSE CountWith(c, o)),
           iter' = iter, clean_ToR' = clean_ToR, clean_upper' = clean_upper,
           \A d \in Node, x \in Offsets(r) :
                Taken(r, d, x)' <=> Taken(r, d, x) \/ (d = c /\ x = o),
           \A x \in Offsets(r) : x # o => (Complete(r, x)' <=> Complete(r, x)),
           Complete(r, o)' <=> LastChild(r, c, o) /\ TopLevel(Parent(c))
    PROVE  \A z \in Switch : SwitchOk(r, z)'
<1> SUFFICES
      ASSUME NEW s, s = Parent(c), NEW L, L = TakenBy(r, s, o) \union {c},
             NEW n, n = NextCount(s, count[s][CellAt(o)]),
             seen' = [seen EXCEPT ![s] = Mark(seen[s], p, c)],
             count' = SetCount(s, CellOf(p), IF n = 0 /\ TopLevel(s) THEN NWorkers ELSE n),
             Complete(r, o)' <=> L = Children(s) /\ TopLevel(s)
      PROVE  \A z \in Switch : SwitchOk(r, z)'
  BY DEF LastChild, CountWith
<1> DEFINE K == TakenBy(r, s, o)
           cell == CellAt(o)
<1>1. /\ s \in Switch /\ ~IsClean(r, s) /\ SeenOk(r, s) /\ CountOk(r, s)
      /\ c \in Children(s) /\ c \notin K /\ K \subseteq Children(s)
      /\ \A x \in Offsets(r) : CellAt(x) = cell /\ x # o => ~Partial(r, s, x)
      /\ n = IF K \union {c} = Children(s) THEN 0 ELSE Cardinality(K \union {c})
      /\ Cardinality(K \union {c}) # 0
  <2> HIDE DEF K, cell
  <2>1. /\ Parent(c) \in Switch /\ ~IsClean(r, Parent(c))
        /\ SeenOk(r, Parent(c)) /\ CountOk(r, Parent(c)) /\ c \in Children(Parent(c))
        /\ c \notin TakenBy(r, Parent(c), o)
        /\ TakenBy(r, Parent(c), o) \subseteq Children(Parent(c))
        /\ \A x \in Offsets(r) :
              CellAt(x) = CellAt(o) /\ x # o => ~Partial(r, Parent(c), x)
        /\ NextCount(Parent(c), count[Parent(c)][CellAt(o)]) =
              IF TakenBy(r, Parent(c), o) \union {c} = Children(Parent(c)) THEN 0
              ELSE Cardinality(TakenBy(r, Parent(c), o) \union {c})
        /\ Cardinality(TakenBy(r, Parent(c), o) \union {c}) # 0
    BY UpFacts
  <2> QED
    BY <2>1 DEF K, cell
<1>2. o \in Nat /\ cell \in Cell /\ OtherCellOf(p) = <<SlotOf(o), 1 - VersionOf(o)>>
  <2>1. o \in Nat /\ cell \in Cell
    BY OffsetsType, SlotType
  <2> QED
    BY <2>1 DEF CellOf, CellAt, OtherCellOf
<1>3. ~Taken(r, c, o) /\ ~Complete(r, o) /\ (c \in Worker \/ TwoLevel)
  BY OnItsWay
<1>4. \A z \in Switch : Children(z) \subseteq Node
  BY TopologyFacts
<1>5. \A z \in Switch : IsClean(r, z)' <=> IsClean(r, z)
  BY DEF IsClean, Cleaned
<1>6. \A d \in Node, x \in Offsets(r) : d # c => (Latest(r, d, x)' <=> Latest(r, d, x))
  BY DEF Latest
<1>7. Latest(r, c, o)'
  <2>1. Taken(r, c, o)'
    OBVIOUS
  <2>2. ASSUME o + NumSlots \in Offsets(r), Taken(r, c, o + NumSlots)' PROVE FALSE
    <3>1. o + NumSlots # o /\ o < o + NumSlots /\ SlotOf(o + NumSlots) = SlotOf(o)
      BY <1>2, SlotsPositive, NextTurn
    <3>2. Taken(r, c, o + NumSlots)
      BY <2>2, <3>1
    <3> QED
      BY <1>2, <1>3, <2>2, <3>1, <3>2, OfferedChain DEF Offered
  <2> QED
    BY <2>1, <2>2 DEF Latest
<1>8. ASSUME NEW x \in Offsets(r), x # o
      PROVE  Latest(r, c, x)' <=> Latest(r, c, x) /\ x + NumSlots # o
  BY <1>8 DEF Latest
<1>9. ASSUME NEW x \in Offsets(r), SlotOf(x) = SlotOf(o), x # o PROVE ~Latest(r, c, x)'
  BY <1>8, <1>9, LatestBefore
<1>10. ASSUME NEW x \in Offsets(r), SlotOf(x) # SlotOf(o)
       PROVE  x # o /\ (Latest(r, c, x)' <=> Latest(r, c, x))
  <2>1. x \in Nat
    BY OffsetsType
  <2>2. SlotOf(x + NumSlots) = SlotOf(x)
    BY <2>1, NextTurn
  <2> QED
    BY <1>8, <1>10, <2>2
<1>11. seen[s] \in [Cell -> SUBSET Node] /\ count[s] \in [Cell -> Nat]
  BY <1>1 DEF TypeOK
<1>12. /\ seen'[s] = Mark(seen[s], p, c)
       /\ count'[s] = [count[s] EXCEPT ![cell] = IF n = 0 /\ TopLevel(s) THEN NWorkers ELSE n]
       /\ \A z \in Switch : z # s => seen'[z] = seen[z] /\ count'[z] = count[z]
  BY <1>1 DEF TypeOK, SetCount
<1>13. SeenOk(r, s)'
  <2> SUFFICES ASSUME NEW e \in Cell
               PROVE  seen'[s][e] = {d \in Children(s) :
                        \E x \in Offsets(r) : CellAt(x) = e /\ Latest(r, d, x)'}
    BY DEF SeenOk
  <2>1. seen[s][e] = {d \in Children(s) :
                        \E x \in Offsets(r) : CellAt(x) = e /\ Latest(r, d, x)}
    BY <1>1 DEF SeenOk
  <2>2. \A d \in Children(s) : d # c =>
          ((\E x \in Offsets(r) : CellAt(x) = e /\ Latest(r, d, x)') <=> d \in seen[s][e])
    BY <1>1, <1>4, <1>6, <2>1
  <2>3. seen'[s][e] = IF e = OtherCellOf(p)
                      THEN (IF e = cell THEN seen[s][e] \union {c} ELSE seen[s][e]) \ {c}
                      ELSE IF e = cell THEN seen[s][e] \union {c} ELSE seen[s][e]
    <3>1. \A f \in [Cell -> SUBSET Node] : Mark(f, p, c)[e] =
            IF e = OtherCellOf(p)
            THEN (IF e = CellOf(p) THEN f[e] \union {c} ELSE f[e]) \ {c}
            ELSE IF e = CellOf(p) THEN f[e] \union {c} ELSE f[e]
      BY CellType DEF Mark
    <3>2. Mark(seen[s], p, c)[e] =
            IF e = OtherCellOf(p)
            THEN (IF e = CellOf(p) THEN seen[s][e] \union {c} ELSE seen[s][e]) \ {c}
            ELSE IF e = CellOf(p) THEN seen[s][e] \union {c} ELSE seen[s][e]
      BY <1>11, <3>1
    <3> QED
      BY <1>12, <3>2
  <2>4. cell # OtherCellOf(p)
    <3>1. VersionOf(o) # 1 - VersionOf(o)
      BY <1>2, SlotType DEF Version
    <3> QED
      BY <1>2, <3>1 DEF CellAt
  <2>5. CASE e = cell
    <3>1. \E x \in Offsets(r) : CellAt(x) = e /\ Latest(r, c, x)'
      BY <1>7, <2>5
    <3> QED
      BY <1>1, <2>1, <2>2, <2>3, <2>4, <2>5, <3>1
  <2>6. CASE e = OtherCellOf(p)
    <3>1. ~\E x \in Offsets(r) : CellAt(x) = e /\ Latest(r, c, x)'
      <4> SUFFICES ASSUME NEW x \in Offsets(r), CellAt(x) = e PROVE ~Latest(r, c, x)'
        OBVIOUS
      <4>1. SlotOf(x) = SlotOf(o)
        BY <1>2, <2>6 DEF CellAt
      <4>2. x # o
        BY <2>4, <2>6
      <4> QED
        BY <1>9, <4>1, <4>2
    <3> QED
      BY <1>1, <2>1, <2>2, <2>3, <2>4, <2>6, <3>1
  <2>7. CASE e # cell /\ e # OtherCellOf(p)
    <3>1. \A x \in Offsets(r) : CellAt(x) = e => SlotOf(x) # SlotOf(o)
      <4> SUFFICES ASSUME NEW x \in Offsets(r), CellAt(x) = e, SlotOf(x) = SlotOf(o)
                   PROVE  FALSE
        OBVIOUS
      <4>1. x \in Nat
        BY OffsetsType
      <4>2. VersionOf(x) \in {0, 1} /\ VersionOf(o) \in {0, 1}
        BY <1>2, <4>1, SlotType DEF Version
      <4>3. VersionOf(x) = VersionOf(o) \/ VersionOf(x) = 1 - VersionOf(o)
        BY <4>2
      <4> QED
        BY <1>2, <2>7, <4>3 DEF CellAt
    <3>2. (\E x \in Offsets(r) : CellAt(x) = e /\ Latest(r, c, x)') <=> c \in seen[s][e]
      BY <1>1, <1>10, <2>1, <3>1
    <3> QED
      BY <2>1, <2>2, <2>3, <2>7, <3>2
  <2> QED
    BY <2>5, <2>6, <2>7
<1>14. CountOk(r, s)'
  <2>1. \A x \in Offsets(r) : x # o => /\ TakenBy(r, s, x)' = TakenBy(r, s, x)
                                       /\ Partial(r, s, x)' <=> Partial(r, s, x)
    <3>1. ASSUME NEW x \in Offsets(r), x # o PROVE TakenBy(r, s, x)' = TakenBy(r, s, x)
      BY <1>1, <1>4, <3>1 DEF TakenBy
    <3> QED
      BY <3>1 DEF Partial
  <2>2. TakenBy(r, s, o)' = K \union {c}
    BY <1>1, <1>4 DEF TakenBy
  <2>3. Partial(r, s, o)' <=> L # Children(s)
    BY <2>2 DEF Partial
  <2> SUFFICES ASSUME NEW e \in Cell
               PROVE  /\ \A x \in Offsets(r) : CellAt(x) = e /\ Partial(r, s, x)'
                            => count'[s][e] = Cardinality(TakenBy(r, s, x)')
                      /\ (\A x \in Offsets(r) : CellAt(x) = e => ~Partial(r, s, x)')
                            => \/ count'[s][e] = 0
                               \/ /\ count'[s][e] = NWorkers
                                  /\ \E x \in Offsets(r) : Complete(r, x)'
    BY DEF CountOk
  <2>4. CASE e = cell
    <3>1. count'[s][e] = IF n = 0 /\ TopLevel(s) THEN NWorkers ELSE n
      BY <1>2, <1>11, <1>12, <2>4
    <3>2. ASSUME NEW x \in Offsets(r), CellAt(x) = e, Partial(r, s, x)'
          PROVE  count'[s][e] = Cardinality(TakenBy(r, s, x)')
      <4>1. x = o
        BY <1>1, <2>1, <2>4, <3>2
      <4>2. L # Children(s)
        BY <2>3, <3>2, <4>1
      <4>3. n = Cardinality(K \union {c}) /\ n # 0
        BY <1>1, <4>2
      <4> HIDE DEF K
      <4> QED
        BY <2>2, <3>1, <4>1, <4>3
    <3>3. ASSUME \A x \in Offsets(r) : CellAt(x) = e => ~Partial(r, s, x)'
          PROVE  \/ count'[s][e] = 0
                 \/ count'[s][e] = NWorkers /\ \E x \in Offsets(r) : Complete(r, x)'
      <4>1. L = Children(s)
        BY <2>3, <2>4, <3>3
      <4>2. n = 0
        BY <1>1, <4>1
      <4> QED
        BY <3>1, <4>1, <4>2
    <3> QED
      BY <3>2, <3>3
  <2>5. CASE e # cell
    <3>1. count'[s][e] = count[s][e]
      BY <1>2, <1>11, <1>12, <2>5
    <3>2. \A x \in Offsets(r) : CellAt(x) = e => x # o
      BY <2>5
    <3>3. \A x \in Offsets(r) : Complete(r, x) => Complete(r, x)'
      BY <1>3
    <3>4. /\ \A x \in Offsets(r) : CellAt(x) = e /\ Partial(r, s, x)
               => count[s][e] = Cardinality(TakenBy(r, s, x))
          /\ (\A x \in Offsets(r) : CellAt(x) = e => ~Partial(r, s, x))
               => \/ count[s][e] = 0
                  \/ count[s][e] = NWorkers /\ \E x \in Offsets(r) : Complete(r, x)
      BY <1>1 DEF CountOk
    <3> QED
      BY <2>1, <3>1, <3>2, <3>3, <3>4
  <2> QED
    BY <2>4, <2>5
<1>15. ASSUME NEW z \in Switch, z # s PROVE SwitchOk(r, z)'
  <2>1. \A d \in Children(z), x \in Offsets(r) : Taken(r, d, x)' <=> Taken(r, d, x)
    <3>1. c \notin Children(z)
      BY <1>15, ChildrenFacts
    <3> QED
      BY <1>4, <3>1
  <2>2. \A x \in Offsets(r) : Complete(r, x) => Complete(r, x)'
    BY <1>3
  <2>3. SwitchOk(r, z)
    BY DEF RoundOk
  <2> QED
    BY <1>5, <1>12, <1>15, <2>1, <2>2, <2>3, SwitchFrame
<1>16. SwitchOk(r, s)'
  BY <1>1, <1>5, <1>13, <1>14 DEF SwitchOk
<1> QED
  BY <1>15, <1>16

LEMMA UpKeeps ==
    ASSUME TypeOK, NEW r \in 0 .. Rounds, RoundOk(r), NEW c \in Node, SwitchReceiveUp(c)
    PROVE  RoundOk(r)' /\ c \notin seen[Parent(c)][CellOf(Head(up[c]))]
<1>93. PICK s : s = Parent(c)
  OBVIOUS
<1>90. PICK p : p = Head(up[c])
  OBVIOUS
<1>91. PICK o : o = p.off
  OBVIOUS
<1>92. PICK n : n = NextCount(s, count[s][CellAt(o)])
  OBVIOUS
<1>5. PICK L : L = TakenBy(r, s, o) \union {c}
  OBVIOUS
<1>1. /\ p \in Packet /\ Fits(r, p) /\ o \in OffsetsIn(up[c]) /\ up[c] # <<>>
      /\ QueueOk(r, Tail(up[c])) /\ OffsetsIn(Tail(up[c])) = OffsetsIn(up[c]) \ {o}
  <2>1. up[c] \in Seq(Packet) /\ QueueOk(r, up[c]) /\ up[c] # <<>>
    BY DEF TypeOK, RoundOk, QueuesOk, SwitchReceiveUp
  <2> QED
    BY <1>90, <1>91, <2>1, QueueHead
<1>2. o \in Offsets(r) /\ CellOf(p) = CellAt(o)
  BY <1>1, <1>91 DEF Fits
<1>3. /\ s \in Switch /\ c \in Children(s) /\ c \notin seen[s][CellOf(p)]
      /\ n = 0 <=> L = Children(s)
  <2>1. /\ s \in Switch /\ c \in Children(s) /\ c \notin seen[s][CellAt(o)]
        /\ n = IF L = Children(s) THEN 0 ELSE Cardinality(TakenBy(r, s, o) \union {c})
        /\ Cardinality(TakenBy(r, s, o) \union {c}) # 0
    BY <1>1, <1>2, <1>92, <1>93, <1>5, UpFacts
  <2> QED
    BY <1>2, <2>1
<1>4. /\ seen' = [seen EXCEPT ![s] = Mark(seen[s], p, c)]
      /\ count' = SetCount(s, CellOf(p), IF n = 0 /\ TopLevel(s) THEN NWorkers ELSE n)
      /\ down' = IF n = 0 /\ TopLevel(s) THEN Push(down, Children(s), p) ELSE down
      /\ up' = IF n = 0 /\ ~TopLevel(s) THEN Push(Pop(up, c), {s}, p) ELSE Pop(up, c)
      /\ phase' = phase /\ allreduce_lock' = allreduce_lock /\ iter' = iter
      /\ num_pkts_expected' = num_pkts_expected /\ received_pkts' = received_pkts
      /\ clean_ToR' = clean_ToR /\ clean_upper' = clean_upper
  BY <1>2, <1>3, <1>90, <1>91, <1>92, <1>93 DEF SwitchReceiveUp
<1>6. /\ ~Taken(r, c, o) /\ ~Complete(r, o) /\ (c \in Worker \/ TwoLevel)
      /\ \A w \in Worker : ~HasResult(r, w, o)
  BY <1>1, <1>2, OnItsWay
<1>7. /\ s # c /\ (s \in Node => c \in Worker /\ s \in Tors)
      /\ c \notin Worker => c \in Tors /\ s = Core /\ TwoLevel
  <2>1. CASE c \in Worker
    BY <1>93, <2>1, TopologyFacts, MembersFacts DEF Parent
  <2>2. CASE c \notin Worker
    BY <1>6, <1>93, <2>2, TopologyAssumption DEF Node, Parent
  <2> QED
    BY <2>1, <2>2
<1>8. /\ up'[c] = Tail(up[c])
      /\ \A d \in Node : d # c /\ d # s => up'[d] = up[d]
      /\ s \in Node => up'[s] = IF L = Children(s) /\ ~TopLevel(s) THEN Append(up[s], p) ELSE up[s]
  <2>1. /\ Pop(up, c)[c] = Tail(up[c]) /\ \A d \in Node : d # c => Pop(up, c)[d] = up[d]
    BY DEF TypeOK, Pop
  <2>2. \A d \in Node : Push(Pop(up, c), {s}, p)[d] =
                            IF d = s THEN Append(Pop(up, c)[d], p) ELSE Pop(up, c)[d]
    BY DEF Push
  <2> QED
    BY <1>3, <1>4, <1>7, <2>1, <2>2
<1>9. \A d \in Node : down'[d] = IF L = Children(s) /\ TopLevel(s) /\ d \in Children(s)
                                 THEN Append(down[d], p) ELSE down[d]
  BY <1>3, <1>4 DEF Push
<1>10. s \in Node /\ L = Children(s) /\ ~TopLevel(s) =>
          /\ QueueOk(r, up'[s]) /\ OffsetsIn(up'[s]) = OffsetsIn(up[s]) \union {o}
  <2> SUFFICES ASSUME s \in Node, L = Children(s), ~TopLevel(s)
               PROVE  /\ QueueOk(r, up'[s])
                      /\ OffsetsIn(up'[s]) = OffsetsIn(up[s]) \union {o}
    OBVIOUS
  <2>1. up[s] \in Seq(Packet) /\ QueueOk(r, up[s]) /\ up'[s] = Append(up[s], p)
    BY <1>8 DEF TypeOK, RoundOk, QueuesOk
  <2>2. o \notin OffsetsIn(up[s])
    <3> SUFFICES ASSUME o \in OffsetsIn(up[s]) PROVE FALSE
      OBVIOUS
    <3>1. Gathered(r, s, o)
      BY <1>7 DEF RoundOk, QueuesOk
    <3>2. Counted(r, c, o)
      BY <1>3, <1>7, <1>93, <3>1, MembersFacts DEF Gathered
    <3> QED
      BY <1>6, <1>7, <3>2 DEF Taken
  <2> QED
    BY <1>1, <2>1, <2>2, QueueAppend, <1>91
<1>11. s \in Node => OffsetsIn(up'[s]) = OffsetsIn(up[s]) \union
                                         (IF L = Children(s) /\ ~TopLevel(s) THEN {o} ELSE {})
  BY <1>8, <1>10
<1>12. OffsetsIn(up'[c]) = OffsetsIn(up[c]) \ {o}
  BY <1>1, <1>8
<1>13. /\ \A v \in Worker : \A x : HasResult(r, v, x)' <=> HasResult(r, v, x)
       /\ \A v \in Worker : \A x : Sent(r, v, x)' <=> Sent(r, v, x)
       /\ \A t \in Tors, x \in Offsets(r) : Gathered(r, t, x) => Gathered(r, t, x)'
       /\ L = Children(s) /\ s \in Tors => Gathered(r, s, o)'
       /\ \A d \in Node, x \in Offsets(r) :
            Taken(r, d, x)' <=> Taken(r, d, x) \/ (d = c /\ x = o)
       /\ \A x \in Offsets(r) : x # o => (Complete(r, x)' <=> Complete(r, x))
       /\ Complete(r, o)' <=> L = Children(s) /\ TopLevel(s)
  <2>1. LastChild(r, c, o) <=> L = Children(s)
    BY <1>5, <1>93 DEF LastChild
  <2>2. \A d \in Node : d # c /\ d # Parent(c) => up'[d] = up[d]
    BY <1>8, <1>93
  <2>3. Parent(c) \in Node => OffsetsIn(up'[Parent(c)]) = OffsetsIn(up[Parent(c)]) \union
                (IF LastChild(r, c, o) /\ ~TopLevel(Parent(c)) THEN {o} ELSE {})
    BY <1>11, <1>93, <2>1
  <2>4. /\ \A v \in Worker : \A x : HasResult(r, v, x)' <=> HasResult(r, v, x)
        /\ \A v \in Worker : \A x : Sent(r, v, x)' <=> Sent(r, v, x)
        /\ \A t \in Tors, x \in Offsets(r) : Gathered(r, t, x) => Gathered(r, t, x)'
        /\ LastChild(r, c, o) /\ Parent(c) \in Tors => Gathered(r, Parent(c), o)'
        /\ \A d \in Node, x \in Offsets(r) :
             Taken(r, d, x)' <=> Taken(r, d, x) \/ (d = c /\ x = o)
        /\ \A x \in Offsets(r) : x # o => (Complete(r, x)' <=> Complete(r, x))
        /\ Complete(r, o)' <=> LastChild(r, c, o) /\ TopLevel(Parent(c))
    BY <1>1, <1>2, <1>4, <1>12, <2>2, <2>3, UpTaken
  <2> QED
    BY <1>93, <2>1, <2>4
<1>14. \A x \in Offsets(r) : Complete(r, x) => x # o /\ Complete(r, x)'
  BY <1>6, <1>13
<1>15. ASSUME NEW d \in Node
       PROVE  /\ QueueOk(r, down'[d])
              /\ OffsetsIn(down'[d]) = OffsetsIn(down[d]) \union
                    (IF L = Children(s) /\ TopLevel(s) /\ d \in Children(s) THEN {o} ELSE {})
  <2>1. down[d] \in Seq(Packet) /\ QueueOk(r, down[d])
    BY DEF TypeOK, RoundOk, QueuesOk
  <2>2. o \notin OffsetsIn(down[d])
    BY <1>6 DEF RoundOk, QueuesOk, Reached, Node
  <2>3. CASE L = Children(s) /\ TopLevel(s) /\ d \in Children(s)
    <3>1. down'[d] = Append(down[d], p)
      BY <1>9, <2>3
    <3> QED
      BY <1>1, <2>1, <2>2, <2>3, <3>1, QueueAppend, <1>91
  <2>4. CASE ~(L = Children(s) /\ TopLevel(s) /\ d \in Children(s))
    BY <1>9, <2>1, <2>4
  <2> QED
    BY <2>3, <2>4
<1>16. \A d \in Node : /\ OffsetsIn(up[d]) \subseteq Offsets(r)
                       /\ OffsetsIn(down[d]) \subseteq Offsets(r)
  BY QueueOffsets DEF RoundOk, QueuesOk
<1>17. \A t \in Tors, x \in Offsets(r) : Reached(r, t, x) => x # o /\ Reached(r, t, x)'
  <2> SUFFICES ASSUME NEW t \in Tors, NEW x \in Offsets(r), Reached(r, t, x)
               PROVE  x # o /\ Reached(r, t, x)'
    OBVIOUS
  <2>1. Complete(r, x)' /\ x # o /\ x \notin OffsetsIn(down[t])
    BY <1>14 DEF Reached
  <2>2. x \notin OffsetsIn(down'[t])
    BY <1>15, <2>1, MembersFacts
  <2> QED
    BY <2>1, <2>2 DEF Reached
<1>18. \A v \in Worker : WorkerOk(r, v)'
  BY <1>4 DEF RoundOk, WorkerOk, Started
<1>19. QueuesOk(r)'
  <2>1. ASSUME NEW d \in Node PROVE QueueOk(r, up'[d]) /\ QueueOk(r, down'[d])
    <3>1. QueueOk(r, up[d])
      BY DEF RoundOk, QueuesOk
    <3>2. CASE d = c
      BY <1>1, <1>8, <1>15, <3>2
    <3>3. CASE d # c /\ d = s
      BY <1>8, <1>10, <1>15, <3>1, <3>3
    <3>4. CASE d # c /\ d # s
      BY <1>8, <1>15, <3>1, <3>4
    <3> QED
      BY <3>2, <3>3, <3>4
  <2>2. ASSUME NEW v \in Worker, NEW x \in OffsetsIn(up'[v]) PROVE Sent(r, v, x)'
    <3>1. v \in Node /\ v # s
      BY <1>7, MembersFacts DEF Node
    <3>2. x \in OffsetsIn(up[v])
      BY <1>8, <1>12, <2>2, <3>1
    <3> QED
      BY <1>13, <3>2 DEF RoundOk, QueuesOk
  <2>3. ASSUME NEW t \in Tors, NEW x \in OffsetsIn(up'[t])
        PROVE  TwoLevel /\ Gathered(r, t, x)'
    <3>1. t \in Node
      BY MembersFacts
    <3>2. CASE x \in OffsetsIn(up[t])
      BY <1>13, <1>16, <3>1, <3>2 DEF RoundOk, QueuesOk
    <3>3. CASE x \notin OffsetsIn(up[t])
      <4>1. t = s /\ L = Children(s) /\ ~TopLevel(s) /\ x = o
        BY <1>8, <1>11, <1>12, <2>3, <3>1, <3>3
      <4> QED
        BY <1>13, <4>1 DEF TopLevel
    <3> QED
      BY <3>2, <3>3
  <2>4. ASSUME NEW t \in Tors, NEW x \in OffsetsIn(down'[t])
        PROVE  TwoLevel /\ Complete(r, x)'
    <3>1. t \in Node /\ t \notin Worker
      BY MembersFacts
    <3>2. CASE x \in OffsetsIn(down[t])
      BY <1>14, <1>16, <3>1, <3>2 DEF RoundOk, QueuesOk
    <3>3. CASE x \notin OffsetsIn(down[t])
      <4>1. t \in Children(s) /\ L = Children(s) /\ TopLevel(s) /\ x = o
        BY <1>15, <2>4, <3>1, <3>3
      <4>2. s = Core
        BY <3>1, <4>1, MembersFacts, <1>3 DEF Children, Members
      <4>3. c \notin Worker
        BY <1>93, <4>2, TopologyFacts DEF Parent
      <4> QED
        BY <1>7, <1>13, <4>1, <4>3
    <3> QED
      BY <3>2, <3>3
  <2>5. ASSUME NEW v \in Worker, NEW x \in OffsetsIn(down'[v])
        PROVE  Reached(r, TorOf[v], x)'
    <3>1. v \in Node /\ TorOf[v] \in Tors
      BY TopologyFacts DEF Node
    <3>2. CASE x \in OffsetsIn(down[v])
      BY <1>16, <1>17, <3>1, <3>2 DEF RoundOk, QueuesOk
    <3>3. CASE x \notin OffsetsIn(down[v])
      <4>1. v \in Children(s) /\ L = Children(s) /\ TopLevel(s) /\ x = o
        BY <1>15, <2>5, <3>1, <3>3
      <4>2. s = TorOf[v] /\ s # Core
        BY <3>1, <4>1, ChildrenFacts, <1>3, TopologyFacts DEF Parent
      <4>3. ~TwoLevel /\ Complete(r, o)'
        BY <1>13, <4>1, <4>2 DEF TopLevel
      <4>4. OffsetsIn(down[s]) = {}
        BY <3>1, <4>2, <4>3 DEF RoundOk, QueuesOk
      <4>5. s \notin Children(s) /\ s \in Node
        BY <3>1, <4>2, MembersFacts DEF Members
      <4>6. OffsetsIn(down'[s]) = {}
        BY <1>15, <4>4, <4>5
      <4> QED
        BY <4>1, <4>2, <4>3, <4>6 DEF Reached
    <3> QED
      BY <3>2, <3>3
  <2> QED
    BY <2>1, <2>2, <2>3, <2>4, <2>5 DEF QueuesOk
<1>20. ResultsOk(r)'
  <2> SUFFICES ASSUME NEW v \in Worker, NEW x \in Offsets(r), HasResult(r, v, x)'
               PROVE  Reached(r, TorOf[v], x)' /\ x \notin OffsetsIn(down'[v])
    BY DEF ResultsOk
  <2>1. HasResult(r, v, x) /\ v \in Node /\ TorOf[v] \in Tors
    BY <1>13, TopologyFacts DEF Node
  <2>2. Reached(r, TorOf[v], x) /\ x \notin OffsetsIn(down[v])
    BY <2>1, ResultFacts DEF RoundOk
  <2> QED
    BY <1>15, <1>17, <2>1, <2>2
<1>21. \A z \in Switch : SwitchOk(r, z)'
  <2>1. LastChild(r, c, o) <=> L = Children(s)
    BY <1>5, <1>93 DEF LastChild
  <2>2. n = CountWith(c, o)
    BY <1>92, <1>93 DEF CountWith
  <2>4. /\ seen' = [seen EXCEPT ![Parent(c)] = Mark(seen[Parent(c)], p, c)]
        /\ count' = SetCount(Parent(c), CellOf(p),
                             IF CountWith(c, o) = 0 /\ TopLevel(Parent(c)) THEN NWorkers
                             ELSE CountWith(c, o))
    BY <1>4, <1>93, <2>2
  <2>3. Complete(r, o)' <=> LastChild(r, c, o) /\ TopLevel(Parent(c))
    BY <1>13, <1>93, <2>1
  <2> QED
    BY <1>1, <1>2, <1>4, <1>13, <2>3, <2>4, UpSwitches
<1> QED
  BY <1>3, <1>18, <1>19, <1>20, <1>21, <1>90, <1>93 DEF RoundOk

-----------------------------------------------------------------------------
(* A ToR switch receives a result that comes down.                           *)

LEMMA DownKeeps ==
    ASSUME TypeOK, deleted = {}, NEW r \in 0 .. Rounds, RoundOk(r), NEW t \in Tors,
           SwitchReceiveDown(t)
    PROVE  RoundOk(r)'
<1>91. PICK p : p = Head(down[t])
  OBVIOUS
<1>92. PICK o : o = p.off
  OBVIOUS
<1>1. /\ t \in Node /\ t \in Switch /\ t \notin Worker /\ t # Core
      /\ Children(t) = Members(t) /\ Members(t) \subseteq Worker /\ t \notin Children(t)
  BY MembersFacts
<1>2. /\ down[t] # <<>> /\ down' = Push(Pop(down, t), Children(t), p)
      /\ count' = SetCount(t, CellOf(p), NWorkers)
      /\ phase' = phase /\ allreduce_lock' = allreduce_lock /\ iter' = iter
      /\ num_pkts_expected' = num_pkts_expected /\ received_pkts' = received_pkts
      /\ up' = up /\ seen' = seen /\ clean_ToR' = clean_ToR /\ clean_upper' = clean_upper
  BY <1>91 DEF SwitchReceiveDown
<1>3. /\ p \in Packet /\ Fits(r, p) /\ o \in OffsetsIn(down[t])
      /\ QueueOk(r, Tail(down[t])) /\ OffsetsIn(Tail(down[t])) = OffsetsIn(down[t]) \ {o}
  <2>1. down[t] \in Seq(Packet) /\ QueueOk(r, down[t])
    BY <1>1 DEF TypeOK, RoundOk, QueuesOk
  <2> QED
    BY <1>2, <1>91, <1>92, <2>1, QueueHead
<1>4. /\ o \in Offsets(r) /\ o \in Nat /\ CellOf(p) = CellAt(o) /\ CellAt(o) \in Cell
      /\ TwoLevel /\ Complete(r, o) /\ ~Reached(r, t, o)
  <2>1. o \in Offsets(r) /\ CellOf(p) = CellAt(o)
    BY <1>3, <1>92 DEF Fits
  <2>2. TwoLevel /\ Complete(r, o) /\ ~Reached(r, t, o)
    BY <1>3 DEF RoundOk, QueuesOk, Reached
  <2> QED
    BY <2>1, <2>2, OffsetsType, SlotType
<1>5. \A w \in Members(t) : ~HasResult(r, w, o) /\ o \notin OffsetsIn(down[w])
  <2> SUFFICES ASSUME NEW w \in Members(t)
               PROVE  ~HasResult(r, w, o) /\ o \notin OffsetsIn(down[w])
    OBVIOUS
  <2>1. w \in Worker /\ TorOf[w] = t
    BY MembersFacts
  <2> QED
    BY <1>4, <2>1 DEF RoundOk, ResultsOk, QueuesOk
<1>6. /\ \A v, x : HasResult(r, v, x)' <=> HasResult(r, v, x)
      /\ \A v, x : Sent(r, v, x)' <=> Sent(r, v, x)
      /\ \A v, x : Counted(r, v, x)' <=> Counted(r, v, x)
      /\ \A z, x : Gathered(r, z, x)' <=> Gathered(r, z, x)
      /\ \A d, x : Taken(r, d, x)' <=> Taken(r, d, x)
      /\ \A x : Complete(r, x)' <=> Complete(r, x)
  <2>1. \A v, x : HasResult(r, v, x)' <=> HasResult(r, v, x)
    BY <1>2 DEF HasResult
  <2>2. \A v, x : Sent(r, v, x)' <=> Sent(r, v, x)
    BY <1>2, <2>1 DEF Sent, Started
  <2>3. \A v, x : Counted(r, v, x)' <=> Counted(r, v, x)
    BY <1>2, <2>2 DEF Counted
  <2>4. \A z, x : Gathered(r, z, x)' <=> Gathered(r, z, x)
    BY <2>3 DEF Gathered
  <2>5. \A d, x : Taken(r, d, x)' <=> Taken(r, d, x)
    BY <1>2, <2>3, <2>4 DEF Taken
  <2> QED
    BY <2>1, <2>2, <2>3, <2>4, <2>5 DEF Complete
<1>7. \A d \in Node : down'[d] = IF d = t THEN Tail(down[t])
                                 ELSE IF d \in Members(t) THEN Append(down[d], p)
                                 ELSE down[d]
  <2>1. \A d \in Node : Pop(down, t)[d] = IF d = t THEN Tail(down[t]) ELSE down[d]
    BY DEF TypeOK, Pop
  <2>2. \A d \in Node : down'[d] = IF d \in Members(t) THEN Append(Pop(down, t)[d], p)
                                   ELSE Pop(down, t)[d]
    BY <1>1, <1>2 DEF Push
  <2> QED
    BY <1>1, <2>1, <2>2
<1>8. ASSUME NEW d \in Node
      PROVE  /\ QueueOk(r, down'[d])
             /\ OffsetsIn(down'[d]) = IF d = t THEN OffsetsIn(down[t]) \ {o}
                                      ELSE IF d \in Members(t) THEN OffsetsIn(down[d]) \union {o}
                                      ELSE OffsetsIn(down[d])
  <2>1. down[d] \in Seq(Packet) /\ QueueOk(r, down[d])
    BY DEF TypeOK, RoundOk, QueuesOk
  <2>2. CASE d = t
    BY <1>3, <1>7, <2>2
  <2>3. CASE d # t /\ d \in Members(t)
    <3>1. down'[d] = Append(down[d], p) /\ o \notin OffsetsIn(down[d])
      BY <1>5, <1>7, <2>3
    <3> QED
      BY <1>3, <1>92, <2>1, <2>3, <3>1, QueueAppend
  <2>4. CASE d # t /\ d \notin Members(t)
    BY <1>7, <2>1, <2>4
  <2> QED
    BY <2>2, <2>3, <2>4
<1>9. \A z \in Tors : \A x : Reached(r, z, x)' <=> Reached(r, z, x) \/ (z = t /\ x = o)
  <2> SUFFICES ASSUME NEW z \in Tors, NEW x
               PROVE  Reached(r, z, x)' <=> Reached(r, z, x) \/ (z = t /\ x = o)
    OBVIOUS
  <2>1. z \in Node /\ z \notin Members(t)
    BY <1>1, MembersFacts
  <2> QED
    BY <1>4, <1>6, <1>8, <2>1 DEF Reached
<1>10. \A v \in Worker : WorkerOk(r, v)'
  BY <1>2 DEF RoundOk, WorkerOk, Started
<1>11. QueuesOk(r)'
  <2>1. \A d \in Node : QueueOk(r, up'[d]) /\ QueueOk(r, down'[d])
    BY <1>2, <1>8 DEF RoundOk, QueuesOk
  <2>2. \A v \in Worker : \A x \in OffsetsIn(up'[v]) : Sent(r, v, x)'
    BY <1>2, <1>6 DEF RoundOk, QueuesOk
  <2>3. \A z \in Tors : \A x \in OffsetsIn(up'[z]) : TwoLevel /\ Gathered(r, z, x)'
    BY <1>2, <1>6 DEF RoundOk, QueuesOk
  <2>4. ASSUME NEW z \in Tors, NEW x \in OffsetsIn(down'[z])
        PROVE  TwoLevel /\ Complete(r, x)'
    <3>1. z \in Node /\ z \notin Members(t)
      BY <1>1, MembersFacts
    <3>2. x \in OffsetsIn(down[z])
      BY <1>8, <2>4, <3>1
    <3> QED
      BY <1>6, <3>2 DEF RoundOk, QueuesOk
  <2>5. ASSUME NEW v \in Worker, NEW x \in OffsetsIn(down'[v])
        PROVE  Reached(r, TorOf[v], x)'
    <3>1. v \in Node /\ v # t /\ TorOf[v] \in Tors
      BY <1>1, TopologyFacts DEF Node
    <3>2. CASE x \in OffsetsIn(down[v])
      BY <1>9, <3>1, <3>2 DEF RoundOk, QueuesOk
    <3>3. CASE x \notin OffsetsIn(down[v])
      <4>1. v \in Members(t) /\ x = o
        BY <1>8, <2>5, <3>1, <3>3
      <4>2. TorOf[v] = t
        BY <4>1, MembersFacts
      <4> QED
        BY <1>9, <4>1, <4>2
    <3> QED
      BY <3>2, <3>3
  <2> QED
    BY <2>1, <2>2, <2>3, <2>4, <2>5 DEF QueuesOk
<1>12. ResultsOk(r)'
  <2> SUFFICES ASSUME NEW v \in Worker, NEW x \in Offsets(r), HasResult(r, v, x)'
               PROVE  Reached(r, TorOf[v], x)' /\ x \notin OffsetsIn(down'[v])
    BY DEF ResultsOk
  <2>1. HasResult(r, v, x) /\ v \in Node /\ v # t /\ TorOf[v] \in Tors
    BY <1>1, <1>6, TopologyFacts DEF Node
  <2>2. Reached(r, TorOf[v], x) /\ x \notin OffsetsIn(down[v])
    BY <2>1, ResultFacts DEF RoundOk
  <2>3. ~(v \in Members(t) /\ x = o)
    BY <1>5, <2>1
  <2>4. x \notin OffsetsIn(down'[v])
    <3>1. OffsetsIn(down'[v]) = IF v \in Members(t) THEN OffsetsIn(down[v]) \union {o}
                                ELSE OffsetsIn(down[v])
      BY <1>8, <2>1
    <3> QED
      BY <2>2, <2>3, <3>1
  <2>5. Reached(r, TorOf[v], x)'
    BY <1>9, <2>1, <2>2
  <2> QED
    BY <2>4, <2>5
<1>13. \A z : IsClean(r, z)' <=> IsClean(r, z)
  BY <1>2 DEF IsClean, Cleaned
<1>14. ASSUME NEW z \in Switch, z # t PROVE SwitchOk(r, z)'
  <2>1. count'[z] = count[z] /\ seen'[z] = seen[z]
    BY <1>2, <1>14 DEF TypeOK, SetCount
  <2>2. SwitchOk(r, z)
    BY DEF RoundOk
  <2> QED
    BY <1>6, <1>13, <2>1, <2>2, SwitchFrame
<1>15. SwitchOk(r, t)'
  <2>1. ~IsClean(r, t)
    <3> SUFFICES ASSUME NEW w \in Worker, iter[w] > r, t \in Cleaned(w) PROVE FALSE
      BY <1>1 DEF IsClean
    <3>1. t = TorOf[w]
      BY <1>1 DEF Cleaned
    <3>2. w \in Members(t) /\ HasResult(r, w, o)
      BY <3>1 DEF Members, HasResult
    <3> QED
      BY <1>5, <3>2
  <2>2. SeenOk(r, t) /\ CountOk(r, t)
    BY <1>1, <2>1 DEF RoundOk, SwitchOk
  <2>3. SeenOk(r, t)'
    <3>1. \A d, x : Latest(r, d, x)' <=> Latest(r, d, x)
      BY <1>6 DEF Latest
    <3> QED
      BY <1>2, <2>2, <3>1 DEF SeenOk
  <2>4. \A x : TakenBy(r, t, x)' = TakenBy(r, t, x) /\ (Partial(r, t, x)' <=> Partial(r, t, x))
    <3>1. \A x : TakenBy(r, t, x)' = TakenBy(r, t, x)
      BY <1>6 DEF TakenBy
    <3> QED
      BY <3>1 DEF Partial
  <2>5. ASSUME NEW x \in Offsets(r), CellAt(x) = CellAt(o) PROVE ~Partial(r, t, x)
    <3>1. x \in Nat /\ SlotOf(x) = SlotOf(o)
      BY <2>5, OffsetsType DEF CellAt
    <3>2. CASE x = o
      BY <1>1, <1>4, <3>2, CompleteNotPartial
    <3>3. CASE x < o
      <4>1. PICK w \in Worker : w \in Node
        BY WorkerAssumption DEF Node
      <4>2. Offered(r, w, o)
        BY <1>4, <4>1 DEF Complete, Offered
      <4>3. Complete(r, x)
        BY <1>4, <3>1, <3>3, <4>1, <4>2, OfferedChain
      <4> QED
        BY <1>1, <4>3, CompleteNotPartial
    <3>4. CASE o < x
      <4> SUFFICES ASSUME Partial(r, t, x) PROVE FALSE
        OBVIOUS
      <4>1. PICK w \in Members(t) : Taken(r, w, x)
        BY <1>1 DEF Partial, TakenBy
      <4>2. w \in Worker /\ w \in Node /\ Offered(r, w, x)
        BY <1>1, <4>1 DEF Node, Offered
      <4>3. HasResult(r, w, o)
        BY <1>4, <3>1, <3>4, <4>2, OfferedChain
      <4> QED
        BY <1>5, <4>3
    <3> QED
      BY <1>4, <3>1, <3>2, <3>3, <3>4
  <2>6. CountOk(r, t)'
    <3> SUFFICES ASSUME NEW e \in Cell
                 PROVE  /\ \A x \in Offsets(r) : CellAt(x) = e /\ Partial(r, t, x)'
                              => count'[t][e] = Cardinality(TakenBy(r, t, x)')
                        /\ (\A x \in Offsets(r) : CellAt(x) = e => ~Partial(r, t, x)')
                              => \/ count'[t][e] = 0
                                 \/ /\ count'[t][e] = NWorkers
                                    /\ \E x \in Offsets(r) : Complete(r, x)'
      BY DEF CountOk
    <3>1. count[t] \in [Cell -> Nat] /\ count'[t] = [count[t] EXCEPT ![CellAt(o)] = NWorkers]
      BY <1>1, <1>2, <1>4 DEF TypeOK, SetCount
    <3>2. CASE e = CellAt(o)
      <4>1. count'[t][e] = NWorkers /\ Complete(r, o)'
        BY <1>4, <1>6, <3>1, <3>2
      <4> QED
        BY <1>4, <2>4, <2>5, <3>2, <4>1
    <3>3. CASE e # CellAt(o)
      <4>1. count'[t][e] = count[t][e]
        BY <3>1, <3>3
      <4>2. /\ \A x \in Offsets(r) : CellAt(x) = e /\ Partial(r, t, x)
                 => count[t][e] = Cardinality(TakenBy(r, t, x))
            /\ (\A x \in Offsets(r) : CellAt(x) = e => ~Partial(r, t, x))
                 => \/ count[t][e] = 0
                    \/ count[t][e] = NWorkers /\ \E x \in Offsets(r) : Complete(r, x)
        BY <2>2 DEF CountOk
      <4> QED
        BY <1>6, <2>4, <4>1, <4>2
    <3> QED
      BY <3>2, <3>3
  <2> QED
    BY <1>13, <2>1, <2>3, <2>6 DEF SwitchOk
<1> QED
  BY <1>10, <1>11, <1>12, <1>14, <1>15 DEF RoundOk

-----------------------------------------------------------------------------
(* The invariant, and what it says of the properties.                        *)

\* The rounds follow each other, and the placement has set its cleaners.
GatedRounds == Gated /\ FlagInit \subseteq {FALSE}

\* The same for the rounds that no worker's end of the job follows.
OrderedRounds == GatedRounds /\ ~Teardown

LEMMA StartInRound ==
    ASSUME Gated, TypeOK, CleanersOk, NEW r \in 0 .. Rounds, RoundOk(r),
           NEW w \in Worker, StartAllreduce(w)
    PROVE  \E q \in 0 .. Rounds : RoundOk(q)'
<1>1. iter[w] < Rounds /\ \A v \in Worker : iter[v] >= iter[w]
  BY DEF StartAllreduce, MayStart
<1>2. \A v \in Worker : iter[v] \in {r, r + 1}
  BY DEF RoundOk, WorkerOk
<1>3. CASE iter[w] = r
  BY <1>3, StartKeeps
<1>4. CASE iter[w] = r + 1
  <2>1. r + 1 \in 0 .. Rounds
    BY <1>1, <1>4, SizeAssumption
  <2>2. \A v \in Worker : iter[v] = r + 1
    BY <1>1, <1>2, <1>4
  <2>3. RoundOk(r + 1)
    BY <2>1, <2>2, NextRound
  <2> QED
    BY <1>4, <2>1, <2>3, StartKeeps
<1> QED
  BY <1>2, <1>3, <1>4

LEMMA RoundNext == ASSUME GatedRounds, RoundInv, [Next]_vars, deleted' = {} PROVE RoundInv'
<1>1. TypeOK /\ CleanersOk /\ deleted = {} /\ Gated
  BY DEF RoundInv, GatedRounds
<1>2. PICK r \in 0 .. Rounds : RoundOk(r)
  BY DEF RoundInv
<1>3. TypeOK'
  BY <1>1, TypeNext
<1>4. clean_ToR' = clean_ToR /\ clean_upper' = clean_upper
  BY DEF Next, WorkerStep, StartAllreduce, DiscardResult, ReceiveResult, FinishAllreduce,
         DeleteTensor, SwitchReceiveUp, SwitchReceiveDown, Quiescent, vars
<1>5. CleanersOk'
  BY <1>1, <1>4 DEF CleanersOk
<1>7. \E q \in 0 .. Rounds : RoundOk(q)'
  <2>1. ASSUME NEW w \in Worker, StartAllreduce(w) PROVE \E q \in 0 .. Rounds : RoundOk(q)'
    BY <1>1, <1>2, <2>1, StartInRound
  <2>2. ASSUME NEW w \in Worker, DiscardResult(w) PROVE FALSE
    <3>1. down[w] # <<>> /\ Head(down[w]).off \in received_pkts[w]
      BY <1>1, <2>2 DEF DiscardResult
    <3>2. down[w] \in Seq(Packet) /\ QueueOk(r, down[w])
      BY <1>1, <1>2 DEF TypeOK, RoundOk, QueuesOk, Node
    <3>3. Head(down[w]).off \in OffsetsIn(down[w])
      BY <3>1, <3>2, QueueHead
    <3> QED
      BY <1>1, <1>2, <3>1, <3>3, ReceiveFacts
  <2>3. ASSUME NEW w \in Worker, ReceiveResult(w) PROVE RoundOk(r)'
    BY <1>1, <1>2, <2>3, ReceiveKeeps
  <2>4. ASSUME NEW w \in Worker, FinishAllreduce(w) PROVE RoundOk(r)'
    BY <1>1, <1>2, <2>4, FinishKeeps
  <2>5. ASSUME NEW w \in Worker, DeleteTensor(w) PROVE FALSE
    BY <1>1, <2>5 DEF DeleteTensor
  <2>6. ASSUME NEW c \in Node, SwitchReceiveUp(c) PROVE RoundOk(r)'
    BY <1>1, <1>2, <2>6, UpKeeps
  <2>7. ASSUME NEW t \in Tors, SwitchReceiveDown(t) PROVE RoundOk(r)'
    BY <1>1, <1>2, <2>7, DownKeeps
  <2>8. CASE UNCHANGED vars
    <3>1. RoundOk(r)'
      BY <1>2, <2>8 DEF vars, RoundOk, WorkerOk, Started, QueuesOk, ResultsOk, SwitchOk,
         IsClean, Cleaned, SeenOk, CountOk, Latest, Partial, TakenBy, Reached, Complete, Taken,
         Gathered, Counted, Sent, HasResult
    <3> QED
      BY <3>1
  <2> QED
    BY <2>1, <2>2, <2>3, <2>4, <2>5, <2>6, <2>7, <2>8, <1>2 DEF Next, WorkerStep, Quiescent
<1> QED
  BY <1>3, <1>5, <1>7 DEF RoundInv

\* The state of every packet, switch and worker of a round follows from what
\* the workers have received and from the queues: see RoundOk.
THEOREM RoundInvariant == ASSUME OrderedRounds PROVE Spec => []RoundInv
<1>1. Init => RoundInv
  BY RoundInit DEF OrderedRounds, GatedRounds
<1>2. RoundInv /\ [Next]_vars => RoundInv'
  <2> SUFFICES ASSUME RoundInv, [Next]_vars PROVE RoundInv'
    OBVIOUS
  <2>1. deleted = {} /\ ~Teardown /\ GatedRounds
    BY DEF RoundInv, OrderedRounds, GatedRounds
  <2>2. deleted' = {}
    BY <2>1 DEF Next, WorkerStep, StartAllreduce, DiscardResult, ReceiveResult,
       FinishAllreduce, DeleteTensor, SwitchReceiveUp, SwitchReceiveDown, Quiescent, vars
  <2> QED
    BY <2>1, <2>2, RoundNext
<1> QED
  BY <1>1, <1>2, PTL DEF Spec

-----------------------------------------------------------------------------
(* What follows from the invariant.                                          *)

LEMMA IndexOffsets ==
    ASSUME NEW q, NEW p \in PacketsIn(q)
    PROVE  p.off \in OffsetsIn(q) /\ \E i \in DOMAIN q : p = q[i]
BY DEF PacketsIn, OffsetsIn

\* Every worker has sent its packet for an offset whose result is made.
LEMMA CompleteSent ==
    ASSUME NEW r, NEW o, Complete(r, o), NEW v \in Worker
    PROVE  Sent(r, v, o) /\ Offered(r, v, o) /\ Started(r, v)
<1>1. Taken(r, v, o)
  BY DEF Complete, Node
<1>2. Sent(r, v, o)
  BY <1>1 DEF Taken, Counted
<1> QED
  BY <1>1, <1>2 DEF Offered, Sent

LEMMA RoundImpliesComplete ==
    ASSUME TypeOK, NEW r \in 0 .. Rounds, RoundOk(r) PROVE ResultIsComplete
<1> SUFFICES ASSUME NEW v \in Worker, NEW w \in Worker, InNetwork(w),
                    NEW p \in PacketsIn(down[w])
             PROVE  Contributed(v, iter[w], p.off)
  BY DEF ResultIsComplete
<1>1. PICK o \in OffsetsIn(down[w]) : o = p.off
  BY IndexOffsets
<1>2. Reached(r, TorOf[w], o) /\ iter[w] = r
  BY ReceiveFacts
<1>3. Sent(r, v, o)
  BY <1>2, CompleteSent DEF Reached
<1>4. iter[v] \in {r, r + 1}
  BY DEF RoundOk, WorkerOk
<1> QED
  BY <1>1, <1>2, <1>3, <1>4 DEF Contributed, Sent, Started, HasResult

LEMMA RoundImpliesNoShadow ==
    ASSUME TypeOK, NEW r \in 0 .. Rounds, RoundOk(r) PROVE NoShadowBuffer
<1> SUFFICES ASSUME NEW c \in Node, up[c] # <<>>
             PROVE  c \notin seen[Parent(c)][CellOf(Head(up[c]))]
  BY DEF NoShadowBuffer
<1>1. up[c] \in Seq(Packet) /\ QueueOk(r, up[c])
  BY DEF TypeOK, RoundOk, QueuesOk
<1>2. Fits(r, Head(up[c])) /\ Head(up[c]).off \in OffsetsIn(up[c])
  BY <1>1, QueueHead
<1>3. PICK o \in OffsetsIn(up[c]) : o = Head(up[c]).off
  BY <1>2
<1>4. o \in Offsets(r) /\ CellOf(Head(up[c])) = CellAt(o)
  BY <1>2, <1>3 DEF Fits
<1> QED
  BY <1>4, UpFacts

\* No queue holds two offsets of one slot.
LEMMA OnePerSlot ==
    ASSUME TypeOK, NEW r \in 0 .. Rounds, RoundOk(r), NEW c \in Node,
           NEW q, q = up[c] \/ q = down[c],
           NEW o \in OffsetsIn(q), NEW x \in OffsetsIn(q), SlotOf(x) = SlotOf(o)
    PROVE  x = o
<1>1. o \in Offsets(r) /\ x \in Offsets(r) /\ o \in Nat /\ x \in Nat
  BY QueueOffsets, OffsetsType DEF RoundOk, QueuesOk
<1>2. \A a, b \in OffsetsIn(q) : a < b /\ SlotOf(a) = SlotOf(b) => FALSE
  <2> SUFFICES ASSUME NEW a \in OffsetsIn(q), NEW b \in OffsetsIn(q), a < b,
                      SlotOf(a) = SlotOf(b)
               PROVE  FALSE
    OBVIOUS
  <2>1. a \in Offsets(r) /\ b \in Offsets(r) /\ a \in Nat /\ b \in Nat
    BY QueueOffsets, OffsetsType DEF RoundOk, QueuesOk
  <2>2. CASE q = up[c]
    <3>1. ~Complete(r, a)
      BY <2>2, OnItsWay
    <3> QED
      BY <2>1, <2>2, <3>1, OfferedChain DEF Offered
  <2>3. CASE q = down[c] /\ c \in Tors
    <3>1. Complete(r, b) /\ ~Reached(r, c, a)
      BY <2>3 DEF RoundOk, QueuesOk, Reached
    <3>2. PICK w \in Members(c) : w \in Worker /\ TorOf[w] = c /\ w \in Node
      BY <2>3, MembersFacts DEF Node
    <3>3. HasResult(r, w, a)
      BY <2>1, <3>1, <3>2, CompleteSent, OfferedChain
    <3> QED
      BY <2>1, <3>1, <3>2, <3>3, ResultFacts DEF RoundOk
  <2>4. CASE q = down[c] /\ c \in Worker
    <3>1. Complete(r, b) /\ ~HasResult(r, c, a)
      BY <2>1, <2>4 DEF RoundOk, QueuesOk, ResultsOk, Reached
    <3>2. HasResult(r, c, a)
      BY <2>1, <2>4, <3>1, CompleteSent, OfferedChain
    <3> QED
      BY <3>1, <3>2
  <2> QED
    BY <2>2, <2>3, <2>4 DEF Node
<1>3. ~(x < o) /\ ~(o < x)
  BY <1>2
<1> QED
  BY <1>1, <1>3

LEMMA RoundImpliesWindow ==
    ASSUME TypeOK, NEW r \in 0 .. Rounds, RoundOk(r) PROVE WindowBoundsQueues
<1> SUFFICES ASSUME NEW c \in Node, NEW q, q = up[c] \/ q = down[c]
             PROVE  Len(q) <= NumSlots
  BY DEF WindowBoundsQueues
<1>1. q \in Seq(Packet) /\ QueueOk(r, q)
  BY DEF TypeOK, RoundOk, QueuesOk
<1>2. OffsetsIn(q) \subseteq Nat
  BY <1>1, QueueOffsets, OffsetsType
<1> DEFINE n == Len(q)
           f == [i \in 1 .. n |-> SlotOf(q[i].off)]
<1>3. n \in Nat /\ DOMAIN q = 1 .. n
  BY <1>1
<1>4. \A i \in 1 .. n : q[i].off \in OffsetsIn(q)
  BY <1>3 DEF OffsetsIn
<1>5. \A i \in 1 .. n : SlotOf(q[i].off) \in Slot
  BY <1>2, <1>4, SlotType
<1>6. \A i, j \in 1 .. n : SlotOf(q[i].off) = SlotOf(q[j].off) => i = j
  <2> SUFFICES ASSUME NEW i \in 1 .. n, NEW j \in 1 .. n,
                      SlotOf(q[i].off) = SlotOf(q[j].off)
               PROVE  i = j
    OBVIOUS
  <2>1. q[i].off = q[j].off
    BY <1>4, OnePerSlot
  <2> QED
    BY <1>1, <1>3, <2>1 DEF QueueOk
<1> HIDE DEF n
<1>7. f \in Injection(1 .. n, Slot)
  BY <1>5, <1>6 DEF Injection, IsInjective
<1>8. IsFiniteSet(1 .. n) /\ Cardinality(1 .. n) = n
  <2>1. 1 \in Int /\ n \in Int /\ n >= 0
    BY <1>3
  <2>2. IsFiniteSet(1 .. n) /\ Cardinality(1 .. n) = IF 1 > n THEN 0 ELSE n - 1 + 1
    BY <2>1, FS_Interval
  <2> QED
    BY <2>1, <2>2
<1>9. IsFiniteSet(Slot) /\ Cardinality(Slot) = NumSlots
  <2> DEFINE b == NumSlots - 1
  <2>1. 0 \in Int /\ b \in Int /\ b >= 0 /\ b + 1 = NumSlots
    BY SlotsPositive
  <2> HIDE DEF b
  <2>2. IsFiniteSet(0 .. b) /\ Cardinality(0 .. b) = IF 0 > b THEN 0 ELSE b - 0 + 1
    BY <2>1, FS_Interval
  <2> QED
    BY <2>1, <2>2 DEF Slot, b
<1> HIDE DEF f
<1>10. Cardinality(1 .. n) <= Cardinality(Slot)
  BY <1>7, <1>9, FS_Injection
<1> QED
  BY <1>8, <1>9, <1>10 DEF n

LEMMA RoundImpliesClean ==
    ASSUME TypeOK, CleanersOk, NEW r \in 0 .. Rounds, RoundOk(r)
    PROVE  SwitchesCleanBetweenRounds
<1> SUFFICES ASSUME \A v, w \in Worker : phase[v] = "idle" /\ iter[v] = iter[w],
                    NEW s \in Switch
             PROVE  seen[s] = NoSeen /\ count[s] = NoCount
  BY DEF SwitchesCleanBetweenRounds
<1>1. PICK w : w \in Worker
  BY WorkerAssumption
<1>2. iter[w] \in {r, r + 1}
  BY <1>1 DEF RoundOk, WorkerOk
<1>3. CASE iter[w] = r + 1
  BY <1>1, <1>3, RoundOver
<1>4. CASE iter[w] = r
  <2>1. \A v \in Worker : ~Started(r, v)
    BY <1>1, <1>4 DEF Started
  <2>2. \A v \in Worker : \A o : ~Counted(r, v, o)
    BY <2>1 DEF Counted, Sent
  <2>3. \A c \in Node : \A o : ~Taken(r, c, o)
    <3> SUFFICES ASSUME NEW c \in Node, NEW o PROVE ~Taken(r, c, o)
      OBVIOUS
    <3>1. c \notin Worker => \E v \in Members(c) : v \in Worker
      BY MembersFacts DEF Node
    <3> QED
      BY <2>2, <3>1 DEF Taken, Gathered
  <2>4. \A c \in Children(s) : c \in Node
    BY TopologyFacts
  <2>5. \A o : TakenBy(r, s, o) = {} /\ ~Partial(r, s, o)
    BY <2>3, <2>4 DEF TakenBy, Partial
  <2>6. \A o : ~Complete(r, o)
    BY <1>1, <2>3 DEF Complete, Node
  <2>7. seen[s] \in [Cell -> SUBSET Node] /\ count[s] \in [Cell -> Nat]
    BY DEF TypeOK
  <2>8. SwitchOk(r, s)
    BY DEF RoundOk
  <2>9. CASE IsClean(r, s)
    BY <2>8, <2>9 DEF SwitchOk
  <2>10. CASE ~IsClean(r, s)
    <3>1. SeenOk(r, s) /\ CountOk(r, s)
      BY <2>8, <2>10 DEF SwitchOk
    <3>2. \A cell \in Cell : seen[s][cell] = {}
      BY <2>3, <2>4, <3>1 DEF SeenOk, Latest
    <3>3. \A cell \in Cell : count[s][cell] = 0
      BY <2>5, <2>6, <3>1 DEF CountOk
    <3>4. seen[s] = NoSeen
      BY <2>7, <3>2 DEF NoSeen
    <3>5. count[s] = NoCount
      BY <2>7, <3>3 DEF NoCount
    <3> QED
      BY <3>4, <3>5
  <2> QED
    BY <2>9, <2>10
<1> QED
  BY <1>2, <1>3, <1>4

LEMMA RoundImpliesAligned ==
    ASSUME TypeOK, NEW r \in 0 .. Rounds, RoundOk(r) PROVE CellsAreAligned
<1>1. ASSUME NEW c \in Node, NEW d \in Node, NEW x \in OffsetsIn(up[c]),
             NEW o \in OffsetsIn(up[d]), SlotOf(x) = SlotOf(o), x < o
      PROVE  FALSE
  <2>1. x \in Offsets(r) /\ o \in Offsets(r) /\ x \in Nat /\ o \in Nat
    BY QueueOffsets, OffsetsType DEF RoundOk, QueuesOk
  <2>2. ~Complete(r, x)
    BY OnItsWay
  <2> QED
    BY <1>1, <2>1, <2>2, OfferedChain DEF Offered
<1> SUFFICES ASSUME NEW c \in Node, NEW d \in Node,
                    NEW p \in PacketsIn(up[c]), NEW q \in PacketsIn(up[d]),
                    CellOf(p) = CellOf(q)
             PROVE  p.off = q.off
  BY DEF CellsAreAligned
<1>2. PICK x \in OffsetsIn(up[c]) : x = p.off
  BY IndexOffsets
<1>3. PICK o \in OffsetsIn(up[d]) : o = q.off
  BY IndexOffsets
<1>4. Fits(r, p) /\ Fits(r, q)
  BY DEF RoundOk, QueuesOk, QueueOk, PacketsIn
<1>5. SlotOf(x) = SlotOf(o) /\ x \in Nat /\ o \in Nat
  <2>1. x \in Offsets(r) /\ o \in Offsets(r) /\ CellAt(x) = CellAt(o)
    BY <1>2, <1>3, <1>4 DEF Fits
  <2>2. SlotOf(x) = SlotOf(o)
    BY <2>1 DEF CellAt
  <2> QED
    BY <2>1, <2>2, OffsetsType
<1>6. ~(x < o) /\ ~(o < x)
  BY <1>1, <1>5
<1> QED
  BY <1>2, <1>3, <1>5, <1>6

LEMMA RoundImpliesOnce ==
    ASSUME TypeOK, NEW r \in 0 .. Rounds, RoundOk(r)
    PROVE  ResultsArriveOnce /\ ResultsArriveInside
<1>1. ResultsArriveOnce
  <2> SUFFICES ASSUME NEW w \in Worker, NEW i \in DOMAIN down[w], NEW j \in DOMAIN down[w]
               PROVE  /\ down[w][i].off \notin received_pkts[w]
                      /\ i # j => down[w][i].off # down[w][j].off
    BY DEF ResultsArriveOnce
  <2>1. PICK o \in OffsetsIn(down[w]) : o = down[w][i].off
    BY DEF OffsetsIn
  <2>2. o \notin received_pkts[w]
    BY ReceiveFacts
  <2>3. QueueOk(r, down[w])
    BY DEF RoundOk, QueuesOk, Node
  <2> QED
    BY <2>1, <2>2, <2>3 DEF QueueOk
<1>2. ResultsArriveInside
  <2> SUFFICES ASSUME NEW w \in Worker, down[w] # <<>> PROVE InNetwork(w)
    BY DEF ResultsArriveInside
  <2>1. down[w] \in Seq(Packet)
    BY DEF TypeOK, Node
  <2>2. PICK o : o \in OffsetsIn(down[w])
    BY <2>1, QueueNonempty
  <2> QED
    BY <2>2, ReceiveFacts DEF InNetwork
<1> QED
  BY <1>1, <1>2

-----------------------------------------------------------------------------
(* The end of the job.                                                     *)

\* What is left of the last round when a worker deletes its tensor: every packet
\* has gone up, and no result that comes down asks for another.
Winding ==
    /\ \A c \in Node : up[c] = <<>>
    /\ \A c \in Node : \A p \in PacketsIn(down[c]) : ~(p.off + NumSlots < p.size)
    /\ \A w \in Worker : iter[w] >= Rounds \/ (phase[w] = "active" /\ iter[w] + 1 >= Rounds)

EndInv == TypeOK /\ (RoundInv \/ Winding)

\* What a round says once its results are all made.
LEMMA AllMade ==
    ASSUME TypeOK, NEW r \in 0 .. Rounds, RoundOk(r), r + 1 = Rounds,
           \A o \in Offsets(r) : Complete(r, o)
    PROVE  Winding
<1>1. /\ r < Rounds /\ 0 \in Offsets(r) /\ Pkts[r + 1] \in Nat
      /\ Offsets(r) = 0 .. Pkts[r + 1] - 1
  BY SizeAssumption, OffsetsType
<1>2. /\ up \in [Node -> Seq(Packet)] /\ down \in [Node -> Seq(Packet)]
      /\ iter \in [Worker -> Nat]
  BY DEF TypeOK
<1>3. \A c \in Node : QueueOk(r, up[c]) /\ QueueOk(r, down[c])
  BY DEF RoundOk, QueuesOk
<1>4. \A c \in Node : OffsetsIn(up[c]) \subseteq Offsets(r)
  BY <1>3 DEF QueueOk, OffsetsIn, Fits
<1>5. ASSUME NEW c \in Node PROVE up[c] = <<>>
  <2>1. CASE c \in Worker
    <3>1. \A o \in Offsets(r) : o \notin OffsetsIn(up[c])
      BY <2>1 DEF Complete, Taken, Counted
    <3> QED
      BY <1>2, <1>4, <3>1, QueueNonempty
  <2>2. CASE c \notin Worker
    <3>1. c \in Tors /\ \A o \in OffsetsIn(up[c]) : TwoLevel
      BY <2>2 DEF Node, RoundOk, QueuesOk
    <3>2. \A o \in Offsets(r) : TwoLevel => o \notin OffsetsIn(up[c])
      BY <2>2 DEF Complete, Taken
    <3> QED
      BY <1>2, <1>4, <3>1, <3>2, QueueNonempty
  <2> QED
    BY <2>1, <2>2
<1>6. ASSUME NEW o \in Offsets(r), o + NumSlots \in Offsets(r), NEW v \in Worker
      PROVE  HasResult(r, v, o)
  <2>1. o \in Nat /\ ~(o + NumSlots < NumSlots) /\ (o + NumSlots) - NumSlots = o
    BY <1>1, SlotsPositive
  <2>2. Sent(r, v, o + NumSlots)
    BY <1>6, CompleteSent
  <2> QED
    BY <2>1, <2>2 DEF Sent
<1>7. ASSUME NEW c \in Node, NEW p \in PacketsIn(down[c]), p.off + NumSlots < p.size
      PROVE  FALSE
  <2>1. p.off \in OffsetsIn(down[c]) /\ Fits(r, p)
    BY <1>3, IndexOffsets DEF QueueOk
  <2>2. p.off \in Offsets(r) /\ p.size = Pkts[r + 1]
    BY <2>1 DEF Fits
  <2>3. p.off + NumSlots \in Offsets(r)
    BY <1>1, <1>7, <2>2, SlotsPositive
  <2>4. CASE c \in Worker
    BY <1>6, <2>1, <2>2, <2>3, <2>4 DEF RoundOk, ResultsOk
  <2>5. CASE c \notin Worker
    <3>1. PICK v \in Worker : TorOf[v] = c
      BY <2>5 DEF Node, Tors
    <3>2. Reached(r, c, p.off)
      BY <1>6, <2>2, <2>3, <3>1 DEF RoundOk, ResultsOk
    <3> QED
      BY <2>1, <3>2 DEF Reached
  <2> QED
    BY <2>4, <2>5
<1>8. ASSUME NEW w \in Worker
      PROVE  iter[w] >= Rounds \/ (phase[w] = "active" /\ iter[w] + 1 >= Rounds)
  <2>1. Started(r, w) /\ iter[w] \in {r, r + 1}
    BY <1>1, CompleteSent DEF RoundOk, WorkerOk
  <2> QED
    BY <1>1, <2>1, SizeAssumption DEF Started
<1> QED
  BY <1>5, <1>7, <1>8 DEF Winding

\* A worker deletes its tensor only when all results of the last round are made.
LEMMA FirstDelete ==
    ASSUME RoundInv, NEW w \in Worker, DeleteTensor(w) PROVE Winding
<1>1. TypeOK /\ phase[w] = "idle" /\ iter[w] = Rounds
  BY DEF RoundInv, DeleteTensor
<1>2. PICK r \in 0 .. Rounds : RoundOk(r)
  BY DEF RoundInv
<1>3. r \in Nat /\ iter[w] \in {r, r + 1}
  BY <1>2, SizeAssumption DEF RoundOk, WorkerOk
<1>4. CASE r + 1 = Rounds
  <2>1. \A o \in Offsets(r) : HasResult(r, w, o)
    BY <1>1, <1>3, <1>4, SizeAssumption DEF HasResult
  <2>2. \A o \in Offsets(r) : Complete(r, o)
    BY <1>2, <2>1 DEF RoundOk, ResultsOk, Reached
  <2> QED
    BY <1>1, <1>2, <1>4, <2>2, AllMade
<1>5. CASE r = Rounds
  <2>1. \A c \in Node : QueueOk(r, up[c]) /\ QueueOk(r, down[c])
    BY <1>2 DEF RoundOk, QueuesOk
  <2>2. Offsets(r) = {}
    BY <1>5, SizeAssumption DEF Offsets
  <2>3. \A q : QueueOk(r, q) => OffsetsIn(q) = {}
    BY <2>2 DEF QueueOk, OffsetsIn, Fits
  <2>4. \A c \in Node : up[c] \in Seq(Packet) /\ down[c] \in Seq(Packet)
    BY <1>1 DEF TypeOK
  <2>5. \A c \in Node : up[c] = <<>> /\ PacketsIn(down[c]) = {}
    BY <2>1, <2>3, <2>4, QueueNonempty DEF PacketsIn
  <2>6. \A v \in Worker : iter[v] >= Rounds
    BY <1>2, <1>3, <1>5, SizeAssumption DEF RoundOk, WorkerOk, Started
  <2> QED
    BY <2>5, <2>6 DEF Winding
<1> QED
  BY <1>1, <1>3, <1>4, <1>5, SizeAssumption

\* From there on the results only go down, whatever is read of deleted tensors.
LEMMA WindingNext == ASSUME TypeOK, Winding, [Next]_vars PROVE Winding'
<1>1. /\ up \in [Node -> Seq(Packet)] /\ down \in [Node -> Seq(Packet)]
      /\ iter \in [Worker -> Nat] /\ phase \in [Worker -> {"idle", "active"}]
      /\ Worker \subseteq Node /\ Tors \subseteq Node
  BY DEF TypeOK, Node
<1>2. ASSUME UNCHANGED <<up, iter, phase>>,
             \A c \in Node : PacketsIn(down'[c]) \subseteq UNION {PacketsIn(down[d]) : d \in Node}
      PROVE  Winding'
  BY <1>2 DEF Winding
<1>3. ASSUME NEW c \in Node, down[c] # <<>>
      PROVE  /\ Head(down[c]) \in PacketsIn(down[c])
             /\ PacketsIn(Tail(down[c])) \subseteq PacketsIn(down[c])
  <2> DEFINE q == down[c]
  <2>1. q \in Seq(Packet) /\ q # <<>>
    BY <1>1, <1>3
  <2> HIDE DEF q
  <2>2. Head(q) = q[1] /\ 1 \in DOMAIN q
    BY <2>1
  <2>3. \A i \in DOMAIN Tail(q) : Tail(q)[i] = q[i + 1] /\ i + 1 \in DOMAIN q
    BY <2>1
  <2> QED
    BY <2>2, <2>3 DEF PacketsIn, q
<1>4. ASSUME NEW c \in Node, down[c] # <<>>, down' = Pop(down, c), UNCHANGED <<up, iter, phase>>
      PROVE  Winding'
  <2>1. \A d \in Node : down'[d] = IF d = c THEN Tail(down[d]) ELSE down[d]
    BY <1>1, <1>4 DEF Pop
  <2> QED
    BY <1>2, <1>3, <1>4, <2>1
<1>5. ASSUME NEW w \in Worker, StartAllreduce(w) PROVE FALSE
  <2>1. phase[w] = "idle" /\ iter[w] < Rounds /\ iter[w] \in Nat /\ Rounds \in Nat
    BY <1>1, <1>5, SizeAssumption DEF StartAllreduce
  <2>2. iter[w] >= Rounds \/ phase[w] = "active"
    BY DEF Winding
  <2> QED
    BY <2>1, <2>2
<1>6. ASSUME NEW w \in Worker, DiscardResult(w) PROVE Winding'
  BY <1>1, <1>4, <1>6 DEF DiscardResult
<1>7. ASSUME NEW w \in Worker, ReceiveResult(w) PROVE Winding'
  <2>1. down[w] # <<>> /\ down' = Pop(down, w) /\ UNCHANGED <<iter, phase>>
    BY <1>7 DEF ReceiveResult
  <2>2. ~(Head(down[w]).off + NumSlots < Head(down[w]).size)
    BY <1>1, <1>3, <2>1 DEF Winding
  <2>3. up' = up
    BY <1>7, <2>2 DEF ReceiveResult
  <2> QED
    BY <1>1, <1>4, <2>1, <2>3
<1>8. ASSUME NEW w \in Worker, FinishAllreduce(w) PROVE Winding'
  <2>1. /\ phase[w] = "active" /\ phase' = [phase EXCEPT ![w] = "idle"]
        /\ iter' = [iter EXCEPT ![w] = @ + 1] /\ UNCHANGED <<up, down>>
    BY <1>8 DEF FinishAllreduce
  <2>2. ASSUME NEW v \in Worker
        PROVE  iter'[v] >= Rounds \/ (phase'[v] = "active" /\ iter'[v] + 1 >= Rounds)
    <3>1. iter[v] >= Rounds \/ (phase[v] = "active" /\ iter[v] + 1 >= Rounds)
      BY DEF Winding
    <3>2. CASE v = w
      BY <1>1, <2>1, <3>1, <3>2, SizeAssumption
    <3>3. CASE v # w
      BY <1>1, <2>1, <3>1, <3>3
    <3> QED
      BY <3>2, <3>3
  <2> QED
    BY <2>1, <2>2 DEF Winding
<1>9. ASSUME NEW w \in Worker, DeleteTensor(w) PROVE Winding'
  BY <1>9 DEF DeleteTensor, Winding
<1>10. ASSUME NEW c \in Node, SwitchReceiveUp(c) PROVE FALSE
  BY <1>10 DEF SwitchReceiveUp, Winding
<1>11. ASSUME NEW t \in Tors, SwitchReceiveDown(t) PROVE Winding'
  <2> DEFINE p == Head(down[t])
             D == Pop(down, t)
  <2>1. /\ down[t] # <<>> /\ down' = Push(D, Children(t), p)
        /\ UNCHANGED <<up, iter, phase>>
    BY <1>11 DEF SwitchReceiveDown
  <2>2. p \in Packet /\ p \in PacketsIn(down[t])
    BY <1>1, <1>3, <2>1
  <2>3. /\ D \in [Node -> Seq(Packet)]
        /\ \A d \in Node : PacketsIn(D[d]) \subseteq PacketsIn(down[d])
    BY <1>1, <1>3, <2>1 DEF Pop
  <2> HIDE DEF p, D
  <2>4. ASSUME NEW d \in Node PROVE PacketsIn(down'[d]) \subseteq PacketsIn(D[d]) \cup {p}
    <3>1. down'[d] = IF d \in Children(t) THEN Append(D[d], p) ELSE D[d]
      BY <2>1, <2>3 DEF Push
    <3>2. \A q \in Seq(Packet) : PacketsIn(Append(q, p)) \subseteq PacketsIn(q) \cup {p}
      BY <2>2 DEF PacketsIn
    <3> QED
      BY <2>3, <3>1, <3>2
  <2> QED
    BY <1>1, <1>2, <2>1, <2>2, <2>3, <2>4
<1>12. CASE UNCHANGED vars
  BY <1>12 DEF vars, Winding
<1> QED
  BY <1>5, <1>6, <1>7, <1>8, <1>9, <1>10, <1>11, <1>12 DEF Next, WorkerStep, Quiescent

\* Every reachable state is in a round or at the end of the job.
THEOREM EndInvariant == ASSUME GatedRounds PROVE Spec => []EndInv
<1>1. Init => EndInv
  BY RoundInit, TypeInit DEF GatedRounds, EndInv
<1>2. EndInv /\ [Next]_vars => EndInv'
  <2> SUFFICES ASSUME EndInv, [Next]_vars PROVE EndInv'
    OBVIOUS
  <2>1. TypeOK /\ TypeOK'
    BY TypeNext DEF EndInv
  <2>2. CASE Winding
    BY <2>1, <2>2, WindingNext DEF EndInv
  <2>3. CASE RoundInv
    <3>1. CASE deleted' = {}
      BY <2>1, <2>3, <3>1, RoundNext DEF EndInv
    <3>2. CASE deleted' # {}
      <4>1. deleted = {}
        BY <2>3 DEF RoundInv
      <4>2. PICK w \in Worker : DeleteTensor(w)
        BY <3>2, <4>1 DEF Next, WorkerStep, StartAllreduce, DiscardResult, ReceiveResult,
           FinishAllreduce, SwitchReceiveUp, SwitchReceiveDown, Quiescent, vars
      <4>3. Winding
        BY <2>3, <4>2, FirstDelete
      <4> QED
        BY <2>1, <4>3, WindingNext DEF EndInv
    <3> QED
      BY <3>1, <3>2
  <2> QED
    BY <2>2, <2>3 DEF EndInv
<1> QED
  BY <1>1, <1>2, PTL DEF Spec

-----------------------------------------------------------------------------
(* The theorems.                                                           *)

\* Switch::receivePacket sends a result down only when every worker has sent
\* its packet for it: the counter with its two moduli is exact, for every
\* placement, window and size.
THEOREM ResultsAreComplete == ASSUME OrderedRounds PROVE Spec => []ResultIsComplete
<1>1. RoundInv => ResultIsComplete
  BY RoundImpliesComplete DEF RoundInv
<1> QED
  BY <1>1, RoundInvariant, PTL

\* The branch of Switch::receivePacket that asserts is dead when a collective
\* scheduler orders the rounds: no packet finds its own mark in its cell.
THEOREM ShadowBufferIsDead == ASSUME GatedRounds PROVE Spec => []NoShadowBuffer
<1>1. RoundInv => NoShadowBuffer
  BY RoundImpliesNoShadow DEF RoundInv
<1>2. Winding => NoShadowBuffer
  BY DEF Winding, NoShadowBuffer
<1>3. EndInv => NoShadowBuffer
  BY <1>1, <1>2 DEF EndInv
<1> QED
  BY <1>3, EndInvariant, PTL

\* A queue of the fabric holds at most NUM_SLOTS packets of a tensor, what a
\* buffer must hold for the model's lossless links.
THEOREM WindowIsTheBound == ASSUME OrderedRounds PROVE Spec => []WindowBoundsQueues
<1>1. RoundInv => WindowBoundsQueues
  BY RoundImpliesWindow DEF RoundInv
<1> QED
  BY <1>1, RoundInvariant, PTL

\* The cleaners chosen by set_switch_num_updates reach every switch of a job
\* between two rounds.
THEOREM SwitchesAreCleaned ==
    ASSUME OrderedRounds PROVE Spec => []SwitchesCleanBetweenRounds
<1>1. RoundInv => SwitchesCleanBetweenRounds
  BY RoundImpliesClean DEF RoundInv
<1> QED
  BY <1>1, RoundInvariant, PTL

\* Packets a switch adds up in one cell are for one offset, although
\* Switch::receivePacket never compares their offsets.
THEOREM CellsAlign == ASSUME GatedRounds PROVE Spec => []CellsAreAligned
<1>1. RoundInv => CellsAreAligned
  BY RoundImpliesAligned DEF RoundInv
<1>2. Winding => CellsAreAligned
  BY DEF Winding, CellsAreAligned, PacketsIn
<1>3. EndInv => CellsAreAligned
  BY <1>1, <1>2 DEF EndInv
<1> QED
  BY <1>3, EndInvariant, PTL

\* While the workers of a job end one after the other and delete their tensors, a
\* packet that goes up still has its tensor (UpwardTensorsExist): the first of
\* them ends only when all have sent everything.
THEOREM UpwardPacketsAreSafe == ASSUME GatedRounds PROVE Spec => []UpwardTensorsExist
<1>1. EndInv => UpwardTensorsExist
  <2>1. CASE Winding
    BY <2>1 DEF Winding, UpwardTensorsExist, UpPackets, PacketsIn
  <2>2. CASE RoundInv
    BY <2>2 DEF RoundInv, UpwardTensorsExist
  <2> QED
    BY <2>1, <2>2 DEF EndInv
<1> QED
  BY <1>1, EndInvariant, PTL

\* The duplicate branch of Worker::receivePacket is dead, and a result reaches
\* a worker only while its allreduce holds the lock that the last one releases.
THEOREM ResultsArrive ==
    ASSUME OrderedRounds PROVE Spec => [](ResultsArriveOnce /\ ResultsArriveInside)
<1>1. RoundInv => ResultsArriveOnce /\ ResultsArriveInside
  BY RoundImpliesOnce DEF RoundInv
<1> QED
  BY <1>1, RoundInvariant, PTL

-----------------------------------------------------------------------------
(* The fabric implements the barrier.                                        *)

\* A worker ends its allreduce only when every worker has started it.
LEMMA EndedByAll ==
    ASSUME TypeOK, NEW r \in 0 .. Rounds, RoundOk(r), NEW w \in Worker,
           phase[w] = "active", allreduce_lock[w] > 0
    PROVE  iter[w] = r /\ \A v \in Worker : Started(r, v)
<1>1. iter[w] = r /\ r < Rounds
  BY DEF RoundOk, WorkerOk, Started
<1>2. 0 \in Offsets(r)
  BY <1>1, OffsetsType
<1>3. HasResult(r, w, 0)
  BY DEF HasResult
<1>4. Complete(r, 0)
  BY <1>2, <1>3, ResultFacts DEF RoundOk
<1> QED
  BY <1>1, <1>4, CompleteSent

\* Each step of the fabric is Start, Complete or no step at all of AllReduce:
\* no worker ends an allreduce that some worker has not started.
THEOREM FabricIsABarrier == ASSUME OrderedRounds PROVE Spec => BarrierSpec
<1> DEFINE begun == [w \in Worker |-> iter[w] + (IF phase[w] = "active" THEN 1 ELSE 0)]
<1>1. Init => Barrier!Init
  BY DEF Init, Barrier!Init
<1>2. RoundInv /\ [Next]_vars => [Barrier!Next]_(Barrier!vars)
  <2> SUFFICES ASSUME RoundInv, [Next]_vars PROVE [Barrier!Next]_(Barrier!vars)
    OBVIOUS
  <2>1. TypeOK /\ Gated
    BY DEF RoundInv, OrderedRounds, GatedRounds
  <2>2. PICK r \in 0 .. Rounds : RoundOk(r)
    BY DEF RoundInv
  <2>3. ASSUME NEW w \in Worker, StartAllreduce(w) PROVE Barrier!Start(w)
    <3>1. /\ phase[w] = "idle" /\ iter[w] < Rounds /\ \A v \in Worker : iter[v] >= iter[w]
          /\ phase' = [phase EXCEPT ![w] = "active"] /\ iter' = iter
      BY <2>1, <2>3 DEF StartAllreduce, MayStart
    <3>2. begun[w] = iter[w] /\ begun[w] < Rounds
      BY <2>1, <3>1 DEF TypeOK
    <3>3. begun' = [begun EXCEPT ![w] = @ + 1]
      <4>1. phase'[w] = "active" /\ \A v \in Worker : v # w => phase'[v] = phase[v]
        BY <2>1, <3>1 DEF TypeOK
      <4>2. begun'[w] = begun[w] + 1 /\ \A v \in Worker : v # w => begun'[v] = begun[v]
        BY <2>1, <3>1, <4>1 DEF TypeOK
      <4>3. begun' = [v \in Worker |-> begun'[v]] /\ begun = [v \in Worker |-> begun[v]]
        OBVIOUS
      <4> HIDE DEF begun
      <4> QED
        BY <4>2, <4>3
    <3> QED
      BY <3>1, <3>2, <3>3 DEF Barrier!Start
  <2>4. ASSUME NEW w \in Worker, FinishAllreduce(w) PROVE Barrier!Complete(w)
    <3>1. /\ phase[w] = "active" /\ allreduce_lock[w] > 0
          /\ phase' = [phase EXCEPT ![w] = "idle"] /\ iter' = [iter EXCEPT ![w] = @ + 1]
      BY <2>4 DEF FinishAllreduce
    <3>2. iter[w] = r /\ \A v \in Worker : Started(r, v)
      BY <2>1, <2>2, <3>1, EndedByAll
    <3>3. begun[w] > iter[w]
      BY <2>1, <3>1 DEF TypeOK
    <3>4. \A v \in Worker : begun[v] > iter[w]
      <4> SUFFICES ASSUME NEW v \in Worker PROVE begun[v] > r
        BY <3>2
      <4>1. iter[v] \in {r, r + 1} /\ iter[v] \in Nat /\ Started(r, v)
        BY <2>1, <2>2, <3>2 DEF RoundOk, WorkerOk, TypeOK
      <4> QED
        BY <4>1 DEF Started
    <3>5. begun' = begun
      <4>1. \A v \in Worker : iter'[v] + (IF phase'[v] = "active" THEN 1 ELSE 0)
                               = iter[v] + (IF phase[v] = "active" THEN 1 ELSE 0)
        <5>1. phase'[w] = "idle" /\ iter'[w] = iter[w] + 1 /\ iter[w] \in Nat
          BY <2>1, <3>1 DEF TypeOK
        <5>2. \A v \in Worker : v # w => phase'[v] = phase[v] /\ iter'[v] = iter[v]
          BY <2>1, <3>1 DEF TypeOK
        <5> QED
          BY <3>1, <5>1, <5>2
      <4> QED
        BY <4>1
    <3> QED
      BY <3>1, <3>3, <3>4, <3>5 DEF Barrier!Complete
  <2>5. CASE UNCHANGED <<phase, iter>>
    BY <2>5 DEF Barrier!vars
  <2>6. \/ \E w \in Worker : StartAllreduce(w) \/ FinishAllreduce(w)
        \/ UNCHANGED <<phase, iter>>
    BY DEF Next, WorkerStep, DiscardResult, ReceiveResult, DeleteTensor, SwitchReceiveUp,
           SwitchReceiveDown, Quiescent, vars
  <2> QED
    BY <2>3, <2>4, <2>5, <2>6 DEF Barrier!Next
<1> QED
  BY <1>1, <1>2, RoundInvariant, PTL DEF Spec, BarrierSpec, Barrier!Spec
=============================================================================
