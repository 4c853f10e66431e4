--------------------------- MODULE ResourceProofs ---------------------------
(***************************************************************************)
(* The lock invariants for every set of clients and every capacity.  The    *)
(* inductive invariant is the conjunction of the four: the queue holds the  *)
(* waiters, so what trigger_evs pops was waiting and each popped live event *)
(* takes one unit; and the loop stops only when the units or the events are *)
(* gone, so nobody is left waiting beside a free unit.                      *)
(***************************************************************************)
EXTENDS Resource, FiniteSetTheorems, TLAPS

HoldersIn(st) == {c \in Client : st[c] \in {"triggered", "holding"}}

QueueMatches(q, st) ==
    /\ \A c \in Client : st[c] \in {"pending", "aborted"}
                            <=> \E i \in DOMAIN q : q[i] = c
    /\ \A i, j \in DOMAIN q : q[i] = q[j] => i = j

IInv == TypeOK /\ UnitsConserved /\ NoIdleUnit /\ QueueIsWaiters

\* Live positions are finitely many.
LEMMA LiveFinite ==
    ASSUME NEW q, NEW st, NEW k \in Nat
    PROVE  IsFiniteSet(Live(q, st, k)) /\ Cardinality(Live(q, st, k)) \in Nat
<1>1. IsFiniteSet(1..k)
  BY FS_Interval
<1>2. Live(q, st, k) \subseteq 1..k
  BY DEF Live
<1> QED
  BY <1>1, <1>2, FS_Subset, FS_CardinalityType

\* What the loop of trigger_evs does to a queue of waiters.
LEMMA TriggerPreserves ==
    ASSUME NEW q \in Seq(Client), NEW st \in [Client -> State], NEW a \in Nat,
           QueueMatches(q, st),
           a + Cardinality(HoldersIn(st)) = Capacity,
           TriggerEvs(q, st, a)
    PROVE  IInv'
<1>1. PICK k \in 0..Len(q) :
        /\ Popped(q, st, a, k)
        /\ available_' = a - UnitsTaken(q, st, k)
        /\ evs' = SubSeq(q, k + 1, Len(q))
        /\ state' = [c \in Client |->
             IF \E i \in 1..k : q[i] = c
             THEN IF st[c] = "aborted" THEN "idle" ELSE "triggered"
             ELSE st[c]]
  BY DEF TriggerEvs, Remaining
<1> DEFINE L == Live(q, st, k)
           G == {q[i] : i \in L}
<1>2. IsFiniteSet(L) /\ Cardinality(L) \in Nat
  BY LiveFinite
<1>3. Cardinality(L) <= a /\ (Cardinality(L) = a \/ k = Len(q))
  BY <1>1 DEF Popped
<1>4. \A i \in 1..k : i \in DOMAIN q /\ q[i] \in Client /\ st[q[i]] \in {"pending", "aborted"}
  BY <1>1 DEF QueueMatches
<1>5. IsFiniteSet(G) /\ Cardinality(G) = Cardinality(L)
  <2> DEFINE f == [i \in L |-> q[i]]
  <2>1. f \in Bijection(L, G)
    <3>1. f \in Surjection(L, G)
      BY DEF Surjection
    <3>2. f \in Injection(L, G)
      BY <1>4 DEF Injection, IsInjective, Live, QueueMatches
    <3> QED
      BY <3>1, <3>2 DEF Bijection
  <2>2. ExistsBijection(L, G)
    BY <2>1 DEF ExistsBijection
  <2>3. Cardinality(L) = Cardinality(G) /\ IsFiniteSet(G)
    BY <1>2, <2>1, <2>2, FS_Bijection
  <2> QED
    BY <2>3
<1>6. TypeOK'
  <2>1. available_' \in Nat
    BY <1>1, <1>2, <1>3 DEF UnitsTaken
  <2>2. evs' \in Seq(Client)
    BY <1>1
  <2>3. state' \in [Client -> State]
    BY <1>1 DEF State
  <2> QED
    BY <2>1, <2>2, <2>3 DEF TypeOK
<1>7. UnitsConserved'
  <2>1. Holders' = HoldersIn(st) \cup G
    <3>1. ASSUME NEW c \in Client, \E i \in 1..k : q[i] = c
          PROVE  c \in Holders' <=> c \in G
      <4>1. PICK i \in 1..k : q[i] = c
        BY <3>1
      <4>2. c \in G <=> st[c] # "aborted"
        BY <4>1 DEF Live
      <4> QED
        BY <1>1, <3>1, <4>2 DEF Holders
    <3>2. ASSUME NEW c \in Client, ~\E i \in 1..k : q[i] = c
          PROVE  (c \in Holders' <=> c \in HoldersIn(st)) /\ c \notin G
      BY <1>1, <3>2 DEF Holders, HoldersIn, Live
    <3>3. ASSUME NEW c \in Client, \E i \in 1..k : q[i] = c
          PROVE  c \notin HoldersIn(st)
      BY <1>4, <3>3 DEF HoldersIn
    <3>4. G \subseteq Client
      BY <1>4 DEF Live
    <3>5. Holders' \subseteq Client /\ HoldersIn(st) \subseteq Client
      BY DEF Holders, HoldersIn
    <3> QED
      BY <3>1, <3>2, <3>3, <3>4, <3>5
  <2>2. HoldersIn(st) \cap G = {}
    BY <1>4 DEF HoldersIn, Live
  <2>3. IsFiniteSet(HoldersIn(st))
    BY ClientAssumption, FS_Subset DEF HoldersIn
  <2>4. Cardinality(Holders') = Cardinality(HoldersIn(st)) + Cardinality(G)
    <3>1. Cardinality(HoldersIn(st) \cup G)
            = Cardinality(HoldersIn(st)) + Cardinality(G)
              - Cardinality(HoldersIn(st) \cap G)
      BY <1>5, <2>3, FS_Union
    <3>2. Cardinality(HoldersIn(st) \cap G) = 0
      BY <2>2, FS_EmptySet
    <3>3. Cardinality(HoldersIn(st)) \in Nat /\ Cardinality(G) \in Nat
      BY <1>5, <2>3, FS_CardinalityType
    <3> QED
      BY <2>1, <3>1, <3>2, <3>3
  <2>5. Cardinality(HoldersIn(st)) \in Nat
    BY <2>3, FS_CardinalityType
  <2> QED
    BY <1>1, <1>2, <1>3, <1>5, <2>4, <2>5 DEF UnitsConserved, UnitsTaken
<1>8. NoIdleUnit'
  <2> SUFFICES ASSUME available_' > 0, NEW c \in Client, state'[c] = "pending"
               PROVE  FALSE
    BY DEF NoIdleUnit
  <2>1. k = Len(q)
    BY <1>1, <1>2, <1>3 DEF UnitsTaken
  <2>2. st[c] = "pending" /\ ~\E i \in 1..k : q[i] = c
    BY <1>1
  <2> QED
    BY <2>1, <2>2 DEF QueueMatches
<1>9. QueueIsWaiters'
  <2>1. \A i \in DOMAIN evs' : i + k \in DOMAIN q /\ i + k > k /\ evs'[i] = q[i + k]
    BY <1>1
  <2>2. \A i \in DOMAIN q : i > k => i - k \in DOMAIN evs' /\ evs'[i - k] = q[i]
    BY <1>1
  <2>3. \A i, j \in DOMAIN evs' : evs'[i] = evs'[j] => i = j
    <3> TAKE i, j \in DOMAIN evs'
    <3> HAVE evs'[i] = evs'[j]
    <3>1. i + k = j + k
      BY <2>1 DEF QueueMatches
    <3> QED
      BY <1>1, <3>1
  <2>4. ASSUME NEW c \in Client
        PROVE  state'[c] \in {"pending", "aborted"} <=> \E i \in DOMAIN evs' : evs'[i] = c
    <3>1. CASE \E i \in 1..k : q[i] = c
      <4>1. state'[c] \notin {"pending", "aborted"}
        BY <1>1, <3>1
      <4>2. ~\E i \in DOMAIN evs' : evs'[i] = c
        BY <1>4, <2>1, <3>1 DEF QueueMatches
      <4> QED
        BY <4>1, <4>2
    <3>2. CASE ~\E i \in 1..k : q[i] = c
      <4>1. state'[c] = st[c]
        BY <1>1, <3>2
      <4>2. (\E i \in DOMAIN q : q[i] = c) <=> (\E i \in DOMAIN evs' : evs'[i] = c)
        <5>1. ASSUME NEW i \in DOMAIN q, q[i] = c
              PROVE  i > k
          BY <1>1, <3>2, <5>1
        <5> QED
          BY <2>1, <2>2, <5>1
      <4> QED
        BY <4>1, <4>2 DEF QueueMatches
    <3> QED
      BY <3>1, <3>2
  <2> QED
    BY <2>3, <2>4 DEF QueueIsWaiters
<1> QED
  BY <1>6, <1>7, <1>8, <1>9 DEF IInv

LEMMA InitInv == Init => IInv
<1> SUFFICES ASSUME Init PROVE IInv
  OBVIOUS
<1>1. Holders = {}
  BY DEF Init, Holders
<1>2. Cardinality(Holders) = 0
  BY <1>1, FS_EmptySet
<1>3. evs = <<>> /\ DOMAIN evs = {}
  BY DEF Init
<1> QED
  BY <1>2, <1>3, CapacityAssumption
  DEF Init, IInv, TypeOK, UnitsConserved, NoIdleUnit, QueueIsWaiters, State

\* A request that joins the queue waits in it.
LEMMA RequestMatches ==
    ASSUME IInv, NEW c \in Client, Request(c)
    PROVE  QueueMatches(Append(evs, c), [state EXCEPT ![c] = "pending"])
<1> DEFINE q == Append(evs, c)
           st == [state EXCEPT ![c] = "pending"]
<1>1. \A i \in DOMAIN evs : evs[i] # c
  BY DEF IInv, QueueIsWaiters, Request
<1>2. /\ DOMAIN q = 1..(Len(evs) + 1) /\ DOMAIN evs = 1..Len(evs) /\ Len(evs) \in Nat
      /\ \A i \in DOMAIN evs : q[i] = evs[i]
      /\ q[Len(evs) + 1] = c
  BY DEF IInv, TypeOK
<1>3. \A i, j \in DOMAIN q : q[i] = q[j] => i = j
  BY <1>1, <1>2 DEF IInv, QueueIsWaiters
<1>4. ASSUME NEW d \in Client
      PROVE  st[d] \in {"pending", "aborted"} <=> \E i \in DOMAIN q : q[i] = d
  <2>1. CASE d = c
    BY <1>2, <2>1 DEF IInv, TypeOK
  <2>2. CASE d # c
    <3>1. st[d] = state[d]
      BY <2>2 DEF IInv, TypeOK
    <3>2. (\E i \in DOMAIN q : q[i] = d) <=> (\E i \in DOMAIN evs : evs[i] = d)
      BY <1>2, <2>2
    <3> QED
      BY <3>1, <3>2 DEF IInv, QueueIsWaiters
  <2> QED
    BY <2>1, <2>2
<1> QED
  BY <1>3, <1>4 DEF QueueMatches

LEMMA RequestInv == ASSUME IInv, NEW c \in Client, Request(c) PROVE IInv'
<1> DEFINE q == Append(evs, c)
           st == [state EXCEPT ![c] = "pending"]
<1>1. q \in Seq(Client) /\ st \in [Client -> State] /\ available_ \in Nat
  BY DEF IInv, TypeOK, State
<1>2. QueueMatches(q, st)
  BY RequestMatches
<1>3. HoldersIn(st) = Holders
  BY DEF HoldersIn, Holders, Request, IInv, TypeOK
<1>4. available_ + Cardinality(HoldersIn(st)) = Capacity
  BY <1>3 DEF IInv, UnitsConserved
<1>5. TriggerEvs(q, st, available_)
  BY DEF Request, Queued
<1> HIDE DEF q, st
<1> QED
  BY <1>1, <1>2, <1>4, <1>5, TriggerPreserves

LEMMA ReleaseInv == ASSUME IInv, NEW c \in Client, Release(c) PROVE IInv'
<1> DEFINE st == [state EXCEPT ![c] = "idle"]
<1>1. evs \in Seq(Client) /\ st \in [Client -> State] /\ available_ + 1 \in Nat
  BY DEF IInv, TypeOK, State
<1>2. QueueMatches(evs, st)
  BY DEF QueueMatches, IInv, TypeOK, QueueIsWaiters, Release
<1>3. Holders = HoldersIn(st) \cup {c} /\ c \notin HoldersIn(st)
  BY DEF Holders, HoldersIn, Release, IInv, TypeOK
<1>4. IsFiniteSet(HoldersIn(st))
  BY ClientAssumption, FS_Subset DEF HoldersIn
<1>5. Cardinality(Holders) = Cardinality(HoldersIn(st)) + 1
  BY <1>3, <1>4, FS_AddElement
<1>6. Cardinality(HoldersIn(st)) \in Nat
  BY <1>4, FS_CardinalityType
<1>7. available_ + 1 + Cardinality(HoldersIn(st)) = Capacity
  BY <1>1, <1>5, <1>6 DEF IInv, TypeOK, UnitsConserved
<1>8. TriggerEvs(evs, st, available_ + 1)
  BY DEF Release
<1> HIDE DEF st
<1> QED
  BY <1>1, <1>2, <1>7, <1>8, TriggerPreserves

LEMMA ResumeInv == ASSUME IInv, NEW c \in Client, Resume(c) PROVE IInv'
<1>1. Holders' = Holders
  BY DEF Holders, Resume, IInv, TypeOK
<1>2. TypeOK' /\ NoIdleUnit' /\ QueueIsWaiters'
  BY DEF IInv, TypeOK, State, NoIdleUnit, QueueIsWaiters, Resume
<1> QED
  BY <1>1, <1>2 DEF IInv, UnitsConserved, Resume

LEMMA AbortInv == ASSUME IInv, NEW c \in Client, Abort(c) PROVE IInv'
<1>1. Holders' = Holders
  BY DEF Holders, Abort, IInv, TypeOK
<1>2. TypeOK' /\ NoIdleUnit' /\ QueueIsWaiters'
  BY DEF IInv, TypeOK, State, NoIdleUnit, QueueIsWaiters, Abort
<1> QED
  BY <1>1, <1>2 DEF IInv, UnitsConserved, Abort

LEMMA StepInv == IInv /\ [Next]_vars => IInv'
<1> SUFFICES ASSUME IInv, [Next]_vars PROVE IInv'
  OBVIOUS
<1>1. ASSUME NEW c \in Client, Request(c) PROVE IInv'
  BY <1>1, RequestInv
<1>2. ASSUME NEW c \in Client, Resume(c) PROVE IInv'
  BY <1>2, ResumeInv
<1>3. ASSUME NEW c \in Client, Release(c) PROVE IInv'
  BY <1>3, ReleaseInv
<1>4. ASSUME NEW c \in Client, Abort(c) PROVE IInv'
  BY <1>4, AbortInv
<1>5. CASE UNCHANGED vars
  BY <1>5 DEF vars, IInv, TypeOK, UnitsConserved, Holders, NoIdleUnit, QueueIsWaiters
<1> QED
  BY <1>1, <1>2, <1>3, <1>4, <1>5 DEF Next

\* The lock of resource.hpp never grants more units than it has and loses none.
THEOREM ResourceConservesUnits == Spec => []UnitsConserved
<1>1. IInv => UnitsConserved
  BY DEF IInv
<1> QED
  BY InitInv, StepInv, <1>1, PTL DEF Spec

\* trigger_evs leaves no live request waiting while a unit is free.
THEOREM ResourceNoIdleUnit == Spec => []NoIdleUnit
<1>1. IInv => NoIdleUnit
  BY DEF IInv
<1> QED
  BY InitInv, StepInv, <1>1, PTL DEF Spec

\* The queue of the lock holds the waiting clients, each once, and the state
\* keeps its type.
THEOREM ResourceQueueIsWaiters == Spec => [](TypeOK /\ QueueIsWaiters)
<1>1. IInv => TypeOK /\ QueueIsWaiters
  BY DEF IInv
<1> QED
  BY InitInv, StepInv, <1>1, PTL DEF Spec

\* With one unit, as every lock of the simulator has, there is one holder.
LEMMA OneHolder == ASSUME IInv, Capacity = 1 PROVE \A c, d \in Holders : c = d
<1> SUFFICES ASSUME NEW c \in Holders, NEW d \in Holders, c # d PROVE FALSE
  OBVIOUS
<1>1. IsFiniteSet(Holders)
  BY ClientAssumption, FS_Subset DEF Holders
<1>2. {c, d} \subseteq Holders /\ {c, d} = {c} \cup {d}
  OBVIOUS
<1>3. Cardinality({c} \cup {d}) = 2
  <2>1. IsFiniteSet({c}) /\ Cardinality({c}) = 1
    BY FS_Singleton
  <2>2. d \notin {c}
    OBVIOUS
  <2>3. Cardinality({c} \cup {d}) = Cardinality({c}) + 1
    BY <2>1, <2>2, FS_AddElement
  <2> QED
    BY <2>1, <2>3
<1>4. 2 <= Cardinality(Holders)
  BY <1>1, <1>2, <1>3, FS_Subset
<1>5. Cardinality(Holders) \in Nat
  BY <1>1, FS_CardinalityType
<1> QED
  BY <1>4, <1>5 DEF IInv, TypeOK, UnitsConserved

\* Two clients of a lock of one unit, as every lock of the simulator is, never
\* hold it together.
THEOREM ResourceMutualExclusion ==
    Capacity = 1 => (Spec => [](\A c, d \in Holders : c = d))
<1> SUFFICES ASSUME Capacity = 1 PROVE Spec => [](\A c, d \in Holders : c = d)
  OBVIOUS
<1>1. IInv => \A c, d \in Holders : c = d
  BY OneHolder
<1> QED
  BY InitInv, StepInv, <1>1, PTL DEF Spec

-----------------------------------------------------------------------------
(* What a step does to the states of the clients, for the modules that use  *)
(* a lock of one unit.                                                      *)

\* Whoever waits or has been granted the unit without having resumed.
Asks(c) == state[c] \in {"pending", "aborted", "triggered"}

\* trigger_evs changes the states of waiters only.
LEMMA TriggerOutcome ==
    ASSUME NEW q \in Seq(Client), NEW st \in [Client -> State], NEW a,
           QueueMatches(q, st), TriggerEvs(q, st, a), NEW d \in Client
    PROVE  \/ state'[d] = st[d]
           \/ st[d] \in {"pending", "aborted"} /\ state'[d] \in {"idle", "triggered"}
<1>1. PICK k \in 0 .. Len(q) :
        state' = [c \in Client |-> IF \E i \in 1..k : q[i] = c
                                   THEN IF st[c] = "aborted" THEN "idle" ELSE "triggered"
                                   ELSE st[c]]
  BY DEF TriggerEvs
<1>2. CASE \E i \in 1..k : q[i] = d
  <2>1. \E i \in DOMAIN q : q[i] = d
    BY <1>2
  <2> QED
    BY <1>1, <1>2, <2>1 DEF QueueMatches
<1>3. CASE ~\E i \in 1..k : q[i] = d
  BY <1>1, <1>3
<1> QED
  BY <1>2, <1>3

\* A request adds one client to those that ask, and leaves the holder alone.
LEMMA RequestOutcome ==
    ASSUME IInv, NEW c \in Client, Request(c), NEW d \in Client
    PROVE  /\ state'[d] = "holding" <=> state[d] = "holding"
           /\ d # c /\ Asks(d)' => Asks(d)
<1> DEFINE q == Append(evs, c)
           st == [state EXCEPT ![c] = "pending"]
<1>1. q \in Seq(Client) /\ st \in [Client -> State]
  BY DEF IInv, TypeOK, State
<1>2. QueueMatches(q, st)
  BY RequestMatches
<1>3. TriggerEvs(q, st, available_)
  BY DEF Request, Queued
<1>4. state[c] = "idle" /\ st[c] = "pending" /\ (d # c => st[d] = state[d])
  BY DEF Request, IInv, TypeOK
<1>5. \/ state'[d] = st[d]
      \/ st[d] \in {"pending", "aborted"} /\ state'[d] \in {"idle", "triggered"}
  <2> HIDE DEF q, st
  <2> QED
    BY <1>1, <1>2, <1>3, TriggerOutcome
<1> QED
  BY <1>4, <1>5 DEF Asks

\* A release ends the hold of one client, and nobody begins to ask or to hold.
LEMMA ReleaseOutcome ==
    ASSUME IInv, NEW c \in Client, Release(c), NEW d \in Client
    PROVE  /\ state'[d] = "holding" <=> d # c /\ state[d] = "holding"
           /\ Asks(d)' => Asks(d)
<1> DEFINE st == [state EXCEPT ![c] = "idle"]
<1>1. evs \in Seq(Client) /\ st \in [Client -> State]
  BY DEF IInv, TypeOK, State
<1>2. QueueMatches(evs, st)
  BY DEF QueueMatches, IInv, TypeOK, QueueIsWaiters, Release
<1>3. TriggerEvs(evs, st, available_ + 1)
  BY DEF Release
<1>4. state[c] = "holding" /\ st[c] = "idle" /\ (d # c => st[d] = state[d])
  BY DEF Release, IInv, TypeOK
<1>5. \/ state'[d] = st[d]
      \/ st[d] \in {"pending", "aborted"} /\ state'[d] \in {"idle", "triggered"}
  <2> HIDE DEF st
  <2> QED
    BY <1>1, <1>2, <1>3, TriggerOutcome
<1> QED
  BY <1>4, <1>5 DEF Asks

-----------------------------------------------------------------------------
(* The order of the grants.                                                *)

\* trigger_evs pops a prefix: while a client of the queue stays pending, one
\* that stands behind it is not triggered and stays behind it.
LEMMA TriggerKeepsOrder ==
    ASSUME NEW q \in Seq(Client), NEW st \in [Client -> State], NEW a,
           QueueMatches(q, st), TriggerEvs(q, st, a),
           NEW c \in Client, NEW d \in Client,
           Before(q, c, d), state'[c] = "pending"
    PROVE  state'[d] # "triggered" /\ Before(evs', c, d)
<1>1. PICK k \in 0..Len(q) :
        /\ evs' = SubSeq(q, k + 1, Len(q))
        /\ state' = [x \in Client |-> IF \E i \in 1..k : q[i] = x
                                      THEN IF st[x] = "aborted" THEN "idle" ELSE "triggered"
                                      ELSE st[x]]
  BY DEF TriggerEvs, Remaining
<1>2. PICK i, j \in DOMAIN q : i < j /\ q[i] = c /\ q[j] = d
  BY DEF Before
<1>3. i \in 1..Len(q) /\ j \in 1..Len(q) /\ Len(q) \in Nat
  BY <1>2
<1>4. k < i
  <2> SUFFICES ASSUME i \in 1..k PROVE FALSE
    BY <1>1, <1>3
  <2>1. state'[c] \in {"idle", "triggered"}
    BY <1>1, <1>2
  <2> QED
    BY <2>1
<1>5. state'[d] # "triggered"
  <2>1. ~\E n \in 1..k : q[n] = d
    BY <1>1, <1>2, <1>3, <1>4 DEF QueueMatches
  <2>2. st[d] \in {"pending", "aborted"}
    BY <1>2 DEF QueueMatches
  <2> QED
    BY <1>1, <2>1, <2>2
<1>6. Before(evs', c, d)
  <2>1. /\ DOMAIN evs' = 1..(Len(q) - k)
        /\ \A n \in 1..(Len(q) - k) : evs'[n] = q[k + n]
    BY <1>1
  <2>2. i - k \in DOMAIN evs' /\ j - k \in DOMAIN evs'
    BY <1>1, <1>2, <1>3, <1>4, <2>1
  <2>3. evs'[i - k] = c /\ evs'[j - k] = d /\ i - k < j - k
    BY <1>1, <1>2, <1>3, <1>4, <2>1
  <2> QED
    BY <2>2, <2>3 DEF Before
<1> QED
  BY <1>5, <1>6

\* While c waits, d neither overtakes it nor is triggered.
InOrder(c, d) ==
    /\ state[c] = "pending" /\ state'[c] = "pending"
    /\ state[d] = "idle" \/ Before(evs, c, d)
    => /\ state'[d] # "triggered"
       /\ state'[d] = "pending" => Before(evs', c, d)

\* A request joins the queue at its end.
LEMMA RequestInOrder ==
    ASSUME IInv, NEW x \in Client, Request(x), NEW c \in Client, NEW d \in Client
    PROVE  InOrder(c, d)
<1> SUFFICES ASSUME state[c] = "pending", state'[c] = "pending",
                    state[d] = "idle" \/ Before(evs, c, d)
             PROVE  /\ state'[d] # "triggered"
                    /\ state'[d] = "pending" => Before(evs', c, d)
  BY DEF InOrder
<1> DEFINE q == Append(evs, x)
           st == [state EXCEPT ![x] = "pending"]
<1>1. q \in Seq(Client) /\ st \in [Client -> State]
  BY DEF IInv, TypeOK, State
<1>2. QueueMatches(q, st)
  BY RequestMatches
<1>3. TriggerEvs(q, st, available_)
  BY DEF Request, Queued
<1>4. /\ DOMAIN q = 1..(Len(evs) + 1) /\ DOMAIN evs = 1..Len(evs) /\ Len(evs) \in Nat
      /\ \A i \in DOMAIN evs : q[i] = evs[i]
      /\ q[Len(evs) + 1] = x
  BY DEF IInv, TypeOK
<1>5. CASE d = x
  <2>1. PICK i \in DOMAIN evs : evs[i] = c
    BY DEF IInv, QueueIsWaiters
  <2>2. Before(q, c, d)
    BY <1>4, <1>5, <2>1 DEF Before
  <2> HIDE DEF q, st
  <2> QED
    BY <1>1, <1>2, <1>3, <2>2, TriggerKeepsOrder
<1>6. CASE d # x /\ Before(evs, c, d)
  <2>1. Before(q, c, d)
    BY <1>4, <1>6 DEF Before
  <2> HIDE DEF q, st
  <2> QED
    BY <1>1, <1>2, <1>3, <2>1, TriggerKeepsOrder
<1>7. CASE d # x /\ state[d] = "idle"
  <2>1. st[d] = "idle"
    BY <1>7 DEF IInv, TypeOK
  <2> HIDE DEF q, st
  <2>2. state'[d] = "idle"
    BY <1>1, <1>2, <1>3, <2>1, TriggerOutcome
  <2> QED
    BY <2>2
<1> QED
  BY <1>5, <1>6, <1>7

\* A release pops from the front.
LEMMA ReleaseInOrder ==
    ASSUME IInv, NEW x \in Client, Release(x), NEW c \in Client, NEW d \in Client
    PROVE  InOrder(c, d)
<1> SUFFICES ASSUME state[c] = "pending", state'[c] = "pending",
                    state[d] = "idle" \/ Before(evs, c, d)
             PROVE  /\ state'[d] # "triggered"
                    /\ state'[d] = "pending" => Before(evs', c, d)
  BY DEF InOrder
<1> DEFINE st == [state EXCEPT ![x] = "idle"]
<1>1. evs \in Seq(Client) /\ st \in [Client -> State]
  BY DEF IInv, TypeOK, State
<1>2. QueueMatches(evs, st)
  BY DEF QueueMatches, IInv, TypeOK, QueueIsWaiters, Release
<1>3. TriggerEvs(evs, st, available_ + 1)
  BY DEF Release
<1>4. CASE Before(evs, c, d)
  <2> HIDE DEF st
  <2> QED
    BY <1>1, <1>2, <1>3, <1>4, TriggerKeepsOrder
<1>5. CASE state[d] = "idle"
  <2>1. st[d] = "idle"
    BY <1>5 DEF IInv, TypeOK
  <2> HIDE DEF st
  <2>2. state'[d] = "idle"
    BY <1>1, <1>2, <1>3, <2>1, TriggerOutcome
  <2> QED
    BY <2>2
<1> QED
  BY <1>4, <1>5

\* A client that resumes or aborts leaves the queue alone.
LEMMA OthersInOrder ==
    ASSUME IInv, NEW x \in Client, Resume(x) \/ Abort(x), NEW c \in Client, NEW d \in Client
    PROVE  InOrder(c, d)
<1>1. evs' = evs /\ (state'[d] = "triggered" => state[d] = "triggered")
  BY DEF Resume, Abort, IInv, TypeOK
<1>2. Before(evs, c, d) => state[d] \in {"pending", "aborted"}
  BY DEF Before, IInv, QueueIsWaiters
<1>3. evs' = evs /\ (state'[d] = "pending" => state[d] = "pending")
  BY DEF Resume, Abort, IInv, TypeOK
<1> QED
  BY <1>1, <1>2, <1>3 DEF InOrder

\* Units are handed out in the order of the requests (resource::request,
\* trigger_evs): while a request waits, no later one is triggered, whatever is
\* aborted and released meanwhile.
THEOREM ResourceIsFirstComeFirstServed == Spec => FirstComeFirstServed
<1>1. ASSUME IInv, [Next]_vars
      PROVE  (\A c, d \in Client : InOrder(c, d)) \/ UNCHANGED vars
  BY <1>1, RequestInOrder, ReleaseInOrder, OthersInOrder DEF Next
<1>2. IInv /\ [Next]_vars
        => [\A c, d \in Client :
              /\ state[c] = "pending" /\ state'[c] = "pending"
              /\ state[d] = "idle" \/ Before(evs, c, d)
              => /\ state'[d] # "triggered"
                 /\ state'[d] = "pending" => Before(evs', c, d)]_vars
  BY <1>1 DEF InOrder
<1> QED
  BY InitInv, StepInv, <1>2, PTL DEF Spec, FirstComeFirstServed
=============================================================================
