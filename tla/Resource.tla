------------------------------ MODULE Resource ------------------------------
(***************************************************************************)
(* resource<T> (resource.hpp): the counting lock behind fp_locks,           *)
(* allreduce_locks and the collective schedulers' locks.  A client requests *)
(* an event, awaits it and releases one unit later.  ev.trigger() only      *)
(* schedules the event with the simulation: the coroutine that awaits it    *)
(* resumes in a step of its own, after other events of the same instant.    *)
(***************************************************************************)
EXTENDS Naturals, Sequences, FiniteSets

CONSTANTS
    Client,      \* coroutines that use the lock
    Capacity     \* units the constructor is given

ASSUME ClientAssumption == IsFiniteSet(Client)
ASSUME CapacityAssumption == Capacity \in Nat \ {0}

VARIABLES
    available_,  \* free units
    evs,         \* the queue of requested events, oldest first
    state        \* the state of each client and of the event it awaits

vars == <<available_, evs, state>>

\* An event is pending, then triggered, then processed (its client holds the
\* unit); simcpp20 lets it be aborted before it is triggered.
State == {"idle", "pending", "aborted", "triggered", "holding"}

Init ==
    /\ available_ = Capacity
    /\ evs = <<>>
    /\ state = [c \in Client |-> "idle"]

\* Positions among the first k of queue q whose event is not aborted.
Live(q, st, k) == {i \in 1..k : st[q[i]] # "aborted"}

\* trigger_evs with a free units pops the first k events of q: it stops as
\* soon as the units are gone or the queue is empty, and aborted events are
\* popped without taking a unit.
Popped(q, st, a, k) ==
    /\ Cardinality(Live(q, st, k)) <= a
    /\ Cardinality(Live(q, st, k)) = a \/ k = Len(q)
    /\ \A j \in 1..k : Cardinality(Live(q, st, j - 1)) < a

\* The units trigger_evs hands out when it pops k events.
UnitsTaken(q, st, k) == Cardinality(Live(q, st, k))

\* FAULT: the events are triggered and not popped.
Remaining_NoPop(q, k) == q

\* The queue after k pops.
Remaining(q, k) == SubSeq(q, k + 1, Len(q))

\* trigger_evs, from a free units, queue q and client states st.
TriggerEvs(q, st, a) ==
    \E k \in 0..Len(q) :
        /\ Popped(q, st, a, k)
        /\ available_' = a - UnitsTaken(q, st, k)
        /\ evs' = Remaining(q, k)
        /\ state' = [c \in Client |->
             IF \E i \in 1..k : q[i] = c
             THEN IF st[c] = "aborted" THEN "idle" ELSE "triggered"
             ELSE st[c]]

\* FAULT: the newest request is served first.
Queued_Lifo(c) == <<c>> \o evs

\* evs.push(ev)
Queued(c) == Append(evs, c)

\* resource::request
Request(c) ==
    /\ state[c] = "idle"
    /\ TriggerEvs(Queued(c), [state EXCEPT ![c] = "pending"], available_)

\* The simulation processes the triggered event, the client resumes.
Resume(c) ==
    /\ state[c] = "triggered"
    /\ state' = [state EXCEPT ![c] = "holding"]
    /\ UNCHANGED <<available_, evs>>

\* FAULT: the unit is given back and nobody is woken.
Release_NoTrigger(c) ==
    /\ state[c] = "holding"
    /\ state' = [state EXCEPT ![c] = "idle"]
    /\ available_' = available_ + 1
    /\ UNCHANGED evs

\* resource::release
Release(c) ==
    /\ state[c] = "holding"
    /\ TriggerEvs(evs, [state EXCEPT ![c] = "idle"], available_ + 1)

\* event::abort on an event that still waits.
Abort(c) ==
    /\ state[c] = "pending"
    /\ state' = [state EXCEPT ![c] = "aborted"]
    /\ UNCHANGED <<available_, evs>>

Next == \E c \in Client : Request(c) \/ Resume(c) \/ Release(c) \/ Abort(c)

Spec == Init /\ [][Next]_vars

\* The event loop resumes every triggered client, and no coroutine of this
\* program keeps a unit for ever.
Fairness == \A c \in Client : WF_vars(Resume(c)) /\ WF_vars(Release(c))

FairSpec == Spec /\ Fairness

-----------------------------------------------------------------------------
\* Each variable keeps its type; a queued event is pending or aborted.
TypeOK ==
    /\ available_ \in Nat
    /\ evs \in Seq(Client)
    /\ state \in [Client -> State]

Holders == {c \in Client : state[c] \in {"triggered", "holding"}}

\* resource never grants more units than it has, and never loses one.
UnitsConserved == available_ + Cardinality(Holders) = Capacity

\* No unit is free while a live request waits: trigger_evs misses no wakeup,
\* even when aborted events stand in the queue.
NoIdleUnit ==
    available_ > 0 => \A c \in Client : state[c] # "pending"

\* The queue holds exactly the clients that wait, each once.
QueueIsWaiters ==
    /\ \A c \in Client : state[c] \in {"pending", "aborted"}
                            <=> \E i \in DOMAIN evs : evs[i] = c
    /\ \A i, j \in DOMAIN evs : evs[i] = evs[j] => i = j

Before(q, c, d) == \E i, j \in DOMAIN q : i < j /\ q[i] = c /\ q[j] = d

\* Units are handed out in the order of the requests: while a request waits,
\* no later one is triggered, nor gets ahead of it in the queue.
FirstComeFirstServed ==
    [][\A c, d \in Client :
          /\ state[c] = "pending" /\ state'[c] = "pending"
          /\ state[d] = "idle" \/ Before(evs, c, d)
          => /\ state'[d] # "triggered"
             /\ state'[d] = "pending" => Before(evs', c, d)]_vars

\* A request that is not aborted is granted in the end.
EveryRequestGranted ==
    \A c \in Client :
        state[c] = "pending" ~> state[c] \in {"holding", "aborted"}
=============================================================================
