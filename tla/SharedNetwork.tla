--------------------------- MODULE SharedNetwork ---------------------------
(***************************************************************************)
(* What the collective schedulers ask HierarchicalTopology: whether a job   *)
(* can use the network beside those that use it already.                    *)
(***************************************************************************)
EXTENDS CollectiveScheduler

CONSTANTS
    WidOf,   \* the worker (machine) each execute_job runs on
    TorOf    \* HOST_ToR_SWITCH of each worker

WidsAllocated(j) == {WidOf[p] : p \in Workers(j)}

\* The ToRs whose link to the core a placement on these workers needs.
Uplinks(wids) ==
    LET tors == {TorOf[w] : w \in wids}
    IN  IF Cardinality(tors) = 1 THEN {} ELSE tors

\* FAULT: the links to the core are not looked at.
Accommodate_WorkersOnly(these, those) == these \intersect those = {}

Accommodate(these, those) ==
    /\ these \intersect those = {}
    /\ Uplinks(these) \intersect Uplinks(those) = {}

Wids(jobs) == UNION {WidsAllocated(j) : j \in jobs}

-----------------------------------------------------------------------------
InNetwork(j) == \E p \in Workers(j), i \in Layer : started[p][i] > done[p][i]

\* The jobs whose allreduces are in the network at the same time share no worker
\* and no link to the core, although accommodate compares each job with the union
\* of those before it and jobs join as queues fill.
LinksAreExclusive ==
    \A j, k \in Job : j # k /\ InNetwork(j) /\ InNetwork(k) =>
        /\ WidsAllocated(j) \intersect WidsAllocated(k) = {}
        /\ Uplinks(WidsAllocated(j)) \intersect Uplinks(WidsAllocated(k)) = {}
=============================================================================
