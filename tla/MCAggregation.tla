--------------------------- MODULE MCAggregation ---------------------------
(* Instances of Aggregation for TLC: placements, round sizes and the values *)
(* of the cleaner flag.                                                      *)
EXTENDS Aggregation, TLC

CONSTANTS w1, w2, w3, t1, t2

\* Three workers under one ToR switch.
OneToR == w1 :> t1 @@ w2 :> t1 @@ w3 :> t1

\* Two workers under one ToR, and one worker alone under another.
TwoToRs == w1 :> t1 @@ w2 :> t1 @@ w3 :> t2

\* A tensor of two chunks, the last one shorter; and one of two equal rounds.
Chunks == <<3, 1>>

\* With two slots, the first slot is used three times in the first round.
Reuse == <<5, 1>>

Wholes == <<3, 3>>
Single == <<3>>

\* cleaner_worker_set is value-initialised in HierarchicalTopology, and an
\* uninitialised local in CustomTopology.
Initialised == {FALSE}
Uninitialised == BOOLEAN
=============================================================================
