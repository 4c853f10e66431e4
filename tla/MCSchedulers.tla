---------------------------- MODULE MCSchedulers ----------------------------
(***************************************************************************)
(* The collective schedulers for TLC.  The jobs of the cfg go to the end    *)
(* over two iterations; there are others for what these do not show:        *)
(*   One     "ready", "byte": one job of three workers, tensors of one and  *)
(*           two chunks, over three iterations                              *)
(*   Shared  "drr", "sincronia": three jobs of two workers on three racks,  *)
(*           some of which can share the network, and one of a single       *)
(*           worker, two chunks, over one iteration                         *)
(* They use the variables of Schedulers, but for cs, which is Unused then.  *)
(***************************************************************************)
EXTENDS Schedulers, TLC

CONSTANTS a0, a1, a2, b0, b1, c0, c1, d0, A, B, C, J,
    Others   \* those of One and Shared that are explored

VARIABLES cs_one, cs_shared

\* The jobs A and B can share the network; C shares a worker with A and a link with B.
Wid == a0 :> 1 @@ a1 :> 2 @@ b0 :> 3 @@ b1 :> 4 @@ c0 :> 2 @@ c1 :> 6 @@ d0 :> 5
Tor == <<1, 1, 1, 2, 2, 3>>

JobA == a0 :> A @@ a1 :> A
JobsBC == b0 :> B @@ b1 :> B @@ c0 :> C @@ c1 :> C
JobsBCJ == JobsBC @@ d0 :> J
OneJob == JobA @@ a2 :> A
AllJobs == JobA @@ JobsBCJ

TwoChunks == 0 :> 2
OneAndTwoChunks == 0 :> 1 @@ 1 :> 2

One == INSTANCE Schedulers WITH
    cs <- cs_one, Schedulers <- {"ready", "byte"}, Observed <- A,
    Proc <- DOMAIN OneJob, JobOf <- OneJob,
    NLayers <- 2, NIter <- 3, Chunks <- OneAndTwoChunks, Ends <- TRUE

Shared == INSTANCE Schedulers WITH
    cs <- cs_shared, Schedulers <- {"drr", "sincronia"}, Observed <- A,
    Proc <- DOMAIN AllJobs, JobOf <- AllJobs,
    NLayers <- 1, NIter <- 1, Chunks <- TwoChunks, Ends <- FALSE

choices == <<cs, cs_one, cs_shared>>

MCInit ==
    \/ Init /\ cs_one = Unused /\ cs_shared = Unused
    \/ "One" \in Others /\ One!Init /\ cs = Unused /\ cs_shared = Unused
    \/ "Shared" \in Others /\ Shared!Init /\ cs = Unused /\ cs_one = Unused

MCNext ==
    /\ \/ cs # Unused /\ Next
       \/ cs_one # Unused /\ One!Next
       \/ cs_shared # Unused /\ Shared!Next
    /\ UNCHANGED choices

MCSpec == MCInit /\ [][MCNext]_<<vars, choices>> /\ Fairness

\* The same for the other jobs: ReadyAndGo and ByteScheduler, although they may erase the
\* entry of a fast worker, start nothing early and nothing twice; DeficitRoundRobin and
\* Sincronia let only those jobs share the network that have no worker and no link in
\* common, and drop nothing.
OthersAreOrdered ==
    /\ One!OneTensorInNetwork /\ One!RoundsAreGated /\ One!ChunksInvokedOnce
    /\ Shared!LinksAreExclusive /\ Shared!RoundsAreGated
    /\ Shared!ChunksInvokedOnce /\ Shared!EnqueuesKept
=============================================================================
