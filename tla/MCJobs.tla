------------------------------- MODULE MCJobs -------------------------------
(***************************************************************************)
(* What runs a job beside its network, for TLC, one part at a time: the     *)
(* control plane that places the jobs, the training loop of its workers     *)
(* without a collective scheduler, and the lock of resource.hpp on which    *)
(* the loop waits.  What does not belong to the part that Init chooses      *)
(* keeps its initial value.                                                 *)
(***************************************************************************)
EXTENDS Resource, Ungoverned, ClusterScheduler, TLC

CONSTANTS c1, c2, c3, c4, a0, a1, b0, A, B, w1, w2, w3

VARIABLE part

jobsVars == <<part, vars, trainingVars, clusterVars>>

\* A job of two workers and one of a single worker.
TwoAndOne == a0 :> A @@ a1 :> A @@ b0 :> B

WholeTensors == [i \in Layer |-> 1]

\* Two workers in one rack and one in another; three jobs that do not fit together.
TwoRacks == w1 :> 1 @@ w2 :> 1 @@ w3 :> 2
Small == <<3, 5, 2>>

InitJobs ==
    /\ part \in {"lock", "loop", "cluster"} /\ Init /\ LoopInit /\ ClusterInit
    /\ part # "cluster" => scheduling_algo = "fcfs" /\ placement_algo = "yarn_random"

Lock(A_) == part = "lock" /\ A_ /\ UNCHANGED <<part, trainingVars, clusterVars>>
Loop(A_) == part = "loop" /\ A_ /\ UNCHANGED <<part, vars, clusterVars>>
Cluster(A_) == part = "cluster" /\ A_ /\ UNCHANGED <<part, vars, trainingVars>>

NextJobs == Lock(Next) \/ Loop(LoopNext) \/ Cluster(ClusterNext)

FairJobs ==
    /\ \A c \in Client : /\ WF_jobsVars(Lock(Resume(c))) /\ WF_jobsVars(Lock(Release(c)))
    /\ \A p \in Proc : WF_jobsVars(Loop(LoopStep(p)))
    /\ WF_jobsVars(Cluster(Submit)) /\ WF_jobsVars(Cluster(Scheduler))
    /\ \A j \in JobIds : WF_jobsVars(Cluster(\E w \in Worker : EndJob(j, w)))

SpecJobs == InitJobs /\ [][NextJobs]_jobsVars /\ FairJobs

\* JobEndsIfRoundsDo, where the loops run.
LoopsEnd == part = "loop" => JobEndsIfRoundsDo

\* AllJobsFinish, where the cluster runs.
JobsFinish == part = "cluster" => AllJobsFinish
=============================================================================
