-------------------------- MODULE ClusterScheduler --------------------------
(***************************************************************************)
(* The control plane: broker adds the jobs to the cluster in the order of   *)
(* their submit times, cluster_scheduler polls the cluster, asks the        *)
(* scheduling algorithm for a job and the placement algorithm for GPUs, and *)
(* starts execute_job on every worker of the placement.  A worker gives its *)
(* GPUs back when its own execute_job ends; rank 0 also marks the job       *)
(* finished.  Training time is arbitrary: a worker may end at any time.     *)
(***************************************************************************)
EXTENDS Integers, FiniteSets, Functions, FiniteSetsExt

CONSTANTS
    Worker,
    TorOf,           \* the switch each worker hangs from
    GpusPerNode,     \* GPUS_PER_NODE
    NJobs,           \* jobs are numbered in the order of their submit times
    Gpus,            \* GPUs each job asks for
    SchedulingAlgo,  \* the values of JOB_SCHEDULER that are explored
    PlacementAlgo    \* the values of PLACEMENT that are explored

JobIds == 1 .. NJobs

ASSUME ClusterAssumption ==
    /\ IsFiniteSet(Worker) /\ Worker # {}
    /\ GpusPerNode \in Nat \ {0} /\ NJobs \in Nat \ {0}
    /\ Gpus \in [JobIds -> Nat \ {0}]
    /\ SchedulingAlgo \subseteq {"fcfs", "onebyone", "fitfirst"}
    /\ PlacementAlgo \subseteq {"yarn", "yarn_random", "random", "random_distributed",
                                "random_multi_rack"}

VARIABLES
    scheduling_algo, placement_algo,  \* what main reads from the environment
    jobs,        \* cluster.jobs: those submitted so far are 1 .. jobs
    all_jobs_submitted, all_jobs_started, all_jobs_finished,
    start_time,  \* the jobs whose start_time is set
    finish_time, \* the jobs whose finish_time is set
    gpu,         \* free GPUs of each worker
    run_config,  \* GPUs of each worker given to each job
    rank0,       \* the worker of rank 0 of each started job
    busy,        \* the workers on which execute_job of each job has not ended
    scheduler    \* cluster_scheduler: "polling", "over", or "exited" by exit(1)

environment == <<scheduling_algo, placement_algo>>
flags == <<all_jobs_submitted, all_jobs_started, all_jobs_finished>>
clusterVars == <<environment, jobs, flags, start_time, finish_time, gpu, run_config, rank0, busy,
          scheduler>>

Total(f) == FoldFunction(+, 0, f)
Used(f) == {w \in Worker : f[w] > 0}
Racks(f) == {TorOf[w] : w \in Used(f)}

ClusterInit ==
    /\ scheduling_algo \in SchedulingAlgo
    /\ placement_algo \in PlacementAlgo
    /\ jobs = 0
    /\ all_jobs_submitted = FALSE
    /\ all_jobs_started = FALSE
    /\ all_jobs_finished = FALSE
    /\ start_time = {}
    /\ finish_time = {}
    /\ gpu = [w \in Worker |-> GpusPerNode]
    /\ run_config = [j \in JobIds |-> [w \in Worker |-> 0]]
    /\ rank0 = [j \in JobIds |-> CHOOSE w \in Worker : TRUE]
    /\ busy = [j \in JobIds |-> {}]
    /\ scheduler = "polling"

-----------------------------------------------------------------------------
\* FAULT: the GPUs of other jobs count as free.
Samples_Capacity(n) ==
    {f \in [Worker -> 0 .. GpusPerNode] : Total(f) = n}

\* std::ranges::sample of n of the free GPUs.
Samples(n) ==
    {f \in [Worker -> 0 .. GpusPerNode] :
        (\A w \in Worker : f[w] <= gpu[w]) /\ Total(f) = n}

\* RandomPlacement::place_job_in: it samples until what it must do is done.
RandomPlacement(n, force_distributed, force_multi_racks) ==
    {f \in Samples(n) :
        /\ (force_distributed /\ n > 1 /\ Cardinality(Used(gpu)) > 1)
               => Cardinality(Used(f)) > 1
        /\ (force_multi_racks /\ n > 1 /\ Cardinality(Racks(gpu)) > 1)
               => Cardinality(Racks(f)) > 1}

\* YARNPlacement::place_job_in: one worker, or else one rack, or else any.
YARNPlacement(n, use_random_when_fail) ==
    LET onWorker == {f \in Samples(n) : Cardinality(Used(f)) = 1}
        inRack == {f \in Samples(n) : Cardinality(Racks(f)) = 1}
    IN  IF onWorker # {} THEN onWorker
        ELSE IF inRack # {} THEN inRack
        ELSE IF use_random_when_fail THEN Samples(n) ELSE {}

\* What place_job_in may return for a job; none when it returns an empty map.
PlaceJobIn(j) ==
    CASE placement_algo = "yarn" -> YARNPlacement(Gpus[j], FALSE)
      [] placement_algo = "yarn_random" -> YARNPlacement(Gpus[j], TRUE)
      [] placement_algo = "random" -> RandomPlacement(Gpus[j], FALSE, FALSE)
      [] placement_algo = "random_distributed" -> RandomPlacement(Gpus[j], TRUE, FALSE)
      [] placement_algo = "random_multi_rack" -> RandomPlacement(Gpus[j], TRUE, TRUE)

-----------------------------------------------------------------------------
Waiting == (1 .. jobs) \ start_time

First(S) == {j \in S : \A k \in S : j <= k}

\* FirstComeFirstServed::choose_job_to_execute_in: the loop returns the first
\* job that waits, unless it blocks on one before it that runs.
FirstComeFirst(blocking) ==
    {j \in First(Waiting) : blocking => \A k \in 1 .. j - 1 : k \in finish_time}

\* FitFirst::choose_job_to_execute_in.
FitFirst == First({j \in Waiting : PlaceJobIn(j) # {}})

\* The job choose_job_to_execute_in returns; none for nullptr.
Chosen ==
    CASE scheduling_algo = "fcfs" -> FirstComeFirst(FALSE)
      [] scheduling_algo = "onebyone" -> FirstComeFirst(TRUE)
      [] scheduling_algo = "fitfirst" -> FitFirst

\* Cluster::num_running_jobs: started, not finished.
RunningJobs == start_time \ finish_time

\* FAULT: jobs that are still to come do not count.
AllJobsStarted_SoFar(S) == 1 .. jobs \subseteq S

\* Cluster::check_if_all_jobs_started, with the start times of S set.
AllJobsStarted(S) == all_jobs_submitted /\ 1 .. jobs \subseteq S

\* FAULT: jobs that have not started do not count.
AllJobsFinished_SoFar(S) == start_time \subseteq S

\* Cluster::check_if_all_jobs_finished, with the finish times of S set.
AllJobsFinished(S) == all_jobs_started /\ 1 .. jobs \subseteq S

\* broker: a job's submit time has come; after the last one the loop is over.
Submit ==
    /\ scheduler # "exited"
    /\ jobs < NJobs
    /\ jobs' = jobs + 1
    /\ all_jobs_submitted' = (jobs + 1 = NJobs)
    /\ UNCHANGED <<environment, all_jobs_started, all_jobs_finished, start_time,
                   finish_time, gpu, run_config, rank0, busy, scheduler>>

Polls == scheduler = "polling" /\ ~all_jobs_started

\* The chosen job can be placed: execute_job starts on its workers, whose ranks
\* follow the order of an unordered map.
Start(j) ==
    /\ Polls
    /\ j \in Chosen
    /\ \E config \in PlaceJobIn(j) : \E w \in Used(config) :
        /\ run_config' = [run_config EXCEPT ![j] = config]
        /\ rank0' = [rank0 EXCEPT ![j] = w]
        /\ busy' = [busy EXCEPT ![j] = Used(config)]
        /\ gpu' = [v \in Worker |-> gpu[v] - config[v]]
    /\ start_time' = start_time \union {j}
    /\ all_jobs_started' = AllJobsStarted(start_time \union {j})
    /\ UNCHANGED <<environment, jobs, all_jobs_submitted, all_jobs_finished,
                   finish_time, scheduler>>

\* The chosen job cannot be placed and no job runs: exit(1).
GiveUp(j) ==
    /\ Polls
    /\ j \in Chosen
    /\ PlaceJobIn(j) = {}
    /\ RunningJobs = {}
    /\ scheduler' = "exited"
    /\ UNCHANGED <<environment, jobs, flags, start_time, finish_time, gpu, run_config,
                   rank0, busy>>

\* while (!cluster.all_jobs_started) ends.
Stop ==
    /\ scheduler = "polling"
    /\ all_jobs_started
    /\ scheduler' = "over"
    /\ UNCHANGED <<environment, jobs, flags, start_time, finish_time, gpu, run_config,
                   rank0, busy>>

\* FAULT: the worker keeps its GPUs.
GivenBack_None(j, w) == 0

\* gpu += gpus_required
GivenBack(j, w) == run_config[j][w]

\* The end of execute_job on a worker.
EndJob(j, w) ==
    /\ scheduler # "exited"
    /\ w \in busy[j]
    /\ busy' = [busy EXCEPT ![j] = @ \ {w}]
    /\ gpu' = [gpu EXCEPT ![w] = @ + GivenBack(j, w)]
    /\ IF w = rank0[j]
       THEN /\ finish_time' = finish_time \union {j}
            /\ all_jobs_finished' =
                 (all_jobs_finished \/ AllJobsFinished(finish_time \union {j}))
       ELSE UNCHANGED <<finish_time, all_jobs_finished>>
    /\ UNCHANGED <<environment, jobs, all_jobs_submitted, all_jobs_started,
                   start_time, run_config, rank0, scheduler>>

ClusterOver ==
    /\ \/ scheduler = "exited"
       \/ scheduler = "over" /\ \A j \in JobIds : busy[j] = {}
    /\ UNCHANGED clusterVars

Scheduler == Stop \/ \E j \in JobIds : Start(j) \/ GiveUp(j)

ClusterNext ==
    \/ Submit
    \/ Scheduler
    \/ \E j \in JobIds, w \in Worker : EndJob(j, w)
    \/ ClusterOver

ClusterSpec == ClusterInit /\ [][ClusterNext]_clusterVars

\* Submit times come, the scheduler's timeouts expire, execute_job ends.
ClusterFairSpec ==
    /\ ClusterSpec
    /\ WF_clusterVars(Submit)
    /\ WF_clusterVars(Scheduler)
    /\ \A j \in JobIds, w \in Worker : WF_clusterVars(EndJob(j, w))

-----------------------------------------------------------------------------
\* Every variable keeps its type.
ClusterTypes ==
    /\ scheduling_algo \in SchedulingAlgo /\ placement_algo \in PlacementAlgo
    /\ jobs \in 0 .. NJobs
    /\ all_jobs_submitted \in BOOLEAN
    /\ all_jobs_started \in BOOLEAN
    /\ all_jobs_finished \in BOOLEAN
    /\ finish_time \subseteq start_time /\ start_time \subseteq JobIds
    /\ gpu \in [Worker -> 0 .. GpusPerNode]
    /\ run_config \in [JobIds -> [Worker -> 0 .. GpusPerNode]]
    /\ rank0 \in [JobIds -> Worker]
    /\ busy \in [JobIds -> SUBSET Worker]
    /\ scheduler \in {"polling", "over", "exited"}

\* What a worker has free and what the jobs that run on it hold.
GpusAddUp ==
    \A w \in Worker :
        gpu[w] + MapThenSumSet(LAMBDA j : run_config[j][w],
                               {j \in JobIds : w \in busy[j]}) = GpusPerNode

\* "Something wrong with the placement": no job gets GPUs that another still holds,
\* and none is lost, whatever the order of starts and ends.  A number below zero
\* stands for gpu, which is unsigned, having wrapped; CHECK_GE(gpu, 0) cannot fail.
GpusConserved == GpusAddUp /\ \A w \in Worker : gpu[w] >= 0

\* all_jobs_finished is not set early, whatever the order of submissions, starts
\* and ends.
FinishedIsFinished == all_jobs_finished => finish_time = JobIds

\* "Job %d cannot be placed in the cluster": the program exits only for a job that
\* is larger than the cluster.
ExitMeansTooLarge ==
    scheduler = "exited" =>
        \E j \in Waiting : Gpus[j] > GpusPerNode * Cardinality(Worker)

\* Unless the program gives up on a job, every job is run to its end, and the
\* program knows.
AllJobsFinish ==
    <>(scheduler = "exited" \/ (all_jobs_finished /\ \A j \in JobIds : busy[j] = {}))
=============================================================================
