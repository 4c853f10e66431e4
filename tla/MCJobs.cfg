SPECIFICATION SpecJobs

CONSTANTS
    c1 = c1
    c2 = c2
    c3 = c3
    c4 = c4
    Client = {c1, c2, c3, c4}
    Capacity = 2
    a0 = a0
    a1 = a1
    b0 = b0
    A = A
    B = B
    Proc = {a0, a1, b0}
    JobOf <- TwoAndOne
    NLayers = 2
    NIter = 3
    Chunks <- WholeTensors
    Ends = TRUE
    w1 = w1
    w2 = w2
    w3 = w3
    Worker = {w1, w2, w3}
    TorOf <- TwoRacks
    GpusPerNode = 2
    NJobs = 3
    Gpus <- Small
    SchedulingAlgo = {"fcfs", "onebyone", "fitfirst"}
    PlacementAlgo = {"yarn_random", "random_multi_rack"}

INVARIANTS
    UnitsConserved
    NoIdleUnit
    ForwardAfterAllreduce
    CleanupAfterAllreduce
    GpusConserved

PROPERTIES
    FirstComeFirstServed
    EveryRequestGranted
    LoopsEnd
    JobsFinish

\* a stop too early is a violation of EveryRequestGranted, LoopsEnd or JobsFinish
CHECK_DEADLOCK FALSE
