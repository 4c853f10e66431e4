SPECIFICATION FairSpec

CONSTANTS
    Worker = {w1, w2, w3}
    Core = core
    w1 = w1
    w2 = w2
    w3 = w3
    t1 = t1
    t2 = t2
    TorOf <- TwoToRs
    NumSlots = 2
    Rounds = 2
    Pkts <- Reuse
    Gated = TRUE
    FlagInit <- Initialised
    Teardown = FALSE

INVARIANTS
    ResultIsComplete
    WindowBoundsQueues
    SwitchesCleanBetweenRounds
    TypeOK

PROPERTIES
    BarrierFairSpec

\* a stop before the last round is a violation of BarrierFairSpec
CHECK_DEADLOCK FALSE
