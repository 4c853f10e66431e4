SPECIFICATION MCSpec

CONSTANTS
    a0 = a0
    a1 = a1
    a2 = a2
    b0 = b0
    b1 = b1
    c0 = c0
    c1 = c1
    d0 = d0
    A = A
    B = B
    C = C
    J = J
    Schedulers = {"fifo", "drr", "sincronia"}
    Proc = {b0, b1, c0, c1, d0}
    JobOf <- JobsBCJ
    NLayers = 1
    NIter = 2
    Chunks <- TwoChunks
    Ends = TRUE
    WidOf <- Wid
    TorOf <- Tor
    Observed = B
    Others = {"One", "Shared"}

INVARIANTS
    OneTensorInNetwork
    LinksAreExclusive
    RoundsAreGated
    ChunksInvokedOnce
    EnqueuesKept
    OthersAreOrdered

PROPERTIES
    GatedFabricSpec
    EveryJobEnds

\* every job ends; ReadyAndGo and ByteScheduler can lose an enqueue and stop, and an
\* enqueue between the last test of a loop and its end starts no new one
CHECK_DEADLOCK FALSE
