SPECIFICATION MCSpec

CONSTANTS
    a0 = a0
    a1 = a1
    a2 = a2
    b0 = b0
    b1 = b1
    c0 = c0
    c1 = c1
    d0 = d0
    A = A
    B = B
    C = C
    J = J
    Schedulers = {"ready", "byte"}
    Proc = {a0, a1}
    JobOf <- JobA
    NLayers = 2
    NIter = 3
    Chunks <- OneAndTwoChunks
    Ends = TRUE
    WidOf <- Wid
    TorOf <- Tor
    Observed = A
    Others = {}

INVARIANTS
    EnqueuesKeptToo
    ReadyQueueAlive

\* both invariants fail; run TLC with -continue to see the second one
CHECK_DEADLOCK FALSE
