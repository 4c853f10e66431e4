SPECIFICATION Spec

CONSTANTS
    Worker = {w1, w2, w3}
    Core = core
    w1 = w1
    w2 = w2
    w3 = w3
    t1 = t1
    t2 = t2
    TorOf <- TwoToRs
    NumSlots = 2
    Rounds = 2
    Pkts <- Wholes
    Gated = FALSE
    FlagInit <- Initialised
    Teardown = FALSE

INVARIANTS
    NoShadowBuffer

\* a packet dropped by the shadow buffer branch stops its round
CHECK_DEADLOCK FALSE
