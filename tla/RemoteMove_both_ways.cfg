SPECIFICATION Spec
CONSTANTS
    mv = mv
    pn = pn
    nobody = nobody
    N = 2
    Users = {mv, pn}
    Files = {1, 2}
    PeerFiles = {1, 2}
    mover = mv
    panel = pn
    MaxTunnels = 3
    MaxFaults = 2
    Capacity = 1
    MaxRequests = 5
    MaxPeerFaults = 2
    MaxTrouble = 2
    MaxRetries = 1
    MaxCalls = 1
INVARIANTS TypeOK ContentKept StopsAtFirst SuccessMoved ErrorsHaveCause NoStaleWaiter SomebodyGoesOn
CHECK_DEADLOCK FALSE
