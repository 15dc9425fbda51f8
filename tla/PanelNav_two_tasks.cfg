SPECIFICATION Spec
CONSTANTS
    local = local
    remote = remote
    drives = drives
    a = a
    z = z
    t1 = t1
    t2 = t2
    Names = {a, z}
    Archives = {z}
    Bases = {drives, local, remote}
    Base = drives
    Local = local
    RootFs = {drives}
    Networked = {remote}
    Tasks = {t1, t2}
    MaxDepth = 2
    MaxRequests = 4
    MaxOverlapping = 3
INVARIANTS TypeOK LevelsAsTyped HistoryMoves EntriesOfLevel HistoryListed TypedUnlessGivenUp
SYMMETRY Symmetric
CHECK_DEADLOCK FALSE
