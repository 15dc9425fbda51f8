SPECIFICATION Spec
CONSTANTS
    local = local
    remote = remote
    drives = drives
    a = a
    z = z
    t1 = t1
    t2 = t2
    Names = {a, z}
    Archives = {z}
    Bases = {local, remote}
    Base = local
    Local = local
    RootFs = {}
    Networked = {remote}
    Tasks = {t1, t2}
    MaxDepth = 2
    MaxRequests = 3
    MaxOverlapping = 3
INVARIANT TypedOnlyWhileResolving
CHECK_DEADLOCK FALSE
