SPECIFICATION Spec
CONSTANTS
    w1 = w1
    l1 = l1
    Watchers = {w1}
    Listeners = {l1}
    RawCapacity = 1
    TapCapacity = 1
    Scrollback = 2
    MaxPrinted = 3
    MaxAttached = 2
    MaxAnnounced = 2
INVARIANTS TypeOK Unbroken Informed
PROPERTIES LastSeen
CHECK_DEADLOCK FALSE
