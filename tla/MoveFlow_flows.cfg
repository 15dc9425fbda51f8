SPECIFICATION Spec
CONSTANTS
    disc = disc
    usb = usb
    net = net
    dir = dir
    a = a
    b = b
    x = x
    y = y
    z = z
    f1 = f1
    f2 = f2
    junk = junk
    FileSystems = {disc, usb, net}
    Dirs = {dir}
    Local = {disc, usb}
    Rebuildable = {disc, usb}
    Contents = {x, y, z}
    Flows = {f1, f2}
    Entries <- MCEntries
    Start <- MCStart
    MaxOps = 2
    MaxGestures = 3
    MaxFaults = 1
INVARIANTS TypeOK ContentKept
SYMMETRY Symmetric
PROPERTIES DeclinedStay
CHECK_DEADLOCK FALSE
