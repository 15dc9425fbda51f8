SPECIFICATION Spec
CONSTANTS
    N = 5
    Dirs <- MCDirs
    Above <- MCAbove
    Blocks <- MCBlocks
    late1 = late1
    Late = {late1}
    LateIn <- MCLateIn
    SrcLocal = TRUE
    DestLocal = TRUE
    IsMove = TRUE
    Holding = {1}
    MaxErrors = 1
INVARIANT ContentSafe
CHECK_DEADLOCK FALSE
