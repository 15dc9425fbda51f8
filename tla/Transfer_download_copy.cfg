SPECIFICATION FairSpec
CONSTANTS
    N = 5
    Dirs <- MCDirs
    Above <- MCAbove
    Blocks <- MCBlocks
    late1 = late1
    Late = {late1}
    LateIn <- MCLateIn
    SrcLocal = FALSE
    DestLocal = TRUE
    IsMove = FALSE
    Holding = {}
    MaxErrors = 2
PROPERTIES Terminates
CHECK_DEADLOCK FALSE
